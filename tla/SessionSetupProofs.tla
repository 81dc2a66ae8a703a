------------------------- MODULE SessionSetupProofs -------------------------
(***************************************************************************)
(* Invariance proofs for SessionSetup, for every set of clients and every  *)
(* number of queue pairs.                                                  *)
(*                                                                         *)
(* Two things carry the argument.  What a message says is fixed when its   *)
(* client is: a channel only ever holds the four messages that follow from *)
(* the count the client asks for and the server's limit.  And the server   *)
(* accepts a client once, so the queue pairs it has connected before it    *)
(* publishes the namespace are never touched again.                        *)
(***************************************************************************)
EXTENDS SessionSetup, FiniteSetTheorems, TLAPS

-----------------------------------------------------------------------------
(* The inductive invariant. *)

\* the count the server grants a client, and the messages of its session
Granted(c) == Negotiated(client[c].asked)
CountRequest(c) == Info("QpCountRequest", client[c].asked, <<>>)
CountResponse(c) == Info("QpCountResponse", Granted(c), <<>>)
Endpoints(c) == Info("QpEndpoints", Granted(c), Identities(Granted(c)))

InSession == server.pc \notin {"accept", "exit"}
Queued(c) == \E k \in 1 .. Len(backlog) : backlog[k] = c

\* A channel holds nothing but its session's messages.
MessageInv ==
  \A c \in Clients :
    /\ \A k \in 1 .. Len(toServer[c]) : toServer[c][k] \in {CountRequest(c), Endpoints(c)}
    /\ \A k \in 1 .. Len(toClient[c]) : toClient[c][k] \in {CountResponse(c), Endpoints(c)}

\* A client past the exchange has connected its queue pairs to the server's in
\* order; it opens only after the server has published the namespace.
ClientInv ==
  \A c \in Clients :
    /\ client[c].pc \in {"bootstrap", "observe", "open"} => client[c].qps = Identities(Granted(c))
    /\ client[c].pc = "open" => published[c]

\* The queue pairs of the session under way: created, then connected, then published.
SessionInv ==
  InSession =>
    /\ Current \in Clients
    /\ server.pc \in {"create", "endpoints"} => serverQps[Current] = Unconnected(Granted(Current))
    /\ server.pc = "connect" => server.peers = Identities(Granted(Current))
    /\ server.pc \in {"receive", "bootstrap", "namespace", "slots", "serve"}
         => serverQps[Current] = Identities(Granted(Current))
    /\ server.pc \in {"request", "create", "endpoints", "connect"} => ~published[Current]

\* A client is accepted once: it is never twice in the backlog, nor there again
\* while it is served, and nothing is published to it before.
TurnInv ==
  /\ \A j, k \in 1 .. Len(backlog) : backlog[j] = backlog[k] => j = k
  /\ InSession => ~Queued(Current)
  /\ \A c \in Clients : Queued(c) => ~published[c]
  /\ \A c \in Clients : client[c].pc = "start" =>
       ~Queued(c) /\ ~published[c] /\ (InSession => Current # c)

\* What was published to is connected, for good.
PublishedInv == \A c \in Clients : published[c] => serverQps[c] = Identities(Granted(c))

\* The server still takes clients: it has served fewer than there are.
ServedInv == server.pc # "exit" /\ Clients # {} => server.served < Cardinality(Clients)

IInv ==
  /\ TypeOK /\ MessageInv /\ ClientInv /\ SessionInv /\ TurnInv /\ PublishedInv /\ ServedInv

-----------------------------------------------------------------------------
(* Lists, channels and messages. *)

\* The two lists a side makes of n queue pairs are sequences of that length.
LEMMA ListFacts ==
  ASSUME NEW n \in 1 .. MaxQps
  PROVE  /\ Identities(n) \in Lists /\ Unconnected(n) \in Lists /\ <<>> \in Lists
         /\ Len(Unconnected(n)) = n
<1>0. MaxQps \in Nat /\ n \in Nat /\ n >= 1 /\ n <= MaxQps /\ n \in 0 .. MaxQps
  BY SetupAssumption
<1>1. Identities(n) \in [1 .. n -> 0 .. MaxQps] /\ Unconnected(n) \in [1 .. n -> 0 .. MaxQps]
  BY <1>0 DEF Identities, Unconnected, NoPeer
<1>2. Unconnected(n) \in Seq(0 .. MaxQps)
  BY <1>0, <1>1
<1>3. Len(Unconnected(n)) = n
  BY <1>0, <1>1, <1>2
<1>4. <<>> \in [1 .. 0 -> 0 .. MaxQps] /\ 0 \in 0 .. MaxQps
  BY <1>0
<1> QED  BY <1>0, <1>1, <1>3, <1>4 DEF Lists

\* A message is put into one of the channels.
LEMMA ChannelAppend ==
  ASSUME NEW f \in [Clients -> Seq(Infos)], NEW c \in Clients, NEW m \in Infos,
         NEW g, g = [f EXCEPT ![c] = Append(@, m)]
  PROVE  /\ g \in [Clients -> Seq(Infos)]
         /\ \A d \in Clients : \A k \in 1 .. Len(g[d]) :
              (d = c /\ g[d][k] = m) \/ (k \in 1 .. Len(f[d]) /\ g[d][k] = f[d][k])
<1>1. g[c] = Append(f[c], m) /\ \A d \in Clients : d # c => g[d] = f[d]
  OBVIOUS
<1>2. f[c] \in Seq(Infos)
  OBVIOUS
<1>3. /\ g[c] \in Seq(Infos)
      /\ \A k \in 1 .. Len(g[c]) : g[c][k] = m \/ (k \in 1 .. Len(f[c]) /\ g[c][k] = f[c][k])
  BY <1>1, <1>2
<1>4. g \in [Clients -> Seq(Infos)]
  BY <1>3
<1> QED  BY <1>1, <1>3, <1>4

\* channels g hold nothing that f do not, and the oldest message of channel f[c] is there
Taken(f, g, c) ==
  /\ g \in [Clients -> Seq(Infos)]
  /\ \A d \in Clients : \A k \in 1 .. Len(g[d]) : \E j \in 1 .. Len(f[d]) : g[d][k] = f[d][j]
  /\ 1 \in 1 .. Len(f[c]) /\ Head(f[c]) = f[c][1]

\* The oldest message of one of the channels is taken.
LEMMA ChannelTail ==
  ASSUME NEW f \in [Clients -> Seq(Infos)], NEW c \in Clients, f[c] # <<>>,
         NEW g, g = [f EXCEPT ![c] = Tail(@)]
  PROVE  Taken(f, g, c)
<1>1. g[c] = Tail(f[c]) /\ \A d \in Clients : d # c => g[d] = f[d]
  OBVIOUS
<1>2. f[c] \in Seq(Infos)
  OBVIOUS
<1>3. /\ g[c] \in Seq(Infos) /\ Len(f[c]) \in Nat /\ Len(f[c]) >= 1 /\ Len(g[c]) = Len(f[c]) - 1
      /\ \A k \in 1 .. Len(g[c]) : g[c][k] = f[c][k + 1]
      /\ Head(f[c]) = f[c][1]
  BY <1>1, <1>2
<1>4. \A k \in 1 .. Len(g[c]) : k + 1 \in 1 .. Len(f[c])
  BY <1>3
<1>5. g \in [Clients -> Seq(Infos)]
  BY <1>3
<1>6. 1 \in 1 .. Len(f[c])
  BY <1>3
<1> QED  BY <1>1, <1>3, <1>4, <1>5, <1>6 DEF Taken

\* The messages of a client's session are well-formed, and told apart by kind.
LEMMA MessageFacts ==
  ASSUME TypeOK, NEW c \in Clients
  PROVE  /\ Granted(c) \in 1 .. MaxQps /\ client[c].asked \in 1 .. MaxQps
         /\ CountRequest(c) \in Infos /\ CountResponse(c) \in Infos /\ Endpoints(c) \in Infos
         /\ CountRequest(c).kind = "QpCountRequest" /\ CountResponse(c).kind = "QpCountResponse"
         /\ Endpoints(c).kind = "QpEndpoints"
         /\ CountRequest(c).count = client[c].asked
         /\ CountResponse(c).count = Granted(c) /\ Endpoints(c).count = Granted(c)
         /\ Endpoints(c).qps = Identities(Granted(c))
<1>1. client[c].asked \in 1 .. MaxQps /\ limit \in 1 .. MaxQps
  BY DEF TypeOK
<1>2. Granted(c) \in 1 .. MaxQps
  BY <1>1 DEF Granted, Negotiated
<1>3. Identities(Granted(c)) \in Lists /\ <<>> \in Lists
  BY <1>2, ListFacts
<1> QED  BY <1>1, <1>2, <1>3 DEF CountRequest, CountResponse, Endpoints, Info, Infos, Kinds

\* The counts do not change.
LEMMA GrantsKept ==
  ASSUME limit' = limit, \A c \in Clients : client'[c].asked = client[c].asked, NEW c \in Clients
  PROVE  /\ Granted(c)' = Granted(c) /\ CountRequest(c)' = CountRequest(c)
         /\ CountResponse(c)' = CountResponse(c) /\ Endpoints(c)' = Endpoints(c)
  BY DEF Granted, Negotiated, CountRequest, CountResponse, Endpoints

\* The records and functions of a state.
LEMMA StateFacts ==
  ASSUME TypeOK
  PROVE  /\ client \in [Clients -> [pc : ClientSteps, asked : 1 .. MaxQps, qps : Lists]]
         /\ server \in [pc : ServerSteps, client : Clients \cup {None},
                        served : 0 .. Cardinality(Clients), peers : Lists]
         /\ toServer \in [Clients -> Seq(Infos)] /\ toClient \in [Clients -> Seq(Infos)]
         /\ backlog \in Seq(Clients) /\ Len(backlog) \in Nat
         /\ Cardinality(Clients) \in Nat
  BY SetupAssumption, FS_CardinalityType DEF TypeOK

-----------------------------------------------------------------------------
(* Steps of the clients. *)

\* One client moves to another step; it may join the backlog when it starts.
LEMMA ClientMoves ==
  ASSUME IInv, NEW c \in Clients, NEW p \in ClientSteps \ {"start"}, NEW l \in Lists,
         client' = [client EXCEPT ![c] = [pc |-> p, asked |-> client[c].asked, qps |-> l]],
         p \in {"bootstrap", "observe", "open"} => l = Identities(Granted(c)),
         p = "open" => published[c],
         toServer' \in [Clients -> Seq(Infos)], toClient' \in [Clients -> Seq(Infos)],
         \A d \in Clients : \A k \in 1 .. Len(toServer'[d]) :
           toServer'[d][k] \in {CountRequest(d), Endpoints(d)},
         \A d \in Clients : \A k \in 1 .. Len(toClient'[d]) :
           toClient'[d][k] \in {CountResponse(d), Endpoints(d)},
         closed' \in [Clients -> SUBSET {"client", "server"}],
         bootstrap' \in [Clients -> {"none", "sent", "received", "lost"}],
         backlog' = backlog \/ (client[c].pc = "start" /\ backlog' = Append(backlog, c)),
         UNCHANGED <<limit, server, serverQps, published>>
  PROVE  IInv'
<1>0. /\ TypeOK /\ ClientInv /\ SessionInv /\ TurnInv /\ PublishedInv /\ ServedInv
      /\ limit' = limit /\ server' = server /\ serverQps' = serverQps /\ published' = published
  BY DEF IInv
<1>1. /\ client' \in [Clients -> [pc : ClientSteps, asked : 1 .. MaxQps, qps : Lists]]
      /\ client'[c].pc = p /\ client'[c].qps = l
      /\ \A d \in Clients : d # c => client'[d] = client[d]
      /\ \A d \in Clients : client'[d].asked = client[d].asked
  BY <1>0, StateFacts
<1>2. \A d \in Clients : /\ Granted(d)' = Granted(d) /\ CountRequest(d)' = CountRequest(d)
                         /\ CountResponse(d)' = CountResponse(d) /\ Endpoints(d)' = Endpoints(d)
  BY <1>0, <1>1, GrantsKept
<1>3. /\ backlog' \in Seq(Clients)
      /\ \A d \in Clients : Queued(d)' => Queued(d) \/ (d = c /\ client[c].pc = "start")
      /\ \A j, k \in 1 .. Len(backlog') : backlog'[j] = backlog'[k] => j = k
  <2>1. backlog \in Seq(Clients) /\ Len(backlog) \in Nat
    BY <1>0, StateFacts
  <2>2. CASE backlog' = backlog
    BY <2>1, <2>2, <1>0 DEF Queued, TurnInv
  <2>3. CASE client[c].pc = "start" /\ backlog' = Append(backlog, c)
    <3>1. /\ backlog' \in Seq(Clients) /\ Len(backlog') = Len(backlog) + 1
          /\ \A k \in 1 .. Len(backlog) : backlog'[k] = backlog[k]
          /\ backlog'[Len(backlog) + 1] = c
      BY <2>1, <2>3
    <3>2. \A k \in 1 .. Len(backlog') : k \in 1 .. Len(backlog) \/ k = Len(backlog) + 1
      BY <3>1, <2>1
    <3>3. \A k \in 1 .. Len(backlog) : backlog[k] # c
      BY <2>3, <1>0 DEF TurnInv, Queued
    <3>4. \A d \in Clients : Queued(d)' => Queued(d) \/ d = c
      BY <3>1, <3>2 DEF Queued
    <3>5. ASSUME NEW j \in 1 .. Len(backlog'), NEW k \in 1 .. Len(backlog'), backlog'[j] = backlog'[k]
          PROVE  j = k
      BY <3>1, <3>2, <3>3, <3>5, <1>0, ZenonT(40) DEF TurnInv
    <3> QED  BY <3>1, <3>4, <3>5, <2>3
  <2> QED  BY <2>2, <2>3
<1>4. TypeOK'
  BY <1>0, <1>1, <1>3 DEF TypeOK
<1>5. MessageInv'
  BY <1>2 DEF MessageInv
<1>6. ClientInv'
  BY <1>0, <1>1, <1>2 DEF ClientInv
<1>7. SessionInv'
  <2>1. InSession' = InSession /\ Current' = Current
    BY <1>0 DEF InSession, Current
  <2>2. InSession => Granted(Current)' = Granted(Current)
    <3> HAVE InSession
    <3>1. PICK d \in Clients : d = Current
      BY <1>0 DEF SessionInv
    <3> QED  BY <3>1, <2>1, <1>2 DEF Granted
  <2> QED  BY <2>1, <2>2, <1>0 DEF SessionInv
<1>8. TurnInv'
  <2>1. InSession' = InSession /\ Current' = Current
    BY <1>0 DEF InSession, Current
  <2>2. InSession => ~Queued(Current)'
    <3> SUFFICES ASSUME InSession, Queued(Current)' PROVE FALSE
      OBVIOUS
    <3>1. PICK d \in Clients : d = Current
      BY <1>0 DEF SessionInv
    <3>2. Queued(d)'
      BY <3>1, <2>1 DEF Queued
    <3> QED  BY <3>1, <3>2, <1>0, <1>3 DEF TurnInv
  <2>3. \A d \in Clients : Queued(d)' => ~published'[d]
    BY <1>0, <1>3 DEF TurnInv
  <2>4. ASSUME NEW d \in Clients, client'[d].pc = "start"
        PROVE  ~Queued(d)' /\ ~published'[d] /\ (InSession' => Current' # d)
    <3>1. d # c /\ client[d].pc = "start"
      BY <2>4, <1>1
    <3> QED  BY <3>1, <2>1, <1>0, <1>3 DEF TurnInv
  <2> QED  BY <2>1, <2>2, <2>3, <2>4, <1>3 DEF TurnInv
<1>9. PublishedInv' /\ ServedInv'
  BY <1>0, <1>2 DEF PublishedInv, ServedInv
<1> QED  BY <1>4, <1>5, <1>6, <1>7, <1>8, <1>9 DEF IInv

\* A client changes its step and nothing else.
LEMMA ClientEdit ==
  ASSUME TypeOK, NEW c \in Clients, NEW p \in ClientSteps
  PROVE  /\ [client EXCEPT ![c].pc = p]
              = [client EXCEPT ![c] = [pc |-> p, asked |-> client[c].asked, qps |-> client[c].qps]]
         /\ client[c].qps \in Lists
<1>1. /\ client \in [Clients -> [pc : ClientSteps, asked : 1 .. MaxQps, qps : Lists]]
      /\ client[c] \in [pc : ClientSteps, asked : 1 .. MaxQps, qps : Lists]
  BY StateFacts
<1>2. PICK r \in [pc : ClientSteps, asked : 1 .. MaxQps, qps : Lists] : r = client[c]
  BY <1>1
<1>3. [r EXCEPT !.pc = p] = [pc |-> p, asked |-> r.asked, qps |-> r.qps]
  OBVIOUS
<1>4. [client EXCEPT ![c].pc = p] = [client EXCEPT ![c] = [r EXCEPT !.pc = p]]
  BY <1>1, <1>2
<1> QED  BY <1>1, <1>2, <1>3, <1>4

\* A client changes its step and its queue pairs.
LEMMA ClientEditQps ==
  ASSUME TypeOK, NEW c \in Clients, NEW p \in ClientSteps, NEW l \in Lists
  PROVE  [client EXCEPT ![c].pc = p, ![c].qps = l]
           = [client EXCEPT ![c] = [pc |-> p, asked |-> client[c].asked, qps |-> l]]
<1>1. /\ client \in [Clients -> [pc : ClientSteps, asked : 1 .. MaxQps, qps : Lists]]
      /\ client[c] \in [pc : ClientSteps, asked : 1 .. MaxQps, qps : Lists]
  BY StateFacts
<1>2. PICK r \in [pc : ClientSteps, asked : 1 .. MaxQps, qps : Lists] : r = client[c]
  BY <1>1
<1>3. PICK t \in [pc : ClientSteps, asked : 1 .. MaxQps, qps : Lists] :
        t = [r EXCEPT !.pc = p] /\ t = [pc |-> p, asked |-> r.asked, qps |-> r.qps]
  <2>1. /\ [r EXCEPT !.pc = p] = [pc |-> p, asked |-> r.asked, qps |-> r.qps]
        /\ [r EXCEPT !.pc = p] \in [pc : ClientSteps, asked : 1 .. MaxQps, qps : Lists]
    OBVIOUS
  <2> QED  BY <2>1
<1>4. [t EXCEPT !.qps = l] = [pc |-> t.pc, asked |-> t.asked, qps |-> l]
  OBVIOUS
<1>5. [client EXCEPT ![c].pc = p, ![c].qps = l] = [client EXCEPT ![c] = [t EXCEPT !.qps = l]]
  BY <1>1, <1>2, <1>3
<1> QED  BY <1>2, <1>3, <1>4, <1>5

\* A client gives up, perhaps with a message in hand.
LEMMA ClientGivesUpIInv ==
  ASSUME IInv, NEW c \in Clients, ClientGivesUp(c),
         toClient' = toClient \/ (toClient[c] # <<>> /\ toClient' = [toClient EXCEPT ![c] = Tail(@)]),
         UNCHANGED <<limit, serverVars, backlog, toServer, bootstrap>>
  PROVE  IInv'
<1>0. TypeOK /\ MessageInv /\ toServer' = toServer /\ backlog' = backlog
      /\ UNCHANGED <<limit, server, serverQps, published>>
  BY DEF IInv, serverVars
<1>1. PICK l \in Lists :
        client' = [client EXCEPT ![c] = [pc |-> "failed", asked |-> client[c].asked, qps |-> l]]
  BY <1>0, ClientEdit DEF ClientGivesUp, ClientSteps
<1>2. closed' \in [Clients -> SUBSET {"client", "server"}]
  BY <1>0 DEF ClientGivesUp, TypeOK
<1>3. bootstrap' \in [Clients -> {"none", "sent", "received", "lost"}]
  BY <1>0 DEF TypeOK
<1>4. /\ toClient' \in [Clients -> Seq(Infos)]
      /\ \A d \in Clients : \A k \in 1 .. Len(toClient'[d]) :
           toClient'[d][k] \in {CountResponse(d), Endpoints(d)}
  <2>1. toClient \in [Clients -> Seq(Infos)]
    BY <1>0, StateFacts
  <2>2. CASE toClient' = toClient
    BY <2>1, <2>2, <1>0 DEF MessageInv
  <2>3. CASE toClient[c] # <<>> /\ toClient' = [toClient EXCEPT ![c] = Tail(@)]
    <3>1. /\ toClient' \in [Clients -> Seq(Infos)]
          /\ \A d \in Clients : \A k \in 1 .. Len(toClient'[d]) :
               \E j \in 1 .. Len(toClient[d]) : toClient'[d][k] = toClient[d][j]
      <4>1. Taken(toClient, toClient', c)
        BY <2>1, <2>3, ChannelTail
      <4> QED  BY <4>1 DEF Taken
    <3>2. ASSUME NEW d \in Clients, NEW k \in 1 .. Len(toClient'[d])
          PROVE  toClient'[d][k] \in {CountResponse(d), Endpoints(d)}
      <4>1. PICK j \in 1 .. Len(toClient[d]) : toClient'[d][k] = toClient[d][j]
        BY <3>1
      <4> QED  BY <4>1, <1>0 DEF MessageInv
    <3> QED  BY <3>1, <3>2
  <2> QED  BY <2>2, <2>3
<1>5. toServer' \in [Clients -> Seq(Infos)] /\
      \A d \in Clients : \A k \in 1 .. Len(toServer'[d]) :
        toServer'[d][k] \in {CountRequest(d), Endpoints(d)}
  BY <1>0, StateFacts DEF MessageInv
<1>6. "failed" \in ClientSteps \ {"start"} /\ "failed" \notin {"bootstrap", "observe", "open"}
  BY DEF ClientSteps
<1> QED  BY <1>0, <1>1, <1>2, <1>3, <1>4, <1>5, <1>6, ClientMoves

\* A client step that only changes where the client is, and perhaps its Send.
LEMMA ClientGoesOn ==
  ASSUME IInv, NEW c \in Clients, NEW p \in ClientSteps \ {"start"},
         client' = [client EXCEPT ![c].pc = p],
         client[c].pc \in {"bootstrap", "observe"},
         p = "open" => published[c],
         bootstrap' \in [Clients -> {"none", "sent", "received", "lost"}],
         UNCHANGED <<limit, serverVars, channelVars>>
  PROVE  IInv'
<1>0. TypeOK /\ MessageInv /\ ClientInv /\ toServer' = toServer /\ toClient' = toClient
      /\ backlog' = backlog /\ closed' = closed /\ UNCHANGED <<limit, server, serverQps, published>>
  BY DEF IInv, serverVars, channelVars
<1>1. PICK l \in Lists :
        /\ client' = [client EXCEPT ![c] = [pc |-> p, asked |-> client[c].asked, qps |-> l]]
        /\ l = client[c].qps
  BY <1>0, ClientEdit
<1>2. l = Identities(Granted(c))
  BY <1>0, <1>1 DEF ClientInv
<1>3. closed' \in [Clients -> SUBSET {"client", "server"}]
  BY <1>0 DEF TypeOK
<1>4. /\ toServer' \in [Clients -> Seq(Infos)] /\ toClient' \in [Clients -> Seq(Infos)]
      /\ \A d \in Clients : \A k \in 1 .. Len(toServer'[d]) :
           toServer'[d][k] \in {CountRequest(d), Endpoints(d)}
      /\ \A d \in Clients : \A k \in 1 .. Len(toClient'[d]) :
           toClient'[d][k] \in {CountResponse(d), Endpoints(d)}
  BY <1>0, StateFacts DEF MessageInv
<1> QED  BY <1>0, <1>1, <1>2, <1>3, <1>4, ClientMoves, ZenonT(40)

\* The client connects the channel and sends its request.
LEMMA ClientConnectIInv ==
  ASSUME IInv, NEW c \in Clients, ClientConnect(c) PROVE IInv'
<1>0. TypeOK /\ MessageInv
  BY DEF IInv
<1>1. CASE ClientGivesUp(c) /\ UNCHANGED <<backlog, toServer>>
  <2>1. UNCHANGED <<limit, serverVars, backlog, toServer, bootstrap>> /\ toClient' = toClient
    BY <1>1 DEF ClientConnect
  <2> QED  BY <1>1, <2>1, ClientGivesUpIInv
<1>2. CASE /\ client' = [client EXCEPT ![c].pc = "count"]
           /\ backlog' = Append(backlog, c)
           /\ toServer' = [toServer EXCEPT ![c] =
                             Append(@, Info("QpCountRequest", client[c].asked, <<>>))]
           /\ UNCHANGED closed
  <2>1. /\ client[c].pc = "start" /\ toClient' = toClient /\ closed' = closed
        /\ UNCHANGED <<limit, server, serverQps, published, bootstrap>>
    BY <1>2 DEF ClientConnect, serverVars
  <2>2. PICK l \in Lists :
          client' = [client EXCEPT ![c] = [pc |-> "count", asked |-> client[c].asked, qps |-> l]]
    BY <1>0, <1>2, ClientEdit DEF ClientSteps
  <2>3. PICK m \in Infos : m = CountRequest(c)
    BY <1>0, MessageFacts
  <2>4. toServer' = [toServer EXCEPT ![c] = Append(@, m)]
    BY <2>3, <1>2 DEF CountRequest
  <2>5. /\ toServer' \in [Clients -> Seq(Infos)]
        /\ \A d \in Clients : \A k \in 1 .. Len(toServer'[d]) :
             (d = c /\ toServer'[d][k] = m)
             \/ (k \in 1 .. Len(toServer[d]) /\ toServer'[d][k] = toServer[d][k])
    BY <2>4, <1>0, StateFacts, ChannelAppend, SMTT(30)
  <2>6. \A d \in Clients : \A k \in 1 .. Len(toServer'[d]) :
          toServer'[d][k] \in {CountRequest(d), Endpoints(d)}
    BY <2>3, <2>5, <1>0 DEF MessageInv
  <2>7. /\ toClient' \in [Clients -> Seq(Infos)]
        /\ \A d \in Clients : \A k \in 1 .. Len(toClient'[d]) :
             toClient'[d][k] \in {CountResponse(d), Endpoints(d)}
    BY <2>1, <1>0, StateFacts DEF MessageInv
  <2>8. /\ closed' \in [Clients -> SUBSET {"client", "server"}]
        /\ bootstrap' \in [Clients -> {"none", "sent", "received", "lost"}]
    BY <2>1, <1>0 DEF TypeOK
  <2>9. "count" \in ClientSteps \ {"start"} /\ "count" \notin {"bootstrap", "observe", "open"}
    BY DEF ClientSteps
  <2> QED  BY <2>1, <2>2, <2>5, <2>6, <2>7, <2>8, <2>9, <1>2, ClientMoves
<1> QED  BY <1>1, <1>2 DEF ClientConnect

\* The client takes the count it is granted and announces as many queue pairs.
LEMMA ClientCreateQpsIInv ==
  ASSUME IInv, NEW c \in Clients, ClientCreateQps(c) PROVE IInv'
<1> DEFINE info == Head(toClient[c])
<1>0. TypeOK /\ MessageInv /\ toServer \in [Clients -> Seq(Infos)] /\ toClient \in [Clients -> Seq(Infos)]
  BY StateFacts DEF IInv
<1>1. /\ toClient[c] # <<>> /\ toClient' = [toClient EXCEPT ![c] = Tail(@)]
      /\ UNCHANGED <<limit, serverVars, backlog, bootstrap>>
  BY DEF ClientCreateQps
<1>2. CASE ClientGivesUp(c) /\ UNCHANGED toServer
  BY <1>1, <1>2, ClientGivesUpIInv
<1>3. CASE /\ ~(info.kind # "QpCountResponse" \/ info.count > client[c].asked)
           /\ client' = [client EXCEPT ![c].pc = "endpoints", ![c].qps = Unconnected(info.count)]
           /\ toServer' = [toServer EXCEPT ![c] =
                             Append(@, Info("QpEndpoints", info.count, Identities(info.count)))]
           /\ UNCHANGED closed
  <2>1. /\ toClient' \in [Clients -> Seq(Infos)]
        /\ \A d \in Clients : \A k \in 1 .. Len(toClient'[d]) :
             \E j \in 1 .. Len(toClient[d]) : toClient'[d][k] = toClient[d][j]
        /\ 1 \in 1 .. Len(toClient[c]) /\ info = toClient[c][1]
    <3>1. Taken(toClient, toClient', c)
      BY <1>0, <1>1, ChannelTail
    <3> QED  BY <3>1 DEF Taken
  <2>2. info \in {CountResponse(c), Endpoints(c)}
    BY <2>1, <1>0 DEF MessageInv
  <2> HIDE DEF info
  <2>3. info.count = Granted(c) /\ Granted(c) \in 1 .. MaxQps
    BY <2>2, <1>0, <1>3, MessageFacts
  <2>4. PICK l \in Lists :
          client' = [client EXCEPT ![c] = [pc |-> "endpoints", asked |-> client[c].asked, qps |-> l]]
    <3>1. Unconnected(info.count) \in Lists
      BY <2>3, ListFacts
    <3> QED  BY <3>1, <1>0, <1>3, ClientEditQps DEF ClientSteps
  <2>5. PICK m \in Infos : m = Endpoints(c)
    BY <1>0, MessageFacts
  <2>6. toServer' = [toServer EXCEPT ![c] = Append(@, m)]
    BY <2>3, <2>5, <1>3 DEF Endpoints
  <2>7. /\ toServer' \in [Clients -> Seq(Infos)]
        /\ \A d \in Clients : \A k \in 1 .. Len(toServer'[d]) :
             (d = c /\ toServer'[d][k] = m)
             \/ (k \in 1 .. Len(toServer[d]) /\ toServer'[d][k] = toServer[d][k])
    BY <2>6, <1>0, ChannelAppend
  <2>8. /\ \A d \in Clients : \A k \in 1 .. Len(toServer'[d]) :
             toServer'[d][k] \in {CountRequest(d), Endpoints(d)}
        /\ \A d \in Clients : \A k \in 1 .. Len(toClient'[d]) :
             toClient'[d][k] \in {CountResponse(d), Endpoints(d)}
    <3>1. ASSUME NEW d \in Clients, NEW k \in 1 .. Len(toServer'[d])
          PROVE  toServer'[d][k] \in {CountRequest(d), Endpoints(d)}
      BY <2>5, <2>7, <1>0, ZenonT(40) DEF MessageInv
    <3>2. ASSUME NEW d \in Clients, NEW k \in 1 .. Len(toClient'[d])
          PROVE  toClient'[d][k] \in {CountResponse(d), Endpoints(d)}
      <4>1. PICK j \in 1 .. Len(toClient[d]) : toClient'[d][k] = toClient[d][j]
        BY <2>1
      <4> QED  BY <4>1, <1>0 DEF MessageInv
    <3> QED  BY <3>1, <3>2
  <2>9. /\ closed' \in [Clients -> SUBSET {"client", "server"}]
        /\ bootstrap' \in [Clients -> {"none", "sent", "received", "lost"}]
        /\ UNCHANGED <<limit, server, serverQps, published>> /\ backlog' = backlog
    BY <1>0, <1>1, <1>3 DEF TypeOK, serverVars
  <2>10. "endpoints" \in ClientSteps \ {"start"} /\ "endpoints" \notin {"bootstrap", "observe", "open"}
    BY DEF ClientSteps
  <2> QED  BY <2>1, <2>4, <2>7, <2>8, <2>9, <2>10, ClientMoves
<1> QED  BY <1>2, <1>3 DEF ClientCreateQps

\* The client connects its queue pairs to the ones the server has announced.
LEMMA ClientConnectQpsIInv ==
  ASSUME IInv, NEW c \in Clients, ClientConnectQps(c) PROVE IInv'
<1> DEFINE info == Head(toClient[c])
<1>0. TypeOK /\ MessageInv /\ toServer \in [Clients -> Seq(Infos)] /\ toClient \in [Clients -> Seq(Infos)]
  BY StateFacts DEF IInv
<1>1. /\ toClient[c] # <<>> /\ toClient' = [toClient EXCEPT ![c] = Tail(@)]
      /\ UNCHANGED <<limit, serverVars, backlog, toServer, bootstrap>>
  BY DEF ClientConnectQps
<1>2. CASE ClientGivesUp(c)
  BY <1>1, <1>2, ClientGivesUpIInv
<1>3. CASE /\ ~(info.kind # "QpEndpoints" \/ info.count # Len(client[c].qps))
           /\ client' = [client EXCEPT ![c].pc = "bootstrap", ![c].qps = info.qps]
           /\ UNCHANGED closed
  <2>1. /\ toClient' \in [Clients -> Seq(Infos)]
        /\ \A d \in Clients : \A k \in 1 .. Len(toClient'[d]) :
             \E j \in 1 .. Len(toClient[d]) : toClient'[d][k] = toClient[d][j]
        /\ 1 \in 1 .. Len(toClient[c]) /\ info = toClient[c][1]
    <3>1. Taken(toClient, toClient', c)
      BY <1>0, <1>1, ChannelTail
    <3> QED  BY <3>1 DEF Taken
  <2>2. info \in {CountResponse(c), Endpoints(c)}
    BY <2>1, <1>0 DEF MessageInv
  <2> HIDE DEF info
  <2>3. info.qps = Identities(Granted(c)) /\ Granted(c) \in 1 .. MaxQps
    BY <2>2, <1>0, <1>3, MessageFacts
  <2>4. PICK l \in Lists :
          /\ client' = [client EXCEPT ![c] = [pc |-> "bootstrap", asked |-> client[c].asked, qps |-> l]]
          /\ l = Identities(Granted(c))
    <3>1. info.qps \in Lists
      BY <2>3, ListFacts
    <3> QED  BY <3>1, <2>3, <1>0, <1>3, ClientEditQps DEF ClientSteps
  <2>5. /\ toServer' \in [Clients -> Seq(Infos)]
        /\ \A d \in Clients : \A k \in 1 .. Len(toServer'[d]) :
             toServer'[d][k] \in {CountRequest(d), Endpoints(d)}
        /\ \A d \in Clients : \A k \in 1 .. Len(toClient'[d]) :
             toClient'[d][k] \in {CountResponse(d), Endpoints(d)}
    BY <2>1, <1>0, <1>1 DEF MessageInv
  <2>6. /\ closed' \in [Clients -> SUBSET {"client", "server"}]
        /\ bootstrap' \in [Clients -> {"none", "sent", "received", "lost"}]
        /\ UNCHANGED <<limit, server, serverQps, published>> /\ backlog' = backlog
    BY <1>0, <1>1, <1>3 DEF TypeOK, serverVars
  <2>7. "bootstrap" \in ClientSteps \ {"start"}
    BY DEF ClientSteps
  <2> QED  BY <2>1, <2>4, <2>5, <2>6, <2>7, ClientMoves, ZenonT(40)
<1> QED  BY <1>2, <1>3 DEF ClientConnectQps

\* Every step of a client.
LEMMA ClientStepIInv ==
  ASSUME IInv, NEW c \in Clients, ClientStep(c) PROVE IInv'
<1>0. TypeOK
  BY DEF IInv
<1>1. CASE ClientConnect(c) \/ ClientCreateQps(c) \/ ClientConnectQps(c)
  BY <1>1, ClientConnectIInv, ClientCreateQpsIInv, ClientConnectQpsIInv
<1>2. CASE ClientBootstrap(c)
  <2>1. bootstrap' \in [Clients -> {"none", "sent", "received", "lost"}]
    BY <1>0, <1>2 DEF ClientBootstrap, TypeOK
  <2>2. "observe" \in ClientSteps \ {"start"} /\ "observe" # "open"
    BY DEF ClientSteps
  <2> QED  BY <2>1, <2>2, <1>2, ClientGoesOn DEF ClientBootstrap
<1>3. CASE ClientObserve(c)
  <2>1. bootstrap' \in [Clients -> {"none", "sent", "received", "lost"}]
    BY <1>0, <1>3 DEF ClientObserve, TypeOK
  <2>2. "open" \in ClientSteps \ {"start"}
    BY DEF ClientSteps
  <2> QED  BY <2>1, <2>2, <1>3, ClientGoesOn DEF ClientObserve
<1>4. CASE ClientPeerClosed(c)
  BY <1>4, ClientGivesUpIInv DEF ClientPeerClosed
<1>5. CASE ClientFails(c)
  BY <1>5, ClientGivesUpIInv DEF ClientFails
<1> QED  BY <1>1, <1>2, <1>3, <1>4, <1>5 DEF ClientStep

-----------------------------------------------------------------------------
(* Steps of the server. *)

\* The fields of the server's state that a step leaves alone.
LEMMA ServerEdit ==
  ASSUME TypeOK, NEW p \in ServerSteps
  PROVE  /\ [server EXCEPT !.pc = p]
              = [pc |-> p, client |-> server.client, served |-> server.served, peers |-> server.peers]
         /\ \A l \in Lists : [server EXCEPT !.pc = p, !.peers = l]
              = [pc |-> p, client |-> server.client, served |-> server.served, peers |-> l]
         /\ \A c \in Clients : [server EXCEPT !.pc = p, !.client = c]
              = [pc |-> p, client |-> c, served |-> server.served, peers |-> server.peers]
         /\ [server EXCEPT !.pc = p, !.client = None, !.served = @ + 1]
              = [pc |-> p, client |-> None, served |-> server.served + 1, peers |-> server.peers]
         /\ server.peers \in Lists /\ server.served \in 0 .. Cardinality(Clients)
<1> DEFINE R == [pc : ServerSteps, client : Clients \cup {None},
                 served : 0 .. Cardinality(Clients), peers : Lists]
<1>1. server \in R /\ server.peers \in Lists /\ server.served \in 0 .. Cardinality(Clients)
  BY StateFacts
<1>2. PICK t \in R :
        /\ t = [server EXCEPT !.pc = p]
        /\ t = [pc |-> p, client |-> server.client, served |-> server.served, peers |-> server.peers]
  <2>1. /\ [server EXCEPT !.pc = p]
             = [pc |-> p, client |-> server.client, served |-> server.served, peers |-> server.peers]
        /\ [server EXCEPT !.pc = p] \in R
    BY <1>1
  <2> QED  BY <2>1
<1>3. ASSUME NEW l \in Lists
      PROVE  [server EXCEPT !.pc = p, !.peers = l]
              = [pc |-> p, client |-> server.client, served |-> server.served, peers |-> l]
  <2>1. [t EXCEPT !.peers = l] = [pc |-> t.pc, client |-> t.client, served |-> t.served, peers |-> l]
    OBVIOUS
  <2> QED  BY <2>1, <1>2
<1>4. ASSUME NEW c \in Clients
      PROVE  [server EXCEPT !.pc = p, !.client = c]
              = [pc |-> p, client |-> c, served |-> server.served, peers |-> server.peers]
  <2>1. [t EXCEPT !.client = c] = [pc |-> t.pc, client |-> c, served |-> t.served, peers |-> t.peers]
    OBVIOUS
  <2> QED  BY <2>1, <1>2
<1>5. [server EXCEPT !.pc = p, !.client = None, !.served = @ + 1]
        = [pc |-> p, client |-> None, served |-> server.served + 1, peers |-> server.peers]
  <2>1. PICK u \in R : /\ u = [t EXCEPT !.client = None]
                       /\ u = [pc |-> t.pc, client |-> None, served |-> t.served, peers |-> t.peers]
    <3>1. /\ [t EXCEPT !.client = None]
               = [pc |-> t.pc, client |-> None, served |-> t.served, peers |-> t.peers]
          /\ [t EXCEPT !.client = None] \in R
      OBVIOUS
    <3> QED  BY <3>1
  <2>2. [u EXCEPT !.served = @ + 1]
          = [pc |-> u.pc, client |-> u.client, served |-> u.served + 1, peers |-> u.peers]
    OBVIOUS
  <2> QED  BY <2>1, <2>2, <1>2
<1> QED  BY <1>1, <1>2, <1>3, <1>4, <1>5

\* What every step of the server has to show.
LEMMA ServerMoves ==
  ASSUME IInv, client' = client, limit' = limit,
         server' \in [pc : ServerSteps, client : Clients \cup {None},
                      served : 0 .. Cardinality(Clients), peers : Lists],
         serverQps' \in [Clients -> Lists], published' \in [Clients -> BOOLEAN],
         backlog' \in Seq(Clients),
         toServer' \in [Clients -> Seq(Infos)], toClient' \in [Clients -> Seq(Infos)],
         \A d \in Clients : \A k \in 1 .. Len(toServer'[d]) :
           toServer'[d][k] \in {CountRequest(d), Endpoints(d)},
         \A d \in Clients : \A k \in 1 .. Len(toClient'[d]) :
           toClient'[d][k] \in {CountResponse(d), Endpoints(d)},
         closed' \in [Clients -> SUBSET {"client", "server"}],
         bootstrap' \in [Clients -> {"none", "sent", "received", "lost"}],
         \A d \in Clients : published[d] => published'[d],
         \A d \in Clients : published'[d] => serverQps'[d] = Identities(Granted(d)),
         SessionInv', TurnInv', ServedInv'
  PROVE  IInv'
<1>0. TypeOK /\ ClientInv
  BY DEF IInv
<1>1. \A d \in Clients : /\ Granted(d)' = Granted(d) /\ CountRequest(d)' = CountRequest(d)
                         /\ CountResponse(d)' = CountResponse(d) /\ Endpoints(d)' = Endpoints(d)
  BY GrantsKept
<1>2. TypeOK'
  BY <1>0 DEF TypeOK
<1>3. MessageInv' /\ ClientInv' /\ PublishedInv'
  BY <1>0, <1>1 DEF MessageInv, ClientInv, PublishedInv
<1> QED  BY <1>2, <1>3 DEF IInv

\* A step within the session of client c: its queue pairs and what is published
\* to it may change, those of the others do not.
LEMMA SessionMoves ==
  ASSUME IInv, InSession, NEW c \in Clients, c = Current,
         server' \in [pc : ServerSteps, client : Clients \cup {None},
                      served : 0 .. Cardinality(Clients), peers : Lists],
         server'.pc \notin {"accept", "exit"}, server'.client = c, server'.served = server.served,
         serverQps' \in [Clients -> Lists], published' \in [Clients -> BOOLEAN],
         \A d \in Clients : d # c => serverQps'[d] = serverQps[d] /\ published'[d] = published[d],
         published[c] => published'[c], published'[c] => serverQps'[c] = Identities(Granted(c)),
         server'.pc \in {"create", "endpoints"} => serverQps'[c] = Unconnected(Granted(c)),
         server'.pc = "connect" => server'.peers = Identities(Granted(c)),
         server'.pc \in {"receive", "bootstrap", "namespace", "slots", "serve"}
           => serverQps'[c] = Identities(Granted(c)),
         server'.pc \in {"request", "create", "endpoints", "connect"} => ~published'[c],
         toServer' \in [Clients -> Seq(Infos)], toClient' \in [Clients -> Seq(Infos)],
         \A d \in Clients : \A k \in 1 .. Len(toServer'[d]) :
           toServer'[d][k] \in {CountRequest(d), Endpoints(d)},
         \A d \in Clients : \A k \in 1 .. Len(toClient'[d]) :
           toClient'[d][k] \in {CountResponse(d), Endpoints(d)},
         UNCHANGED <<client, limit, backlog, closed, bootstrap>>
  PROVE  IInv'
<1>0. /\ TypeOK /\ TurnInv /\ PublishedInv /\ ServedInv
      /\ client' = client /\ limit' = limit /\ backlog' = backlog
  BY DEF IInv
<1>3. Granted(c)' = Granted(c)
  BY <1>0, GrantsKept
<1>4. InSession' /\ Current' = c /\ server.pc # "exit"
  BY DEF InSession, Current
<1>5. SessionInv'
  <2>1. Unconnected(Granted(c))' = Unconnected(Granted(c)) /\ Identities(Granted(c))' = Identities(Granted(c))
    BY <1>3 DEF Unconnected, Identities
  <2>2. Granted(Current)' = Granted(c)'
    BY <1>4 DEF Granted
  <2> QED  BY <2>1, <2>2, <1>4 DEF SessionInv, Unconnected, Identities
<1>6. TurnInv'
  <2>1. \A d : Queued(d)' <=> Queued(d)
    BY <1>0 DEF Queued
  <2>2. ~Queued(c) /\ ~Queued(Current)'
    BY <1>0, <1>4 DEF TurnInv, Queued
  <2>3. \A d \in Clients : Queued(d)' => ~published'[d]
    BY <2>1, <2>2, <1>0 DEF TurnInv
  <2>4. ASSUME NEW d \in Clients, client'[d].pc = "start"
        PROVE  ~Queued(d)' /\ ~published'[d] /\ (InSession' => Current' # d)
    BY <2>1, <2>4, <1>0, <1>4, SMTT(30) DEF TurnInv
  <2>5. \A j, k \in 1 .. Len(backlog') : backlog'[j] = backlog'[k] => j = k
    BY <1>0 DEF TurnInv
  <2> QED  BY <2>2, <2>3, <2>4, <2>5, Zenon DEF TurnInv
<1>7. ServedInv'
  BY <1>0, <1>4 DEF ServedInv
<1>8. /\ \A d \in Clients : published[d] => published'[d]
      /\ \A d \in Clients : published'[d] => serverQps'[d] = Identities(Granted(d))
  BY <1>0 DEF PublishedInv
<1>9. /\ closed' \in [Clients -> SUBSET {"client", "server"}]
      /\ bootstrap' \in [Clients -> {"none", "sent", "received", "lost"}]
      /\ backlog' \in Seq(Clients)
  BY <1>0 DEF TypeOK
<1> QED  BY <1>0, <1>5, <1>6, <1>7, <1>8, <1>9, ServerMoves

\* The server exits in the session of client c, perhaps with a message in hand.
LEMMA ServerExitsIInv ==
  ASSUME IInv, NEW c \in Clients, ServerExits,
         toServer' = toServer \/ (toServer[c] # <<>> /\ toServer' = [toServer EXCEPT ![c] = Tail(@)]),
         UNCHANGED <<limit, clientVars, serverQps, published, backlog, toClient>>
  PROVE  IInv'
<1>0. /\ TypeOK /\ MessageInv /\ TurnInv /\ PublishedInv /\ client' = client /\ bootstrap' = bootstrap
      /\ limit' = limit /\ serverQps' = serverQps /\ published' = published /\ backlog' = backlog
      /\ toClient' = toClient /\ toServer \in [Clients -> Seq(Infos)]
  BY StateFacts DEF IInv, clientVars
<1>1. "exit" \in ServerSteps
  BY DEF ServerSteps
<1>2. /\ server'.pc = "exit"
      /\ server' \in [pc : ServerSteps, client : Clients \cup {None},
                      served : 0 .. Cardinality(Clients), peers : Lists]
  <2>1. server' = [server EXCEPT !.pc = "exit"]
    BY DEF ServerExits
  <2> QED  BY <2>1, <1>0, <1>1, StateFacts
<1>3. ~InSession'
  BY <1>2 DEF InSession
<1>4. SessionInv' /\ ServedInv'
  BY <1>2, <1>3 DEF SessionInv, ServedInv
<1>5. TurnInv'
  BY <1>0, <1>3 DEF TurnInv, Queued
<1>6. closed' \in [Clients -> SUBSET {"client", "server"}]
  BY <1>0 DEF ServerExits, TypeOK
<1>7. /\ toServer' \in [Clients -> Seq(Infos)]
      /\ \A d \in Clients : \A k \in 1 .. Len(toServer'[d]) :
           toServer'[d][k] \in {CountRequest(d), Endpoints(d)}
  <2>1. CASE toServer' = toServer
    BY <2>1, <1>0 DEF MessageInv
  <2>2. CASE toServer[c] # <<>> /\ toServer' = [toServer EXCEPT ![c] = Tail(@)]
    <3>1. /\ toServer' \in [Clients -> Seq(Infos)]
          /\ \A d \in Clients : \A k \in 1 .. Len(toServer'[d]) :
               \E j \in 1 .. Len(toServer[d]) : toServer'[d][k] = toServer[d][j]
      <4>1. Taken(toServer, toServer', c)
        BY <2>2, <1>0, ChannelTail
      <4> QED  BY <4>1 DEF Taken
    <3>2. ASSUME NEW d \in Clients, NEW k \in 1 .. Len(toServer'[d])
          PROVE  toServer'[d][k] \in {CountRequest(d), Endpoints(d)}
      <4>1. PICK j \in 1 .. Len(toServer[d]) : toServer'[d][k] = toServer[d][j]
        BY <3>1
      <4> QED  BY <4>1, <1>0 DEF MessageInv
    <3> QED  BY <3>1, <3>2
  <2> QED  BY <2>1, <2>2
<1>8. /\ toClient' \in [Clients -> Seq(Infos)]
      /\ \A d \in Clients : \A k \in 1 .. Len(toClient'[d]) :
           toClient'[d][k] \in {CountResponse(d), Endpoints(d)}
  BY <1>0, StateFacts DEF MessageInv
<1>9. /\ serverQps' \in [Clients -> Lists] /\ published' \in [Clients -> BOOLEAN]
      /\ bootstrap' \in [Clients -> {"none", "sent", "received", "lost"}] /\ backlog' \in Seq(Clients)
      /\ \A d \in Clients : published[d] => published'[d]
      /\ \A d \in Clients : published'[d] => serverQps'[d] = Identities(Granted(d))
  BY <1>0 DEF TypeOK, PublishedInv
<1> QED  BY <1>0, <1>2, <1>4, <1>5, <1>6, <1>7, <1>8, <1>9, ServerMoves

\* The server goes on to another step of the session and does nothing else.
LEMMA ServerGoesOn ==
  ASSUME IInv, InSession, NEW p \in ServerSteps \ {"accept", "exit", "connect"},
         server' = [server EXCEPT !.pc = p],
         p \in {"create", "endpoints"} => serverQps[Current] = Unconnected(Granted(Current)),
         p \in {"receive", "bootstrap", "namespace", "slots", "serve"}
           => serverQps[Current] = Identities(Granted(Current)),
         p \in {"request", "create", "endpoints"} => ~published[Current],
         UNCHANGED <<limit, clientVars, serverQps, published, channelVars>>
  PROVE  IInv'
<1>0. /\ TypeOK /\ MessageInv /\ SessionInv /\ PublishedInv
      /\ serverQps' = serverQps /\ published' = published
      /\ toServer' = toServer /\ toClient' = toClient
      /\ UNCHANGED <<client, limit, backlog, closed, bootstrap>>
  BY DEF IInv, clientVars, channelVars
<1>1. PICK c \in Clients : c = Current
  BY <1>0 DEF SessionInv
<1>2. /\ server' \in [pc : ServerSteps, client : Clients \cup {None},
                      served : 0 .. Cardinality(Clients), peers : Lists]
      /\ server'.pc = p /\ server'.client = c /\ server'.served = server.served
  BY <1>0, <1>1, StateFacts DEF Current
<1>3. /\ serverQps' \in [Clients -> Lists] /\ published' \in [Clients -> BOOLEAN]
      /\ \A d \in Clients : d # c => serverQps'[d] = serverQps[d] /\ published'[d] = published[d]
  BY <1>0 DEF TypeOK
<1>5. /\ published[c] => published'[c]
      /\ published'[c] => serverQps'[c] = Identities(Granted(c))
      /\ p \in {"create", "endpoints"} => serverQps'[c] = Unconnected(Granted(c))
      /\ p \in {"receive", "bootstrap", "namespace", "slots", "serve"}
           => serverQps'[c] = Identities(Granted(c))
      /\ p \in {"request", "create", "endpoints", "connect"} => ~published'[c]
  BY <1>0, <1>1 DEF PublishedInv
<1>6. /\ toServer' \in [Clients -> Seq(Infos)] /\ toClient' \in [Clients -> Seq(Infos)]
      /\ \A d \in Clients : \A k \in 1 .. Len(toServer'[d]) :
           toServer'[d][k] \in {CountRequest(d), Endpoints(d)}
      /\ \A d \in Clients : \A k \in 1 .. Len(toClient'[d]) :
           toClient'[d][k] \in {CountResponse(d), Endpoints(d)}
  BY <1>0, StateFacts DEF MessageInv
<1>7. p \notin {"accept", "exit", "connect"} /\ UNCHANGED <<client, limit, backlog, closed, bootstrap>>
  BY <1>0
<1> QED  BY <1>1, <1>2, <1>3, <1>5, <1>6, <1>7, SessionMoves

\* The oldest connection of the backlog is accepted.
LEMMA ServerAcceptIInv ==
  ASSUME IInv, ServerAccept PROVE IInv'
<1>0. /\ TypeOK /\ MessageInv /\ TurnInv /\ PublishedInv /\ ServedInv
      /\ client' = client /\ bootstrap' = bootstrap /\ limit' = limit /\ serverQps' = serverQps
      /\ published' = published /\ toServer' = toServer /\ toClient' = toClient /\ closed' = closed
      /\ server.pc = "accept" /\ backlog # <<>> /\ backlog' = Tail(backlog)
      /\ server' = [server EXCEPT !.pc = "request", !.client = Head(backlog)]
  BY DEF IInv, ServerAccept, clientVars
<1>1. /\ backlog \in Seq(Clients) /\ Len(backlog) \in Nat /\ Len(backlog) >= 1
      /\ backlog' \in Seq(Clients) /\ Len(backlog') = Len(backlog) - 1
      /\ Head(backlog) = backlog[1] /\ Head(backlog) \in Clients
      /\ \A k \in 1 .. Len(backlog') : backlog'[k] = backlog[k + 1]
  BY <1>0, StateFacts, SMTT(30)
<1>2. PICK c \in Clients : c = Head(backlog)
  BY <1>1
<1>3. /\ server'.pc = "request" /\ server'.client = c /\ server'.served = server.served
      /\ server' \in [pc : ServerSteps, client : Clients \cup {None},
                      served : 0 .. Cardinality(Clients), peers : Lists]
  <2>1. server' = [pc |-> "request", client |-> c, served |-> server.served, peers |-> server.peers]
    BY <1>0, <1>2, ServerEdit DEF ServerSteps
  <2>2. server.peers \in Lists /\ server.served \in 0 .. Cardinality(Clients)
    BY <1>0, StateFacts
  <2> QED  BY <2>1, <2>2 DEF ServerSteps
<1>4. InSession' /\ Current' = c
  BY <1>3 DEF InSession, Current
<1>5. Queued(c) /\ ~published[c] /\ client[c].pc # "start"
  <2>1. Queued(c)
    BY <1>1, <1>2 DEF Queued
  <2> QED  BY <2>1, <1>0 DEF TurnInv
<1>6. \A k \in 1 .. Len(backlog') : k + 1 \in 1 .. Len(backlog) /\ k + 1 # 1
  BY <1>1
<1>7. \A d : Queued(d)' => Queued(d) /\ d # c
  BY <1>0, <1>1, <1>2, <1>6 DEF Queued, TurnInv
<1>8. TurnInv'
  <2>1. ASSUME NEW j \in 1 .. Len(backlog'), NEW k \in 1 .. Len(backlog'), backlog'[j] = backlog'[k]
        PROVE  j = k
    <3>1. j + 1 = k + 1
      BY <2>1, <1>0, <1>1, <1>6 DEF TurnInv
    <3> QED  BY <3>1
  <2>2. ~Queued(Current)'
    BY <1>4, <1>7 DEF Queued
  <2>3. \A d \in Clients : Queued(d)' => ~published'[d]
    BY <1>0, <1>7 DEF TurnInv
  <2>4. ASSUME NEW d \in Clients, client'[d].pc = "start"
        PROVE  ~Queued(d)' /\ ~published'[d] /\ (InSession' => Current' # d)
    BY <2>4, <1>0, <1>4, <1>5, <1>7 DEF TurnInv
  <2> QED  BY <2>1, <2>2, <2>3, <2>4 DEF TurnInv
<1>9. SessionInv' /\ ServedInv'
  BY <1>0, <1>3, <1>4, <1>5 DEF SessionInv, ServedInv
<1>10. /\ toServer' \in [Clients -> Seq(Infos)] /\ toClient' \in [Clients -> Seq(Infos)]
       /\ \A d \in Clients : \A k \in 1 .. Len(toServer'[d]) :
            toServer'[d][k] \in {CountRequest(d), Endpoints(d)}
       /\ \A d \in Clients : \A k \in 1 .. Len(toClient'[d]) :
            toClient'[d][k] \in {CountResponse(d), Endpoints(d)}
  BY <1>0, StateFacts DEF MessageInv
<1>11. /\ serverQps' \in [Clients -> Lists] /\ published' \in [Clients -> BOOLEAN]
       /\ closed' \in [Clients -> SUBSET {"client", "server"}]
       /\ bootstrap' \in [Clients -> {"none", "sent", "received", "lost"}]
       /\ \A d \in Clients : published[d] => published'[d]
       /\ \A d \in Clients : published'[d] => serverQps'[d] = Identities(Granted(d))
  BY <1>0 DEF TypeOK, PublishedInv
<1> QED  BY <1>0, <1>1, <1>3, <1>8, <1>9, <1>10, <1>11, ServerMoves

\* The server grants a count to the client that asks.
LEMMA ServerNegotiateIInv ==
  ASSUME IInv, ServerNegotiate PROVE IInv'
<1>0. /\ TypeOK /\ MessageInv /\ SessionInv /\ PublishedInv
      /\ toServer \in [Clients -> Seq(Infos)] /\ toClient \in [Clients -> Seq(Infos)]
      /\ server.pc = "request" /\ InSession
  BY StateFacts DEF IInv, ServerNegotiate, InSession
<1>1. PICK c \in Clients : c = Current
  BY <1>0 DEF SessionInv
<1> DEFINE info == Head(toServer[c])
<1>2. /\ toServer[c] # <<>> /\ toServer' = [toServer EXCEPT ![c] = Tail(@)]
      /\ UNCHANGED <<limit, clientVars, published, backlog>>
  BY <1>1 DEF ServerNegotiate
<1>3. CASE ServerExits /\ UNCHANGED <<toClient, serverQps>>
  BY <1>2, <1>3, ServerExitsIInv
<1>4. CASE /\ info.kind = "QpCountRequest"
           /\ server' = [server EXCEPT !.pc = "create"]
           /\ serverQps' = [serverQps EXCEPT ![c] = Unconnected(Negotiated(info.count))]
           /\ toClient' = [toClient EXCEPT ![c] =
                             Append(@, Info("QpCountResponse", Negotiated(info.count), <<>>))]
           /\ UNCHANGED closed
  <2>1. /\ toServer' \in [Clients -> Seq(Infos)]
        /\ \A d \in Clients : \A k \in 1 .. Len(toServer'[d]) :
             \E j \in 1 .. Len(toServer[d]) : toServer'[d][k] = toServer[d][j]
        /\ 1 \in 1 .. Len(toServer[c]) /\ info = toServer[c][1]
    <3>1. Taken(toServer, toServer', c)
      BY <1>0, <1>2, ChannelTail
    <3> QED  BY <3>1 DEF Taken
  <2>2. info \in {CountRequest(c), Endpoints(c)}
    BY <2>1, <1>0 DEF MessageInv
  <2> HIDE DEF info
  <2>3. info.count = client[c].asked /\ Granted(c) \in 1 .. MaxQps /\ CountResponse(c) \in Infos
    BY <2>2, <1>0, <1>4, MessageFacts
  <2>4. Negotiated(info.count) = Granted(c)
    BY <2>3 DEF Granted
  <2>5. Info("QpCountResponse", Negotiated(info.count), <<>>) = CountResponse(c)
    BY <2>4 DEF CountResponse
  <2>6. /\ toClient' \in [Clients -> Seq(Infos)]
        /\ \A d \in Clients : \A k \in 1 .. Len(toClient'[d]) :
              (d = c /\ toClient'[d][k] = CountResponse(c))
              \/ (k \in 1 .. Len(toClient[d]) /\ toClient'[d][k] = toClient[d][k])
    BY <2>3, <2>5, <1>0, <1>4, ChannelAppend
  <2>7. /\ \A d \in Clients : \A k \in 1 .. Len(toServer'[d]) :
             toServer'[d][k] \in {CountRequest(d), Endpoints(d)}
        /\ \A d \in Clients : \A k \in 1 .. Len(toClient'[d]) :
             toClient'[d][k] \in {CountResponse(d), Endpoints(d)}
    <3>1. ASSUME NEW d \in Clients, NEW k \in 1 .. Len(toServer'[d])
          PROVE  toServer'[d][k] \in {CountRequest(d), Endpoints(d)}
      <4>1. PICK j \in 1 .. Len(toServer[d]) : toServer'[d][k] = toServer[d][j]
        BY <2>1
      <4> QED  BY <4>1, <1>0 DEF MessageInv
    <3>2. ASSUME NEW d \in Clients, NEW k \in 1 .. Len(toClient'[d])
          PROVE  toClient'[d][k] \in {CountResponse(d), Endpoints(d)}
      BY <2>6, <1>0 DEF MessageInv
    <3> QED  BY <3>1, <3>2
  <2>8. /\ server' \in [pc : ServerSteps, client : Clients \cup {None},
                        served : 0 .. Cardinality(Clients), peers : Lists]
        /\ server'.pc = "create" /\ server'.client = c /\ server'.served = server.served
    BY <1>0, <1>1, <1>4, StateFacts DEF Current, ServerSteps
  <2>9. /\ serverQps' \in [Clients -> Lists]
        /\ serverQps'[c] = Unconnected(Granted(c))
        /\ \A d \in Clients : d # c => serverQps'[d] = serverQps[d]
    <3>1. Unconnected(Granted(c)) \in Lists
      BY <2>3, ListFacts
    <3> QED  BY <3>1, <2>4, <1>0, <1>4 DEF TypeOK
  <2>10. published' = published /\ published' \in [Clients -> BOOLEAN] /\ ~published'[c]
    BY <1>0, <1>1, <1>2 DEF TypeOK, SessionInv
  <2>11. UNCHANGED <<client, limit, backlog, closed, bootstrap>>
    BY <1>2, <1>4 DEF clientVars
  <2> QED  BY <2>1, <2>6, <2>7, <2>8, <2>9, <2>10, <2>11, <1>0, <1>1, SessionMoves
<1> QED  BY <1>1, <1>3, <1>4 DEF ServerNegotiate

\* The server takes the client's identities and announces its own.
LEMMA ServerAnnounceIInv ==
  ASSUME IInv, ServerAnnounce PROVE IInv'
<1>0. /\ TypeOK /\ MessageInv /\ SessionInv /\ PublishedInv
      /\ toServer \in [Clients -> Seq(Infos)] /\ toClient \in [Clients -> Seq(Infos)]
      /\ server.pc = "endpoints" /\ InSession
  BY StateFacts DEF IInv, ServerAnnounce, InSession
<1>1. PICK c \in Clients : c = Current
  BY <1>0 DEF SessionInv
<1> DEFINE info == Head(toServer[c])
           count == Len(serverQps[c])
<1>2. /\ toServer[c] # <<>> /\ toServer' = [toServer EXCEPT ![c] = Tail(@)]
      /\ UNCHANGED <<limit, clientVars, serverQps, published, backlog>>
  BY <1>1 DEF ServerAnnounce
<1>3. CASE ServerExits /\ UNCHANGED toClient
  BY <1>2, <1>3, ServerExitsIInv
<1>4. CASE /\ info.kind = "QpEndpoints"
           /\ server' = [server EXCEPT !.pc = "connect", !.peers = info.qps]
           /\ toClient' = [toClient EXCEPT ![c] =
                             Append(@, Info("QpEndpoints", count, Identities(count)))]
           /\ UNCHANGED closed
  <2>1. /\ toServer' \in [Clients -> Seq(Infos)]
        /\ \A d \in Clients : \A k \in 1 .. Len(toServer'[d]) :
             \E j \in 1 .. Len(toServer[d]) : toServer'[d][k] = toServer[d][j]
        /\ 1 \in 1 .. Len(toServer[c]) /\ info = toServer[c][1]
    <3>1. Taken(toServer, toServer', c)
      BY <1>0, <1>2, ChannelTail
    <3> QED  BY <3>1 DEF Taken
  <2>2. info \in {CountRequest(c), Endpoints(c)}
    BY <2>1, <1>0 DEF MessageInv
  <2> HIDE DEF info
  <2>3. /\ info.qps = Identities(Granted(c)) /\ Granted(c) \in 1 .. MaxQps /\ Endpoints(c) \in Infos
    BY <2>2, <1>0, <1>4, MessageFacts
  <2>4. count = Granted(c)
    BY <2>3, <1>0, <1>1, ListFacts DEF SessionInv
  <2> HIDE DEF count
  <2>5. Info("QpEndpoints", count, Identities(count)) = Endpoints(c)
    BY <2>4 DEF Endpoints
  <2>6. /\ toClient' \in [Clients -> Seq(Infos)]
        /\ \A d \in Clients : \A k \in 1 .. Len(toClient'[d]) :
              (d = c /\ toClient'[d][k] = Endpoints(c))
              \/ (k \in 1 .. Len(toClient[d]) /\ toClient'[d][k] = toClient[d][k])
    <3>1. toClient' = [toClient EXCEPT ![c] = Append(@, Endpoints(c))]
      BY <2>5, <1>4
    <3>2. toClient \in [Clients -> Seq(Infos)] /\ Endpoints(c) \in Infos
      BY <2>3, <1>0
    <3> QED  BY <3>1, <3>2, ChannelAppend
  <2>7. /\ \A d \in Clients : \A k \in 1 .. Len(toServer'[d]) :
             toServer'[d][k] \in {CountRequest(d), Endpoints(d)}
        /\ \A d \in Clients : \A k \in 1 .. Len(toClient'[d]) :
             toClient'[d][k] \in {CountResponse(d), Endpoints(d)}
    <3>1. ASSUME NEW d \in Clients, NEW k \in 1 .. Len(toServer'[d])
          PROVE  toServer'[d][k] \in {CountRequest(d), Endpoints(d)}
      <4>1. PICK j \in 1 .. Len(toServer[d]) : toServer'[d][k] = toServer[d][j]
        BY <2>1
      <4> QED  BY <4>1, <1>0 DEF MessageInv
    <3>2. ASSUME NEW d \in Clients, NEW k \in 1 .. Len(toClient'[d])
          PROVE  toClient'[d][k] \in {CountResponse(d), Endpoints(d)}
      BY <2>6, <1>0, ZenonT(40) DEF MessageInv
    <3> QED  BY <3>1, <3>2
  <2>8. /\ server' \in [pc : ServerSteps, client : Clients \cup {None},
                        served : 0 .. Cardinality(Clients), peers : Lists]
        /\ server'.pc = "connect" /\ server'.client = c /\ server'.served = server.served
        /\ server'.peers = Identities(Granted(c))
    <3>1. info.qps \in Lists /\ "connect" \in ServerSteps
      BY <2>3, ListFacts DEF ServerSteps
    <3>2. server' = [pc |-> "connect", client |-> c, served |-> server.served, peers |-> info.qps]
      BY <3>1, <1>0, <1>1, <1>4, ServerEdit DEF Current
    <3>3. server.served \in 0 .. Cardinality(Clients)
      BY <1>0, StateFacts
    <3> QED  BY <3>1, <3>2, <3>3, <2>3
  <2>9. /\ serverQps' \in [Clients -> Lists] /\ published' \in [Clients -> BOOLEAN] /\ ~published'[c]
        /\ \A d \in Clients : d # c => serverQps'[d] = serverQps[d] /\ published'[d] = published[d]
    BY <1>0, <1>1, <1>2 DEF TypeOK, SessionInv
  <2>10. ~published[c] /\ UNCHANGED <<client, limit, backlog, closed, bootstrap>>
    BY <1>0, <1>1, <1>2, <1>4 DEF clientVars, SessionInv
  <2> QED  BY <2>1, <2>6, <2>7, <2>8, <2>9, <2>10, <1>0, <1>1, SessionMoves
<1> QED  BY <1>1, <1>3, <1>4 DEF ServerAnnounce

\* The server connects the queue pairs it has made for the client.
LEMMA ServerConnectQpsIInv ==
  ASSUME IInv, ServerConnectQps PROVE IInv'
<1>0. /\ TypeOK /\ MessageInv /\ SessionInv /\ InSession
      /\ server.pc = "connect" /\ server' = [server EXCEPT !.pc = "receive", !.peers = <<>>]
      /\ serverQps' = [serverQps EXCEPT ![Current] = server.peers]
      /\ published' = published /\ toServer' = toServer /\ toClient' = toClient
      /\ UNCHANGED <<client, limit, backlog, closed, bootstrap>>
  BY DEF IInv, ServerConnectQps, InSession, clientVars, channelVars
<1>1. PICK c \in Clients : c = Current
  BY <1>0 DEF SessionInv
<1>2. /\ server' \in [pc : ServerSteps, client : Clients \cup {None},
                      served : 0 .. Cardinality(Clients), peers : Lists]
      /\ server'.pc = "receive" /\ server'.client = c /\ server'.served = server.served
  <2>1. "receive" \in ServerSteps /\ <<>> \in Lists
    <3>1. limit \in 1 .. MaxQps
      BY <1>0 DEF TypeOK
    <3> QED  BY <3>1, ListFacts DEF ServerSteps
  <2>2. server' = [pc |-> "receive", client |-> c, served |-> server.served, peers |-> <<>>]
    BY <2>1, <1>0, <1>1, ServerEdit DEF Current
  <2>3. server.served \in 0 .. Cardinality(Clients)
    BY <1>0, StateFacts
  <2> QED  BY <2>1, <2>2, <2>3
<1>3. server.peers \in Lists /\ server.peers = Identities(Granted(c)) /\ ~published[c]
  BY <1>0, <1>1, ServerEdit, StateFacts DEF SessionInv
<1>4. /\ serverQps' \in [Clients -> Lists] /\ published' \in [Clients -> BOOLEAN]
      /\ serverQps'[c] = Identities(Granted(c))
      /\ \A d \in Clients : d # c => serverQps'[d] = serverQps[d] /\ published'[d] = published[d]
  <2>1. serverQps \in [Clients -> Lists] /\ published \in [Clients -> BOOLEAN]
    BY <1>0 DEF TypeOK
  <2>2. serverQps' = [serverQps EXCEPT ![c] = server.peers] /\ published' = published
    BY <1>0, <1>1
  <2> QED  BY <2>1, <2>2, <1>3
<1>5. /\ toServer' \in [Clients -> Seq(Infos)] /\ toClient' \in [Clients -> Seq(Infos)]
      /\ \A d \in Clients : \A k \in 1 .. Len(toServer'[d]) :
           toServer'[d][k] \in {CountRequest(d), Endpoints(d)}
      /\ \A d \in Clients : \A k \in 1 .. Len(toClient'[d]) :
           toClient'[d][k] \in {CountResponse(d), Endpoints(d)}
  <2>1. toServer' = toServer /\ toClient' = toClient /\ MessageInv
    BY <1>0
  <2>2. toServer \in [Clients -> Seq(Infos)] /\ toClient \in [Clients -> Seq(Infos)]
    BY <1>0, StateFacts
  <2> QED  BY <2>1, <2>2 DEF MessageInv
<1>6. InSession /\ UNCHANGED <<client, limit, backlog, closed, bootstrap>>
  BY <1>0
<1> QED  BY <1>1, <1>2, <1>3, <1>4, <1>5, <1>6, SessionMoves

\* The server writes the namespace record, to queue pairs that it has connected.
LEMMA ServerPublishIInv ==
  ASSUME IInv, ServerPublish PROVE IInv'
<1>0. /\ TypeOK /\ MessageInv /\ SessionInv /\ InSession /\ server.pc = "namespace"
      /\ server' = [server EXCEPT !.pc = "slots"] /\ published' = [published EXCEPT ![Current] = TRUE]
      /\ serverQps' = serverQps /\ toServer' = toServer /\ toClient' = toClient
      /\ UNCHANGED <<client, limit, backlog, closed, bootstrap>>
  BY DEF IInv, ServerPublish, InSession, clientVars, channelVars
<1>1. PICK c \in Clients : c = Current
  BY <1>0 DEF SessionInv
<1>2. /\ server' \in [pc : ServerSteps, client : Clients \cup {None},
                      served : 0 .. Cardinality(Clients), peers : Lists]
      /\ server'.pc = "slots" /\ server'.client = c /\ server'.served = server.served
  BY <1>0, <1>1, StateFacts DEF Current, ServerSteps
<1>3. /\ serverQps' \in [Clients -> Lists] /\ published' \in [Clients -> BOOLEAN]
      /\ published'[c] /\ serverQps'[c] = Identities(Granted(c))
      /\ \A d \in Clients : d # c => serverQps'[d] = serverQps[d] /\ published'[d] = published[d]
  BY <1>0, <1>1 DEF TypeOK, SessionInv
<1>4. /\ toServer' \in [Clients -> Seq(Infos)] /\ toClient' \in [Clients -> Seq(Infos)]
      /\ \A d \in Clients : \A k \in 1 .. Len(toServer'[d]) :
           toServer'[d][k] \in {CountRequest(d), Endpoints(d)}
      /\ \A d \in Clients : \A k \in 1 .. Len(toClient'[d]) :
           toClient'[d][k] \in {CountResponse(d), Endpoints(d)}
  BY <1>0, StateFacts DEF MessageInv
<1>5. InSession /\ UNCHANGED <<client, limit, backlog, closed, bootstrap>>
  BY <1>0
<1> QED  BY <1>1, <1>2, <1>3, <1>4, <1>5, SessionMoves

\* The session is over: the server takes the next client, or has served them all.
LEMMA ServerEndsSessionIInv ==
  ASSUME IInv, ServerEndsSession PROVE IInv'
<1> DEFINE p == IF server.served + 1 = Cardinality(Clients) THEN "exit" ELSE "accept"
<1>0. /\ TypeOK /\ MessageInv /\ SessionInv /\ TurnInv /\ PublishedInv /\ ServedInv
      /\ InSession /\ server.pc = "serve"
      /\ client' = client /\ bootstrap' = bootstrap /\ limit' = limit /\ serverQps' = serverQps
      /\ published' = published /\ backlog' = backlog /\ toServer' = toServer /\ toClient' = toClient
      /\ closed' = [closed EXCEPT ![Current] = @ \cup {"server"}]
  BY DEF IInv, InSession, ServerEndsSession, clientVars
<1>1. Current \in Clients
  BY <1>0 DEF SessionInv
<1>2. /\ server.served \in 0 .. Cardinality(Clients) /\ Cardinality(Clients) \in Nat
      /\ server.served < Cardinality(Clients) /\ server.peers \in Lists
  BY <1>0, <1>1, StateFacts DEF ServedInv
<1>3. /\ server'.pc = p /\ server'.served = server.served + 1
      /\ server' \in [pc : ServerSteps, client : Clients \cup {None},
                      served : 0 .. Cardinality(Clients), peers : Lists]
  <2>1. p \in ServerSteps
    BY DEF ServerSteps
  <2>2. server' = [server EXCEPT !.pc = p, !.client = None, !.served = @ + 1]
    BY DEF ServerEndsSession
  <2> HIDE DEF p
  <2>3. server' = [pc |-> p, client |-> None, served |-> server.served + 1, peers |-> server.peers]
    BY <2>1, <2>2, <1>0, ServerEdit
  <2>4. server.served + 1 \in 0 .. Cardinality(Clients)
    BY <1>2
  <2> QED  BY <2>1, <2>3, <2>4, <1>2
<1>4. ~InSession' /\ ServedInv'
  BY <1>2, <1>3 DEF InSession, ServedInv
<1>5. SessionInv' /\ TurnInv'
  BY <1>0, <1>4 DEF SessionInv, TurnInv, Queued
<1>6. closed' \in [Clients -> SUBSET {"client", "server"}]
  BY <1>0 DEF TypeOK
<1>7. /\ toServer' \in [Clients -> Seq(Infos)] /\ toClient' \in [Clients -> Seq(Infos)]
      /\ \A d \in Clients : \A k \in 1 .. Len(toServer'[d]) :
           toServer'[d][k] \in {CountRequest(d), Endpoints(d)}
      /\ \A d \in Clients : \A k \in 1 .. Len(toClient'[d]) :
           toClient'[d][k] \in {CountResponse(d), Endpoints(d)}
  BY <1>0, StateFacts DEF MessageInv
<1>8. /\ serverQps' \in [Clients -> Lists] /\ published' \in [Clients -> BOOLEAN]
      /\ bootstrap' \in [Clients -> {"none", "sent", "received", "lost"}] /\ backlog' \in Seq(Clients)
      /\ \A d \in Clients : published[d] => published'[d]
      /\ \A d \in Clients : published'[d] => serverQps'[d] = Identities(Granted(d))
  BY <1>0 DEF TypeOK, PublishedInv
<1> QED  BY <1>0, <1>3, <1>4, <1>5, <1>6, <1>7, <1>8, ServerMoves

\* Every step of the server.
LEMMA ServerStepIInv ==
  ASSUME IInv, ServerStep PROVE IInv'
<1>0. SessionInv
  BY DEF IInv
<1>1. CASE ServerAccept \/ ServerNegotiate \/ ServerAnnounce \/ ServerConnectQps \/ ServerPublish
           \/ ServerEndsSession
  BY <1>1, ServerAcceptIInv, ServerNegotiateIInv, ServerAnnounceIInv, ServerConnectQpsIInv,
     ServerPublishIInv, ServerEndsSessionIInv
<1>2. CASE ServerCreateQps
  <2>1. InSession /\ serverQps[Current] = Unconnected(Granted(Current)) /\ ~published[Current]
    BY <1>0, <1>2 DEF ServerCreateQps, SessionInv, InSession
  <2> QED  BY <2>1, <1>2, ServerGoesOn DEF ServerCreateQps, ServerSteps
<1>3. CASE ServerPostReceive \/ ServerTakeBootstrap \/ ServerFetchSlots
  <2>1. InSession /\ serverQps[Current] = Identities(Granted(Current))
    BY <1>0, <1>3 DEF ServerPostReceive, ServerTakeBootstrap, ServerFetchSlots, SessionInv, InSession
  <2>2. PICK p \in {"bootstrap", "namespace", "serve"} : server' = [server EXCEPT !.pc = p]
    BY <1>3 DEF ServerPostReceive, ServerTakeBootstrap, ServerFetchSlots
  <2>3. UNCHANGED <<limit, clientVars, serverQps, published, channelVars>>
    BY <1>3 DEF ServerPostReceive, ServerTakeBootstrap, ServerFetchSlots
  <2>4. /\ p \in ServerSteps \ {"accept", "exit", "connect"}
        /\ p \notin {"create", "endpoints"} /\ p \notin {"request", "create", "endpoints"}
    BY DEF ServerSteps
  <2> QED  BY <2>1, <2>2, <2>3, <2>4, ServerGoesOn
<1>4. CASE ServerClientGone \/ ServerFails
  <2>1. Current \in Clients
    BY <1>0, <1>4 DEF ServerClientGone, ServerFails, SessionInv, InSession
  <2>2. /\ ServerExits /\ toServer' = toServer
        /\ UNCHANGED <<limit, clientVars, serverQps, published, backlog, toClient>>
    BY <1>4 DEF ServerClientGone, ServerFails
  <2> QED  BY <2>1, <2>2, ServerExitsIInv
<1> QED  BY <1>1, <1>2, <1>3, <1>4 DEF ServerStep

-----------------------------------------------------------------------------
(* The theorems. *)

\* Nothing but the bootstrap Sends changes.
LEMMA BootstrapIInv ==
  ASSUME IInv, bootstrap' \in [Clients -> {"none", "sent", "received", "lost"}],
         UNCHANGED <<client, limit, serverVars, channelVars>>
  PROVE  IInv'
<1>0. /\ TypeOK /\ MessageInv /\ ClientInv /\ SessionInv /\ TurnInv /\ PublishedInv /\ ServedInv
      /\ client' = client /\ limit' = limit /\ server' = server /\ serverQps' = serverQps
      /\ published' = published /\ backlog' = backlog /\ toServer' = toServer
      /\ toClient' = toClient /\ closed' = closed
  BY DEF IInv, serverVars, channelVars
<1>1. TypeOK'
  BY <1>0 DEF TypeOK
<1>2. MessageInv' /\ ClientInv' /\ PublishedInv' /\ ServedInv'
  BY <1>0 DEF MessageInv, ClientInv, PublishedInv, ServedInv, CountRequest, CountResponse, Endpoints,
              Granted, Negotiated
<1>3. SessionInv' /\ TurnInv'
  BY <1>0 DEF SessionInv, TurnInv, Queued, InSession, Current, Granted, Negotiated
<1> QED  BY <1>1, <1>2, <1>3 DEF IInv

\* The initial states satisfy the invariant.
LEMMA InitIInv ==
  ASSUME Init PROVE IInv
<1>1. PICK asked \in [Clients -> 1 .. MaxQps] :
        client = [c \in Clients |-> [pc |-> "start", asked |-> asked[c], qps |-> <<>>]]
  BY DEF Init
<1>2. <<>> \in Lists /\ Cardinality(Clients) \in Nat
  <2>1. limit \in 1 .. MaxQps
    BY DEF Init
  <2> QED  BY <2>1, ListFacts, SetupAssumption, FS_CardinalityType
<1>3. client \in [Clients -> [pc : ClientSteps, asked : 1 .. MaxQps, qps : Lists]]
  BY <1>1, <1>2 DEF ClientSteps
<1>4. server \in [pc : ServerSteps, client : Clients \cup {None},
                  served : 0 .. Cardinality(Clients), peers : Lists]
  BY <1>2 DEF Init, ServerSteps
<1>5. TypeOK
  BY <1>2, <1>3, <1>4 DEF Init, TypeOK
<1>6. MessageInv /\ ClientInv
  BY <1>1 DEF Init, MessageInv, ClientInv
<1>7. ~InSession /\ Len(backlog) = 0
  BY DEF Init, InSession
<1>8. SessionInv /\ TurnInv /\ PublishedInv
  BY <1>7 DEF Init, SessionInv, TurnInv, PublishedInv, Queued
<1>9. ServedInv
  <2>1. Clients # {} => Cardinality(Clients) # 0
    BY SetupAssumption, FS_EmptySet
  <2> QED  BY <2>1, <1>2 DEF Init, ServedInv
<1> QED  BY <1>5, <1>6, <1>8, <1>9 DEF IInv

\* Every step of the specification preserves the invariant.
LEMMA NextIInv ==
  ASSUME IInv, [Next]_vars PROVE IInv'
<1>0. bootstrap \in [Clients -> {"none", "sent", "received", "lost"}]
  BY DEF IInv, TypeOK
<1>1. CASE \E c \in Clients : ClientStep(c)
  BY <1>1, ClientStepIInv
<1>2. CASE ServerStep
  BY <1>2, ServerStepIInv
<1>3. CASE DeliverBootstrap \/ LoseBootstrap
  <2>1. bootstrap' \in [Clients -> {"none", "sent", "received", "lost"}]
    BY <1>0, <1>3 DEF DeliverBootstrap, LoseBootstrap
  <2> QED  BY <2>1, <1>3, BootstrapIInv DEF DeliverBootstrap, LoseBootstrap
<1>4. CASE UNCHANGED vars
  BY <1>0, <1>4, BootstrapIInv DEF vars, serverVars, channelVars
<1> QED  BY <1>1, <1>2, <1>3, <1>4 DEF Next

\* The inductive invariant holds throughout, however many clients there are and
\* however their and the server's steps interleave.
THEOREM Invariance == Spec => []IInv
  BY InitIInv, NextIInv, PTL DEF Spec

\* Every reachable state is well-typed: in particular every count on the wire is
\* between one and kMaxQpInfoBatch, and no more sessions are served than there
\* are clients.
THEOREM TypeCorrect == Spec => []TypeOK
<1>1. IInv => TypeOK
  BY DEF IInv
<1> QED  BY <1>1, Invariance, PTL

\* A client submits commands only when the server has connected its queue pairs,
\* as many as the client's and in the same order.
THEOREM OpensConnected == Spec => []OpenMeansConnected
<1>1. IInv => OpenMeansConnected
  BY DEF IInv, ClientInv, PublishedInv, OpenMeansConnected, Granted
<1> QED  BY <1>1, Invariance, PTL

=============================================================================
