---------------------------- MODULE SessionSetup ----------------------------
(***************************************************************************)
(* How a session comes up: the TCP exchange in which client and server     *)
(* agree on the number of queue pairs and tell each other their identities *)
(* (Transport::open on either side), then the storage bootstrap over queue *)
(* pair 0: the client's bootstrap Send, the server's namespace Write, the  *)
(* server's read of the slot table.  The server has one listener and takes *)
(* its clients one after the other; a client that connects early waits in  *)
(* the backlog.  No TCP read has a deadline: it ends with a message or     *)
(* with the peer's close.  Every other step may fail, and a side that      *)
(* fails gives up its objects, which closes the channel and its queue      *)
(* pairs.                                                                  *)
(***************************************************************************)
EXTENDS Integers, Sequences, FiniteSets

CONSTANTS
  Clients,   \* the clients; the server is started for as many sessions
  MaxQps,    \* kMaxQpInfoBatch
  Failures   \* whether local steps fail and waits run into their timeout

ASSUME SetupAssumption ==
  /\ IsFiniteSet(Clients) /\ MaxQps \in Nat \ {0} /\ Failures \in BOOLEAN

VARIABLES
  client,      \* client -> where it is, the QPs it asks for, its QPs' peers
  limit,       \* max_qp_count of the server
  server,      \* where the server is, its current client, sessions served
  serverQps,   \* client -> the peers of the server's QPs for it
  backlog,     \* connections not accepted yet, oldest first
  toServer, toClient, \* client -> TransportInfo messages on their way
  closed,      \* client -> the sides that closed its channel
  bootstrap,   \* client -> its bootstrap Send
  published    \* client -> the namespace record has been written

clientVars == <<client, bootstrap>>
serverVars == <<server, serverQps, published>>
channelVars == <<backlog, toServer, toClient, closed>>
vars == <<client, limit, server, serverQps, backlog, toServer, toClient, closed,
          bootstrap, published>>

None == <<>>
NoPeer == 0

\* a TransportInfo message: its kind, its QP count, the QPs of QpEndpoints
Kinds == {"QpCountRequest", "QpCountResponse", "QpEndpoints"}
Info(kind, count, qps) == [kind |-> kind, count |-> count, qps |-> qps]
Lists == UNION {[1 .. n -> 0 .. MaxQps] : n \in 0 .. MaxQps}
Infos == [kind : Kinds, count : 1 .. MaxQps, qps : Lists]

ClientSteps == {"start", "count", "endpoints", "bootstrap", "observe", "open", "failed"}
ServerSteps == {"accept", "request", "create", "endpoints", "connect", "receive",
                "bootstrap", "namespace", "slots", "serve", "exit"}

\* The least state every reachable state has; counts on the wire are legal.
TypeOK ==
  /\ client \in [Clients -> [pc : ClientSteps, asked : 1 .. MaxQps, qps : Lists]]
  /\ limit \in 1 .. MaxQps
  /\ server \in [pc : ServerSteps, client : Clients \cup {None},
                 served : 0 .. Cardinality(Clients), peers : Lists]
  /\ serverQps \in [Clients -> Lists]
  /\ backlog \in Seq(Clients)
  /\ toServer \in [Clients -> Seq(Infos)] /\ toClient \in [Clients -> Seq(Infos)]
  /\ closed \in [Clients -> SUBSET {"client", "server"}]
  /\ bootstrap \in [Clients -> {"none", "sent", "received", "lost"}]
  /\ published \in [Clients -> BOOLEAN]

Init ==
  /\ \E asked \in [Clients -> 1 .. MaxQps] :
       client = [c \in Clients |-> [pc |-> "start", asked |-> asked[c], qps |-> <<>>]]
  /\ limit \in 1 .. MaxQps
  /\ server = [pc |-> "accept", client |-> None, served |-> 0, peers |-> <<>>]
  /\ serverQps = [c \in Clients |-> <<>>]
  /\ backlog = <<>>
  /\ toServer = [c \in Clients |-> <<>>] /\ toClient = [c \in Clients |-> <<>>]
  /\ closed = [c \in Clients |-> {}]
  /\ bootstrap = [c \in Clients |-> "none"]
  /\ published = [c \in Clients |-> FALSE]

\* the identities of n fresh QPs, and n QPs that are created and not connected
Identities(n) == [i \in 1 .. n |-> i]
Unconnected(n) == [i \in 1 .. n |-> NoPeer]

-----------------------------------------------------------------------------
(* The client: Transport::open, StorageClient::open, the bootstrap. *)

\* Faulty form: the client gives up and keeps the channel open.
ClientGivesUpOpen(c) ==
  /\ client' = [client EXCEPT ![c].pc = "failed"]
  /\ UNCHANGED closed

\* an error return of open: the application ends and its channel is closed
ClientGivesUp(c) ==
  /\ client' = [client EXCEPT ![c].pc = "failed"]
  /\ closed' = [closed EXCEPT ![c] = @ \cup {"client"}]

\* The channel is connected and the count requested; nobody listens any more
\* once the server has exited.
ClientConnect(c) ==
  /\ client[c].pc = "start"
  /\ \/ /\ server.pc = "exit" /\ ClientGivesUp(c)
        /\ UNCHANGED <<backlog, toServer>>
     \/ /\ server.pc # "exit"
        /\ client' = [client EXCEPT ![c].pc = "count"]
        /\ backlog' = Append(backlog, c)
        /\ toServer' = [toServer EXCEPT ![c] =
                          Append(@, Info("QpCountRequest", client[c].asked, <<>>))]
        /\ UNCHANGED closed
  /\ UNCHANGED <<limit, serverVars, toClient, bootstrap>>

\* The accepted count is checked, that many QPs are created and announced.
ClientCreateQps(c) ==
  /\ client[c].pc = "count" /\ toClient[c] # <<>>
  /\ toClient' = [toClient EXCEPT ![c] = Tail(@)]
  /\ LET info == Head(toClient[c]) IN
       IF info.kind # "QpCountResponse" \/ info.count > client[c].asked
       THEN ClientGivesUp(c) /\ UNCHANGED toServer
       ELSE /\ client' = [client EXCEPT ![c].pc = "endpoints", ![c].qps = Unconnected(info.count)]
            /\ toServer' = [toServer EXCEPT ![c] =
                              Append(@, Info("QpEndpoints", info.count, Identities(info.count)))]
            /\ UNCHANGED closed
  /\ UNCHANGED <<limit, serverVars, backlog, bootstrap>>

\* The QPs are connected to the server's, pair by pair; the descriptors are
\* built and the slots registered.
ClientConnectQps(c) ==
  /\ client[c].pc = "endpoints" /\ toClient[c] # <<>>
  /\ toClient' = [toClient EXCEPT ![c] = Tail(@)]
  /\ LET info == Head(toClient[c]) IN
       IF info.kind # "QpEndpoints" \/ info.count # Len(client[c].qps)
       THEN ClientGivesUp(c)
       ELSE /\ client' = [client EXCEPT ![c].pc = "bootstrap", ![c].qps = info.qps]
            /\ UNCHANGED closed
  /\ UNCHANGED <<limit, serverVars, backlog, toServer, bootstrap>>

\* storage_bootstrap posts the Send and does not wait for its completion.
ClientBootstrap(c) ==
  /\ client[c].pc = "bootstrap"
  /\ bootstrap' = [bootstrap EXCEPT ![c] = "sent"]
  /\ client' = [client EXCEPT ![c].pc = "observe"]
  /\ UNCHANGED <<limit, serverVars, channelVars>>

\* Faulty form: the namespace record is taken as it is found.
ClientObserveAnything(c) ==
  /\ client[c].pc = "observe"
  /\ client' = [client EXCEPT ![c].pc = "open"]
  /\ UNCHANGED <<limit, serverVars, channelVars, bootstrap>>

\* observe_namespace finds a valid record; from here on commands are submitted
ClientObserve(c) ==
  /\ client[c].pc = "observe" /\ published[c]
  /\ client' = [client EXCEPT ![c].pc = "open"]
  /\ UNCHANGED <<limit, serverVars, channelVars, bootstrap>>

\* a blocked read ends with the server's close
ClientPeerClosed(c) ==
  /\ client[c].pc \in {"count", "endpoints"}
  /\ toClient[c] = <<>> /\ "server" \in closed[c]
  /\ ClientGivesUp(c)
  /\ UNCHANGED <<limit, serverVars, backlog, toServer, toClient, bootstrap>>

\* a local step fails, or the wait for the namespace record runs out
ClientFails(c) ==
  /\ Failures
  /\ \/ client[c].pc \in {"start", "bootstrap", "observe"}
     \/ client[c].pc \in {"count", "endpoints"} /\ toClient[c] # <<>>
  /\ ClientGivesUp(c)
  /\ UNCHANGED <<limit, serverVars, backlog, toServer, toClient, bootstrap>>

ClientStep(c) ==
  \/ ClientConnect(c) \/ ClientCreateQps(c) \/ ClientConnectQps(c) \/ ClientBootstrap(c)
  \/ ClientObserve(c) \/ ClientPeerClosed(c) \/ ClientFails(c)

-----------------------------------------------------------------------------
(* The server: accept, Transport::open, the start of serve_commands. *)

Current == server.client

\* Faulty form: the process ends and the connections in its backlog linger.
ServerExitsLingering ==
  /\ server' = [server EXCEPT !.pc = "exit"]
  /\ closed' = [closed EXCEPT ![Current] = @ \cup {"server"}]

\* an error of any client's session ends the process, and with it every connection
ServerExits ==
  /\ server' = [server EXCEPT !.pc = "exit"]
  /\ closed' = [c \in Clients |->
                  IF c = Current \/ \E k \in 1 .. Len(backlog) : backlog[k] = c
                  THEN closed[c] \cup {"server"} ELSE closed[c]]

ServerAccept ==
  /\ server.pc = "accept" /\ backlog # <<>>
  /\ server' = [server EXCEPT !.pc = "request", !.client = Head(backlog)]
  /\ backlog' = Tail(backlog)
  /\ UNCHANGED <<limit, clientVars, serverQps, published, toServer, toClient, closed>>

\* Faulty form: the counts are off by one.
NegotiatedBelow(asked) == (IF asked < limit THEN asked ELSE limit) - 1

\* what the server grants
Negotiated(asked) == IF asked < limit THEN asked ELSE limit

\* The request is answered before any QP exists.
ServerNegotiate ==
  /\ server.pc = "request" /\ toServer[Current] # <<>>
  /\ toServer' = [toServer EXCEPT ![Current] = Tail(@)]
  /\ LET info == Head(toServer[Current])
         count == Negotiated(info.count)
     IN IF info.kind # "QpCountRequest"
        THEN ServerExits /\ UNCHANGED <<toClient, serverQps>>
        ELSE /\ server' = [server EXCEPT !.pc = "create"]
             /\ serverQps' = [serverQps EXCEPT ![Current] = Unconnected(count)]
             /\ toClient' = [toClient EXCEPT ![Current] =
                               Append(@, Info("QpCountResponse", count, <<>>))]
             /\ UNCHANGED closed
  /\ UNCHANGED <<limit, clientVars, published, backlog>>

\* the device is opened and the QPs created
ServerCreateQps ==
  /\ server.pc = "create"
  /\ server' = [server EXCEPT !.pc = "endpoints"]
  /\ UNCHANGED <<limit, clientVars, serverQps, published, channelVars>>

\* The client's QPs arrive and the server's are announced: they are not
\* connected yet.
ServerAnnounce ==
  /\ server.pc = "endpoints" /\ toServer[Current] # <<>>
  /\ toServer' = [toServer EXCEPT ![Current] = Tail(@)]
  /\ LET info == Head(toServer[Current])
         count == Len(serverQps[Current])
     IN IF info.kind # "QpEndpoints" \/ info.count # count
        THEN ServerExits /\ UNCHANGED toClient
        ELSE /\ server' = [server EXCEPT !.pc = "connect", !.peers = info.qps]
             /\ toClient' = [toClient EXCEPT ![Current] =
                               Append(@, Info("QpEndpoints", count, Identities(count)))]
             /\ UNCHANGED closed
  /\ UNCHANGED <<limit, clientVars, serverQps, published, backlog>>

ServerConnectQps ==
  /\ server.pc = "connect"
  /\ server' = [server EXCEPT !.pc = "receive", !.peers = <<>>]
  /\ serverQps' = [serverQps EXCEPT ![Current] = server.peers]
  /\ UNCHANGED <<limit, clientVars, published, channelVars>>

\* serve_commands posts the bootstrap receive and waits for it
ServerPostReceive ==
  /\ server.pc = "receive"
  /\ server' = [server EXCEPT !.pc = "bootstrap"]
  /\ UNCHANGED <<limit, clientVars, serverQps, published, channelVars>>

ServerTakeBootstrap ==
  /\ server.pc = "bootstrap" /\ bootstrap[Current] = "received"
  /\ server' = [server EXCEPT !.pc = "namespace"]
  /\ UNCHANGED <<limit, clientVars, serverQps, published, channelVars>>

\* exchange_bootstrap writes the namespace record; a client that has gone fails
\* the Write, and the read of the slot table alike
ServerPublish ==
  /\ server.pc = "namespace" /\ client[Current].pc # "failed"
  /\ published' = [published EXCEPT ![Current] = TRUE]
  /\ server' = [server EXCEPT !.pc = "slots"]
  /\ UNCHANGED <<limit, clientVars, serverQps, channelVars>>

ServerFetchSlots ==
  /\ server.pc = "slots" /\ client[Current].pc # "failed"
  /\ server' = [server EXCEPT !.pc = "serve"]
  /\ UNCHANGED <<limit, clientVars, serverQps, published, channelVars>>

ServerClientGone ==
  /\ \/ server.pc \in {"request", "endpoints"}
        /\ toServer[Current] = <<>> /\ "client" \in closed[Current]
     \/ server.pc \in {"namespace", "slots"} /\ client[Current].pc = "failed"
  /\ ServerExits
  /\ UNCHANGED <<limit, clientVars, serverQps, published, backlog, toServer, toClient>>

\* The commands are served (StorageWorker); then the next client, if any.
ServerEndsSession ==
  /\ server.pc = "serve"
  /\ closed' = [closed EXCEPT ![Current] = @ \cup {"server"}]
  /\ server' = [server EXCEPT !.pc = IF server.served + 1 = Cardinality(Clients) THEN "exit" ELSE "accept",
                              !.client = None, !.served = @ + 1]
  /\ UNCHANGED <<limit, clientVars, serverQps, published, backlog, toServer, toClient>>

\* a local step, a wait for a completion or serving the commands fails
ServerFails ==
  /\ Failures
  /\ \/ server.pc \in {"create", "connect", "receive", "bootstrap", "namespace", "slots", "serve"}
     \/ server.pc \in {"request", "endpoints"} /\ toServer[Current] # <<>>
  /\ ServerExits
  /\ UNCHANGED <<limit, clientVars, serverQps, published, backlog, toServer, toClient>>

ServerStep ==
  \/ ServerAccept \/ ServerNegotiate \/ ServerCreateQps \/ ServerAnnounce
  \/ ServerConnectQps \/ ServerPostReceive \/ ServerTakeBootstrap \/ ServerPublish
  \/ ServerFetchSlots \/ ServerClientGone \/ ServerEndsSession \/ ServerFails

-----------------------------------------------------------------------------
(* The network under the bootstrap Send (external). *)

\* The adapter resends until the server's QP is connected and has a receive.
DeliverBootstrap ==
  /\ server.pc = "bootstrap" /\ bootstrap[Current] = "sent"
  /\ bootstrap' = [bootstrap EXCEPT ![Current] = "received"]
  /\ UNCHANGED <<client, limit, serverVars, channelVars>>

\* A QP that is not connected yet drops the Send; the retries may run out.
LoseBootstrap ==
  /\ Failures /\ server.pc = "connect" /\ bootstrap[Current] = "sent"
  /\ bootstrap' = [bootstrap EXCEPT ![Current] = "lost"]
  /\ UNCHANGED <<client, limit, serverVars, channelVars>>

Next ==
  \/ \E c \in Clients : ClientStep(c)
  \/ ServerStep
  \/ DeliverBootstrap \/ LoseBootstrap

Spec == Init /\ [][Next]_vars

\* Every process runs, and the adapter delivers what it can.
FairSpec ==
  /\ Spec
  /\ \A c \in Clients : WF_vars(ClientStep(c))
  /\ WF_vars(ServerStep)
  /\ WF_vars(DeliverBootstrap)

-----------------------------------------------------------------------------
(* Properties. *)

\* A client submits commands only when the server has connected its QPs, as many
\* as the client has and QP by QP the client's partners: Sends of commands never
\* meet a queue pair that would drop them, although the server announces its
\* queue pairs before it connects them.
OpenMeansConnected ==
  \A c \in Clients : client[c].pc = "open" =>
    /\ client[c].qps = Identities(Negotiated(client[c].asked))
    /\ serverQps[c] = client[c].qps

\* Every client's open ends, in success or failure, although its TCP reads have
\* no deadline and it may have to wait for another client's whole session: the
\* server answers, or its end closes the channel.
ClientOpenEnds == \A c \in Clients : <>(client[c].pc \in {"open", "failed"})

\* A session the server has accepted ends, whatever its client does: the
\* server is back at accept or has exited.
SessionEnds == (server.pc # "accept") ~> (server.pc \in {"accept", "exit"})
=============================================================================
