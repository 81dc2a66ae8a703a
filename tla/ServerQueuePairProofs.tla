----------------------- MODULE ServerQueuePairProofs -----------------------
(***************************************************************************)
(* Invariance proofs for ServerQueuePair, for every depth and every bound. *)
(*                                                                         *)
(* The argument rests on the order of the completions.  Those put aside    *)
(* and, behind them, those not polled yet are looked at as one list: a     *)
(* poll that puts a completion aside does not change it, a wait that ends  *)
(* takes one element out, the adapter appends.  In each direction the list *)
(* has strictly increasing ids, all below those the adapter still has, so  *)
(* a request has at most one completion.                                   *)
(***************************************************************************)
EXTENDS ServerQueuePair, FiniteSetTheorems, SequenceTheorems, TLAPS

-----------------------------------------------------------------------------
(* The inductive invariant. *)

\* the list of the completions not handed out yet: its length and elements
Found == Len(stash) + Len(cq)
At(k) == IF k <= Len(stash) THEN stash[k] ELSE cq[k - Len(stash)]

SameDirection(r, s) == r.op = "RECV" <=> s.op = "RECV"

\* The adapter is done with the request: it is behind all it still has.
Passed(r) ==
  IF r.op = "RECV" THEN r.id < nextReceive - Len(recvQueue)
  ELSE r.id < nextSend /\ \A k \in 1 .. Len(sendQueue) : r.id < sendQueue[k].id

\* The receives held are the last ones posted; the adapter has the last of these.
RecvInv ==
  /\ nextReceive <= MaxReceives + 1
  /\ Len(recvQueue) <= Len(pending) /\ Len(pending) < nextReceive
  /\ \A k \in 1 .. Len(pending) : pending[k] = nextReceive - Len(pending) + k - 1
  /\ \A k \in 1 .. Len(recvQueue) : recvQueue[k] = nextReceive - Len(recvQueue) + k - 1

\* Unexecuted sends are in the ring, in id order.
SendInv ==
  /\ FirstSend <= nextSend /\ nextSend <= FirstSend + MaxSends
  /\ \A k \in 1 .. Len(sendQueue) : sendQueue[k].id \in sendRing /\ sendQueue[k].op # "RECV"
  /\ \A j, k \in 1 .. Len(sendQueue) : j < k => sendQueue[j].id < sendQueue[k].id
  /\ \A i \in sendRing : i < nextSend
  /\ IsFiniteSet(sendRing) /\ Cardinality(sendRing) <= QpDepth

\* A send the caller can wait for is signaled if the adapter still has it.
DueInv ==
  \A r \in due :
    /\ r.op # "RECV" /\ r.id < nextSend
    /\ \A k \in 1 .. Len(sendQueue) : sendQueue[k].id = r.id => sendQueue[k].signaled

\* A completion is of a request the adapter is done with; a receive's is still
\* held, a send's not yet polled still occupies the ring.  The opcode of a
\* successful one is its request's, and none claims to be a receive wrongly.
CompletionInv ==
  \A k \in 1 .. Found :
    /\ Passed(At(k).of)
    /\ At(k).op = "RECV" => At(k).of.op = "RECV"
    /\ At(k).of.op = "RECV" => nextReceive - Len(pending) <= At(k).of.id
    /\ At(k).ok => At(k).op = At(k).of.op /\ At(k).of \in executed
    /\ ~broken => At(k).ok
    /\ k > Len(stash) /\ At(k).of.op # "RECV" => At(k).of.id \in sendRing

\* In each direction the ids of the completions increase.
OrderInv ==
  \A j, k \in 1 .. Found :
    j < k /\ SameDirection(At(j).of, At(k).of) => At(j).of.id < At(k).of.id

\* What has executed and may be waited for has its completion in the list.
FoundInv ==
  ~broken => \A r \in Held : r \in executed => \E k \in 1 .. Found : At(k).of = r

DoneInv == \A r \in executed : Passed(r)

\* A wait for a receive is for the oldest one.
WaitInv == awaited.op = "RECV" => pending # <<>> /\ awaited.id = pending[1]

IInv ==
  /\ TypeOK /\ RecvInv /\ SendInv /\ DueInv
  /\ CompletionInv /\ OrderInv /\ DoneInv /\ FoundInv /\ WaitInv

-----------------------------------------------------------------------------
(* Sequences, minima and cardinalities. *)

\* Two sequences in a row.
LEMMA ConcatFacts ==
  ASSUME NEW S, NEW a \in Seq(S), NEW b \in Seq(S)
  PROVE  LET d == a \o b
         IN  /\ d \in Seq(S) /\ Len(d) = Len(a) + Len(b)
             /\ \A k \in 1 .. Len(d) : d[k] = IF k <= Len(a) THEN a[k] ELSE b[k - Len(a)]
  OBVIOUS

\* A part of a sequence.
LEMMA PartFacts ==
  ASSUME NEW S, NEW s \in Seq(S), NEW m \in 1 .. (Len(s) + 1), NEW n \in (m - 1) .. Len(s)
  PROVE  LET d == SubSeq(s, m, n)
         IN  /\ d \in Seq(S) /\ Len(d) = n - m + 1
             /\ \A k \in 1 .. Len(d) : d[k] = s[m + k - 1]
  OBVIOUS

\* A sequence with one element taken out.
LEMMA RemoveFacts ==
  ASSUME NEW S, NEW s \in Seq(S), NEW m \in 1 .. Len(s)
  PROVE  LET d == RemoveAt(s, m)
         IN  /\ d \in Seq(S) /\ Len(d) = Len(s) - 1
             /\ \A k \in 1 .. Len(d) : d[k] = IF k < m THEN s[k] ELSE s[k + 1]
<1> DEFINE a == SubSeq(s, 1, m - 1)
           b == SubSeq(s, m + 1, Len(s))
           d == RemoveAt(s, m)
<1>0. Len(s) \in Nat /\ m \in Nat /\ m >= 1 /\ m <= Len(s)
  OBVIOUS
<1>1. /\ a \in Seq(S) /\ Len(a) = m - 1
      /\ \A k \in 1 .. Len(a) : a[k] = s[k]
  <2>1. 1 \in 1 .. (Len(s) + 1) /\ m - 1 \in (1 - 1) .. Len(s)
    BY <1>0
  <2>2. a \in Seq(S) /\ Len(a) = (m - 1) - 1 + 1 /\ \A k \in 1 .. Len(a) : a[k] = s[1 + k - 1]
    BY <2>1, PartFacts
  <2> QED  BY <2>2, <1>0
<1>2. /\ b \in Seq(S) /\ Len(b) = Len(s) - m
      /\ \A k \in 1 .. Len(b) : b[k] = s[m + k]
  <2>1. m + 1 \in 1 .. (Len(s) + 1) /\ Len(s) \in ((m + 1) - 1) .. Len(s)
    BY <1>0
  <2>2. b \in Seq(S) /\ Len(b) = Len(s) - (m + 1) + 1 /\ \A k \in 1 .. Len(b) : b[k] = s[(m + 1) + k - 1]
    BY <2>1, PartFacts
  <2>3. \A k \in 1 .. Len(b) : (m + 1) + k - 1 = m + k
    BY <1>0
  <2> QED  BY <2>2, <2>3, <1>0
<1> HIDE DEF a, b
<1>3. d = a \o b
  BY DEF RemoveAt, a, b
<1> HIDE DEF d
<1>4. /\ d \in Seq(S) /\ Len(d) = Len(a) + Len(b)
      /\ \A k \in 1 .. Len(d) : d[k] = IF k <= Len(a) THEN a[k] ELSE b[k - Len(a)]
  BY <1>1, <1>2, <1>3, ConcatFacts
<1>5. Len(d) = Len(s) - 1
  BY <1>0, <1>1, <1>2, <1>4
<1>6. ASSUME NEW k \in 1 .. Len(d) PROVE d[k] = IF k < m THEN s[k] ELSE s[k + 1]
  <2>1. CASE k < m
    <3>1. k \in 1 .. Len(a) /\ k <= Len(a)
      BY <2>1, <1>0, <1>1, <1>5
    <3> QED  BY <3>1, <2>1, <1>1, <1>4
  <2>2. CASE ~(k < m)
    <3>1. k - Len(a) \in 1 .. Len(b) /\ m + (k - Len(a)) = k + 1 /\ ~(k <= Len(a))
      BY <2>2, <1>0, <1>1, <1>2, <1>5
    <3>2. b[k - Len(a)] = s[k + 1]
      BY <3>1, <1>2
    <3> QED  BY <3>1, <3>2, <2>2, <1>4
  <2> QED  BY <2>1, <2>2
<1> QED  BY <1>4, <1>5, <1>6 DEF d

\* A non-empty set of naturals has a least element, and Min is one of the set.
LEMMA MinFacts ==
  ASSUME NEW S, S \subseteq Nat, S # {}
  PROVE  Min(S) \in S /\ \A y \in S : Min(S) <= y
<1>1. PICK m \in S : \A y \in S : ~(<<y, m>> \in OpToRel(<, Nat))
  BY NatLessThanWellFounded, WFMin
<1>2. \A y \in S : ~(y < m)
  BY <1>1 DEF OpToRel
<1>3. \A y \in S : m =< y
  BY <1>2
<1> QED  BY <1>3, Zenon DEF Min

-----------------------------------------------------------------------------
(* The list of completions. *)

\* The elements of the list are completions.
LEMMA ListType ==
  ASSUME TypeOK
  PROVE  /\ Len(stash) \in Nat /\ Len(cq) \in Nat /\ Found \in Nat
         /\ \A k \in 1 .. Found :
              /\ At(k) \in Completions /\ At(k).of \in Requests
              /\ At(k).op \in Ops /\ At(k).ok \in BOOLEAN /\ At(k).of.id \in Nat
<1>1. stash \in Seq(Completions) /\ cq \in Seq(Completions) /\ Len(stash) \in Nat /\ Len(cq) \in Nat
  BY DEF TypeOK
<1>2. ASSUME NEW k \in 1 .. Found PROVE At(k) \in Completions
  <2>1. CASE k <= Len(stash)
    <3>1. k \in 1 .. Len(stash)
      BY <2>1, <1>1 DEF Found
    <3> QED  BY <3>1, <2>1, <1>1 DEF At
  <2>2. CASE ~(k <= Len(stash))
    <3>1. k - Len(stash) \in 1 .. Len(cq)
      BY <2>2, <1>1 DEF Found
    <3> QED  BY <3>1, <2>2, <1>1 DEF At
  <2> QED  BY <2>1, <2>2
<1>3. FirstSend \in Nat /\ MaxReceives \in Nat /\ MaxSends \in Nat
  BY QueuePairAssumption
<1>4. Ids \subseteq Nat
  BY <1>3 DEF Ids, FirstReceive
<1>5. ASSUME NEW c \in Completions
      PROVE  c.of \in Requests /\ c.op \in Ops /\ c.ok \in BOOLEAN /\ c.of.id \in Nat
  BY <1>4 DEF Completions, Requests
<1> QED  BY <1>1, <1>2, <1>5 DEF Found

\* The adapter appends a completion.
LEMMA ListAppend ==
  ASSUME TypeOK, NEW c \in Completions, cq' = Append(cq, c), stash' = stash
  PROVE  /\ Found' = Found + 1 /\ cq' \in Seq(Completions)
         /\ \A k \in 1 .. Found : At(k)' = At(k)
         /\ \A k \in Nat : k = Found + 1 => At(k)' = c
<1>1. /\ cq \in Seq(Completions) /\ Len(stash) \in Nat /\ Len(cq) \in Nat
      /\ cq' \in Seq(Completions) /\ Len(cq') = Len(cq) + 1
      /\ \A k \in 1 .. Len(cq) : cq'[k] = cq[k]
      /\ cq'[Len(cq) + 1] = c
  BY DEF TypeOK
<1>2. Found' = Found + 1 /\ Found \in Nat
  BY <1>1 DEF Found
<1>3. ASSUME NEW k \in 1 .. Found PROVE At(k)' = At(k)
  <2>1. CASE k <= Len(stash)
    BY <2>1 DEF At
  <2>2. CASE ~(k <= Len(stash))
    <3>1. k - Len(stash) \in 1 .. Len(cq)
      BY <2>2, <1>1 DEF Found
    <3> QED  BY <3>1, <2>2, <1>1 DEF At
  <2> QED  BY <2>1, <2>2
<1>4. ASSUME NEW k \in Nat, k = Found + 1 PROVE At(k)' = c
  <2>1. ~(k <= Len(stash)) /\ k - Len(stash) = Len(cq) + 1
    BY <1>1, <1>4 DEF Found
  <2> QED  BY <2>1, <1>1 DEF At
<1> QED  BY <1>1, <1>2, <1>3, <1>4

\* A poll that puts the completion aside leaves the list as it is.
LEMMA ListMove ==
  ASSUME TypeOK, cq # <<>>, cq' = Tail(cq), stash' = Append(stash, Head(cq))
  PROVE  /\ Found' = Found /\ cq' \in Seq(Completions) /\ stash' \in Seq(Completions)
         /\ Len(stash') = Len(stash) + 1
         /\ \A k \in 1 .. Found : At(k)' = At(k)
<1>1. /\ cq \in Seq(Completions) /\ stash \in Seq(Completions)
      /\ Len(stash) \in Nat /\ Len(cq) \in Nat /\ Len(cq) >= 1
      /\ cq' \in Seq(Completions) /\ Len(cq') = Len(cq) - 1
      /\ \A k \in 1 .. Len(cq') : cq'[k] = cq[k + 1]
      /\ Head(cq) = cq[1] /\ cq[1] \in Completions
  BY DEF TypeOK
<1>2. /\ stash' \in Seq(Completions) /\ Len(stash') = Len(stash) + 1
      /\ \A k \in 1 .. Len(stash) : stash'[k] = stash[k]
      /\ stash'[Len(stash) + 1] = cq[1]
  BY <1>1
<1>3. Found' = Found
  BY <1>1, <1>2 DEF Found
<1>4. ASSUME NEW k \in 1 .. Found PROVE At(k)' = At(k)
  <2>1. CASE k <= Len(stash)
    <3>1. k \in 1 .. Len(stash) /\ k <= Len(stash')
      BY <2>1, <1>1, <1>2 DEF Found
    <3> QED  BY <3>1, <2>1, <1>2 DEF At
  <2>2. CASE k = Len(stash) + 1
    <3>1. ~(k <= Len(stash)) /\ k <= Len(stash') /\ k - Len(stash) = 1
      BY <2>2, <1>1, <1>2
    <3>2. At(k) = cq[k - Len(stash)] /\ At(k)' = stash'[k]
      BY <3>1 DEF At
    <3> QED  BY <3>1, <3>2, <2>2, <1>2
  <2>3. CASE k > Len(stash) + 1
    <3>1. /\ ~(k <= Len(stash)) /\ ~(k <= Len(stash'))
          /\ k - Len(stash') \in 1 .. Len(cq') /\ (k - Len(stash')) + 1 = k - Len(stash)
      BY <2>3, <1>1, <1>2 DEF Found
    <3>2. At(k) = cq[k - Len(stash)] /\ At(k)' = cq'[k - Len(stash')]
      BY <3>1 DEF At
    <3> QED  BY <3>1, <3>2, <1>1
  <2>4. k <= Len(stash) \/ k = Len(stash) + 1 \/ k > Len(stash) + 1
    BY <1>1 DEF Found
  <2> QED  BY <2>1, <2>2, <2>3, <2>4
<1> QED  BY <1>1, <1>2, <1>3, <1>4

\* Element m is taken out of the list; the ones behind it move up.
Removed(m) ==
  /\ m \in 1 .. Found /\ Found' = Found - 1
  /\ \A k \in 1 .. (Found - 1) :
       /\ k < m => At(k)' = At(k)
       /\ m <= k => At(k)' = At(k + 1)

\* A poll that hands its completion out takes the one behind those put aside.
LEMMA ListPoll ==
  ASSUME TypeOK, cq # <<>>, cq' = Tail(cq), stash' = stash
  PROVE  /\ Removed(Len(stash) + 1) /\ cq' \in Seq(Completions)
         /\ At(Len(stash) + 1) = Head(cq)
<1>1. /\ cq \in Seq(Completions) /\ stash \in Seq(Completions)
      /\ Len(stash) \in Nat /\ Len(cq) \in Nat /\ Len(cq) >= 1
      /\ cq' \in Seq(Completions) /\ Len(cq') = Len(cq) - 1
      /\ \A k \in 1 .. Len(cq') : cq'[k] = cq[k + 1]
      /\ Head(cq) = cq[1]
  BY DEF TypeOK
<1>2. Len(stash) + 1 \in 1 .. Found /\ Found' = Found - 1 /\ Found \in Nat
  BY <1>1 DEF Found
<1>3. At(Len(stash) + 1) = Head(cq)
  BY <1>1 DEF At
<1>4. ASSUME NEW k \in 1 .. (Found - 1), k < Len(stash) + 1 PROVE At(k)' = At(k)
  <2>1. k <= Len(stash)
    BY <1>1, <1>2, <1>4
  <2> QED  BY <2>1 DEF At
<1>5. ASSUME NEW k \in 1 .. (Found - 1), Len(stash) + 1 <= k PROVE At(k)' = At(k + 1)
  <2>1. /\ ~(k <= Len(stash)) /\ ~(k + 1 <= Len(stash))
        /\ k - Len(stash) \in 1 .. Len(cq') /\ (k - Len(stash)) + 1 = (k + 1) - Len(stash)
    BY <1>1, <1>2, <1>5 DEF Found
  <2>2. At(k)' = cq'[k - Len(stash)] /\ At(k + 1) = cq[(k + 1) - Len(stash)]
    BY <2>1 DEF At
  <2> QED  BY <2>1, <2>2, <1>1
<1> QED  BY <1>1, <1>2, <1>3, <1>4, <1>5 DEF Removed

\* A wait that finds its completion put aside takes it out.
LEMMA ListErase ==
  ASSUME TypeOK, NEW m \in 1 .. Len(stash), stash' = RemoveAt(stash, m), cq' = cq
  PROVE  /\ Removed(m) /\ stash' \in Seq(Completions) /\ Len(stash') = Len(stash) - 1
         /\ At(m) = stash[m]
<1>1. /\ stash \in Seq(Completions) /\ Len(stash) \in Nat /\ Len(cq) \in Nat
      /\ m \in Nat /\ m >= 1 /\ m <= Len(stash)
  BY DEF TypeOK
<1>2. /\ stash' \in Seq(Completions) /\ Len(stash') = Len(stash) - 1
      /\ \A k \in 1 .. Len(stash') : stash'[k] = IF k < m THEN stash[k] ELSE stash[k + 1]
  BY <1>1, RemoveFacts
<1>3. m \in 1 .. Found /\ Found' = Found - 1 /\ Found \in Nat /\ At(m) = stash[m]
  BY <1>1, <1>2 DEF Found, At
<1>4. ASSUME NEW k \in 1 .. (Found - 1), k < m PROVE At(k)' = At(k)
  <2>1. k <= Len(stash) /\ k <= Len(stash') /\ k \in 1 .. Len(stash')
    BY <1>1, <1>2, <1>3, <1>4
  <2> QED  BY <2>1, <1>2, <1>4 DEF At
<1>5. ASSUME NEW k \in 1 .. (Found - 1), m <= k PROVE At(k)' = At(k + 1)
  <2>1. CASE k <= Len(stash')
    <3>1. k \in 1 .. Len(stash') /\ ~(k < m) /\ k + 1 <= Len(stash)
      BY <2>1, <1>1, <1>2, <1>3, <1>5
    <3>2. At(k)' = stash'[k] /\ At(k + 1) = stash[k + 1]
      BY <3>1, <2>1 DEF At
    <3> QED  BY <3>1, <3>2, <1>2
  <2>2. CASE ~(k <= Len(stash'))
    <3>1. ~(k + 1 <= Len(stash)) /\ k - Len(stash') = (k + 1) - Len(stash)
      BY <2>2, <1>1, <1>2, <1>3
    <3>2. At(k)' = cq[k - Len(stash')] /\ At(k + 1) = cq[(k + 1) - Len(stash)]
      BY <3>1, <2>2 DEF At
    <3> QED  BY <3>1, <3>2
  <2> QED  BY <2>1, <2>2
<1> QED  BY <1>2, <1>3, <1>4, <1>5 DEF Removed

-----------------------------------------------------------------------------
(* The invariant, action by action. *)

\* Ids are positive naturals.
LEMMA IdFacts ==
  /\ QpDepth \in Nat /\ QpDepth > 0 /\ FirstSend \in Nat /\ FirstSend > 0
  /\ MaxReceives \in Nat /\ MaxSends \in Nat /\ MaxBatch \in Nat /\ MaxBatch > 0
  /\ \A i : i \in Ids <=> i \in Nat /\ 1 <= i /\ i <= FirstSend + MaxReceives + MaxSends
  BY QueuePairAssumption DEF Ids, FirstReceive

\* The types of the numbers and sequences the steps below work with.
LEMMA StateFacts ==
  ASSUME IInv
  PROVE  /\ nextReceive \in Nat /\ nextSend \in Nat
         /\ pending \in Seq(Ids) /\ recvQueue \in Seq(Ids)
         /\ sendQueue \in Seq([op : Ops, id : Ids, signaled : BOOLEAN])
         /\ Len(pending) \in Nat /\ Len(recvQueue) \in Nat /\ Len(sendQueue) \in Nat
         /\ Len(pending) <= QpDepth
         /\ \A k \in 1 .. Len(sendQueue) :
              /\ sendQueue[k].id \in Nat /\ sendQueue[k].op \in Ops /\ sendQueue[k].id \in Ids
              /\ sendQueue[k].signaled \in BOOLEAN
         /\ \A i \in sendRing : i \in Nat
         /\ \A r \in Requests : r.op \in Ops /\ r.id \in Ids /\ r.id \in Nat
         /\ \A r \in due : r \in Requests
         /\ \A r \in executed : r \in Requests
<1>1. TypeOK
  BY DEF IInv
<1>2. nextReceive \in Ids /\ nextSend \in Ids /\ sendRing \subseteq Ids
  BY <1>1 DEF TypeOK
<1>3. \A k \in 1 .. Len(sendQueue) : sendQueue[k] \in [op : Ops, id : Ids, signaled : BOOLEAN]
  <2>1. sendQueue \in Seq([op : Ops, id : Ids, signaled : BOOLEAN])
    BY <1>1 DEF TypeOK
  <2> DEFINE S == [op : Ops, id : Ids, signaled : BOOLEAN]
  <2> HIDE DEF S
  <2>2. sendQueue \in Seq(S)
    BY <2>1 DEF S
  <2>3. \A k \in 1 .. Len(sendQueue) : sendQueue[k] \in S
    BY <2>2
  <2> QED  BY <2>3 DEF S
<1>4. \A k \in 1 .. Len(sendQueue) :
        sendQueue[k].op \in Ops /\ sendQueue[k].id \in Ids /\ sendQueue[k].signaled \in BOOLEAN
  BY <1>3
<1>5. \A i \in Ids : i \in Nat
  BY IdFacts
<1>6. \A r \in Requests : r.op \in Ops /\ r.id \in Ids
  BY DEF Requests
<1> QED  BY <1>1, <1>2, <1>4, <1>5, <1>6, SMTT(30) DEF TypeOK

\* A request is made up of its opcode and its id.
LEMMA RequestFacts ==
  /\ \A o, i : Request(o, i).op = o /\ Request(o, i).id = i
  /\ \A o \in Ops, i \in Ids : Request(o, i) \in Requests
  /\ \A r, s \in Requests : r.op = s.op /\ r.id = s.id => r = s
  /\ NoWait.op = "none" /\ NoWait \notin Requests
  /\ "RECV" \in Ops /\ "SEND" \in Ops /\ "none" \notin Ops
<1>1. \A o, i : Request(o, i).op = o /\ Request(o, i).id = i
  BY DEF Request
<1>2. \A o \in Ops, i \in Ids : Request(o, i) \in Requests
  BY DEF Request, Requests
<1>3. \A r, s \in Requests : r.op = s.op /\ r.id = s.id => r = s
  BY DEF Requests
<1>4. "RECV" \in Ops /\ "SEND" \in Ops /\ "none" \notin Ops
  BY DEF Ops, Transfers
<1>5. NoWait.op = "none"
  BY <1>1 DEF NoWait
<1>6. NoWait \notin Requests
  BY <1>4, <1>5 DEF Requests
<1> QED  BY <1>1, <1>2, <1>3, <1>4, <1>5, <1>6

\* The receives held, by their number.
LEMMA HeldFacts ==
  \A r : r \in Held <=> r \in due \/ \E k \in 1 .. Len(pending) : r = Request("RECV", pending[k])
  BY DEF Held

\* post_receive adds a receive nobody has heard of.
LEMMA PostReceiveIInv ==
  ASSUME IInv, PostReceive PROVE IInv'
<1>0. /\ nextReceive \in Nat /\ pending \in Seq(Ids) /\ recvQueue \in Seq(Ids)
      /\ Len(pending) \in Nat /\ Len(recvQueue) \in Nat /\ TypeOK
      /\ RecvInv /\ SendInv /\ DueInv /\ CompletionInv /\ OrderInv /\ DoneInv /\ FoundInv
  BY StateFacts DEF IInv
<1>1. /\ awaited = NoWait /\ nextReceive <= MaxReceives /\ Len(pending) < QpDepth
      /\ pending' = Append(pending, nextReceive) /\ recvQueue' = Append(recvQueue, nextReceive)
      /\ nextReceive' = nextReceive + 1 /\ result' = "none"
      /\ nextSend' = nextSend /\ stash' = stash /\ awaited' = awaited /\ due' = due
      /\ sendQueue' = sendQueue /\ sendRing' = sendRing /\ cq' = cq
      /\ executed' = executed /\ broken' = broken
  BY DEF PostReceive, ReceiveCredit
<1>2. nextReceive \in Ids /\ nextReceive' \in Ids
  <2>1. nextReceive \in Ids
    BY <1>0 DEF TypeOK
  <2>2. /\ 1 <= nextReceive + 1 /\ nextReceive + 1 \in Nat
        /\ nextReceive + 1 <= FirstSend + MaxReceives + MaxSends
    BY <1>0, <1>1, IdFacts
  <2> QED  BY <2>1, <2>2, <1>1, IdFacts
<1>3. /\ pending' \in Seq(Ids) /\ Len(pending') = Len(pending) + 1
      /\ \A k \in 1 .. Len(pending) : pending'[k] = pending[k]
      /\ pending'[Len(pending) + 1] = nextReceive
      /\ recvQueue' \in Seq(Ids) /\ Len(recvQueue') = Len(recvQueue) + 1
      /\ \A k \in 1 .. Len(recvQueue) : recvQueue'[k] = recvQueue[k]
      /\ recvQueue'[Len(recvQueue) + 1] = nextReceive
  BY <1>0, <1>1, <1>2
<1>4. TypeOK'
  <2>1. Len(pending') <= QpDepth
    BY <1>0, <1>1, <1>3, IdFacts
  <2> QED  BY <2>1, <1>0, <1>1, <1>2, <1>3 DEF TypeOK
<1>5. RecvInv'
  <2>1. \A k \in 1 .. Len(pending') : pending'[k] = nextReceive' - Len(pending') + k - 1
    <3> TAKE k \in 1 .. Len(pending')
    <3>1. k \in 1 .. Len(pending) \/ k = Len(pending) + 1
      BY <1>0, <1>3
    <3>2. k \in 1 .. Len(pending) => pending[k] = nextReceive - Len(pending) + k - 1
      BY <1>0 DEF RecvInv
    <3>3. nextReceive' - Len(pending') = nextReceive - Len(pending)
      BY <1>0, <1>1, <1>3
    <3> QED  BY <3>1, <3>2, <3>3, <1>0, <1>3
  <2>2. \A k \in 1 .. Len(recvQueue') : recvQueue'[k] = nextReceive' - Len(recvQueue') + k - 1
    <3> TAKE k \in 1 .. Len(recvQueue')
    <3>1. k \in 1 .. Len(recvQueue) \/ k = Len(recvQueue) + 1
      BY <1>0, <1>3
    <3>2. k \in 1 .. Len(recvQueue) => recvQueue[k] = nextReceive - Len(recvQueue) + k - 1
      BY <1>0 DEF RecvInv
    <3>3. nextReceive' - Len(recvQueue') = nextReceive - Len(recvQueue)
      BY <1>0, <1>1, <1>3
    <3> QED  BY <3>1, <3>2, <3>3, <1>0, <1>3
  <2>3. /\ nextReceive' <= MaxReceives + 1
        /\ Len(recvQueue') <= Len(pending') /\ Len(pending') < nextReceive'
    BY <1>0, <1>1, <1>3, IdFacts DEF RecvInv
  <2> QED  BY <2>1, <2>2, <2>3 DEF RecvInv
<1>6. SendInv' /\ DueInv'
  BY <1>0, <1>1 DEF SendInv, DueInv
<1>7. \A r : Passed(r)' <=> Passed(r)
  <2>1. nextReceive' - Len(recvQueue') = nextReceive - Len(recvQueue)
    BY <1>0, <1>1, <1>3
  <2> QED  BY <2>1, <1>1 DEF Passed
<1>8. Found' = Found /\ \A k : At(k)' = At(k)
  BY <1>1 DEF Found, At
<1>9. CompletionInv' /\ OrderInv' /\ DoneInv'
  <2>1. nextReceive' - Len(pending') = nextReceive - Len(pending)
    BY <1>0, <1>1, <1>3
  <2>2. CompletionInv'
    BY <2>1, <1>0, <1>1, <1>7, <1>8 DEF CompletionInv
  <2>3. OrderInv' /\ DoneInv'
    BY <1>0, <1>1, <1>7, <1>8 DEF OrderInv, SameDirection, DoneInv
  <2> QED  BY <2>2, <2>3
<1>10. FoundInv'
  <2> SUFFICES ASSUME ~broken, NEW r \in Held', r \in executed
               PROVE  \E k \in 1 .. Found : At(k).of = r
    BY <1>1, <1>8 DEF FoundInv
  <2>1. r # Request("RECV", nextReceive)
    <3> SUFFICES ASSUME r = Request("RECV", nextReceive) PROVE FALSE
      OBVIOUS
    <3>1. r.op = "RECV" /\ r.id = nextReceive /\ Passed(r)
      BY <1>0, RequestFacts DEF DoneInv
    <3>2. nextReceive < nextReceive - Len(recvQueue)
      BY <3>1 DEF Passed
    <3> QED  BY <3>2, <1>0
  <2>2. r \in due \/ \E k \in 1 .. Len(pending') : r = Request("RECV", pending'[k])
    BY <1>1 DEF Held
  <2>3. ASSUME NEW k \in 1 .. Len(pending'), r = Request("RECV", pending'[k])
        PROVE  k \in 1 .. Len(pending) /\ pending'[k] = pending[k]
    <3>1. k \in 1 .. Len(pending) \/ k = Len(pending) + 1
      BY <1>0, <1>3
    <3>2. k # Len(pending) + 1
      BY <2>1, <2>3, <1>3
    <3> QED  BY <3>1, <3>2, <1>3
  <2>4. r \in Held
    BY <2>2, <2>3 DEF Held
  <2> QED  BY <2>4, <1>0 DEF FoundInv
<1>11. WaitInv'
  BY <1>1, RequestFacts DEF WaitInv
<1> QED  BY <1>4, <1>5, <1>6, <1>9, <1>10, <1>11 DEF IInv

\* A step that may forget a send and changes which wait is under way, no more.
LEMMA WaitChange ==
  ASSUME IInv, due' \subseteq due, awaited' \in Requests \cup {NoWait},
         result' \in {"none", "ok", "failed", "timeout"}, WaitInv',
         UNCHANGED <<nextReceive, nextSend, pending, stash, adapterVars>>
  PROVE  IInv'
<1> USE DEF adapterVars
<1>0. TypeOK /\ RecvInv /\ SendInv /\ DueInv /\ CompletionInv /\ OrderInv /\ DoneInv /\ FoundInv
  BY DEF IInv
<1>1. TypeOK' /\ RecvInv' /\ SendInv' /\ DueInv'
  BY <1>0 DEF TypeOK, RecvInv, SendInv, DueInv
<1>2. Found' = Found /\ (\A k : At(k)' = At(k)) /\ \A r : Passed(r)' <=> Passed(r)
  BY DEF Found, At, Passed
<1>3. CompletionInv' /\ OrderInv' /\ DoneInv'
  BY <1>0, <1>2 DEF CompletionInv, OrderInv, SameDirection, DoneInv
<1>4. Held' \subseteq Held
  BY DEF Held
<1>5. FoundInv'
  BY <1>0, <1>2, <1>4 DEF FoundInv
<1> QED  BY <1>1, <1>3, <1>5 DEF IInv

\* The deadline of a wait passes.
LEMMA WaitExpiresIInv ==
  ASSUME IInv, WaitExpires PROVE IInv'
<1>1. /\ due' \subseteq due /\ awaited' = NoWait /\ result' = "timeout"
      /\ UNCHANGED <<nextReceive, nextSend, pending, stash, adapterVars>>
  BY DEF WaitExpires
<1>2. WaitInv'
  BY <1>1, RequestFacts DEF WaitInv
<1> QED  BY <1>1, <1>2, WaitChange

\* A polled completion frees ring entries of executed sends only: those of the
\* completions behind it and of the requests the adapter still has stay.
LEMMA FreeRingKeeps ==
  ASSUME IInv, cq # <<>>, FreeRing(Head(cq))
  PROVE  /\ sendRing' \subseteq sendRing /\ IsFiniteSet(sendRing')
         /\ Cardinality(sendRing') <= QpDepth
         /\ \A k \in 1 .. Len(sendQueue) : sendQueue[k].id \in sendRing'
         /\ \A k \in 1 .. Found :
              k > Len(stash) + 1 /\ At(k).of.op # "RECV" => At(k).of.id \in sendRing'
<1>0. /\ TypeOK /\ SendInv /\ CompletionInv /\ OrderInv /\ Len(stash) \in Nat /\ Len(cq) \in Nat
      /\ Found \in Nat /\ QpDepth \in Nat
      /\ \A k \in 1 .. Found : At(k).of \in Requests /\ At(k).of.id \in Nat
  BY ListType, IdFacts DEF IInv
<1>1. Len(stash) + 1 \in 1 .. Found /\ At(Len(stash) + 1) = Head(cq)
  <2>1. Len(cq) >= 1
    BY <1>0 DEF TypeOK
  <2> QED  BY <2>1, <1>0 DEF Found, At
<1>2. PICK m \in 1 .. Found : m = Len(stash) + 1 /\ At(m) = Head(cq)
  BY <1>1
<1>3. sendRing' \subseteq sendRing
  BY DEF FreeRing
<1>4. IsFiniteSet(sendRing') /\ Cardinality(sendRing') <= QpDepth
  <2>1. IsFiniteSet(sendRing) /\ Cardinality(sendRing) <= QpDepth
    BY <1>0 DEF SendInv
  <2>2. IsFiniteSet(sendRing') /\ Cardinality(sendRing') <= Cardinality(sendRing)
    BY <2>1, <1>3, FS_Subset
  <2>3. Cardinality(sendRing) \in Nat /\ Cardinality(sendRing') \in Nat
    BY <2>1, <2>2, FS_CardinalityType
  <2> QED  BY <2>1, <2>2, <2>3, <1>0
<1>5. CASE At(m).op # "RECV" /\ At(m).ok
  <2>1. sendRing' = {id \in sendRing : id > At(m).of.id}
    BY <1>2, <1>5 DEF FreeRing
  <2>2. At(m).of.op # "RECV" /\ Passed(At(m).of) /\ At(m).of.id \in Nat
    BY <1>0, <1>5 DEF CompletionInv
  <2>3. ASSUME NEW k \in 1 .. Len(sendQueue) PROVE sendQueue[k].id \in sendRing'
    <3>1. At(m).of.id < sendQueue[k].id /\ sendQueue[k].id \in sendRing /\ sendQueue[k].id \in Nat
      BY <2>2, <1>0, StateFacts DEF Passed, SendInv
    <3> QED  BY <3>1, <2>1, <2>2
  <2>4. ASSUME NEW k \in 1 .. Found, k > m, At(k).of.op # "RECV" PROVE At(k).of.id \in sendRing'
    <3>1. k > Len(stash)
      BY <2>4, <1>0, <1>2
    <3>2. At(k).of.id \in sendRing /\ At(k).of.id \in Nat
      BY <3>1, <2>4, <1>0 DEF CompletionInv
    <3>3. SameDirection(At(m).of, At(k).of) /\ m < k
      BY <2>2, <2>4, <1>2 DEF SameDirection
    <3>4. At(m).of.id < At(k).of.id
      BY <3>3, <1>0 DEF OrderInv
    <3> QED  BY <3>2, <3>4, <2>1, <2>2
  <2> QED  BY <2>3, <2>4, <1>2, <1>3, <1>4
<1>6. CASE ~(At(m).op # "RECV" /\ At(m).ok)
  <2>1. sendRing' = sendRing
    BY <1>2, <1>6 DEF FreeRing
  <2>2. \A k \in 1 .. Found : k > Len(stash) + 1 => k > Len(stash)
    BY <1>0
  <2> QED  BY <2>1, <2>2, <1>0, <1>3, <1>4 DEF SendInv, CompletionInv
<1> QED  BY <1>5, <1>6

\* A wait that ends with its completion: element m leaves the list, the request
\* is no longer held, and what remains is as it was.
LEMMA FinishIInv ==
  ASSUME IInv, NEW r \in Requests, NEW m, Removed(m), Matches(At(m), r), Finish(r, At(m)),
         r.op = "RECV" => pending # <<>> /\ r.id = pending[1],
         stash' \in Seq(Completions), cq' \in Seq(Completions),
         sendRing' \subseteq sendRing, IsFiniteSet(sendRing'), Cardinality(sendRing') <= QpDepth,
         \A k \in 1 .. Len(sendQueue) : sendQueue[k].id \in sendRing',
         \A k \in 1 .. (Found - 1) :
           k > Len(stash') /\ At(k)'.of.op # "RECV" => At(k)'.of.id \in sendRing',
         UNCHANGED <<nextReceive, nextSend, recvQueue, sendQueue, executed, broken>>
  PROVE  /\ IInv'
         /\ \A s \in Held \ Held' : result' = "ok" => s \in executed
<1> DEFINE c == At(m)
<1>0. /\ TypeOK /\ RecvInv /\ SendInv /\ DueInv /\ CompletionInv /\ OrderInv /\ DoneInv /\ FoundInv
      /\ Found \in Nat /\ nextReceive \in Nat
      /\ pending \in Seq(Ids) /\ Len(pending) \in Nat /\ Len(recvQueue) \in Nat
      /\ Len(pending) <= QpDepth /\ QpDepth \in Nat
      /\ \A k \in 1 .. Found : At(k).of \in Requests /\ At(k).of.id \in Nat /\ At(k).ok \in BOOLEAN
  BY ListType, StateFacts, IdFacts DEF IInv
<1>1. /\ m \in 1 .. Found /\ Found' = Found - 1
      /\ \A k \in 1 .. (Found - 1) :
           (k < m => At(k)' = At(k)) /\ (m <= k => At(k)' = At(k + 1))
  BY DEF Removed
<1>2. /\ c.op = r.op /\ c.of.id = r.id
      /\ result' = (IF c.ok THEN "ok" ELSE "failed")
      /\ pending' = (IF r.op = "RECV" THEN Tail(pending) ELSE pending)
      /\ due' = due \ {r} /\ awaited' = NoWait
      /\ nextReceive' = nextReceive /\ nextSend' = nextSend /\ recvQueue' = recvQueue
      /\ sendQueue' = sendQueue /\ executed' = executed /\ broken' = broken
  BY DEF Matches, Finish
<1>3. /\ Passed(c.of) /\ (c.op = "RECV" => c.of.op = "RECV")
      /\ (c.ok => c.op = c.of.op /\ c.of \in executed)
      /\ (~broken => c.ok)
      /\ c.of \in Requests
  BY <1>0, <1>1 DEF CompletionInv
<1>4. c.ok => c.of = r /\ r \in executed
  BY <1>2, <1>3, RequestFacts
<1> HIDE DEF c
\* every element of the new list is an element of the old one other than m
<1>5. ASSUME NEW k \in 1 .. (Found - 1)
      PROVE  \E i \in 1 .. Found : /\ i # m /\ At(k)' = At(i)
                                   /\ (k < m /\ i = k) \/ (m <= k /\ i = k + 1)
  <2>1. m \in Nat /\ Found \in Nat
    BY <1>0, <1>1
  <2>2. CASE k < m
    <3>1. k \in 1 .. Found /\ k # m
      BY <2>1, <2>2
    <3> QED  BY <3>1, <2>2, <1>1
  <2>3. CASE m <= k
    <3>1. k + 1 \in 1 .. Found /\ k + 1 # m
      BY <2>1, <2>3
    <3> QED  BY <3>1, <2>3, <1>1
  <2> QED  BY <2>1, <2>2, <2>3
<1>6. /\ pending' \in Seq(Ids) /\ Len(pending') \in Nat /\ Len(pending') <= QpDepth
      /\ Len(recvQueue) <= Len(pending') /\ Len(pending') < nextReceive
      /\ \A k \in 1 .. Len(pending') :
           /\ pending'[k] = nextReceive - Len(pending') + k - 1
           /\ \E j \in 1 .. Len(pending) : pending'[k] = pending[j]
           /\ r.op = "RECV" => pending'[k] # r.id
      /\ r.op = "RECV" =>
           /\ Len(pending') = Len(pending) - 1 /\ r.id = nextReceive - Len(pending)
           /\ \A j \in 1 .. Len(pending) :
                pending[j] = r.id \/ \E k \in 1 .. Len(pending') : pending'[k] = pending[j]
      /\ r.op # "RECV" => pending' = pending
  <2>1. /\ Len(recvQueue) <= Len(pending) /\ Len(pending) < nextReceive
        /\ \A k \in 1 .. Len(pending) : pending[k] = nextReceive - Len(pending) + k - 1
    BY <1>0 DEF RecvInv
  <2>2. CASE r.op = "RECV"
    <3>1. /\ pending' = Tail(pending) /\ pending # <<>> /\ r.id = pending[1]
          /\ Len(pending) >= 1
      BY <2>2, <1>0, <1>2
    <3>2. /\ pending' \in Seq(Ids) /\ Len(pending') = Len(pending) - 1
          /\ \A k \in 1 .. Len(pending') : pending'[k] = pending[k + 1]
      BY <3>1, <1>0
    <3>3. 1 \in 1 .. Len(pending)
      BY <3>1, <1>0
    <3>4. r.id = nextReceive - Len(pending)
      BY <3>1, <3>3, <2>1, <1>0
    <3>5. c.of.op = "RECV" /\ c.of.id = r.id /\ c.of.id < nextReceive - Len(recvQueue)
      BY <2>2, <1>2, <1>3 DEF Passed
    <3>6. Len(recvQueue) <= Len(pending')
      BY <3>2, <3>4, <3>5, <1>0
    <3>7. ASSUME NEW k \in 1 .. Len(pending')
          PROVE  /\ pending'[k] = nextReceive - Len(pending') + k - 1
                 /\ \E j \in 1 .. Len(pending) : pending'[k] = pending[j]
                 /\ pending'[k] # r.id
      <4>1. k + 1 \in 1 .. Len(pending) /\ pending'[k] = pending[k + 1]
        BY <3>2, <1>0
      <4>2. pending[k + 1] = nextReceive - Len(pending) + (k + 1) - 1
        BY <4>1, <2>1
      <4>3. pending'[k] = nextReceive - Len(pending') + k - 1 /\ pending'[k] # r.id
        BY <4>1, <4>2, <3>2, <3>4, <1>0
      <4> QED  BY <4>1, <4>3
    <3>8. ASSUME NEW j \in 1 .. Len(pending)
          PROVE  pending[j] = r.id \/ \E k \in 1 .. Len(pending') : pending'[k] = pending[j]
      <4>1. CASE j = 1
        BY <4>1, <3>1
      <4>2. CASE j # 1
        <5>1. j - 1 \in 1 .. Len(pending') /\ (j - 1) + 1 = j
          BY <4>2, <3>2, <1>0
        <5> QED  BY <5>1, <3>2
      <4> QED  BY <4>1, <4>2
    <3>9. Len(pending') \in Nat /\ Len(pending') <= QpDepth /\ Len(pending') < nextReceive
      BY <3>1, <3>2, <2>1, <1>0
    <3> QED  BY <3>2, <3>4, <3>6, <3>7, <3>8, <3>9, <2>2
  <2>3. CASE r.op # "RECV"
    BY <2>1, <2>3, <1>0, <1>2
  <2> QED  BY <2>2, <2>3
<1>7. TypeOK'
  BY <1>0, <1>2, <1>6 DEF TypeOK
<1>8. RecvInv'
  <2>1. /\ nextReceive' <= MaxReceives + 1
        /\ \A k \in 1 .. Len(recvQueue') : recvQueue'[k] = nextReceive' - Len(recvQueue') + k - 1
    BY <1>0, <1>2, Zenon DEF RecvInv
  <2>2. \A k \in 1 .. Len(pending') : pending'[k] = nextReceive' - Len(pending') + k - 1
    <3>1. \A k \in 1 .. Len(pending') : pending'[k] = nextReceive - Len(pending') + k - 1
      BY <1>6
    <3>2. nextReceive' = nextReceive
      BY <1>2
    <3> QED  BY <3>1, <3>2
  <2>3. Len(recvQueue') <= Len(pending') /\ Len(pending') < nextReceive'
    BY <1>2, <1>6
  <2> QED  BY <2>1, <2>2, <2>3, Zenon DEF RecvInv
<1>9. SendInv' /\ DueInv'
  BY <1>0, <1>2 DEF SendInv, DueInv
<1>10. \A s : Passed(s)' <=> Passed(s)
  BY <1>2 DEF Passed
<1>11. DoneInv' /\ WaitInv'
  BY <1>0, <1>2, <1>10, RequestFacts DEF DoneInv, WaitInv
<1>12. OrderInv'
  <2> SUFFICES ASSUME NEW j \in 1 .. (Found - 1), NEW k \in 1 .. (Found - 1), j < k,
                      SameDirection(At(j)'.of, At(k)'.of)
               PROVE  At(j)'.of.id < At(k)'.of.id
    BY <1>1 DEF OrderInv, SameDirection
  <2>1. PICK i \in 1 .. Found : /\ At(j)' = At(i)
                                /\ (j < m /\ i = j) \/ (m <= j /\ i = j + 1)
    BY <1>5
  <2>2. PICK l \in 1 .. Found : /\ At(k)' = At(l)
                                /\ (k < m /\ l = k) \/ (m <= k /\ l = k + 1)
    BY <1>5
  <2>3. i < l
    BY <2>1, <2>2, <1>0, <1>1
  <2> QED  BY <2>1, <2>2, <2>3, <1>0 DEF OrderInv
<1>13. CompletionInv'
  <2> SUFFICES ASSUME NEW k \in 1 .. (Found - 1)
               PROVE  /\ Passed(At(k)'.of)
                      /\ At(k)'.op = "RECV" => At(k)'.of.op = "RECV"
                      /\ At(k)'.of.op = "RECV" => nextReceive - Len(pending') <= At(k)'.of.id
                      /\ At(k)'.ok => At(k)'.op = At(k)'.of.op /\ At(k)'.of \in executed
                      /\ ~broken => At(k)'.ok
    BY <1>1, <1>2 DEF CompletionInv, Passed
  <2>1. PICK i \in 1 .. Found : i # m /\ At(k)' = At(i)
    BY <1>5
  <2>2. /\ Passed(At(i).of) /\ (At(i).op = "RECV" => At(i).of.op = "RECV")
        /\ (At(i).of.op = "RECV" => nextReceive - Len(pending) <= At(i).of.id)
        /\ (At(i).ok => At(i).op = At(i).of.op /\ At(i).of \in executed)
        /\ (~broken => At(i).ok)
    BY <1>0 DEF CompletionInv
  <2>3. ASSUME At(i).of.op = "RECV" PROVE nextReceive - Len(pending') <= At(i).of.id
    <3>1. CASE r.op = "RECV"
      <4>1. c.of.op = "RECV" /\ c.of.id = nextReceive - Len(pending)
        BY <3>1, <1>2, <1>3, <1>6
      <4>2. SameDirection(At(i).of, At(m).of) /\ SameDirection(At(m).of, At(i).of)
        BY <4>1, <2>3 DEF SameDirection, c
      <4>3. i < m \/ m < i
        BY <2>1, <1>0, <1>1
      <4>4. At(i).of.id # At(m).of.id /\ At(i).of.id \in Nat
        BY <4>2, <4>3, <1>0, <1>1 DEF OrderInv
      <4>5. At(i).of.id # nextReceive - Len(pending)
        BY <4>1, <4>4 DEF c
      <4> QED  BY <4>4, <4>5, <3>1, <2>2, <2>3, <1>0, <1>6, SMTT(30)
    <3>2. CASE r.op # "RECV"
      BY <3>2, <2>2, <2>3, <1>6
    <3> QED  BY <3>1, <3>2
  <2> QED  BY <2>1, <2>2, <2>3
<1>14. r \notin Held'
  <2> SUFFICES ASSUME NEW k \in 1 .. Len(pending'), r = Request("RECV", pending'[k]) PROVE FALSE
    BY <1>2 DEF Held
  <2>1. r.op = "RECV" /\ r.id = pending'[k]
    BY RequestFacts
  <2> QED  BY <2>1, <1>6
<1>15. Held' \subseteq Held /\ Held \ Held' \subseteq {r}
  <2>1. ASSUME NEW s \in Held' PROVE s \in Held
    <3>1. s \in due' \/ \E k \in 1 .. Len(pending') : s = Request("RECV", pending'[k])
      BY DEF Held
    <3>2. s \in due' => s \in due
      BY <1>2
    <3> QED  BY <3>1, <3>2, <1>6 DEF Held
  <2>2. ASSUME NEW s \in Held, s # r PROVE s \in Held'
    <3>1. CASE s \in due
      BY <3>1, <2>2, <1>2 DEF Held
    <3>2. ASSUME NEW j \in 1 .. Len(pending), s = Request("RECV", pending[j]) PROVE s \in Held'
      <4>1. CASE r.op = "RECV"
        <5>1. pending[j] # r.id
          <6> SUFFICES ASSUME pending[j] = r.id PROVE FALSE
            OBVIOUS
          <6>1. s.op = r.op /\ s.id = r.id /\ s \in Requests
            <7>1. pending[j] \in Ids
              BY <1>0
            <7> QED  BY <7>1, <4>1, <3>2, RequestFacts
          <6> QED  BY <6>1, <2>2, RequestFacts
        <5>2. PICK k \in 1 .. Len(pending') : pending'[k] = pending[j]
          BY <5>1, <4>1, <1>6
        <5> QED  BY <5>2, <3>2 DEF Held
      <4>2. CASE r.op # "RECV"
        <5>1. pending' = pending
          BY <4>2, <1>6
        <5> QED  BY <5>1, <3>2 DEF Held
      <4> QED  BY <4>1, <4>2
    <3> QED  BY <3>1, <3>2 DEF Held
  <2> QED  BY <2>1, <2>2
<1>16. FoundInv'
  <2> SUFFICES ASSUME ~broken, NEW s \in Held', s \in executed
               PROVE  \E k \in 1 .. (Found - 1) : At(k)'.of = s
    BY <1>1, <1>2 DEF FoundInv
  <2>1. PICK i \in 1 .. Found : At(i).of = s
    BY <1>0, <1>15 DEF FoundInv
  <2>2. i # m
    BY <2>1, <1>3, <1>4, <1>14 DEF c
  <2>3. CASE i < m
    <3>1. i \in 1 .. (Found - 1)
      BY <2>3, <1>0, <1>1
    <3> QED  BY <3>1, <2>1, <2>3, <1>1
  <2>4. CASE m < i
    <3>1. i - 1 \in 1 .. (Found - 1) /\ m <= i - 1 /\ (i - 1) + 1 = i
      BY <2>4, <1>0, <1>1
    <3>2. PICK j \in 1 .. (Found - 1) : m <= j /\ j + 1 = i
      BY <3>1
    <3>3. At(j)' = At(i)
      BY <3>2, <1>1
    <3> QED  BY <3>3, <2>1
  <2> QED  BY <2>2, <2>3, <2>4, <1>0, <1>1
<1>17. \A s \in Held \ Held' : result' = "ok" => s \in executed
  BY <1>2, <1>4, <1>15
<1> QED  BY <1>7, <1>8, <1>9, <1>11, <1>12, <1>13, <1>16, <1>17 DEF IInv

\* What was put aside is looked at first; without a match the wait begins.
LEMMA BeginWaitIInv ==
  ASSUME IInv, BeginWait
  PROVE  IInv' /\ \A s \in Held \ Held' : result' = "ok" => s \in executed
<1>0. /\ TypeOK /\ RecvInv /\ SendInv /\ CompletionInv /\ pending \in Seq(Ids)
      /\ Len(stash) \in Nat /\ Len(cq) \in Nat /\ Found \in Nat
  BY ListType DEF IInv, TypeOK
<1>1. PICK r \in due \cup (IF pending = <<>> THEN {} ELSE {Request("RECV", Head(pending))}) :
        IF Stashed(r) # 0
        THEN Finish(r, stash[Stashed(r)]) /\ stash' = RemoveAt(stash, Stashed(r))
        ELSE awaited' = r /\ result' = "none" /\ UNCHANGED <<stash, pending, due>>
  BY DEF BeginWait
<1>2. /\ nextReceive' = nextReceive /\ nextSend' = nextSend /\ recvQueue' = recvQueue
      /\ sendQueue' = sendQueue /\ sendRing' = sendRing /\ cq' = cq /\ executed' = executed
      /\ broken' = broken
  BY DEF BeginWait, adapterVars
<1>3. r \in Requests /\ (r.op = "RECV" => pending # <<>> /\ r.id = pending[1])
  <2>1. CASE r \in due
    BY <2>1, StateFacts DEF IInv, DueInv
  <2>2. CASE pending # <<>> /\ r = Request("RECV", Head(pending))
    <3>1. Head(pending) = pending[1] /\ Head(pending) \in Ids
      BY <2>2, <1>0
    <3> QED  BY <3>1, <2>2, RequestFacts
  <2> QED  BY <2>1, <2>2, <1>1
<1>4. CASE Stashed(r) # 0
  <2> DEFINE found == {k \in 1 .. Len(stash) : Matches(stash[k], r)}
  <2>1. PICK m \in 1 .. Len(stash) : m = Stashed(r) /\ Matches(stash[m], r)
    <3>1. Stashed(r) = IF found = {} THEN 0 ELSE Min(found)
      BY DEF Stashed
    <3>2. found # {} /\ Stashed(r) = Min(found)
      BY <3>1, <1>4
    <3>3. found \subseteq Nat
      BY <1>0
    <3>4. Min(found) \in found
      BY <3>2, <3>3, MinFacts
    <3> QED  BY <3>2, <3>4
  <2> HIDE DEF found
  <2>2. Finish(r, stash[m]) /\ stash' = RemoveAt(stash, m)
    BY <2>1, <1>1, <1>4
  <2>3. /\ Removed(m) /\ stash' \in Seq(Completions) /\ Len(stash') = Len(stash) - 1
        /\ At(m) = stash[m]
    BY <2>2, <1>0, <1>2, ListErase
  <2>4. Matches(At(m), r) /\ Finish(r, At(m))
    BY <2>1, <2>2, <2>3
  <2>5. /\ sendRing' \subseteq sendRing /\ IsFiniteSet(sendRing') /\ Cardinality(sendRing') <= QpDepth
        /\ \A k \in 1 .. Len(sendQueue) : sendQueue[k].id \in sendRing'
    BY <1>0, <1>2 DEF SendInv
  <2>6. ASSUME NEW k \in 1 .. (Found - 1), k > Len(stash'), At(k)'.of.op # "RECV"
        PROVE  At(k)'.of.id \in sendRing'
    <3>1. m <= k /\ k + 1 > Len(stash) /\ k + 1 \in 1 .. Found
      BY <2>3, <2>6, <1>0
    <3>2. At(k)' = At(k + 1)
      BY <3>1, <2>3 DEF Removed
    <3> QED  BY <3>1, <3>2, <2>6, <1>0, <1>2 DEF CompletionInv
  <2>7. cq' \in Seq(Completions)
    BY <1>0, <1>2 DEF TypeOK
  <2> QED  BY <2>3, <2>4, <2>5, <2>6, <2>7, <1>2, <1>3, FinishIInv
<1>5. CASE Stashed(r) = 0
  <2>1. awaited' = r /\ result' = "none" /\ stash' = stash /\ pending' = pending /\ due' = due
    BY <1>1, <1>5
  <2>2. WaitInv'
    BY <2>1, <1>3 DEF WaitInv
  <2>3. IInv'
    BY <2>1, <2>2, <1>2, <1>3, WaitChange DEF adapterVars
  <2> QED  BY <2>1, <2>3
<1> QED  BY <1>4, <1>5

\* One turn of the polling loop: the completion ends the wait or is put aside.
LEMMA PollMatchingIInv ==
  ASSUME IInv, PollMatching
  PROVE  IInv' /\ \A s \in Held \ Held' : result' = "ok" => s \in executed
<1>0. /\ TypeOK /\ RecvInv /\ SendInv /\ DueInv /\ CompletionInv /\ OrderInv /\ DoneInv /\ FoundInv
      /\ WaitInv /\ Len(stash) \in Nat /\ Len(cq) \in Nat /\ Found \in Nat
  BY ListType DEF IInv
<1>1. /\ awaited # NoWait /\ cq # <<>> /\ cq' = Tail(cq) /\ FreeRing(Head(cq))
      /\ IF Matches(Head(cq), awaited)
         THEN Finish(awaited, Head(cq)) /\ stash' = stash
         ELSE /\ stash' = Append(stash, Head(cq))
              /\ UNCHANGED <<result, pending, due, awaited>>
      /\ nextReceive' = nextReceive /\ nextSend' = nextSend /\ recvQueue' = recvQueue
      /\ sendQueue' = sendQueue /\ executed' = executed /\ broken' = broken
  BY DEF PollMatching, PutAside
<1>2. /\ sendRing' \subseteq sendRing /\ IsFiniteSet(sendRing')
      /\ Cardinality(sendRing') <= QpDepth
      /\ \A k \in 1 .. Len(sendQueue) : sendQueue[k].id \in sendRing'
      /\ \A k \in 1 .. Found :
           k > Len(stash) + 1 /\ At(k).of.op # "RECV" => At(k).of.id \in sendRing'
  BY <1>1, FreeRingKeeps
<1>3. CASE Matches(Head(cq), awaited)
  <2>1. Finish(awaited, Head(cq)) /\ stash' = stash
    BY <1>1, <1>3
  <2>2. /\ Removed(Len(stash) + 1) /\ cq' \in Seq(Completions)
        /\ At(Len(stash) + 1) = Head(cq)
    BY <2>1, <1>0, <1>1, ListPoll
  <2>3. PICK m \in Nat : m = Len(stash) + 1
    BY <1>0
  <2>4. Removed(m) /\ At(m) = Head(cq)
    BY <2>2, <2>3
  <2>5. Matches(At(m), awaited) /\ Finish(awaited, At(m))
    BY <2>1, <2>4, <1>3
  <2>6. ASSUME NEW k \in 1 .. (Found - 1), k > Len(stash'), At(k)'.of.op # "RECV"
        PROVE  At(k)'.of.id \in sendRing'
    <3>1. m <= k /\ k + 1 > Len(stash) + 1 /\ k + 1 \in 1 .. Found
      BY <2>1, <2>3, <2>6, <1>0
    <3>2. At(k)' = At(k + 1)
      BY <3>1, <2>4 DEF Removed
    <3> QED  BY <3>1, <3>2, <2>6, <1>2
  <2>7. awaited \in Requests /\ stash' \in Seq(Completions)
    BY <2>1, <1>0, <1>1 DEF TypeOK
  <2>8. awaited.op = "RECV" => pending # <<>> /\ awaited.id = pending[1]
    BY <1>0 DEF WaitInv
  <2> QED  BY <2>2, <2>4, <2>5, <2>6, <2>7, <2>8, <1>1, <1>2, FinishIInv
<1>4. CASE ~Matches(Head(cq), awaited)
  <2>1. /\ stash' = Append(stash, Head(cq)) /\ result' = result /\ pending' = pending
        /\ due' = due /\ awaited' = awaited
    BY <1>1, <1>4
  <2>2. /\ Found' = Found /\ cq' \in Seq(Completions) /\ stash' \in Seq(Completions)
        /\ Len(stash') = Len(stash) + 1
        /\ \A k \in 1 .. Found : At(k)' = At(k)
    BY <2>1, <1>0, <1>1, ListMove
  <2>3. TypeOK'
    BY <2>1, <2>2, <1>0, <1>1, <1>2 DEF TypeOK
  <2>4. RecvInv' /\ DueInv' /\ WaitInv'
    BY <2>1, <1>0, <1>1 DEF RecvInv, DueInv, WaitInv
  <2>5. SendInv'
    BY <1>0, <1>1, <1>2 DEF SendInv
  <2>6. \A s : Passed(s)' <=> Passed(s)
    BY <1>1 DEF Passed
  <2>7. OrderInv' /\ DoneInv'
    BY <2>2, <2>6, <1>0, <1>1 DEF OrderInv, SameDirection, DoneInv
  <2>8. CompletionInv'
    <3> SUFFICES ASSUME NEW k \in 1 .. Found
                 PROVE  /\ Passed(At(k).of)
                        /\ At(k).op = "RECV" => At(k).of.op = "RECV"
                        /\ At(k).of.op = "RECV" => nextReceive - Len(pending) <= At(k).of.id
                        /\ At(k).ok => At(k).op = At(k).of.op /\ At(k).of \in executed
                        /\ ~broken => At(k).ok
                        /\ k > Len(stash) + 1 /\ At(k).of.op # "RECV" => At(k).of.id \in sendRing'
      BY <2>1, <2>2, <1>1 DEF CompletionInv, Passed
    <3> QED  BY <1>0, <1>2 DEF CompletionInv
  <2>9. Held' = Held
    BY <2>1 DEF Held
  <2>10. FoundInv'
    BY <2>2, <2>9, <1>0, <1>1 DEF FoundInv
  <2> QED  BY <2>3, <2>4, <2>5, <2>7, <2>8, <2>9, <2>10 DEF IInv
<1> QED  BY <1>3, <1>4

\* A completion is appended: of a request the adapter is now done with, whose id
\* is above those of the completions of its direction.
LEMMA AppendInv ==
  ASSUME IInv, NEW c \in Completions, cq' = Append(cq, c),
         UNCHANGED <<nextReceive, nextSend, pending, stash, due, sendRing>>,
         executed \subseteq executed', broken => broken',
         \A s \in Requests : Passed(s) => Passed(s)',
         Passed(c.of)',
         c.op = "RECV" => c.of.op = "RECV",
         c.of.op = "RECV" => nextReceive - Len(pending) <= c.of.id,
         c.ok => c.op = c.of.op /\ c.of \in executed',
         ~broken' => c.ok,
         c.of.op # "RECV" => c.of.id \in sendRing,
         \A k \in 1 .. Found : SameDirection(At(k).of, c.of) => At(k).of.id < c.of.id
  PROVE  /\ CompletionInv' /\ OrderInv' /\ cq' \in Seq(Completions)
         /\ \A k \in 1 .. Found : k \in 1 .. Found' /\ At(k)'.of = At(k).of
         /\ \E k \in 1 .. Found' : At(k)'.of = c.of
<1>0. TypeOK /\ CompletionInv /\ OrderInv /\ Found \in Nat
  BY ListType DEF IInv
<1>1. /\ Found' = Found + 1 /\ cq' \in Seq(Completions)
      /\ \A k \in 1 .. Found : At(k)' = At(k)
      /\ \A k \in Nat : k = Found + 1 => At(k)' = c
  BY <1>0, ListAppend
<1>2. \A k \in 1 .. (Found + 1) : k \in 1 .. Found \/ (k = Found + 1 /\ k \in Nat)
  BY <1>0
<1>3. CompletionInv'
  <2> SUFFICES ASSUME NEW k \in 1 .. (Found + 1)
               PROVE  /\ Passed(At(k).of)'
                      /\ At(k)'.op = "RECV" => At(k)'.of.op = "RECV"
                      /\ At(k)'.of.op = "RECV" => nextReceive - Len(pending) <= At(k)'.of.id
                      /\ At(k)'.ok => At(k)'.op = At(k)'.of.op /\ At(k)'.of \in executed'
                      /\ ~broken' => At(k)'.ok
                      /\ k > Len(stash) /\ At(k)'.of.op # "RECV" => At(k)'.of.id \in sendRing
    BY <1>1 DEF CompletionInv
  <2>1. CASE k \in 1 .. Found
    <3>1. /\ Passed(At(k).of) /\ (At(k).op = "RECV" => At(k).of.op = "RECV")
          /\ (At(k).of.op = "RECV" => nextReceive - Len(pending) <= At(k).of.id)
          /\ (At(k).ok => At(k).op = At(k).of.op /\ At(k).of \in executed)
          /\ (~broken => At(k).ok)
          /\ (k > Len(stash) /\ At(k).of.op # "RECV" => At(k).of.id \in sendRing)
      BY <2>1, <1>0 DEF CompletionInv
    <3>2. At(k)' = At(k)
      BY <2>1, <1>1
    <3>3. PICK s \in Requests : s = At(k).of
      BY <2>1, <1>0, ListType
    <3>4. Passed(s)'
      BY <3>1, <3>3
    <3>5. Passed(At(k).of)'
      BY <3>2, <3>3, <3>4 DEF Passed
    <3> QED  BY <3>1, <3>2, <3>5
  <2>2. CASE k = Found + 1 /\ k \in Nat
    <3>1. At(k)' = c
      BY <2>2, <1>1
    <3>2. Passed(At(k).of)'
      BY <3>1 DEF Passed
    <3> QED  BY <3>1, <3>2
  <2> QED  BY <2>1, <2>2, <1>2
<1>4. OrderInv'
  <2> SUFFICES ASSUME NEW j \in 1 .. (Found + 1), NEW k \in 1 .. (Found + 1), j < k,
                      SameDirection(At(j)'.of, At(k)'.of)
               PROVE  At(j)'.of.id < At(k)'.of.id
    BY <1>1 DEF OrderInv, SameDirection
  <2>1. j \in 1 .. Found
    BY <1>0
  <2>2. CASE k \in 1 .. Found
    BY <2>1, <2>2, <1>0, <1>1 DEF OrderInv
  <2>3. CASE k = Found + 1 /\ k \in Nat
    BY <2>1, <2>3, <1>1
  <2> QED  BY <2>2, <2>3, <1>2
<1>5. \A k \in 1 .. Found : k \in 1 .. Found' /\ At(k)'.of = At(k).of
  BY <1>0, <1>1
<1>6. \E k \in 1 .. Found' : At(k)'.of = c.of
  <2>1. Found + 1 \in 1 .. Found' /\ Found + 1 \in Nat
    BY <1>0, <1>1
  <2> QED  BY <2>1, <1>1
<1> QED  BY <1>1, <1>3, <1>4, <1>5, <1>6

\* A message arrives, or the broken pair flushes a receive.
LEMMA ReceiveCompletesIInv ==
  ASSUME IInv, ReceiveCompletes PROVE IInv' /\ Held' = Held
<1>0. /\ TypeOK /\ RecvInv /\ SendInv /\ DueInv /\ CompletionInv /\ OrderInv /\ DoneInv /\ FoundInv
      /\ WaitInv /\ Found \in Nat /\ nextReceive \in Nat /\ recvQueue \in Seq(Ids)
      /\ Len(recvQueue) \in Nat /\ Len(pending) \in Nat
      /\ \A k \in 1 .. Found : At(k).of \in Requests /\ At(k).of.id \in Nat
  BY ListType, StateFacts DEF IInv
<1>1. /\ recvQueue # <<>> /\ recvQueue' = Tail(recvQueue)
      /\ nextReceive' = nextReceive /\ nextSend' = nextSend /\ pending' = pending
      /\ stash' = stash /\ awaited' = awaited /\ result' = result /\ due' = due
      /\ sendQueue' = sendQueue /\ sendRing' = sendRing /\ broken' = broken
  BY DEF ReceiveCompletes, callerVars
<1>2. /\ Len(recvQueue) >= 1 /\ recvQueue' \in Seq(Ids) /\ Len(recvQueue') = Len(recvQueue) - 1
      /\ \A k \in 1 .. Len(recvQueue') : recvQueue'[k] = recvQueue[k + 1]
      /\ Head(recvQueue) = recvQueue[1] /\ recvQueue[1] \in Ids
  BY <1>0, <1>1
<1>3. PICK r \in Requests : /\ r = Request("RECV", Head(recvQueue)) /\ r.op = "RECV"
                            /\ r.id = nextReceive - Len(recvQueue)
                            /\ nextReceive - Len(pending) <= r.id
  <2>1. 1 \in 1 .. Len(recvQueue)
    BY <1>0, <1>2
  <2>2. recvQueue[1] = nextReceive - Len(recvQueue) + 1 - 1 /\ Len(recvQueue) <= Len(pending)
    BY <2>1, <1>0 DEF RecvInv
  <2>3. PICK r \in Requests : r = Request("RECV", Head(recvQueue)) /\ r.op = "RECV" /\ r.id = recvQueue[1]
    BY <1>2, RequestFacts
  <2> QED  BY <2>2, <2>3, <1>0
<1>4. PICK c \in Completions :
        /\ cq' = Append(cq, c) /\ c.of = r
        /\ c.ok => c.op = "RECV" /\ executed' = executed \cup {r}
        /\ ~c.ok => broken /\ executed' = executed
  <2>1. ASSUME NEW op \in Ops, NEW ok \in BOOLEAN
        PROVE  /\ Completion(op, r, ok) \in Completions /\ Completion(op, r, ok).op = op
               /\ Completion(op, r, ok).of = r /\ Completion(op, r, ok).ok = ok
    BY DEF Completion, Completions
  <2>2. \/ /\ cq' = Append(cq, Completion("RECV", r, TRUE))
           /\ executed' = executed \cup {r}
        \/ /\ broken
           /\ \E op \in {"RECV", "SEND"} : cq' = Append(cq, Completion(op, r, FALSE))
           /\ executed' = executed
    BY <1>3 DEF ReceiveCompletes
  <2>3. CASE /\ cq' = Append(cq, Completion("RECV", r, TRUE))
             /\ executed' = executed \cup {r}
    BY <2>1, <2>3, RequestFacts
  <2>4. CASE /\ broken
             /\ \E op \in {"RECV", "SEND"} : cq' = Append(cq, Completion(op, r, FALSE))
             /\ executed' = executed
    <3>1. PICK op \in Ops : cq' = Append(cq, Completion(op, r, FALSE))
      BY <2>4, RequestFacts
    <3> QED  BY <3>1, <2>1, <2>4
  <2> QED  BY <2>2, <2>3, <2>4
<1>5. \A s \in Requests : Passed(s) => Passed(s)'
  <2> TAKE s \in Requests
  <2> HAVE Passed(s)
  <2>1. s.id \in Nat
    BY StateFacts
  <2>2. CASE s.op = "RECV"
    <3>1. s.id < nextReceive - Len(recvQueue)
      BY <2>2 DEF Passed
    <3>2. s.id < nextReceive' - Len(recvQueue')
      BY <3>1, <2>1, <1>0, <1>1, <1>2
    <3> QED  BY <3>2, <2>2 DEF Passed
  <2>3. CASE s.op # "RECV"
    BY <2>3, <1>1 DEF Passed
  <2> QED  BY <2>2, <2>3
<1>6. Passed(r)'
  <2>1. r.id < nextReceive' - Len(recvQueue')
    BY <1>0, <1>1, <1>2, <1>3
  <2> QED  BY <2>1, <1>3 DEF Passed
<1>7. ASSUME NEW k \in 1 .. Found, SameDirection(At(k).of, r) PROVE At(k).of.id < r.id
  <2>1. At(k).of.op = "RECV" /\ Passed(At(k).of)
    BY <1>0, <1>3, <1>7 DEF SameDirection, CompletionInv
  <2> QED  BY <2>1, <1>3 DEF Passed
<1>8. /\ CompletionInv' /\ OrderInv' /\ cq' \in Seq(Completions)
      /\ \A k \in 1 .. Found : k \in 1 .. Found' /\ At(k)'.of = At(k).of
      /\ \E k \in 1 .. Found' : At(k)'.of = r
  <2>1. /\ cq' = Append(cq, c)
        /\ UNCHANGED <<nextReceive, nextSend, pending, stash, due, sendRing>>
        /\ executed \subseteq executed' /\ (broken => broken')
    BY <1>1, <1>4
  <2>3. Passed(c.of)'
    BY <1>4, <1>6 DEF Passed
  <2>4. /\ c.op = "RECV" => c.of.op = "RECV"
        /\ c.of.op = "RECV" => nextReceive - Len(pending) <= c.of.id
        /\ c.of.op # "RECV" => c.of.id \in sendRing
    BY <1>3, <1>4
  <2>5. (c.ok => c.op = c.of.op /\ c.of \in executed') /\ (~broken' => c.ok)
    BY <1>1, <1>3, <1>4
  <2>6. \A k \in 1 .. Found : SameDirection(At(k).of, c.of) => At(k).of.id < c.of.id
    BY <1>4, <1>7
  <2>7. /\ CompletionInv' /\ OrderInv' /\ cq' \in Seq(Completions)
        /\ \A k \in 1 .. Found : k \in 1 .. Found' /\ At(k)'.of = At(k).of
        /\ \E k \in 1 .. Found' : At(k)'.of = c.of
    BY <2>1, <2>3, <2>4, <2>5, <2>6, <1>5, AppendInv
  <2> QED  BY <2>7, <1>4
<1>9. TypeOK'
  BY <1>0, <1>1, <1>2, <1>4, <1>8 DEF TypeOK
<1>10. RecvInv'
  <2>1. \A k \in 1 .. Len(recvQueue') : recvQueue'[k] = nextReceive' - Len(recvQueue') + k - 1
    <3> TAKE k \in 1 .. Len(recvQueue')
    <3>1. k + 1 \in 1 .. Len(recvQueue)
      BY <1>0, <1>2
    <3>2. recvQueue[k + 1] = nextReceive - Len(recvQueue) + (k + 1) - 1
      BY <3>1, <1>0 DEF RecvInv
    <3> QED  BY <3>2, <1>0, <1>1, <1>2
  <2>2. Len(recvQueue') <= Len(pending')
    BY <1>0, <1>1, <1>2 DEF RecvInv
  <2> QED  BY <2>1, <2>2, <1>0, <1>1 DEF RecvInv
<1>11. SendInv' /\ DueInv' /\ WaitInv'
  BY <1>0, <1>1 DEF SendInv, DueInv, WaitInv
<1>12. DoneInv'
  <2>1. \A s \in executed : Passed(s)'
    BY <1>0, <1>5, StateFacts DEF DoneInv
  <2>2. \A s \in executed' : s \in executed \/ s = r
    BY <1>4
  <2> QED  BY <2>1, <2>2, <1>6 DEF DoneInv
<1>13. Held' = Held
  BY <1>1 DEF Held
<1>14. FoundInv'
  <2> SUFFICES ASSUME ~broken, NEW s \in Held, s \in executed'
               PROVE  \E k \in 1 .. Found' : At(k)'.of = s
    BY <1>1, <1>13 DEF FoundInv
  <2>1. CASE s \in executed
    BY <2>1, <1>0, <1>8 DEF FoundInv
  <2>2. CASE s = r
    BY <2>2, <1>8
  <2> QED  BY <2>1, <2>2, <1>4
<1> QED  BY <1>8, <1>9, <1>10, <1>11, <1>12, <1>13, <1>14 DEF IInv

\* The oldest send request leaves the adapter: it is behind what is left, above
\* the sends that have completed, and signaled if the caller can wait for it.
LEMMA SendLeaves ==
  ASSUME IInv, sendQueue # <<>>, sendQueue' = Tail(sendQueue),
         UNCHANGED <<callerVars, recvQueue, sendRing>>
  PROVE  /\ sendQueue' \in Seq([op : Ops, id : Ids, signaled : BOOLEAN])
         /\ RecvInv' /\ SendInv' /\ DueInv' /\ WaitInv' /\ Held' = Held
         /\ \A t \in Requests : Passed(t) => Passed(t)'
         /\ \E r \in Requests :
              /\ r = Request(Head(sendQueue).op, Head(sendQueue).id)
              /\ r.op # "RECV" /\ r.op = Head(sendQueue).op /\ r.id \in sendRing /\ Passed(r)'
              /\ \A k \in 1 .. Found : SameDirection(At(k).of, r) => At(k).of.id < r.id
              /\ r \in Held => Head(sendQueue).signaled
<1> USE DEF callerVars
<1>0. /\ TypeOK /\ RecvInv /\ SendInv /\ DueInv /\ CompletionInv /\ WaitInv /\ Len(sendQueue) \in Nat
      /\ nextSend \in Nat
      /\ \A k \in 1 .. Found : At(k).of \in Requests /\ At(k).of.id \in Nat
      /\ \A k \in 1 .. Len(sendQueue) :
           sendQueue[k].id \in Nat /\ sendQueue[k].op \in Ops /\ sendQueue[k].id \in Ids
  BY ListType, StateFacts DEF IInv
<1>1. /\ sendQueue' \in Seq([op : Ops, id : Ids, signaled : BOOLEAN])
      /\ Len(sendQueue) >= 1 /\ Len(sendQueue') = Len(sendQueue) - 1
      /\ \A k \in 1 .. Len(sendQueue') : sendQueue'[k] = sendQueue[k + 1]
      /\ Head(sendQueue) = sendQueue[1]
  <2> DEFINE S == [op : Ops, id : Ids, signaled : BOOLEAN]
  <2> HIDE DEF S
  <2>1. sendQueue \in Seq(S)
    BY <1>0 DEF TypeOK, S
  <2>2. /\ sendQueue' \in Seq(S)
        /\ Len(sendQueue) >= 1 /\ Len(sendQueue') = Len(sendQueue) - 1
        /\ \A k \in 1 .. Len(sendQueue') : sendQueue'[k] = sendQueue[k + 1]
        /\ Head(sendQueue) = sendQueue[1]
    BY <2>1
  <2> QED  BY <2>2 DEF S
<1>2. /\ 1 \in 1 .. Len(sendQueue)
      /\ \A k \in 1 .. Len(sendQueue') : k + 1 \in 1 .. Len(sendQueue) /\ 1 < k + 1
  BY <1>0, <1>1
<1>3. RecvInv' /\ WaitInv' /\ Held' = Held
  BY <1>0 DEF RecvInv, WaitInv, Held
<1>4. SendInv'
  <2>1. \A k \in 1 .. Len(sendQueue') : sendQueue'[k].id \in sendRing' /\ sendQueue'[k].op # "RECV"
    BY <1>0, <1>1, <1>2 DEF SendInv
  <2>2. ASSUME NEW j \in 1 .. Len(sendQueue'), NEW k \in 1 .. Len(sendQueue'), j < k
        PROVE  sendQueue'[j].id < sendQueue'[k].id
    <3>1. j + 1 < k + 1
      BY <2>2, <1>0, <1>1
    <3>2. sendQueue[j + 1].id < sendQueue[k + 1].id
      BY <3>1, <1>0, <1>2 DEF SendInv
    <3> QED  BY <3>2, <1>1
  <2> QED  BY <2>1, <2>2, <1>0 DEF SendInv
<1>5. DueInv'
  BY <1>0, <1>1, <1>2 DEF DueInv
<1>6. ASSUME NEW t \in Requests, Passed(t) PROVE Passed(t)'
  <2>1. CASE t.op = "RECV"
    BY <2>1, <1>6 DEF Passed
  <2>2. CASE t.op # "RECV"
    <3>1. t.id < nextSend /\ \A k \in 1 .. Len(sendQueue) : t.id < sendQueue[k].id
      BY <2>2, <1>6 DEF Passed
    <3>2. \A k \in 1 .. Len(sendQueue') : t.id < sendQueue'[k].id
      BY <3>1, <1>1, <1>2
    <3> QED  BY <3>1, <3>2, <2>2 DEF Passed
  <2> QED  BY <2>1, <2>2
<1>7. PICK r \in Requests : /\ r = Request(Head(sendQueue).op, Head(sendQueue).id)
                            /\ r.op = sendQueue[1].op /\ r.id = sendQueue[1].id
  BY <1>0, <1>1, <1>2, RequestFacts
<1>8. r.op # "RECV" /\ r.id \in sendRing /\ r.id < nextSend
  BY <1>0, <1>2, <1>7 DEF SendInv
<1>9. Passed(r)'
  <2>1. \A k \in 1 .. Len(sendQueue') : r.id < sendQueue'[k].id
    <3> TAKE k \in 1 .. Len(sendQueue')
    <3>1. sendQueue[1].id < sendQueue[k + 1].id
      BY <1>0, <1>2 DEF SendInv
    <3> QED  BY <3>1, <1>1, <1>7
  <2> QED  BY <2>1, <1>8 DEF Passed
<1>10. ASSUME NEW k \in 1 .. Found, SameDirection(At(k).of, r) PROVE At(k).of.id < r.id
  <2>1. At(k).of.op # "RECV" /\ Passed(At(k).of)
    BY <1>0, <1>8, <1>10 DEF SameDirection, CompletionInv
  <2> QED  BY <2>1, <1>2, <1>7 DEF Passed
<1>11. r \in Held => Head(sendQueue).signaled
  <2> HAVE r \in Held
  <2>1. r \in due
    BY <1>8, HeldFacts, RequestFacts
  <2> QED  BY <2>1, <1>0, <1>1, <1>2, <1>7 DEF DueInv
<1>12. \E q \in Requests :
         /\ q = Request(Head(sendQueue).op, Head(sendQueue).id)
         /\ q.op # "RECV" /\ q.op = Head(sendQueue).op /\ q.id \in sendRing /\ Passed(q)'
         /\ \A k \in 1 .. Found : SameDirection(At(k).of, q) => At(k).of.id < q.id
         /\ q \in Held => Head(sendQueue).signaled
  BY <1>1, <1>7, <1>8, <1>9, <1>10, <1>11
<1> QED  BY <1>1, <1>3, <1>4, <1>5, <1>6, <1>12

\* The completion of a send request that leaves the adapter.
LEMMA SendAppends ==
  ASSUME IInv, sendQueue' = Tail(sendQueue), sendQueue # <<>>,
         UNCHANGED <<callerVars, recvQueue, sendRing>>,
         NEW r \in Requests, NEW op \in Ops, NEW ok \in BOOLEAN,
         cq' = Append(cq, Completion(op, r, ok)),
         r.op # "RECV", r.id \in sendRing, Passed(r)', op # "RECV", ok => op = r.op,
         \A k \in 1 .. Found : SameDirection(At(k).of, r) => At(k).of.id < r.id,
         executed \subseteq executed', ok => r \in executed', broken => broken', ~broken' => ok
  PROVE  /\ CompletionInv' /\ OrderInv' /\ cq' \in Seq(Completions)
         /\ \A k \in 1 .. Found : k \in 1 .. Found' /\ At(k)'.of = At(k).of
         /\ \E k \in 1 .. Found' : At(k)'.of = r
<1>1. PICK c \in Completions : /\ c = Completion(op, r, ok) /\ c.op = op /\ c.of = r /\ c.ok = ok
  BY DEF Completion, Completions
<1>2. Passed(c.of)'
  BY <1>1 DEF Passed
<1>3. cq' = Append(cq, c) /\ UNCHANGED <<nextReceive, nextSend, pending, stash, due, sendRing>>
  BY <1>1 DEF callerVars
<1>4. \A t \in Requests : Passed(t) => Passed(t)'
  BY SendLeaves
<1>5. \A k \in 1 .. Found : SameDirection(At(k).of, c.of) => At(k).of.id < c.of.id
  BY <1>1
<1>6. /\ CompletionInv' /\ OrderInv' /\ cq' \in Seq(Completions)
      /\ \A k \in 1 .. Found : k \in 1 .. Found' /\ At(k)'.of = At(k).of
      /\ \E k \in 1 .. Found' : At(k)'.of = c.of
  BY <1>1, <1>2, <1>3, <1>4, <1>5, AppendInv
<1> QED  BY <1>1, <1>6

\* A send request executes: only a signaled one completes, and only such a one
\* is waited for.
LEMMA SendExecutesIInv ==
  ASSUME IInv, SendExecutes PROVE IInv' /\ Held' = Held
<1>0. TypeOK /\ CompletionInv /\ OrderInv /\ DoneInv /\ FoundInv
  BY DEF IInv
<1>1. /\ sendQueue # <<>> /\ ~broken /\ sendQueue' = Tail(sendQueue)
      /\ UNCHANGED <<callerVars, recvQueue, sendRing>> /\ broken' = broken
  BY DEF SendExecutes
<1>2. /\ sendQueue' \in Seq([op : Ops, id : Ids, signaled : BOOLEAN])
      /\ RecvInv' /\ SendInv' /\ DueInv' /\ WaitInv' /\ Held' = Held
      /\ \A t \in Requests : Passed(t) => Passed(t)'
  BY <1>1, SendLeaves
<1>3. PICK r \in Requests :
         /\ r = Request(Head(sendQueue).op, Head(sendQueue).id)
         /\ r.op # "RECV" /\ r.op = Head(sendQueue).op /\ r.id \in sendRing /\ Passed(r)'
         /\ \A k \in 1 .. Found : SameDirection(At(k).of, r) => At(k).of.id < r.id
         /\ r \in Held => Head(sendQueue).signaled
  BY <1>1, SendLeaves
<1>4. /\ cq' = (IF Head(sendQueue).signaled THEN Append(cq, Completion(r.op, r, TRUE)) ELSE cq)
      /\ executed' = executed \cup {r}
  BY <1>3 DEF SendExecutes
<1>5. r.op \in Ops
  BY StateFacts
<1>6. /\ CompletionInv' /\ OrderInv' /\ cq' \in Seq(Completions)
      /\ \A k \in 1 .. Found : k \in 1 .. Found' /\ At(k)'.of = At(k).of
      /\ Head(sendQueue).signaled => \E k \in 1 .. Found' : At(k)'.of = r
  <2>1. CASE Head(sendQueue).signaled
    <3>1. cq' = Append(cq, Completion(r.op, r, TRUE))
      BY <2>1, <1>4
    <3>2. executed \subseteq executed' /\ r \in executed' /\ TRUE \in BOOLEAN
      BY <1>4
    <3> QED  BY <3>1, <3>2, <1>1, <1>3, <1>5, SendAppends
  <2>2. CASE ~Head(sendQueue).signaled
    <3>1. cq' = cq /\ stash' = stash
      BY <2>2, <1>1, <1>4 DEF callerVars
    <3>2. Found' = Found /\ \A k : At(k)' = At(k)
      BY <3>1 DEF Found, At
    <3>3. OrderInv'
      BY <3>2, <1>0 DEF OrderInv, SameDirection
    <3>4. ASSUME NEW k \in 1 .. Found PROVE Passed(At(k).of)'
      <4>1. PICK t \in Requests : t = At(k).of
        BY <1>0, ListType
      <4>2. Passed(t)'
        BY <4>1, <1>0, <1>2 DEF CompletionInv
      <4> QED  BY <4>1, <4>2, <3>2 DEF Passed
    <3>5. /\ nextReceive' = nextReceive /\ pending' = pending /\ sendRing' = sendRing
          /\ executed \subseteq executed' /\ broken' = broken
      BY <1>1, <1>4 DEF callerVars
    <3>6. CompletionInv'
      <4> SUFFICES ASSUME NEW k \in 1 .. Found
                   PROVE  /\ Passed(At(k).of)'
                          /\ At(k).op = "RECV" => At(k).of.op = "RECV"
                          /\ At(k).of.op = "RECV" => nextReceive - Len(pending) <= At(k).of.id
                          /\ At(k).ok => At(k).op = At(k).of.op /\ At(k).of \in executed'
                          /\ ~broken => At(k).ok
                          /\ k > Len(stash) /\ At(k).of.op # "RECV" => At(k).of.id \in sendRing
        BY <3>1, <3>2, <3>5 DEF CompletionInv
      <4> QED  BY <3>4, <3>5, <1>0 DEF CompletionInv
    <3> QED  BY <3>1, <3>2, <3>3, <3>6, <2>2, <1>0 DEF TypeOK
  <2> QED  BY <2>1, <2>2
<1>7. TypeOK'
  BY <1>0, <1>1, <1>2, <1>4, <1>6 DEF TypeOK, callerVars
<1>8. DoneInv'
  <2>1. \A s \in executed : Passed(s)'
    BY <1>0, <1>2, StateFacts DEF DoneInv
  <2>2. \A s \in executed' : s \in executed \/ s = r
    BY <1>4
  <2> QED  BY <2>1, <2>2, <1>3 DEF DoneInv
<1>9. FoundInv'
  <2> SUFFICES ASSUME NEW s \in Held, s \in executed'
               PROVE  \E k \in 1 .. Found' : At(k)'.of = s
    BY <1>2 DEF FoundInv
  <2>1. CASE s \in executed
    BY <2>1, <1>0, <1>1, <1>6 DEF FoundInv
  <2>2. CASE s = r
    BY <2>2, <1>3, <1>6
  <2> QED  BY <2>1, <2>2, <1>4
<1> QED  BY <1>2, <1>6, <1>7, <1>8, <1>9 DEF IInv

\* A send request fails or is flushed: whatever opcode its completion shows.
LEMMA SendFailsIInv ==
  ASSUME IInv, SendFails PROVE IInv' /\ Held' = Held
<1>0. TypeOK /\ DoneInv
  BY DEF IInv
<1>1. /\ sendQueue # <<>> /\ sendQueue' = Tail(sendQueue) /\ broken' = TRUE
      /\ UNCHANGED <<callerVars, recvQueue, sendRing>> /\ executed' = executed
  BY DEF SendFails
<1>2. /\ sendQueue' \in Seq([op : Ops, id : Ids, signaled : BOOLEAN])
      /\ RecvInv' /\ SendInv' /\ DueInv' /\ WaitInv' /\ Held' = Held
      /\ \A t \in Requests : Passed(t) => Passed(t)'
  BY <1>1, SendLeaves
<1>3. PICK r \in Requests :
         /\ r = Request(Head(sendQueue).op, Head(sendQueue).id)
         /\ r.op # "RECV" /\ r.op = Head(sendQueue).op /\ r.id \in sendRing /\ Passed(r)'
         /\ \A k \in 1 .. Found : SameDirection(At(k).of, r) => At(k).of.id < r.id
         /\ r \in Held => Head(sendQueue).signaled
  BY <1>1, SendLeaves
<1>4. PICK op \in {r.op, "SEND"} : cq' = Append(cq, Completion(op, r, FALSE))
  BY <1>3 DEF SendFails
<1>5. op \in Ops /\ op # "RECV" /\ FALSE \in BOOLEAN
  BY <1>3, <1>4, StateFacts, RequestFacts
<1>6. CompletionInv' /\ OrderInv' /\ cq' \in Seq(Completions)
  BY <1>1, <1>3, <1>4, <1>5, SendAppends
<1>7. TypeOK'
  BY <1>0, <1>1, <1>2, <1>6 DEF TypeOK, callerVars
<1>8. DoneInv'
  <2>1. \A s \in executed : Passed(s)'
    BY <1>0, <1>2, StateFacts DEF DoneInv
  <2> QED  BY <2>1, <1>1 DEF DoneInv
<1>9. FoundInv'
  BY <1>1 DEF FoundInv
<1> QED  BY <1>2, <1>6, <1>7, <1>8, <1>9 DEF IInv

\* n ids are used up and the first m requests of the batch are posted, with new
\* ids, in order, within the room of the ring; the caller gets the last id if
\* the whole batch was posted.
LEMMA PostIInv ==
  ASSUME IInv, NEW op \in Ops, op # "RECV", NEW n \in Nat \ {0}, NEW m \in 0 .. n, m <= Room,
         nextSend + n <= FirstSend + MaxSends,
         NEW reqs \in Seq([op : Ops, id : Ids, signaled : BOOLEAN]), Len(reqs) = m,
         \A i \in 1 .. m : /\ reqs[i].op = op /\ reqs[i].id = nextSend + i - 1
                           /\ i = n => reqs[i].signaled,
         Post(reqs), nextSend' = nextSend + n,
         due' = due \/ (m = n /\ due' = due \cup {Request(op, nextSend + n - 1)}),
         awaited' = NoWait, result' = "none",
         UNCHANGED <<nextReceive, pending, stash, recvQueue, cq, executed, broken>>
  PROVE  IInv'
<1>0. /\ TypeOK /\ RecvInv /\ SendInv /\ DueInv /\ CompletionInv /\ OrderInv /\ DoneInv /\ FoundInv
      /\ nextSend \in Nat /\ Len(sendQueue) \in Nat
      /\ \A k \in 1 .. Len(sendQueue) : sendQueue[k].id \in Nat
      /\ \A k \in 1 .. Found : At(k).of \in Requests /\ At(k).of.id \in Nat
      /\ \A r \in Requests : r.id \in Nat
      /\ \A r \in due : r \in Requests
      /\ \A i \in sendRing : i \in Nat
  BY ListType, StateFacts DEF IInv
<1> DEFINE S == [op : Ops, id : Ids, signaled : BOOLEAN]
<1>1. sendQueue \in Seq(S) /\ reqs \in Seq(S)
  BY <1>0 DEF TypeOK
<1> HIDE DEF S
<1>2. n \in Nat /\ n >= 1 /\ m \in Nat /\ m <= n
  OBVIOUS
<1>3. /\ sendQueue' = sendQueue \o reqs
      /\ sendRing' = sendRing \cup {reqs[i].id : i \in 1 .. m}
  BY DEF Post
<1>4. /\ sendQueue' \in Seq(S) /\ Len(sendQueue') = Len(sendQueue) + m
      /\ \A k \in 1 .. Len(sendQueue') :
           sendQueue'[k] = IF k <= Len(sendQueue) THEN sendQueue[k] ELSE reqs[k - Len(sendQueue)]
  <2>1. LET d == sendQueue \o reqs
        IN  /\ d \in Seq(S) /\ Len(d) = Len(sendQueue) + Len(reqs)
            /\ \A k \in 1 .. Len(d) :
                 d[k] = IF k <= Len(sendQueue) THEN sendQueue[k] ELSE reqs[k - Len(sendQueue)]
    BY <1>1, ConcatFacts
  <2> QED  BY <2>1, <1>3
\* a request of the new queue is an old one or a posted one
<1>5. ASSUME NEW k \in 1 .. Len(sendQueue')
      PROVE  \/ k \in 1 .. Len(sendQueue) /\ sendQueue'[k] = sendQueue[k]
             \/ \E i \in 1 .. m : k = Len(sendQueue) + i /\ sendQueue'[k] = reqs[i]
  <2>1. CASE k <= Len(sendQueue)
    <3>1. k \in 1 .. Len(sendQueue)
      BY <2>1, <1>0, <1>4
    <3> QED  BY <3>1, <2>1, <1>4
  <2>2. CASE ~(k <= Len(sendQueue))
    <3>1. k - Len(sendQueue) \in 1 .. m /\ k = Len(sendQueue) + (k - Len(sendQueue))
      BY <2>2, <1>0, <1>2, <1>4
    <3>2. sendQueue'[k] = reqs[k - Len(sendQueue)]
      BY <2>2, <1>4
    <3> QED  BY <3>1, <3>2
  <2> QED  BY <2>1, <2>2
<1>6. \A i \in 1 .. m : /\ reqs[i].id \in Nat /\ nextSend <= reqs[i].id /\ reqs[i].id < nextSend + n
                        /\ reqs[i].id <= nextSend + m - 1 /\ reqs[i].id = nextSend + i - 1
  BY <1>0, <1>2
<1>7. nextSend + n \in Ids /\ \A i \in 1 .. m : reqs[i].id \in Ids
  <2>1. nextSend >= 1
    BY <1>0, IdFacts DEF TypeOK
  <2>2. ASSUME NEW x \in Nat, nextSend <= x, x <= nextSend + n PROVE x \in Ids
    <3>1. FirstSend \in Nat /\ MaxReceives \in Nat /\ MaxSends \in Nat
      BY IdFacts
    <3>2. 1 <= x /\ x <= FirstSend + MaxReceives + MaxSends
      BY <3>1, <2>1, <2>2, <1>0, <1>2
    <3> QED  BY <3>2, IdFacts
  <2>3. \A i \in 1 .. m : reqs[i].id <= nextSend + n
    BY <1>0, <1>2, <1>6
  <2> QED  BY <2>2, <2>3, <1>0, <1>2, <1>6
<1>8. \A i \in sendRing' : i \in sendRing \/ i \in nextSend .. (nextSend + m - 1)
  <2> SUFFICES ASSUME NEW i \in 1 .. m PROVE reqs[i].id \in nextSend .. (nextSend + m - 1)
    BY <1>3
  <2>1. nextSend \in Int /\ nextSend + m - 1 \in Int /\ reqs[i].id \in Int
    BY <1>0, <1>2, <1>6
  <2> QED  BY <2>1, <1>6
<1>9. IsFiniteSet(sendRing') /\ Cardinality(sendRing') <= QpDepth
  <2> DEFINE I == nextSend .. (nextSend + m - 1)
  <2>1. nextSend \in Int /\ nextSend + m - 1 \in Int
    BY <1>0, <1>2
  <2>2. IsFiniteSet(I) /\ Cardinality(I) = IF nextSend > nextSend + m - 1 THEN 0 ELSE (nextSend + m - 1) - nextSend + 1
    BY <2>1, FS_Interval
  <2>3. Cardinality(I) = m
    BY <2>2, <1>0, <1>2
  <2>4. sendRing \cap I = {}
    BY <1>0 DEF SendInv
  <2> HIDE DEF I
  <2>5. IsFiniteSet(sendRing) /\ Cardinality(sendRing) <= QpDepth /\ Cardinality(sendRing) \in Nat
    BY <1>0, FS_CardinalityType DEF SendInv
  <2>6. /\ IsFiniteSet(sendRing \cup I)
        /\ Cardinality(sendRing \cup I)
             = Cardinality(sendRing) + Cardinality(I) - Cardinality(sendRing \cap I)
    BY <2>2, <2>5, FS_Union
  <2>7. Cardinality(sendRing \cap I) = 0
    BY <2>4, FS_EmptySet
  <2>8. sendRing' \subseteq sendRing \cup I
    BY <1>8 DEF I
  <2>9. IsFiniteSet(sendRing') /\ Cardinality(sendRing') <= Cardinality(sendRing \cup I)
    BY <2>6, <2>8, FS_Subset
  <2>10. Cardinality(sendRing') \in Nat
    BY <2>9, FS_CardinalityType
  <2>11. m <= QpDepth - Cardinality(sendRing)
    BY DEF Room
  <2> QED  BY <2>3, <2>5, <2>6, <2>7, <2>9, <2>10, <2>11, <1>2, IdFacts
<1>10. nextSend <= nextSend' /\ nextSend' \in Nat /\ nextSend' = nextSend + n
  BY <1>0, <1>2
<1>11. SendInv'
  <2>1. FirstSend <= nextSend' /\ nextSend' <= FirstSend + MaxSends
    BY <1>0, <1>2, IdFacts DEF SendInv
  <2>2. ASSUME NEW k \in 1 .. Len(sendQueue')
        PROVE  sendQueue'[k].id \in sendRing' /\ sendQueue'[k].op # "RECV"
    <3>1. CASE k \in 1 .. Len(sendQueue) /\ sendQueue'[k] = sendQueue[k]
      BY <3>1, <1>0, <1>3 DEF SendInv
    <3>2. CASE \E i \in 1 .. m : sendQueue'[k] = reqs[i]
      BY <3>2, <1>3
    <3> QED  BY <3>1, <3>2, <1>5
  <2>3. ASSUME NEW j \in 1 .. Len(sendQueue'), NEW k \in 1 .. Len(sendQueue'), j < k
        PROVE  sendQueue'[j].id < sendQueue'[k].id
    <3>1. CASE k \in 1 .. Len(sendQueue) /\ sendQueue'[k] = sendQueue[k]
      <4>1. j \in 1 .. Len(sendQueue)
        BY <3>1, <2>3, <1>0
      <4>2. sendQueue'[j] = sendQueue[j]
        BY <4>1, <1>0, <1>4
      <4>3. sendQueue[j].id < sendQueue[k].id
        BY <4>1, <3>1, <2>3, <1>0 DEF SendInv
      <4> QED  BY <4>2, <4>3, <3>1
    <3>2. ASSUME NEW i \in 1 .. m, k = Len(sendQueue) + i, sendQueue'[k] = reqs[i]
          PROVE  sendQueue'[j].id < sendQueue'[k].id
      <4>1. CASE j \in 1 .. Len(sendQueue) /\ sendQueue'[j] = sendQueue[j]
        <5>1. sendQueue[j].id < nextSend /\ sendQueue[j].id \in Nat
          BY <4>1, <1>0 DEF SendInv
        <5> QED  BY <5>1, <4>1, <3>2, <1>0, <1>6, SMTT(30)
      <4>2. ASSUME NEW h \in 1 .. m, j = Len(sendQueue) + h, sendQueue'[j] = reqs[h]
            PROVE  sendQueue'[j].id < sendQueue'[k].id
        <5>1. h < i
          BY <4>2, <3>2, <2>3, <1>0, <1>2
        <5> QED  BY <5>1, <4>2, <3>2, <1>0, <1>2, <1>6
      <4> QED  BY <4>1, <4>2, <1>5
    <3> QED  BY <3>1, <3>2, <1>5
  <2>4. \A i \in sendRing' : i < nextSend'
    <3> TAKE i \in sendRing'
    <3>1. CASE i \in sendRing
      BY <3>1, <1>0, <1>10 DEF SendInv
    <3>2. CASE i \in nextSend .. (nextSend + m - 1)
      BY <3>2, <1>0, <1>2
    <3> QED  BY <3>1, <3>2, <1>8
  <2> QED  BY <2>1, <2>2, <2>3, <2>4, <1>9 DEF SendInv
<1>12. ASSUME NEW t \in Requests, Passed(t) PROVE Passed(t)'
  <2>1. CASE t.op = "RECV"
    BY <2>1, <1>12 DEF Passed
  <2>2. CASE t.op # "RECV"
    <3>1. t.id < nextSend /\ \A k \in 1 .. Len(sendQueue) : t.id < sendQueue[k].id
      BY <2>2, <1>12 DEF Passed
    <3>2. ASSUME NEW k \in 1 .. Len(sendQueue') PROVE t.id < sendQueue'[k].id
      <4>1. CASE k \in 1 .. Len(sendQueue) /\ sendQueue'[k] = sendQueue[k]
        BY <4>1, <3>1
      <4>2. CASE \E i \in 1 .. m : sendQueue'[k] = reqs[i]
        BY <4>2, <3>1, <1>0, <1>6
      <4> QED  BY <4>1, <4>2, <1>5
    <3>3. t.id < nextSend'
      BY <3>1, <1>0, <1>10
    <3> QED  BY <3>2, <3>3, <2>2 DEF Passed
  <2> QED  BY <2>1, <2>2
\* the id the caller may get is a new one, of the last request of the batch
<1>13. PICK q \in Requests : q = Request(op, nextSend + n - 1) /\ q.op = op /\ q.id = nextSend + n - 1
  <2>1. nextSend + n - 1 \in Ids
    <3>1. nextSend + n - 1 \in Nat /\ nextSend >= 1 /\ nextSend + n - 1 <= nextSend + n
      BY <1>0, <1>2, IdFacts DEF TypeOK
    <3> QED  BY <3>1, <1>0, <1>2, <1>7, IdFacts
  <2> QED  BY <2>1, RequestFacts
<1>14. DueInv'
  <2> SUFFICES ASSUME NEW r \in due'
               PROVE  /\ r.op # "RECV" /\ r.id < nextSend'
                      /\ \A k \in 1 .. Len(sendQueue') : sendQueue'[k].id = r.id => sendQueue'[k].signaled
    BY DEF DueInv
  <2>1. CASE r \in due
    <3>1. /\ r.op # "RECV" /\ r.id < nextSend /\ r.id \in Nat
          /\ \A k \in 1 .. Len(sendQueue) : sendQueue[k].id = r.id => sendQueue[k].signaled
      BY <2>1, <1>0 DEF DueInv
    <3>2. r.id < nextSend'
      BY <3>1, <1>0, <1>10
    <3>3. ASSUME NEW k \in 1 .. Len(sendQueue'), sendQueue'[k].id = r.id PROVE sendQueue'[k].signaled
      <4>1. ASSUME NEW i \in 1 .. m, sendQueue'[k] = reqs[i] PROVE FALSE
        BY <4>1, <3>1, <3>3, <1>0, <1>6
      <4> QED  BY <4>1, <3>1, <3>3, <1>5
    <3> QED  BY <3>1, <3>2, <3>3
  <2>2. CASE r = q /\ m = n
    <3>1. r.op # "RECV" /\ r.id < nextSend'
      BY <2>2, <1>0, <1>2, <1>10, <1>13
    <3>2. ASSUME NEW k \in 1 .. Len(sendQueue'), sendQueue'[k].id = r.id PROVE sendQueue'[k].signaled
      <4>1. ASSUME k \in 1 .. Len(sendQueue), sendQueue'[k] = sendQueue[k] PROVE FALSE
        <5>1. sendQueue[k].id < nextSend /\ sendQueue[k].id \in Nat
          BY <4>1, <1>0 DEF SendInv
        <5> QED  BY <5>1, <4>1, <3>2, <2>2, <1>0, <1>2, <1>13
      <4>2. ASSUME NEW i \in 1 .. m, sendQueue'[k] = reqs[i] PROVE sendQueue'[k].signaled
        <5>1. i = n
          BY <4>2, <3>2, <2>2, <1>0, <1>2, <1>6, <1>13
        <5> QED  BY <5>1, <4>2
      <4> QED  BY <4>1, <4>2, <1>5
    <3> QED  BY <3>1, <3>2
  <2> QED  BY <2>1, <2>2, <1>13
<1>15. TypeOK'
  <2>1. due' \subseteq Requests
    BY <1>0, <1>13 DEF TypeOK
  <2>2. sendRing' \subseteq Ids
    BY <1>0, <1>3, <1>7 DEF TypeOK
  <2>3. sendQueue' \in Seq([op : Ops, id : Ids, signaled : BOOLEAN])
    BY <1>4 DEF S
  <2> QED  BY <2>1, <2>2, <2>3, <1>0, <1>7 DEF TypeOK
<1>16. RecvInv' /\ WaitInv'
  BY <1>0, RequestFacts DEF RecvInv, WaitInv
<1>17. Found' = Found /\ \A k : At(k)' = At(k)
  BY DEF Found, At
<1>18. OrderInv'
  BY <1>0, <1>17 DEF OrderInv, SameDirection
<1>19. CompletionInv'
  <2>1. ASSUME NEW k \in 1 .. Found PROVE Passed(At(k).of)'
    <3>1. PICK t \in Requests : t = At(k).of
      BY <1>0
    <3>2. Passed(t)'
      BY <3>1, <1>0, <1>12 DEF CompletionInv
    <3> QED  BY <3>1, <3>2, <1>17 DEF Passed
  <2>2. sendRing \subseteq sendRing'
    BY <1>3
  <2> SUFFICES ASSUME NEW k \in 1 .. Found
               PROVE  /\ Passed(At(k).of)'
                      /\ At(k).op = "RECV" => At(k).of.op = "RECV"
                      /\ At(k).of.op = "RECV" => nextReceive - Len(pending) <= At(k).of.id
                      /\ At(k).ok => At(k).op = At(k).of.op /\ At(k).of \in executed
                      /\ ~broken => At(k).ok
                      /\ k > Len(stash) /\ At(k).of.op # "RECV" => At(k).of.id \in sendRing'
    BY <1>17 DEF CompletionInv
  <2> QED  BY <2>1, <2>2, <1>0 DEF CompletionInv
<1>20. DoneInv'
  BY <1>0, <1>12, StateFacts DEF DoneInv
<1>21. FoundInv'
  <2> SUFFICES ASSUME ~broken, NEW r \in Held', r \in executed
               PROVE  \E k \in 1 .. Found : At(k).of = r
    BY <1>17 DEF FoundInv
  <2>1. r # q
    <3> SUFFICES ASSUME r = q PROVE FALSE
      OBVIOUS
    <3>1. q.id < nextSend
      BY <1>0, <1>13 DEF DoneInv, Passed
    <3> QED  BY <3>1, <1>0, <1>2, <1>13
  <2>2. r \in Held
    BY <2>1, <1>13 DEF Held
  <2> QED  BY <2>2, <1>0 DEF FoundInv
<1> QED  BY <1>11, <1>14, <1>15, <1>16, <1>18, <1>19, <1>20, <1>21 DEF IInv

\* The requests of a batch: the ids in turn, the last one signaled.
LEMMA BatchFacts ==
  ASSUME IInv, NEW op \in Ops, NEW n \in Nat \ {0}, nextSend + n <= FirstSend + MaxSends
  PROVE  /\ Batch(op, n) \in Seq([op : Ops, id : Ids, signaled : BOOLEAN]) /\ Len(Batch(op, n)) = n
         /\ \A i \in 1 .. n : /\ Batch(op, n)[i].op = op /\ Batch(op, n)[i].id = nextSend + i - 1
                              /\ i = n => Batch(op, n)[i].signaled
<1> DEFINE S == [op : Ops, id : Ids, signaled : BOOLEAN]
           b == Batch(op, n)
<1>0. nextSend \in Nat /\ nextSend >= 1 /\ n \in Nat /\ n >= 1
  BY StateFacts, IdFacts DEF IInv, TypeOK
<1>1. b = [i \in 1 .. n |-> [op |-> op, id |-> nextSend + i - 1, signaled |-> i = n]]
  BY DEF Batch
<1>2. ASSUME NEW i \in 1 .. n
      PROVE  /\ b[i].op = op /\ b[i].id = nextSend + i - 1 /\ (i = n => b[i].signaled)
             /\ b[i] \in S
  <2>1. b[i] = [op |-> op, id |-> nextSend + i - 1, signaled |-> i = n]
    BY <1>1
  <2>2. nextSend + i - 1 \in Ids
    <3>1. FirstSend \in Nat /\ MaxReceives \in Nat /\ MaxSends \in Nat
      BY IdFacts
    <3>2. /\ nextSend + i - 1 \in Nat /\ 1 <= nextSend + i - 1
          /\ nextSend + i - 1 <= FirstSend + MaxReceives + MaxSends
      BY <3>1, <1>0
    <3> QED  BY <3>2, IdFacts
  <2> HIDE DEF b
  <2>3. PICK v \in BOOLEAN : b[i] = [op |-> op, id |-> nextSend + i - 1, signaled |-> v] /\ (i = n => v)
    BY <2>1
  <2> QED  BY <2>2, <2>3
<1>3. b \in [1 .. n -> S]
  BY <1>1, <1>2
<1> HIDE DEF S, b
<1>4. b \in Seq(S)
  BY <1>0, <1>3, SeqDef
<1>5. Len(b) = n
  BY <1>0, <1>3, <1>4
<1> QED  BY <1>2, <1>4, <1>5 DEF b, S

\* The ring never has more entries than the queue pair is deep.
LEMMA RoomFacts ==
  ASSUME IInv PROVE Room \in Nat
<1>1. IsFiniteSet(sendRing) /\ Cardinality(sendRing) <= QpDepth /\ Cardinality(sendRing) \in Nat
  BY FS_CardinalityType DEF IInv, SendInv
<1> QED  BY <1>1, IdFacts DEF Room

\* post_transfer_batch, whether the batch fits or only a prefix is posted.
LEMMA PostTransferBatchIInv ==
  ASSUME IInv, PostTransferBatch PROVE IInv'
<1>1. PICK op \in Transfers, n \in 1 .. MaxBatch :
        /\ nextSend + n <= FirstSend + MaxSends
        /\ nextSend' = nextSend + n
        /\ IF n <= Room THEN PostBatch(op, n)
           ELSE Post(SubSeq(Batch(op, n), 1, Room)) /\ UNCHANGED due
  BY DEF PostTransferBatch
<1>2. /\ awaited = NoWait /\ result' = "none"
      /\ UNCHANGED <<nextReceive, pending, stash, awaited, recvQueue, cq, executed, broken>>
  BY DEF PostTransferBatch
<1>3. op \in Ops /\ op # "RECV" /\ n \in Nat \ {0} /\ n \in Nat /\ Room \in Nat
  BY RoomFacts, IdFacts DEF Ops, Transfers
<1>4. /\ Batch(op, n) \in Seq([op : Ops, id : Ids, signaled : BOOLEAN]) /\ Len(Batch(op, n)) = n
      /\ \A i \in 1 .. n : /\ Batch(op, n)[i].op = op /\ Batch(op, n)[i].id = nextSend + i - 1
                           /\ i = n => Batch(op, n)[i].signaled
  BY <1>1, <1>3, BatchFacts
<1>5. CASE n <= Room
  <2>1. Post(Batch(op, n)) /\ due' = due \cup {Request(op, nextSend + n - 1)}
    BY <1>1, <1>5 DEF PostBatch
  <2>2. PICK reqs \in Seq([op : Ops, id : Ids, signaled : BOOLEAN]) : reqs = Batch(op, n)
    BY <1>4
  <2>3. /\ Len(reqs) = n /\ Post(reqs)
        /\ \A i \in 1 .. n : /\ reqs[i].op = op /\ reqs[i].id = nextSend + i - 1
                             /\ i = n => reqs[i].signaled
    BY <2>1, <2>2, <1>4
  <2>4. n \in 0 .. n
    BY <1>3
  <2> QED  BY <2>1, <2>3, <2>4, <1>1, <1>2, <1>3, <1>5, PostIInv, ZenonT(40)
<1>6. CASE ~(n <= Room)
  <2> DEFINE S == [op : Ops, id : Ids, signaled : BOOLEAN]
  <2> HIDE DEF S
  <2>1. Post(SubSeq(Batch(op, n), 1, Room)) /\ due' = due
    BY <1>1, <1>6
  <2>2. PICK m \in 0 .. n : m = Room /\ m <= Room /\ m # n /\ m \in Nat
    BY <1>3, <1>6
  <2>3. 1 \in 1 .. (Len(Batch(op, n)) + 1) /\ m \in (1 - 1) .. Len(Batch(op, n))
    BY <2>2, <1>3, <1>4
  <2>4. Batch(op, n) \in Seq(S)
    BY <1>4 DEF S
  <2>5. LET d == SubSeq(Batch(op, n), 1, m)
        IN  /\ d \in Seq(S) /\ Len(d) = m - 1 + 1
            /\ \A k \in 1 .. Len(d) : d[k] = Batch(op, n)[1 + k - 1]
    BY <2>3, <2>4, PartFacts
  <2>6. PICK reqs \in Seq(S) : /\ reqs = SubSeq(Batch(op, n), 1, m) /\ Len(reqs) = m
                               /\ \A k \in 1 .. m : reqs[k] = Batch(op, n)[k]
    <3>1. m - 1 + 1 = m /\ \A k \in 1 .. m : 1 + k - 1 = k
      BY <2>2
    <3> QED  BY <3>1, <2>5
  <2>7. \A i \in 1 .. m : i \in 1 .. n /\ i # n
    BY <2>2, <1>3
  <2>8. \A i \in 1 .. m : /\ reqs[i].op = op /\ reqs[i].id = nextSend + i - 1
                          /\ i = n => reqs[i].signaled
    BY <2>6, <2>7, <1>4
  <2>9. Post(reqs)
    BY <2>1, <2>2, <2>6
  <2>10. reqs \in Seq([op : Ops, id : Ids, signaled : BOOLEAN])
    BY <2>6 DEF S
  <2>11. awaited' = NoWait /\ UNCHANGED <<nextReceive, pending, stash, recvQueue, cq, executed, broken>>
    BY <1>2
  <2>12. Len(reqs) = m /\ m <= Room /\ nextSend + n <= FirstSend + MaxSends /\ nextSend' = nextSend + n
    BY <2>2, <2>6, <1>1
  <2> QED  BY <2>1, <2>8, <2>9, <2>10, <2>11, <2>12, <1>2, <1>3, PostIInv
<1> QED  BY <1>5, <1>6

\* post_send: a batch of one.
LEMMA PostSendIInv ==
  ASSUME IInv, PostSend PROVE IInv'
<1>1. /\ awaited = NoWait /\ nextSend < FirstSend + MaxSends /\ Room > 0
      /\ nextSend' = nextSend + 1 /\ Post(Batch("SEND", 1))
      /\ due' = due \cup {Request("SEND", nextSend)} /\ result' = "none"
      /\ UNCHANGED <<nextReceive, pending, stash, awaited, recvQueue, cq, executed, broken>>
  BY DEF PostSend
<1>2. /\ "SEND" \in Ops /\ "SEND" # "RECV" /\ Room \in Nat /\ nextSend \in Nat
      /\ FirstSend \in Nat /\ MaxSends \in Nat
  BY RoomFacts, IdFacts, RequestFacts, StateFacts
<1>3. PICK n \in Nat \ {0} : n = 1
  OBVIOUS
<1>4. nextSend + n <= FirstSend + MaxSends /\ n <= Room /\ n \in 0 .. n /\ nextSend + n - 1 = nextSend
  BY <1>1, <1>2, <1>3
<1>5. /\ Batch("SEND", n) \in Seq([op : Ops, id : Ids, signaled : BOOLEAN]) /\ Len(Batch("SEND", n)) = n
      /\ \A i \in 1 .. n : /\ Batch("SEND", n)[i].op = "SEND" /\ Batch("SEND", n)[i].id = nextSend + i - 1
                           /\ i = n => Batch("SEND", n)[i].signaled
  BY <1>2, <1>4, BatchFacts
<1>6. PICK reqs \in Seq([op : Ops, id : Ids, signaled : BOOLEAN]) : reqs = Batch("SEND", n)
  BY <1>5
<1>7. /\ Len(reqs) = n /\ Post(reqs)
      /\ \A i \in 1 .. n : /\ reqs[i].op = "SEND" /\ reqs[i].id = nextSend + i - 1
                           /\ i = n => reqs[i].signaled
  BY <1>1, <1>3, <1>5, <1>6
<1>8. nextSend' = nextSend + n /\ due' = due \cup {Request("SEND", nextSend + n - 1)}
  BY <1>1, <1>3, <1>4
<1>9. awaited' = NoWait /\ UNCHANGED <<nextReceive, pending, stash, recvQueue, cq, executed, broken>>
  BY <1>1
<1>10. PICK op \in Ops : op = "SEND" /\ op # "RECV"
  BY <1>2
<1>11. /\ \A i \in 1 .. n : /\ reqs[i].op = op /\ reqs[i].id = nextSend + i - 1
                            /\ i = n => reqs[i].signaled
       /\ due' = due \cup {Request(op, nextSend + n - 1)}
  BY <1>7, <1>8, <1>10
<1>12. n \in 0 .. n /\ n <= Room /\ nextSend + n <= FirstSend + MaxSends /\ Len(reqs) = n
  BY <1>4, <1>7
<1>13. result' = "none" /\ nextSend' = nextSend + n /\ Post(reqs)
  BY <1>1, <1>7, <1>8
<1> QED  BY <1>9, <1>10, <1>11, <1>12, <1>13, PostIInv, ZenonT(40)

\* A new queue pair.
LEMMA InitIInv ==
  ASSUME Init PROVE IInv
<1>1. /\ nextReceive = 1 /\ nextSend = FirstSend /\ pending = <<>> /\ stash = <<>>
      /\ awaited = NoWait /\ result = "none" /\ due = {} /\ recvQueue = <<>>
      /\ sendQueue = <<>> /\ sendRing = {} /\ cq = <<>> /\ executed = {} /\ broken = FALSE
  BY DEF Init, FirstReceive
<1>2. Len(pending) = 0 /\ Len(recvQueue) = 0 /\ Len(sendQueue) = 0 /\ Len(stash) = 0 /\ Len(cq) = 0
  BY <1>1
<1>3. nextReceive \in Ids /\ nextSend \in Ids
  <2>1. /\ FirstSend \in Nat /\ FirstSend > 0 /\ MaxReceives \in Nat /\ MaxSends \in Nat
    BY IdFacts
  <2>2. /\ 1 \in Nat /\ 1 <= 1 /\ 1 <= FirstSend + MaxReceives + MaxSends
        /\ 1 <= FirstSend /\ FirstSend <= FirstSend + MaxReceives + MaxSends
    BY <2>1
  <2> QED  BY <2>1, <2>2, <1>1, IdFacts
<1>4. TypeOK
  <2>1. \A S : <<>> \in Seq(S)
    OBVIOUS
  <2>2. /\ pending \in Seq(Ids) /\ stash \in Seq(Completions) /\ recvQueue \in Seq(Ids)
        /\ sendQueue \in Seq([op : Ops, id : Ids, signaled : BOOLEAN]) /\ cq \in Seq(Completions)
    BY <2>1, <1>1, Zenon
  <2>3. Len(pending) <= QpDepth
    BY <1>2, IdFacts
  <2>4. /\ due \subseteq Requests /\ sendRing \subseteq Ids /\ executed \subseteq Requests
        /\ awaited \in Requests \cup {NoWait} /\ result \in {"none", "ok", "failed", "timeout"}
        /\ broken \in BOOLEAN
    BY <1>1
  <2> QED  BY <2>2, <2>3, <2>4, <1>3 DEF TypeOK
<1>5. RecvInv
  BY <1>1, <1>2, IdFacts DEF RecvInv
<1>6. SendInv
  <2>1. IsFiniteSet({}) /\ Cardinality({}) = 0
    BY FS_EmptySet
  <2> QED  BY <2>1, <1>1, <1>2, IdFacts DEF SendInv
<1>7. DueInv /\ DoneInv
  BY <1>1 DEF DueInv, DoneInv
<1>8. Found = 0
  BY <1>2 DEF Found
<1>9. CompletionInv /\ OrderInv
  BY <1>8 DEF CompletionInv, OrderInv
<1>10. FoundInv /\ WaitInv
  BY <1>1, RequestFacts DEF FoundInv, WaitInv
<1> QED  BY <1>4, <1>5, <1>6, <1>7, <1>9, <1>10 DEF IInv

\* Every step keeps the invariant, and a wait that succeeds was for a request
\* that has executed.
LEMMA NextIInv ==
  ASSUME IInv, [Next]_vars
  PROVE  IInv' /\ \A r \in Held \ Held' : result' = "ok" => r \in executed
<1>1. CASE PostReceive
  BY <1>1, PostReceiveIInv DEF PostReceive
<1>2. CASE PostTransferBatch
  BY <1>2, PostTransferBatchIInv DEF PostTransferBatch
<1>3. CASE PostSend
  BY <1>3, PostSendIInv DEF PostSend
<1>4. CASE BeginWait
  BY <1>4, BeginWaitIInv
<1>5. CASE PollMatching
  BY <1>5, PollMatchingIInv
<1>6. CASE WaitExpires
  BY <1>6, WaitExpiresIInv DEF WaitExpires
<1>7. CASE ReceiveCompletes
  BY <1>7, ReceiveCompletesIInv
<1>8. CASE SendExecutes
  BY <1>8, SendExecutesIInv
<1>9. CASE SendFails
  BY <1>9, SendFailsIInv
<1>10. CASE UNCHANGED vars
  <2>1. Held' = Held
    BY <1>10 DEF Held, vars
  <2>2. WaitInv' /\ due' = due /\ awaited' \in Requests \cup {NoWait}
        /\ result' \in {"none", "ok", "failed", "timeout"}
    BY <1>10 DEF IInv, TypeOK, WaitInv, vars
  <2>3. UNCHANGED <<nextReceive, nextSend, pending, stash, adapterVars>>
    BY <1>10 DEF vars, adapterVars
  <2>4. IInv'
    BY <2>2, <2>3, WaitChange
  <2> QED  BY <2>1, <2>4
<1> QED  BY <1>1, <1>2, <1>3, <1>4, <1>5, <1>6, <1>7, <1>8, <1>9, <1>10 DEF Next

-----------------------------------------------------------------------------
(* What the invariant says. *)

\* The completions not polled yet are of receives the caller still holds and of
\* sends that occupy the ring, each of another one.
LEMMA QueueLengths ==
  ASSUME IInv PROVE QueuesBounded
<1> DEFINE R == {k \in 1 .. Len(cq) : cq[k].of.op = "RECV"}
           S == {k \in 1 .. Len(cq) : cq[k].of.op # "RECV"}
           I == (nextReceive - Len(pending)) .. (nextReceive - 1)
<1>0. /\ TypeOK /\ RecvInv /\ SendInv /\ CompletionInv /\ OrderInv /\ QpDepth \in Nat
      /\ nextReceive \in Nat /\ Len(pending) \in Nat /\ Len(recvQueue) \in Nat
      /\ Len(pending) <= QpDepth /\ Len(stash) \in Nat /\ Len(cq) \in Nat /\ Found \in Nat
      /\ \A k \in 1 .. Found : At(k).of.id \in Nat
  BY StateFacts, ListType, IdFacts DEF IInv
<1>1. IsFiniteSet(sendRing) /\ Cardinality(sendRing) <= QpDepth /\ Cardinality(sendRing) \in Nat
  BY <1>0, FS_CardinalityType DEF SendInv
<1>2. Len(recvQueue) <= QpDepth
  BY <1>0 DEF RecvInv
<1>3. ASSUME NEW k \in 1 .. Len(cq)
      PROVE  Len(stash) + k \in 1 .. Found /\ At(Len(stash) + k) = cq[k] /\ Len(stash) + k > Len(stash)
  <2>1. Len(stash) + k \in 1 .. Found /\ ~(Len(stash) + k <= Len(stash)) /\ (Len(stash) + k) - Len(stash) = k
    BY <1>0 DEF Found
  <2> QED  BY <2>1, <1>0 DEF At
<1>4. ASSUME NEW j \in 1 .. Len(cq), NEW k \in 1 .. Len(cq), j # k, SameDirection(cq[j].of, cq[k].of)
      PROVE  cq[j].of.id # cq[k].of.id
  <2>1. PICK a \in 1 .. Found : a = Len(stash) + j /\ At(a) = cq[j]
    BY <1>3
  <2>2. PICK b \in 1 .. Found : b = Len(stash) + k /\ At(b) = cq[k]
    BY <1>3
  <2>3. a < b \/ b < a
    BY <2>1, <2>2, <1>0, <1>4
  <2>4. /\ SameDirection(At(a).of, At(b).of) /\ SameDirection(At(b).of, At(a).of)
        /\ At(a).of.id \in Nat /\ At(b).of.id \in Nat
    BY <2>1, <2>2, <1>0, <1>4 DEF SameDirection
  <2>5. At(a).of.id < At(b).of.id \/ At(b).of.id < At(a).of.id
    BY <2>3, <2>4, <1>0 DEF OrderInv
  <2> QED  BY <2>1, <2>2, <2>4, <2>5, SMTT(30)
<1>5. IsFiniteSet(R) /\ IsFiniteSet(S) /\ Cardinality(R) \in Nat /\ Cardinality(S) \in Nat
      /\ Cardinality(R) + Cardinality(S) = Len(cq)
  <2>1. IsFiniteSet(1 .. Len(cq)) /\ Cardinality(1 .. Len(cq)) = Len(cq)
    <3>1. PICK n \in Nat : n = Len(cq)
      BY <1>0
    <3>2. 1 \in Int /\ n \in Int
      OBVIOUS
    <3>3. IsFiniteSet(1 .. n) /\ Cardinality(1 .. n) = IF 1 > n THEN 0 ELSE n - 1 + 1
      BY <3>2, FS_Interval
    <3>4. IsFiniteSet(1 .. n) /\ Cardinality(1 .. n) = n
      BY <3>3
    <3> QED  BY <3>1, <3>4
  <2>2. R \subseteq 1 .. Len(cq) /\ S \subseteq 1 .. Len(cq) /\ R \cap S = {} /\ R \cup S = 1 .. Len(cq)
    OBVIOUS
  <2> HIDE DEF R, S
  <2>3. IsFiniteSet(R) /\ IsFiniteSet(S)
    BY <2>1, <2>2, FS_Subset
  <2>4. Cardinality(R) \in Nat /\ Cardinality(S) \in Nat
    BY <2>3, FS_CardinalityType
  <2>5. Cardinality(R \cup S) = Cardinality(R) + Cardinality(S) - Cardinality(R \cap S)
    BY <2>3, FS_Union
  <2>6. Cardinality(R \cap S) = 0
    BY <2>2, FS_EmptySet
  <2>7. Cardinality(R \cup S) = Len(cq)
    BY <2>1, <2>2
  <2> QED  BY <2>3, <2>4, <2>5, <2>6, <2>7
<1>6. Cardinality(R) <= QpDepth
  <2> DEFINE f == [k \in R |-> cq[k].of.id]
  <2>1. ASSUME NEW k \in R PROVE cq[k].of.id \in I
    <3>1. PICK a \in 1 .. Found : At(a) = cq[k]
      BY <1>3
    <3>2. /\ At(a).of.op = "RECV" /\ Passed(At(a).of) /\ At(a).of.id \in Nat
          /\ nextReceive - Len(pending) <= At(a).of.id
      BY <3>1, <1>0 DEF CompletionInv
    <3>3. At(a).of.id < nextReceive - Len(recvQueue)
      BY <3>2 DEF Passed
    <3>4. At(a).of.id \in I
      BY <3>2, <3>3, <1>0, SMTT(30)
    <3> QED  BY <3>1, <3>4
  <2>2. \A j, k \in R : f[j] = f[k] => j = k
    BY <1>4 DEF SameDirection
  <2>3. f \in [R -> I]
    BY <2>1
  <2>4. f \in Injection(R, I)
    BY <2>2, <2>3 DEF Injection, IsInjective
  <2>5. IsFiniteSet(I) /\ Cardinality(I) <= Len(pending)
    <3>1. nextReceive - Len(pending) \in Int /\ nextReceive - 1 \in Int
      BY <1>0
    <3>2. /\ IsFiniteSet(I)
          /\ Cardinality(I) = IF nextReceive - Len(pending) > nextReceive - 1 THEN 0
                              ELSE (nextReceive - 1) - (nextReceive - Len(pending)) + 1
      BY <3>1, FS_Interval
    <3> QED  BY <3>2, <1>0
  <2> HIDE DEF R, I, f
  <2>6. Cardinality(R) <= Cardinality(I) /\ Cardinality(I) \in Nat
    BY <2>4, <2>5, FS_Injection, FS_CardinalityType, SMTT(30)
  <2>7. Len(pending) \in Nat /\ Len(pending) <= QpDepth /\ QpDepth \in Nat /\ Cardinality(R) \in Nat
    BY <1>0, <1>5
  <2> QED  BY <2>5, <2>6, <2>7
<1>7. Cardinality(S) <= QpDepth
  <2> DEFINE f == [k \in S |-> cq[k].of.id]
  <2>1. ASSUME NEW k \in S PROVE cq[k].of.id \in sendRing
    <3>1. PICK a \in 1 .. Found : At(a) = cq[k] /\ a > Len(stash)
      BY <1>3
    <3> QED  BY <3>1, <1>0 DEF CompletionInv
  <2>2. \A j, k \in S : f[j] = f[k] => j = k
    BY <1>4 DEF SameDirection
  <2>3. f \in [S -> sendRing]
    BY <2>1
  <2>4. f \in Injection(S, sendRing)
    BY <2>2, <2>3 DEF Injection, IsInjective
  <2> HIDE DEF S, f
  <2>5. Cardinality(S) <= Cardinality(sendRing)
    BY <2>4, <1>1, FS_Injection
  <2>6. QpDepth \in Nat /\ Cardinality(S) \in Nat
    BY <1>0, <1>5
  <2> QED  BY <2>5, <2>6, <1>1
<1> HIDE DEF R, S
<1>8. Len(cq) <= 2 * QpDepth
  BY <1>0, <1>5, <1>6, <1>7
<1> QED  BY <1>1, <1>2, <1>8 DEF QueuesBounded

\* Unless a request has failed, a held request has one completion in the list
\* once it has executed and none before.
LEMMA OneCompletion ==
  ASSUME IInv PROVE CompletionNeverLost
<1> SUFFICES ASSUME ~broken, NEW r \in Held
             PROVE  Copies(r) = (IF r \in executed THEN 1 ELSE 0)
  BY DEF CompletionNeverLost
<1> DEFINE A == {k \in 1 .. Len(stash) : Matches(stash[k], r)}
           B == {k \in 1 .. Len(cq) : Matches(cq[k], r)}
<1>0. /\ TypeOK /\ CompletionInv /\ OrderInv /\ FoundInv /\ pending \in Seq(Ids)
      /\ Len(stash) \in Nat /\ Len(cq) \in Nat /\ Found \in Nat
      /\ \A k \in 1 .. Found : At(k).of \in Requests /\ At(k).of.id \in Nat
  BY StateFacts, ListType DEF IInv
<1>1. r \in Requests
  <2>1. CASE r \in due
    BY <2>1, StateFacts
  <2>2. ASSUME NEW k \in 1 .. Len(pending), r = Request("RECV", pending[k]) PROVE r \in Requests
    <3>1. pending[k] \in Ids
      BY <1>0
    <3> QED  BY <3>1, <2>2, RequestFacts
  <2> QED  BY <2>1, <2>2, HeldFacts
<1>2. ASSUME NEW k \in 1 .. Found PROVE Matches(At(k), r) <=> At(k).of = r
  <2>1. At(k).op = At(k).of.op /\ At(k).of \in Requests
    BY <1>0 DEF CompletionInv
  <2> QED  BY <2>1, <1>1, RequestFacts DEF Matches
<1>3. ASSUME NEW j \in 1 .. Found, NEW k \in 1 .. Found, At(j).of = r, At(k).of = r PROVE j = k
  <2> SUFFICES ASSUME j # k PROVE FALSE
    OBVIOUS
  <2>1. j < k \/ k < j
    BY <1>0
  <2>2. SameDirection(At(j).of, At(k).of) /\ SameDirection(At(k).of, At(j).of)
    BY <1>3 DEF SameDirection
  <2>3. At(j).of.id < At(k).of.id \/ At(k).of.id < At(j).of.id
    BY <2>1, <2>2, <1>0 DEF OrderInv
  <2>4. r.id < r.id /\ r.id \in Nat
    BY <2>3, <1>0, <1>3
  <2> QED  BY <2>4
<1>4. \A k : k \in A <=> k \in 1 .. Len(stash) /\ k \in 1 .. Found /\ At(k).of = r
  <2> SUFFICES ASSUME NEW k \in 1 .. Len(stash)
               PROVE  k \in 1 .. Found /\ (Matches(stash[k], r) <=> At(k).of = r)
    OBVIOUS
  <2>1. k \in 1 .. Found /\ k <= Len(stash)
    BY <1>0 DEF Found
  <2>2. At(k) = stash[k]
    BY <2>1 DEF At
  <2> QED  BY <2>1, <2>2, <1>2
<1>5. \A k : k \in B <=> /\ k \in 1 .. Len(cq) /\ Len(stash) + k \in 1 .. Found
                         /\ At(Len(stash) + k).of = r
  <2> SUFFICES ASSUME NEW k \in 1 .. Len(cq)
               PROVE  /\ Len(stash) + k \in 1 .. Found
                      /\ Matches(cq[k], r) <=> At(Len(stash) + k).of = r
    OBVIOUS
  <2>1. PICK a \in 1 .. Found : a = Len(stash) + k /\ ~(a <= Len(stash)) /\ a - Len(stash) = k
    BY <1>0 DEF Found
  <2>2. At(a) = cq[k]
    BY <2>1 DEF At
  <2> QED  BY <2>1, <2>2, <1>2
<1>6. Copies(r) = Cardinality(B) + Cardinality(A)
  BY DEF Copies
<1> HIDE DEF A, B
<1>7. CASE r \notin executed
  <2>1. \A k \in 1 .. Found : At(k).of # r
    BY <1>0, <1>7 DEF CompletionInv
  <2>2. A = {} /\ B = {}
    BY <2>1, <1>4, <1>5
  <2>3. Cardinality(A) = 0 /\ Cardinality(B) = 0
    BY <2>2, FS_EmptySet
  <2> QED  BY <2>3, <1>6, <1>7
<1>8. CASE r \in executed
  <2>1. PICK m \in 1 .. Found : At(m).of = r
    BY <1>0, <1>8 DEF FoundInv
  <2>2. \A k \in 1 .. Found : At(k).of = r <=> k = m
    BY <2>1, <1>3
  <2>3. CASE m <= Len(stash)
    <3>1. m \in 1 .. Len(stash)
      BY <2>3, <1>0
    <3>2. A = {m}
      BY <3>1, <2>1, <2>2, <1>4
    <3>3. \A k \in 1 .. Len(cq) : Len(stash) + k # m
      BY <2>3, <1>0
    <3>4. B = {}
      BY <3>3, <2>2, <1>5
    <3>5. Cardinality(A) = 1 /\ Cardinality(B) = 0
      BY <3>2, <3>4, FS_EmptySet, FS_Singleton
    <3> QED  BY <3>5, <1>6, <1>8
  <2>4. CASE m > Len(stash)
    <3>1. PICK i \in 1 .. Len(cq) : Len(stash) + i = m
      <4>1. m - Len(stash) \in 1 .. Len(cq) /\ Len(stash) + (m - Len(stash)) = m
        BY <2>4, <1>0 DEF Found
      <4> QED  BY <4>1
    <3>2. \A k \in 1 .. Len(cq) : Len(stash) + k = m <=> k = i
      <4>1. Len(stash) \in Nat /\ Len(cq) \in Nat
        BY <1>0
      <4> QED  BY <4>1, <3>1
    <3>3. B = {i}
      BY <3>1, <3>2, <2>1, <2>2, <1>5
    <3>4. \A k \in 1 .. Len(stash) : k # m
      BY <2>4, <1>0
    <3>5. A = {}
      BY <3>4, <2>2, <1>4
    <3>6. Cardinality(A) = 0 /\ Cardinality(B) = 1
      BY <3>3, <3>5, FS_EmptySet, FS_Singleton
    <3> QED  BY <3>6, <1>6, <1>8
  <2>5. m <= Len(stash) \/ m > Len(stash)
    BY <1>0
  <2> QED  BY <2>3, <2>4, <2>5
<1> QED  BY <1>7, <1>8

-----------------------------------------------------------------------------
(* The theorems. *)

\* The inductive invariant holds in every reachable state, for every depth and
\* every number of receives, sends and requests per batch.
THEOREM Invariance == Spec => []IInv
<1>1. Init => IInv
  BY InitIInv
<1>2. IInv /\ [Next]_vars => IInv'
  BY NextIInv
<1> QED  BY <1>1, <1>2, PTL DEF Spec

\* Every reachable state of a server queue pair has its type.
THEOREM TypeCorrect == Spec => []TypeOK
<1>1. IInv => TypeOK
  BY DEF IInv
<1> QED  BY <1>1, Invariance, PTL

\* The receive and send rings are never overrun, and the completion queue that
\* QueuePair creates twice as deep as a ring never overflows, also not when a
\* broken pair completes requests that were not signaled.
THEOREM Bounded == Spec => []QueuesBounded
<1>1. IInv => QueuesBounded
  BY QueueLengths
<1> QED  BY <1>1, Invariance, PTL

\* No completion is lost or handed out twice: not by poll_matching putting it
\* aside, nor by waits that expire, nor by batches of which a prefix is posted.
THEOREM NeverLost == Spec => []CompletionNeverLost
<1>1. IInv => CompletionNeverLost
  BY OneCompletion
<1> QED  BY <1>1, Invariance, PTL

\* A wait that succeeds has taken the completion of its own request, although
\* receives and sends share ids and a failed completion has any opcode.
THEOREM TakesOwn == Spec => WaitTakesOwn
<1>1. IInv /\ [Next]_vars => [\A r \in Held \ Held' : result' = "ok" => r \in executed]_vars
  BY NextIInv
<1>2. Spec => [][\A r \in Held \ Held' : result' = "ok" => r \in executed]_vars
  BY <1>1, Invariance, PTL DEF Spec
<1> QED  BY <1>2 DEF WaitTakesOwn

=============================================================================
