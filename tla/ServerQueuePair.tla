-------------------------- MODULE ServerQueuePair --------------------------
(***************************************************************************)
(* A queue pair of the CPU server (nds::server::QueuePair): receives with  *)
(* their credit, Sends and RDMA transfers in batches of which only the     *)
(* last request asks for a completion, one completion queue for both       *)
(* directions, and waits that name the completion they want.  A wait puts  *)
(* the completions it was not waiting for aside (pending_completions_),    *)
(* where a later wait finds them.  One thread uses a queue pair; the       *)
(* adapter runs concurrently.                                              *)
(*                                                                         *)
(* Work request ids are counted separately for receives (from 1) and for   *)
(* sends (from 4), so the same id may be in use in both directions.  Verbs *)
(* does not define the opcode of an unsuccessful completion: the provider  *)
(* may fill it in, or leave the zero the caller put there, which is the    *)
(* opcode of a Send.                                                       *)
(***************************************************************************)
EXTENDS Integers, Sequences, FiniteSets, FiniteSetsExt, SequencesExt

CONSTANTS
  QpDepth,     \* kQpDepth
  FirstSend,   \* the id the sends start from (4 in the code)
  MaxReceives, \* bound: receives posted in a behaviour
  MaxSends,    \* bound: send requests prepared in a behaviour
  MaxBatch     \* bound: requests of one transfer batch

ASSUME QueuePairAssumption ==
  /\ QpDepth \in Nat \ {0} /\ FirstSend \in Nat \ {0} /\ MaxReceives \in Nat /\ MaxSends \in Nat
  /\ MaxBatch \in Nat \ {0}

Transfers == {"READ", "WRITE"}
Ops == {"RECV", "SEND"} \cup Transfers

VARIABLES
  nextReceive, nextSend, \* next_receive_wr_id_, next_send_wr_id_
  pending,     \* pending_receive_ids_
  stash,       \* pending_completions_
  awaited,     \* the completion the current wait is for, NoWait between waits
  result,      \* how the wait that has just ended ended
  due,         \* signaled sends whose ids the caller still holds
  recvQueue,   \* receives the adapter has, oldest first
  sendQueue,   \* send requests the adapter has not executed, oldest first
  sendRing,    \* ids of the sends that occupy the send ring
  cq,          \* completions not polled yet, oldest first
  executed,    \* history: requests executed without error
  broken       \* a request has failed

callerVars == <<nextReceive, nextSend, pending, stash, awaited, result, due>>
adapterVars == <<recvQueue, sendQueue, sendRing, cq, executed, broken>>
vars == <<nextReceive, nextSend, pending, stash, awaited, result, due,
          recvQueue, sendQueue, sendRing, cq, executed, broken>>

Request(op, id) == [op |-> op, id |-> id]
NoWait == Request("none", 0)

\* a completion: the opcode the adapter reports, the request it is of, success
Completion(op, r, ok) == [op |-> op, of |-> r, ok |-> ok]

FirstReceive == 1
Ids == FirstReceive .. FirstSend + MaxReceives + MaxSends
Requests == [op : Ops, id : Ids]
Completions == [op : Ops, of : Requests, ok : BOOLEAN]

\* The least state every reachable state has.
TypeOK ==
  /\ nextReceive \in Ids /\ nextSend \in Ids
  /\ pending \in Seq(Ids) /\ Len(pending) <= QpDepth /\ stash \in Seq(Completions)
  /\ awaited \in Requests \cup {NoWait}
  /\ result \in {"none", "ok", "failed", "timeout"}
  /\ due \subseteq Requests
  /\ recvQueue \in Seq(Ids) /\ sendRing \subseteq Ids
  /\ sendQueue \in Seq([op : Ops, id : Ids, signaled : BOOLEAN])
  /\ cq \in Seq(Completions)
  /\ executed \subseteq Requests /\ broken \in BOOLEAN

Init ==
  /\ nextReceive = FirstReceive /\ nextSend = FirstSend
  /\ pending = <<>> /\ stash = <<>> /\ awaited = NoWait
  /\ result = "none" /\ due = {}
  /\ recvQueue = <<>> /\ sendQueue = <<>> /\ sendRing = {} /\ cq = <<>>
  /\ executed = {} /\ broken = FALSE

-----------------------------------------------------------------------------
(* Posting. *)

\* Faulty form: one receive more than the queue pair has room for.
ReceiveCreditLoose == Len(pending) <= QpDepth

ReceiveCredit == Len(pending) < QpDepth

\* post_receive; without credit or when verbs refuses, nothing changes
PostReceive ==
  /\ awaited = NoWait /\ nextReceive <= MaxReceives
  /\ ReceiveCredit
  /\ pending' = Append(pending, nextReceive)
  /\ recvQueue' = Append(recvQueue, nextReceive)
  /\ nextReceive' = nextReceive + 1
  /\ result' = "none"
  /\ UNCHANGED <<nextSend, stash, awaited, due, sendQueue, sendRing, cq, executed, broken>>

\* the requests of a batch: ids in turn, the last one signaled
Batch(op, n) == [i \in 1 .. n |-> [op |-> op, id |-> nextSend + i - 1, signaled |-> i = n]]

\* ibv_post_send takes the prefix the send ring has room for
Room == QpDepth - Cardinality(sendRing)
Post(requests) ==
  /\ sendQueue' = sendQueue \o requests
  /\ sendRing' = sendRing \cup {requests[i].id : i \in 1 .. Len(requests)}

\* the batch fits: the caller gets the ids and waits for the last one
PostBatch(op, n) ==
  /\ Post(Batch(op, n))
  /\ due' = due \cup {Request(op, nextSend + n - 1)}

\* post_transfer_batch (post_transfer is a batch of one): the ids are used up
\* also when the batch does not fit; its prefix is then posted, unsignaled, and
\* the caller only gets an error
PostTransferBatch ==
  /\ awaited = NoWait
  /\ \E op \in Transfers, n \in 1 .. MaxBatch :
       /\ nextSend + n <= FirstSend + MaxSends
       /\ nextSend' = nextSend + n
       /\ IF n <= Room THEN PostBatch(op, n)
          ELSE Post(SubSeq(Batch(op, n), 1, Room)) /\ UNCHANGED due
  /\ result' = "none"
  /\ UNCHANGED <<nextReceive, pending, stash, awaited, recvQueue, cq, executed, broken>>

\* post_send; refused when the ring is full
PostSend ==
  /\ awaited = NoWait /\ nextSend < FirstSend + MaxSends /\ Room > 0
  /\ nextSend' = nextSend + 1
  /\ Post(Batch("SEND", 1))
  /\ due' = due \cup {Request("SEND", nextSend)}
  /\ result' = "none"
  /\ UNCHANGED <<nextReceive, pending, stash, awaited, recvQueue, cq, executed, broken>>

-----------------------------------------------------------------------------
(* Waiting: wait_receive, poll and poll_matching. *)

\* Faulty form: the opcode of a completion is not looked at.
MatchesId(c, r) == c.of.id = r.id

Matches(c, r) == c.op = r.op /\ c.of.id = r.id

\* the wait ends with a completion; a receive leaves its place in the queue
Finish(r, c) ==
  /\ result' = IF c.ok THEN "ok" ELSE "failed"
  /\ pending' = IF r.op = "RECV" THEN Tail(pending) ELSE pending
  /\ due' = due \ {r}
  /\ awaited' = NoWait

\* the first completion put aside that the wait is for, 0 if there is none
Stashed(r) ==
  LET found == {k \in 1 .. Len(stash) : Matches(stash[k], r)}
  IN IF found = {} THEN 0 ELSE Min(found)

\* wait_receive is for the oldest posted receive, poll for any send in the
\* caller's hands; what was put aside is looked at first
BeginWait ==
  /\ awaited = NoWait
  /\ \E r \in due \cup (IF pending = <<>> THEN {} ELSE {Request("RECV", Head(pending))}) :
       IF Stashed(r) # 0
       THEN Finish(r, stash[Stashed(r)]) /\ stash' = RemoveAt(stash, Stashed(r))
       ELSE awaited' = r /\ result' = "none" /\ UNCHANGED <<stash, pending, due>>
  /\ UNCHANGED <<nextReceive, nextSend, adapterVars>>

\* ibv_poll_cq of a send completion frees the ring up to its request.  One with an
\* error leaves its entry: a pair that is broken takes no more work, and a provider
\* that frees the entry would only accept posts that complete with an error.
FreeRing(c) ==
  sendRing' = IF c.op # "RECV" /\ c.ok THEN {id \in sendRing : id > c.of.id} ELSE sendRing

\* Faulty form: a completion that is not the awaited one is dropped.
PutAsideNothing(c) == UNCHANGED stash

PutAside(c) == stash' = Append(stash, c)

\* one turn of the loop of poll_matching that finds a completion
PollMatching ==
  /\ awaited # NoWait /\ cq # <<>>
  /\ cq' = Tail(cq) /\ FreeRing(Head(cq))
  /\ IF Matches(Head(cq), awaited)
     THEN Finish(awaited, Head(cq)) /\ UNCHANGED stash
     ELSE PutAside(Head(cq)) /\ UNCHANGED <<result, pending, due, awaited>>
  /\ UNCHANGED <<nextReceive, nextSend, recvQueue, sendQueue, executed, broken>>

\* The deadline passes, or polling fails.  The request stays posted: a receive is waited for again,
\* and so may a send be, unless its id is lost with the call (send, transfer).
WaitExpires ==
  /\ awaited # NoWait
  /\ result' = "timeout" /\ awaited' = NoWait
  /\ due' \in {due, due \ {awaited}}
  /\ UNCHANGED <<nextReceive, nextSend, pending, stash, adapterVars>>

-----------------------------------------------------------------------------
(* The adapter (external). *)

\* A message arrives for the oldest receive, or the broken pair flushes it.
ReceiveCompletes ==
  /\ recvQueue # <<>>
  /\ recvQueue' = Tail(recvQueue)
  /\ LET r == Request("RECV", Head(recvQueue)) IN
       \/ /\ ~broken
          /\ cq' = Append(cq, Completion(r.op, r, TRUE))
          /\ executed' = executed \cup {r}
       \/ /\ broken
          /\ \E op \in {r.op, "SEND"} : cq' = Append(cq, Completion(op, r, FALSE))
          /\ UNCHANGED executed
  /\ UNCHANGED <<callerVars, sendQueue, sendRing, broken>>

\* The oldest send request executes; only a signaled one completes.
SendExecutes ==
  /\ sendQueue # <<>> /\ ~broken
  /\ LET s == Head(sendQueue)
         r == Request(s.op, s.id)
     IN /\ cq' = IF s.signaled THEN Append(cq, Completion(r.op, r, TRUE)) ELSE cq
        /\ executed' = executed \cup {r}
  /\ sendQueue' = Tail(sendQueue)
  /\ UNCHANGED <<callerVars, recvQueue, sendRing, broken>>

\* It fails, or is flushed after a failure: an error completion, signaled or not.
SendFails ==
  /\ sendQueue # <<>>
  /\ LET r == Request(Head(sendQueue).op, Head(sendQueue).id) IN
       \E op \in {r.op, "SEND"} : cq' = Append(cq, Completion(op, r, FALSE))
  /\ sendQueue' = Tail(sendQueue) /\ broken' = TRUE
  /\ UNCHANGED <<callerVars, recvQueue, sendRing, executed>>

Next ==
  \/ PostReceive \/ PostTransferBatch \/ PostSend
  \/ BeginWait \/ PollMatching \/ WaitExpires
  \/ ReceiveCompletes \/ SendExecutes \/ SendFails

Spec == Init /\ [][Next]_vars

-----------------------------------------------------------------------------
(* Properties. *)

\* completions of a request that are still to be found
Copies(r) == Cardinality({k \in 1 .. Len(cq) : Matches(cq[k], r)})
             + Cardinality({k \in 1 .. Len(stash) : Matches(stash[k], r)})

Held == due \cup {Request("RECV", pending[k]) : k \in 1 .. Len(pending)}

\* No completion is lost or found twice: a request the caller may still wait for
\* is with the adapter, or its completion is in the queue or put aside, once,
\* whatever waits for other requests and expired waits did in between.
CompletionNeverLost ==
  ~broken => \A r \in Held : Copies(r) = (IF r \in executed THEN 1 ELSE 0)

\* A wait that succeeds was for a request that has executed: the completion it
\* took is that request's own, although ids repeat between the two directions.
WaitTakesOwn ==
  [][\A r \in Held \ Held' : result' = "ok" => r \in executed]_vars

\* Neither ring is overrun and the shared completion queue, twice as deep, never
\* overflows, even when a broken pair completes what was not signaled.
QueuesBounded ==
  /\ Len(recvQueue) <= QpDepth /\ Cardinality(sendRing) <= QpDepth
  /\ Len(cq) <= 2 * QpDepth
=============================================================================
