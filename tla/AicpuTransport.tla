--------------------------- MODULE AicpuTransport ---------------------------
(***************************************************************************)
(* The transport operations the AICPU runs on one queue pair:              *)
(* nds_aicpu_rdma_send, _read and _write (all post_send) and               *)
(* nds_aicpu_rdma_recv.  Sends go through the provider's                   *)
(* ibv_exp_post_send; nds_aicpu_post_send stores the request's wr_id in    *)
(* the ring's wr_id array before the provider decides whether it has room. *)
(* Receives and completions are handled on the shared ring metadata.       *)
(*                                                                         *)
(* Send completions are read as the code reads them: from a completion     *)
(* ring that is never cleared, where an owner bit that changes on every    *)
(* lap tells a new entry from one of an earlier lap, with a consumer and a *)
(* tail word that wrap and a request index of fewer bits than the tail.    *)
(* TransportQp's head, tail and sendCq are what the words stand for.       *)
(***************************************************************************)
EXTENDS TransportQp

CONSTANTS
  WordMod,  \* values of a counter word, 2^32 in the code
  IndexMod  \* values of the request index of a completion, 2^16 in the code

\* Depths are powers of two: a whole number of laps fits a counter word, and a
\* request index tells the entries of a ring apart.
ASSUME RingAssumption ==
  /\ WordMod \in Nat /\ WordMod > 0 /\ WordMod % (2 * Depth) = 0
  /\ IndexMod \in Nat /\ IndexMod > 0 /\ IndexMod % Depth = 0

VARIABLES
  pc,       \* where the current call is; "idle" between calls
  target,   \* credits the wait loop waits for
  status,   \* return value of the last call
  wrIds,    \* ring index -> the wr_id stored there; request p has wr_id p
  decoded,  \* wr_id and request of the completion decoded last
  cqRing,   \* the entries of the send completion ring
  produced, \* completions the adapter has written
  consumer, \* the word at consumer_address
  tailWord  \* the word at the send queue's tail_address

ringVars == <<cqRing, produced, consumer, tailWord>>
aicpuVars == <<pc, target, status, wrIds, decoded>>
vars == <<unsignaled, sendCredits, recvCredits, head, tail, executed, signals,
          sendCq, failedAt, rqHead, rqTail, recvCq,
          pc, target, status, wrIds, decoded,
          cqRing, produced, consumer, tailWord>>

\* what byte_4 of a completion holds: owner bit, status and request index
HnsCqe == [owner : 0 .. 1, ok : BOOLEAN, index : 0 .. IndexMod - 1]

Statuses == {"none", "SUCCESS", "WAITED", "INVALID_ARGUMENT", "QUEUE_FULL", "PROVIDER_FAILED"}

\* The least state every reachable state has.
TypeOK ==
  /\ QpTypeOK
  /\ pc \in {"idle", "post", "wait", "recv"}
  /\ target \in Nat /\ status \in Statuses
  /\ wrIds \in [0 .. Depth - 1 -> Nat]
  /\ decoded \in [wrId : Nat, wqe : Nat]
  /\ cqRing \in [0 .. Depth - 1 -> HnsCqe] /\ produced \in Nat
  /\ consumer \in 0 .. WordMod - 1 /\ tailWord \in 0 .. WordMod - 1

Init ==
  /\ QpInit
  /\ pc = "idle" /\ target = 0 /\ status = "none"
  /\ wrIds = [i \in 0 .. Depth - 1 |-> 0]
  /\ decoded = [wrId |-> 0, wqe |-> 0]
  /\ cqRing = [i \in 0 .. Depth - 1 |-> [owner |-> 0, ok |-> FALSE, index |-> 0]]
  /\ produced = 0 /\ consumer = 0 /\ tailWord = 0

Return(s) == pc' = "idle" /\ status' = s

\* nds_transport_should_signal
ShouldSignal == unsignaled + 1 >= Interval

-----------------------------------------------------------------------------
(* nds_aicpu_poll_cq on the send ring. *)

\* the k-th entry the scan looks at, counted from 0
CqeAt(k) == cqRing[(consumer + k) % Depth]

\* Faulty form: the lap of the consumer is not looked at.
CqeIsReadyAnyLap(k) == CqeAt(k).owner = 1

\* nds_hns_hw_cqe_is_ready: owner ^ !!(consumer & depth)
CqeIsReady(k) == CqeAt(k).owner # (((consumer + k) % WordMod) \div Depth) % 2

\* the scan stops at the limit or at the first entry that is not ready
RingReady ==
  CHOOSE n \in 0 .. PollBatch :
    /\ \A k \in 0 .. n - 1 : CqeIsReady(k)
    /\ n = PollBatch \/ ~CqeIsReady(n)

\* Faulty form: the tail moves one entry per completion.
SendTailForCqePerCqe(t, k) == t

\* nds_hns_hw_send_tail_for_cqe: tail + ((wqe_index - tail) & (depth - 1))
SendTailForCqe(t, k) == (t + ((CqeAt(k).index - t) % Depth)) % WordMod

\* the tail word as the entries are taken one by one
TailWordAt(n) ==
  LET at[k \in 0 .. n] == IF k = 0 THEN tailWord
                          ELSE (SendTailForCqe(at[k - 1], k - 1) + 1) % WordMod
  IN  at

\* reclaim: nds_aicpu_poll_cq moves the tail to the request of each CQE, looks
\* its wr_id up there and steps past it; each CQE gives an interval back
Reclaim(n) ==
  /\ ReclaimSend(n)
  /\ consumer' = (consumer + n) % WordMod
  /\ tailWord' = TailWordAt(n)[n]
  /\ decoded' = IF n = 0 THEN decoded
                ELSE [wrId |-> wrIds[SendTailForCqe(TailWordAt(n)[n - 1], n - 1) % Depth],
                      wqe |-> sendCq[n].wqe]
  /\ UNCHANGED <<cqRing, produced>>

\* a completion taken has a status other than success
CqeFailed(n) == \E k \in 0 .. n - 1 : ~CqeAt(k).ok

\* Faulty form: the status of the completions is not looked at.
ReclaimStatusIgnored(n) == "SUCCESS"

\* Faulty form: the status field of the completion is passed on as it is.
ReclaimStatusRaw(n) == IF CqeFailed(n) THEN "CQE_STATUS" ELSE "SUCCESS"

ReclaimStatus(n) == IF CqeFailed(n) THEN "PROVIDER_FAILED" ELSE "SUCCESS"

-----------------------------------------------------------------------------
(* post_send. *)

\* the call starts; reclaim_if_needed polls when no credit is left
PostSend ==
  /\ pc = "idle" /\ head < MaxPosts
  /\ LET n == IF sendCredits = 0 THEN RingReady ELSE 0 IN
       /\ Reclaim(n)
       /\ IF ReclaimStatus(n) # "SUCCESS" THEN Return(ReclaimStatus(n))
          ELSE IF sendCredits' = 0 THEN Return("QUEUE_FULL")
          ELSE pc' = "post" /\ status' = "none"
  /\ UNCHANGED <<unsignaled, head, executed, signals, failedAt, recvVars, target, wrIds>>

\* nds_aicpu_post_send turns the request away before it touches the ring
ProviderPostInvalid ==
  /\ pc = "post"
  /\ Return("INVALID_ARGUMENT")
  /\ UNCHANGED <<sendVars, nicVars, recvVars, target, wrIds, decoded, ringVars>>

\* Faulty form: the index is that of the entry after the request's.
StoreWrIdNext == wrIds' = [wrIds EXCEPT ![(head + 1) % Depth] = head]

StoreWrId == wrIds' = [wrIds EXCEPT ![head % Depth] = head]

\* the wr_id is stored, then the provider refuses the request
ProviderPostFails ==
  /\ pc = "post"
  /\ StoreWrId
  /\ Return("PROVIDER_FAILED")
  /\ UNCHANGED <<sendVars, nicVars, recvVars, target, decoded, ringVars>>

\* credits a signaled send waits for
WaitTarget == sendCredits' + Interval

\* the provider takes the request; it is recorded and, when signaled, waited for
ProviderPost ==
  /\ pc = "post" /\ head - tail < Depth
  /\ StoreWrId
  /\ head' = head + 1
  /\ signals' = IF ShouldSignal THEN signals \cup {head} ELSE signals
  /\ sendCredits' = sendCredits - 1
  /\ unsignaled' = IF ShouldSignal THEN 0 ELSE unsignaled + 1
  /\ target' = WaitTarget
  /\ IF ShouldSignal THEN pc' = "wait" /\ UNCHANGED status ELSE Return("SUCCESS")
  /\ UNCHANGED <<tail, executed, sendCq, failedAt, recvVars, decoded, ringVars>>

\* one turn of wait_for_send_completion that finds completions; no deadline
WaitForSendCompletion ==
  /\ pc = "wait" /\ RingReady # 0
  /\ Reclaim(RingReady)
  /\ IF ReclaimStatus(RingReady) # "SUCCESS" THEN Return(ReclaimStatus(RingReady))
     ELSE IF sendCredits' >= target THEN Return("WAITED")
     ELSE UNCHANGED <<pc, status>>
  /\ UNCHANGED <<unsignaled, head, executed, signals, failedAt, recvVars, target, wrIds>>

-----------------------------------------------------------------------------
(* nds_aicpu_rdma_recv. *)

RdmaRecv ==
  /\ pc = "idle" /\ rqHead < MaxRecvs
  /\ LET n == IF recvCredits = 0 THEN RecvReady ELSE 0 IN
       /\ ReclaimRecv(n)
       /\ IF RecvFailed(n) THEN Return("PROVIDER_FAILED")
          ELSE IF recvCredits' = 0 THEN Return("QUEUE_FULL")
          ELSE pc' = "recv" /\ status' = "none"
  /\ UNCHANGED <<sendVars, nicVars, rqHead, target, wrIds, decoded, ringVars>>

\* nds_aicpu_post_recv checks the ring once more; the credit is charged after it
PostRecv ==
  /\ pc = "recv"
  /\ \/ /\ Return(IF rqHead - rqTail >= RecvDepth THEN "QUEUE_FULL" ELSE "INVALID_ARGUMENT")
        /\ UNCHANGED <<rqHead, recvCredits>>
     \/ /\ rqHead - rqTail < RecvDepth
        /\ rqHead' = rqHead + 1 /\ recvCredits' = recvCredits - 1
        /\ Return("SUCCESS")
  /\ UNCHANGED <<sendVars, nicVars, rqTail, recvCq, target, wrIds, decoded, ringVars>>

-----------------------------------------------------------------------------
\* the completion of the request executed is written over the oldest entry, if
\* there is one; the owner bit is the opposite of the lap's
NicWriteCqe ==
  IF sendCq' = sendCq THEN UNCHANGED <<cqRing, produced>>
  ELSE /\ cqRing' = [cqRing EXCEPT ![produced % Depth] =
                       [owner |-> 1 - ((produced \div Depth) % 2),
                        ok |-> failedAt' = None,
                        index |-> executed % IndexMod]]
       /\ produced' = produced + 1

Nic ==
  \/ /\ NicExecute \/ NicFail
     /\ NicWriteCqe
     /\ UNCHANGED <<unsignaled, sendCredits, head, tail, recvVars, aicpuVars, consumer, tailWord>>
  \/ NicDeliver /\ UNCHANGED <<sendVars, nicVars, recvCredits, rqHead, rqTail, aicpuVars, ringVars>>

Next ==
  \/ PostSend \/ ProviderPostInvalid \/ ProviderPostFails \/ ProviderPost
  \/ WaitForSendCompletion
  \/ RdmaRecv \/ PostRecv
  \/ Nic

Spec == Init /\ [][Next]_vars

-----------------------------------------------------------------------------
(* Properties. *)

\* A refused post never destroys the wr_id of a request still in the ring while
\* the queue pair works, although nds_aicpu_post_send stores the new wr_id
\* before the provider has said yes.
WrIdsIntact ==
  failedAt = None => \A p \in tail .. head - 1 : wrIds[p % Depth] = p

\* Every completion decoded on a working queue pair carries the wr_id of its own
\* request, also when it stands for several unsignaled ones before it.
DecodedIsOwn == failedAt = None => decoded.wrId = decoded.wqe

\* A signaled post that returns success has executed: the completion that ended
\* its wait is its own, since no wait is ever given up.
WaitedIsExecuted ==
  (pc = "idle" /\ status = "WAITED") =>
    executed >= head - unsignaled /\ (failedAt # None => failedAt >= head - unsignaled)

\* The completion ring and the wrapped words say what happened: the owner bits
\* show exactly the completions not consumed yet, oldest first and none of an
\* earlier lap, and the tail word is the position behind the last request they
\* gave back, on every lap and across the wrap of the words.
RingExact ==
  /\ \A k \in 0 .. Depth - 1 : CqeIsReady(k) <=> k < Len(sendCq)
  /\ \A k \in 0 .. Len(sendCq) - 1 :
       /\ CqeAt(k).ok = sendCq[k + 1].ok
       /\ SendTailForCqe(tailWord, k) = sendCq[k + 1].wqe % WordMod
  /\ tailWord = tail % WordMod
  /\ RingReady = SendReady
=============================================================================
