---------------------------- MODULE AivTransport ----------------------------
(***************************************************************************)
(* The transport operations an AIV kernel runs on one queue pair:          *)
(* nds_aiv_rdma_send / _read / _write (one request, all PostTransportSend),*)
(* nds_aiv_rdma_send_batch and nds_aiv_rdma_recv.  There is a single       *)
(* producer per queue pair, so calls do not overlap; the adapter runs      *)
(* concurrently with every step of a call.  A call is split at the points  *)
(* where it reads the completion queue: the reclaim before a post, the     *)
(* post itself, and each turn of the wait loop.                            *)
(***************************************************************************)
EXTENDS TransportQp

CONSTANT MaxBatch  \* bound: requests in one batch call

ASSUME MaxBatchAssumption == MaxBatch \in Nat

VARIABLES
  pc,      \* where the current call is; "idle" between calls
  wrs,     \* its requests: how many, and the index of an invalid one (0: none)
  base,    \* head when the call started
  target,  \* credits the wait loop waits for
  ret      \* answer of the last call: status, bad_wr (0: null) and whether it
           \* waited for a signaled request

callVars == <<pc, wrs, base, target, ret>>
vars == <<unsignaled, sendCredits, recvCredits, head, tail, executed, signals,
          sendCq, failedAt, rqHead, rqTail, recvCq,
          pc, wrs, base, target, ret>>

Steps == {"idle", "send", "batch", "wait", "recv"}
Statuses == {"none", "SUCCESS", "INVALID_ARGUMENT", "QUEUE_FULL", "PROVIDER_FAILED"}
NoAnswer == [status |-> "none", bad |-> 0, waited |-> FALSE]

\* The least state every reachable state has: counters are naturals, the
\* control point is one of the call's steps.
TypeOK ==
  /\ QpTypeOK
  /\ pc \in Steps
  /\ wrs \in [count : Nat, bad : Nat]
  /\ base \in Nat /\ target \in Nat
  /\ ret \in [status : Statuses, bad : Nat, waited : BOOLEAN]

Init ==
  /\ QpInit
  /\ pc = "idle" /\ wrs = [count |-> 0, bad |-> 0]
  /\ base = 0 /\ target = 0
  /\ ret = NoAnswer

\* ring slots a post may still take: one entry stays free
QueueAvailable == IF head - tail < Depth - 1 THEN Depth - 1 - (head - tail) ELSE 0

Return(status, bad, waited) ==
  /\ pc' = "idle"
  /\ ret' = [status |-> status, bad |-> bad, waited |-> waited]

-----------------------------------------------------------------------------
(* Reclamation: ReclaimTransportCq on the send and on the receive CQ. *)

\* Faulty form: one credit per completion instead of one interval.
ReclaimOneCredit(n) ==
  /\ sendCredits' = sendCredits + n
  /\ tail' = TailAfter(n)
  /\ sendCq' = SubSeq(sendCq, n + 1, Len(sendCq))
\* Faulty form: receive completions are taken and give no credit back.
ReclaimRecvNoCredit(n) ==
  /\ recvCredits' = recvCredits
  /\ rqTail' = rqTail + n
  /\ recvCq' = SubSeq(recvCq, n + 1, Len(recvCq))
\* Faulty form: the tail moves by one ring entry per completion.
TailPerCompletion(n) ==
  /\ sendCredits' = sendCredits + Span(n)
  /\ tail' = tail + n
  /\ sendCq' = SubSeq(sendCq, n + 1, Len(sendCq))
\* Faulty form: the status of a completion is not looked at.
ReclaimStatusIgnored(n) == "SUCCESS"

ReclaimTransportSendCq(n) == ReclaimSend(n)
ReclaimTransportRecvCq(n) == ReclaimRecv(n)

ReclaimStatus(n) == IF SendFailed(n) THEN "PROVIDER_FAILED" ELSE "SUCCESS"

\* Faulty form: the wait is for the credits before the intervals come back.
WaitTargetReversed(c) == sendCredits' - Span(c)

\* credits WaitForSendCompletion waits for after c signaled requests
WaitTarget(c) == sendCredits' + Span(c)

-----------------------------------------------------------------------------
(* nds_aiv_rdma_send, nds_aiv_rdma_read, nds_aiv_rdma_write. *)

\* The call starts; ReclaimIfNeeded polls only when no credit is left.
RdmaSend ==
  /\ pc = "idle" /\ head < MaxPosts
  /\ \E bad \in {0, 1} : wrs' = [count |-> 1, bad |-> bad]
  /\ base' = head
  /\ LET n == IF sendCredits = 0 THEN SendReady ELSE 0 IN
       /\ ReclaimTransportSendCq(n)
       /\ IF ReclaimStatus(n) # "SUCCESS" THEN Return(ReclaimStatus(n), 0, FALSE)
          ELSE IF sendCredits' = 0 THEN Return("QUEUE_FULL", 0, FALSE)
          ELSE pc' = "send" /\ ret' = NoAnswer
  /\ UNCHANGED <<unsignaled, head, executed, signals, failedAt, recvVars, target>>

\* nds_aiv_post_send refuses a bad opcode and a full ring
PostTransportSendRefused ==
  /\ pc = "send"
  /\ \/ wrs.bad # 0 /\ Return("INVALID_ARGUMENT", 0, FALSE)
     \/ wrs.bad = 0 /\ QueueAvailable = 0 /\ Return("QUEUE_FULL", 0, FALSE)
  /\ UNCHANGED <<sendVars, nicVars, recvVars, wrs, base, target>>

\* Faulty form: a post that looks at the credits and not at the ring.
PostTransportSendUnchecked ==
  /\ pc = "send" /\ wrs.bad = 0
  /\ \E c \in {0, 1} :
       /\ SignalCount(1, c)
       /\ RecordSends(1, c)
       /\ target' = WaitTarget(c)
       /\ IF c = 0 THEN Return("SUCCESS", 0, FALSE) ELSE pc' = "wait" /\ UNCHANGED ret
  /\ UNCHANGED <<tail, executed, sendCq, failedAt, recvVars, wrs, base>>

\* the request is written and rung, then charged; a signaled one is waited for
PostTransportSend ==
  /\ pc = "send" /\ wrs.bad = 0 /\ QueueAvailable # 0
  /\ \E c \in {0, 1} :
       /\ SignalCount(1, c)
       /\ RecordSends(1, c)
       /\ target' = WaitTarget(c)
       /\ IF c = 0 THEN Return("SUCCESS", 0, FALSE) ELSE pc' = "wait" /\ UNCHANGED ret
  /\ UNCHANGED <<tail, executed, sendCq, failedAt, recvVars, wrs, base>>

-----------------------------------------------------------------------------
(* nds_aiv_rdma_send_batch. *)

\* The call starts and clears bad_wr; it reclaims when the ring or the credits
\* are exhausted.
RdmaSendBatch(count) ==
  /\ pc = "idle" /\ head + count <= MaxPosts
  /\ \E bad \in 0 .. count : wrs' = [count |-> count, bad |-> bad]
  /\ base' = head
  /\ LET n == IF QueueAvailable = 0 \/ sendCredits = 0 THEN SendReady ELSE 0 IN
       /\ ReclaimTransportSendCq(n)
       /\ IF ReclaimStatus(n) # "SUCCESS" THEN Return(ReclaimStatus(n), 0, FALSE)
          ELSE pc' = "batch" /\ ret' = NoAnswer
  /\ UNCHANGED <<unsignaled, head, executed, signals, failedAt, recvVars, target>>

\* Faulty form: the prefix is cut to the credits alone.
BatchRoomByCredits == Min2(wrs.count, sendCredits)

\* limited_posted: the prefix the ring and the credits allow
BatchRoom == Min2(Min2(wrs.count, QueueAvailable), sendCredits)

\* every request is validated before any is written; none fits: bad_wr is the first
PostTransportSendBatchRefused ==
  /\ pc = "batch"
  /\ \/ wrs.bad # 0 /\ Return("INVALID_ARGUMENT", wrs.bad, FALSE)
     \/ wrs.bad = 0 /\ BatchRoom = 0 /\ Return("QUEUE_FULL", 1, FALSE)
  /\ UNCHANGED <<sendVars, nicVars, recvVars, wrs, base, target>>

\* bad_wr and status of a batch of which k requests were posted
FirstUnposted(k) == IF k = wrs.count THEN 0 ELSE k + 1
BatchStatus(k) == IF k = wrs.count THEN "SUCCESS" ELSE "QUEUE_FULL"

\* the prefix is written, rung once and charged, its signaled requests waited for
PostTransportSendBatch ==
  /\ pc = "batch" /\ wrs.bad = 0 /\ BatchRoom # 0
  /\ LET k == BatchRoom IN
       \E c \in 0 .. k :
         /\ SignalCount(k, c)
         /\ RecordSends(k, c)
         /\ target' = WaitTarget(c)
         /\ IF c = 0 THEN Return(BatchStatus(k), FirstUnposted(k), FALSE)
                     ELSE pc' = "wait" /\ UNCHANGED ret
  /\ UNCHANGED <<tail, executed, sendCq, failedAt, recvVars, wrs, base>>

-----------------------------------------------------------------------------
\* One turn of the WaitForSendCompletion loop that finds a CQE.  An error
\* status ends the call before bad_wr is set, although the credits were taken.
WaitForSendCompletion ==
  /\ pc = "wait" /\ sendCq # <<>>
  /\ LET n == SendReady
         posted == head - base
     IN /\ ReclaimTransportSendCq(n)
        /\ IF ReclaimStatus(n) # "SUCCESS" THEN Return(ReclaimStatus(n), 0, TRUE)
           ELSE IF sendCredits' >= target
                THEN Return(BatchStatus(posted), FirstUnposted(posted), TRUE)
           ELSE UNCHANGED <<pc, ret>>
  /\ UNCHANGED <<unsignaled, head, executed, signals, failedAt, recvVars,
                 wrs, base, target>>

-----------------------------------------------------------------------------
(* nds_aiv_rdma_recv. *)

\* The call starts; the receive CQ is polled only when no credit is left.
RdmaRecv ==
  /\ pc = "idle" /\ rqHead < MaxRecvs
  /\ wrs' = [count |-> 0, bad |-> 0] /\ base' = head
  /\ LET n == IF recvCredits = 0 THEN RecvReady ELSE 0 IN
       /\ ReclaimTransportRecvCq(n)
       /\ IF RecvFailed(n) THEN Return("PROVIDER_FAILED", 0, FALSE)
          ELSE IF recvCredits' = 0 THEN Return("QUEUE_FULL", 0, FALSE)
          ELSE pc' = "recv" /\ ret' = NoAnswer
  /\ UNCHANGED <<sendVars, nicVars, rqHead, target>>

\* nds_aiv_post_recv checks the ring; the credit is charged after the post
PostRecv ==
  /\ pc = "recv"
  /\ IF rqHead - rqTail >= RecvDepth
     THEN Return("QUEUE_FULL", 0, FALSE) /\ UNCHANGED <<rqHead, recvCredits>>
     ELSE /\ rqHead' = rqHead + 1 /\ recvCredits' = recvCredits - 1
          /\ Return("SUCCESS", 0, FALSE)
  /\ UNCHANGED <<sendVars, nicVars, rqTail, recvCq, wrs, base, target>>

-----------------------------------------------------------------------------
Nic ==
  \/ (NicExecute \/ NicFail) /\ UNCHANGED <<unsignaled, sendCredits, head, tail, recvVars, callVars>>
  \/ NicDeliver /\ UNCHANGED <<sendVars, nicVars, recvCredits, rqHead, rqTail, callVars>>

Next ==
  \/ RdmaSend \/ PostTransportSendRefused \/ PostTransportSend
  \/ (\E count \in 1 .. MaxBatch : RdmaSendBatch(count))
  \/ PostTransportSendBatchRefused \/ PostTransportSendBatch
  \/ WaitForSendCompletion
  \/ RdmaRecv \/ PostRecv
  \/ Nic

Spec == Init /\ [][Next]_vars

\* The kernel keeps turning its wait loop (it has no deadline) and the adapter
\* keeps consuming work it was rung for.
FairSpec ==
  /\ Spec
  /\ WF_vars(WaitForSendCompletion)
  /\ WF_vars((NicExecute \/ NicFail)
             /\ UNCHANGED <<unsignaled, sendCredits, head, tail, recvVars, callVars>>)

-----------------------------------------------------------------------------
(* Properties. *)

\* The ring is never overrun, even after a failed request: PopulateDeviceSendWqe
\* writes entries head .. head+k-1 modulo Depth, and the adapter may still read
\* executed .. head-1.  One entry stays free, so full and empty differ.
RingSafe ==
  /\ tail <= executed /\ executed <= head
  /\ head - tail <= Depth - 1

\* The send CQ has as many entries as the send ring (Endpoint creates it that
\* deep): the adapter never writes over a CQE that was not consumed, although a
\* broken queue pair completes unsignaled requests too.
CqNeverOverflows == Len(sendCq) <= Depth - 1

\* While no request has failed the credits account for the ring exactly, across
\* calls, partial batches and signal intervals that span several calls.
CreditsExact == failedAt = None => sendCredits + (head - tail) = Depth

\* Credits are never lost, even on the error paths of ReclaimTransportCq: the
\* credits and the occupied ring entries together always cover the ring.
CreditsNeverLost == sendCredits + (head - tail) >= Depth

\* A call that waited for its signaled requests and answers SUCCESS (or a cut
\* batch) has every request up to its last signaled one executed without error.
WaitedSuccessIsExecuted ==
  (pc = "idle" /\ ret.waited /\ ret.status # "PROVIDER_FAILED") =>
    /\ executed >= head - unsignaled
    /\ failedAt # None => failedAt >= head - unsignaled

\* With a ring deeper than the signal interval a single post is never turned
\* away for lack of room while the queue pair works: the wait after each signaled
\* request has always drained the ring.
NoSpuriousQueueFull ==
  (Interval < Depth /\ failedAt = None /\ pc = "idle" /\ wrs.count = 1) =>
    ret.status # "QUEUE_FULL"

\* Receive credits match the receive ring exactly, so nds_aiv_post_recv never
\* finds the ring full after the credit check passed.
RecvCreditsExact == recvCredits + (rqHead - rqTail) = RecvDepth

\* posted of PostSendBatchResult, as launch_transport_batch_and_wait computes it
ReportedPosted ==
  IF ret.status # "SUCCESS" /\ ret.bad # 0 THEN ret.bad - 1 ELSE wrs.count

\* Claim of the design document: "The result reports the prefix length and the
\* first unposted request."
PrefixReported ==
  (pc = "idle" /\ ret.status \in {"SUCCESS", "QUEUE_FULL", "PROVIDER_FAILED"} /\ wrs.count > 1)
     => ReportedPosted = head - base

\* The wait of a signaled post ends: its CQE, or an error CQE, arrives.
WaitEnds == (pc = "wait") ~> (pc = "idle")
=============================================================================
