---------------------------- MODULE TransportQp ----------------------------
(***************************************************************************)
(* The state of one client queue pair as every NDS transport backend sees  *)
(* it: the scheduling record NdsTransportQpState (signal interval, count   *)
(* of unsignaled sends, send and receive credits), the send and receive    *)
(* rings with their producer and consumer counters, the two completion     *)
(* queues, and the network adapter that consumes the rings.  The backends  *)
(* (AivTransport, RaTransport, AicpuTransport) extend it with the calls    *)
(* they make on it; the adapter is outside the repository and modelled     *)
(* by what the backends rely on: it executes rung work in order, writes a  *)
(* completion for a signaled request, and after the first failed request   *)
(* completes every later one with an error (the queue pair is in the       *)
(* verbs error state).                                                     *)
(*                                                                         *)
(* Producer and consumer counters are the unwrapped counters; the ring     *)
(* index arithmetic on 16 and 32 bits and the owner bits are in            *)
(* AicpuTransport.                                                         *)
(***************************************************************************)
EXTENDS Integers, Sequences

CONSTANTS
  Depth,      \* entries of the send ring (and of the send CQ)
  RecvDepth,  \* entries of the receive ring
  Interval,   \* kTransportSignalInterval: every Interval-th send is signaled
  PollBatch,  \* NDS_MAX_COMPLETIONS: CQEs taken by one reclaim
  MaxPosts,   \* bound: send requests posted in a behaviour
  MaxRecvs    \* bound: receive requests posted in a behaviour

\* A queue pair is created with a power-of-two depth of at least two and the
\* transport gives every state a positive signal interval.
ASSUME QpAssumption ==
  /\ Depth \in Nat /\ Depth >= 2
  /\ RecvDepth \in Nat /\ RecvDepth >= 1
  /\ Interval \in Nat /\ Interval >= 1
  /\ PollBatch \in Nat /\ PollBatch >= 1
  /\ MaxPosts \in Nat /\ MaxRecvs \in Nat

VARIABLES
  unsignaled,   \* NdsTransportQpState::unsignaled_count
  sendCredits,  \* NdsTransportQpState::send_credits
  recvCredits,  \* NdsTransportQpState::receive_credits
  head, tail,   \* send ring: requests rung, requests reclaimed
  executed,     \* send requests the adapter has executed
  signals,      \* positions of the rung, unexecuted requests that ask for a CQE
  sendCq,       \* send CQEs not yet consumed: the request's position, its status
  failedAt,     \* position of the first failed request, None while there is none
  rqHead, rqTail, \* receive ring: requests posted, requests reclaimed
  recvCq        \* receive CQEs not yet consumed: TRUE for success

sendVars == <<unsignaled, sendCredits, head, tail>>
recvVars == <<recvCredits, rqHead, rqTail, recvCq>>
nicVars == <<executed, signals, sendCq, failedAt>>

None == -1

Min2(a, b) == IF a < b THEN a ELSE b

\* a completion: the position of its request and whether it succeeded
Cqe == [wqe : Nat, ok : BOOLEAN]

QpTypeOK ==
  /\ unsignaled \in Nat /\ sendCredits \in Nat /\ recvCredits \in Nat
  /\ head \in Nat /\ tail \in Nat /\ executed \in Nat
  /\ signals \subseteq Nat
  /\ sendCq \in Seq(Cqe)
  /\ failedAt \in Nat \cup {None}
  /\ rqHead \in Nat /\ rqTail \in Nat
  /\ recvCq \in Seq(BOOLEAN)

\* Transport::build_device_transport gives each QP its full credit.
QpInit ==
  /\ unsignaled = 0 /\ sendCredits = Depth /\ recvCredits = RecvDepth
  /\ head = 0 /\ tail = 0 /\ executed = 0
  /\ signals = {} /\ sendCq = <<>> /\ failedAt = None
  /\ rqHead = 0 /\ rqTail = 0 /\ recvCq = <<>>

-----------------------------------------------------------------------------
(* Operators the backends share. *)

\* the sends c signals account for
Span(c) == c * Interval

\* The signal schedule over k further sends: c of them are signaled.  Each
\* send that finds Interval - 1 unsignaled ones before it is signaled and
\* resets the count, so the count stays below Interval.
SignalCount(k, c) == unsignaled + k - Span(c) \in 0 .. (Interval - 1)

\* Positions of the c signaled requests among the next ones posted.
SignalPositions(c) == {head + Span(j) - unsignaled - 1 : j \in 1 .. c}

\* k requests, c of them signaled, are written, rung and charged.
RecordSends(k, c) ==
  /\ unsignaled' = unsignaled + k - Span(c)
  /\ sendCredits' = sendCredits - k
  /\ head' = head + k
  /\ signals' = signals \cup SignalPositions(c)

\* One reclaim takes every CQE that is ready, up to PollBatch.
SendReady == Min2(PollBatch, Len(sendCq))
RecvReady == Min2(PollBatch, Len(recvCq))

SendFailed(n) == \E k \in 1 .. n : ~sendCq[k].ok
RecvFailed(n) == \E k \in 1 .. n : ~recvCq[k]

\* The ring is free up to and including the request of the last CQE taken.
TailAfter(n) == IF n = 0 THEN tail ELSE sendCq[n].wqe + 1

\* Each CQE gives back the whole interval it stands for, whatever its status.
ReclaimSend(n) ==
  /\ sendCredits' = sendCredits + Span(n)
  /\ tail' = TailAfter(n)
  /\ sendCq' = SubSeq(sendCq, n + 1, Len(sendCq))

ReclaimRecv(n) ==
  /\ recvCredits' = recvCredits + n
  /\ rqTail' = rqTail + n
  /\ recvCq' = SubSeq(recvCq, n + 1, Len(recvCq))

-----------------------------------------------------------------------------
(* The network adapter (external). *)

\* The next rung request succeeds; only a signaled one leaves a CQE.
NicExecute ==
  /\ failedAt = None /\ executed < head
  /\ executed' = executed + 1
  /\ signals' = signals \ {executed}
  /\ sendCq' = IF executed \in signals
               THEN Append(sendCq, [wqe |-> executed, ok |-> TRUE])
               ELSE sendCq
  /\ UNCHANGED failedAt

\* The next rung request fails, or is flushed because an earlier one failed;
\* either leaves an error CQE, signaled or not.
NicFail ==
  /\ executed < head
  /\ executed' = executed + 1
  /\ signals' = signals \ {executed}
  /\ sendCq' = Append(sendCq, [wqe |-> executed, ok |-> FALSE])
  /\ failedAt' = IF failedAt = None THEN executed ELSE failedAt

\* A message consumes the oldest posted receive; a broken queue pair flushes it.
NicDeliver ==
  /\ rqTail + Len(recvCq) < rqHead
  /\ recvCq' = Append(recvCq, failedAt = None)

=============================================================================
