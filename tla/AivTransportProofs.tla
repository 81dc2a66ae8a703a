------------------------- MODULE AivTransportProofs -------------------------
(***************************************************************************)
(* Invariance proofs for AivTransport, for every ring depth, signal        *)
(* interval, poll batch and bound.                                         *)
(*                                                                         *)
(* The heart is SchedInv: as long as no error completion has been taken,   *)
(* the ring between tail and head is a whole number M of signal intervals  *)
(* plus the unsignaled sends, its CQEs are the first of the M signaled     *)
(* requests in order, and M is zero outside the wait loop.  That each CQE  *)
(* gives back exactly one interval of credits follows from it, and so does *)
(* that the wait loop ends with every signaled request executed.           *)
(*                                                                         *)
(* What survives a failure is GapInv, proved on top of it: no completion   *)
(* stands for more ring entries than the interval it gives back.           *)
(***************************************************************************)
EXTENDS AivTransport, TransportQpLemmas

-----------------------------------------------------------------------------
(* The inductive invariant. *)

RingInv == RingSafe /\ unsignaled < Interval

\* M signaled requests lie between tail and head, one interval apart: the
\* successful CQEs are the first of them, in order, the rest is still rung.
Schedule(M) ==
  /\ head = tail + Span(M) + unsignaled
  /\ sendCredits = Depth - (head - tail)
  /\ \A k \in 1 .. Len(sendCq) :
        sendCq[k].ok => sendCq[k].wqe = tail + Span(k) - 1
  /\ failedAt = None =>
       /\ Len(sendCq) <= M
       /\ \A p \in Nat : p \in signals <=>
             \E j \in (Len(sendCq) + 1) .. M : p = tail + Span(j) - 1
       /\ Len(sendCq) < M => executed <= tail + Span(Len(sendCq) + 1) - 1

\* Until an error is seen, nothing signaled is outstanding outside the wait
\* loop, and the wait loop waits for exactly the outstanding intervals.
SchedInv ==
  Clean => \E M \in Nat :
    /\ Schedule(M)
    /\ pc # "wait" => M = 0
    /\ pc = "wait" => target = sendCredits + Span(M)

CallInv ==
  /\ pc \in {"send", "batch"} => base = head
  /\ pc = "send" => sendCredits >= 1 /\ wrs.count = 1
  /\ pc = "wait" => base < head /\ head - base <= wrs.count
  /\ pc = "recv" => recvCredits >= 1 /\ wrs.count = 0

RecvInv == RecvCreditsExact /\ rqTail + Len(recvCq) <= rqHead

IInv ==
  /\ TypeOK /\ RingInv /\ CqInv /\ FailInv /\ SchedInv /\ CallInv /\ RecvInv
  /\ WaitedSuccessIsExecuted /\ NoSpuriousQueueFull

-----------------------------------------------------------------------------
(* Reclaiming n completions. *)

\* What a reclaim leaves of the ring: the tail moves up to an executed request,
\* the remaining CQEs keep their order, and an error among those taken is
\* visible from then on (Clean is false).
LEMMA ReclaimRing ==
  ASSUME TypeOK, RingInv, CqInv, FailInv,
         NEW n \in 0 .. Len(sendCq),
         ReclaimTransportSendCq(n),
         UNCHANGED <<unsignaled, head, executed, signals, failedAt>>
  PROVE  /\ sendCredits' \in Nat /\ tail' \in Nat
         /\ sendCq' \in Seq(Cqe)
         /\ RingInv' /\ CqInv' /\ FailInv'
         /\ SendFailed(n) => ~Clean'
         /\ Clean' => Clean
<1>1. QpTypeOK /\ ReclaimSend(n) /\ tail <= executed
  BY DEF TypeOK, ReclaimTransportSendCq, RingInv, RingSafe
<1>2. /\ sendCredits' \in Nat /\ tail' \in Nat /\ sendCq' \in Seq(Cqe)
      /\ CqInv' /\ FailInv' /\ tail <= tail' /\ tail' <= executed
      /\ SendFailed(n) => ~Clean'
      /\ Clean' => Clean
  BY <1>1, ReclaimCq
<1>3. tail \in Nat /\ executed \in Nat /\ head \in Nat
  BY <1>1 DEF QpTypeOK
<1>4. PICK t \in Nat : tail' = t
  BY <1>2
<1>5. RingInv'
  BY <1>2, <1>3, <1>4, QpAssumption DEF RingInv, RingSafe
<1> QED  BY <1>2, <1>5

\* What an error-free reclaim leaves of the schedule: n intervals less, and the
\* credits of the intervals still outstanding unchanged in sum.
LEMMA ReclaimSchedule ==
  ASSUME TypeOK, RingInv, CqInv, FailInv,
         NEW n \in 0 .. Len(sendCq),
         ReclaimTransportSendCq(n),
         UNCHANGED <<unsignaled, head, executed, signals, failedAt>>,
         NEW M \in Nat, Clean, ~SendFailed(n), Schedule(M)
  PROVE  /\ M - n \in Nat
         /\ Schedule(M - n)'
         /\ sendCredits' = sendCredits + Span(n)
         /\ tail' = tail + Span(n)
         /\ failedAt = None \/ failedAt >= tail'
<1> DEFINE d == SubSeq(sendCq, n + 1, Len(sendCq))
           L == Len(sendCq)
<1>a. d \in Seq(Cqe) /\ Len(d) = L - n
  BY DropFacts DEF TypeOK, QpTypeOK
<1>b. \A k \in 1 .. Len(d) : k + n \in 1 .. L /\ d[k] = sendCq[k + n]
  <2>1. sendCq \in Seq(Cqe)
    BY DEF TypeOK, QpTypeOK
  <2> QED  BY <2>1, DropFacts
<1>c. sendCq' = d /\ tail' = TailAfter(n) /\ sendCredits' = sendCredits + Span(n)
  BY DEF ReclaimTransportSendCq, ReclaimSend
<1>e. /\ tail \in Nat /\ executed \in Nat /\ head \in Nat /\ unsignaled \in Nat
      /\ sendCredits \in Nat /\ Len(sendCq) \in Nat /\ n \in Nat
  BY DEF TypeOK, QpTypeOK
<1>f. /\ unsignaled' = unsignaled /\ head' = head /\ executed' = executed
      /\ failedAt' = failedAt /\ signals' = signals
  OBVIOUS
<1>g. /\ head = tail + Span(M) + unsignaled
      /\ sendCredits = Depth - (head - tail)
  BY DEF Schedule
<1>h. failedAt \in Nat \cup {None}
  BY DEF TypeOK, QpTypeOK
<1>r. /\ executed <= head /\ head - tail <= Depth - 1 /\ unsignaled < Interval
      /\ Depth \in Nat /\ Interval \in Nat
  BY QpAssumption DEF RingInv, RingSafe
<1>1. tail' = tail + Span(n) /\ (failedAt = None \/ failedAt >= tail')
  <2>1. CASE n = 0
    BY <2>1, <1>c, <1>e, SpanFacts DEF TailAfter, Clean
  <2>2. CASE n > 0
    <3>1. n \in 1 .. L /\ sendCq[n].ok
      BY <2>2, <1>e DEF SendFailed
    <3>2. sendCq[n].wqe = tail + Span(n) - 1 /\ (failedAt = None \/ sendCq[n].wqe < failedAt)
      BY <3>1 DEF Schedule, FailInv
    <3>3. tail' = sendCq[n].wqe + 1
      BY <2>2, <1>c DEF TailAfter
    <3>4. Span(n) \in Nat
      BY SpanFacts, <1>e
    <3> QED  BY <3>2, <3>3, <3>4, <1>e, <1>h
  <2> QED  BY <2>1, <2>2, <1>e
<1>2. tail' <= executed
  BY ReclaimRing DEF RingInv, RingSafe
<1> HIDE DEF d, L
<1>s. Span(n) \in Nat /\ Span(M) \in Nat /\ Span(M - n) = Span(M) - Span(n)
  BY SpanFacts, <1>e
<1>p. PICK sn \in Nat, sm \in Nat : Span(n) = sn /\ Span(M) = sm
  BY <1>s
<1>q. tail' = tail + sn /\ head = tail + sm + unsignaled /\ Span(M - n) = sm - sn
  BY <1>1, <1>g, <1>s, <1>p, Zenon
<1>3. M - n \in Nat
  <2>1. sn <= sm + unsignaled
    BY <1>q, <1>2, <1>e, <1>r
  <2>2. ~(M < n)
    <3> SUFFICES ASSUME M < n PROVE FALSE
      OBVIOUS
    <3>1. M \in Int /\ n \in Int
      BY <1>e
    <3>2. sm + Interval <= sn
      BY <3>1, SpanFacts, <1>p, Zenon
    <3> QED  BY <3>2, <2>1, <1>e, <1>r
  <2> QED  BY <2>2, <1>e
<1>4. /\ head = tail' + Span(M - n) + unsignaled
      /\ sendCredits' = Depth - (head - tail')
  <2>1. head = tail' + (sm - sn) + unsignaled
    BY <1>q, <1>e
  <2>2. sendCredits' = sendCredits + sn
    BY <1>c, <1>p, Zenon
  <2>3. sendCredits' = Depth - (head - tail')
    BY <2>2, <1>q, <1>g, <1>e, <1>r, SMTT(30)
  <2> QED  BY <2>1, <2>3, <1>q, Zenon
<1>5. ASSUME NEW k \in 1 .. Len(d), d[k].ok
      PROVE  d[k].wqe = tail' + Span(k) - 1
  <2>1. k + n \in 1 .. L /\ d[k] = sendCq[k + n] /\ k \in Nat
    BY <1>a, <1>b, <1>e
  <2>2. sendCq[k + n].wqe = tail + Span(k + n) - 1
    BY <2>1, <1>5 DEF Schedule, L
  <2>3. Span(k + n) = Span(k) + Span(n) /\ Span(k) \in Nat
    BY <2>1, <1>e, SpanFacts
  <2> QED  BY <1>1, <1>e, <1>s, <2>1, <2>2, <2>3, SMTT(30)
<1>6. ASSUME failedAt = None
      PROVE  /\ Len(d) <= M - n
             /\ \A p \in Nat : p \in signals <=>
                   \E j \in (Len(d) + 1) .. (M - n) : p = tail' + Span(j) - 1
             /\ Len(d) < M - n => executed <= tail' + Span(Len(d) + 1) - 1
  <2>1. /\ L <= M
        /\ L < M => executed <= tail + Span(L + 1) - 1
    BY <1>6 DEF Schedule, L
  <2>2. \A p \in Nat : p \in signals <=>
             \E j \in (L + 1) .. M : p = tail + Span(j) - 1
    BY <1>6 DEF Schedule, L
  <2>l. L \in Nat /\ Len(d) \in Nat /\ Len(d) = L - n /\ M - n \in Nat
    BY <1>a, <1>e, <1>3 DEF L
  <2>3. \A j \in Int : tail + Span(j) - 1 = tail' + Span(j - n) - 1
    <3> SUFFICES ASSUME NEW j \in Int
                 PROVE  tail + Span(j) - 1 = tail' + Span(j - n) - 1
      OBVIOUS
    <3>0. n \in Int
      BY <1>e
    <3>1. Span(j - n) = Span(j) - Span(n) /\ Span(j) \in Int
      BY <3>0, SpanFacts, Zenon
    <3> QED  BY <3>1, <1>1, <1>e, <1>s, SMTT(30)
  <2>4. ASSUME NEW p \in Nat
        PROVE  p \in signals <=>
                   \E j \in (Len(d) + 1) .. (M - n) : p = tail' + Span(j) - 1
    <3>1. ASSUME NEW j \in (L + 1) .. M, p = tail + Span(j) - 1
          PROVE  \E i \in (Len(d) + 1) .. (M - n) : p = tail' + Span(i) - 1
      <4>1. j - n \in (Len(d) + 1) .. (M - n) /\ j \in Int
        BY <2>l, <1>e
      <4>2. p = tail' + Span(j - n) - 1
        BY <3>1, <4>1, <2>3, Zenon
      <4> QED  BY <4>1, <4>2, Zenon
    <3>2. ASSUME NEW i \in (Len(d) + 1) .. (M - n), p = tail' + Span(i) - 1
          PROVE  \E j \in (L + 1) .. M : p = tail + Span(j) - 1
      <4>1. i + n \in (L + 1) .. M /\ i + n \in Int /\ (i + n) - n = i
        BY <2>l, <1>e
      <4>2. tail + Span(i + n) - 1 = tail' + Span((i + n) - n) - 1
        BY <4>1, <2>3, Zenon
      <4>3. p = tail + Span(i + n) - 1
        BY <3>2, <4>1, <4>2, Zenon
      <4> QED  BY <4>1, <4>3, Zenon
    <3> QED  BY <3>1, <3>2, <2>2, Zenon
  <2>5. Len(d) < M - n => executed <= tail' + Span(Len(d) + 1) - 1
    <3>1. L + 1 \in Int /\ Len(d) + 1 = (L + 1) - n /\ (Len(d) < M - n => L < M)
      BY <2>l, <1>e
    <3>2. tail + Span(L + 1) - 1 = tail' + Span(Len(d) + 1) - 1
      BY <2>3, <3>1, Zenon
    <3> QED  BY <2>1, <3>1, <3>2, Zenon
  <2>6. Len(d) <= M - n
    BY <2>1, <2>l, <1>e
  <2> QED  BY <2>4, <2>5, <2>6
<1>7. Schedule(M - n)'
  <2>1. head' = tail' + Span(M - n) + unsignaled'
    BY <1>4, <1>f, Zenon
  <2>2. sendCredits' = Depth - (head' - tail')
    BY <1>4, <1>f, Zenon
  <2>3. \A k \in 1 .. Len(sendCq') :
           sendCq'[k].ok => sendCq'[k].wqe = tail' + Span(k) - 1
    BY <1>c, <1>5, Zenon
  <2>4. failedAt' = None =>
          /\ Len(sendCq') <= M - n
          /\ \A p \in Nat : p \in signals' <=>
                \E j \in (Len(sendCq') + 1) .. (M - n) : p = tail' + Span(j) - 1
          /\ Len(sendCq') < M - n => executed' <= tail' + Span(Len(sendCq') + 1) - 1
    BY <1>c, <1>f, <1>6, Zenon
  <2> QED  BY <2>1, <2>2, <2>3, <2>4, Zenon DEF Schedule
<1> QED  BY <1>c, <1>1, <1>3, <1>7

-----------------------------------------------------------------------------
(* One lemma per action: it preserves the inductive invariant. *)

\* The states Transport::build_device_transport creates satisfy the invariant.
LEMMA InitIInv == Init => IInv
<1> SUFFICES ASSUME Init PROVE IInv
  OBVIOUS
<1>1. /\ unsignaled = 0 /\ sendCredits = Depth /\ recvCredits = RecvDepth
      /\ head = 0 /\ tail = 0 /\ executed = 0
      /\ signals = {} /\ sendCq = <<>> /\ failedAt = None
      /\ rqHead = 0 /\ rqTail = 0 /\ recvCq = <<>>
      /\ pc = "idle" /\ wrs = [count |-> 0, bad |-> 0] /\ base = 0 /\ target = 0
      /\ ret = [status |-> "none", bad |-> 0, waited |-> FALSE]
  BY DEF Init, QpInit, NoAnswer
<1>2. Depth \in Nat /\ Depth >= 2 /\ RecvDepth \in Nat /\ Interval \in Nat /\ Interval >= 1
  BY QpAssumption
<1>3. TypeOK
  BY <1>1, <1>2 DEF TypeOK, QpTypeOK, Steps, Statuses, None
<1>4. RingInv
  BY <1>1, <1>2 DEF RingInv, RingSafe
<1>5. CqInv /\ FailInv
  BY <1>1 DEF CqInv, FailInv
<1>6. Schedule(0)
  BY <1>1, <1>2, SpanFacts DEF Schedule
<1>7. SchedInv
  BY <1>1, <1>6 DEF SchedInv
<1>8. CallInv /\ RecvInv
  BY <1>1, <1>2 DEF CallInv, RecvInv, RecvCreditsExact
<1>9. WaitedSuccessIsExecuted /\ NoSpuriousQueueFull
  BY <1>1 DEF WaitedSuccessIsExecuted, NoSpuriousQueueFull
<1> QED  BY <1>3, <1>4, <1>5, <1>7, <1>8, <1>9 DEF IInv

\* Outside the wait loop an error-free queue pair owes no completion, so the
\* reclaim of a call that starts finds the ring occupied by unsignaled sends only.
LEMMA ReclaimIdle ==
  ASSUME IInv, pc # "wait",
         NEW n \in 0 .. Len(sendCq),
         ReclaimTransportSendCq(n),
         UNCHANGED <<unsignaled, head, executed, signals, failedAt>>,
         Clean'
  PROVE  /\ Schedule(0)'
         /\ head = tail' + unsignaled /\ sendCredits' = Depth - unsignaled
<1>1. TypeOK /\ RingInv /\ CqInv /\ FailInv /\ SchedInv
  BY DEF IInv
<1>2. Clean /\ ~SendFailed(n)
  BY <1>1, ReclaimRing
<1>3. Schedule(0)
  BY <1>1, <1>2 DEF SchedInv
<1>4. 0 - n \in Nat /\ Schedule(0 - n)'
  BY <1>1, <1>2, <1>3, ReclaimSchedule
<1>5. n \in Nat
  BY <1>1 DEF TypeOK, QpTypeOK
<1>6. n = 0 /\ 0 - n = 0
  BY <1>4, <1>5
<1>7. Schedule(0)'
  BY <1>4, <1>6
<1>8. tail \in Nat /\ head \in Nat /\ unsignaled \in Nat /\ sendCredits \in Nat /\ Depth \in Nat
  BY <1>1, QpAssumption DEF TypeOK, QpTypeOK
<1>9. tail' = tail /\ sendCredits' = sendCredits
  BY <1>6, <1>8, SpanFacts DEF ReclaimTransportSendCq, ReclaimSend, TailAfter
<1>10. head = tail + unsignaled /\ sendCredits = Depth - (head - tail)
  BY <1>3, <1>8, SpanFacts, SMTT(30) DEF Schedule
<1> QED  BY <1>7, <1>8, <1>9, <1>10

\* A call that starts by reclaiming keeps the invariant of the ring and of the
\* schedule, and its Boolean history properties.
LEMMA ReclaimAtStart ==
  ASSUME IInv, pc = "idle", pc' # "wait",
         NEW n \in 0 .. Len(sendCq),
         ReclaimTransportSendCq(n),
         UNCHANGED <<unsignaled, head, executed, signals, failedAt, recvVars, target>>
  PROVE  /\ QpTypeOK'
         /\ RingInv' /\ CqInv' /\ FailInv' /\ SchedInv' /\ RecvInv'
<1>1. TypeOK /\ RingInv /\ CqInv /\ FailInv /\ SchedInv /\ RecvInv
  BY DEF IInv
<1>2. /\ sendCredits' \in Nat /\ tail' \in Nat /\ sendCq' \in Seq(Cqe)
      /\ RingInv' /\ CqInv' /\ FailInv'
  BY <1>1, ReclaimRing
<1>3. SchedInv'
  <2> SUFFICES ASSUME Clean' PROVE Schedule(0)'
    BY DEF SchedInv
  <2> QED  BY ReclaimIdle
<1>4. QpTypeOK'
  BY <1>1, <1>2 DEF TypeOK, QpTypeOK, recvVars
<1>5. RecvInv'
  BY <1>1 DEF RecvInv, RecvCreditsExact, recvVars
<1> QED  BY <1>2, <1>3, <1>4, <1>5

\* The start of a single post, with its reclaim, preserves the invariant.
LEMMA RdmaSendIInv == IInv /\ RdmaSend => IInv'
<1> SUFFICES ASSUME IInv, RdmaSend PROVE IInv'
  OBVIOUS
<1> DEFINE n == IF sendCredits = 0 THEN SendReady ELSE 0
<1>1. TypeOK /\ RingInv
  BY DEF IInv
<1>2. n \in 0 .. Len(sendCq)
  BY <1>1, ReadyFacts DEF TypeOK, QpTypeOK
<1>3. /\ pc = "idle" /\ base' = head
      /\ ReclaimTransportSendCq(n)
      /\ UNCHANGED <<unsignaled, head, executed, signals, failedAt, recvVars, target>>
  BY DEF RdmaSend
<1>4. PICK b \in {0, 1} : wrs' = [count |-> 1, bad |-> b]
  BY DEF RdmaSend
<1>5. \/ ReclaimStatus(n) # "SUCCESS" /\ Return(ReclaimStatus(n), 0, FALSE)
      \/ sendCredits' = 0 /\ Return("QUEUE_FULL", 0, FALSE)
      \/ sendCredits' # 0 /\ pc' = "send" /\ ret' = NoAnswer
  BY DEF RdmaSend
<1> HIDE DEF n
<1>6. /\ pc' \in {"idle", "send"}
      /\ pc' = "send" => sendCredits' # 0
      /\ ret' \in [status : Statuses, bad : Nat, waited : BOOLEAN]
      /\ ret'.waited = FALSE
      /\ pc' = "idle" /\ ret'.status = "QUEUE_FULL" => sendCredits' = 0
  <2>1. CASE ReclaimStatus(n) # "SUCCESS" /\ Return(ReclaimStatus(n), 0, FALSE)
    <3>1. ReclaimStatus(n) = "PROVIDER_FAILED"
      BY <2>1 DEF ReclaimStatus
    <3> QED  BY <2>1, <3>1 DEF Return, Statuses
  <2>2. CASE sendCredits' = 0 /\ Return("QUEUE_FULL", 0, FALSE)
    BY <2>2 DEF Return, Statuses
  <2>3. CASE sendCredits' # 0 /\ pc' = "send" /\ ret' = NoAnswer
    BY <2>3 DEF NoAnswer, Statuses
  <2> QED  BY <1>5, <2>1, <2>2, <2>3
<1>7. /\ QpTypeOK'
      /\ RingInv' /\ CqInv' /\ FailInv' /\ SchedInv' /\ RecvInv'
  BY <1>2, <1>3, <1>6, ReclaimAtStart
<1>8. TypeOK'
  BY <1>1, <1>3, <1>4, <1>6, <1>7, SMTT(30) DEF TypeOK, QpTypeOK, Steps
<1>9. CallInv'
  <2>1. sendCredits' \in Nat
    BY <1>7 DEF QpTypeOK
  <2>2. PICK c \in Nat : sendCredits' = c
    BY <2>1
  <2> QED  BY <2>2, <1>3, <1>4, <1>6 DEF CallInv
<1>10. WaitedSuccessIsExecuted'
  BY <1>6 DEF WaitedSuccessIsExecuted
<1>11. NoSpuriousQueueFull'
  <2> SUFFICES ASSUME Interval < Depth, failedAt' = None, sendCredits' = 0
               PROVE  FALSE
    BY <1>6 DEF NoSpuriousQueueFull
  <2>1. Clean' /\ pc # "wait"
    BY <1>3 DEF Clean
  <2>2. sendCredits' = Depth - unsignaled
    BY <2>1, <1>2, <1>3, ReclaimIdle
  <2>3. unsignaled \in Nat /\ unsignaled < Interval /\ Interval \in Nat /\ Depth \in Nat
    BY <1>1, QpAssumption DEF TypeOK, QpTypeOK, RingInv
  <2>4. 0 = Depth - unsignaled
    BY <2>2, Zenon
  <2> QED  BY <2>3, <2>4
<1> QED  BY <1>7, <1>8, <1>9, <1>10, <1>11 DEF IInv

\* The start of a batch post, with its reclaim, preserves the invariant.
LEMMA RdmaSendBatchIInv ==
  ASSUME IInv, NEW count \in 1 .. MaxBatch, RdmaSendBatch(count)
  PROVE  IInv'
<1> DEFINE n == IF QueueAvailable = 0 \/ sendCredits = 0 THEN SendReady ELSE 0
<1>1. TypeOK /\ RingInv
  BY DEF IInv
<1>2. n \in 0 .. Len(sendCq)
  BY <1>1, ReadyFacts DEF TypeOK, QpTypeOK
<1>3. /\ pc = "idle" /\ base' = head
      /\ ReclaimTransportSendCq(n)
      /\ UNCHANGED <<unsignaled, head, executed, signals, failedAt, recvVars, target>>
  BY DEF RdmaSendBatch
<1>4. PICK b \in 0 .. count : wrs' = [count |-> count, bad |-> b]
  BY DEF RdmaSendBatch
<1>5. \/ ReclaimStatus(n) # "SUCCESS" /\ Return(ReclaimStatus(n), 0, FALSE)
      \/ pc' = "batch" /\ ret' = NoAnswer
  BY DEF RdmaSendBatch
<1> HIDE DEF n
<1>6. /\ pc' \in {"idle", "batch"}
      /\ ret' \in [status : Statuses, bad : Nat, waited : BOOLEAN]
      /\ ret'.waited = FALSE /\ ret'.status # "QUEUE_FULL"
  <2>1. CASE ReclaimStatus(n) # "SUCCESS" /\ Return(ReclaimStatus(n), 0, FALSE)
    <3>1. ReclaimStatus(n) = "PROVIDER_FAILED"
      BY <2>1 DEF ReclaimStatus
    <3> QED  BY <2>1, <3>1 DEF Return, Statuses
  <2>2. CASE pc' = "batch" /\ ret' = NoAnswer
    BY <2>2 DEF NoAnswer, Statuses
  <2> QED  BY <1>5, <2>1, <2>2
<1>7. /\ QpTypeOK'
      /\ RingInv' /\ CqInv' /\ FailInv' /\ SchedInv' /\ RecvInv'
  BY <1>2, <1>3, <1>6, ReclaimAtStart
<1>8. TypeOK'
  <2>1. b \in Nat /\ count \in Nat
    BY <1>4, MaxBatchAssumption
  <2> QED  BY <2>1, <1>1, <1>3, <1>4, <1>6, <1>7 DEF TypeOK, QpTypeOK, Steps
<1>9. CallInv'
  BY <1>3, <1>6 DEF CallInv
<1>10. WaitedSuccessIsExecuted' /\ NoSpuriousQueueFull'
  BY <1>6 DEF WaitedSuccessIsExecuted, NoSpuriousQueueFull
<1> QED  BY <1>7, <1>8, <1>9, <1>10 DEF IInv

\* Steps of a call that leave the ring, the CQs and the adapter alone.
LEMMA RingUnchanged ==
  ASSUME IInv, UNCHANGED <<sendVars, nicVars, recvVars>>,
         pc # "wait", pc' # "wait"
  PROVE  QpTypeOK' /\ RingInv' /\ CqInv' /\ FailInv' /\ SchedInv' /\ RecvInv'
<1>1. /\ unsignaled' = unsignaled /\ sendCredits' = sendCredits /\ head' = head
      /\ tail' = tail /\ executed' = executed /\ signals' = signals
      /\ sendCq' = sendCq /\ failedAt' = failedAt
      /\ recvCredits' = recvCredits /\ rqHead' = rqHead /\ rqTail' = rqTail
      /\ recvCq' = recvCq
  BY DEF sendVars, nicVars, recvVars
<1>2. TypeOK /\ RingInv /\ CqInv /\ FailInv /\ SchedInv /\ RecvInv
  BY DEF IInv
<1>3. QpTypeOK' /\ RingInv' /\ CqInv' /\ FailInv' /\ RecvInv'
  BY <1>1, <1>2 DEF TypeOK, QpTypeOK, RingInv, RingSafe, CqInv, FailInv, RecvInv, RecvCreditsExact
<1>4. Clean' => Clean
  BY <1>1 DEF Clean
<1>5. Schedule(0) => Schedule(0)'
  BY <1>1 DEF Schedule
<1>6. SchedInv'
  BY <1>2, <1>4, <1>5 DEF SchedInv
<1> QED  BY <1>3, <1>6

\* A single post finds room: outside the wait loop only unsignaled sends, fewer
\* than an interval, occupy the ring.
LEMMA RoomWhenIdle ==
  ASSUME IInv, pc # "wait", Interval < Depth, failedAt = None
  PROVE  QueueAvailable >= 1 /\ sendCredits >= 1
<1>1. TypeOK /\ RingInv /\ SchedInv /\ Clean
  BY DEF IInv, Clean
<1>2. Schedule(0)
  BY <1>1 DEF SchedInv
<1>3. /\ unsignaled \in Nat /\ unsignaled < Interval /\ Interval \in Nat /\ Depth \in Nat
      /\ head \in Nat /\ tail \in Nat /\ sendCredits \in Nat
  BY <1>1, QpAssumption DEF TypeOK, QpTypeOK, RingInv
<1>4. head = tail + unsignaled /\ sendCredits = Depth - (head - tail)
  BY <1>2, <1>3, SpanFacts, SMTT(30) DEF Schedule
<1> QED  BY <1>3, <1>4 DEF QueueAvailable

\* A single post that is turned away preserves the invariant.
LEMMA PostTransportSendRefusedIInv == IInv /\ PostTransportSendRefused => IInv'
<1> SUFFICES ASSUME IInv, PostTransportSendRefused PROVE IInv'
  OBVIOUS
<1>1. /\ pc = "send" /\ pc' = "idle" /\ wrs' = wrs /\ base' = base /\ target' = target
      /\ UNCHANGED <<sendVars, nicVars, recvVars>>
      /\ \/ ret' = [status |-> "INVALID_ARGUMENT", bad |-> 0, waited |-> FALSE]
         \/ /\ QueueAvailable = 0
            /\ ret' = [status |-> "QUEUE_FULL", bad |-> 0, waited |-> FALSE]
  BY DEF PostTransportSendRefused, Return
<1>2. QpTypeOK' /\ RingInv' /\ CqInv' /\ FailInv' /\ SchedInv' /\ RecvInv'
  BY <1>1, RingUnchanged
<1>3. TypeOK'
  <2>1. wrs \in [count : Nat, bad : Nat] /\ base \in Nat /\ target \in Nat
    BY DEF IInv, TypeOK
  <2>2. wrs.bad \in Nat
    BY <2>1
  <2>3. ret' \in [status : Statuses, bad : Nat, waited : BOOLEAN]
    <3>1. CASE ret' = [status |-> "INVALID_ARGUMENT", bad |-> 0, waited |-> FALSE]
      BY <3>1, <2>2 DEF Statuses
    <3>2. CASE ret' = [status |-> "QUEUE_FULL", bad |-> 0, waited |-> FALSE]
      BY <3>2 DEF Statuses
    <3> QED  BY <1>1, <3>1, <3>2
  <2> QED  BY <1>1, <1>2, <2>1, <2>3 DEF TypeOK, Steps
<1>4. CallInv' /\ WaitedSuccessIsExecuted'
  BY <1>1 DEF CallInv, WaitedSuccessIsExecuted
<1>5. NoSpuriousQueueFull'
  <2> SUFFICES ASSUME Interval < Depth, failedAt = None, QueueAvailable = 0 PROVE FALSE
    BY <1>1 DEF NoSpuriousQueueFull, nicVars
  <2> QED  BY <1>1, RoomWhenIdle
<1> QED  BY <1>2, <1>3, <1>4, <1>5 DEF IInv

\* A batch that is turned away preserves the invariant.
LEMMA PostTransportSendBatchRefusedIInv == IInv /\ PostTransportSendBatchRefused => IInv'
<1> SUFFICES ASSUME IInv, PostTransportSendBatchRefused PROVE IInv'
  OBVIOUS
<1>1. /\ pc = "batch" /\ pc' = "idle" /\ wrs' = wrs /\ base' = base /\ target' = target
      /\ UNCHANGED <<sendVars, nicVars, recvVars>>
      /\ \/ ret' = [status |-> "INVALID_ARGUMENT", bad |-> wrs.bad, waited |-> FALSE]
         \/ /\ BatchRoom = 0
            /\ ret' = [status |-> "QUEUE_FULL", bad |-> 1, waited |-> FALSE]
  BY DEF PostTransportSendBatchRefused, Return
<1>2. QpTypeOK' /\ RingInv' /\ CqInv' /\ FailInv' /\ SchedInv' /\ RecvInv'
  BY <1>1, RingUnchanged
<1>3. TypeOK'
  <2>1. wrs \in [count : Nat, bad : Nat] /\ base \in Nat /\ target \in Nat
    BY DEF IInv, TypeOK
  <2>2. wrs.bad \in Nat
    BY <2>1
  <2>3. ret' \in [status : Statuses, bad : Nat, waited : BOOLEAN]
    <3>1. CASE ret' = [status |-> "INVALID_ARGUMENT", bad |-> wrs.bad, waited |-> FALSE]
      BY <3>1, <2>2 DEF Statuses
    <3>2. CASE ret' = [status |-> "QUEUE_FULL", bad |-> 1, waited |-> FALSE]
      BY <3>2 DEF Statuses
    <3> QED  BY <1>1, <3>1, <3>2
  <2> QED  BY <1>1, <1>2, <2>1, <2>3 DEF TypeOK, Steps
<1>4. CallInv' /\ WaitedSuccessIsExecuted'
  BY <1>1 DEF CallInv, WaitedSuccessIsExecuted
<1>5. NoSpuriousQueueFull'
  <2> SUFFICES ASSUME Interval < Depth, failedAt = None, BatchRoom = 0, wrs.count = 1 PROVE FALSE
    BY <1>1 DEF NoSpuriousQueueFull, nicVars
  <2>1. QueueAvailable >= 1 /\ sendCredits >= 1
    BY <1>1, RoomWhenIdle
  <2>2. sendCredits \in Nat /\ QueueAvailable \in Nat
    BY QpAssumption DEF IInv, TypeOK, QpTypeOK, QueueAvailable
  <2> QED  BY <2>1, <2>2 DEF BatchRoom, Min2
<1> QED  BY <1>2, <1>3, <1>4, <1>5 DEF IInv

\* k requests, c of them signaled, posted into a ring that has room for them.
LEMMA PostPreserves ==
  ASSUME IInv, pc # "wait",
         NEW k \in Nat, k >= 1, k <= QueueAvailable, k <= sendCredits,
         NEW c \in Nat, SignalCount(k, c), RecordSends(k, c),
         target' = WaitTarget(c),
         pc' = (IF c = 0 THEN "idle" ELSE "wait"),
         UNCHANGED <<tail, executed, sendCq, failedAt, recvVars>>
  PROVE  /\ QpTypeOK' /\ RingInv' /\ CqInv' /\ FailInv' /\ RecvInv'
         /\ SchedInv' /\ target' \in Nat
<1>1. TypeOK /\ RingInv /\ CqInv /\ FailInv /\ SchedInv /\ RecvInv
  BY DEF IInv
<1>2. /\ unsignaled \in Nat /\ sendCredits \in Nat /\ head \in Nat /\ tail \in Nat
      /\ executed \in Nat /\ signals \subseteq Nat
      /\ Depth \in Nat /\ Interval \in Nat /\ Interval >= 1
  BY <1>1, QpAssumption DEF TypeOK, QpTypeOK
<1>3. /\ tail' = tail /\ executed' = executed /\ sendCq' = sendCq /\ failedAt' = failedAt
      /\ recvCredits' = recvCredits /\ rqHead' = rqHead /\ rqTail' = rqTail
      /\ recvCq' = recvCq
  BY DEF recvVars
<1>4. PICK sc \in Nat : Span(c) = sc
  BY SpanFacts
<1>5. /\ unsignaled' = unsignaled + k - sc /\ sendCredits' = sendCredits - k
      /\ head' = head + k
      /\ unsignaled + k - sc >= 0 /\ unsignaled + k - sc < Interval
      /\ target' = sendCredits' + sc
  BY <1>2, <1>4 DEF RecordSends, SignalCount, WaitTarget
<1>6. /\ tail <= executed /\ executed <= head /\ head - tail <= Depth - 1
      /\ unsignaled < Interval
  BY <1>1 DEF RingInv, RingSafe
<1>7. k <= Depth - 1 - (head - tail)
  BY <1>2, <1>6 DEF QueueAvailable
<1>8. RingInv'
  BY <1>2, <1>3, <1>5, <1>6, <1>7 DEF RingInv, RingSafe
<1>9. CqInv' /\ FailInv' /\ RecvInv'
  BY <1>1, <1>3 DEF CqInv, FailInv, RecvInv, RecvCreditsExact
<1>10. signals' = signals \cup {head + Span(j) - unsignaled - 1 : j \in 1 .. c}
  BY DEF RecordSends, SignalPositions
<1>11. ASSUME NEW j \in 1 .. c
       PROVE  head + Span(j) - unsignaled - 1 \in Nat
  <2>1. 0 \in Int /\ j \in Int /\ 0 < j
    OBVIOUS
  <2>2. Span(0) + Interval <= Span(j) /\ Span(0) = 0 /\ Span(j) \in Int
    BY <2>1, SpanFacts, Zenon
  <2>3. PICK sj \in Int : Span(j) = sj
    BY <2>2
  <2>4. Interval <= sj
    BY <2>2, <2>3, <1>2
  <2>5. head + sj - unsignaled - 1 \in Nat
    BY <2>4, <1>2, <1>6
  <2> QED  BY <2>3, <2>5, Zenon
<1>12. unsignaled' \in Nat /\ sendCredits' \in Nat /\ head' \in Nat /\ target' \in Nat
  BY <1>2, <1>5
<1>13. signals' \subseteq Nat
  BY <1>2, <1>10, <1>11
<1>14. QpTypeOK'
  BY <1>1, <1>3, <1>12, <1>13 DEF TypeOK, QpTypeOK
<1>15. ASSUME Clean, Schedule(0) PROVE Schedule(c)'
  <2>1. head = tail + unsignaled /\ sendCredits = Depth - (head - tail)
    BY <1>15, <1>2, SpanFacts, SMTT(30) DEF Schedule
  <2>2. /\ head' = tail' + sc + unsignaled'
        /\ sendCredits' = Depth - (head' - tail')
    BY <2>1, <1>2, <1>3, <1>5
  <2>3. /\ head' = tail' + Span(c) + unsignaled'
        /\ sendCredits' = Depth - (head' - tail')
    BY <2>2, <1>4, Zenon
  <2>4. \A i \in 1 .. Len(sendCq') : sendCq'[i].ok => sendCq'[i].wqe = tail' + Span(i) - 1
    BY <1>3, <1>15, Zenon DEF Schedule
  <2>5. ASSUME failedAt = None
        PROVE  /\ Len(sendCq) <= c
               /\ \A p \in Nat : p \in signals' <=>
                     \E j \in (Len(sendCq) + 1) .. c : p = tail + Span(j) - 1
               /\ Len(sendCq) < c => executed <= tail + Span(Len(sendCq) + 1) - 1
    <3>1. Len(sendCq) = 0
      BY <2>5, <1>1, <1>15, SMTT(30) DEF Schedule, TypeOK, QpTypeOK
    <3>2. \A p \in Nat : p \notin signals
      <4> SUFFICES ASSUME NEW p \in Nat, p \in signals PROVE FALSE
        OBVIOUS
      <4>1. PICK j \in (Len(sendCq) + 1) .. 0 : TRUE
        BY <2>5, <1>15 DEF Schedule
      <4> QED  BY <4>1, <3>1
    <3>3. signals' = {head + Span(j) - unsignaled - 1 : j \in 1 .. c}
      BY <3>2, <1>2, <1>10
    <3>4. \A j \in 1 .. c : head + Span(j) - unsignaled - 1 = tail + Span(j) - 1
      <4> SUFFICES ASSUME NEW j \in 1 .. c
                   PROVE  head + Span(j) - unsignaled - 1 = tail + Span(j) - 1
        OBVIOUS
      <4>0. Span(j) \in Int
        <5>1. j \in Int
          OBVIOUS
        <5> QED  BY <5>1, SpanFacts, Zenon
      <4>1. PICK sj \in Int : Span(j) = sj
        BY <4>0
      <4>2. head + sj - unsignaled - 1 = tail + sj - 1
        BY <2>1, <1>2
      <4> QED  BY <4>1, <4>2, Zenon
    <3>5. \A p \in Nat : p \in signals' <=> \E j \in 1 .. c : p = tail + Span(j) - 1
      BY <3>3, <3>4, Zenon
    <3>6. Len(sendCq) + 1 = 1
      BY <3>1
    <3>7. executed <= tail + Interval - 1
      BY <2>1, <1>2, <1>6
    <3>8. Span(Len(sendCq) + 1) = Interval
      BY <3>6, SpanFacts
    <3>9. executed <= tail + Span(Len(sendCq) + 1) - 1
      BY <3>7, <3>8, Zenon
    <3>10. Len(sendCq) <= c
      BY <3>1
    <3> QED  BY <3>5, <3>6, <3>9, <3>10, Zenon
  <2>6. failedAt' = None =>
          /\ Len(sendCq') <= c
          /\ \A p \in Nat : p \in signals' <=>
                \E j \in (Len(sendCq') + 1) .. c : p = tail' + Span(j) - 1
          /\ Len(sendCq') < c => executed' <= tail' + Span(Len(sendCq') + 1) - 1
    BY <2>5, <1>3, Zenon
  <2> QED  BY <2>3, <2>4, <2>6, Zenon DEF Schedule
<1>16. SchedInv'
  <2> SUFFICES ASSUME Clean'
               PROVE  /\ Schedule(c)'
                      /\ pc' # "wait" => c = 0
                      /\ pc' = "wait" => target' = sendCredits' + Span(c)
    BY DEF SchedInv
  <2>1. Clean
    BY <1>3 DEF Clean
  <2>2. Schedule(0)
    BY <2>1, <1>1 DEF SchedInv
  <2>3. target' = sendCredits' + Span(c)
    BY <1>4, <1>5, Zenon
  <2> QED  BY <2>1, <2>2, <2>3, <1>15
<1> QED  BY <1>8, <1>9, <1>12, <1>14, <1>16

\* A single post preserves the invariant.
LEMMA PostTransportSendIInv == IInv /\ PostTransportSend => IInv'
<1> SUFFICES ASSUME IInv, PostTransportSend PROVE IInv'
  OBVIOUS
<1>1. /\ pc = "send" /\ wrs.bad = 0 /\ QueueAvailable # 0
      /\ UNCHANGED <<tail, executed, sendCq, failedAt, recvVars>>
      /\ wrs' = wrs /\ base' = base
  BY DEF PostTransportSend
<1>2. PICK c \in {0, 1} :
        /\ SignalCount(1, c) /\ RecordSends(1, c) /\ target' = WaitTarget(c)
        /\ IF c = 0 THEN Return("SUCCESS", 0, FALSE) ELSE pc' = "wait" /\ UNCHANGED ret
  BY DEF PostTransportSend
<1>3. /\ pc' = (IF c = 0 THEN "idle" ELSE "wait")
      /\ ret' = IF c = 0 THEN [status |-> "SUCCESS", bad |-> 0, waited |-> FALSE] ELSE ret
  BY <1>2 DEF Return
<1>4. TypeOK /\ CallInv
  BY DEF IInv
<1>5. QueueAvailable \in Nat /\ sendCredits >= 1 /\ wrs.count = 1 /\ base = head /\ head \in Nat
  BY <1>1, <1>4, QpAssumption DEF CallInv, TypeOK, QpTypeOK, QueueAvailable
<1>6. /\ QpTypeOK' /\ RingInv' /\ CqInv' /\ FailInv' /\ RecvInv'
      /\ SchedInv' /\ target' \in Nat
  BY <1>1, <1>2, <1>3, <1>5, PostPreserves
<1>7. TypeOK'
  <2>1. wrs \in [count : Nat, bad : Nat] /\ base \in Nat /\ ret \in [status : Statuses, bad : Nat, waited : BOOLEAN]
    BY <1>4 DEF TypeOK
  <2>2. ret' \in [status : Statuses, bad : Nat, waited : BOOLEAN]
    BY <1>3, <2>1 DEF Statuses
  <2> QED  BY <1>1, <1>3, <1>6, <2>1, <2>2 DEF TypeOK, Steps
<1>8. head' = head + 1
  BY <1>2 DEF RecordSends
<1>9. CallInv'
  BY <1>1, <1>3, <1>5, <1>8 DEF CallInv
<1>10. WaitedSuccessIsExecuted' /\ NoSpuriousQueueFull'
  <2>1. pc' = "idle" => ret'.waited = FALSE /\ ret'.status = "SUCCESS"
    BY <1>3
  <2> QED  BY <2>1 DEF WaitedSuccessIsExecuted, NoSpuriousQueueFull
<1> QED  BY <1>6, <1>7, <1>9, <1>10 DEF IInv

\* A batch post, whole or cut to a prefix, preserves the invariant.
LEMMA PostTransportSendBatchIInv == IInv /\ PostTransportSendBatch => IInv'
<1> SUFFICES ASSUME IInv, PostTransportSendBatch PROVE IInv'
  OBVIOUS
<1> DEFINE k == BatchRoom
<1>1. /\ pc = "batch" /\ k # 0
      /\ UNCHANGED <<tail, executed, sendCq, failedAt, recvVars>>
      /\ wrs' = wrs /\ base' = base
  BY DEF PostTransportSendBatch
<1>2. PICK c \in 0 .. k :
        /\ SignalCount(k, c) /\ RecordSends(k, c) /\ target' = WaitTarget(c)
        /\ IF c = 0 THEN Return(BatchStatus(k), FirstUnposted(k), FALSE)
                    ELSE pc' = "wait" /\ UNCHANGED ret
  BY DEF PostTransportSendBatch
<1>3. /\ pc' = (IF c = 0 THEN "idle" ELSE "wait")
      /\ ret' = IF c = 0
                THEN [status |-> BatchStatus(k), bad |-> FirstUnposted(k), waited |-> FALSE]
                ELSE ret
  BY <1>2 DEF Return
<1>4. TypeOK /\ CallInv
  BY DEF IInv
<1>5. /\ QueueAvailable \in Nat /\ base = head /\ head \in Nat /\ sendCredits \in Nat
      /\ wrs.count \in Nat
  BY <1>1, <1>4, QpAssumption DEF CallInv, TypeOK, QpTypeOK, QueueAvailable
<1>6. k \in Nat /\ k >= 1 /\ k <= QueueAvailable /\ k <= sendCredits /\ k <= wrs.count
  BY <1>1, <1>5 DEF BatchRoom, Min2
<1> HIDE DEF k
<1>7. c \in Nat
  BY <1>6
<1>8. /\ QpTypeOK' /\ RingInv' /\ CqInv' /\ FailInv' /\ RecvInv'
      /\ SchedInv' /\ target' \in Nat
  BY <1>1, <1>2, <1>3, <1>6, <1>7, PostPreserves
<1>9. BatchStatus(k) \in Statuses /\ FirstUnposted(k) \in Nat
  BY <1>6 DEF BatchStatus, FirstUnposted, Statuses
<1>10. TypeOK'
  <2>1. wrs \in [count : Nat, bad : Nat] /\ base \in Nat /\ ret \in [status : Statuses, bad : Nat, waited : BOOLEAN]
    BY <1>4 DEF TypeOK
  <2>2. ret' \in [status : Statuses, bad : Nat, waited : BOOLEAN]
    BY <1>3, <1>9, <2>1
  <2> QED  BY <1>1, <1>3, <1>8, <2>1, <2>2 DEF TypeOK, Steps
<1>11. head' = head + k
  BY <1>2 DEF RecordSends
<1>12. CallInv'
  BY <1>1, <1>3, <1>5, <1>6, <1>11 DEF CallInv
<1>13. WaitedSuccessIsExecuted' /\ NoSpuriousQueueFull'
  <2>1. wrs.count = 1 => k = wrs.count
    BY <1>5, <1>6
  <2>2. pc' = "idle" => ret'.waited = FALSE /\ (wrs'.count = 1 => ret'.status = "SUCCESS")
    BY <1>1, <1>3, <2>1 DEF BatchStatus
  <2> QED  BY <2>2 DEF WaitedSuccessIsExecuted, NoSpuriousQueueFull
<1> QED  BY <1>8, <1>10, <1>12, <1>13 DEF IInv

\* Once an error completion was taken every later completion is an error too.
LEMMA NotCleanFails ==
  ASSUME IInv, ~Clean, NEW n \in 1 .. Len(sendCq)
  PROVE  SendFailed(n)
<1>1. TypeOK /\ CqInv /\ FailInv
  BY DEF IInv
<1>2. sendCq[n].wqe \in Nat /\ tail \in Nat /\ failedAt \in Nat \cup {None}
  BY <1>1, CqeFields DEF TypeOK, QpTypeOK
<1>3. failedAt # None /\ failedAt < tail
  BY <1>2 DEF Clean, None
<1>4. tail <= sendCq[n].wqe
  BY <1>1 DEF CqInv
<1>5. ~sendCq[n].ok
  BY <1>1, <1>2, <1>3, <1>4 DEF FailInv
<1>6. n \in 1 .. n
  BY <1>1 DEF TypeOK, QpTypeOK
<1> QED  BY <1>5, <1>6 DEF SendFailed

\* A turn of the wait loop preserves the invariant; when it ends the wait with
\* success, nothing signaled is outstanding.
LEMMA WaitForSendCompletionIInv == IInv /\ WaitForSendCompletion => IInv'
<1> SUFFICES ASSUME IInv, WaitForSendCompletion PROVE IInv'
  OBVIOUS
<1> DEFINE posted == head - base
<1>2. TypeOK /\ RingInv /\ CqInv /\ FailInv /\ SchedInv /\ RecvInv /\ CallInv
  BY DEF IInv
<1>0. PICK n \in 0 .. Len(sendCq) : n = SendReady
  BY <1>2, ReadyFacts DEF TypeOK
<1>1. /\ pc = "wait" /\ sendCq # <<>>
      /\ ReclaimTransportSendCq(n)
      /\ UNCHANGED <<unsignaled, head, executed, signals, failedAt>>
      /\ UNCHANGED recvVars
      /\ wrs' = wrs /\ base' = base /\ target' = target
  BY <1>0 DEF WaitForSendCompletion
<1>3. n \in 1 .. Len(sendCq)
  BY <1>0, <1>1, <1>2, ReadyFacts DEF TypeOK
<1>4. \/ /\ SendFailed(n)
         /\ pc' = "idle"
         /\ ret' = [status |-> "PROVIDER_FAILED", bad |-> 0, waited |-> TRUE]
      \/ /\ ~SendFailed(n) /\ sendCredits' >= target
         /\ pc' = "idle"
         /\ ret' = [status |-> BatchStatus(posted), bad |-> FirstUnposted(posted), waited |-> TRUE]
      \/ /\ ~SendFailed(n) /\ ~(sendCredits' >= target)
         /\ pc' = pc /\ ret' = ret
  BY <1>0 DEF WaitForSendCompletion, ReclaimStatus, Return
<1>5. /\ head \in Nat /\ base \in Nat /\ wrs.count \in Nat /\ tail \in Nat /\ executed \in Nat
      /\ base < head /\ head - base <= wrs.count /\ unsignaled \in Nat
      /\ target \in Nat /\ sendCredits \in Nat /\ failedAt \in Nat \cup {None}
  BY <1>1, <1>2 DEF TypeOK, QpTypeOK, CallInv
<1>6. posted \in Nat /\ posted >= 1 /\ posted <= wrs.count
  BY <1>5
<1> HIDE DEF posted
<1>7. /\ sendCredits' \in Nat /\ tail' \in Nat /\ sendCq' \in Seq(Cqe)
      /\ RingInv' /\ CqInv' /\ FailInv'
      /\ SendFailed(n) => ~Clean'
      /\ Clean' => Clean
  BY <1>1, <1>2, <1>3, ReclaimRing
<1>8. QpTypeOK' /\ RecvInv'
  BY <1>1, <1>2, <1>7 DEF TypeOK, QpTypeOK, recvVars, RecvInv, RecvCreditsExact
<1>9. TypeOK'
  <2>1. /\ wrs \in [count : Nat, bad : Nat] /\ base \in Nat /\ target \in Nat
        /\ ret \in [status : Statuses, bad : Nat, waited : BOOLEAN]
    BY <1>2 DEF TypeOK
  <2>2. BatchStatus(posted) \in Statuses /\ FirstUnposted(posted) \in Nat
    BY <1>6 DEF BatchStatus, FirstUnposted, Statuses
  <2>3. ret' \in [status : Statuses, bad : Nat, waited : BOOLEAN] /\ pc' \in Steps
    <3>1. CASE ret' = [status |-> "PROVIDER_FAILED", bad |-> 0, waited |-> TRUE] /\ pc' = "idle"
      BY <3>1 DEF Statuses, Steps
    <3>2. CASE /\ ret' = [status |-> BatchStatus(posted), bad |-> FirstUnposted(posted), waited |-> TRUE]
               /\ pc' = "idle"
      BY <3>2, <2>2 DEF Steps
    <3>3. CASE ret' = ret /\ pc' = pc
      BY <3>3, <2>1, <1>1 DEF Steps
    <3> QED  BY <1>4, <3>1, <3>2, <3>3
  <2> QED  BY <1>1, <1>8, <2>1, <2>3 DEF TypeOK
<1>10. CallInv'
  <2>1. pc' \in {"idle", "wait"}
    BY <1>1, <1>4
  <2>2. head' = head
    BY <1>1
  <2> QED  BY <2>1, <2>2, <1>1, <1>5 DEF CallInv
<1>11. ASSUME Clean, ~SendFailed(n)
       PROVE  \E M \in Nat : /\ Schedule(M)'
                             /\ target' = sendCredits' + Span(M)
                             /\ sendCredits' >= target => M = 0
                             /\ M = 0 => head = tail' + unsignaled
                             /\ failedAt = None \/ failedAt >= tail'
  <2>1. PICK M \in Nat : Schedule(M) /\ target = sendCredits + Span(M)
    BY <1>1, <1>2, <1>11 DEF SchedInv
  <2>a. Schedule(M)
    BY <2>1, Zenon
  <2>2. /\ M - n \in Nat /\ Schedule(M - n)'
        /\ sendCredits' = sendCredits + Span(n) /\ tail' = tail + Span(n)
        /\ failedAt = None \/ failedAt >= tail'
    BY <1>1, <1>2, <1>3, <1>11, <2>a, ReclaimSchedule
  <2>3. n \in Int /\ M \in Int /\ M - n \in Int /\ 0 \in Int
    BY <1>3
  <2>4. Span(M - n) = Span(M) - Span(n) /\ Span(M) \in Int /\ Span(n) \in Int
    BY <2>3, SpanFacts, Zenon
  <2>5. PICK sm \in Int, sn \in Int : sm = Span(M) /\ sn = Span(n)
    BY <2>4
  <2>6. target = sendCredits + sm /\ sendCredits' = sendCredits + sn /\ Span(M - n) = sm - sn
    BY <2>1, <2>2, <2>4, <2>5, Zenon
  <2>7. target = sendCredits' + (sm - sn)
    BY <2>6, <1>5
  <2>8. target' = sendCredits' + Span(M - n)
    BY <2>6, <2>7, <1>1, Zenon
  <2>9. sendCredits' >= target => M - n = 0
    <3> SUFFICES ASSUME sendCredits' >= target, M - n # 0 PROVE FALSE
      OBVIOUS
    <3>1. 0 < M - n
      BY <2>2
    <3>2. Span(0) + Interval <= Span(M - n) /\ Span(0) = 0
      BY <2>3, <3>1, SpanFacts, Zenon
    <3>3. 0 + Interval <= sm - sn
      BY <2>6, <3>2, Zenon
    <3> QED  BY <3>3, <2>6, <1>5, QpAssumption
  <2>10. M - n = 0 => head = tail' + unsignaled
    <3> SUFFICES ASSUME M - n = 0 PROVE head = tail' + unsignaled
      OBVIOUS
    <3>1. head' = tail' + Span(M - n) + unsignaled'
      BY <2>2, Zenon DEF Schedule
    <3>2. head' = tail' + Span(0) + unsignaled'
      BY <3>1, Zenon
    <3>3. PICK t \in Nat : tail' = t
      BY <1>7
    <3>4. head = t + 0 + unsignaled
      BY <3>2, <3>3, <1>1, SpanFacts, Zenon
    <3>5. head = t + unsignaled
      BY <3>4, <1>5
    <3> QED  BY <3>3, <3>5, Zenon
  <2> QED  BY <2>2, <2>8, <2>9, <2>10, Zenon
<1>12. SchedInv'
  <2> SUFFICES ASSUME Clean'
               PROVE  \E M \in Nat : /\ Schedule(M)'
                                     /\ pc' # "wait" => M = 0
                                     /\ pc' = "wait" => target' = sendCredits' + Span(M)
    BY DEF SchedInv
  <2>1. Clean /\ ~SendFailed(n)
    BY <1>7
  <2> QED  BY <2>1, <1>1, <1>4, <1>11
<1>13. WaitedSuccessIsExecuted'
  <2> SUFFICES ASSUME pc' = "idle", ret'.status # "PROVIDER_FAILED"
               PROVE  /\ executed' >= head' - unsignaled'
                      /\ failedAt' # None => failedAt' >= head' - unsignaled'
    BY DEF WaitedSuccessIsExecuted
  <2>1. ~SendFailed(n) /\ sendCredits' >= target
    BY <1>1, <1>4
  <2>2. Clean
    BY <2>1, <1>3, NotCleanFails
  <2>3. head = tail' + unsignaled /\ (failedAt = None \/ failedAt >= tail')
    BY <2>1, <2>2, <1>11
  <2>4. tail' <= executed
    BY <1>1, <1>7 DEF RingInv, RingSafe
  <2>5. PICK t \in Nat : tail' = t
    BY <1>7
  <2>6. head = t + unsignaled /\ (failedAt = None \/ failedAt >= t) /\ t <= executed
    BY <2>3, <2>4, <2>5, Zenon
  <2>7. executed >= head - unsignaled /\ (failedAt # None => failedAt >= head - unsignaled)
    BY <2>6, <1>5
  <2> QED  BY <2>7, <1>1, Zenon
<1>14. NoSpuriousQueueFull'
  <2>1. wrs.count = 1 => posted = wrs.count
    BY <1>5, <1>6
  <2>2. pc' = "idle" /\ wrs'.count = 1 => ret'.status # "QUEUE_FULL"
    BY <1>1, <1>4, <2>1 DEF BatchStatus
  <2> QED  BY <2>2 DEF NoSpuriousQueueFull
<1> QED  BY <1>7, <1>8, <1>9, <1>10, <1>12, <1>13, <1>14 DEF IInv

\* The start of a receive post, with its reclaim, preserves the invariant.
LEMMA RdmaRecvIInv == IInv /\ RdmaRecv => IInv'
<1> SUFFICES ASSUME IInv, RdmaRecv PROVE IInv'
  OBVIOUS
<1>1. TypeOK /\ RingInv /\ CqInv /\ FailInv /\ SchedInv /\ RecvInv
  BY DEF IInv
<1>2. PICK n \in 0 .. Len(recvCq) : n = IF recvCredits = 0 THEN RecvReady ELSE 0
  BY <1>1, ReadyFacts DEF TypeOK, QpTypeOK
<1>3. /\ pc = "idle" /\ wrs' = [count |-> 0, bad |-> 0] /\ base' = head /\ target' = target
      /\ recvCredits' = recvCredits + n /\ rqTail' = rqTail + n
      /\ recvCq' = SubSeq(recvCq, n + 1, Len(recvCq))
      /\ rqHead' = rqHead
  BY <1>2 DEF RdmaRecv, ReclaimTransportRecvCq, ReclaimRecv
<1>4. /\ unsignaled' = unsignaled /\ sendCredits' = sendCredits /\ head' = head
      /\ tail' = tail /\ executed' = executed /\ signals' = signals
      /\ sendCq' = sendCq /\ failedAt' = failedAt
  BY DEF RdmaRecv, sendVars, nicVars
<1>5. \/ pc' = "idle" /\ ret' = [status |-> "PROVIDER_FAILED", bad |-> 0, waited |-> FALSE]
      \/ pc' = "idle" /\ ret' = [status |-> "QUEUE_FULL", bad |-> 0, waited |-> FALSE]
      \/ pc' = "recv" /\ recvCredits' # 0 /\ ret' = [status |-> "none", bad |-> 0, waited |-> FALSE]
  BY DEF RdmaRecv, Return, NoAnswer
<1>6. /\ recvCq \in Seq(BOOLEAN) /\ recvCredits \in Nat /\ rqTail \in Nat /\ rqHead \in Nat
      /\ n \in Nat /\ Len(recvCq) \in Nat /\ RecvDepth \in Nat /\ target \in Nat /\ head \in Nat
  BY <1>1, QpAssumption DEF TypeOK, QpTypeOK
<1>7. recvCq' \in Seq(BOOLEAN) /\ Len(recvCq') = Len(recvCq) - n
  BY <1>3, <1>6, DropFacts
<1>8. RecvInv'
  <2>1. recvCredits + (rqHead - rqTail) = RecvDepth /\ rqTail + Len(recvCq) <= rqHead
    BY <1>1 DEF RecvInv, RecvCreditsExact
  <2>2. PICK l \in Nat : Len(recvCq') = l /\ l = Len(recvCq) - n
    BY <1>6, <1>7, SMTT(30)
  <2>3. recvCredits' + (rqHead' - rqTail') = RecvDepth
    BY <2>1, <1>3, <1>6
  <2>4. rqTail' + l <= rqHead'
    BY <2>1, <2>2, <1>3, <1>6
  <2> QED  BY <2>2, <2>3, <2>4, Zenon DEF RecvInv, RecvCreditsExact
<1>9. QpTypeOK'
  BY <1>1, <1>3, <1>4, <1>6, <1>7 DEF TypeOK, QpTypeOK
<1>10. /\ pc' \in {"idle", "recv"} /\ ret' \in [status : Statuses, bad : Nat, waited : BOOLEAN]
       /\ ret'.waited = FALSE
  <2>1. CASE pc' = "idle" /\ ret' = [status |-> "PROVIDER_FAILED", bad |-> 0, waited |-> FALSE]
    BY <2>1 DEF Statuses
  <2>2. CASE pc' = "idle" /\ ret' = [status |-> "QUEUE_FULL", bad |-> 0, waited |-> FALSE]
    BY <2>2 DEF Statuses
  <2>3. CASE pc' = "recv" /\ ret' = [status |-> "none", bad |-> 0, waited |-> FALSE]
    BY <2>3 DEF Statuses
  <2> QED  BY <1>5, <2>1, <2>2, <2>3
<1>11. TypeOK'
  BY <1>3, <1>6, <1>9, <1>10 DEF TypeOK, Steps
<1>12. RingInv' /\ CqInv' /\ FailInv'
  BY <1>1, <1>4 DEF RingInv, RingSafe, CqInv, FailInv
<1>13. SchedInv'
  <2>1. Clean' => Clean
    BY <1>4 DEF Clean
  <2>2. Schedule(0) => Schedule(0)'
    BY <1>4 DEF Schedule
  <2> QED  BY <2>1, <2>2, <1>1, <1>3, <1>10 DEF SchedInv
<1>14. CallInv'
  <2>1. PICK r \in Nat : recvCredits' = r
    BY <1>9 DEF QpTypeOK
  <2>2. pc' = "recv" => recvCredits' # 0
    BY <1>5
  <2>3. pc' = "recv" => recvCredits' >= 1
    BY <2>1, <2>2
  <2> QED  BY <2>3, <1>3, <1>10 DEF CallInv
<1>15. WaitedSuccessIsExecuted' /\ NoSpuriousQueueFull'
  BY <1>3, <1>10 DEF WaitedSuccessIsExecuted, NoSpuriousQueueFull
<1> QED  BY <1>8, <1>11, <1>12, <1>13, <1>14, <1>15 DEF IInv

\* A receive post preserves the invariant.
LEMMA PostRecvIInv == IInv /\ PostRecv => IInv'
<1> SUFFICES ASSUME IInv, PostRecv PROVE IInv'
  OBVIOUS
<1>1. TypeOK /\ RingInv /\ CqInv /\ FailInv /\ SchedInv /\ RecvInv /\ CallInv
  BY DEF IInv
<1>2. /\ pc = "recv" /\ pc' = "idle" /\ wrs' = wrs /\ base' = base /\ target' = target
      /\ rqTail' = rqTail /\ recvCq' = recvCq
      /\ \/ /\ rqHead' = rqHead /\ recvCredits' = recvCredits
            /\ ret' = [status |-> "QUEUE_FULL", bad |-> 0, waited |-> FALSE]
         \/ /\ rqHead' = rqHead + 1 /\ recvCredits' = recvCredits - 1
            /\ ret' = [status |-> "SUCCESS", bad |-> 0, waited |-> FALSE]
  BY DEF PostRecv, Return
<1>3. /\ unsignaled' = unsignaled /\ sendCredits' = sendCredits /\ head' = head
      /\ tail' = tail /\ executed' = executed /\ signals' = signals
      /\ sendCq' = sendCq /\ failedAt' = failedAt
  BY DEF PostRecv, sendVars, nicVars
<1>4. /\ recvCredits \in Nat /\ rqTail \in Nat /\ rqHead \in Nat /\ RecvDepth \in Nat
      /\ Len(recvCq) \in Nat /\ recvCredits >= 1 /\ wrs.count = 0
  BY <1>1, <1>2, QpAssumption DEF TypeOK, QpTypeOK, CallInv
<1>5. RecvInv' /\ recvCredits' \in Nat /\ rqHead' \in Nat
  <2>1. recvCredits + (rqHead - rqTail) = RecvDepth /\ rqTail + Len(recvCq) <= rqHead
    BY <1>1 DEF RecvInv, RecvCreditsExact
  <2>2. CASE rqHead' = rqHead /\ recvCredits' = recvCredits
    BY <2>1, <2>2, <1>2, <1>4 DEF RecvInv, RecvCreditsExact
  <2>3. CASE rqHead' = rqHead + 1 /\ recvCredits' = recvCredits - 1
    BY <2>1, <2>3, <1>2, <1>4 DEF RecvInv, RecvCreditsExact
  <2> QED  BY <1>2, <2>2, <2>3
<1>6. QpTypeOK'
  BY <1>1, <1>2, <1>3, <1>5 DEF TypeOK, QpTypeOK
<1>7. ret' \in [status : Statuses, bad : Nat, waited : BOOLEAN] /\ ret'.waited = FALSE
  <2>1. CASE ret' = [status |-> "QUEUE_FULL", bad |-> 0, waited |-> FALSE]
    BY <2>1 DEF Statuses
  <2>2. CASE ret' = [status |-> "SUCCESS", bad |-> 0, waited |-> FALSE]
    BY <2>2 DEF Statuses
  <2> QED  BY <1>2, <2>1, <2>2
<1>8. TypeOK'
  BY <1>1, <1>2, <1>6, <1>7 DEF TypeOK, Steps
<1>9. RingInv' /\ CqInv' /\ FailInv'
  BY <1>1, <1>3 DEF RingInv, RingSafe, CqInv, FailInv
<1>10. SchedInv'
  <2>1. Clean' => Clean
    BY <1>3 DEF Clean
  <2>2. Schedule(0) => Schedule(0)'
    BY <1>3 DEF Schedule
  <2> QED  BY <2>1, <2>2, <1>1, <1>2 DEF SchedInv
<1>11. CallInv'
  BY <1>2 DEF CallInv
<1>12. WaitedSuccessIsExecuted' /\ NoSpuriousQueueFull'
  BY <1>2, <1>4, <1>7 DEF WaitedSuccessIsExecuted, NoSpuriousQueueFull
<1> QED  BY <1>5, <1>8, <1>9, <1>10, <1>11, <1>12 DEF IInv

\* The call variables and the ring counters an adapter step leaves alone.
NicFrame ==
  UNCHANGED <<unsignaled, sendCredits, head, tail, recvVars, callVars>>

\* The equations of NicFrame.
LEMMA NicFrameFacts ==
  ASSUME NicFrame
  PROVE  /\ unsignaled' = unsignaled /\ sendCredits' = sendCredits /\ head' = head
         /\ tail' = tail /\ recvCredits' = recvCredits /\ rqHead' = rqHead
         /\ rqTail' = rqTail /\ recvCq' = recvCq
         /\ pc' = pc /\ wrs' = wrs /\ base' = base /\ target' = target /\ ret' = ret
  BY DEF NicFrame, recvVars, callVars

\* What the schedule says of the request executed next, when it is signaled.
LEMMA NextSignal ==
  ASSUME IInv, failedAt = None, executed < head, NEW M \in Nat, Schedule(M)
  PROVE  LET L == Len(sendCq) IN
         /\ executed \in signals => L < M /\ executed = tail + Span(L + 1) - 1
         /\ executed \notin signals /\ L < M => executed + 1 <= tail + Span(L + 1) - 1
<1> DEFINE L == Len(sendCq)
<1>1. executed \in Nat /\ tail \in Nat /\ L \in Nat /\ Interval \in Nat /\ Interval >= 1
  BY QpAssumption DEF IInv, TypeOK, QpTypeOK
<1>2. /\ L <= M
      /\ \A p \in Nat : p \in signals <=> \E j \in (L + 1) .. M : p = tail + Span(j) - 1
      /\ L < M => executed <= tail + Span(L + 1) - 1
  BY DEF Schedule
<1> HIDE DEF L
<1>3. L + 1 \in Int
  BY <1>1
<1>4. PICK s \in Int : s = Span(L + 1)
  BY <1>3, SpanFacts
<1>5. ASSUME executed \in signals
      PROVE  L < M /\ executed = tail + Span(L + 1) - 1
  <2>1. PICK j \in (L + 1) .. M : executed = tail + Span(j) - 1
    BY <1>1, <1>2, <1>5
  <2>2. L < M /\ j \in Int /\ (j = L + 1 \/ L + 1 < j)
    BY <1>1
  <2>3. ~(L + 1 < j)
    <3> SUFFICES ASSUME L + 1 < j PROVE FALSE
      OBVIOUS
    <3>1. Span(L + 1) + Interval <= Span(j) /\ Span(j) \in Int
      BY <1>3, <2>2, SpanFacts, Zenon
    <3>2. PICK sj \in Int : sj = Span(j)
      BY <3>1
    <3>3. s + Interval <= sj /\ executed = tail + sj - 1 /\ executed <= tail + s - 1
      BY <3>1, <3>2, <2>1, <2>2, <1>2, <1>4, Zenon
    <3> QED  BY <3>3, <1>1
  <2> QED  BY <2>1, <2>2, <2>3
<1>6. ASSUME executed \notin signals, L < M
      PROVE  executed + 1 <= tail + Span(L + 1) - 1
  <2>1. L + 1 \in (L + 1) .. M
    BY <1>1, <1>6
  <2>2. executed # tail + Span(L + 1) - 1
    BY <2>1, <1>1, <1>2, <1>6, Zenon
  <2>3. executed # tail + s - 1 /\ executed <= tail + s - 1
    BY <2>2, <1>2, <1>4, <1>6, Zenon
  <2>4. executed + 1 <= tail + s - 1
    BY <2>3, <1>1
  <2> QED  BY <2>4, <1>4, Zenon
<1> QED  BY <1>5, <1>6 DEF L

\* Facts no adapter step on the send side disturbs.
LEMMA NicRest ==
  ASSUME IInv, NicFrame, executed < head,
         executed' = executed + 1, signals' = signals \ {executed},
         sendCq' \in Seq(Cqe),
         failedAt' = failedAt \/ (failedAt = None /\ failedAt' = executed)
  PROVE  /\ TypeOK' /\ RingInv' /\ CallInv' /\ RecvInv'
         /\ WaitedSuccessIsExecuted' /\ NoSpuriousQueueFull'
<1>1. TypeOK /\ RingInv /\ CallInv /\ RecvInv /\ WaitedSuccessIsExecuted /\ NoSpuriousQueueFull
  BY DEF IInv
<1>2. /\ unsignaled' = unsignaled /\ sendCredits' = sendCredits /\ head' = head
      /\ tail' = tail /\ recvCredits' = recvCredits /\ rqHead' = rqHead
      /\ rqTail' = rqTail /\ recvCq' = recvCq
      /\ pc' = pc /\ wrs' = wrs /\ base' = base /\ target' = target /\ ret' = ret
  BY NicFrameFacts
<1>3. executed \in Nat /\ head \in Nat /\ tail \in Nat /\ unsignaled \in Nat /\ Depth \in Nat
  BY <1>1, QpAssumption DEF TypeOK, QpTypeOK
<1>4. failedAt' \in Nat \cup {None} /\ executed' \in Nat /\ signals' \subseteq Nat
  BY <1>1, <1>3 DEF TypeOK, QpTypeOK
<1>5. QpTypeOK'
  BY <1>1, <1>2, <1>4 DEF TypeOK, QpTypeOK
<1>6. TypeOK'
  BY <1>1, <1>2, <1>5 DEF TypeOK
<1>7. RingInv'
  BY <1>1, <1>2, <1>3 DEF RingInv, RingSafe
<1>8. CallInv' /\ RecvInv'
  BY <1>1, <1>2 DEF CallInv, RecvInv, RecvCreditsExact
<1>9. WaitedSuccessIsExecuted'
  <2> SUFFICES ASSUME pc = "idle", ret.waited, ret.status # "PROVIDER_FAILED"
               PROVE  /\ executed' >= head' - unsignaled'
                      /\ failedAt' # None => failedAt' >= head' - unsignaled'
    BY <1>2 DEF WaitedSuccessIsExecuted
  <2>1. executed >= head - unsignaled /\ (failedAt # None => failedAt >= head - unsignaled)
    BY <1>1 DEF WaitedSuccessIsExecuted
  <2>2. executed' >= head' - unsignaled'
    BY <2>1, <1>2, <1>3
  <2>3. CASE failedAt' = failedAt
    BY <2>1, <2>2, <2>3, <1>2, Zenon
  <2>4. CASE failedAt' = executed
    BY <2>1, <2>2, <2>4, <1>2, Zenon
  <2> QED  BY <2>2, <2>3, <2>4
<1>10. NoSpuriousQueueFull'
  <2>1. failedAt' = None => failedAt = None
    OBVIOUS
  <2> QED  BY <2>1, <1>1, <1>2 DEF NoSpuriousQueueFull
<1> QED  BY <1>6, <1>7, <1>8, <1>9, <1>10

\* The adapter executing a request preserves the invariant.
LEMMA NicExecuteIInv == IInv /\ NicExecute /\ NicFrame => IInv'
<1> SUFFICES ASSUME IInv, NicExecute, NicFrame PROVE IInv'
  OBVIOUS
<1>1. /\ failedAt = None /\ executed < head /\ executed' = executed + 1
      /\ signals' = signals \ {executed} /\ failedAt' = failedAt
  BY DEF NicExecute
<1>2. /\ unsignaled' = unsignaled /\ sendCredits' = sendCredits /\ head' = head
      /\ tail' = tail /\ pc' = pc /\ target' = target
  BY NicFrameFacts
<1>3. TypeOK /\ RingInv /\ CqInv /\ FailInv /\ SchedInv /\ Clean
  BY <1>1 DEF IInv, Clean
<1> DEFINE L == Len(sendCq)
<1>4. /\ executed \in Nat /\ tail \in Nat /\ head \in Nat /\ L \in Nat /\ sendCq \in Seq(Cqe)
      /\ Interval \in Nat /\ Interval >= 1
  BY <1>3, QpAssumption DEF TypeOK, QpTypeOK
<1>5. PICK M \in Nat : /\ Schedule(M)
                       /\ pc # "wait" => M = 0
                       /\ pc = "wait" => target = sendCredits + Span(M)
  BY <1>3 DEF SchedInv
<1>s. Schedule(M)
  BY <1>5, Zenon
<1>6. /\ L <= M
      /\ \A p \in Nat : p \in signals <=> \E j \in (L + 1) .. M : p = tail + Span(j) - 1
      /\ \A k \in 1 .. L : sendCq[k].ok => sendCq[k].wqe = tail + Span(k) - 1
      /\ head = tail + Span(M) + unsignaled
      /\ sendCredits = Depth - (head - tail)
  BY <1>1, <1>s DEF Schedule
<1>7. /\ executed \in signals => L < M /\ executed = tail + Span(L + 1) - 1
      /\ executed \notin signals /\ L < M => executed + 1 <= tail + Span(L + 1) - 1
  BY <1>1, <1>s, NextSignal
<1>8. /\ head' = tail' + Span(M) + unsignaled'
      /\ sendCredits' = Depth - (head' - tail')
  BY <1>2, <1>6, Zenon
<1> HIDE DEF L
<1>9. /\ sendCq' \in Seq(Cqe) /\ CqInv' /\ FailInv' /\ Schedule(M)'
  <2>1. CASE executed \notin signals
    <3>1. sendCq' = sendCq
      BY <2>1 DEF NicExecute
    <3>2. CqInv'
      <4>1. \A k \in 1 .. L : sendCq[k].wqe \in Nat /\ tail <= sendCq[k].wqe /\ sendCq[k].wqe < executed
        BY <1>3, <1>4, CqeFields DEF CqInv, L
      <4>2. \A k \in 1 .. L : tail <= sendCq[k].wqe /\ sendCq[k].wqe < executed + 1
        BY <4>1, <1>4
      <4> QED  BY <4>2, <3>1, <1>1, <1>2, <1>3, Zenon DEF CqInv, L
    <3>3. FailInv'
      BY <3>1, <1>1, <1>3 DEF FailInv
    <3>4. signals' = signals
      BY <2>1, <1>1
    <3>5. L < M => executed' <= tail' + Span(L + 1) - 1
      BY <2>1, <1>1, <1>2, <1>7, Zenon
    <3>6. Schedule(M)'
      BY <3>1, <3>4, <3>5, <1>1, <1>2, <1>6, <1>8, Zenon DEF Schedule, L
    <3> QED  BY <3>1, <3>2, <3>3, <3>6, <1>4
  <2>2. CASE executed \in signals
    <3>1. sendCq' = Append(sendCq, [wqe |-> executed, ok |-> TRUE])
      BY <2>2 DEF NicExecute
    <3>2. /\ CqInv' /\ sendCq' \in Seq(Cqe) /\ Len(sendCq') = L + 1
          /\ \A k \in 1 .. L : sendCq'[k] = sendCq[k]
          /\ sendCq'[L + 1] = [wqe |-> executed, ok |-> TRUE]
      BY <3>1, <1>1, <1>2, <1>3, AppendCqe DEF L, TypeOK, RingInv, RingSafe
    <3>3. sendCq'[L + 1].ok = TRUE /\ sendCq'[L + 1].wqe = executed
      BY <3>2
    <3>4. \A k \in 1 .. (L + 1) : k \in 1 .. L \/ k = L + 1
      BY <1>4
    <3>5. FailInv'
      <4>1. \A k \in 1 .. L : sendCq[k].ok
        BY <1>1, <1>3 DEF FailInv, L
      <4>2. \A k \in 1 .. (L + 1) : sendCq'[k].ok
        BY <4>1, <3>2, <3>3, <3>4, Zenon
      <4> QED  BY <4>2, <3>2, <1>1, Zenon DEF FailInv
    <3>6. \A k \in 1 .. (L + 1) : sendCq'[k].wqe = tail + Span(k) - 1
      <4>1. \A k \in 1 .. L : sendCq[k].ok
        BY <1>1, <1>3 DEF FailInv, L
      <4>2. executed = tail + Span(L + 1) - 1
        BY <2>2, <1>7
      <4> QED  BY <4>1, <4>2, <1>6, <3>2, <3>3, <3>4, Zenon
    <3>7. L + 1 <= M /\ L + 1 \in Nat
      BY <2>2, <1>4, <1>7
    <3>8. ASSUME NEW p \in Nat
          PROVE  p \in signals' <=> \E j \in ((L + 1) + 1) .. M : p = tail + Span(j) - 1
      <4>1. ASSUME p \in signals'
            PROVE  \E j \in ((L + 1) + 1) .. M : p = tail + Span(j) - 1
        <5>1. p \in signals /\ p # executed
          BY <4>1, <1>1
        <5>2. PICK j \in (L + 1) .. M : p = tail + Span(j) - 1
          BY <5>1, <1>6
        <5>3. j # L + 1
          BY <5>1, <5>2, <2>2, <1>7, Zenon
        <5>4. j \in ((L + 1) + 1) .. M
          BY <5>3, <1>4
        <5> QED  BY <5>2, <5>4
      <4>2. ASSUME NEW j \in ((L + 1) + 1) .. M, p = tail + Span(j) - 1
            PROVE  p \in signals'
        <5>1. j \in (L + 1) .. M /\ L + 1 < j /\ j \in Int /\ L + 1 \in Int
          BY <1>4
        <5>2. p \in signals
          BY <4>2, <5>1, <1>6, Zenon
        <5>3. Span(L + 1) + Interval <= Span(j) /\ Span(j) \in Int /\ Span(L + 1) \in Int
          BY <5>1, SpanFacts, Zenon
        <5>4. PICK sj \in Int, s \in Int : sj = Span(j) /\ s = Span(L + 1)
          BY <5>3
        <5>5. s + Interval <= sj /\ p = tail + sj - 1 /\ executed = tail + s - 1
          BY <5>3, <5>4, <4>2, <2>2, <1>7, Zenon
        <5>6. p # executed
          BY <5>5, <1>4
        <5> QED  BY <5>2, <5>6, <1>1
      <4> QED  BY <4>1, <4>2
    <3>9. executed + 1 <= tail + Span((L + 1) + 1) - 1
      <4>1. L + 1 \in Int /\ (L + 1) + 1 \in Int /\ L + 1 < (L + 1) + 1
        BY <1>4
      <4>2. /\ Span(L + 1) + Interval <= Span((L + 1) + 1)
            /\ Span(L + 1) \in Int /\ Span((L + 1) + 1) \in Int
        BY <4>1, SpanFacts, Zenon
      <4>3. PICK s \in Int, s2 \in Int : s = Span(L + 1) /\ s2 = Span((L + 1) + 1)
        BY <4>2
      <4>4. s + Interval <= s2 /\ executed = tail + s - 1
        BY <4>2, <4>3, <2>2, <1>7, Zenon
      <4>5. executed + 1 <= tail + s2 - 1
        BY <4>4, <1>4
      <4> QED  BY <4>3, <4>5, Zenon
    <3>10. Schedule(M)'
      BY <3>2, <3>6, <3>7, <3>8, <3>9, <1>1, <1>2, <1>8, Zenon DEF Schedule
    <3> QED  BY <3>2, <3>5, <3>10
  <2> QED  BY <2>1, <2>2
<1>10. SchedInv'
  <2>1. /\ pc' # "wait" => M = 0
        /\ pc' = "wait" => target' = sendCredits' + Span(M)
    BY <1>2, <1>5, Zenon
  <2> QED  BY <2>1, <1>9, Zenon DEF SchedInv
<1>11. /\ TypeOK' /\ RingInv' /\ CallInv' /\ RecvInv'
       /\ WaitedSuccessIsExecuted' /\ NoSpuriousQueueFull'
  BY <1>1, <1>9, NicRest
<1> QED  BY <1>9, <1>10, <1>11 DEF IInv

\* The adapter failing or flushing a request preserves the invariant.
LEMMA NicFailIInv == IInv /\ NicFail /\ NicFrame => IInv'
<1> SUFFICES ASSUME IInv, NicFail, NicFrame PROVE IInv'
  OBVIOUS
<1>1. /\ executed < head /\ executed' = executed + 1 /\ signals' = signals \ {executed}
      /\ sendCq' = Append(sendCq, [wqe |-> executed, ok |-> FALSE])
      /\ \/ failedAt = None /\ failedAt' = executed
         \/ failedAt # None /\ failedAt' = failedAt
  BY DEF NicFail
<1>2. /\ unsignaled' = unsignaled /\ sendCredits' = sendCredits /\ head' = head
      /\ tail' = tail /\ pc' = pc /\ target' = target
  BY NicFrameFacts
<1>3. TypeOK /\ RingInv /\ CqInv /\ FailInv /\ SchedInv
  BY DEF IInv
<1> DEFINE L == Len(sendCq)
<1>4. /\ executed \in Nat /\ tail \in Nat /\ L \in Nat /\ failedAt \in Nat \cup {None}
      /\ tail <= executed /\ sendCq \in Seq(Cqe)
  BY <1>3 DEF TypeOK, QpTypeOK, RingInv, RingSafe
<1>5. /\ CqInv' /\ sendCq' \in Seq(Cqe) /\ Len(sendCq') = L + 1
      /\ \A k \in 1 .. L : sendCq'[k] = sendCq[k]
      /\ sendCq'[L + 1] = [wqe |-> executed, ok |-> FALSE]
  BY <1>1, <1>2, <1>3, <1>4, AppendCqe DEF TypeOK, L
<1> HIDE DEF L
<1>6. sendCq'[L + 1].ok = FALSE /\ sendCq'[L + 1].wqe = executed
  BY <1>5
<1>7. \A k \in 1 .. (L + 1) : k \in 1 .. L \/ k = L + 1
  BY <1>4
<1>8. failedAt' # None /\ failedAt' \in Nat /\ failedAt' <= executed
  <2>1. CASE failedAt = None /\ failedAt' = executed
    BY <2>1, <1>4 DEF None
  <2>2. CASE failedAt # None /\ failedAt' = failedAt
    BY <2>2, <1>3, <1>4 DEF FailInv
  <2> QED  BY <1>1, <2>1, <2>2
<1>9. FailInv'
  <2>1. failedAt' < executed'
    <3>1. PICK f \in Nat : failedAt' = f
      BY <1>8
    <3> QED  BY <3>1, <1>1, <1>4, <1>8
  <2>2. ASSUME NEW k \in 1 .. L
        PROVE  sendCq[k].ok <=> sendCq[k].wqe < failedAt'
    <3>1. sendCq[k].wqe < executed
      BY <1>3 DEF CqInv, L
    <3>2. sendCq[k].ok <=> (failedAt = None \/ sendCq[k].wqe < failedAt)
      BY <1>3 DEF FailInv, L
    <3>3. CASE failedAt = None /\ failedAt' = executed
      BY <3>1, <3>2, <3>3, Zenon
    <3>4. CASE failedAt # None /\ failedAt' = failedAt
      BY <3>2, <3>4, Zenon
    <3> QED  BY <1>1, <3>3, <3>4
  <2>3. ~(executed < failedAt')
    <3>1. PICK f \in Nat : failedAt' = f
      BY <1>8
    <3> QED  BY <3>1, <1>4, <1>8
  <2>4. \A k \in 1 .. (L + 1) : sendCq'[k].ok <=> sendCq'[k].wqe < failedAt'
    BY <2>2, <2>3, <1>5, <1>6, <1>7, Zenon
  <2> QED  BY <2>1, <2>4, <1>5, <1>8, Zenon DEF FailInv
<1>10. SchedInv'
  <2> SUFFICES ASSUME Clean'
               PROVE  \E M \in Nat : /\ Schedule(M)'
                                     /\ pc' # "wait" => M = 0
                                     /\ pc' = "wait" => target' = sendCredits' + Span(M)
    BY Zenon DEF SchedInv
  <2>1. Clean
    BY <1>1, <1>2 DEF Clean
  <2>2. PICK M \in Nat : /\ Schedule(M)
                         /\ pc # "wait" => M = 0
                         /\ pc = "wait" => target = sendCredits + Span(M)
    BY <2>1, <1>3, Zenon DEF SchedInv
  <2>3. \A k \in 1 .. L : sendCq[k].ok => sendCq[k].wqe = tail + Span(k) - 1
    BY <2>2, Zenon DEF Schedule, L
  <2>4. \A k \in 1 .. (L + 1) : sendCq'[k].ok => sendCq'[k].wqe = tail' + Span(k) - 1
    BY <2>3, <1>2, <1>5, <1>6, <1>7, Zenon
  <2>5. /\ head' = tail' + Span(M) + unsignaled'
        /\ sendCredits' = Depth - (head' - tail')
    BY <2>2, <1>2, Zenon DEF Schedule
  <2>6. Schedule(M)'
    BY <2>4, <2>5, <1>5, <1>8, Zenon DEF Schedule
  <2> QED  BY <2>2, <2>6, <1>2, Zenon
<1>11. /\ TypeOK' /\ RingInv' /\ CallInv' /\ RecvInv'
       /\ WaitedSuccessIsExecuted' /\ NoSpuriousQueueFull'
  BY <1>1, <1>5, NicRest
<1> QED  BY <1>5, <1>9, <1>10, <1>11 DEF IInv

\* The adapter completing a receive preserves the invariant.
LEMMA NicDeliverIInv ==
  ASSUME IInv, NicDeliver,
         UNCHANGED <<sendVars, nicVars, recvCredits, rqHead, rqTail, callVars>>
  PROVE  IInv'
<1>1. /\ unsignaled' = unsignaled /\ sendCredits' = sendCredits /\ head' = head
      /\ tail' = tail /\ executed' = executed /\ signals' = signals
      /\ sendCq' = sendCq /\ failedAt' = failedAt
      /\ recvCredits' = recvCredits /\ rqHead' = rqHead /\ rqTail' = rqTail
      /\ pc' = pc /\ wrs' = wrs /\ base' = base /\ target' = target /\ ret' = ret
  BY DEF sendVars, nicVars, callVars
<1>2. TypeOK /\ RingInv /\ CqInv /\ FailInv /\ SchedInv /\ CallInv /\ RecvInv
  BY DEF IInv
<1>3. /\ recvCq \in Seq(BOOLEAN) /\ rqTail \in Nat /\ rqHead \in Nat /\ Len(recvCq) \in Nat
      /\ rqTail + Len(recvCq) < rqHead
  BY <1>2 DEF TypeOK, QpTypeOK, NicDeliver
<1>4. PICK b \in BOOLEAN : recvCq' = Append(recvCq, b)
  BY DEF NicDeliver
<1>5. recvCq' \in Seq(BOOLEAN) /\ Len(recvCq') = Len(recvCq) + 1
  BY <1>3, <1>4
<1>6. TypeOK'
  BY <1>1, <1>2, <1>5 DEF TypeOK, QpTypeOK
<1>7. RingInv' /\ CqInv' /\ FailInv' /\ CallInv'
  BY <1>1, <1>2 DEF RingInv, RingSafe, CqInv, FailInv, CallInv
<1>8. SchedInv'
  BY <1>1, <1>2, Zenon DEF SchedInv, Clean, Schedule
<1>9. RecvInv'
  <2>1. PICK l \in Nat : Len(recvCq') = l /\ l = Len(recvCq) + 1
    BY <1>3, <1>5
  <2>2. rqTail + l <= rqHead
    BY <2>1, <1>3
  <2> QED  BY <2>1, <2>2, <1>1, <1>2, Zenon DEF RecvInv, RecvCreditsExact
<1>10. WaitedSuccessIsExecuted' /\ NoSpuriousQueueFull'
  BY <1>1 DEF IInv, WaitedSuccessIsExecuted, NoSpuriousQueueFull
<1> QED  BY <1>6, <1>7, <1>8, <1>9, <1>10 DEF IInv

\* A step that changes nothing preserves the invariant.
LEMMA StutterIInv == IInv /\ UNCHANGED vars => IInv'
<1> SUFFICES ASSUME IInv, UNCHANGED vars PROVE IInv'
  OBVIOUS
<1>1. /\ unsignaled' = unsignaled /\ sendCredits' = sendCredits /\ recvCredits' = recvCredits
      /\ head' = head /\ tail' = tail /\ executed' = executed /\ signals' = signals
      /\ sendCq' = sendCq /\ failedAt' = failedAt /\ rqHead' = rqHead /\ rqTail' = rqTail
      /\ recvCq' = recvCq /\ pc' = pc /\ wrs' = wrs /\ base' = base /\ target' = target
      /\ ret' = ret
  BY DEF vars
<1>2. TypeOK'
  BY <1>1 DEF IInv, TypeOK, QpTypeOK
<1>3. RingInv' /\ CqInv' /\ FailInv'
  BY <1>1 DEF IInv, RingInv, RingSafe, CqInv, FailInv
<1>4. CallInv' /\ RecvInv'
  BY <1>1 DEF IInv, CallInv, RecvInv, RecvCreditsExact
<1>5. SchedInv'
  BY <1>1, Zenon DEF IInv, SchedInv, Clean, Schedule
<1>6. WaitedSuccessIsExecuted' /\ NoSpuriousQueueFull'
  BY <1>1 DEF IInv, WaitedSuccessIsExecuted, NoSpuriousQueueFull
<1> QED  BY <1>2, <1>3, <1>4, <1>5, <1>6 DEF IInv

\* Every step of the transport calls and of the adapter preserves the invariant.
LEMMA NextIInv == IInv /\ [Next]_vars => IInv'
<1> SUFFICES ASSUME IInv, [Next]_vars PROVE IInv'
  OBVIOUS
<1>1. CASE RdmaSend
  BY <1>1, RdmaSendIInv
<1>2. CASE PostTransportSendRefused
  BY <1>2, PostTransportSendRefusedIInv
<1>3. CASE PostTransportSend
  BY <1>3, PostTransportSendIInv
<1>4. ASSUME NEW count \in 1 .. MaxBatch, RdmaSendBatch(count) PROVE IInv'
  BY <1>4, RdmaSendBatchIInv
<1>5. CASE PostTransportSendBatchRefused
  BY <1>5, PostTransportSendBatchRefusedIInv
<1>6. CASE PostTransportSendBatch
  BY <1>6, PostTransportSendBatchIInv
<1>7. CASE WaitForSendCompletion
  BY <1>7, WaitForSendCompletionIInv
<1>8. CASE RdmaRecv
  BY <1>8, RdmaRecvIInv
<1>9. CASE PostRecv
  BY <1>9, PostRecvIInv
<1>10. CASE Nic
  BY <1>10, NicExecuteIInv, NicFailIInv, NicDeliverIInv DEF Nic, NicFrame
<1>11. CASE UNCHANGED vars
  BY <1>11, StutterIInv
<1> QED  BY <1>1, <1>2, <1>3, <1>4, <1>5, <1>6, <1>7, <1>8, <1>9, <1>10, <1>11 DEF Next

\* The inductive invariant holds in every reachable state of every call sequence
\* on the queue pair; the properties below follow from it.
THEOREM Invariance == Spec => []IInv
  BY InitIInv, NextIInv, PTL DEF Spec

-----------------------------------------------------------------------------
(* The properties. *)

\* Every reachable state of the transport call and of the ring is well typed.
THEOREM TypeCorrect == Spec => []TypeOK
<1>1. IInv => TypeOK
  BY DEF IInv
<1> QED  BY <1>1, Invariance, PTL

\* PopulateDeviceSendWqe never writes a ring entry the adapter may still read,
\* whatever the depth, the interval and the failures.
THEOREM RingNeverOverrun == Spec => []RingSafe
<1>1. IInv => RingSafe
  BY DEF IInv, RingInv
<1> QED  BY <1>1, Invariance, PTL

\* The send CQ, created as deep as the ring, is never overrun.
THEOREM CqBounded == Spec => []CqNeverOverflows
<1>1. ASSUME IInv PROVE CqNeverOverflows
  <2>1. /\ QpTypeOK /\ CqInv /\ tail <= executed /\ executed <= head /\ head - tail <= Depth - 1
    BY <1>1 DEF IInv, TypeOK, RingInv, RingSafe
  <2>2. Len(sendCq) <= executed - tail
    BY <2>1, CqLength
  <2>3. /\ Len(sendCq) \in Nat /\ tail \in Nat /\ executed \in Nat /\ head \in Nat
        /\ Depth \in Nat
    BY <2>1, QpAssumption DEF QpTypeOK
  <2> QED  BY <2>1, <2>2, <2>3 DEF CqNeverOverflows
<1> QED  BY <1>1, Invariance, PTL

\* While no request has failed, send_credits and the occupied ring entries add
\* up to the depth: reclamation by whole intervals loses and invents no credit.
THEOREM CreditsAreExact == Spec => []CreditsExact
<1>1. ASSUME IInv PROVE CreditsExact
  <2> SUFFICES ASSUME failedAt = None PROVE sendCredits + (head - tail) = Depth
    BY DEF CreditsExact
  <2>1. Clean /\ SchedInv
    BY <1>1 DEF IInv, Clean
  <2>2. sendCredits = Depth - (head - tail)
    BY <2>1 DEF SchedInv, Schedule
  <2>3. sendCredits \in Nat /\ head \in Nat /\ tail \in Nat /\ Depth \in Nat
    BY <1>1, QpAssumption DEF IInv, TypeOK, QpTypeOK
  <2> QED  BY <2>2, <2>3
<1> QED  BY <1>1, Invariance, PTL

\* A post or batch that waited and did not report PROVIDER_FAILED has all its
\* requests up to the last signaled one executed without error.
THEOREM WaitedSuccess == Spec => []WaitedSuccessIsExecuted
<1>1. IInv => WaitedSuccessIsExecuted
  BY DEF IInv
<1> QED  BY <1>1, Invariance, PTL

\* With a ring deeper than the interval a single post on a working queue pair
\* is never answered QUEUE_FULL.
THEOREM SinglePostFindsRoom == Spec => []NoSpuriousQueueFull
<1>1. IInv => NoSpuriousQueueFull
  BY DEF IInv
<1> QED  BY <1>1, Invariance, PTL

\* Receive credits and posted receives add up to the receive depth.
THEOREM ReceiveCreditsAreExact == Spec => []RecvCreditsExact
<1>1. IInv => RecvCreditsExact
  BY DEF IInv, RecvInv
<1> QED  BY <1>1, Invariance, PTL

-----------------------------------------------------------------------------
(* Credits after a failure.  The schedule is given up once an error          *)
(* completion was taken; what remains is that no completion stands for more  *)
(* ring entries than the interval of credits it gives back.                  *)

\* Any run of completions frees at most their intervals of the ring, and behind
\* a failure every request has its completion.
GapInv ==
  /\ \A j, k \in 0 .. Len(sendCq) : j <= k => TailAfter(k) - TailAfter(j) <= Span(k - j)
  /\ failedAt # None => TailAfter(Len(sendCq)) = executed

CoverInv == IInv /\ GapInv /\ CreditsNeverLost

\* The positions the completions free up to are counters.
LEMMA TailAfterType ==
  ASSUME QpTypeOK
  PROVE  Len(sendCq) \in Nat /\ \A k \in 0 .. Len(sendCq) : TailAfter(k) \in Nat
<1>1. sendCq \in Seq(Cqe) /\ tail \in Nat /\ Len(sendCq) \in Nat
  BY DEF QpTypeOK
<1>2. ASSUME NEW k \in 1 .. Len(sendCq) PROVE sendCq[k].wqe + 1 \in Nat
  <2>1. sendCq[k].wqe \in Nat
    BY <1>1, CqeFields
  <2> QED  BY <2>1
<1>3. \A k \in 0 .. Len(sendCq) : k = 0 \/ k \in 1 .. Len(sendCq)
  BY <1>1
<1> QED  BY <1>1, <1>2, <1>3, Zenon DEF TailAfter

\* A reclaim keeps the distances between the completions left, and gives back at
\* least as many credits as ring entries.
LEMMA ReclaimGap ==
  ASSUME IInv, GapInv, CreditsNeverLost,
         NEW n \in 0 .. Len(sendCq),
         ReclaimTransportSendCq(n),
         UNCHANGED <<head, executed, failedAt>>
  PROVE  GapInv' /\ CreditsNeverLost'
<1> DEFINE d == SubSeq(sendCq, n + 1, Len(sendCq))
           F(k) == TailAfter(k)
<1>0. QpTypeOK
  BY DEF IInv, TypeOK
<1>1. /\ sendCq \in Seq(Cqe) /\ Len(sendCq) \in Nat /\ n \in Nat /\ n <= Len(sendCq)
      /\ sendCredits \in Nat /\ head \in Nat /\ tail \in Nat /\ Depth \in Nat
  BY <1>0, QpAssumption DEF QpTypeOK
<1>2. /\ Len(d) = Len(sendCq) - n
      /\ \A k \in 1 .. Len(d) : k + n \in 1 .. Len(sendCq) /\ d[k] = sendCq[k + n]
  BY <1>1, DropFacts
<1>3. sendCq' = d /\ tail' = F(n) /\ sendCredits' = sendCredits + Span(n)
  BY DEF ReclaimTransportSendCq, ReclaimSend
<1> HIDE DEF d
<1>4. ASSUME NEW k \in 0 .. Len(d) PROVE TailAfter(k)' = F(k + n) /\ k + n \in 0 .. Len(sendCq)
  <2>1. CASE k = 0
    <3>1. TailAfter(k)' = tail' /\ k + n = n
      BY <2>1, <1>1 DEF TailAfter
    <3> QED  BY <3>1, <1>1, <1>3
  <2>2. CASE k # 0
    <3>1. k \in 1 .. Len(d) /\ k + n # 0
      BY <2>2, <1>1, <1>2
    <3>2. TailAfter(k)' = d[k].wqe + 1
      BY <2>2, <1>3 DEF TailAfter
    <3>3. d[k] = sendCq[k + n] /\ k + n \in 1 .. Len(sendCq)
      BY <3>1, <1>2
    <3>4. F(k + n) = sendCq[k + n].wqe + 1
      BY <3>1 DEF TailAfter
    <3> QED  BY <3>2, <3>3, <3>4
  <2> QED  BY <2>1, <2>2
<1>5. ASSUME NEW j \in 0 .. Len(d), NEW k \in 0 .. Len(d), j <= k
      PROVE  TailAfter(k)' - TailAfter(j)' <= Span(k - j)
  <2>1. /\ j + n \in 0 .. Len(sendCq) /\ k + n \in 0 .. Len(sendCq)
        /\ TailAfter(k)' = F(k + n) /\ TailAfter(j)' = F(j + n)
    BY <1>4
  <2>2. j + n <= k + n /\ (k + n) - (j + n) = k - j
    BY <1>5, <1>1
  <2>3. F(k + n) - F(j + n) <= Span((k + n) - (j + n))
    BY <2>1, <2>2 DEF GapInv
  <2> QED  BY <2>1, <2>2, <2>3
<1>6. ASSUME failedAt # None, NEW k \in 0 .. Len(d), k = Len(d)
      PROVE  TailAfter(k)' = executed
  <2>1. k + n = Len(sendCq)
    BY <1>1, <1>2, <1>6
  <2> QED  BY <2>1, <1>4, <1>6 DEF GapInv
<1>7. GapInv'
  <2>1. \A j, k \in 0 .. Len(sendCq') : j <= k => TailAfter(k)' - TailAfter(j)' <= Span(k - j)
    BY <1>3, <1>5, Zenon
  <2>2. PICK k \in 0 .. Len(d) : k = Len(sendCq')
    BY <1>1, <1>2, <1>3
  <2>3. failedAt' # None => TailAfter(k)' = executed'
    BY <2>2, <1>3, <1>6
  <2>4. (failedAt # None => TailAfter(Len(sendCq)) = executed)'
    BY <2>2, <2>3 DEF TailAfter
  <2> QED  BY <2>1, <2>4, Zenon DEF GapInv
<1>8. CreditsNeverLost'
  <2>1. 0 \in 0 .. Len(sendCq) /\ 0 <= n /\ n - 0 = n /\ F(0) = tail
    BY <1>1 DEF TailAfter
  <2>2. F(n) - tail <= Span(n)
    BY <2>1 DEF GapInv
  <2>3. Span(n) \in Nat /\ F(n) \in Nat
    BY <1>0, <1>1, SpanFacts, TailAfterType
  <2>4. PICK s \in Nat, f \in Nat : s = Span(n) /\ f = F(n)
    BY <2>3
  <2>5. f - tail <= s /\ sendCredits' = sendCredits + s /\ tail' = f /\ head' = head
    BY <2>2, <2>4, <1>3, Zenon
  <2>6. sendCredits + (head - tail) >= Depth
    BY DEF CreditsNeverLost
  <2> QED  BY <2>5, <2>6, <1>1 DEF CreditsNeverLost
<1> QED  BY <1>7, <1>8

\* Posting moves credits into the ring and leaves the completions alone.
LEMMA PostGap ==
  ASSUME IInv, GapInv, CreditsNeverLost, NEW k \in Nat, NEW c, RecordSends(k, c),
         UNCHANGED <<tail, executed, sendCq, failedAt>>
  PROVE  GapInv' /\ CreditsNeverLost'
<1>1. GapInv'
  BY Zenon DEF GapInv, TailAfter
<1>2. sendCredits \in Nat /\ head \in Nat /\ tail \in Nat /\ Depth \in Nat
  BY QpAssumption DEF IInv, TypeOK, QpTypeOK
<1>3. sendCredits' = sendCredits - k /\ head' = head + k /\ tail' = tail
  BY DEF RecordSends
<1>4. CreditsNeverLost'
  BY <1>2, <1>3 DEF CreditsNeverLost
<1> QED  BY <1>1, <1>4

\* Steps that leave the send ring and its completions alone.
LEMMA GapUnchanged ==
  ASSUME GapInv, CreditsNeverLost,
         UNCHANGED <<sendCredits, head, tail, executed, sendCq, failedAt>>
  PROVE  GapInv' /\ CreditsNeverLost'
  BY Zenon DEF GapInv, TailAfter, CreditsNeverLost

\* The next request is at most one interval behind the last completion: before a
\* failure by the schedule, after it because every request completes.
LEMMA NextGap ==
  ASSUME IInv, GapInv, executed < head
  PROVE  executed + 1 - TailAfter(Len(sendCq)) <= Interval
<1> DEFINE L == Len(sendCq)
<1>0. QpTypeOK /\ RingInv /\ FailInv /\ SchedInv
  BY DEF IInv, TypeOK
<1>1. /\ L \in Nat /\ tail \in Nat /\ executed \in Nat /\ head \in Nat /\ unsignaled \in Nat
      /\ Interval \in Nat /\ Interval >= 1 /\ unsignaled < Interval
  BY <1>0, QpAssumption DEF QpTypeOK, RingInv
<1>2. CASE failedAt # None
  BY <1>2, <1>1 DEF GapInv
<1>3. CASE failedAt = None
  <2>1. PICK M \in Nat : Schedule(M)
    BY <1>0, <1>3 DEF SchedInv, Clean
  <2>2. TailAfter(L) = tail + Span(L)
    <3>1. CASE L = 0
      BY <3>1, <1>1, SpanFacts DEF TailAfter
    <3>2. CASE L # 0
      <4>1. L \in 1 .. Len(sendCq)
        BY <3>2, <1>1
      <4>2. sendCq[L].wqe = tail + Span(L) - 1
        BY <4>1, <1>0, <1>3, <2>1 DEF FailInv, Schedule
      <4>3. TailAfter(L) = sendCq[L].wqe + 1 /\ Span(L) \in Nat
        BY <3>2, <1>1, SpanFacts DEF TailAfter
      <4> QED  BY <4>2, <4>3, <1>1
    <3> QED  BY <3>1, <3>2
  <2>3. /\ head = tail + Span(M) + unsignaled /\ L <= M
        /\ L < M => executed <= tail + Span(L + 1) - 1
    BY <1>3, <2>1 DEF Schedule
  <2>4. Span(L) \in Nat /\ Span(L + 1) = Span(L) + Interval
    BY <1>1, SpanOrder
  <2>5. PICK s \in Nat : s = Span(L)
    BY <2>4
  <2>6. CASE L < M
    <3>1. executed <= tail + (s + Interval) - 1
      BY <2>3, <2>4, <2>5, <2>6, Zenon
    <3> QED  BY <3>1, <2>2, <2>5, <1>1, SMTT(30)
  <2>7. CASE L = M
    <3>1. head = tail + s + unsignaled
      BY <2>3, <2>5, <2>7, Zenon
    <3> QED  BY <3>1, <2>2, <2>5, <1>1, SMTT(30)
  <2> QED  BY <2>3, <2>6, <2>7, <1>1
<1> QED  BY <1>2, <1>3

\* A completion for the next request joins the others at no more than an interval.
LEMMA AppendGap ==
  ASSUME IInv, GapInv, executed < head, tail' = tail, executed' = executed + 1,
         NEW b \in BOOLEAN, sendCq' = Append(sendCq, [wqe |-> executed, ok |-> b])
  PROVE  GapInv'
<1> DEFINE L == Len(sendCq)
           c == [wqe |-> executed, ok |-> b]
           d == Append(sendCq, c)
           F(k) == TailAfter(k)
<1>0. QpTypeOK
  BY DEF IInv, TypeOK
<1>1. sendCq \in Seq(Cqe) /\ L \in Nat /\ executed \in Nat /\ tail \in Nat
  BY <1>0 DEF QpTypeOK
<1>2. c \in Cqe /\ c.wqe = executed
  BY <1>1 DEF Cqe
<1>3. /\ Len(d) = L + 1
      /\ \A k \in 1 .. L : d[k] = sendCq[k]
      /\ d[L + 1] = c
  BY <1>1, <1>2, AppendFacts
<1>4. sendCq' = d
  OBVIOUS
<1> HIDE DEF c, d
<1>5. ASSUME NEW k \in 0 .. L PROVE TailAfter(k)' = F(k)
  <2>1. CASE k = 0
    BY <2>1 DEF TailAfter
  <2>2. CASE k # 0
    <3>1. k \in 1 .. L
      BY <2>2, <1>1
    <3> QED  BY <3>1, <2>2, <1>3, <1>4 DEF TailAfter
  <2> QED  BY <2>1, <2>2
<1>6. ASSUME NEW k \in Nat, k = L + 1 PROVE TailAfter(k)' = executed + 1
  <2>1. k # 0
    BY <1>1, <1>6
  <2>2. TailAfter(k)' = d[k].wqe + 1
    BY <2>1, <1>4 DEF TailAfter
  <2> QED  BY <2>2, <1>2, <1>3, <1>6
<1>7. /\ \A k \in 0 .. L : F(k) \in Nat
      /\ executed + 1 - F(L) <= Interval /\ L \in 0 .. L
  BY <1>0, <1>1, TailAfterType, NextGap
<1>8. ASSUME NEW j \in 0 .. L + 1, NEW k \in 0 .. L + 1, j <= k
      PROVE  TailAfter(k)' - TailAfter(j)' <= Span(k - j)
  <2>1. CASE k \in 0 .. L
    <3>1. j \in 0 .. L
      BY <2>1, <1>8, <1>1
    <3>2. F(k) - F(j) <= Span(k - j)
      BY <2>1, <3>1, <1>8 DEF GapInv
    <3> QED  BY <2>1, <3>1, <3>2, <1>5
  <2>2. CASE k = L + 1 /\ j \in 0 .. L
    <3>1. TailAfter(k)' = executed + 1 /\ TailAfter(j)' = F(j)
      BY <2>2, <1>1, <1>5, <1>6
    <3>2. F(L) - F(j) <= Span(L - j) /\ L - j \in Nat /\ k - j = (L - j) + 1
      BY <2>2, <1>1, <1>7 DEF GapInv
    <3>3. Span(k - j) = Span(L - j) + Interval /\ Span(L - j) \in Nat
      BY <3>2, SpanOrder
    <3>4. PICK s \in Nat, x \in Nat, y \in Nat : s = Span(L - j) /\ x = F(L) /\ y = F(j)
      BY <3>3, <2>2, <1>7
    <3>5. x - y <= s /\ Span(k - j) = s + Interval /\ executed + 1 - x <= Interval
      BY <3>2, <3>3, <3>4, <1>7, Zenon
    <3>6. executed + 1 - y <= s + Interval
      BY <3>5, <1>1, QpAssumption
    <3>7. PICK a \in Nat : a = executed + 1 /\ TailAfter(k)' = a /\ TailAfter(j)' = y
      BY <3>1, <3>4, <1>1
    <3>8. a - y <= Span(k - j)
      BY <3>5, <3>6, <3>7, <1>1, QpAssumption
    <3> QED  BY <3>7, <3>8
  <2>3. CASE k = L + 1 /\ j = L + 1
    <3>1. TailAfter(k)' = executed + 1 /\ TailAfter(j)' = executed + 1 /\ k - j = 0
      BY <2>3, <1>1, <1>6
    <3> QED  BY <3>1, <1>1, SpanFacts
  <2> QED  BY <2>1, <2>2, <2>3, <1>1
<1>9. \A j, k \in 0 .. Len(sendCq') : j <= k => TailAfter(k)' - TailAfter(j)' <= Span(k - j)
  BY <1>3, <1>4, <1>8, Zenon
<1>10. (TailAfter(Len(sendCq)) = executed)'
  <2>1. PICK k \in Nat : k = L + 1 /\ k = Len(sendCq')
    BY <1>1, <1>3, <1>4
  <2>2. TailAfter(k)' = executed'
    BY <2>1, <1>6
  <2> QED  BY <2>1, <2>2 DEF TailAfter
<1> QED  BY <1>9, <1>10, Zenon DEF GapInv

\* Every step keeps completions within their intervals and the ring covered.
LEMMA NextCover == CoverInv /\ [Next]_vars => CoverInv'
<1> SUFFICES ASSUME CoverInv, [Next]_vars PROVE GapInv' /\ CreditsNeverLost'
  BY NextIInv DEF CoverInv
<1>0. IInv /\ GapInv /\ CreditsNeverLost /\ QpTypeOK
  BY DEF CoverInv, IInv, TypeOK
<1>r. SendReady \in 0 .. Len(sendCq) /\ 0 \in 0 .. Len(sendCq)
  BY <1>0, ReadyFacts DEF QpTypeOK
<1>1. CASE RdmaSend
  <2>1. PICK n \in 0 .. Len(sendCq) : ReclaimTransportSendCq(n)
    BY <1>1, <1>r DEF RdmaSend
  <2> QED  BY <2>1, <1>0, <1>1, ReclaimGap DEF RdmaSend
<1>2. CASE PostTransportSendRefused \/ PostTransportSendBatchRefused \/ PostRecv \/ RdmaRecv
  <2>1. UNCHANGED <<sendVars, nicVars>>
    BY <1>2 DEF PostTransportSendRefused, PostTransportSendBatchRefused, PostRecv, RdmaRecv
  <2> QED  BY <2>1, <1>0, GapUnchanged DEF sendVars, nicVars
<1>3. CASE PostTransportSend
  <2>1. \E c \in {0, 1} : RecordSends(1, c)
    BY <1>3 DEF PostTransportSend
  <2> QED  BY <2>1, <1>0, <1>3, PostGap DEF PostTransportSend
<1>4. ASSUME NEW count \in 1 .. MaxBatch, RdmaSendBatch(count) PROVE GapInv' /\ CreditsNeverLost'
  <2>1. PICK n \in 0 .. Len(sendCq) : ReclaimTransportSendCq(n)
    BY <1>4, <1>r DEF RdmaSendBatch
  <2> QED  BY <2>1, <1>0, <1>4, ReclaimGap DEF RdmaSendBatch
<1>5. CASE PostTransportSendBatch
  <2>1. BatchRoom \in Nat
    <3>1. sendCredits \in Nat /\ wrs.count \in Nat /\ head \in Nat /\ tail \in Nat /\ Depth \in Nat
      BY <1>0, QpAssumption DEF IInv, TypeOK, QpTypeOK
    <3> QED  BY <3>1 DEF BatchRoom, QueueAvailable, Min2
  <2>2. \E c \in 0 .. BatchRoom : RecordSends(BatchRoom, c)
    BY <1>5 DEF PostTransportSendBatch
  <2> QED  BY <2>1, <2>2, <1>0, <1>5, PostGap DEF PostTransportSendBatch
<1>6. CASE WaitForSendCompletion
  <2>1. ReclaimTransportSendCq(SendReady) /\ UNCHANGED <<head, executed, failedAt>>
    BY <1>6 DEF WaitForSendCompletion
  <2> QED  BY <2>1, <1>0, <1>r, ReclaimGap
<1>7. ASSUME NicExecute \/ NicFail, NicFrame PROVE GapInv' /\ CreditsNeverLost'
  <2>1. /\ executed < head /\ executed' = executed + 1
        /\ tail' = tail /\ head' = head /\ sendCredits' = sendCredits
    BY <1>7 DEF NicExecute, NicFail, NicFrame
  <2>2. CreditsNeverLost'
    BY <2>1, <1>0 DEF CreditsNeverLost
  <2>3. CASE \E b \in BOOLEAN : sendCq' = Append(sendCq, [wqe |-> executed, ok |-> b])
    BY <2>1, <2>2, <2>3, <1>0, AppendGap
  <2>4. CASE sendCq' = sendCq /\ failedAt' = failedAt /\ failedAt = None
    BY <2>1, <2>2, <2>4, <1>0, Zenon DEF GapInv, TailAfter
  <2> QED  BY <2>3, <2>4, <1>7 DEF NicExecute, NicFail
<1>8. CASE NicDeliver /\ UNCHANGED <<sendVars, nicVars, recvCredits, rqHead, rqTail, callVars>>
  BY <1>0, <1>8, GapUnchanged DEF sendVars, nicVars
<1>9. CASE UNCHANGED vars
  BY <1>0, <1>9, GapUnchanged DEF vars
<1> QED  BY <1>1, <1>2, <1>3, <1>4, <1>5, <1>6, <1>7, <1>8, <1>9 DEF Next, Nic, NicFrame

\* Whatever failed, the credits and the occupied ring entries cover the ring: no
\* error path of ReclaimTransportCq loses a credit.
THEOREM CreditsCoverRing == Spec => []CreditsNeverLost
<1>1. Init => CoverInv
  <2> SUFFICES ASSUME Init PROVE CoverInv
    OBVIOUS
  <2>1. /\ sendCq = <<>> /\ tail = 0 /\ head = 0 /\ sendCredits = Depth /\ failedAt = None
        /\ Depth \in Nat
    BY QpAssumption DEF Init, QpInit
  <2>2. GapInv
    BY <2>1, SpanFacts DEF GapInv, TailAfter
  <2>3. CreditsNeverLost
    BY <2>1 DEF CreditsNeverLost
  <2> QED  BY <2>2, <2>3, InitIInv DEF CoverInv
<1>2. CoverInv => CreditsNeverLost
  BY DEF CoverInv
<1> QED  BY <1>1, <1>2, NextCover, PTL DEF Spec
=============================================================================
