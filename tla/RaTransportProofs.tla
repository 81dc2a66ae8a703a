-------------------------- MODULE RaTransportProofs --------------------------
(***************************************************************************)
(* Invariance proofs for RaTransport, for every ring depth, signal         *)
(* interval, poll batch and bound.                                         *)
(*                                                                         *)
(* A deadline or a failed poll leaves a completion behind for a later call, so the number   *)
(* of outstanding signals is not tied to the call, as it is for the AIV    *)
(* transport.  Counted from the start of the queue pair they still are:    *)
(* while every request was recorded and none failed, t signals were taken, *)
(* the next ones are in the CQ and the rest, up to the m-th, are rung      *)
(* (SchedInv).  OwnInv adds that without an abandoned wait the only          *)
(* successful completion around is the one the current call waits for,     *)
(* and FreshInv that a request rung when nothing was owed can only meet    *)
(* its own.                                                                *)
(***************************************************************************)
EXTENDS RaTransport, TransportQpLemmas

-----------------------------------------------------------------------------
(* The inductive invariant. *)

\* requests the scheduling state has charged, once each was rung
Recorded == IF pc = "ring" THEN head - 1 ELSE head

RingInv ==
  /\ unsignaled < Interval
  /\ executed <= rung /\ rung <= head
  /\ ~unrecorded => rung = Recorded

CallInv ==
  /\ pc \in {"post", "ring"} => sendCredits >= 1
  /\ pc = "recv" => recvCredits >= 1
  /\ pc = "ring" => head >= 1
  /\ pc # "idle" => result # "waited"

\* A queue pair none of whose requests failed has successful CQEs only.
OkInv == failedAt = None => \A k \in 1 .. Len(sendCq) : sendCq[k].ok

\* p is the signaled request that is written and whose doorbell is next
Unrung(p) == pc = "ring" /\ ShouldSignal /\ p = head - 1

\* t signals were taken and m recorded.
Schedule(t, m) ==
  /\ Taken(t)
  /\ Recorded = Span(m) + unsignaled
  /\ sendCredits + (Recorded - tail) = Depth
  /\ t + Len(sendCq) <= m
  /\ Owed({p \in signals : ~Unrung(p)}, t + Len(sendCq), m)
  /\ pc = "ring" /\ ShouldSignal => head - 1 \in signals

SchedInv ==
  (failedAt = None /\ ~unrecorded) => \E t, m \in Nat : Schedule(t, m)

\* Unless a wait was abandoned, a successful CQE is the one the call waits for, and
\* nothing else that is signaled is on its way.
OwnInv ==
  (~abandoned /\ ~unrecorded) =>
    /\ \A k \in 1 .. Len(sendCq) : sendCq[k].ok =>
         /\ k = 1 /\ pc = "wait"
         /\ waitedFor \in Nat /\ waitedFor < executed /\ waitedFor \notin signals
         /\ failedAt = None \/ failedAt > waitedFor
    /\ failedAt = None =>
         \A p \in signals : (pc = "wait" /\ p = waitedFor) \/ Unrung(p)

\* the last awaited request has executed without error
Done == executed > waitedFor /\ (failedAt # None => failedAt > waitedFor)

WaitedOwn == (result = "waited" /\ ~abandoned /\ ~unrecorded) => Done

IInv ==
  /\ TypeOK /\ RingInv /\ CallInv /\ OkInv /\ SchedInv /\ OwnInv
  /\ WaitedOwn

\* Nothing was owed when the awaited request was rung: then a success can only
\* be its own, whatever happened before.
FreshInv ==
  ~stale =>
    /\ pc = "wait" =>
         /\ signals \subseteq {waitedFor} /\ waitedFor \in Nat
         /\ \A k \in 1 .. Len(sendCq) : sendCq[k].ok => Done
    /\ result = "waited" => Done

-----------------------------------------------------------------------------
(* Facts used by several actions. *)

\* Outside "ring" every signaled request was rung.
LEMMA NoneUnrung ==
  ASSUME pc # "ring"
  PROVE  {p \in signals : ~Unrung(p)} = signals /\ Recorded = head
  BY DEF Unrung, Recorded

\* The states Transport::build_device_transport creates satisfy the invariant.
LEMMA InitIInv == Init => IInv
<1> SUFFICES ASSUME Init PROVE IInv
  OBVIOUS
<1>1. /\ unsignaled = 0 /\ sendCredits = Depth /\ recvCredits = RecvDepth
      /\ head = 0 /\ tail = 0 /\ executed = 0
      /\ signals = {} /\ sendCq = <<>> /\ failedAt = None
      /\ rqHead = 0 /\ rqTail = 0 /\ recvCq = <<>>
      /\ rung = 0 /\ pc = "idle" /\ target = 0 /\ result = "none"
      /\ waitedFor = None /\ stale = FALSE /\ abandoned = FALSE /\ unrecorded = FALSE
  BY DEF Init, QpInit
<1>2. Depth \in Nat /\ RecvDepth \in Nat /\ Interval \in Nat /\ Interval >= 1
  BY QpAssumption
<1>3. TypeOK
  <2>1. QpTypeOK
    BY <1>1, <1>2 DEF QpTypeOK, None
  <2>2. stale \in BOOLEAN /\ abandoned \in BOOLEAN /\ unrecorded \in BOOLEAN
    BY <1>1, Zenon
  <2> QED  BY <1>1, <2>1, <2>2 DEF TypeOK, Results
<1>4. RingInv /\ CallInv /\ OkInv
  BY <1>1, <1>2 DEF RingInv, CallInv, OkInv, Recorded
<1>5. Schedule(0, 0)
  <2>1. Len(sendCq) = 0 /\ {p \in signals : ~Unrung(p)} = {} /\ Recorded = 0
    BY <1>1 DEF Recorded
  <2>2. Taken(0)
    BY <1>1, <1>2, <2>1, SpanFacts DEF Taken
  <2>3. Owed({}, 0 + 0, 0)
    BY DEF Owed
  <2>4. 0 = Span(0) + 0 /\ Depth + (0 - 0) = Depth /\ 0 + 0 <= 0
    BY <1>2, SpanFacts
  <2> QED  BY <2>1, <2>2, <2>3, <2>4, <1>1 DEF Schedule
<1>6. SchedInv
  BY <1>5 DEF SchedInv
<1>7. OwnInv /\ WaitedOwn
  BY <1>1 DEF OwnInv, WaitedOwn, Done
<1> QED  BY <1>3, <1>4, <1>6, <1>7 DEF IInv

\* Steps that leave the send side and the adapter alone and neither enter nor
\* leave the wait or the doorbell.
LEMMA SendSideUnchanged ==
  ASSUME IInv, UNCHANGED <<sendVars, nicVars, rung, waitedFor, stale, abandoned, unrecorded>>,
         \/ pc' = pc
         \/ pc \notin {"ring", "wait"} /\ pc' \notin {"ring", "wait"}
  PROVE  RingInv' /\ OkInv' /\ SchedInv' /\ OwnInv'
<1>1. /\ unsignaled' = unsignaled /\ sendCredits' = sendCredits /\ head' = head
      /\ tail' = tail /\ executed' = executed /\ signals' = signals
      /\ sendCq' = sendCq /\ failedAt' = failedAt
      /\ rung' = rung /\ waitedFor' = waitedFor /\ stale' = stale /\ abandoned' = abandoned
      /\ unrecorded' = unrecorded
  BY DEF sendVars, nicVars
<1>2. Recorded' = Recorded /\ (pc' = "wait" <=> pc = "wait") /\ (pc' = "ring" <=> pc = "ring")
  BY <1>1 DEF Recorded
<1>3. \A p : Unrung(p)' <=> Unrung(p)
  BY <1>1, <1>2 DEF Unrung, ShouldSignal
<1>4. RingInv /\ OkInv /\ SchedInv /\ OwnInv
  BY DEF IInv
<1>5. RingInv' /\ OkInv'
  BY <1>1, <1>2, <1>4 DEF RingInv, OkInv
<1>6. ASSUME NEW t \in Nat, NEW m \in Nat, Schedule(t, m) PROVE Schedule(t, m)'
  <2>1. {p \in signals : ~Unrung(p)}' = {p \in signals : ~Unrung(p)}
    BY <1>1, <1>3
  <2>2. Taken(t)'
    BY <1>1, <1>6 DEF Schedule, Taken
  <2> QED  BY <1>1, <1>2, <1>6, <2>1, <2>2 DEF Schedule, Owed, ShouldSignal
<1>7. SchedInv'
  BY <1>1, <1>4, <1>6 DEF SchedInv
<1>8. OwnInv'
  BY <1>1, <1>2, <1>3, <1>4 DEF OwnInv
<1> QED  BY <1>5, <1>7, <1>8

\* A reclaim between doorbells keeps the schedule; it takes the call's own
\* completion or, when the call is not waiting, finds no successful one.
LEMMA ReclaimKeeps ==
  ASSUME IInv, NEW n \in 0 .. Len(sendCq), Reclaim(n),
         pc # "ring", pc' # "ring",
         pc = "wait" => n >= 1,
         pc' = "wait" => pc = "wait",
         UNCHANGED <<unsignaled, head, executed, signals, failedAt, rung, waitedFor,
                     stale, abandoned, unrecorded>>
  PROVE  /\ sendCredits' \in Nat /\ tail' \in Nat /\ sendCq' \in Seq(Cqe)
         /\ RingInv' /\ OkInv' /\ SchedInv' /\ OwnInv'
<1>0. TypeOK /\ QpTypeOK /\ RingInv /\ OkInv /\ SchedInv /\ OwnInv
  BY DEF IInv, TypeOK
<1>1. /\ unsignaled' = unsignaled /\ head' = head /\ executed' = executed
      /\ signals' = signals /\ failedAt' = failedAt /\ rung' = rung
      /\ waitedFor' = waitedFor /\ stale' = stale /\ abandoned' = abandoned /\ unrecorded' = unrecorded
  OBVIOUS
<1> DEFINE d == SubSeq(sendCq, n + 1, Len(sendCq))
<1>2. sendCq \in Seq(Cqe) /\ Len(sendCq) \in Nat /\ n \in Nat
  BY <1>0 DEF QpTypeOK
<1>3. /\ d \in Seq(Cqe) /\ Len(d) = Len(sendCq) - n
      /\ \A k \in 1 .. Len(d) : k + n \in 1 .. Len(sendCq) /\ d[k] = sendCq[k + n]
  BY <1>2, DropFacts
<1>4. sendCq' = d /\ sendCredits' = sendCredits + Span(n) /\ tail' = TailAfter(n) /\ ReclaimSend(n)
  BY DEF Reclaim, ReclaimSend
<1> HIDE DEF d
<1>5. sendCredits' \in Nat
  <2>1. Span(n) \in Nat /\ sendCredits \in Nat
    BY <1>0, <1>2, SpanFacts DEF QpTypeOK
  <2> QED  BY <2>1, <1>4
<1>6. tail' \in Nat
  <2>1. CASE n = 0
    BY <2>1, <1>0, <1>4 DEF TailAfter, QpTypeOK
  <2>2. CASE n # 0
    <3>1. n \in 1 .. Len(sendCq)
      BY <2>2, <1>2
    <3>2. sendCq[n].wqe \in Nat
      BY <3>1, <1>2, CqeFields
    <3> QED  BY <3>2, <2>2, <1>4 DEF TailAfter
  <2> QED  BY <2>1, <2>2
<1>7. Recorded' = Recorded
  BY <1>1 DEF Recorded
<1>8. RingInv'
  BY <1>0, <1>1, <1>7 DEF RingInv
<1>9. OkInv'
  BY <1>0, <1>1, <1>3, <1>4 DEF OkInv
<1>10. SchedInv'
  <2> SUFFICES ASSUME failedAt = None, ~unrecorded
               PROVE  \E t, m \in Nat : Schedule(t, m)'
    BY <1>1 DEF SchedInv
  <2>1. PICK t \in Nat, m \in Nat : Schedule(t, m)
    BY <1>0 DEF SchedInv
  <2>2. Taken(t)
    BY <2>1 DEF Schedule
  <2>3. /\ Taken(t + n)' /\ t + n \in Nat
        /\ t + n + Len(sendCq') = t + Len(sendCq)
        /\ tail' = tail + Span(n) /\ sendCredits' = sendCredits + Span(n)
    BY <2>2, <1>0, <1>1, <1>4, ReclaimTaken
  <2>4. sendCredits' + (Recorded - tail') = Depth
    <3>1. PICK x \in Nat : Span(n) = x
      BY <1>2, SpanFacts
    <3>2. tail' = tail + x /\ sendCredits' = sendCredits + x
      BY <2>3, <3>1, Zenon
    <3>3. sendCredits + (Recorded - tail) = Depth
      BY <2>1 DEF Schedule
    <3>4. Recorded = head /\ head \in Nat /\ tail \in Nat /\ sendCredits \in Nat
      BY <1>0, NoneUnrung DEF QpTypeOK
    <3> QED  BY <3>2, <3>3, <3>4
  <2>5. {p \in signals : ~Unrung(p)}' = {p \in signals : ~Unrung(p)}
    <3>1. \A p : ~Unrung(p) /\ ~Unrung(p)'
      BY DEF Unrung
    <3> QED  BY <3>1, <1>1
  <2>6. /\ t + Len(sendCq) <= m
        /\ Owed({p \in signals : ~Unrung(p)}, t + Len(sendCq), m)
        /\ Recorded = Span(m) + unsignaled
    BY <2>1 DEF Schedule
  <2>7. /\ Owed({p \in signals : ~Unrung(p)}', t + n + Len(sendCq'), m)
        /\ t + n + Len(sendCq') <= m
    BY <2>3, <2>5, <2>6, Zenon
  <2>8. Owed({p \in signals : ~Unrung(p)}, t + n + Len(sendCq), m)'
    BY <2>7 DEF Owed
  <2>9. Schedule(t + n, m)'
    BY <2>3, <2>4, <2>6, <2>7, <2>8, <1>1, <1>7 DEF Schedule
  <2> QED  BY <2>3, <2>9
<1>11. OwnInv'
  <2> SUFFICES ASSUME ~abandoned, ~unrecorded
               PROVE  /\ \A k \in 1 .. Len(d) : ~d[k].ok
                      /\ failedAt = None => signals = {}
    BY <1>1, <1>4 DEF OwnInv
  <2>1. ASSUME NEW k \in 1 .. Len(sendCq), sendCq[k].ok
        PROVE  k = 1 /\ pc = "wait" /\ waitedFor \notin signals
    BY <2>1, <1>0 DEF OwnInv
  <2>2. \A k \in 1 .. Len(d) : ~d[k].ok
    <3> SUFFICES ASSUME NEW k \in 1 .. Len(d), d[k].ok PROVE FALSE
      OBVIOUS
    <3>1. k + n \in 1 .. Len(sendCq) /\ sendCq[k + n].ok
      BY <1>3
    <3>2. k + n = 1 /\ pc = "wait"
      BY <2>1, <3>1
    <3> QED  BY <3>2, <1>2, <1>3
  <2>3. ASSUME failedAt = None PROVE signals = {}
    <3>1. \A p \in signals : pc = "wait" /\ p = waitedFor
      BY <2>3, <1>0 DEF OwnInv, Unrung
    <3>2. pc = "wait" => waitedFor \notin signals
      <4> SUFFICES ASSUME pc = "wait" PROVE waitedFor \notin signals
        OBVIOUS
      <4>1. 1 \in 1 .. Len(sendCq)
        BY <1>2
      <4>2. sendCq[1].ok
        BY <4>1, <2>3, <1>0 DEF OkInv
      <4> QED  BY <4>1, <4>2, <2>1
    <3> QED  BY <3>1, <3>2
  <2> QED  BY <2>2, <2>3
<1> QED  BY <1>3, <1>4, <1>5, <1>6, <1>8, <1>9, <1>10, <1>11

-----------------------------------------------------------------------------
(* One lemma per action: it preserves the inductive invariant. *)

\* The start of a post, with its reclaim.
LEMMA PostIInv == IInv /\ Post => IInv'
<1> SUFFICES ASSUME IInv, Post PROVE IInv'
  OBVIOUS
<1> DEFINE n == IF sendCredits = 0 THEN SendReady ELSE 0
<1>0. TypeOK /\ QpTypeOK /\ CallInv
  BY DEF IInv, TypeOK
<1>1. n \in 0 .. Len(sendCq)
  BY <1>0, ReadyFacts DEF QpTypeOK
<1>2. /\ pc = "idle" /\ Reclaim(n)
      /\ UNCHANGED <<unsignaled, head, executed, signals, failedAt, rung, waitedFor,
                     stale, abandoned, unrecorded>>
      /\ UNCHANGED recvVars /\ target' = target
  BY DEF Post, history
<1>3. \/ pc' = "idle" /\ result' \in {"kRa", "kTransport"}
      \/ pc' = "post" /\ result' = "none" /\ sendCredits' # 0
  BY DEF Post, Return
<1> HIDE DEF n
<1>4. /\ sendCredits' \in Nat /\ tail' \in Nat /\ sendCq' \in Seq(Cqe)
      /\ RingInv' /\ OkInv' /\ SchedInv' /\ OwnInv'
  <2>1. pc # "ring" /\ pc' # "ring" /\ pc # "wait" /\ pc' # "wait"
    BY <1>2, <1>3
  <2> QED  BY <2>1, <1>1, <1>2, ReclaimKeeps
<1>5. TypeOK'
  <2>1. QpTypeOK'
    BY <1>0, <1>2, <1>4 DEF QpTypeOK, recvVars
  <2>2. stale' \in BOOLEAN /\ abandoned' \in BOOLEAN /\ unrecorded' \in BOOLEAN
    BY <1>0, <1>2, Zenon DEF TypeOK
  <2> QED  BY <1>0, <1>2, <1>3, <2>1, <2>2 DEF TypeOK, Results
<1>6. CallInv'
  <2>1. pc' = "post" => sendCredits' >= 1
    BY <1>3, <1>4
  <2> QED  BY <2>1, <1>3 DEF CallInv
<1>7. WaitedOwn'
  BY <1>3 DEF WaitedOwn, Done
<1> QED  BY <1>4, <1>5, <1>6, <1>7 DEF IInv

\* The poll of reclaim_if_needed fails: nothing is taken.
LEMMA ReclaimFailsIInv == IInv /\ ReclaimFails => IInv'
<1> SUFFICES ASSUME IInv, ReclaimFails PROVE IInv'
  OBVIOUS
<1>0. TypeOK /\ QpTypeOK
  BY DEF IInv, TypeOK
<1>1. /\ pc = "idle" /\ pc' = "idle" /\ result' = "kRa"
      /\ UNCHANGED <<sendVars, nicVars, rung, waitedFor, stale, abandoned, unrecorded>>
      /\ UNCHANGED recvVars /\ target' = target
  BY DEF ReclaimFails, Return, history
<1>2. RingInv' /\ OkInv' /\ SchedInv' /\ OwnInv'
  BY <1>1, SendSideUnchanged
<1>3. TypeOK'
  <2>1. QpTypeOK'
    BY <1>0, <1>1 DEF QpTypeOK, sendVars, nicVars, recvVars
  <2>2. stale' \in BOOLEAN /\ abandoned' \in BOOLEAN /\ unrecorded' \in BOOLEAN
    BY <1>0, <1>1, Zenon DEF TypeOK
  <2> QED  BY <1>0, <1>1, <2>1, <2>2 DEF TypeOK, Results
<1>4. CallInv' /\ WaitedOwn'
  BY <1>1 DEF CallInv, WaitedOwn
<1> QED  BY <1>2, <1>3, <1>4 DEF IInv

\* The provider refuses the request.
LEMMA PrepareSendFailsIInv == IInv /\ PrepareSendFails => IInv'
<1> SUFFICES ASSUME IInv, PrepareSendFails PROVE IInv'
  OBVIOUS
<1>0. TypeOK /\ QpTypeOK
  BY DEF IInv, TypeOK
<1>1. /\ pc = "post" /\ pc' = "idle" /\ result' \in {"kInvalidArgument", "kRa"}
      /\ UNCHANGED <<sendVars, nicVars, rung, waitedFor, stale, abandoned, unrecorded>>
      /\ UNCHANGED recvVars /\ target' = target
  BY DEF PrepareSendFails, Return, history
<1>2. RingInv' /\ OkInv' /\ SchedInv' /\ OwnInv'
  BY <1>1, SendSideUnchanged
<1>3. TypeOK'
  <2>1. QpTypeOK'
    BY <1>0, <1>1 DEF QpTypeOK, sendVars, nicVars, recvVars
  <2>2. stale' \in BOOLEAN /\ abandoned' \in BOOLEAN /\ unrecorded' \in BOOLEAN
    BY <1>0, <1>1, Zenon DEF TypeOK
  <2> QED  BY <1>0, <1>1, <2>1, <2>2 DEF TypeOK, Results
<1>4. CallInv' /\ WaitedOwn'
  BY <1>1 DEF CallInv, WaitedOwn, Done
<1> QED  BY <1>2, <1>3, <1>4 DEF IInv

\* The provider writes the request; it is neither rung nor recorded yet.
LEMMA PrepareSendIInv == IInv /\ PrepareSend => IInv'
<1> SUFFICES ASSUME IInv, PrepareSend PROVE IInv'
  OBVIOUS
<1>0. TypeOK /\ QpTypeOK /\ RingInv /\ CallInv /\ OkInv /\ SchedInv /\ OwnInv
  BY DEF IInv, TypeOK
<1>1. /\ pc = "post" /\ pc' = "ring" /\ head' = head + 1
      /\ signals' = IF ShouldSignal THEN signals \cup {head} ELSE signals
      /\ unsignaled' = unsignaled /\ sendCredits' = sendCredits /\ tail' = tail
      /\ executed' = executed /\ sendCq' = sendCq /\ failedAt' = failedAt
      /\ rung' = rung /\ target' = target /\ result' = result
      /\ waitedFor' = waitedFor /\ stale' = stale /\ abandoned' = abandoned /\ unrecorded' = unrecorded
      /\ UNCHANGED recvVars
  BY DEF PrepareSend, history
<1>2. /\ head \in Nat /\ rung \in Nat /\ executed \in Nat /\ signals \subseteq Nat
      /\ sendCredits \in Nat /\ unsignaled \in Nat
  BY <1>0 DEF TypeOK, QpTypeOK
<1>3. Recorded = head /\ Recorded' = head /\ {p \in signals : ~Unrung(p)} = signals
  BY <1>1, <1>2, NoneUnrung DEF Recorded
<1>4. \A p : Unrung(p)' <=> ShouldSignal /\ p = head
  BY <1>1, <1>2 DEF Unrung, ShouldSignal
<1>5. TypeOK'
  <2>1. signals' \subseteq Nat
    BY <1>1, <1>2
  <2>2. QpTypeOK'
    BY <1>0, <1>1, <1>2, <2>1 DEF QpTypeOK, recvVars
  <2>3. stale' \in BOOLEAN /\ abandoned' \in BOOLEAN /\ unrecorded' \in BOOLEAN
    BY <1>0, <1>1, Zenon DEF TypeOK
  <2> QED  BY <1>0, <1>1, <2>2, <2>3 DEF TypeOK
<1>6. RingInv'
  BY <1>0, <1>1, <1>2, <1>3 DEF RingInv
<1>7. CallInv'
  BY <1>0, <1>1, <1>2 DEF CallInv
<1>8. OkInv'
  BY <1>0, <1>1 DEF OkInv
<1>9. ASSUME NEW t \in Nat, NEW m \in Nat, Schedule(t, m) PROVE Schedule(t, m)'
  <2>1. Taken(t)'
    BY <1>1, <1>9 DEF Schedule, Taken
  <2>2. Recorded' = Span(m) + unsignaled' /\ sendCredits' + (Recorded' - tail') = Depth
    BY <1>1, <1>3, <1>9 DEF Schedule
  <2>3. t + Len(sendCq') <= m /\ Owed(signals, t + Len(sendCq), m)
    BY <1>1, <1>3, <1>9 DEF Schedule
  <2>4. head \notin signals
    <3> SUFFICES ASSUME head \in signals PROVE FALSE
      OBVIOUS
    <3>1. PICK j \in (t + Len(sendCq) + 1) .. m : head = Span(j) - 1
      BY <2>3, <1>2 DEF Owed
    <3>2. j \in Nat /\ j <= m
      BY <1>0 DEF QpTypeOK
    <3>3. Span(j) <= Span(m) /\ Span(j) \in Nat /\ Span(m) \in Nat
      BY <3>2, SpanOrder
    <3>4. PICK x \in Nat, y \in Nat : x = Span(j) /\ y = Span(m)
      BY <3>3
    <3>5. head = x - 1 /\ head = y + unsignaled /\ x <= y
      BY <3>1, <3>3, <3>4, <1>3, <1>9, Zenon DEF Schedule
    <3> QED  BY <3>5, <1>2
  <2>5. {p \in signals : ~Unrung(p)}' = signals
    BY <1>1, <1>4, <2>4
  <2>6. Owed({p \in signals : ~Unrung(p)}, t + Len(sendCq), m)'
    <3>1. Owed({p \in signals : ~Unrung(p)}', t + Len(sendCq'), m)
      BY <2>3, <2>5, <1>1, Zenon
    <3> QED  BY <3>1 DEF Owed
  <2>7. ShouldSignal' => (head - 1 \in signals)'
    BY <1>1, <1>2 DEF ShouldSignal
  <2> QED  BY <2>1, <2>2, <2>3, <2>6, <2>7, <1>1 DEF Schedule
<1>10. SchedInv'
  BY <1>0, <1>1, <1>9 DEF SchedInv
<1>11. OwnInv'
  <2> SUFFICES ASSUME ~abandoned, ~unrecorded
               PROVE  /\ \A k \in 1 .. Len(sendCq) : ~sendCq[k].ok
                      /\ failedAt = None => \A p \in signals' : Unrung(p)'
    BY <1>1 DEF OwnInv
  <2>1. \A k \in 1 .. Len(sendCq) : ~sendCq[k].ok
    BY <1>0, <1>1 DEF OwnInv
  <2>2. failedAt = None => signals = {}
    BY <1>0, <1>1 DEF OwnInv, Unrung
  <2> QED  BY <2>1, <2>2, <1>1, <1>4
<1>12. WaitedOwn'
  BY <1>0, <1>1 DEF CallInv, WaitedOwn, Done
<1> QED  BY <1>5, <1>6, <1>7, <1>8, <1>10, <1>11, <1>12 DEF IInv

\* The doorbell fails: from here on the schedule is no longer claimed.
LEMMA RingSendFailsIInv == IInv /\ RingSendFails => IInv'
<1> SUFFICES ASSUME IInv, RingSendFails PROVE IInv'
  OBVIOUS
<1>0. TypeOK /\ QpTypeOK /\ RingInv /\ OkInv
  BY DEF IInv, TypeOK
<1>1. /\ pc' = "idle" /\ result' = "kRuntime" /\ unrecorded' = TRUE
      /\ UNCHANGED <<sendVars, nicVars>> /\ UNCHANGED recvVars
      /\ rung' = rung /\ target' = target /\ waitedFor' = waitedFor /\ stale' = stale /\ abandoned' = abandoned
  BY DEF RingSendFails, Return
<1>2. TypeOK'
  <2>1. QpTypeOK'
    BY <1>0, <1>1 DEF QpTypeOK, sendVars, nicVars, recvVars
  <2>2. stale' \in BOOLEAN /\ abandoned' \in BOOLEAN /\ unrecorded' \in BOOLEAN
    BY <1>0, <1>1, Zenon DEF TypeOK
  <2> QED  BY <1>0, <1>1, <2>1, <2>2 DEF TypeOK, Results
<1>3. RingInv' /\ OkInv'
  BY <1>0, <1>1 DEF RingInv, OkInv, sendVars, nicVars
<1>4. CallInv' /\ SchedInv' /\ OwnInv' /\ WaitedOwn'
  BY <1>1 DEF CallInv, SchedInv, OwnInv, WaitedOwn, Done
<1> QED  BY <1>2, <1>3, <1>4 DEF IInv

\* The doorbell is rung: the request is charged, and a signaled one opens the
\* next interval and becomes the only signal on its way.
LEMMA RingSendIInv == IInv /\ RingSend => IInv'
<1> SUFFICES ASSUME IInv, RingSend PROVE IInv'
  OBVIOUS
<1>0. TypeOK /\ QpTypeOK /\ RingInv /\ CallInv /\ OkInv /\ SchedInv /\ OwnInv
  BY DEF IInv, TypeOK
<1>1. /\ pc = "ring" /\ rung' = head /\ sendCredits' = sendCredits - 1
      /\ unsignaled' = (IF ShouldSignal THEN 0 ELSE unsignaled + 1)
      /\ target' = sendCredits' + Interval
      /\ head' = head /\ tail' = tail /\ executed' = executed /\ signals' = signals
      /\ sendCq' = sendCq /\ failedAt' = failedAt
      /\ abandoned' = abandoned /\ unrecorded' = unrecorded /\ UNCHANGED recvVars
  BY DEF RingSend, WaitTarget, nicVars
<1>2. \/ ShouldSignal /\ pc' = "wait" /\ waitedFor' = head - 1 /\ result' = result
      \/ ~ShouldSignal /\ pc' = "idle" /\ result' = "ok" /\ waitedFor' = waitedFor
  BY DEF RingSend, Return
<1>20. stale' \in BOOLEAN
  <2>1. stale' = EarlierOwed \/ stale' = stale
    BY DEF RingSend
  <2>2. EarlierOwed \in BOOLEAN /\ stale \in BOOLEAN
    BY <1>0, Zenon DEF TypeOK, EarlierOwed
  <2> QED  BY <2>1, <2>2, Zenon
<1>3. /\ head \in Nat /\ head >= 1 /\ rung \in Nat /\ executed \in Nat /\ signals \subseteq Nat
      /\ sendCredits \in Nat /\ sendCredits >= 1 /\ unsignaled \in Nat /\ unsignaled < Interval
      /\ Interval \in Nat /\ Interval >= 1 /\ tail \in Nat /\ Len(sendCq) \in Nat
      /\ executed <= rung /\ rung <= head
  BY <1>0, <1>1, QpAssumption DEF TypeOK, QpTypeOK, CallInv, RingInv
<1>4. Recorded = head - 1 /\ Recorded' = head
  BY <1>1, <1>2 DEF Recorded
<1>5. unsignaled' \in Nat /\ unsignaled' < Interval
  BY <1>1, <1>3 DEF ShouldSignal
<1>6. TypeOK'
  <2>1. QpTypeOK'
    BY <1>0, <1>1, <1>3, <1>5 DEF QpTypeOK, recvVars
  <2>2. stale' \in BOOLEAN /\ abandoned' \in BOOLEAN /\ unrecorded' \in BOOLEAN
    BY <1>0, <1>1, <1>20, Zenon DEF TypeOK
  <2>3. target' \in Nat /\ rung' \in Nat /\ waitedFor' \in Nat \cup {None}
    BY <1>0, <1>1, <1>2, <1>3 DEF TypeOK
  <2> QED  BY <1>0, <1>2, <2>1, <2>2, <2>3 DEF TypeOK, Results
<1>7. RingInv'
  BY <1>1, <1>3, <1>4, <1>5 DEF RingInv
<1>8. CallInv' /\ OkInv'
  BY <1>0, <1>1, <1>2 DEF CallInv, OkInv
<1>9. \A p : ~Unrung(p)'
  BY <1>2 DEF Unrung
<1>10. ASSUME NEW t \in Nat, NEW m \in Nat, Schedule(t, m),
              ShouldSignal
       PROVE  Schedule(t, m + 1)'
  <2>1. PICK x \in Nat : Span(m) = x
    BY SpanFacts
  <2>2. head - 1 = x + unsignaled /\ sendCredits + ((head - 1) - tail) = Depth
    BY <1>4, <1>10, <2>1 DEF Schedule
  <2>3. unsignaled + 1 = Interval /\ unsignaled' = 0
    BY <1>1, <1>3, <1>10 DEF ShouldSignal
  <2>4. Span(m + 1) = x + Interval
    BY <2>1, SpanOrder
  <2>5. head = Span(m + 1) /\ sendCredits' + (head - tail) = Depth
    <3>1. head = x + Interval /\ sendCredits' + (head - tail) = Depth
      BY <2>2, <2>3, <1>1, <1>3
    <3> QED  BY <3>1, <2>4
  <2>6. Recorded' = Span(m + 1) + unsignaled'
    BY <2>3, <2>5, <1>3, <1>4
  <2>7. t + Len(sendCq) <= m /\ Owed({p \in signals : ~Unrung(p)}, t + Len(sendCq), m)
    BY <1>10 DEF Schedule
  <2>8. \A p : Unrung(p) <=> p = Span(m + 1) - 1
    BY <1>1, <1>10, <2>5 DEF Unrung
  <2>9. {p \in signals : ~Unrung(p)}' = signals
    BY <1>1, <1>9
  <2>10. \A j : j \in (t + Len(sendCq) + 1) .. (m + 1) <=>
               (j = m + 1 \/ j \in (t + Len(sendCq) + 1) .. m)
    BY <2>7, <1>3
  <2>11. Span(m + 1) - 1 \in signals
    BY <2>5, <1>1, <1>10 DEF Schedule
  <2>12. ASSUME NEW p \in Nat
         PROVE  p \in signals <=> \E j \in (t + Len(sendCq) + 1) .. (m + 1) : p = Span(j) - 1
    <3>1. p \in signals /\ ~Unrung(p) <=> \E j \in (t + Len(sendCq) + 1) .. m : p = Span(j) - 1
      BY <2>7 DEF Owed
    <3>2. p \in signals <=> (p = Span(m + 1) - 1
                \/ \E j \in (t + Len(sendCq) + 1) .. m : p = Span(j) - 1)
      BY <3>1, <2>8, <2>11, Zenon
    <3> QED  BY <3>2, <2>10, Zenon
  <2>13. Owed({p \in signals : ~Unrung(p)}', t + Len(sendCq'), m + 1)
    BY <2>12, <2>9, <1>1, Zenon DEF Owed
  <2>14. Owed({p \in signals : ~Unrung(p)}, t + Len(sendCq), m + 1)'
    BY <2>13 DEF Owed
  <2>15. Taken(t)'
    BY <1>1, <1>10 DEF Schedule, Taken
  <2>16. t + Len(sendCq') <= m + 1
    BY <2>7, <1>1, <1>3
  <2>17. sendCredits' + (Recorded' - tail') = Depth /\ pc' # "ring"
    BY <2>5, <1>1, <1>2, <1>4
  <2> QED  BY <2>6, <2>14, <2>15, <2>16, <2>17 DEF Schedule
<1>12. ASSUME NEW t \in Nat, NEW m \in Nat, Schedule(t, m), ~ShouldSignal
       PROVE  Schedule(t, m)'
  <2>1. PICK x \in Nat : Span(m) = x
    BY SpanFacts
  <2>2. head - 1 = x + unsignaled /\ sendCredits + ((head - 1) - tail) = Depth
    BY <1>4, <1>12, <2>1 DEF Schedule
  <2>3. unsignaled' = unsignaled + 1
    BY <1>1, <1>12
  <2>4. head = x + unsignaled' /\ sendCredits' + (head - tail) = Depth
    BY <2>2, <2>3, <1>1, <1>3
  <2>5. Recorded' = Span(m) + unsignaled' /\ sendCredits' + (Recorded' - tail') = Depth
    BY <2>1, <2>4, <1>1, <1>4
  <2>6. {p \in signals : ~Unrung(p)}' = {p \in signals : ~Unrung(p)}
    BY <1>1, <1>9, <1>12 DEF Unrung
  <2>7. Taken(t)'
    BY <1>1, <1>12 DEF Schedule, Taken
  <2>8. t + Len(sendCq) <= m /\ Owed({p \in signals : ~Unrung(p)}, t + Len(sendCq), m)
    BY <1>12 DEF Schedule
  <2>9. Owed({p \in signals : ~Unrung(p)}', t + Len(sendCq'), m)
    BY <2>6, <2>8, <1>1, Zenon
  <2>10. Owed({p \in signals : ~Unrung(p)}, t + Len(sendCq), m)'
    BY <2>9 DEF Owed
  <2>11. pc' # "ring"
    BY <1>2
  <2> QED  BY <2>5, <2>7, <2>8, <2>10, <2>11, <1>1 DEF Schedule
<1>13. SchedInv'
  <2> SUFFICES ASSUME failedAt = None, ~unrecorded
               PROVE  \E t, m \in Nat : Schedule(t, m)'
    BY <1>1 DEF SchedInv
  <2>1. PICK t \in Nat, m \in Nat : Schedule(t, m)
    BY <1>0 DEF SchedInv
  <2>2. m + 1 \in Nat
    OBVIOUS
  <2> QED  BY <2>1, <2>2, <1>10, <1>12
<1>14. OwnInv'
  <2> SUFFICES ASSUME ~abandoned, ~unrecorded
               PROVE  /\ \A k \in 1 .. Len(sendCq) : ~sendCq[k].ok
                      /\ failedAt = None =>
                           \A p \in signals : pc' = "wait" /\ p = waitedFor'
    BY <1>1 DEF OwnInv
  <2>1. \A k \in 1 .. Len(sendCq) : ~sendCq[k].ok
    BY <1>0, <1>1 DEF OwnInv
  <2>2. failedAt = None => \A p \in signals : ShouldSignal /\ p = head - 1
    BY <1>0, <1>1 DEF OwnInv, Unrung
  <2> QED  BY <2>1, <2>2, <1>2
<1>15. WaitedOwn'
  BY <1>0, <1>1, <1>2 DEF CallInv, WaitedOwn, Done
<1> QED  BY <1>6, <1>7, <1>8, <1>13, <1>14, <1>15 DEF IInv

\* A turn of the wait that finds completions: when the first one is a success it
\* is the awaited request's own, which has therefore executed.
LEMMA WaitForSendCompletionIInv == IInv /\ WaitForSendCompletion => IInv'
<1> SUFFICES ASSUME IInv, WaitForSendCompletion PROVE IInv'
  OBVIOUS
<1>0. TypeOK /\ QpTypeOK /\ CallInv /\ OwnInv
  BY DEF IInv, TypeOK
<1>1. PICK n \in 0 .. Len(sendCq) : n = SendReady
  BY <1>0, ReadyFacts
<1>2. /\ pc = "wait" /\ sendCq # <<>> /\ Reclaim(n)
      /\ UNCHANGED <<unsignaled, head, executed, signals, failedAt, rung, waitedFor,
                     stale, abandoned, unrecorded>>
      /\ UNCHANGED recvVars /\ target' = target
  BY <1>1 DEF WaitForSendCompletion, history
<1>3. n >= 1 /\ n \in Nat /\ Len(sendCq) \in Nat
  BY <1>0, <1>1, <1>2, ReadyFacts DEF QpTypeOK
<1>4. \/ pc' = "idle" /\ result' = "kRa"
      \/ ~SendFailed(n) /\ pc' = "idle" /\ result' = "waited"
      \/ pc' = pc /\ result' = result
  BY <1>1 DEF WaitForSendCompletion, Return
<1>5. /\ sendCredits' \in Nat /\ tail' \in Nat /\ sendCq' \in Seq(Cqe)
      /\ RingInv' /\ OkInv' /\ SchedInv' /\ OwnInv'
  <2>1. pc # "ring" /\ pc' # "ring"
    BY <1>2, <1>4
  <2> QED  BY <2>1, <1>2, <1>3, ReclaimKeeps
<1>6. TypeOK'
  <2>1. QpTypeOK'
    BY <1>0, <1>2, <1>5 DEF QpTypeOK, recvVars
  <2>2. stale' \in BOOLEAN /\ abandoned' \in BOOLEAN /\ unrecorded' \in BOOLEAN
    BY <1>0, <1>2, Zenon DEF TypeOK
  <2> QED  BY <1>0, <1>2, <1>4, <2>1, <2>2 DEF TypeOK, Results
<1>7. CallInv'
  BY <1>0, <1>2, <1>4 DEF CallInv
<1>8. WaitedOwn'
  <2> SUFFICES ASSUME result' = "waited", ~abandoned, ~unrecorded
               PROVE  executed > waitedFor /\ (failedAt # None => failedAt > waitedFor)
    BY <1>2 DEF WaitedOwn, Done
  <2>1. ~SendFailed(n)
    BY <1>0, <1>2, <1>4 DEF CallInv
  <2>2. 1 \in 1 .. Len(sendCq) /\ 1 \in 1 .. n
    BY <1>3
  <2>3. sendCq[1].ok
    BY <2>1, <2>2 DEF SendFailed
  <2>4. waitedFor \in Nat /\ waitedFor < executed /\ (failedAt = None \/ failedAt > waitedFor)
    BY <2>2, <2>3, <1>0 DEF OwnInv
  <2>5. executed \in Nat
    BY <1>0 DEF QpTypeOK
  <2> QED  BY <2>4, <2>5
<1> QED  BY <1>5, <1>6, <1>7, <1>8 DEF IInv

\* The deadline passes or the poll fails: only what does not depend on the call
\* stays claimed.
LEMMA WaitAbandonedIInv == IInv /\ WaitAbandoned => IInv'
<1> SUFFICES ASSUME IInv, WaitAbandoned PROVE IInv'
  OBVIOUS
<1>0. TypeOK /\ QpTypeOK /\ RingInv /\ OkInv /\ SchedInv
  BY DEF IInv, TypeOK
<1>1. /\ pc = "wait" /\ pc' = "idle" /\ result' \in {"kRuntime", "kRa"}
      /\ abandoned' = TRUE /\ stale' = stale
      /\ unsignaled' = unsignaled /\ sendCredits' = sendCredits /\ head' = head
      /\ tail' = tail /\ executed' = executed /\ signals' = signals
      /\ sendCq' = sendCq /\ failedAt' = failedAt
      /\ UNCHANGED recvVars /\ rung' = rung /\ target' = target
      /\ waitedFor' = waitedFor /\ unrecorded' = unrecorded
  BY DEF WaitAbandoned, Return, sendVars, nicVars
<1>2. TypeOK'
  <2>1. QpTypeOK'
    BY <1>0, <1>1 DEF QpTypeOK, recvVars
  <2>2. stale' \in BOOLEAN /\ abandoned' \in BOOLEAN /\ unrecorded' \in BOOLEAN
    BY <1>0, <1>1, Zenon DEF TypeOK
  <2> QED  BY <1>0, <1>1, <2>1, <2>2 DEF TypeOK, Results
<1>3. Recorded' = Recorded /\ {p \in signals : ~Unrung(p)}' = {p \in signals : ~Unrung(p)}
  BY <1>1 DEF Recorded, Unrung
<1>4. RingInv' /\ OkInv'
  BY <1>0, <1>1, <1>3 DEF RingInv, OkInv
<1>5. ASSUME NEW t \in Nat, NEW m \in Nat, Schedule(t, m) PROVE Schedule(t, m)'
  <2>1. Taken(t)'
    BY <1>1, <1>5 DEF Schedule, Taken
  <2> QED  BY <2>1, <1>1, <1>3, <1>5 DEF Schedule, Owed
<1>6. SchedInv'
  BY <1>0, <1>1, <1>5 DEF SchedInv
<1>7. CallInv' /\ OwnInv' /\ WaitedOwn'
  BY <1>1 DEF CallInv, OwnInv, WaitedOwn, Done
<1> QED  BY <1>2, <1>4, <1>6, <1>7 DEF IInv

\* The start of a receive, with its reclaim.
LEMMA RecvIInv == IInv /\ Recv => IInv'
<1> SUFFICES ASSUME IInv, Recv PROVE IInv'
  OBVIOUS
<1> DEFINE n == IF recvCredits = 0 THEN RecvReady ELSE 0
<1>0. TypeOK /\ QpTypeOK
  BY DEF IInv, TypeOK
<1>1. n \in 0 .. Len(recvCq) /\ n \in Nat
  BY <1>0, ReadyFacts DEF QpTypeOK
<1>2. /\ pc = "idle"
      /\ recvCredits' = recvCredits + n /\ rqTail' = rqTail + n
      /\ recvCq' = SubSeq(recvCq, n + 1, Len(recvCq)) /\ rqHead' = rqHead
      /\ UNCHANGED <<sendVars, nicVars, rung, waitedFor, stale, abandoned, unrecorded>>
      /\ target' = target
  BY DEF Recv, ReclaimReceives, ReclaimRecv, history
<1>3. \/ pc' = "idle" /\ result' \in {"kRa", "kTransport"}
      \/ pc' = "recv" /\ result' = "none" /\ recvCredits' # 0
  BY DEF Recv, Return
<1> HIDE DEF n
<1>4. recvCredits' \in Nat /\ rqTail' \in Nat /\ recvCq' \in Seq(BOOLEAN)
  <2>1. recvCq \in Seq(BOOLEAN) /\ recvCredits \in Nat /\ rqTail \in Nat
    BY <1>0 DEF QpTypeOK
  <2>2. SubSeq(recvCq, n + 1, Len(recvCq)) \in Seq(BOOLEAN)
    BY <2>1, <1>1, DropFacts
  <2> QED  BY <2>1, <2>2, <1>1, <1>2
<1>5. RingInv' /\ OkInv' /\ SchedInv' /\ OwnInv'
  BY <1>2, <1>3, SendSideUnchanged
<1>6. TypeOK'
  <2>1. QpTypeOK'
    BY <1>0, <1>2, <1>4 DEF QpTypeOK, sendVars, nicVars
  <2>2. stale' \in BOOLEAN /\ abandoned' \in BOOLEAN /\ unrecorded' \in BOOLEAN
    BY <1>0, <1>2, Zenon DEF TypeOK
  <2> QED  BY <1>0, <1>2, <1>3, <2>1, <2>2 DEF TypeOK, Results
<1>7. CallInv'
  <2>1. pc' = "recv" => recvCredits' >= 1
    BY <1>3, <1>4
  <2> QED  BY <2>1, <1>3 DEF CallInv
<1>8. WaitedOwn'
  BY <1>3 DEF WaitedOwn, Done
<1> QED  BY <1>5, <1>6, <1>7, <1>8 DEF IInv

\* A receive is posted and charged, or fails.
LEMMA PostRecvIInv == IInv /\ PostRecv => IInv'
<1> SUFFICES ASSUME IInv, PostRecv PROVE IInv'
  OBVIOUS
<1>0. TypeOK /\ QpTypeOK /\ CallInv
  BY DEF IInv, TypeOK
<1>1. /\ pc = "recv" /\ pc' = "idle" /\ result' \in {"ok", "kInvalidArgument", "kRa"}
      /\ \/ rqHead' = rqHead + 1 /\ recvCredits' = recvCredits - 1
         \/ rqHead' = rqHead /\ recvCredits' = recvCredits
      /\ UNCHANGED <<sendVars, nicVars, rung, waitedFor, stale, abandoned, unrecorded>>
      /\ rqTail' = rqTail /\ recvCq' = recvCq /\ target' = target
  BY DEF PostRecv, Return, history
<1>2. recvCredits' \in Nat /\ rqHead' \in Nat
  BY <1>0, <1>1 DEF CallInv, QpTypeOK
<1>3. RingInv' /\ OkInv' /\ SchedInv' /\ OwnInv'
  BY <1>1, SendSideUnchanged
<1>4. TypeOK'
  <2>1. QpTypeOK'
    BY <1>0, <1>1, <1>2 DEF QpTypeOK, sendVars, nicVars
  <2>2. stale' \in BOOLEAN /\ abandoned' \in BOOLEAN /\ unrecorded' \in BOOLEAN
    BY <1>0, <1>1, Zenon DEF TypeOK
  <2> QED  BY <1>0, <1>1, <2>1, <2>2 DEF TypeOK, Results
<1>5. CallInv' /\ WaitedOwn'
  BY <1>1 DEF CallInv, WaitedOwn, Done
<1> QED  BY <1>3, <1>4, <1>5 DEF IInv

\* The adapter executes a request: it completes it exactly at the end of an
\* interval, and the one completion it can leave is the awaited one.
LEMMA NicExecuteIInv ==
  ASSUME IInv, executed < rung, NicExecute,
         UNCHANGED <<unsignaled, sendCredits, head, tail, recvVars, raVars>>
  PROVE  IInv'
<1>0. TypeOK /\ QpTypeOK /\ RingInv /\ CallInv /\ OkInv /\ SchedInv /\ OwnInv
      /\ WaitedOwn
  BY DEF IInv, TypeOK
<1>1. /\ unsignaled' = unsignaled /\ sendCredits' = sendCredits /\ head' = head /\ tail' = tail
      /\ UNCHANGED recvVars /\ rung' = rung /\ pc' = pc /\ target' = target /\ result' = result
      /\ waitedFor' = waitedFor /\ stale' = stale /\ abandoned' = abandoned /\ unrecorded' = unrecorded
  BY DEF raVars, history
<1>2. /\ failedAt = None /\ failedAt' = None /\ executed' = executed + 1
      /\ signals' = signals \ {executed}
      /\ sendCq' = IF executed \in signals
                   THEN Append(sendCq, [wqe |-> executed, ok |-> TRUE]) ELSE sendCq
  BY DEF NicExecute
<1>3. /\ head \in Nat /\ rung \in Nat /\ executed \in Nat /\ unsignaled \in Nat
      /\ signals \subseteq Nat /\ sendCq \in Seq(Cqe) /\ Len(sendCq) \in Nat
      /\ unsignaled < Interval /\ Interval \in Nat
  BY <1>0, QpAssumption DEF TypeOK, QpTypeOK, RingInv
<1> DEFINE c == [wqe |-> executed, ok |-> TRUE]
<1>4. c \in Cqe /\ c.ok
  BY <1>3 DEF Cqe
<1>5. executed \in signals =>
        /\ sendCq' \in Seq(Cqe) /\ Len(sendCq') = Len(sendCq) + 1
        /\ \A k \in 1 .. Len(sendCq) : sendCq'[k] = sendCq[k]
        /\ sendCq'[Len(sendCq) + 1].ok
  BY <1>2, <1>3, <1>4, AppendFacts
<1>6. executed \notin signals => sendCq' = sendCq
  BY <1>2
<1> HIDE DEF c
<1>7. Recorded' = Recorded /\ (\A p : Unrung(p)' <=> Unrung(p)) /\ (ShouldSignal' <=> ShouldSignal)
  BY <1>1 DEF Recorded, Unrung, ShouldSignal
<1>8. ~unrecorded => ~Unrung(executed) /\ executed < Recorded
  BY <1>0, <1>3 DEF RingInv, Recorded, Unrung
<1>9. TypeOK'
  <2>1. sendCq' \in Seq(Cqe) /\ signals' \subseteq Nat /\ executed' \in Nat
    BY <1>2, <1>3, <1>5, <1>6
  <2>2. QpTypeOK'
    BY <2>1, <1>0, <1>1, <1>2 DEF QpTypeOK, recvVars
  <2>3. stale' \in BOOLEAN /\ abandoned' \in BOOLEAN /\ unrecorded' \in BOOLEAN
    BY <1>0, <1>1, Zenon DEF TypeOK
  <2> QED  BY <1>0, <1>1, <2>2, <2>3 DEF TypeOK
<1>10. RingInv' /\ CallInv'
  BY <1>0, <1>1, <1>2, <1>3, <1>7 DEF RingInv, CallInv, recvVars
<1>11. OkInv'
  <2> SUFFICES ASSUME NEW k \in 1 .. Len(sendCq') PROVE sendCq'[k].ok
    BY DEF OkInv
  <2>1. CASE executed \in signals
    <3>1. k \in 1 .. Len(sendCq) \/ k = Len(sendCq) + 1
      BY <2>1, <1>3, <1>5
    <3> QED  BY <3>1, <2>1, <1>0, <1>2, <1>5 DEF OkInv
  <2>2. CASE executed \notin signals
    BY <2>2, <1>0, <1>2, <1>6 DEF OkInv
  <2> QED  BY <2>1, <2>2
<1>12. SchedInv'
  <2> SUFFICES ASSUME ~unrecorded
               PROVE  \E t, m \in Nat : Schedule(t, m)'
    BY <1>1 DEF SchedInv
  <2>1. PICK t \in Nat, m \in Nat : Schedule(t, m)
    BY <1>0, <1>2 DEF SchedInv
  <2> DEFINE S == {p \in signals : ~Unrung(p)}
             e == t + Len(sendCq)
  <2>2. /\ e \in Nat /\ e <= m /\ Owed(S, e, m)
        /\ Taken(t) /\ Recorded = Span(m) + unsignaled
        /\ Span(e) <= executed /\ executed < Span(e + 1)
        /\ sendCredits + (Recorded - tail) = Depth
    BY <2>1, <1>3 DEF Schedule, Taken
  <2>3. executed \in S <=> executed \in signals
    BY <1>8
  <2>4. executed < Span(m) + unsignaled
    BY <2>2, <1>8
  <2>5. {p \in signals : ~Unrung(p)}' = S \ {executed}
    BY <1>2, <1>7
  <2> HIDE DEF S, e
  <2>6. /\ executed \in S <=> executed = Span(e + 1) - 1
        /\ executed \in S => e + 1 <= m /\ Owed(S \ {executed}, e + 1, m)
        /\ executed \notin S => Owed(S \ {executed}, e, m)
    BY <2>2, <2>4, <1>3, OwedNext
  <2>7. executed \in signals <=> executed = Span(t + Len(sendCq) + 1) - 1
    BY <2>3, <2>6 DEF e
  <2>8. Taken(t)' /\ Len(sendCq') = Len(sendCq) + (IF executed \in signals THEN 1 ELSE 0)
    BY <2>2, <2>7, <1>0, <1>1, ExecuteTaken
  <2>9. t + Len(sendCq') = (IF executed \in S THEN e + 1 ELSE e)
    BY <2>3, <2>8, <1>3 DEF e
  <2>10. t + Len(sendCq') <= m /\ Owed(S \ {executed}, t + Len(sendCq'), m)
    BY <2>2, <2>6, <2>9, Zenon
  <2>11. Owed({p \in signals : ~Unrung(p)}', t + Len(sendCq'), m)
    BY <2>5, <2>10, Zenon
  <2>12. Owed({p \in signals : ~Unrung(p)}, t + Len(sendCq), m)'
    BY <2>11 DEF Owed
  <2>13. pc = "ring" /\ ShouldSignal => head - 1 \in signals'
    <3>1. pc = "ring" /\ ShouldSignal => head - 1 \in signals /\ Unrung(head - 1)
      BY <2>1 DEF Schedule, Unrung
    <3> QED  BY <3>1, <1>2, <1>8
  <2>14. Schedule(t, m)'
    BY <2>2, <2>8, <2>10, <2>12, <2>13, <1>1, <1>7 DEF Schedule
  <2> QED  BY <2>14
<1>13. OwnInv'
  <2> SUFFICES ASSUME ~abandoned, ~unrecorded
               PROVE  /\ \A k \in 1 .. Len(sendCq') : sendCq'[k].ok =>
                           /\ k = 1 /\ pc = "wait"
                           /\ waitedFor \in Nat /\ waitedFor < executed + 1
                           /\ waitedFor \notin signals'
                      /\ \A p \in signals' : (pc = "wait" /\ p = waitedFor) \/ Unrung(p)
    BY <1>1, <1>2, <1>7 DEF OwnInv
  <2>1. \A p \in signals : (pc = "wait" /\ p = waitedFor) \/ Unrung(p)
    BY <1>0, <1>2 DEF OwnInv
  <2>2. ASSUME NEW k \in 1 .. Len(sendCq)
        PROVE  /\ k = 1 /\ pc = "wait" /\ waitedFor \in Nat /\ waitedFor < executed
               /\ waitedFor \notin signals
    BY <1>0, <1>2 DEF OwnInv, OkInv
  <2>3. CASE executed \in signals
    <3>1. pc = "wait" /\ executed = waitedFor
      BY <2>1, <2>3, <1>8
    <3>2. Len(sendCq) = 0
      <4> SUFFICES ASSUME Len(sendCq) # 0 PROVE FALSE
        OBVIOUS
      <4>1. 1 \in 1 .. Len(sendCq)
        BY <1>3
      <4> QED  BY <4>1, <2>2, <2>3, <3>1
    <3>3. \A k \in 1 .. Len(sendCq') : k = 1
      <4>1. Len(sendCq') = Len(sendCq) + 1
        BY <2>3, <1>5, Zenon
      <4>2. Len(sendCq') = 1
        BY <4>1, <3>2
      <4> QED  BY <4>2
    <3>4. waitedFor \in Nat /\ waitedFor < executed + 1 /\ waitedFor \notin signals'
      BY <3>1, <1>2, <1>3
    <3> QED  BY <3>1, <3>3, <3>4, <2>1, <1>2
  <2>4. CASE executed \notin signals
    <3>1. sendCq' = sendCq /\ signals' = signals
      BY <2>4, <1>2
    <3>2. ASSUME NEW k \in 1 .. Len(sendCq') PROVE
             /\ k = 1 /\ pc = "wait" /\ waitedFor \in Nat
             /\ waitedFor < executed + 1 /\ waitedFor \notin signals'
      BY <3>1, <2>2, <1>3
    <3> QED  BY <3>1, <3>2, <2>1
  <2> QED  BY <2>3, <2>4
<1>14. WaitedOwn'
  <2>1. waitedFor \in Nat \cup {None}
    BY <1>0 DEF TypeOK
  <2> QED  BY <2>1, <1>0, <1>1, <1>2, <1>3 DEF WaitedOwn, Done, None
<1> QED  BY <1>9, <1>10, <1>11, <1>12, <1>13, <1>14 DEF IInv

\* A request fails or is flushed: its CQE is an error, and a first failure comes
\* after everything that has executed.
LEMMA NicFailIInv ==
  ASSUME IInv, executed < rung, NicFail,
         UNCHANGED <<unsignaled, sendCredits, head, tail, recvVars, raVars>>
  PROVE  IInv'
<1>0. TypeOK /\ QpTypeOK /\ RingInv /\ CallInv /\ OkInv /\ SchedInv /\ OwnInv
      /\ WaitedOwn
  BY DEF IInv, TypeOK
<1>1. /\ unsignaled' = unsignaled /\ sendCredits' = sendCredits /\ head' = head /\ tail' = tail
      /\ UNCHANGED recvVars /\ rung' = rung /\ pc' = pc /\ target' = target /\ result' = result
      /\ waitedFor' = waitedFor /\ stale' = stale /\ abandoned' = abandoned /\ unrecorded' = unrecorded
  BY DEF raVars, history
<1>2. /\ executed' = executed + 1 /\ signals' = signals \ {executed}
      /\ sendCq' = Append(sendCq, [wqe |-> executed, ok |-> FALSE])
      /\ failedAt' = IF failedAt = None THEN executed ELSE failedAt
  BY DEF NicFail
<1>3. /\ head \in Nat /\ rung \in Nat /\ executed \in Nat /\ signals \subseteq Nat
      /\ sendCq \in Seq(Cqe) /\ Len(sendCq) \in Nat
      /\ waitedFor \in Nat \cup {None} /\ failedAt \in Nat \cup {None}
  BY <1>0 DEF TypeOK, QpTypeOK
<1> DEFINE c == [wqe |-> executed, ok |-> FALSE]
<1>4. c \in Cqe /\ ~c.ok
  BY <1>3 DEF Cqe
<1>5. /\ sendCq' \in Seq(Cqe) /\ Len(sendCq') = Len(sendCq) + 1
      /\ \A k \in 1 .. Len(sendCq) : sendCq'[k] = sendCq[k]
      /\ ~sendCq'[Len(sendCq) + 1].ok
  BY <1>2, <1>3, <1>4, AppendFacts
<1> HIDE DEF c
<1>6. failedAt' \in Nat /\ failedAt' # None
  BY <1>2, <1>3 DEF None
<1>7. TypeOK'
  <2>1. signals' \subseteq Nat /\ executed' \in Nat
    BY <1>2, <1>3
  <2>2. QpTypeOK'
    BY <2>1, <1>0, <1>1, <1>5, <1>6 DEF QpTypeOK, recvVars
  <2>3. stale' \in BOOLEAN /\ abandoned' \in BOOLEAN /\ unrecorded' \in BOOLEAN
    BY <1>0, <1>1, Zenon DEF TypeOK
  <2> QED  BY <1>0, <1>1, <2>2, <2>3 DEF TypeOK
<1>8. Recorded' = Recorded
  BY <1>1 DEF Recorded
<1>9. RingInv' /\ CallInv'
  BY <1>0, <1>1, <1>2, <1>3, <1>8 DEF RingInv, CallInv, recvVars
<1>10. OkInv' /\ SchedInv'
  BY <1>6 DEF OkInv, SchedInv
<1>11. OwnInv'
  <2> SUFFICES ASSUME ~abandoned, ~unrecorded, NEW k \in 1 .. Len(sendCq'), sendCq'[k].ok
               PROVE  /\ k = 1 /\ pc = "wait"
                      /\ waitedFor \in Nat /\ waitedFor < executed' /\ waitedFor \notin signals'
                      /\ failedAt' > waitedFor
    BY <1>1, <1>6 DEF OwnInv
  <2>1. k \in 1 .. Len(sendCq) /\ sendCq[k].ok
    <3>1. k \in 1 .. Len(sendCq) \/ k = Len(sendCq) + 1
      BY <1>3, <1>5
    <3> QED  BY <3>1, <1>5
  <2>2. /\ k = 1 /\ pc = "wait"
        /\ waitedFor \in Nat /\ waitedFor < executed /\ waitedFor \notin signals
        /\ failedAt = None \/ failedAt > waitedFor
    BY <2>1, <1>0 DEF OwnInv
  <2> QED  BY <2>2, <1>2, <1>3
<1>12. WaitedOwn'
  <2> SUFFICES ASSUME result = "waited", ~abandoned, ~unrecorded
               PROVE  executed' > waitedFor /\ failedAt' > waitedFor
    BY <1>1 DEF WaitedOwn, Done
  <2>1. executed > waitedFor /\ (failedAt # None => failedAt > waitedFor)
    BY <1>0 DEF WaitedOwn, Done
  <2> QED  BY <2>1, <1>2, <1>3 DEF None
<1> QED  BY <1>7, <1>9, <1>10, <1>11, <1>12 DEF IInv

\* A receive completes.
LEMMA NicDeliverIInv ==
  ASSUME IInv, NicDeliver,
         UNCHANGED <<sendVars, nicVars, recvCredits, rqHead, rqTail, raVars>>
  PROVE  IInv'
<1>0. TypeOK /\ QpTypeOK /\ CallInv /\ WaitedOwn
  BY DEF IInv, TypeOK
<1>1. /\ UNCHANGED <<sendVars, nicVars, rung, waitedFor, stale, abandoned, unrecorded>>
      /\ pc' = pc /\ target' = target /\ result' = result
      /\ recvCredits' = recvCredits /\ rqHead' = rqHead /\ rqTail' = rqTail
  BY DEF raVars, history
<1>2. RingInv' /\ OkInv' /\ SchedInv' /\ OwnInv'
  BY <1>1, SendSideUnchanged
<1>3. TypeOK'
  <2>1. recvCq' \in Seq(BOOLEAN)
    <3>1. recvCq \in Seq(BOOLEAN) /\ (failedAt = None) \in BOOLEAN
      BY <1>0, Zenon DEF QpTypeOK
    <3>2. Append(recvCq, failedAt = None) \in Seq(BOOLEAN)
      BY <3>1, AppendProperties
    <3> QED  BY <3>2 DEF NicDeliver
  <2>2. QpTypeOK'
    BY <2>1, <1>0, <1>1 DEF QpTypeOK, sendVars, nicVars
  <2>3. stale' \in BOOLEAN /\ abandoned' \in BOOLEAN /\ unrecorded' \in BOOLEAN
    BY <1>0, <1>1, Zenon DEF TypeOK
  <2> QED  BY <1>0, <1>1, <2>2, <2>3 DEF TypeOK
<1>4. CallInv' /\ WaitedOwn'
  BY <1>0, <1>1 DEF CallInv, WaitedOwn, Done, sendVars, nicVars
<1> QED  BY <1>2, <1>3, <1>4 DEF IInv

\* Steps that change nothing.
LEMMA StutterIInv == IInv /\ UNCHANGED vars => IInv'
<1> SUFFICES ASSUME IInv, UNCHANGED vars PROVE IInv'
  OBVIOUS
<1>0. TypeOK /\ QpTypeOK /\ CallInv /\ WaitedOwn
  BY DEF IInv, TypeOK
<1>1. /\ UNCHANGED <<sendVars, nicVars, rung, waitedFor, stale, abandoned, unrecorded>>
      /\ UNCHANGED recvVars /\ pc' = pc /\ target' = target /\ result' = result
  BY DEF vars, sendVars, nicVars, recvVars
<1>2. RingInv' /\ OkInv' /\ SchedInv' /\ OwnInv'
  BY <1>1, SendSideUnchanged
<1>3. TypeOK'
  <2>1. QpTypeOK'
    BY <1>0, <1>1 DEF QpTypeOK, sendVars, nicVars, recvVars
  <2>2. stale' \in BOOLEAN /\ abandoned' \in BOOLEAN /\ unrecorded' \in BOOLEAN
    BY <1>0, <1>1, Zenon DEF TypeOK
  <2> QED  BY <1>0, <1>1, <2>1, <2>2 DEF TypeOK
<1>4. CallInv' /\ WaitedOwn'
  BY <1>0, <1>1 DEF CallInv, WaitedOwn, Done, sendVars, nicVars, recvVars
<1> QED  BY <1>2, <1>3, <1>4 DEF IInv

-----------------------------------------------------------------------------
(* The theorems. *)

\* Every step of the transport and of the adapter preserves the invariant.
LEMMA NextIInv == IInv /\ [Next]_vars => IInv'
<1> SUFFICES ASSUME IInv, [Next]_vars PROVE IInv'
  OBVIOUS
<1>1. CASE Post  BY <1>1, PostIInv
<1>2. CASE PrepareSendFails  BY <1>2, PrepareSendFailsIInv
<1>3. CASE PrepareSend  BY <1>3, PrepareSendIInv
<1>4. CASE RingSendFails  BY <1>4, RingSendFailsIInv
<1>5. CASE RingSend  BY <1>5, RingSendIInv
<1>6. CASE WaitForSendCompletion  BY <1>6, WaitForSendCompletionIInv
<1>7. CASE WaitAbandoned  BY <1>7, WaitAbandonedIInv
<1>8. CASE Recv  BY <1>8, RecvIInv
<1>9. CASE PostRecv  BY <1>9, PostRecvIInv
<1>10. CASE Nic
  BY <1>10, NicExecuteIInv, NicFailIInv, NicDeliverIInv DEF Nic
<1>11. CASE UNCHANGED vars  BY <1>11, StutterIInv
<1>12. CASE ReclaimFails  BY <1>12, ReclaimFailsIInv
<1> QED  BY <1>1, <1>2, <1>3, <1>4, <1>5, <1>6, <1>7, <1>8, <1>9, <1>10, <1>11, <1>12 DEF Next

\* The freshness of the awaited request is preserved: only RingSend opens a wait,
\* and the adapter then leaves no other success.
LEMMA NextFreshInv == IInv /\ FreshInv /\ [Next]_vars => FreshInv'
<1> SUFFICES ASSUME IInv, FreshInv, [Next]_vars PROVE FreshInv'
  OBVIOUS
<1>0. /\ signals \subseteq Nat /\ executed \in Nat /\ head \in Nat
      /\ sendCq \in Seq(Cqe) /\ Len(sendCq) \in Nat
      /\ failedAt \in Nat \cup {None} /\ waitedFor \in Nat \cup {None}
      /\ pc # "idle" => result # "waited"
      /\ pc = "ring" => head >= 1
  BY DEF IInv, TypeOK, QpTypeOK, CallInv
<1>1. ASSUME pc' # "wait", result' # "waited" PROVE FreshInv'
  BY <1>1 DEF FreshInv
<1>2. CASE Post \/ ReclaimFails \/ PrepareSendFails \/ PrepareSend \/ RingSendFails
           \/ WaitAbandoned \/ Recv \/ PostRecv
  <2>1. pc' # "wait" /\ result' # "waited"
    BY <1>0, <1>2 DEF Post, ReclaimFails, PrepareSendFails, PrepareSend, RingSendFails,
         WaitAbandoned, Recv, PostRecv, Return
  <2> QED  BY <2>1, <1>1
<1>3. CASE RingSend
  <2>1. CASE ~ShouldSignal
    BY <2>1, <1>1, <1>3 DEF RingSend, Return
  <2>2. CASE ShouldSignal
    <3>1. /\ pc' = "wait" /\ waitedFor' = head - 1 /\ result' = result /\ pc = "ring"
          /\ (stale' <=> EarlierOwed) /\ signals' = signals /\ sendCq' = sendCq
      BY <2>2, <1>3 DEF RingSend, nicVars
    <3>2. ~stale' => sendCq = <<>> /\ signals \subseteq {head - 1}
      BY <3>1 DEF EarlierOwed
    <3>3. ~stale' => Len(sendCq') = 0
      BY <3>1, <3>2
    <3> QED  BY <1>0, <3>1, <3>2, <3>3 DEF FreshInv
  <2> QED  BY <2>1, <2>2
<1>4. CASE WaitForSendCompletion
  <2>1. PICK n \in 0 .. Len(sendCq) : n = SendReady
    BY ReadyFacts DEF IInv, TypeOK
  <2>2. /\ pc = "wait" /\ sendCq # <<>> /\ sendCq' = SubSeq(sendCq, n + 1, Len(sendCq))
        /\ executed' = executed /\ signals' = signals /\ failedAt' = failedAt
        /\ waitedFor' = waitedFor /\ stale' = stale
    BY <1>4, <2>1 DEF WaitForSendCompletion, Reclaim, ReclaimSend, history
  <2>3. n >= 1 /\ n \in Nat
    BY <1>0, <2>1, <2>2, ReadyFacts DEF IInv, TypeOK
  <2>4. /\ Len(sendCq') = Len(sendCq) - n
        /\ \A k \in 1 .. Len(sendCq') : k + n \in 1 .. Len(sendCq) /\ sendCq'[k] = sendCq[k + n]
    BY <1>0, <2>1, <2>2, DropFacts
  <2>5. Done' <=> Done
    BY <2>2 DEF Done
  <2>6. ASSUME ~stale', NEW k \in 1 .. Len(sendCq'), sendCq'[k].ok PROVE Done'
    BY <2>2, <2>4, <2>5, <2>6 DEF FreshInv
  <2>7. ASSUME ~stale', result' = "waited" PROVE Done'
    <3>1. ~SendFailed(n)
      BY <1>0, <1>4, <2>1, <2>2, <2>7 DEF WaitForSendCompletion, Return
    <3>2. 1 \in 1 .. Len(sendCq) /\ 1 \in 1 .. n
      BY <1>0, <2>1, <2>3
    <3>3. sendCq[1].ok
      BY <3>1, <3>2 DEF SendFailed
    <3> QED  BY <3>2, <3>3, <2>2, <2>5, <2>7 DEF FreshInv
  <2> QED  BY <2>2, <2>6, <2>7 DEF FreshInv
<1>5. ASSUME NicExecute, UNCHANGED raVars PROVE FreshInv'
  <2> SUFFICES ASSUME ~stale' PROVE FreshInv'
    BY DEF FreshInv
  <2>1. /\ failedAt = None /\ failedAt' = None /\ executed' = executed + 1
        /\ signals' = signals \ {executed}
        /\ sendCq' = IF executed \in signals
                     THEN Append(sendCq, [wqe |-> executed, ok |-> TRUE]) ELSE sendCq
        /\ pc' = pc /\ result' = result /\ waitedFor' = waitedFor /\ stale' = stale
    BY <1>5 DEF NicExecute, raVars, history
  <2>2. Done => Done'
    BY <1>0, <2>1 DEF Done, None
  <2>3. ASSUME pc = "wait", NEW k \in 1 .. Len(sendCq'), sendCq'[k].ok PROVE Done'
    <3>1. CASE executed \in signals
      <4>1. executed = waitedFor /\ waitedFor \in Nat
        BY <3>1, <2>1, <2>3 DEF FreshInv
      <4> QED  BY <4>1, <1>0, <2>1 DEF Done, None
    <3>2. CASE executed \notin signals
      BY <3>2, <2>1, <2>2, <2>3 DEF FreshInv
    <3> QED  BY <3>1, <3>2
  <2> QED  BY <2>1, <2>2, <2>3 DEF FreshInv
<1>6. ASSUME NicFail, UNCHANGED raVars PROVE FreshInv'
  <2> SUFFICES ASSUME ~stale' PROVE FreshInv'
    BY DEF FreshInv
  <2>1. /\ executed' = executed + 1 /\ signals' = signals \ {executed}
        /\ failedAt' = (IF failedAt = None THEN executed ELSE failedAt)
        /\ sendCq' = Append(sendCq, [wqe |-> executed, ok |-> FALSE])
        /\ pc' = pc /\ result' = result /\ waitedFor' = waitedFor /\ stale' = stale
    BY <1>6 DEF NicFail, raVars, history
  <2>2. Done => Done'
    BY <1>0, <2>1 DEF Done, None
  <2> DEFINE c == [wqe |-> executed, ok |-> FALSE]
  <2>3. c \in Cqe /\ ~c.ok
    BY <1>0 DEF Cqe
  <2>4. /\ Len(sendCq') = Len(sendCq) + 1
        /\ \A k \in 1 .. Len(sendCq) : sendCq'[k] = sendCq[k]
        /\ ~sendCq'[Len(sendCq) + 1].ok
    BY <2>1, <2>3, <1>0, AppendFacts
  <2>5. ASSUME pc = "wait", NEW k \in 1 .. Len(sendCq'), sendCq'[k].ok PROVE Done'
    <3>1. k \in 1 .. Len(sendCq)
      BY <2>4, <2>5, <1>0
    <3> QED  BY <3>1, <2>1, <2>2, <2>4, <2>5 DEF FreshInv
  <2> QED  BY <2>1, <2>2, <2>5 DEF FreshInv
<1>7. ASSUME UNCHANGED <<nicVars, raVars>> PROVE FreshInv'
  BY <1>7 DEF FreshInv, Done, nicVars, raVars, history
<1>8. CASE Nic
  <2>1. CASE NicExecute /\ UNCHANGED raVars
    BY <2>1, <1>5
  <2>2. CASE NicFail /\ UNCHANGED raVars
    BY <2>2, <1>6
  <2>3. CASE UNCHANGED <<nicVars, raVars>>
    BY <2>3, <1>7
  <2> QED  BY <1>8, <2>1, <2>2, <2>3 DEF Nic
<1>9. CASE UNCHANGED vars
  BY <1>9, <1>7 DEF vars, nicVars, raVars, history
<1> QED  BY <1>2, <1>3, <1>4, <1>8, <1>9 DEF Next

\* The inductive invariant holds in every reachable state.
THEOREM Invariance == Spec => [](IInv /\ FreshInv)
<1>1. Init => FreshInv
  BY DEF Init, FreshInv
<1> QED  BY <1>1, InitIInv, NextIInv, NextFreshInv, PTL DEF Spec

\* Every variable of the RA transport stays in its type, no credit count is ever
\* negative although each call charges before it waits.
THEOREM TypeCorrect == Spec => []TypeOK
<1>1. IInv => TypeOK
  BY DEF IInv
<1> QED  BY <1>1, Invariance, PTL

\* Credits and ring agree on a working queue pair, whatever waits of
\* wait_for_send_completion were abandoned: reclaim gives every late interval back.
THEOREM CreditsExact == Spec => []CreditsSurviveTimeouts
<1>1. IInv => CreditsSurviveTimeouts
  <2> SUFFICES ASSUME IInv, failedAt = None, ~unrecorded, pc # "ring"
               PROVE  sendCredits + (head - tail) = Depth
    BY DEF CreditsSurviveTimeouts
  <2>1. PICK t \in Nat, m \in Nat : Schedule(t, m)
    BY DEF IInv, SchedInv
  <2> QED  BY <2>1, NoneUnrung DEF Schedule
<1> QED  BY <1>1, Invariance, PTL

\* A wait that reports success was for a request that has executed without
\* error, unless a completion an earlier call left behind was still owed when
\* the request was rung.
THEOREM WaitedExecuted == Spec => []WaitedSuccessIsExecuted
<1>1. IInv /\ FreshInv => WaitedSuccessIsExecuted
  BY DEF IInv, WaitedOwn, Done, FreshInv, WaitedSuccessIsExecuted
<1> QED  BY <1>1, Invariance, PTL

\* With rings of at least one signal interval, an idle queue pair without credit
\* always has a completion in its CQ or on its way, so reclaim_if_needed can
\* succeed.  The hypothesis is needed: a shorter ring fills up without a signal.
THEOREM CreditsComeBack ==
  ASSUME Interval <= Depth
  PROVE  Spec => []NoStrandedCredit
<1>1. IInv => NoStrandedCredit
  <2> SUFFICES ASSUME IInv, failedAt = None, ~unrecorded, pc = "idle", sendCredits = 0,
                      sendCq = <<>>
               PROVE  signals # {}
    BY DEF NoStrandedCredit
  <2>1. PICK t \in Nat, m \in Nat : Schedule(t, m)
    BY DEF IInv, SchedInv
  <2>2. /\ tail = Span(t) /\ head = Span(m) + unsignaled
        /\ 0 + (head - tail) = Depth /\ Owed(signals, t + Len(sendCq), m)
    BY <2>1, NoneUnrung DEF Schedule, Taken
  <2>3. /\ Len(sendCq) = 0 /\ unsignaled \in Nat /\ unsignaled < Interval
        /\ Interval \in Nat /\ Depth \in Nat
    BY QpAssumption DEF IInv, TypeOK, QpTypeOK, RingInv
  <2>4. t < m
    <3> SUFFICES ASSUME m <= t PROVE FALSE
      OBVIOUS
    <3>1. Span(m) <= Span(t) /\ Span(m) \in Nat /\ Span(t) \in Nat
      BY SpanOrder
    <3>2. PICK x \in Nat, y \in Nat : x = Span(m) /\ y = Span(t)
      BY <3>1
    <3>3. x <= y /\ (x + unsignaled) - y = Depth
      <4>1. 0 + ((x + unsignaled) - y) = Depth /\ x <= y
        BY <3>1, <3>2, <2>2, Zenon
      <4> QED  BY <4>1, <2>3
    <3> QED  BY <3>3, <2>3
  <2>5. m \in (t + Len(sendCq) + 1) .. m
    BY <2>3, <2>4
  <2>6. Span(m) - 1 \in Nat
    BY <2>4, SpanOrder
  <2>7. Span(m) - 1 \in signals
    BY <2>2, <2>5, <2>6, Zenon DEF Owed
  <2> QED  BY <2>7
<1> QED  BY <1>1, Invariance, PTL

=============================================================================
