------------------------- MODULE TransportQpLemmas -------------------------
(***************************************************************************)
(* Facts about the operators of TransportQp that the invariance proofs of  *)
(* the backends share: the multiplication by the signal interval, what is  *)
(* left of a completion queue after a reclaim, and the absolute form of    *)
(* the signal schedule that holds on a queue pair whose every request was  *)
(* recorded and none of which failed.                                      *)
(***************************************************************************)
EXTENDS TransportQp, TLAPS, SequenceTheorems

\* All that is used of the multiplication by the signal interval.
LEMMA SpanFacts ==
  /\ Span(0) = 0 /\ Span(1) = Interval
  /\ \A a \in Int : Span(a) \in Int
  /\ \A a \in Nat : Span(a) \in Nat
  /\ \A a, b \in Int : Span(a + b) = Span(a) + Span(b) /\ Span(a - b) = Span(a) - Span(b)
  /\ \A a, b \in Int : a < b => Span(a) + Interval <= Span(b)
<1>1. \A a \in Int : a * Interval \in Int
  BY QpAssumption, SMT
<1>2. \A a \in Nat : a * Interval \in Nat
  BY QpAssumption, SMT
<1>3. \A a, b, i \in Int : (a + b) * i = a * i + b * i /\ (a - b) * i = a * i - b * i
  BY SMT
<1>4. \A a, b \in Int, i \in Nat : a < b => a * i + i <= b * i
  BY SMT
<1> QED  BY <1>1, <1>2, <1>3, <1>4, QpAssumption, SMT DEF Span

\* What is left of a sequence after its first n elements were taken.
LEMMA DropFacts ==
  ASSUME NEW S, NEW s \in Seq(S), NEW n \in 0 .. Len(s)
  PROVE  LET d == SubSeq(s, n + 1, Len(s))
         IN  /\ d \in Seq(S)
             /\ Len(d) = Len(s) - n
             /\ \A k \in 1 .. Len(d) : k + n \in 1 .. Len(s) /\ d[k] = s[k + n]
  OBVIOUS

\* What is in a sequence after an element was appended.
LEMMA AppendFacts ==
  ASSUME NEW S, NEW s \in Seq(S), NEW e \in S
  PROVE  LET d == Append(s, e)
         IN  /\ d \in Seq(S)
             /\ Len(d) = Len(s) + 1
             /\ \A k \in 1 .. Len(s) : d[k] = s[k]
             /\ d[Len(s) + 1] = e
  OBVIOUS

\* An element of a completion queue is a completion record.
LEMMA CqeFields ==
  ASSUME NEW s \in Seq(Cqe), NEW k \in 1 .. Len(s)
  PROVE  s[k].wqe \in Nat /\ s[k].ok \in BOOLEAN
<1>1. s[k] \in Cqe
  OBVIOUS
<1> QED  BY <1>1 DEF Cqe

\* One reclaim takes no more completions than there are, and takes one if there
\* is one (the loop of ReclaimTransportCq).
LEMMA ReadyFacts ==
  ASSUME QpTypeOK
  PROVE  /\ SendReady \in 0 .. Len(sendCq) /\ RecvReady \in 0 .. Len(recvCq)
         /\ sendCq # <<>> => SendReady >= 1
  BY QpAssumption DEF QpTypeOK, SendReady, RecvReady, Min2

-----------------------------------------------------------------------------
(* The signal schedule.  While every request is recorded and none has       *)
(* failed, the signaled requests are those at positions Span(j) - 1.        *)

\* The first t signals were taken from the send CQ, the next ones are in it, in
\* order, and the adapter is between the last of these and the signal after it.
Taken(t) ==
  /\ tail = Span(t)
  /\ \A k \in 1 .. Len(sendCq) : sendCq[k].wqe = Span(t + k) - 1
  /\ Span(t + Len(sendCq)) <= executed
  /\ executed < Span(t + Len(sendCq) + 1)

\* S holds the signaled positions of the intervals after the e-th up to the m-th.
Owed(S, e, m) ==
  \A p \in Nat : p \in S <=> \E j \in (e + 1) .. m : p = Span(j) - 1

\* Spans are ordered as their interval counts are.
LEMMA SpanOrder ==
  ASSUME NEW a \in Nat, NEW b \in Nat
  PROVE  /\ a <= b => Span(a) <= Span(b)
         /\ a < b => Span(a) + Interval <= Span(b)
         /\ Span(a) \in Nat /\ Span(a + 1) = Span(a) + Interval
         /\ a >= 1 => Span(a) - 1 \in Nat
<1>1. a \in Int /\ b \in Int /\ 1 \in Int /\ 0 \in Int
  OBVIOUS
<1>2. /\ Span(a) \in Nat /\ Span(b) \in Nat /\ Span(a + 1) = Span(a) + Span(1)
      /\ Span(1) = Interval /\ Span(0) = 0
      /\ a < b => Span(a) + Interval <= Span(b)
      /\ 0 < a => Span(0) + Interval <= Span(a)
  BY <1>1, SpanFacts, Zenon
<1>3. PICK x \in Nat, y \in Nat : Span(a) = x /\ Span(b) = y
  BY <1>2
<1>4. (a < b => x + Interval <= y) /\ (0 < a => 0 + Interval <= x)
  BY <1>2, <1>3, Zenon
<1>5. a = b => x = y
  BY <1>3
<1>6. (a <= b => x <= y) /\ (a >= 1 => x - 1 \in Nat)
  BY <1>4, <1>5, QpAssumption
<1>7. /\ a <= b => Span(a) <= Span(b)
      /\ a >= 1 => Span(a) - 1 \in Nat
  BY <1>3, <1>6, Zenon
<1> QED  BY <1>2, <1>7, Zenon

\* A reclaim of n completions moves the schedule on by n signals and returns
\* exactly the intervals they stand for.
LEMMA ReclaimTaken ==
  ASSUME QpTypeOK, NEW n \in 0 .. Len(sendCq), ReclaimSend(n),
         executed' = executed,
         NEW t \in Nat, Taken(t)
  PROVE  /\ Taken(t + n)'
         /\ t + n \in Nat
         /\ t + n + Len(sendCq') = t + Len(sendCq)
         /\ tail' = tail + Span(n)
         /\ sendCredits' = sendCredits + Span(n)
<1> DEFINE d == SubSeq(sendCq, n + 1, Len(sendCq))
<1>0. sendCq \in Seq(Cqe) /\ Len(sendCq) \in Nat /\ n \in Nat /\ tail \in Nat
  BY DEF QpTypeOK
<1>1. /\ Len(d) = Len(sendCq) - n
      /\ \A k \in 1 .. Len(d) : k + n \in 1 .. Len(sendCq) /\ d[k] = sendCq[k + n]
  BY <1>0, DropFacts
<1>2. sendCq' = d /\ tail' = TailAfter(n) /\ sendCredits' = sendCredits + Span(n)
  BY DEF ReclaimSend
<1> HIDE DEF d
<1>3. /\ t \in Int /\ n \in Int /\ Span(t + n) = Span(t) + Span(n)
      /\ Span(t) \in Nat /\ Span(n) \in Nat
  <2>1. t \in Int /\ n \in Int
    BY <1>0
  <2> QED  BY <2>1, <1>0, SpanFacts, Zenon
<1>4. tail' = Span(t + n)
  <2>1. CASE n = 0
    BY <2>1, <1>0, <1>2 DEF TailAfter, Taken
  <2>2. CASE n # 0
    <3>1. n \in 1 .. Len(sendCq)
      BY <2>2, <1>0
    <3>2. sendCq[n].wqe = Span(t + n) - 1 /\ tail' = sendCq[n].wqe + 1
      BY <3>1, <2>2, <1>2 DEF Taken, TailAfter
    <3>3. Span(t + n) \in Nat
      BY <1>0, SpanFacts
    <3>4. PICK x \in Nat : Span(t + n) = x
      BY <3>3
    <3>5. tail' = (x - 1) + 1
      BY <3>2, <3>4, Zenon
    <3> QED  BY <3>4, <3>5
  <2> QED  BY <2>1, <2>2
<1>5. tail' = tail + Span(n)
  BY <1>3, <1>4 DEF Taken
<1>6. t + n + Len(d) = t + Len(sendCq) /\ t + n \in Nat /\ Len(d) \in Nat
  BY <1>0, <1>1
<1>7. ASSUME NEW k \in 1 .. Len(d) PROVE d[k].wqe = Span(t + n + k) - 1
  <2>1. k + n \in 1 .. Len(sendCq) /\ d[k] = sendCq[k + n] /\ t + (k + n) = t + n + k
    BY <1>0, <1>1, <1>6
  <2>2. sendCq[k + n].wqe = Span(t + (k + n)) - 1
    BY <2>1 DEF Taken
  <2> QED  BY <2>1, <2>2
<1>8. Span(t + n + Len(d)) <= executed /\ executed < Span(t + n + Len(d) + 1)
  BY <1>6, Zenon DEF Taken
<1>9. Taken(t + n)'
  BY <1>2, <1>4, <1>7, <1>8 DEF Taken
<1> QED  BY <1>2, <1>5, <1>6, <1>9

\* The next request is signaled exactly when it is the last of its interval.
LEMMA OwedNext ==
  ASSUME NEW S, NEW e \in Nat, NEW m \in Nat, e <= m, Owed(S, e, m),
         NEW x \in Nat, Span(e) <= x, x < Span(e + 1),
         NEW u \in Nat, u < Interval, x < Span(m) + u
  PROVE  /\ x \in S <=> x = Span(e + 1) - 1
         /\ x \in S => e + 1 <= m /\ Owed(S \ {x}, e + 1, m)
         /\ x \notin S => Owed(S \ {x}, e, m)
<1>0. Interval \in Nat /\ Interval >= 1 /\ e + 1 \in Nat
  BY QpAssumption
<1>1. /\ Span(e + 1) = Span(e) + Interval /\ Span(e) \in Nat /\ Span(m) \in Nat
      /\ Span(e + 1) \in Nat
  BY <1>0, SpanOrder
<1>2. ASSUME x \in S PROVE x = Span(e + 1) - 1 /\ e + 1 <= m
  <2>1. PICK j \in (e + 1) .. m : x = Span(j) - 1
    BY <1>2 DEF Owed
  <2>2. j \in Nat /\ e + 1 <= j /\ e + 1 <= m
    OBVIOUS
  <2>3. e + 1 < j => Span(e + 1) + Interval <= Span(j)
    BY <2>2, <1>0, SpanOrder
  <2>4. Span(j) \in Nat
    BY <2>2, SpanOrder
  <2>5. ~(e + 1 < j)
    <3>1. PICK a \in Nat, b \in Nat : a = Span(e + 1) /\ b = Span(j)
      BY <1>1, <2>4
    <3>2. x = b - 1 /\ x < a /\ (e + 1 < j => a + Interval <= b)
      BY <2>1, <2>3, <3>1, Zenon
    <3> QED  BY <3>2, <1>0
  <2>6. j = e + 1
    BY <2>2, <2>5
  <2> QED  BY <2>1, <2>2, <2>6
<1>3. ASSUME x = Span(e + 1) - 1 PROVE x \in S
  <2>1. e # m
    <3> SUFFICES ASSUME e = m PROVE FALSE
      OBVIOUS
    <3>1. PICK a \in Nat : a = Span(e)
      BY <1>1
    <3>2. x = (a + Interval) - 1 /\ x < a + u
      BY <1>1, <1>3, <3>1, Zenon
    <3> QED  BY <3>2, <1>0
  <2>2. e + 1 \in (e + 1) .. m
    BY <2>1
  <2> QED  BY <2>2, <1>3 DEF Owed
<1>4. ASSUME x \in S PROVE Owed(S \ {x}, e + 1, m)
  <2>1. x = Span(e + 1) - 1 /\ e + 1 <= m
    BY <1>2, <1>4
  <2>2. ASSUME NEW p \in Nat, NEW j \in (e + 2) .. m, p = Span(j) - 1
        PROVE  p # x
    <3>1. j \in Nat /\ e + 1 < j
      OBVIOUS
    <3>2. Span(e + 1) + Interval <= Span(j) /\ Span(j) \in Nat
      BY <3>1, <1>0, SpanOrder
    <3>3. PICK a \in Nat, b \in Nat : a = Span(e + 1) /\ b = Span(j)
      BY <1>1, <3>2
    <3>4. x = a - 1 /\ p = b - 1 /\ a + Interval <= b
      BY <2>1, <2>2, <3>2, <3>3, Zenon
    <3> QED  BY <3>4, <1>0
  <2>3. e + 1 + 1 = e + 2
    OBVIOUS
  <2>4. \A j : j \in (e + 1) .. m <=> (j = e + 1 \/ j \in (e + 2) .. m)
    BY <2>1
  <2>5. ASSUME NEW p \in Nat
        PROVE  p \in S \ {x} <=> \E j \in (e + 1 + 1) .. m : p = Span(j) - 1
    <3>1. p \in S <=> \E j \in (e + 1) .. m : p = Span(j) - 1
      BY DEF Owed
    <3>2. p \in S <=> (p = x \/ \E j \in (e + 2) .. m : p = Span(j) - 1)
      BY <3>1, <2>1, <2>4, Zenon
    <3> QED  BY <3>2, <2>2, <2>3, Zenon
  <2> QED  BY <2>5 DEF Owed
<1>5. ASSUME x \notin S PROVE Owed(S \ {x}, e, m)
  <2>1. S \ {x} = S
    BY <1>5
  <2> QED  BY <2>1
<1> QED  BY <1>2, <1>3, <1>4, <1>5

\* The adapter executes the next request: it writes a completion exactly at the
\* end of an interval, so the completions stay the signals in order.
LEMMA ExecuteTaken ==
  ASSUME QpTypeOK, NicExecute, tail' = tail,
         NEW t \in Nat, Taken(t),
         executed \in signals <=> executed = Span(t + Len(sendCq) + 1) - 1
  PROVE  /\ Taken(t)'
         /\ Len(sendCq') = Len(sendCq) + (IF executed \in signals THEN 1 ELSE 0)
         /\ sendCq' \in Seq(Cqe)
<1> DEFINE L == Len(sendCq)
<1>0. sendCq \in Seq(Cqe) /\ L \in Nat /\ executed \in Nat /\ t + L \in Nat /\ t + L + 1 \in Nat
  BY DEF QpTypeOK
<1>1. executed' = executed + 1
  BY DEF NicExecute
<1>2. /\ Span(t + L) \in Nat /\ Span(t + L + 1) \in Nat
      /\ Span(t + L + 1 + 1) = Span(t + L + 1) + Interval
  BY <1>0, SpanOrder
<1>3. Span(t + L) <= executed /\ executed < Span(t + L + 1) /\ Interval \in Nat /\ Interval >= 1
  BY QpAssumption DEF Taken
<1>p. PICK a \in Nat, b \in Nat : a = Span(t + L) /\ b = Span(t + L + 1)
  BY <1>2
<1>q. a <= executed /\ executed < b /\ Span(t + L + 1 + 1) = b + Interval
  BY <1>2, <1>3, <1>p, Zenon
<1>4. CASE executed \in signals
  <2> DEFINE c == [wqe |-> executed, ok |-> TRUE]
             d == Append(sendCq, c)
  <2>1. c \in Cqe
    BY <1>0 DEF Cqe
  <2>2. sendCq' = d
    BY <1>4 DEF NicExecute
  <2>3. /\ d \in Seq(Cqe) /\ Len(d) = L + 1
        /\ \A k \in 1 .. L : d[k] = sendCq[k]
        /\ d[L + 1] = c
    BY <1>0, <2>1, AppendFacts
  <2>4. c.wqe = executed /\ executed = Span(t + L + 1) - 1
    BY <1>4
  <2> HIDE DEF c, d
  <2>5. \A k \in 1 .. Len(d) : d[k].wqe = Span(t + k) - 1
    <3>1. SUFFICES ASSUME NEW k \in 1 .. L + 1 PROVE d[k].wqe = Span(t + k) - 1
      BY <2>3
    <3>2. CASE k \in 1 .. L
      BY <3>2, <2>3 DEF Taken
    <3>3. CASE k = L + 1
      <4>1. t + k = t + L + 1
        BY <3>3, <1>0
      <4> QED  BY <4>1, <3>3, <2>3, <2>4
    <3> QED  BY <3>1, <3>2, <3>3, <1>0
  <2>6. executed = b - 1
    BY <2>4, <1>p, Zenon
  <2>7. b <= executed + 1 /\ executed + 1 < b + Interval
    BY <2>6, <1>0, <1>3
  <2>8. t + Len(d) = t + L + 1 /\ t + Len(d) + 1 = t + L + 1 + 1
    BY <2>3, <1>0
  <2>9. Span(t + Len(d)) <= executed' /\ executed' < Span(t + Len(d) + 1)
    BY <2>7, <2>8, <1>p, <1>q, <1>1, Zenon
  <2>10. Taken(t)'
    BY <2>2, <2>5, <2>9 DEF Taken
  <2> QED  BY <2>2, <2>3, <2>10, <1>4
<1>5. CASE executed \notin signals
  <2>1. sendCq' = sendCq
    BY <1>5 DEF NicExecute
  <2>2. executed # b - 1
    BY <1>5, <1>p, Zenon
  <2>3. a <= executed + 1 /\ executed + 1 < b
    BY <2>2, <1>0, <1>q
  <2>4. Span(t + L) <= executed' /\ executed' < Span(t + L + 1)
    BY <2>3, <1>1, <1>p, Zenon
  <2>5. Taken(t)'
    BY <2>1, <2>4 DEF Taken
  <2> QED  BY <2>1, <2>5, <1>0, <1>5
<1> QED  BY <1>4, <1>5

-----------------------------------------------------------------------------
(* Order and status of the completions. *)

\* No error completion has been taken from the send CQ: every request below
\* tail succeeded.
Clean == failedAt = None \/ failedAt >= tail

\* CQEs stand for distinct executed requests at or above tail, in ring order.
CqInv ==
  /\ \A k \in 1 .. Len(sendCq) : tail <= sendCq[k].wqe /\ sendCq[k].wqe < executed
  /\ \A j, k \in 1 .. Len(sendCq) : j <= k => sendCq[k].wqe - sendCq[j].wqe >= k - j

\* A CQE reports success exactly when its request is below the first failure.
FailInv ==
  /\ failedAt # None => failedAt < executed
  /\ \A k \in 1 .. Len(sendCq) :
        sendCq[k].ok <=> (failedAt = None \/ sendCq[k].wqe < failedAt)

\* What a reclaim leaves of the ring: the tail moves up to an executed request,
\* the remaining CQEs keep their order, and an error among those taken is
\* visible from then on (Clean is false).
LEMMA ReclaimCq ==
  ASSUME QpTypeOK, CqInv, FailInv, tail <= executed,
         NEW n \in 0 .. Len(sendCq), ReclaimSend(n),
         UNCHANGED <<executed, failedAt>>
  PROVE  /\ sendCredits' \in Nat /\ tail' \in Nat
         /\ sendCq' \in Seq(Cqe)
         /\ CqInv' /\ FailInv'
         /\ tail <= tail' /\ tail' <= executed
         /\ n > 0 => tail' = sendCq[n].wqe + 1
         /\ SendFailed(n) => ~Clean'
         /\ Clean' => Clean
<1> DEFINE d == SubSeq(sendCq, n + 1, Len(sendCq))
<1>a. d \in Seq(Cqe) /\ Len(d) = Len(sendCq) - n
  BY DropFacts DEF QpTypeOK
<1>b. \A k \in 1 .. Len(d) : k + n \in 1 .. Len(sendCq) /\ d[k] = sendCq[k + n]
  <2>1. sendCq \in Seq(Cqe)
    BY DEF QpTypeOK
  <2> QED  BY <2>1, DropFacts
<1>c. sendCq' = d /\ tail' = TailAfter(n) /\ sendCredits' = sendCredits + Span(n)
  BY DEF ReclaimSend
<1>d. \A k \in 1 .. Len(sendCq) : sendCq[k].wqe \in Nat /\ sendCq[k].ok \in BOOLEAN
  BY CqeFields DEF QpTypeOK
<1>e. /\ tail \in Nat /\ executed \in Nat
      /\ sendCredits \in Nat /\ Len(sendCq) \in Nat /\ failedAt \in Nat \cup {None}
  BY DEF QpTypeOK
<1>f. executed' = executed /\ failedAt' = failedAt
  OBVIOUS
<1> HIDE DEF d
<1>1. sendCredits' \in Nat
  <2>1. n \in Nat
    BY <1>e
  <2>2. Span(n) \in Nat
    BY <2>1, SpanFacts
  <2> QED  BY <2>2, <1>c, <1>e
<1>2. /\ tail' \in Nat /\ tail <= tail' /\ tail' <= executed
      /\ \A k \in (n + 1) .. Len(sendCq) : tail' <= sendCq[k].wqe
      /\ n > 0 => tail' = sendCq[n].wqe + 1
  <2>1. CASE n = 0
    <3>1. tail' = tail /\ tail <= executed /\ ~(n > 0)
      BY <2>1, <1>c DEF TailAfter
    <3>2. \A k \in (n + 1) .. Len(sendCq) : k \in 1 .. Len(sendCq)
      BY <2>1
    <3> QED  BY <3>1, <3>2, <1>e DEF CqInv
  <2>2. CASE n > 0
    <3>1. n \in 1 .. Len(sendCq) /\ tail' = sendCq[n].wqe + 1 /\ sendCq[n].wqe \in Nat
      BY <2>2, <1>c, <1>d DEF TailAfter
    <3>2. tail <= sendCq[n].wqe /\ sendCq[n].wqe < executed
      BY <3>1 DEF CqInv
    <3>3. ASSUME NEW k \in (n + 1) .. Len(sendCq)
          PROVE  tail' <= sendCq[k].wqe
      <4>1. k \in 1 .. Len(sendCq) /\ n <= k /\ k - n >= 1
        BY <3>3, <1>e
      <4>2. sendCq[k].wqe - sendCq[n].wqe >= k - n /\ sendCq[k].wqe \in Nat
        BY <4>1, <3>1, <1>d DEF CqInv
      <4> QED  BY <4>1, <4>2, <3>1, SMTT(30)
    <3> QED  BY <3>1, <3>2, <3>3, <1>e
  <2> QED  BY <2>1, <2>2
<1>4. CqInv'
  <2>1. ASSUME NEW k \in 1 .. Len(d)
        PROVE  tail' <= d[k].wqe /\ d[k].wqe < executed
    <3>1. k + n \in (n + 1) .. Len(sendCq) /\ k + n \in 1 .. Len(sendCq) /\ d[k] = sendCq[k + n]
      BY <1>a, <1>b, <1>e
    <3> QED  BY <3>1, <1>2 DEF CqInv
  <2>2. ASSUME NEW j \in 1 .. Len(d), NEW k \in 1 .. Len(d), j <= k
        PROVE  d[k].wqe - d[j].wqe >= k - j
    <3>1. /\ k + n \in 1 .. Len(sendCq) /\ d[k] = sendCq[k + n]
          /\ j + n \in 1 .. Len(sendCq) /\ d[j] = sendCq[j + n]
          /\ j + n <= k + n /\ (k + n) - (j + n) = k - j
      BY <1>a, <1>b, <1>e, <2>2
    <3>2. sendCq[k + n].wqe - sendCq[j + n].wqe >= (k + n) - (j + n)
      BY <3>1 DEF CqInv
    <3> QED  BY <3>1, <3>2
  <2> QED  BY <1>c, <1>f, <2>1, <2>2 DEF CqInv
<1>5. FailInv'
  BY <1>b, <1>c, <1>f DEF FailInv
<1>6. ASSUME SendFailed(n) PROVE ~Clean'
  <2>1. PICK k \in 1 .. n : ~sendCq[k].ok
    BY <1>6 DEF SendFailed
  <2>2. k \in 1 .. Len(sendCq) /\ n \in 1 .. Len(sendCq) /\ k <= n /\ n > 0
    BY <1>e
  <2>3. failedAt # None /\ ~(sendCq[k].wqe < failedAt)
    BY <2>1, <2>2 DEF FailInv
  <2>4. sendCq[n].wqe - sendCq[k].wqe >= n - k
    BY <2>2 DEF CqInv
  <2>5. failedAt \in Nat /\ sendCq[k].wqe \in Nat /\ sendCq[n].wqe \in Nat /\ tail' = sendCq[n].wqe + 1
    BY <2>2, <2>3, <1>d, <1>e, <1>2
  <2> QED  BY <2>2, <2>3, <2>4, <2>5, <1>f, SMTT(30) DEF Clean
<1>7. Clean' => Clean
  BY <1>2, <1>e, <1>f DEF Clean, None
<1> QED  BY <1>a, <1>c, <1>1, <1>2, <1>4, <1>5, <1>6, <1>7

\* A CQE appended for the request being executed keeps the order of the CQ.
LEMMA AppendCqe ==
  ASSUME QpTypeOK, CqInv, tail <= executed, NEW b \in BOOLEAN,
         sendCq' = Append(sendCq, [wqe |-> executed, ok |-> b]),
         executed' = executed + 1, tail' = tail
  PROVE  /\ CqInv' /\ sendCq' \in Seq(Cqe)
         /\ Len(sendCq') = Len(sendCq) + 1
         /\ \A k \in 1 .. Len(sendCq) : sendCq'[k] = sendCq[k]
         /\ sendCq'[Len(sendCq) + 1] = [wqe |-> executed, ok |-> b]
<1> DEFINE e == [wqe |-> executed, ok |-> b]
           L == Len(sendCq)
<1>1. sendCq \in Seq(Cqe) /\ executed \in Nat /\ tail \in Nat /\ L \in Nat /\ CqInv /\ tail <= executed
  BY DEF QpTypeOK
<1>2. e \in Cqe /\ e.wqe = executed
  BY <1>1 DEF Cqe
<1> HIDE DEF e
<1>3. sendCq' = Append(sendCq, e)
  BY DEF e
<1>4. /\ sendCq' \in Seq(Cqe) /\ Len(sendCq') = L + 1
      /\ \A k \in 1 .. L : sendCq'[k] = sendCq[k]
      /\ sendCq'[L + 1] = e
  BY <1>1, <1>2, <1>3
<1>5. \A k \in 1 .. L : /\ sendCq[k].wqe \in Nat /\ tail <= sendCq[k].wqe
                        /\ sendCq[k].wqe < executed
  BY <1>1, CqeFields DEF CqInv
<1>6. ASSUME NEW k \in 1 .. (L + 1)
      PROVE  tail <= sendCq'[k].wqe /\ sendCq'[k].wqe < executed + 1
  <2>1. CASE k = L + 1
    <3>1. sendCq'[k].wqe = executed
      BY <2>1, <1>2, <1>4
    <3> QED  BY <3>1, <1>1
  <2>2. CASE k \in 1 .. L
    <3>1. sendCq'[k].wqe = sendCq[k].wqe
      BY <2>2, <1>4
    <3> QED  BY <3>1, <2>2, <1>1, <1>5
  <2> QED  BY <2>1, <2>2, <1>1
<1>7. ASSUME NEW j \in 1 .. (L + 1), NEW k \in 1 .. (L + 1), j <= k
      PROVE  sendCq'[k].wqe - sendCq'[j].wqe >= k - j
  <2>1. CASE j = L + 1
    <3>1. k = L + 1 /\ j = L + 1
      BY <2>1, <1>1, <1>7
    <3>2. sendCq'[k].wqe = executed /\ sendCq'[j].wqe = executed
      BY <3>1, <1>2, <1>4
    <3> QED  BY <3>1, <3>2, <1>1
  <2>2. CASE j \in 1 .. L /\ k = L + 1
    <3>1. sendCq'[k].wqe = executed /\ sendCq'[j].wqe = sendCq[j].wqe
      BY <2>2, <1>2, <1>4
    <3>2. L \in 1 .. L /\ j <= L
      BY <2>2, <1>1
    <3>3. sendCq[L].wqe - sendCq[j].wqe >= L - j
      BY <2>2, <3>2, <1>1 DEF CqInv
    <3>4. sendCq[L].wqe < executed /\ sendCq[L].wqe \in Nat /\ sendCq[j].wqe \in Nat
      BY <2>2, <3>2, <1>5
    <3>5. executed - sendCq[j].wqe >= k - j
      BY <2>2, <3>3, <3>4, <1>1, SMTT(30)
    <3> QED  BY <3>1, <3>5, Zenon
  <2>3. CASE j \in 1 .. L /\ k \in 1 .. L
    <3>1. sendCq'[k].wqe = sendCq[k].wqe /\ sendCq'[j].wqe = sendCq[j].wqe
      BY <2>3, <1>4
    <3>2. sendCq[k].wqe - sendCq[j].wqe >= k - j
      BY <2>3, <1>7, <1>1 DEF CqInv
    <3> QED  BY <3>1, <3>2, Zenon
  <2> QED  BY <2>1, <2>2, <2>3, <1>1, <1>7
<1>8. CqInv'
  BY <1>4, <1>6, <1>7, Zenon DEF CqInv
<1> QED  BY <1>4, <1>8, Zenon DEF e

\* The adapter executes or fails the next request: at most one CQE more, and
\* order and status of the completion queue stay as they were.
LEMMA NicCq ==
  ASSUME QpTypeOK, CqInv, FailInv, tail <= executed,
         NicExecute \/ NicFail, tail' = tail
  PROVE  /\ CqInv' /\ FailInv' /\ sendCq' \in Seq(Cqe)
         /\ executed' = executed + 1 /\ executed < head
         /\ signals' = signals \ {executed}
         /\ failedAt' = failedAt \/ (failedAt = None /\ failedAt' = executed)
         /\ failedAt' \in Nat \cup {None}
         /\ \/ sendCq' = sendCq /\ failedAt' = None /\ executed \notin signals
            \/ /\ Len(sendCq') = Len(sendCq) + 1
               /\ \A k \in 1 .. Len(sendCq) : sendCq'[k] = sendCq[k]
               /\ sendCq'[Len(sendCq) + 1].wqe = executed
               /\ sendCq'[Len(sendCq) + 1].ok \in BOOLEAN
               /\ sendCq'[Len(sendCq) + 1].ok <=> failedAt' = None
               /\ failedAt' = None => executed \in signals
<1> DEFINE L == Len(sendCq)
<1>0. /\ sendCq \in Seq(Cqe) /\ executed \in Nat /\ tail \in Nat /\ L \in Nat
      /\ failedAt \in Nat \cup {None}
  BY DEF QpTypeOK
<1>1. \A k \in 1 .. L : /\ sendCq[k].wqe \in Nat /\ tail <= sendCq[k].wqe
                        /\ sendCq[k].wqe < executed
  BY <1>0, CqeFields DEF CqInv
<1>2. CASE NicExecute /\ executed \notin signals
  <2>1. /\ sendCq' = sendCq /\ failedAt = None /\ failedAt' = failedAt /\ executed' = executed + 1
        /\ executed < head /\ signals' = signals \ {executed}
    BY <1>2 DEF NicExecute
  <2>2. \A k \in 1 .. L : tail <= sendCq[k].wqe /\ sendCq[k].wqe < executed + 1
    BY <1>0, <1>1
  <2>3. CqInv'
    BY <2>1, <2>2, Zenon DEF CqInv
  <2>4. FailInv'
    BY <2>1 DEF FailInv
  <2> QED  BY <2>1, <2>3, <2>4, <1>0, <1>2
<1>3. CASE NicExecute /\ executed \in signals
  <2>1. /\ sendCq' = Append(sendCq, [wqe |-> executed, ok |-> TRUE])
        /\ failedAt = None /\ failedAt' = failedAt /\ executed' = executed + 1
        /\ executed < head /\ signals' = signals \ {executed}
    BY <1>3 DEF NicExecute
  <2>2. TRUE \in BOOLEAN
    OBVIOUS
  <2>3. /\ CqInv' /\ sendCq' \in Seq(Cqe) /\ Len(sendCq') = L + 1
        /\ \A k \in 1 .. L : sendCq'[k] = sendCq[k]
        /\ sendCq'[L + 1] = [wqe |-> executed, ok |-> TRUE]
    BY <2>1, <2>2, AppendCqe
  <2>4. sendCq'[L + 1].wqe = executed /\ sendCq'[L + 1].ok = TRUE
    BY <2>3
  <2>5. \A k \in 1 .. L : sendCq[k].ok
    BY <2>1 DEF FailInv
  <2>6. \A k \in 1 .. L + 1 : k \in 1 .. L \/ k = L + 1
    BY <1>0
  <2>7. \A k \in 1 .. L + 1 : sendCq'[k].ok
    BY <2>3, <2>4, <2>5, <2>6, Zenon
  <2>8. FailInv'
    BY <2>1, <2>3, <2>7, Zenon DEF FailInv
  <2> QED  BY <2>1, <2>3, <2>4, <2>8, <1>0, <1>3
<1>4. CASE NicFail
  <2>1. /\ sendCq' = Append(sendCq, [wqe |-> executed, ok |-> FALSE])
        /\ executed' = executed + 1 /\ executed < head /\ signals' = signals \ {executed}
        /\ \/ failedAt = None /\ failedAt' = executed
           \/ failedAt # None /\ failedAt' = failedAt
    BY <1>4 DEF NicFail
  <2>2. FALSE \in BOOLEAN
    OBVIOUS
  <2>3. /\ CqInv' /\ sendCq' \in Seq(Cqe) /\ Len(sendCq') = L + 1
        /\ \A k \in 1 .. L : sendCq'[k] = sendCq[k]
        /\ sendCq'[L + 1] = [wqe |-> executed, ok |-> FALSE]
    BY <2>1, <2>2, AppendCqe
  <2>4. sendCq'[L + 1].wqe = executed /\ sendCq'[L + 1].ok = FALSE
    BY <2>3
  <2>5. failedAt' \in Nat /\ failedAt' # None /\ failedAt' <= executed
    BY <2>1, <1>0 DEF FailInv, None
  <2>6. \A k \in 1 .. L : sendCq[k].ok <=> sendCq[k].wqe < failedAt'
    <3>1. CASE failedAt = None /\ failedAt' = executed
      BY <3>1, <1>1 DEF FailInv
    <3>2. CASE failedAt # None /\ failedAt' = failedAt
      BY <3>2 DEF FailInv
    <3> QED  BY <2>1, <3>1, <3>2
  <2>7. ~(executed < failedAt') /\ failedAt' < executed'
    BY <2>1, <2>5, <1>0
  <2>8. \A k \in 1 .. L + 1 : k \in 1 .. L \/ k = L + 1
    BY <1>0
  <2>9. \A k \in 1 .. L + 1 : sendCq'[k].ok <=> sendCq'[k].wqe < failedAt'
    BY <2>3, <2>4, <2>6, <2>7, <2>8, Zenon
  <2>10. FailInv'
    BY <2>3, <2>5, <2>7, <2>9, Zenon DEF FailInv
  <2>11. /\ failedAt' = failedAt \/ (failedAt = None /\ failedAt' = executed)
         /\ failedAt' \in Nat \cup {None}
    BY <2>1, <2>5
  <2>12. /\ Len(sendCq') = Len(sendCq) + 1
         /\ \A k \in 1 .. Len(sendCq) : sendCq'[k] = sendCq[k]
         /\ sendCq'[Len(sendCq) + 1].wqe = executed
         /\ sendCq'[Len(sendCq) + 1].ok \in BOOLEAN
         /\ sendCq'[Len(sendCq) + 1].ok <=> failedAt' = None
         /\ failedAt' = None => executed \in signals
    BY <2>3, <2>4, <2>5, Zenon
  <2> QED  BY <2>1, <2>3, <2>10, <2>11, <2>12
<1> QED  BY <1>2, <1>3, <1>4

\* There are never more completions than executed requests above the tail.
LEMMA CqLength ==
  ASSUME QpTypeOK, CqInv, tail <= executed
  PROVE  Len(sendCq) <= executed - tail
<1> DEFINE L == Len(sendCq)
<1>0. sendCq \in Seq(Cqe) /\ executed \in Nat /\ tail \in Nat /\ L \in Nat
  BY DEF QpTypeOK
<1>1. CASE L = 0
  BY <1>0, <1>1
<1>2. CASE L > 0
  <2>1. 1 \in 1 .. L /\ L \in 1 .. L /\ 1 <= L
    BY <1>0, <1>2
  <2>2. sendCq[1].wqe \in Nat /\ sendCq[L].wqe \in Nat
    BY <2>1, <1>0, CqeFields
  <2>3. /\ sendCq[L].wqe - sendCq[1].wqe >= L - 1
        /\ tail <= sendCq[1].wqe /\ sendCq[L].wqe < executed
    BY <2>1 DEF CqInv
  <2> QED  BY <2>2, <2>3, <1>0
<1> QED  BY <1>0, <1>1, <1>2

=============================================================================
