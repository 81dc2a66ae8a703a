------------------------ MODULE AicpuTransportProofs ------------------------
(***************************************************************************)
(* Invariance proofs for AicpuTransport, for every ring depth, signal      *)
(* interval, poll batch, bound, counter word and request index that meet   *)
(* the assumptions of the model.                                           *)
(*                                                                         *)
(* The first part is the arithmetic of wrapping words: what the code       *)
(* computes from a wrapped consumer or tail word is what it would compute  *)
(* from the counter it stands for.  The second is the completion ring:     *)
(* EntriesInv says what each entry of the window the scan can look at      *)
(* holds, the unread completions first and then entries of the lap before, *)
(* whose owner bit is still the one of their old lap.                      *)
(***************************************************************************)
EXTENDS AicpuTransport, TransportQpLemmas, WellFoundedInduction

-----------------------------------------------------------------------------
(* The inductive invariant. *)

\* completions taken from the ring since the start
Consumed == produced - Len(sendCq)

\* the ring entry that completion q is written to, counted from 0
Entry(q) == cqRing[q % Depth]

\* the entry the adapter writes for completion q
Written(q, c) ==
  [owner |-> 1 - ((q \div Depth) % 2), ok |-> c.ok, index |-> c.wqe % IndexMod]

BoundsInv ==
  /\ tail <= executed /\ executed <= head /\ head - tail <= Depth
  /\ unsignaled < Interval
  /\ \A p \in signals : executed <= p /\ p < head

\* The words are the counters, wrapped.
WordsInv ==
  /\ Len(sendCq) <= produced
  /\ consumer = Consumed % WordMod
  /\ tailWord = tail % WordMod

\* One lap ahead of the consumer: the unread completions, then entries whose
\* owner bit is the one that means "not yet written" on their next lap.
EntriesInv ==
  /\ \A k \in 1 .. Len(sendCq) :
        Entry(Consumed + k - 1) = Written(Consumed + k - 1, sendCq[k])
  /\ \A q \in produced .. (Consumed + Depth - 1) : Entry(q).owner = (q \div Depth) % 2

\* Until an error is seen, only the awaited request can be signaled or have
\* completed with success, and the credits are the free entries.
SchedInv ==
  Clean =>
    /\ sendCredits + (head - tail) = Depth
    /\ pc # "wait" => head = tail + unsignaled
    /\ pc = "wait" =>
         unsignaled = 0 /\ head = tail + Interval /\ target = sendCredits + Interval
    /\ \A k \in 1 .. Len(sendCq) :
         sendCq[k].ok => pc = "wait" /\ k = 1 /\ sendCq[k].wqe = head - 1
    /\ failedAt = None => \A p \in signals : pc = "wait" /\ p = head - 1

CallInv ==
  /\ pc = "post" => sendCredits >= 1
  /\ pc = "recv" => recvCredits >= 1

IInv ==
  /\ TypeOK /\ BoundsInv /\ CqInv /\ FailInv /\ WordsInv /\ EntriesInv
  /\ SchedInv /\ CallInv
  /\ WrIdsIntact /\ DecodedIsOwn /\ WaitedIsExecuted

-----------------------------------------------------------------------------
(* Arithmetic of wrapping words. *)

\* Quotient and remainder by a positive divisor.
LEMMA DivDef ==
  ASSUME NEW d \in Nat, d > 0, NEW x \in Int
  PROVE  /\ x % d \in 0 .. (d - 1) /\ x \div d \in Int
         /\ x = d * (x \div d) + (x % d)
  BY SMT

\* There is only one way to divide with a remainder below the divisor.
LEMMA DivUnique ==
  ASSUME NEW d \in Nat, d > 0, NEW x \in Int, NEW a \in Int, NEW r \in 0 .. (d - 1),
         x = d * a + r
  PROVE  x % d = r /\ x \div d = a
<1>1. ASSUME NEW u \in Int, NEW v \in Int, u < v PROVE d * u + d <= d * v
  BY <1>1, SMT
<1>2. PICK b \in Int, s \in 0 .. (d - 1) : b = x \div d /\ s = x % d
  BY DivDef
<1>3. x = d * b + s
  BY <1>2, DivDef
<1>4. d * a \in Int /\ d * b \in Int
  BY SMT
<1>5. ~(a < b) /\ ~(b < a)
  BY <1>1, <1>3, <1>4, SMT
<1>6. a = b
  BY <1>5
<1>7. r = s
  BY <1>3, <1>4, <1>6
<1> QED  BY <1>2, <1>6, <1>7

\* A multiple of the divisor moves the quotient and leaves the remainder.
LEMMA ModAdd ==
  ASSUME NEW d \in Nat, d > 0, NEW x \in Int, NEW c \in Int
  PROVE  (x + d * c) % d = x % d /\ (x + d * c) \div d = (x \div d) + c
<1>1. PICK a \in Int, r \in 0 .. (d - 1) : a = x \div d /\ r = x % d /\ x = d * a + r
  BY DivDef
<1>2. x + d * c = d * (a + c) + r /\ x + d * c \in Int
  BY <1>1, SMT
<1>3. (x + d * c) % d = r /\ (x + d * c) \div d = a + c
  BY <1>2, DivUnique
<1> QED  BY <1>1, <1>3

\* A number below the divisor is its own remainder.
LEMMA ModSmall ==
  ASSUME NEW d \in Nat, d > 0, NEW x \in 0 .. (d - 1)
  PROVE  x % d = x /\ x \div d = 0
<1>1. x = d * 0 + x /\ x \in Int
  BY SMT
<1> QED  BY <1>1, DivUnique

\* Numbers less than a divisor apart have different remainders.
LEMMA ModDistinct ==
  ASSUME NEW d \in Nat, d > 0, NEW x \in Int, NEW y \in Int, x < y, y - x < d
  PROVE  x % d # y % d
<1> SUFFICES ASSUME x % d = y % d PROVE FALSE
  OBVIOUS
<1>1. PICK a \in Int, r \in 0 .. (d - 1) : a = x \div d /\ r = x % d /\ x = d * a + r
  BY DivDef
<1>2. PICK b \in Int, s \in 0 .. (d - 1) : b = y \div d /\ s = y % d /\ y = d * b + s
  BY DivDef
<1>3. r = s
  BY <1>1, <1>2
<1>4. ASSUME NEW u \in Int, NEW v \in Int, u < v PROVE d * u + d <= d * v
  BY <1>4, SMT
<1>5. d * a \in Int /\ d * b \in Int /\ d * a < d * b /\ d * b - d * a < d
  BY <1>1, <1>2, <1>3, SMT
<1>6. a < b \/ b < a \/ a = b
  OBVIOUS
<1>7. a < b => d * a + d <= d * b
  BY <1>4
<1>8. b < a => d * b + d <= d * a
  BY <1>4
<1> QED  BY <1>5, <1>6, <1>7, <1>8

\* The remainder by a multiple of d is as good as the number itself modulo d.
LEMMA ModOfMod ==
  ASSUME NEW d \in Nat, d > 0, NEW w \in Nat, w > 0, w % d = 0, NEW x \in Int, NEW k \in Int
  PROVE  ((x % w) + k) % d = (x + k) % d
<1>1. PICK e \in Int : w = d * e
  <2>1. w = d * (w \div d) + 0 /\ w \div d \in Int
    BY DivDef
  <2> QED  BY <2>1
<1>2. PICK a \in Int, r \in 0 .. (w - 1) : a = x \div w /\ r = x % w /\ x = w * a + r
  BY DivDef
<1>3. e * a \in Int /\ d * (e * a) = w * a
  BY <1>1, SMT
<1>4. PICK c \in Int : c = e * a
  BY <1>3
<1>5. x + k = (r + k) + d * c /\ r + k \in Int
  BY <1>2, <1>3, <1>4
<1>6. ((r + k) + d * c) % d = (r + k) % d
  BY <1>5, ModAdd
<1> QED  BY <1>2, <1>5, <1>6

\* The lap parity read from a wrapped word is that of the counter, as a whole
\* number of lap pairs fits the word.
LEMMA LapOfWord ==
  ASSUME NEW d \in Nat, d > 0, NEW w \in Nat, w > 0, w % (2 * d) = 0,
         NEW x \in Int
  PROVE  ((x % w) \div d) % 2 = (x \div d) % 2
<1>1. PICK e \in Int : w = d * (2 * e)
  <2>1. 2 * d \in Nat /\ 2 * d > 0
    OBVIOUS
  <2>2. w = (2 * d) * (w \div (2 * d)) + 0 /\ w \div (2 * d) \in Int
    BY <2>1, DivDef
  <2>3. PICK e \in Int : e = w \div (2 * d)
    BY <2>2
  <2>4. w = (2 * d) * e
    BY <2>2, <2>3
  <2>5. (2 * d) * e = d * (2 * e)
    BY SMT
  <2> QED  BY <2>4, <2>5
<1>2. PICK a \in Int, r \in 0 .. (w - 1) : a = x \div w /\ r = x % w /\ x = w * a + r
  BY DivDef
<1>3. e * a \in Int /\ d * (2 * (e * a)) = w * a
  BY <1>1, SMT
<1>4. PICK c \in Int : c = e * a
  BY <1>3
<1>5. x = r + d * (2 * c) /\ r \in Int /\ 2 * c \in Int
  BY <1>2, <1>3, <1>4
<1>6. (r + d * (2 * c)) \div d = (r \div d) + 2 * c /\ r \div d \in Int
  BY <1>5, ModAdd, DivDef
<1>7. ((r \div d) + 2 * c) % 2 = (r \div d) % 2
  BY <1>6, ModAdd
<1> QED  BY <1>2, <1>5, <1>6, <1>7

\* Adding to a wrapped word and wrapping again is wrapping the sum.
LEMMA WordAdd ==
  ASSUME NEW w \in Nat, w > 0, NEW x \in Int, NEW k \in Int
  PROVE  ((x % w) + k) % w = (x + k) % w
<1>1. w = w * 1 + 0
  OBVIOUS
<1>2. w % w = 0
  BY <1>1, DivUnique
<1> QED  BY <1>2, ModOfMod

\* The lap parity changes after d entries.
LEMMA NextLap ==
  ASSUME NEW d \in Nat, d > 0, NEW x \in Int
  PROVE  /\ (x + d) % d = x % d
         /\ ((x + d) \div d) % 2 = 1 - ((x \div d) % 2)
         /\ (x \div d) % 2 \in {0, 1}
<1>1. x + d = x + d * 1
  OBVIOUS
<1>2. (x + d) % d = x % d /\ (x + d) \div d = (x \div d) + 1 /\ x \div d \in Int
  BY <1>1, ModAdd, DivDef
<1>3. PICK a \in Int : a = x \div d
  BY <1>2
<1>4. a % 2 \in {0, 1} /\ (a + 1) % 2 = 1 - (a % 2)
  OBVIOUS
<1> QED  BY <1>2, <1>3, <1>4

\* A non-empty set of naturals has a least element.
LEMMA LeastNat ==
  ASSUME NEW S, S \subseteq Nat, S # {}
  PROVE  \E m \in S : \A y \in S : ~(y < m)
<1>1. PICK m \in S : \A y \in S : ~(<<y, m>> \in OpToRel(<, Nat))
  BY NatLessThanWellFounded, WFMin
<1> QED  BY <1>1 DEF OpToRel

-----------------------------------------------------------------------------
(* The completion ring. *)

\* The assumptions on the words in the form the lemmas above take them.
LEMMA WordFacts ==
  /\ Depth \in Nat /\ Depth > 0 /\ WordMod \in Nat /\ WordMod > 0
  /\ IndexMod \in Nat /\ IndexMod > 0
  /\ WordMod % (2 * Depth) = 0 /\ WordMod % Depth = 0 /\ IndexMod % Depth = 0
<1>1. /\ Depth \in Nat /\ Depth > 0 /\ WordMod \in Nat /\ WordMod > 0
      /\ IndexMod \in Nat /\ IndexMod > 0
      /\ WordMod % (2 * Depth) = 0 /\ IndexMod % Depth = 0
  BY QpAssumption, RingAssumption
<1>2. 2 * Depth \in Nat /\ 2 * Depth > 0
  BY <1>1
<1>3. WordMod = (2 * Depth) * (WordMod \div (2 * Depth)) + 0 /\ WordMod \div (2 * Depth) \in Int
  BY <1>1, <1>2, DivDef
<1>4. PICK e \in Int : e = WordMod \div (2 * Depth)
  BY <1>3
<1>5. (2 * Depth) * e = Depth * (2 * e)
  BY <1>1, SMT
<1>6. WordMod = Depth * (2 * e) + 0
  BY <1>1, <1>3, <1>4, <1>5
<1>7. WordMod % Depth = 0
  BY <1>1, <1>6, DivUnique
<1> QED  BY <1>1, <1>7

\* A ring index can be computed from a wrapped word as from the counter.
LEMMA RingOfWord ==
  ASSUME NEW y \in Int, NEW m \in Int
  PROVE  /\ ((y % IndexMod) + m) % Depth = (y + m) % Depth
         /\ ((y % WordMod) + m) % Depth = (y + m) % Depth
  BY WordFacts, ModOfMod

\* The entry and the lap the scan computes from the consumer word are those of
\* the completion counted from the start.
LEMMA ScanPosition ==
  ASSUME TypeOK, WordsInv, NEW k \in Nat
  PROVE  /\ CqeAt(k) = Entry(Consumed + k)
         /\ (((consumer + k) % WordMod) \div Depth) % 2 = ((Consumed + k) \div Depth) % 2
<1>1. Consumed \in Nat /\ consumer = Consumed % WordMod /\ Consumed \in Int /\ k \in Int
  BY DEF WordsInv, Consumed, TypeOK, QpTypeOK
<1>2. (consumer + k) % Depth = (Consumed + k) % Depth
  BY <1>1, WordFacts, ModOfMod
<1>3. (consumer + k) % WordMod = (Consumed + k) % WordMod
  BY <1>1, WordFacts, WordAdd
<1>4. (((Consumed + k) % WordMod) \div Depth) % 2 = ((Consumed + k) \div Depth) % 2
  <2>1. Consumed + k \in Int
    BY <1>1
  <2> QED  BY <2>1, WordFacts, LapOfWord, Zenon
<1> QED  BY <1>2, <1>3, <1>4 DEF CqeAt, Entry

\* The completion queue fits the ring.
LEMMA CqFits ==
  ASSUME TypeOK, BoundsInv, CqInv
  PROVE  /\ Len(sendCq) \in Nat /\ Len(sendCq) <= Depth
         /\ executed < head => Len(sendCq) < Depth
<1>1. QpTypeOK /\ tail <= executed /\ executed <= head /\ head - tail <= Depth
  BY DEF TypeOK, BoundsInv
<1>2. Len(sendCq) <= executed - tail
  BY <1>1, CqLength
<1>3. Len(sendCq) \in Nat /\ tail \in Nat /\ executed \in Nat /\ head \in Nat /\ Depth \in Nat
  BY <1>1, QpAssumption DEF QpTypeOK
<1> QED  BY <1>1, <1>2, <1>3

\* What nds_hns_hw_cqe_is_ready and the decoder see: exactly the unread
\* completions, and nothing after them on the whole lap.
LEMMA ScanSees ==
  ASSUME TypeOK, BoundsInv, CqInv, WordsInv, EntriesInv
  PROVE  /\ \A k \in 0 .. (Depth - 1) : CqeIsReady(k) <=> k < Len(sendCq)
         /\ Len(sendCq) = Depth => ~CqeIsReady(Depth)
         /\ \A k \in 0 .. (Len(sendCq) - 1) :
              /\ CqeAt(k).ok = sendCq[k + 1].ok
              /\ CqeAt(k).index = sendCq[k + 1].wqe % IndexMod
<1> DEFINE L == Len(sendCq)
           C == Consumed
<1>1. L \in Nat /\ L <= Depth /\ C \in Nat /\ produced = C + L /\ Depth \in Nat /\ Depth > 0
  BY CqFits, WordFacts, SMTT(30) DEF WordsInv, Consumed, TypeOK
<1>2. ASSUME NEW k \in 0 .. (L - 1)
      PROVE  CqeAt(k) = Written(C + k, sendCq[k + 1])
  <2>1. k + 1 \in 1 .. L /\ C + (k + 1) - 1 = C + k /\ k \in Nat
    BY <1>1
  <2>2. Entry(C + (k + 1) - 1) = Written(C + (k + 1) - 1, sendCq[k + 1])
    BY <2>1 DEF EntriesInv
  <2> QED  BY <2>1, <2>2, ScanPosition
<1> HIDE DEF L, C
<1>3. \A k \in 0 .. Depth : CqeIsReady(k) <=> CqeAt(k).owner # ((C + k) \div Depth) % 2
  BY <1>1, ScanPosition DEF CqeIsReady, C
<1>4. ASSUME NEW k \in 0 .. (Depth - 1), k < L PROVE CqeIsReady(k)
  <2>1. k \in 0 .. (L - 1) /\ C + k \in Int /\ k \in 0 .. Depth
    BY <1>1, <1>4
  <2>2. CqeAt(k).owner = 1 - (((C + k) \div Depth) % 2)
    BY <2>1, <1>2 DEF Written
  <2>3. ((C + k) \div Depth) % 2 \in {0, 1}
    BY <2>1, <1>1, NextLap
  <2>4. PICK b \in {0, 1} : b = ((C + k) \div Depth) % 2
    BY <2>3
  <2>5. CqeAt(k).owner # b
    BY <2>2, <2>4
  <2> QED  BY <2>1, <2>4, <2>5, <1>3
<1>5. ASSUME NEW k \in 0 .. (Depth - 1), ~(k < L) PROVE ~CqeIsReady(k)
  <2>1. C + k \in produced .. (C + Depth - 1) /\ k \in Nat /\ k \in 0 .. Depth
    BY <1>1, <1>5
  <2>2. Entry(C + k).owner = ((C + k) \div Depth) % 2
    BY <2>1 DEF EntriesInv, C
  <2> QED  BY <2>1, <2>2, <1>3, ScanPosition DEF C
<1>6. ASSUME L = Depth PROVE ~CqeIsReady(Depth)
  <2>1. /\ C \in Int /\ C + 0 = C /\ 0 \in 0 .. (L - 1) /\ Depth \in 0 .. Depth
        /\ 0 \in Nat /\ Depth \in Nat
    BY <1>1, <1>6
  <2>2. CqeAt(Depth) = Entry(C + Depth) /\ CqeAt(0) = Entry(C)
    BY <2>1, ScanPosition DEF C
  <2>3. Entry(C + Depth) = Entry(C) /\ ((C + Depth) \div Depth) % 2 = 1 - ((C \div Depth) % 2)
    BY <2>1, <1>1, NextLap DEF Entry
  <2>4. CqeAt(0).owner = 1 - ((C \div Depth) % 2)
    BY <2>1, <1>2 DEF Written
  <2> QED  BY <2>1, <2>2, <2>3, <2>4, <1>3
<1> QED  BY <1>2, <1>4, <1>5, <1>6 DEF L, Written

\* The scan stops where the completion queue ends: nds_aicpu_poll_cq takes what
\* a reclaim of the queue would take.
LEMMA ScanStops ==
  ASSUME TypeOK, BoundsInv, CqInv, WordsInv, EntriesInv
  PROVE  RingReady = SendReady /\ SendReady \in 0 .. Len(sendCq)
<1> DEFINE L == Len(sendCq)
           P(n) == /\ \A k \in 0 .. n - 1 : CqeIsReady(k)
                   /\ n = PollBatch \/ ~CqeIsReady(n)
<1>1. L \in Nat /\ L <= Depth /\ Depth \in Nat /\ PollBatch \in Nat
  BY CqFits, QpAssumption
<1>2. /\ \A k \in 0 .. (Depth - 1) : CqeIsReady(k) <=> k < L
      /\ L = Depth => ~CqeIsReady(Depth)
  BY ScanSees
<1> HIDE DEF L
<1>3. SendReady = (IF PollBatch < L THEN PollBatch ELSE L)
  BY DEF SendReady, Min2, L
<1>4. SendReady \in 0 .. PollBatch /\ SendReady \in 0 .. L
  BY <1>1, <1>3
<1>5. ~CqeIsReady(L)
  <2>1. L = Depth \/ L \in 0 .. (Depth - 1)
    BY <1>1
  <2> QED  BY <2>1, <1>1, <1>2
<1>6. ASSUME NEW k \in 0 .. (L - 1) PROVE CqeIsReady(k)
  BY <1>1, <1>2
<1>7. P(SendReady)
  <2>1. \A k \in 0 .. SendReady - 1 : k \in 0 .. (L - 1)
    BY <1>1, <1>4
  <2>2. SendReady = PollBatch \/ SendReady = L
    BY <1>3
  <2> QED  BY <2>1, <2>2, <1>5, <1>6
<1>8. ASSUME NEW n \in 0 .. PollBatch, P(n) PROVE n = SendReady
  <2>1. ~(L < n)
    <3> SUFFICES ASSUME L < n PROVE FALSE
      OBVIOUS
    <3>1. L \in 0 .. n - 1
      BY <1>1
    <3> QED  BY <3>1, <1>5, <1>8
  <2>2. n = PollBatch \/ ~(n < L)
    <3> SUFFICES ASSUME n < L, n # PollBatch PROVE FALSE
      BY <1>1
    <3>1. n \in 0 .. (L - 1)
      BY <1>1
    <3> QED  BY <3>1, <1>6, <1>8
  <2> QED  BY <2>1, <2>2, <1>1, <1>3
<1>9. RingReady = CHOOSE n \in 0 .. PollBatch : P(n)
  BY DEF RingReady
<1> HIDE DEF P
<1>10. RingReady \in 0 .. PollBatch /\ P(RingReady)
  BY <1>4, <1>7, <1>9, Zenon
<1>11. RingReady = SendReady
  BY <1>8, <1>10, Zenon
<1> QED  BY <1>4, <1>11 DEF L

\* nds_hns_hw_send_tail_for_cqe finds the request of a completion from a tail
\* word at most a ring behind it and the request's index.
LEMMA TailForCqe ==
  ASSUME TypeOK, BoundsInv, CqInv, WordsInv, EntriesInv,
         NEW k \in 0 .. (Len(sendCq) - 1), NEW t \in Nat,
         t <= sendCq[k + 1].wqe, sendCq[k + 1].wqe - t < Depth
  PROVE  SendTailForCqe(t % WordMod, k) = sendCq[k + 1].wqe % WordMod
<1>1. k + 1 \in 1 .. Len(sendCq) /\ sendCq \in Seq(Cqe)
  BY DEF TypeOK, QpTypeOK
<1>2. PICK x \in Nat : x = sendCq[k + 1].wqe
  BY <1>1, CqeFields
<1>3. t <= x /\ x - t < Depth /\ CqeAt(k).index = x % IndexMod
  BY <1>2, ScanSees
<1>4. /\ Depth \in Nat /\ Depth > 0 /\ WordMod \in Nat /\ WordMod > 0
      /\ IndexMod \in Nat /\ IndexMod > 0
      /\ WordMod % Depth = 0 /\ IndexMod % Depth = 0
  BY WordFacts
<1>5. x \in Int /\ t \in Int
  OBVIOUS
<1>6. t % WordMod \in Int /\ x % IndexMod \in Int
  <2>1. t % WordMod \in 0 .. (WordMod - 1) /\ x % IndexMod \in 0 .. (IndexMod - 1)
    BY <1>4, <1>5, DivDef
  <2> QED  BY <2>1, <1>4
<1>7. PICK tw \in Int, ix \in Int : tw = t % WordMod /\ ix = x % IndexMod
  BY <1>6
<1>8. (ix - tw) % Depth = (x - tw) % Depth
  <2>1. ASSUME NEW m \in Int PROVE ((x % IndexMod) + m) % Depth = (x + m) % Depth
    BY <1>5, RingOfWord, Zenon
  <2>2. 0 - tw \in Int /\ ix + (0 - tw) = ix - tw /\ x + (0 - tw) = x - tw
    BY <1>5, <1>7
  <2>3. (ix + (0 - tw)) % Depth = (x + (0 - tw)) % Depth
    BY <2>1, <2>2, <1>7, Zenon
  <2> QED  BY <2>2, <2>3, Zenon
<1>9. (x - tw) % Depth = x - t
  <2>1. PICK a \in Int : t = WordMod * a + tw
    <3>1. t = WordMod * (t \div WordMod) + (t % WordMod) /\ t \div WordMod \in Int
      BY <1>4, <1>5, DivDef, Zenon
    <3>2. t = WordMod * (t \div WordMod) + tw
      BY <3>1, <1>7, Zenon
    <3> QED  BY <3>1, <3>2, Zenon
  <2>2. PICK e \in Int : WordMod = Depth * e
    <3>1. WordMod = Depth * (WordMod \div Depth) + (WordMod % Depth) /\ WordMod \div Depth \in Int
      BY <1>4, DivDef
    <3>2. PICK e \in Int : e = WordMod \div Depth
      BY <3>1
    <3>3. WordMod = Depth * e + 0
      BY <3>1, <3>2, <1>4, Zenon
    <3>4. Depth * e \in Int
      BY <1>4, SMT
    <3> QED  BY <3>3, <3>4
  <2>3. (Depth * e) * a = Depth * (e * a) /\ e * a \in Int
    BY <1>4, SMT
  <2>4. PICK c \in Int : c = e * a
    BY <2>3
  <2>5. t = Depth * c + tw
    BY <2>1, <2>2, <2>3, <2>4
  <2>6. Depth * c \in Int
    BY <1>4, SMT
  <2>7. x - tw = (x - t) + Depth * c /\ x - t \in 0 .. (Depth - 1) /\ x - t \in Int
    BY <2>5, <2>6, <1>3, <1>4, <1>5, <1>7
  <2>8. ((x - t) + Depth * c) % Depth = (x - t) % Depth
    BY <2>7, <1>4, ModAdd, Zenon
  <2>9. (x - t) % Depth = x - t
    BY <2>7, <1>4, ModSmall
  <2> QED  BY <2>7, <2>8, <2>9, Zenon
<1>10. SendTailForCqe(t % WordMod, k) = (tw + (x - t)) % WordMod
  <2>1. SendTailForCqe(t % WordMod, k) = (tw + ((ix - tw) % Depth)) % WordMod
    BY <1>3, <1>7 DEF SendTailForCqe
  <2> QED  BY <2>1, <1>8, <1>9, Zenon
<1>11. ((t % WordMod) + (x - t)) % WordMod = (t + (x - t)) % WordMod
  <2>1. x - t \in Int
    OBVIOUS
  <2> QED  BY <2>1, <1>4, <1>5, WordAdd, Zenon
<1>12. t + (x - t) = x
  OBVIOUS
<1> QED  BY <1>2, <1>7, <1>10, <1>11, <1>12, Zenon

\* The tail word after each completion of a scan is the wrapped position behind
\* its request: the loop of nds_aicpu_poll_cq computes TailAfter.
LEMMA TailWords ==
  ASSUME TypeOK, BoundsInv, CqInv, WordsInv, EntriesInv, NEW n \in 0 .. Len(sendCq)
  PROVE  /\ TailWordAt(n)[n] = TailAfter(n) % WordMod
         /\ n > 0 => SendTailForCqe(TailWordAt(n)[n - 1], n - 1) = sendCq[n].wqe % WordMod
<1> DEFINE Step(a, k) == (SendTailForCqe(a, k) + 1) % WordMod
           P(f) == f = [k \in 0 .. n |-> IF k = 0 THEN tailWord ELSE Step(f[k - 1], k - 1)]
           W(k) == TailAfter(k) % WordMod
           G == [k \in 0 .. n |-> W(k)]
<1>0. /\ n \in Nat /\ Len(sendCq) \in Nat /\ sendCq \in Seq(Cqe)
      /\ tail \in Nat /\ executed \in Nat /\ head \in Nat /\ Depth \in Nat
      /\ executed <= head /\ head - tail <= Depth
      /\ WordMod \in Nat /\ WordMod > 0
  BY WordFacts DEF TypeOK, QpTypeOK, BoundsInv
<1>1. TailWordAt(n) = CHOOSE f : P(f)
  BY DEF TailWordAt
<1>2. ASSUME NEW k \in 1 .. n
      PROVE  /\ SendTailForCqe(W(k - 1), k - 1) = sendCq[k].wqe % WordMod
             /\ Step(W(k - 1), k - 1) = W(k)
  <2>1. k \in 1 .. Len(sendCq) /\ k - 1 \in 0 .. (Len(sendCq) - 1) /\ (k - 1) + 1 = k /\ k # 0
    BY <1>0
  <2>2. PICK x \in Nat : x = sendCq[k].wqe
    BY <2>1, <1>0, CqeFields
  <2>3. tail <= x /\ x < executed
    BY <2>1, <2>2 DEF CqInv
  <2>4. PICK t \in Nat : t = TailAfter(k - 1) /\ tail <= t /\ t <= x
    <3>1. CASE k - 1 = 0
      BY <3>1, <2>3, <1>0 DEF TailAfter
    <3>2. CASE k - 1 # 0
      <4>1. k - 1 \in 1 .. Len(sendCq) /\ k - 1 <= k /\ k - (k - 1) = 1
        BY <2>1, <3>2
      <4>2. PICK y \in Nat : y = sendCq[k - 1].wqe
        BY <4>1, <1>0, CqeFields
      <4>3. sendCq[k].wqe - sendCq[k - 1].wqe >= k - (k - 1) /\ tail <= sendCq[k - 1].wqe
        BY <2>1, <4>1 DEF CqInv
      <4>4. x - y >= 1 /\ tail <= y
        BY <2>2, <4>1, <4>2, <4>3, Zenon
      <4>5. TailAfter(k - 1) = y + 1
        BY <3>2, <4>2 DEF TailAfter
      <4>6. y + 1 \in Nat /\ tail <= y + 1 /\ y + 1 <= x
        BY <4>4, <1>0
      <4> QED  BY <4>5, <4>6
    <3> QED  BY <3>1, <3>2
  <2>5. x - t < Depth
    BY <2>3, <2>4, <1>0
  <2>6. SendTailForCqe(t % WordMod, k - 1) = x % WordMod
    BY <2>1, <2>2, <2>4, <2>5, TailForCqe
  <2>7. ((x % WordMod) + 1) % WordMod = (x + 1) % WordMod
    <3>1. x \in Int /\ 1 \in Int
      OBVIOUS
    <3> QED  BY <3>1, <1>0, WordAdd, Zenon
  <2>8. TailAfter(k) = x + 1
    BY <2>1, <2>2 DEF TailAfter
  <2> QED  BY <2>2, <2>4, <2>6, <2>7, <2>8, Zenon
<1>3. tailWord = W(0)
  BY DEF WordsInv, TailAfter
<1> HIDE DEF Step, W
<1>4. P(G)
  <2>1. ASSUME NEW k \in 0 .. n
        PROVE  W(k) = IF k = 0 THEN tailWord ELSE Step(G[k - 1], k - 1)
    <3>1. CASE k = 0
      BY <3>1, <1>3
    <3>2. CASE k # 0
      <4>1. k \in 1 .. n /\ k - 1 \in 0 .. n
        BY <3>2, <1>0
      <4> QED  BY <4>1, <3>2, <1>2
    <3> QED  BY <3>1, <3>2
  <2> QED  BY <2>1
<1>5. P(TailWordAt(n))
  <2> HIDE DEF P
  <2> QED  BY <1>1, <1>4, Zenon
<1>6. ASSUME NEW f, P(f), NEW j \in 0 .. n PROVE f[j] = W(j)
  <2> SUFFICES ASSUME f[j] # W(j) PROVE FALSE
    OBVIOUS
  <2> DEFINE S == {k \in 0 .. n : f[k] # W(k)}
  <2>1. S \subseteq Nat /\ S # {}
    BY <1>0
  <2>2. PICK m \in S : \A y \in S : ~(y < m)
    BY <2>1, LeastNat
  <2>3. m \in 0 .. n /\ f[m] # W(m)
    OBVIOUS
  <2>4. f[0] = tailWord
    BY <1>0, <1>6
  <2>5. m # 0
    BY <2>3, <2>4, <1>3
  <2>6. m \in 1 .. n /\ m - 1 \in 0 .. n /\ m - 1 < m
    BY <2>3, <2>5, <1>0
  <2>7. f[m - 1] = W(m - 1)
    BY <2>2, <2>6
  <2>8. f[m] = Step(f[m - 1], m - 1)
    BY <2>3, <2>5, <1>6
  <2> QED  BY <2>3, <2>6, <2>7, <2>8, <1>2
<1>7. \A j \in 0 .. n : TailWordAt(n)[j] = W(j)
  BY <1>5, <1>6
<1>8. TailWordAt(n)[n] = W(n)
  BY <1>0, <1>7
<1>9. ASSUME n > 0
      PROVE  SendTailForCqe(TailWordAt(n)[n - 1], n - 1) = sendCq[n].wqe % WordMod
  <2>1. n \in 1 .. n /\ n - 1 \in 0 .. n
    BY <1>0, <1>9
  <2> QED  BY <2>1, <1>2, <1>7
<1> QED  BY <1>8, <1>9 DEF W

\* What a poll of the send ring leaves behind: the words and the entries one lap
\* ahead of the new consumer are what they should be, the status is that of the
\* completions taken, and the wr_id is looked up at the last request's entry.
LEMMA ReclaimRing ==
  ASSUME TypeOK, BoundsInv, CqInv, WordsInv, EntriesInv,
         NEW n \in 0 .. Len(sendCq), Reclaim(n)
  PROVE  /\ WordsInv' /\ EntriesInv'
         /\ consumer' \in 0 .. (WordMod - 1) /\ tailWord' \in 0 .. (WordMod - 1)
         /\ cqRing' = cqRing /\ produced' = produced
         /\ CqeFailed(n) <=> SendFailed(n)
         /\ n = 0 => decoded' = decoded
         /\ n > 0 => decoded' = [wrId |-> wrIds[sendCq[n].wqe % Depth], wqe |-> sendCq[n].wqe]
<1> DEFINE L == Len(sendCq)
           C == Consumed
           d == SubSeq(sendCq, n + 1, L)
<1>0. /\ n \in Nat /\ n <= L /\ L \in Nat /\ L <= Depth /\ sendCq \in Seq(Cqe)
      /\ C \in Nat /\ produced = C + L /\ produced \in Nat
      /\ Depth \in Nat /\ Depth > 0 /\ WordMod \in Nat /\ WordMod > 0
  BY CqFits, WordFacts DEF TypeOK, QpTypeOK, WordsInv, Consumed
<1>1. /\ sendCq' = d /\ tail' = TailAfter(n) /\ produced' = produced /\ cqRing' = cqRing
      /\ consumer' = (consumer + n) % WordMod /\ tailWord' = TailWordAt(n)[n]
  BY DEF Reclaim, ReclaimSend
<1>2. /\ Len(d) = L - n
      /\ \A k \in 1 .. Len(d) : k + n \in 1 .. L /\ d[k] = sendCq[k + n]
  BY <1>0, DropFacts
<1>3. tail' \in Nat
  <2>1. CASE n = 0
    BY <2>1, <1>1 DEF TailAfter, TypeOK, QpTypeOK
  <2>2. CASE n # 0
    <3>1. n \in 1 .. L /\ tail' = sendCq[n].wqe + 1
      BY <2>2, <1>0, <1>1 DEF TailAfter
    <3>2. sendCq[n].wqe \in Nat
      BY <3>1, <1>0, CqeFields
    <3> QED  BY <3>1, <3>2
  <2> QED  BY <2>1, <2>2
<1>4. tailWord' = tail' % WordMod
  BY <1>1, TailWords
<1> HIDE DEF L, d
<1>5. Consumed' = C + n
  <2>1. Consumed' = produced - Len(d)
    BY <1>1 DEF Consumed
  <2> QED  BY <2>1, <1>0, <1>2
<1>6. consumer' = (C + n) % WordMod
  <2>1. consumer = C % WordMod /\ C \in Int /\ n \in Int
    BY <1>0 DEF WordsInv
  <2>2. ((C % WordMod) + n) % WordMod = (C + n) % WordMod
    BY <2>1, <1>0, WordAdd, Zenon
  <2> QED  BY <2>1, <2>2, <1>1, Zenon
<1> HIDE DEF C
<1>7. WordsInv'
  <2>1. Len(sendCq') <= produced'
    BY <1>0, <1>1, <1>2
  <2> QED  BY <2>1, <1>4, <1>5, <1>6 DEF WordsInv
<1>8. consumer' \in 0 .. (WordMod - 1) /\ tailWord' \in 0 .. (WordMod - 1)
  <2>1. C + n \in Int /\ tail' \in Int
    BY <1>0, <1>3
  <2> QED  BY <2>1, <1>0, <1>4, <1>6, DivDef, Zenon
<1>9. \A k \in 1 .. L : Entry(C + k - 1) = Written(C + k - 1, sendCq[k])
  BY DEF EntriesInv, L, C
<1>10. \A q \in produced .. (C + Depth - 1) : Entry(q).owner = (q \div Depth) % 2
  BY DEF EntriesInv, C
<1>11. ASSUME NEW k \in 1 .. Len(d)
       PROVE  Entry(C + n + k - 1) = Written(C + n + k - 1, d[k])
  <2>1. k + n \in 1 .. L /\ d[k] = sendCq[k + n] /\ C + (k + n) - 1 = C + n + k - 1
    <3>1. k + n \in 1 .. L /\ d[k] = sendCq[k + n]
      BY <1>2
    <3>2. k \in Int
      BY <1>0, <1>2
    <3> QED  BY <3>1, <3>2, <1>0, SMTT(30)
  <2>2. Entry(C + (k + n) - 1) = Written(C + (k + n) - 1, sendCq[k + n])
    BY <2>1, <1>9
  <2> QED  BY <2>1, <2>2
<1>12. ASSUME NEW q \in produced .. (C + n + Depth - 1)
       PROVE  Entry(q).owner = (q \div Depth) % 2
  <2>1. CASE q \in produced .. (C + Depth - 1)
    BY <2>1, <1>10
  <2>2. CASE q \notin produced .. (C + Depth - 1)
    <3>1. PICK z \in Int : z = q - Depth
      BY <1>0
    <3>2. q = z + Depth /\ z - C + 1 \in 1 .. L /\ C + (z - C + 1) - 1 = z
      BY <3>1, <2>2, <1>0
    <3>3. Entry(z) = Written(z, sendCq[z - C + 1])
      BY <3>2, <1>9
    <3>4. Entry(z).owner = 1 - ((z \div Depth) % 2)
      BY <3>3 DEF Written
    <3>5. (z + Depth) % Depth = z % Depth /\ ((z + Depth) \div Depth) % 2 = 1 - ((z \div Depth) % 2)
      BY <1>0, NextLap
    <3>6. Entry(q) = Entry(z)
      BY <3>2, <3>5 DEF Entry
    <3> QED  BY <3>2, <3>4, <3>5, <3>6, Zenon
  <2> QED  BY <2>1, <2>2
<1>13. EntriesInv'
  <2>1. \A k \in 1 .. Len(sendCq') :
          cqRing'[(Consumed' + k - 1) % Depth] = Written(Consumed' + k - 1, sendCq'[k])
    BY <1>1, <1>5, <1>11 DEF Entry
  <2>2. \A q \in produced' .. (Consumed' + Depth - 1) :
          cqRing'[q % Depth].owner = (q \div Depth) % 2
    BY <1>1, <1>5, <1>12 DEF Entry
  <2> QED  BY <2>1, <2>2 DEF EntriesInv, Entry, Written
<1>14. CqeFailed(n) <=> SendFailed(n)
  <2>1. \A k \in 0 .. (L - 1) : CqeAt(k).ok = sendCq[k + 1].ok
    BY ScanSees DEF L
  <2>2. ASSUME NEW k \in 0 .. n - 1 PROVE k + 1 \in 1 .. n /\ k \in 0 .. (L - 1)
    BY <1>0
  <2>3. ASSUME NEW k \in 1 .. n PROVE k - 1 \in 0 .. n - 1 /\ k - 1 \in 0 .. (L - 1) /\ (k - 1) + 1 = k
    BY <1>0
  <2> QED  BY <2>1, <2>2, <2>3, ZenonT(40) DEF CqeFailed, SendFailed
<1>15. n = 0 => decoded' = decoded
  BY DEF Reclaim
<1>16. ASSUME n > 0
       PROVE  decoded' = [wrId |-> wrIds[sendCq[n].wqe % Depth], wqe |-> sendCq[n].wqe]
  <2>1. n \in 1 .. L
    BY <1>0, <1>16
  <2>2. PICK x \in Nat : x = sendCq[n].wqe
    BY <2>1, <1>0, CqeFields
  <2>3. n # 0
    BY <1>16
  <2>4. decoded' = [wrId |-> wrIds[SendTailForCqe(TailWordAt(n)[n - 1], n - 1) % Depth],
                    wqe |-> sendCq[n].wqe]
    BY <2>3 DEF Reclaim
  <2>5. SendTailForCqe(TailWordAt(n)[n - 1], n - 1) = x % WordMod
    BY <2>2, <1>16, TailWords
  <2>6. (x % WordMod) % Depth = x % Depth
    <3>1. x \in Int /\ 0 \in Int /\ x + 0 = x
      OBVIOUS
    <3>2. ((x % WordMod) + 0) % Depth = (x + 0) % Depth
      BY <3>1, RingOfWord, Zenon
    <3>3. x % WordMod \in 0 .. (WordMod - 1)
      BY <3>1, <1>0, DivDef, Zenon
    <3>4. (x % WordMod) + 0 = x % WordMod
      BY <3>3, <1>0
    <3> QED  BY <3>1, <3>2, <3>4, Zenon
  <2> QED  BY <2>2, <2>4, <2>5, <2>6, Zenon
<1> QED  BY <1>1, <1>7, <1>8, <1>13, <1>14, <1>15, <1>16

\* The adapter writes its completion over the oldest entry of the ring, which is
\* never one the scan has still to read.
LEMMA NicRing ==
  ASSUME TypeOK, BoundsInv, CqInv, FailInv, WordsInv, EntriesInv,
         NicExecute \/ NicFail, NicWriteCqe, UNCHANGED <<tail, consumer, tailWord>>
  PROVE  /\ WordsInv' /\ EntriesInv'
         /\ cqRing' \in [0 .. Depth - 1 -> HnsCqe] /\ produced' \in Nat
<1> DEFINE L == Len(sendCq)
           C == Consumed
           new == [owner |-> 1 - ((produced \div Depth) % 2),
                   ok |-> failedAt' = None,
                   index |-> executed % IndexMod]
<1>0. /\ L \in Nat /\ C \in Nat /\ produced = C + L /\ produced \in Nat /\ executed \in Nat
      /\ Depth \in Nat /\ Depth > 0 /\ IndexMod \in Nat /\ IndexMod > 0
      /\ cqRing \in [0 .. Depth - 1 -> HnsCqe]
      /\ consumer = C % WordMod /\ tailWord = tail % WordMod
  BY CqFits, WordFacts DEF TypeOK, QpTypeOK, WordsInv, Consumed
<1>1. /\ executed < head
      /\ \/ sendCq' = sendCq
         \/ /\ Len(sendCq') = L + 1
            /\ \A k \in 1 .. L : sendCq'[k] = sendCq[k]
            /\ sendCq'[L + 1].wqe = executed
            /\ sendCq'[L + 1].ok \in BOOLEAN
            /\ sendCq'[L + 1].ok <=> failedAt' = None
  <2>1. QpTypeOK /\ CqInv /\ FailInv /\ tail <= executed /\ tail' = tail
    BY DEF TypeOK, BoundsInv
  <2> QED  BY <2>1, NicCq
<1>2. L < Depth
  BY <1>1, CqFits
<1>3. CASE sendCq' = sendCq
  <2>1. cqRing' = cqRing /\ produced' = produced
    BY <1>3 DEF NicWriteCqe
  <2>2. Consumed' = Consumed
    BY <2>1, <1>3 DEF Consumed
  <2> QED  BY <2>1, <2>2, <1>0, <1>3 DEF WordsInv, EntriesInv, Entry, Written
<1>4. CASE /\ Len(sendCq') = L + 1
           /\ \A k \in 1 .. L : sendCq'[k] = sendCq[k]
           /\ sendCq'[L + 1].wqe = executed
           /\ sendCq'[L + 1].ok \in BOOLEAN
           /\ sendCq'[L + 1].ok <=> failedAt' = None
  <2>1. sendCq' # sendCq
    BY <1>0, <1>4
  <2>2. cqRing' = [cqRing EXCEPT ![produced % Depth] = new] /\ produced' = produced + 1
    BY <2>1, Zenon DEF NicWriteCqe
  <2>3. sendCq'[L + 1].ok = (failedAt' = None)
    BY <1>4, Zenon
  <2>4. new = Written(produced, sendCq'[L + 1])
    BY <2>3, <1>4, Zenon DEF Written
  <2>5. new \in HnsCqe
    <3>1. (produced \div Depth) % 2 \in {0, 1} /\ executed % IndexMod \in 0 .. (IndexMod - 1)
      <4>1. produced \in Int /\ executed \in Int
        BY <1>0
      <4> QED  BY <4>1, <1>0, NextLap, DivDef
    <3>2. PICK b \in {0, 1} : b = (produced \div Depth) % 2
      BY <3>1
    <3>3. 1 - b \in 0 .. 1
      BY <3>2
    <3>4. 1 - ((produced \div Depth) % 2) \in 0 .. 1
      BY <3>2, <3>3, Zenon
    <3>5. (failedAt' = None) \in BOOLEAN
      BY <2>3, <1>4, Zenon
    <3> QED  BY <3>1, <3>4, <3>5, Zenon DEF HnsCqe
  <2> HIDE DEF new, L, C
  <2>6. produced % Depth \in 0 .. (Depth - 1)
    <3>1. produced \in Int
      BY <1>0
    <3> QED  BY <3>1, <1>0, DivDef, Zenon
  <2>7. cqRing' \in [0 .. Depth - 1 -> HnsCqe]
    BY <2>2, <2>5, <1>0
  <2>8. cqRing'[produced % Depth] = new
    BY <2>2, <2>6, <1>0
  <2>9. ASSUME NEW q \in Int, q # produced, q - produced < Depth, produced - q < Depth
        PROVE  cqRing'[q % Depth] = Entry(q)
    <3>1. q % Depth # produced % Depth /\ q % Depth \in 0 .. (Depth - 1)
      <4>1. q < produced \/ produced < q
        BY <2>9, <1>0
      <4>2. produced \in Int
        BY <1>0
      <4> QED  BY <4>1, <4>2, <2>9, <1>0, ModDistinct, DivDef
    <3> QED  BY <3>1, <2>2, <1>0 DEF Entry
  <2>10. Consumed' = C
    <3>1. Consumed' = (produced + 1) - (L + 1)
      BY <2>2, <1>4 DEF Consumed
    <3> QED  BY <3>1, <1>0
  <2>11. WordsInv'
    <3>1. Len(sendCq') <= produced'
      BY <2>2, <1>0, <1>4
    <3> QED  BY <3>1, <2>10, <1>0 DEF WordsInv
  <2>12. ASSUME NEW k \in 1 .. (L + 1)
         PROVE  cqRing'[(C + k - 1) % Depth] = Written(C + k - 1, sendCq'[k])
    <3>1. CASE k = L + 1
      <4>1. C + k - 1 = produced
        BY <3>1, <1>0
      <4> QED  BY <4>1, <3>1, <2>4, <2>8, Zenon
    <3>2. CASE k \in 1 .. L
      <4>1. /\ C + k - 1 \in Int /\ C + k - 1 # produced
            /\ (C + k - 1) - produced < Depth /\ produced - (C + k - 1) < Depth
        BY <3>2, <1>0, <1>2
      <4>2. cqRing'[(C + k - 1) % Depth] = Entry(C + k - 1)
        BY <4>1, <2>9, Zenon
      <4>3. Entry(C + k - 1) = Written(C + k - 1, sendCq[k])
        BY <3>2 DEF EntriesInv, L, C
      <4>4. sendCq'[k] = sendCq[k]
        BY <3>2, <1>4
      <4> QED  BY <4>2, <4>3, <4>4, Zenon
    <3> QED  BY <3>1, <3>2, <1>0
  <2>13. ASSUME NEW q \in (produced + 1) .. (C + Depth - 1)
         PROVE  cqRing'[q % Depth].owner = (q \div Depth) % 2
    <3>1. /\ q \in Int /\ q # produced /\ q - produced < Depth /\ produced - q < Depth
          /\ q \in produced .. (C + Depth - 1)
      BY <1>0
    <3>2. cqRing'[q % Depth] = Entry(q)
      BY <3>1, <2>9, Zenon
    <3>3. Entry(q).owner = (q \div Depth) % 2
      BY <3>1 DEF EntriesInv, C
    <3> QED  BY <3>2, <3>3, Zenon
  <2>14. EntriesInv'
    <3>1. \A k \in 1 .. Len(sendCq') :
            cqRing'[(Consumed' + k - 1) % Depth] = Written(Consumed' + k - 1, sendCq'[k])
      BY <2>10, <2>12, <1>4
    <3>2. \A q \in produced' .. (Consumed' + Depth - 1) :
            cqRing'[q % Depth].owner = (q \div Depth) % 2
      BY <2>2, <2>10, <2>13
    <3> QED  BY <3>1, <3>2 DEF EntriesInv, Entry, Written
  <2> QED  BY <2>2, <2>7, <2>11, <2>14, <1>0
<1> QED  BY <1>1, <1>3, <1>4

-----------------------------------------------------------------------------
(* The invariant, action by action. *)

\* A step that leaves the send side alone and neither starts nor ends a wait.
LEMMA SameSend ==
  ASSUME IInv, TypeOK',
         UNCHANGED <<sendVars, nicVars, ringVars, target, wrIds, decoded>>,
         pc' = "wait" <=> pc = "wait", pc' = "post" => pc = "post",
         pc' = "recv" => recvCredits' >= 1,
         pc' = "idle" /\ status' = "WAITED" => pc = "idle" /\ status = "WAITED"
  PROVE  IInv'
<1> USE DEF sendVars, nicVars, ringVars
<1>1. BoundsInv' /\ CqInv' /\ FailInv' /\ WordsInv' /\ WrIdsIntact' /\ DecodedIsOwn'
  BY DEF IInv, BoundsInv, CqInv, FailInv, WordsInv, Consumed, WrIdsIntact, DecodedIsOwn
<1>2. EntriesInv'
  BY DEF IInv, EntriesInv, Entry, Written, Consumed
<1>3. Clean' <=> Clean
  BY DEF Clean
<1>4. SchedInv'
  BY <1>3 DEF IInv, SchedInv
<1>5. CallInv' /\ WaitedIsExecuted'
  BY DEF IInv, CallInv, WaitedIsExecuted
<1> QED  BY <1>1, <1>2, <1>4, <1>5 DEF IInv

\* A reclaim in any call.  While nothing has failed it finds at most the one
\* completion that is waited for; outside a wait it finds none.
LEMMA ReclaimStep ==
  ASSUME IInv, NEW n \in 0 .. Len(sendCq), Reclaim(n),
         UNCHANGED <<unsignaled, head, executed, signals, failedAt, wrIds>>
  PROVE  /\ sendCredits' \in Nat /\ tail' \in Nat /\ sendCq' \in Seq(Cqe)
         /\ decoded' \in [wrId : Nat, wqe : Nat]
         /\ cqRing' = cqRing /\ produced' = produced
         /\ consumer' \in 0 .. (WordMod - 1) /\ tailWord' \in 0 .. (WordMod - 1)
         /\ BoundsInv' /\ CqInv' /\ FailInv' /\ WordsInv' /\ EntriesInv'
         /\ WrIdsIntact' /\ DecodedIsOwn'
         /\ ReclaimStatus(n) = IF SendFailed(n) THEN "PROVIDER_FAILED" ELSE "SUCCESS"
         /\ n > 0 /\ ~SendFailed(n) => Clean'
         /\ Clean' =>
              /\ Clean /\ ~SendFailed(n)
              /\ \/ /\ n = 0 /\ tail' = tail /\ sendCredits' = sendCredits
                    /\ sendCq' = sendCq
                 \/ /\ n = 1 /\ pc = "wait" /\ tail' = head /\ sendCq[1].wqe = head - 1
                    /\ sendCredits' = sendCredits + Interval
                    /\ \A k \in 1 .. Len(sendCq') : ~sendCq'[k].ok
<1>0. /\ TypeOK /\ QpTypeOK /\ BoundsInv /\ CqInv /\ FailInv /\ WordsInv /\ EntriesInv
      /\ SchedInv /\ WrIdsIntact /\ DecodedIsOwn /\ tail <= executed
      /\ executed' = executed /\ failedAt' = failedAt /\ head' = head
      /\ wrIds' = wrIds /\ signals' = signals /\ unsignaled' = unsignaled
      /\ ReclaimSend(n)
  BY DEF IInv, TypeOK, BoundsInv, Reclaim
<1>a. /\ n \in Nat /\ Len(sendCq) \in Nat /\ sendCq \in Seq(Cqe)
      /\ tail \in Nat /\ head \in Nat /\ executed \in Nat /\ sendCredits \in Nat
      /\ failedAt \in Nat \cup {None} /\ Depth \in Nat /\ Depth > 0
      /\ wrIds \in [0 .. Depth - 1 -> Nat] /\ decoded \in [wrId : Nat, wqe : Nat]
  BY <1>0, WordFacts DEF TypeOK, QpTypeOK
<1>1. /\ sendCredits' \in Nat /\ tail' \in Nat /\ sendCq' \in Seq(Cqe)
      /\ CqInv' /\ FailInv' /\ tail <= tail' /\ tail' <= executed
      /\ n > 0 => tail' = sendCq[n].wqe + 1
      /\ SendFailed(n) => ~Clean'
      /\ Clean' => Clean
  BY <1>0, ReclaimCq
<1>2. /\ WordsInv' /\ EntriesInv'
      /\ consumer' \in 0 .. (WordMod - 1) /\ tailWord' \in 0 .. (WordMod - 1)
      /\ cqRing' = cqRing /\ produced' = produced
      /\ CqeFailed(n) <=> SendFailed(n)
      /\ n = 0 => decoded' = decoded
      /\ n > 0 => decoded' = [wrId |-> wrIds[sendCq[n].wqe % Depth], wqe |-> sendCq[n].wqe]
  BY <1>0, ReclaimRing
<1>3. BoundsInv'
  BY <1>0, <1>1, <1>a, SMTT(30) DEF BoundsInv
<1>4. WrIdsIntact'
  <2>1. \A p \in tail' .. head - 1 : p \in tail .. head - 1
    BY <1>1, <1>a
  <2> QED  BY <2>1, <1>0 DEF WrIdsIntact
<1>5. ASSUME n > 0
      PROVE  /\ n \in 1 .. Len(sendCq) /\ sendCq[n].wqe \in Nat
             /\ sendCq[n].wqe \in tail .. head - 1
             /\ wrIds[sendCq[n].wqe % Depth] \in Nat
  <2>1. n \in 1 .. Len(sendCq)
    BY <1>5, <1>a
  <2>2. PICK x \in Nat : x = sendCq[n].wqe
    BY <2>1, <1>a, CqeFields
  <2>3. tail <= x /\ x < executed /\ executed <= head
    BY <2>1, <2>2, <1>0 DEF CqInv, BoundsInv
  <2>4. x % Depth \in 0 .. (Depth - 1)
    <3>1. x \in Int
      OBVIOUS
    <3> QED  BY <3>1, <1>a, DivDef, Zenon
  <2>5. wrIds[x % Depth] \in Nat
    BY <2>4, <1>a
  <2>6. x \in tail .. head - 1
    BY <2>3, <1>a
  <2> QED  BY <2>1, <2>2, <2>5, <2>6, Zenon
<1>6. decoded' \in [wrId : Nat, wqe : Nat] /\ DecodedIsOwn'
  <2>1. CASE n = 0
    BY <2>1, <1>0, <1>2, <1>a DEF DecodedIsOwn
  <2>2. CASE n > 0
    <3>1. decoded' = [wrId |-> wrIds[sendCq[n].wqe % Depth], wqe |-> sendCq[n].wqe]
      BY <2>2, <1>2
    <3>2. failedAt = None => wrIds[sendCq[n].wqe % Depth] = sendCq[n].wqe
      BY <2>2, <1>0, <1>5 DEF WrIdsIntact
    <3> QED  BY <3>1, <3>2, <2>2, <1>0, <1>5 DEF DecodedIsOwn
  <2> QED  BY <2>1, <2>2, <1>a
<1>7. ReclaimStatus(n) = IF SendFailed(n) THEN "PROVIDER_FAILED" ELSE "SUCCESS"
  BY <1>2 DEF ReclaimStatus
<1>8. ASSUME n > 0, ~SendFailed(n) PROVE Clean'
  <2>1. n \in 1 .. n /\ n \in 1 .. Len(sendCq)
    BY <1>8, <1>a
  <2>2. sendCq[n].ok
    BY <2>1, <1>8 DEF SendFailed
  <2>3. failedAt = None \/ sendCq[n].wqe < failedAt
    BY <2>1, <2>2, <1>0 DEF FailInv
  <2>4. sendCq[n].wqe \in Nat /\ tail' = sendCq[n].wqe + 1
    BY <1>1, <1>5, <1>8
  <2> QED  BY <2>3, <2>4, <1>0, <1>a DEF Clean, None
<1>9. ASSUME Clean'
      PROVE  /\ Clean /\ ~SendFailed(n)
             /\ \/ /\ n = 0 /\ tail' = tail /\ sendCredits' = sendCredits
                   /\ sendCq' = sendCq
                \/ /\ n = 1 /\ pc = "wait" /\ tail' = head /\ sendCq[1].wqe = head - 1
                   /\ sendCredits' = sendCredits + Interval
                   /\ \A k \in 1 .. Len(sendCq') : ~sendCq'[k].ok
  <2>1. Clean /\ ~SendFailed(n)
    BY <1>1, <1>9
  <2>2. \A k \in 1 .. Len(sendCq) :
          sendCq[k].ok => pc = "wait" /\ k = 1 /\ sendCq[k].wqe = head - 1
    BY <2>1, <1>0 DEF SchedInv
  <2>3. CASE n = 0
    <3>1. tail' = tail /\ sendCredits' = sendCredits + Span(0) /\ Span(0) = 0
      BY <2>3, <1>0, SpanFacts DEF ReclaimSend, TailAfter
    <3>2. sendCq' = SubSeq(sendCq, 1, Len(sendCq))
      BY <2>3, <1>0 DEF ReclaimSend
    <3>3. sendCq' = sendCq
      BY <3>2, <1>a
    <3> QED  BY <3>1, <3>3, <2>1, <2>3, <1>a
  <2>4. CASE n > 0
    <3>1. n \in 1 .. n /\ n \in 1 .. Len(sendCq)
      BY <2>4, <1>a
    <3>2. sendCq[n].ok
      BY <3>1, <2>1 DEF SendFailed
    <3>3. pc = "wait" /\ n = 1 /\ sendCq[1].wqe = head - 1
      BY <3>1, <3>2, <2>2
    <3>4. tail' = head
      BY <3>3, <2>4, <1>1, <1>a
    <3>5. sendCredits' = sendCredits + Interval
      BY <3>3, <1>0, SpanFacts DEF ReclaimSend
    <3>6. ASSUME NEW k \in 1 .. Len(sendCq') PROVE ~sendCq'[k].ok
      <4>1. sendCq' = SubSeq(sendCq, n + 1, Len(sendCq))
        BY <1>0 DEF ReclaimSend
      <4>2. k + n \in 1 .. Len(sendCq) /\ sendCq'[k] = sendCq[k + n]
        BY <4>1, <1>a, DropFacts
      <4>3. k + n # 1
        <5>1. k \in Int /\ k >= 1
          BY <1>1
        <5> QED  BY <5>1, <3>3
      <4> QED  BY <4>2, <4>3, <2>2
    <3> QED  BY <3>3, <3>4, <3>5, <3>6, <2>1
  <2> QED  BY <2>3, <2>4, <1>a
<1> QED  BY <1>1, <1>2, <1>3, <1>4, <1>6, <1>7, <1>8, <1>9

\* post_send starts: a reclaim if no credit is left, then the checks.
LEMMA PostSendIInv ==
  ASSUME IInv, PostSend PROVE IInv'
<1>1. PICK n \in 0 .. Len(sendCq) :
        /\ Reclaim(n)
        /\ IF ReclaimStatus(n) # "SUCCESS" THEN Return(ReclaimStatus(n))
           ELSE IF sendCredits' = 0 THEN Return("QUEUE_FULL")
           ELSE pc' = "post" /\ status' = "none"
  <2>1. RingReady \in 0 .. Len(sendCq)
    BY ScanStops DEF IInv
  <2>2. 0 \in 0 .. Len(sendCq)
    BY DEF IInv, TypeOK, QpTypeOK
  <2> QED  BY <2>1, <2>2 DEF PostSend
<1>2. /\ pc = "idle" /\ unsignaled' = unsignaled /\ head' = head /\ executed' = executed
      /\ signals' = signals /\ failedAt' = failedAt /\ wrIds' = wrIds /\ target' = target
      /\ recvCredits' = recvCredits /\ rqHead' = rqHead /\ rqTail' = rqTail /\ recvCq' = recvCq
  BY DEF PostSend, recvVars
<1>3. /\ sendCredits' \in Nat /\ tail' \in Nat /\ sendCq' \in Seq(Cqe)
      /\ decoded' \in [wrId : Nat, wqe : Nat]
      /\ cqRing' = cqRing /\ produced' = produced
      /\ consumer' \in 0 .. (WordMod - 1) /\ tailWord' \in 0 .. (WordMod - 1)
      /\ BoundsInv' /\ CqInv' /\ FailInv' /\ WordsInv' /\ EntriesInv'
      /\ WrIdsIntact' /\ DecodedIsOwn'
      /\ ReclaimStatus(n) = IF SendFailed(n) THEN "PROVIDER_FAILED" ELSE "SUCCESS"
      /\ Clean' => Clean /\ tail' = tail /\ sendCredits' = sendCredits /\ sendCq' = sendCq
  BY <1>1, <1>2, ReclaimStep
<1>4. /\ pc' \in {"idle", "post"} /\ status' \in Statuses \ {"WAITED"}
      /\ pc' = "post" => sendCredits' # 0
  BY <1>1, <1>3 DEF Return, Statuses
<1>5. TypeOK'
  BY <1>2, <1>3, <1>4 DEF IInv, TypeOK, QpTypeOK
<1>6. SchedInv'
  BY <1>2, <1>3, <1>4 DEF IInv, SchedInv
<1>7. CallInv' /\ WaitedIsExecuted'
  BY <1>3, <1>4 DEF CallInv, WaitedIsExecuted
<1> QED  BY <1>3, <1>5, <1>6, <1>7 DEF IInv

\* The wr_id of a refused request overwrites the one of no request in the ring,
\* as the ring has a free entry whenever there is a credit.
LEMMA StoreKeeps ==
  ASSUME IInv, StoreWrId, failedAt = None, pc = "post"
  PROVE  \A p \in tail .. head - 1 : wrIds'[p % Depth] = p
<1>0. /\ tail \in Nat /\ head \in Nat /\ sendCredits \in Nat /\ Depth \in Nat /\ Depth > 0
      /\ wrIds \in [0 .. Depth - 1 -> Nat] /\ sendCredits >= 1
  BY WordFacts DEF IInv, TypeOK, QpTypeOK, CallInv
<1>1. head - tail < Depth
  <2>1. sendCredits + (head - tail) = Depth
    BY DEF IInv, SchedInv, Clean
  <2> QED  BY <2>1, <1>0
<1>2. TAKE p \in tail .. head - 1
<1>3. p \in Int /\ head \in Int /\ p < head /\ head - p < Depth
  BY <1>0, <1>1
<1>4. p % Depth # head % Depth /\ p % Depth \in 0 .. (Depth - 1)
  BY <1>0, <1>3, ModDistinct, DivDef
<1>5. wrIds[p % Depth] = p
  BY DEF IInv, WrIdsIntact
<1> QED  BY <1>0, <1>4, <1>5 DEF StoreWrId

\* The array of wr_ids stays one after a store.
LEMMA StoreType ==
  ASSUME IInv, StoreWrId
  PROVE  wrIds' \in [0 .. Depth - 1 -> Nat] /\ wrIds'[head % Depth] = head
<1>0. /\ head \in Nat /\ Depth \in Nat /\ Depth > 0 /\ wrIds \in [0 .. Depth - 1 -> Nat]
  BY WordFacts DEF IInv, TypeOK, QpTypeOK
<1>1. head % Depth \in 0 .. (Depth - 1)
  <2>1. head \in Int
    BY <1>0
  <2> QED  BY <2>1, <1>0, DivDef, Zenon
<1> QED  BY <1>0, <1>1 DEF StoreWrId

\* The provider refuses the request after its wr_id was stored.
LEMMA ProviderPostFailsIInv ==
  ASSUME IInv, ProviderPostFails PROVE IInv'
<1> USE DEF sendVars, nicVars, recvVars, ringVars
<1>1. /\ pc = "post" /\ pc' = "idle" /\ status' = "PROVIDER_FAILED" /\ StoreWrId
      /\ UNCHANGED <<sendVars, nicVars, recvVars, target, decoded, ringVars>>
  BY DEF ProviderPostFails, Return
<1>2. TypeOK'
  BY <1>1, StoreType DEF IInv, TypeOK, QpTypeOK, Statuses
<1>3. BoundsInv' /\ CqInv' /\ FailInv' /\ WordsInv' /\ DecodedIsOwn'
  BY <1>1 DEF IInv, BoundsInv, CqInv, FailInv, WordsInv, Consumed, DecodedIsOwn
<1>4. EntriesInv'
  BY <1>1 DEF IInv, EntriesInv, Entry, Written, Consumed
<1>5. Clean' <=> Clean
  BY <1>1 DEF Clean
<1>6. SchedInv' /\ CallInv' /\ WaitedIsExecuted'
  BY <1>1, <1>5 DEF IInv, SchedInv, CallInv, WaitedIsExecuted
<1>7. WrIdsIntact'
  BY <1>1, StoreKeeps DEF WrIdsIntact
<1> QED  BY <1>2, <1>3, <1>4, <1>6, <1>7 DEF IInv

\* The provider takes the request; a signaled one is waited for.
LEMMA ProviderPostIInv ==
  ASSUME IInv, ProviderPost PROVE IInv'
<1>0. /\ tail \in Nat /\ head \in Nat /\ executed \in Nat /\ sendCredits \in Nat
      /\ unsignaled \in Nat /\ Interval \in Nat /\ Interval >= 1 /\ Depth \in Nat
      /\ signals \subseteq Nat /\ unsignaled < Interval /\ sendCredits >= 1
      /\ tail <= executed /\ executed <= head
  BY QpAssumption DEF IInv, TypeOK, QpTypeOK, BoundsInv, CallInv, ProviderPost
<1>1. /\ pc = "post" /\ head - tail < Depth /\ StoreWrId /\ head' = head + 1
      /\ signals' = IF ShouldSignal THEN signals \cup {head} ELSE signals
      /\ sendCredits' = sendCredits - 1
      /\ unsignaled' = IF ShouldSignal THEN 0 ELSE unsignaled + 1
      /\ target' = sendCredits' + Interval
      /\ IF ShouldSignal THEN pc' = "wait" /\ status' = status
         ELSE pc' = "idle" /\ status' = "SUCCESS"
      /\ tail' = tail /\ executed' = executed /\ sendCq' = sendCq /\ failedAt' = failedAt
      /\ recvCredits' = recvCredits /\ rqHead' = rqHead /\ rqTail' = rqTail /\ recvCq' = recvCq
      /\ decoded' = decoded /\ cqRing' = cqRing /\ produced' = produced
      /\ consumer' = consumer /\ tailWord' = tailWord
  BY DEF ProviderPost, WaitTarget, Return, recvVars, ringVars
<1>2. CqInv' /\ FailInv' /\ WordsInv' /\ DecodedIsOwn'
  BY <1>1 DEF IInv, CqInv, FailInv, WordsInv, Consumed, DecodedIsOwn
<1>3. EntriesInv'
  BY <1>1 DEF IInv, EntriesInv, Entry, Written, Consumed
<1>4. WrIdsIntact'
  <2> SUFFICES ASSUME failedAt = None, NEW p \in tail .. (head + 1) - 1
               PROVE  wrIds'[p % Depth] = p
    BY <1>1 DEF WrIdsIntact
  <2>1. p = head \/ p \in tail .. head - 1
    BY <1>0
  <2>2. wrIds'[head % Depth] = head
    BY <1>1, StoreType
  <2>3. \A q \in tail .. head - 1 : wrIds'[q % Depth] = q
    BY <1>1, StoreKeeps
  <2> QED  BY <2>1, <2>2, <2>3
<1>5. CASE ShouldSignal
  <2>1. /\ unsignaled + 1 = Interval /\ signals' = signals \cup {head} /\ unsignaled' = 0
        /\ pc' = "wait" /\ status' = status /\ sendCredits' \in Nat /\ target' \in Nat
        /\ head' \in Nat /\ signals' \subseteq Nat
    BY <1>0, <1>1, <1>5 DEF ShouldSignal
  <2>2. TypeOK'
    BY <1>1, <2>1, StoreType, SMTT(30) DEF IInv, TypeOK, QpTypeOK
  <2>3. BoundsInv'
    BY <1>0, <1>1, <2>1 DEF IInv, BoundsInv
  <2>4. SchedInv'
    <3> SUFFICES ASSUME Clean'
                 PROVE  /\ sendCredits' + (head' - tail') = Depth
                        /\ head' = tail' + Interval
                        /\ \A k \in 1 .. Len(sendCq) : ~sendCq[k].ok
                        /\ failedAt = None => \A p \in signals' : p = head' - 1
      BY <1>1, <2>1 DEF SchedInv
    <3>1. Clean
      BY <1>1 DEF Clean
    <3>2. /\ sendCredits + (head - tail) = Depth /\ head = tail + unsignaled
          /\ \A k \in 1 .. Len(sendCq) : ~sendCq[k].ok
          /\ failedAt = None => \A p \in signals : FALSE
      BY <3>1, <1>1 DEF IInv, SchedInv
    <3>3. sendCredits' + (head' - tail') = Depth /\ head' = tail' + Interval /\ head = head' - 1
      BY <3>2, <2>1, <1>0, <1>1
    <3> QED  BY <3>2, <3>3, <2>1
  <2>5. CallInv' /\ WaitedIsExecuted'
    BY <2>1 DEF CallInv, WaitedIsExecuted
  <2> QED  BY <2>2, <2>3, <2>4, <2>5, <1>2, <1>3, <1>4 DEF IInv
<1>6. CASE ~ShouldSignal
  <2>1. /\ unsignaled' = unsignaled + 1 /\ unsignaled' < Interval /\ signals' = signals
        /\ pc' = "idle" /\ status' = "SUCCESS" /\ sendCredits' \in Nat /\ target' \in Nat
        /\ head' \in Nat /\ unsignaled' \in Nat
    BY <1>0, <1>1, <1>6 DEF ShouldSignal
  <2>2. TypeOK'
    BY <1>1, <2>1, StoreType DEF IInv, TypeOK, QpTypeOK, Statuses
  <2>3. BoundsInv'
    BY <1>0, <1>1, <2>1 DEF IInv, BoundsInv
  <2>4. SchedInv'
    <3> SUFFICES ASSUME Clean'
                 PROVE  /\ sendCredits' + (head' - tail') = Depth
                        /\ head' = tail' + unsignaled'
                        /\ \A k \in 1 .. Len(sendCq) : ~sendCq[k].ok
                        /\ failedAt = None => \A p \in signals : FALSE
      BY <1>1, <2>1 DEF SchedInv
    <3>1. Clean
      BY <1>1 DEF Clean
    <3>2. /\ sendCredits + (head - tail) = Depth /\ head = tail + unsignaled
          /\ \A k \in 1 .. Len(sendCq) : ~sendCq[k].ok
          /\ failedAt = None => \A p \in signals : FALSE
      BY <3>1, <1>1 DEF IInv, SchedInv
    <3>3. sendCredits' + (head' - tail') = Depth /\ head' = tail' + unsignaled'
      BY <3>2, <2>1, <1>0, <1>1
    <3> QED  BY <3>2, <3>3
  <2>5. CallInv' /\ WaitedIsExecuted'
    BY <2>1 DEF CallInv, WaitedIsExecuted
  <2> QED  BY <2>2, <2>3, <2>4, <2>5, <1>2, <1>3, <1>4 DEF IInv
<1> QED  BY <1>5, <1>6

\* A turn of the wait that finds completions ends it: with its own completion, or
\* with a failure.
LEMMA WaitIInv ==
  ASSUME IInv, WaitForSendCompletion PROVE IInv'
<1>1. PICK n \in 0 .. Len(sendCq) :
        /\ n # 0 /\ Reclaim(n)
        /\ IF ReclaimStatus(n) # "SUCCESS" THEN Return(ReclaimStatus(n))
           ELSE IF sendCredits' >= target THEN Return("WAITED")
           ELSE UNCHANGED <<pc, status>>
  <2>1. RingReady \in 0 .. Len(sendCq)
    BY ScanStops DEF IInv
  <2> QED  BY <2>1 DEF WaitForSendCompletion
<1>2. /\ pc = "wait" /\ unsignaled' = unsignaled /\ head' = head /\ executed' = executed
      /\ signals' = signals /\ failedAt' = failedAt /\ wrIds' = wrIds /\ target' = target
      /\ recvCredits' = recvCredits /\ rqHead' = rqHead /\ rqTail' = rqTail /\ recvCq' = recvCq
  BY DEF WaitForSendCompletion, recvVars
<1>3. n > 0
  BY <1>1 DEF IInv, TypeOK, QpTypeOK
<1>4. /\ sendCredits' \in Nat /\ tail' \in Nat /\ sendCq' \in Seq(Cqe)
      /\ decoded' \in [wrId : Nat, wqe : Nat]
      /\ cqRing' = cqRing /\ produced' = produced
      /\ consumer' \in 0 .. (WordMod - 1) /\ tailWord' \in 0 .. (WordMod - 1)
      /\ BoundsInv' /\ CqInv' /\ FailInv' /\ WordsInv' /\ EntriesInv'
      /\ WrIdsIntact' /\ DecodedIsOwn'
      /\ ReclaimStatus(n) = IF SendFailed(n) THEN "PROVIDER_FAILED" ELSE "SUCCESS"
      /\ ~SendFailed(n) => Clean'
      /\ Clean' =>
           /\ Clean /\ ~SendFailed(n)
           /\ tail' = head /\ sendCq[1].wqe = head - 1 /\ n = 1
           /\ sendCredits' = sendCredits + Interval
           /\ \A k \in 1 .. Len(sendCq') : ~sendCq'[k].ok
  BY <1>1, <1>2, <1>3, ReclaimStep
<1>5. /\ Clean' =>
           /\ pc' = "idle" /\ status' = "WAITED" /\ unsignaled = 0
           /\ sendCredits' + (head - tail') = Depth /\ head = tail' + unsignaled
           /\ executed >= head
      /\ ~Clean' => pc' = "idle" /\ status' = "PROVIDER_FAILED"
  <2>1. CASE Clean'
    <3>1. /\ sendCredits + (head - tail) = Depth /\ unsignaled = 0 /\ head = tail + Interval
          /\ target = sendCredits + Interval
      BY <2>1, <1>2, <1>4 DEF IInv, SchedInv
    <3>2. /\ sendCredits \in Nat /\ head \in Nat /\ tail \in Nat /\ Interval \in Nat
          /\ Depth \in Nat /\ executed \in Nat
      BY QpAssumption DEF IInv, TypeOK, QpTypeOK
    <3>3. sendCredits' >= target
      BY <3>1, <3>2, <2>1, <1>4
    <3>4. pc' = "idle" /\ status' = "WAITED"
      BY <3>3, <2>1, <1>1, <1>4 DEF Return
    <3>5. 1 \in 1 .. Len(sendCq)
      BY <1>3, <1>1 DEF IInv, TypeOK, QpTypeOK
    <3>6. head - 1 < executed
      BY <3>5, <2>1, <1>4 DEF IInv, CqInv
    <3>7. sendCredits' + (head - tail') = Depth /\ head = tail' + unsignaled /\ executed >= head
      BY <3>1, <3>2, <3>6, <2>1, <1>4
    <3> QED  BY <3>1, <3>4, <3>7, <2>1
  <2>2. CASE ~Clean'
    BY <2>2, <1>1, <1>4 DEF Return
  <2> QED  BY <2>1, <2>2
<1>6. TypeOK'
  BY <1>2, <1>4, <1>5 DEF IInv, TypeOK, QpTypeOK, Statuses
<1>7. SchedInv'
  <2> SUFFICES ASSUME Clean', failedAt = None, NEW p \in signals PROVE FALSE
    BY <1>2, <1>4, <1>5 DEF SchedInv
  <2>1. executed <= p /\ p < head /\ p \in Nat /\ executed \in Nat /\ head \in Nat
    BY DEF IInv, BoundsInv, TypeOK, QpTypeOK
  <2> QED  BY <2>1, <1>5
<1>8. CallInv' /\ WaitedIsExecuted'
  <2>1. CallInv'
    BY <1>5 DEF CallInv
  <2>2. ASSUME status' = "WAITED"
        PROVE  executed' >= head' - unsignaled' /\ (failedAt' # None => failedAt' >= head' - unsignaled')
    <3>1. Clean'
      BY <2>2, <1>5
    <3>2. unsignaled = 0 /\ executed >= head /\ tail' = head /\ head \in Nat
      BY <3>1, <1>4, <1>5 DEF IInv, TypeOK, QpTypeOK
    <3>3. head - unsignaled = head
      BY <3>2
    <3> QED  BY <3>1, <3>2, <3>3, <1>2 DEF Clean
  <2> QED  BY <2>1, <2>2 DEF WaitedIsExecuted
<1> QED  BY <1>4, <1>6, <1>7, <1>8 DEF IInv

\* Receives leave the send side alone.
LEMMA RecvIInv ==
  ASSUME IInv, RdmaRecv \/ PostRecv PROVE IInv'
<1> USE DEF sendVars, nicVars, ringVars
<1>0. /\ TypeOK /\ QpTypeOK /\ recvCq \in Seq(BOOLEAN)
      /\ rqHead \in Nat /\ rqTail \in Nat /\ recvCredits \in Nat
  BY DEF IInv, TypeOK, QpTypeOK
<1>1. CASE RdmaRecv
  <2>1. PICK n \in 0 .. Len(recvCq) :
          /\ ReclaimRecv(n)
          /\ IF RecvFailed(n) THEN Return("PROVIDER_FAILED")
             ELSE IF recvCredits' = 0 THEN Return("QUEUE_FULL")
             ELSE pc' = "recv" /\ status' = "none"
    <3>1. RecvReady \in 0 .. Len(recvCq) /\ 0 \in 0 .. Len(recvCq)
      BY <1>0, ReadyFacts
    <3> QED  BY <3>1, <1>1 DEF RdmaRecv
  <2>2. /\ pc = "idle" /\ UNCHANGED <<sendVars, nicVars, rqHead, target, wrIds, decoded, ringVars>>
    BY <1>1 DEF RdmaRecv
  <2>3. recvCredits' \in Nat /\ rqTail' \in Nat /\ recvCq' \in Seq(BOOLEAN)
    <3>1. SubSeq(recvCq, n + 1, Len(recvCq)) \in Seq(BOOLEAN)
      BY <1>0, DropFacts
    <3> QED  BY <3>1, <2>1, <1>0 DEF ReclaimRecv
  <2>4. /\ pc' \in {"idle", "recv"} /\ status' \in Statuses \ {"WAITED"}
        /\ pc' = "recv" => recvCredits' >= 1
    BY <2>1, <2>3 DEF Return, Statuses
  <2>5. TypeOK'
    BY <2>2, <2>3, <2>4, <1>0 DEF TypeOK, QpTypeOK
  <2> QED  BY <2>2, <2>4, <2>5, SameSend
<1>2. CASE PostRecv
  <2>1. /\ pc = "recv" /\ pc' = "idle" /\ status' \in Statuses \ {"WAITED"}
        /\ UNCHANGED <<sendVars, nicVars, rqTail, recvCq, target, wrIds, decoded, ringVars>>
        /\ \/ rqHead' = rqHead /\ recvCredits' = recvCredits
           \/ rqHead' = rqHead + 1 /\ recvCredits' = recvCredits - 1
    BY <1>2 DEF PostRecv, Return, Statuses
  <2>2. recvCredits >= 1
    BY <2>1 DEF IInv, CallInv
  <2>3. TypeOK'
    BY <2>1, <2>2, <1>0 DEF TypeOK, QpTypeOK
  <2> QED  BY <2>1, <2>3, SameSend
<1> QED  BY <1>1, <1>2

\* The request is turned away before the ring is touched.
LEMMA ProviderPostInvalidIInv ==
  ASSUME IInv, ProviderPostInvalid PROVE IInv'
<1> USE DEF sendVars, nicVars, recvVars, ringVars
<1>1. /\ pc = "post" /\ pc' = "idle" /\ status' = "INVALID_ARGUMENT"
      /\ UNCHANGED <<sendVars, nicVars, recvVars, target, wrIds, decoded, ringVars>>
  BY DEF ProviderPostInvalid, Return
<1>2. TypeOK'
  BY <1>1 DEF IInv, TypeOK, QpTypeOK, Statuses
<1> QED  BY <1>1, <1>2, SameSend

\* The adapter executes, fails or delivers.
LEMMA NicIInv ==
  ASSUME IInv, Nic PROVE IInv'
<1>0. /\ TypeOK /\ QpTypeOK /\ BoundsInv /\ CqInv /\ FailInv /\ WordsInv /\ EntriesInv
      /\ tail <= executed
  BY DEF IInv, TypeOK, BoundsInv
<1>1. CASE NicDeliver /\ UNCHANGED <<sendVars, nicVars, recvCredits, rqHead, rqTail, aicpuVars, ringVars>>
  <2> USE DEF sendVars, nicVars, ringVars, aicpuVars
  <2>1. recvCq' \in Seq(BOOLEAN)
    <3>1. (failedAt = None) \in BOOLEAN
      BY Zenon
    <3>2. recvCq' = Append(recvCq, failedAt = None)
      BY <1>1, Zenon DEF NicDeliver
    <3>3. recvCq \in Seq(BOOLEAN)
      BY <1>0 DEF QpTypeOK
    <3>4. PICK b \in BOOLEAN : b = (failedAt = None)
      BY <3>1, Zenon
    <3>5. recvCq' = Append(recvCq, b)
      BY <3>2, <3>4, Zenon
    <3> QED  BY <3>3, <3>5
  <2>2. TypeOK'
    BY <2>1, <1>0, <1>1 DEF TypeOK, QpTypeOK
  <2>3. CallInv
    BY DEF IInv
  <2> QED  BY <2>2, <2>3, <1>1, SameSend DEF CallInv
<1>2. CASE /\ NicExecute \/ NicFail
           /\ NicWriteCqe
           /\ UNCHANGED <<unsignaled, sendCredits, head, tail, recvVars, aicpuVars, consumer, tailWord>>
  <2>1. /\ unsignaled' = unsignaled /\ sendCredits' = sendCredits /\ head' = head /\ tail' = tail
        /\ recvCredits' = recvCredits /\ rqHead' = rqHead /\ rqTail' = rqTail /\ recvCq' = recvCq
        /\ pc' = pc /\ target' = target /\ status' = status /\ wrIds' = wrIds /\ decoded' = decoded
        /\ consumer' = consumer /\ tailWord' = tailWord
    BY <1>2 DEF recvVars, aicpuVars
  <2>2. /\ WordsInv' /\ EntriesInv'
        /\ cqRing' \in [0 .. Depth - 1 -> HnsCqe] /\ produced' \in Nat
    BY <1>0, <1>2, <2>1, NicRing
  <2>3. /\ CqInv' /\ FailInv' /\ sendCq' \in Seq(Cqe)
        /\ executed' = executed + 1 /\ executed < head
        /\ signals' = signals \ {executed}
        /\ failedAt' = failedAt \/ (failedAt = None /\ failedAt' = executed)
        /\ failedAt' \in Nat \cup {None}
        /\ \/ sendCq' = sendCq
           \/ /\ Len(sendCq') = Len(sendCq) + 1
              /\ \A k \in 1 .. Len(sendCq) : sendCq'[k] = sendCq[k]
              /\ sendCq'[Len(sendCq) + 1].wqe = executed
              /\ sendCq'[Len(sendCq) + 1].ok <=> failedAt' = None
              /\ failedAt' = None => executed \in signals
    BY <1>0, <1>2, <2>1, NicCq
  <2>4. /\ tail \in Nat /\ head \in Nat /\ executed \in Nat /\ signals \subseteq Nat
        /\ unsignaled \in Nat /\ failedAt \in Nat \cup {None} /\ Len(sendCq) \in Nat
        /\ sendCq \in Seq(Cqe)
    BY <1>0 DEF QpTypeOK
  <2>5. TypeOK'
    BY <2>1, <2>2, <2>3, <2>4, <1>0 DEF TypeOK, QpTypeOK
  <2>6. BoundsInv'
    BY <2>1, <2>3, <2>4, <1>0 DEF BoundsInv
  <2>7. WrIdsIntact' /\ DecodedIsOwn' /\ CallInv'
    <3>1. failedAt' = None => failedAt = None
      BY <2>3
    <3> QED  BY <3>1, <2>1 DEF IInv, WrIdsIntact, DecodedIsOwn, CallInv
  <2>8. WaitedIsExecuted'
    <3> SUFFICES ASSUME pc = "idle", status = "WAITED"
                 PROVE  /\ executed' >= head - unsignaled
                        /\ failedAt' # None => failedAt' >= head - unsignaled
      BY <2>1 DEF WaitedIsExecuted
    <3>1. executed >= head - unsignaled /\ (failedAt # None => failedAt >= head - unsignaled)
      BY DEF IInv, WaitedIsExecuted
    <3> QED  BY <3>1, <2>3, <2>4
  <2>9. SchedInv'
    <3> SUFFICES ASSUME Clean'
                 PROVE  /\ sendCredits + (head - tail) = Depth
                        /\ pc # "wait" => head = tail + unsignaled
                        /\ pc = "wait" => /\ unsignaled = 0 /\ head = tail + Interval
                                          /\ target = sendCredits + Interval
                        /\ \A k \in 1 .. Len(sendCq') :
                             sendCq'[k].ok => pc = "wait" /\ k = 1 /\ sendCq'[k].wqe = head - 1
                        /\ failedAt' = None => \A p \in signals' : pc = "wait" /\ p = head - 1
      BY <2>1 DEF SchedInv
    <3>1. Clean
      BY <2>1, <2>3 DEF Clean
    <3>2. /\ sendCredits + (head - tail) = Depth
          /\ pc # "wait" => head = tail + unsignaled
          /\ pc = "wait" => /\ unsignaled = 0 /\ head = tail + Interval
                            /\ target = sendCredits + Interval
          /\ \A k \in 1 .. Len(sendCq) :
               sendCq[k].ok => pc = "wait" /\ k = 1 /\ sendCq[k].wqe = head - 1
          /\ failedAt = None => \A p \in signals : pc = "wait" /\ p = head - 1
      BY <3>1 DEF IInv, SchedInv
    <3>3. failedAt' = None => \A p \in signals' : pc = "wait" /\ p = head - 1
      BY <3>2, <2>3
    <3>4. ASSUME NEW k \in 1 .. Len(sendCq'), sendCq'[k].ok
          PROVE  pc = "wait" /\ k = 1 /\ sendCq'[k].wqe = head - 1
      <4>1. CASE k \in 1 .. Len(sendCq)
        BY <4>1, <3>2, <3>4, <2>3
      <4>2. CASE k \notin 1 .. Len(sendCq)
        <5>1. /\ k = Len(sendCq) + 1 /\ sendCq'[k].wqe = executed
              /\ failedAt' = None /\ executed \in signals
          BY <4>2, <3>4, <2>3, <2>4
        <5>2. failedAt = None /\ pc = "wait" /\ executed = head - 1
          BY <5>1, <3>2, <2>3
        <5>3. Len(sendCq) = 0
          <6> SUFFICES ASSUME Len(sendCq) # 0 PROVE FALSE
            OBVIOUS
          <6>1. 1 \in 1 .. Len(sendCq)
            BY <2>4
          <6>2. sendCq[1].ok /\ sendCq[1].wqe < executed /\ sendCq[1].wqe \in Nat
            BY <6>1, <5>2, <2>4, <1>0, CqeFields DEF FailInv, CqInv
          <6>3. sendCq[1].wqe = head - 1
            BY <6>1, <6>2, <3>2
          <6> QED  BY <6>2, <6>3, <5>2, <2>4
        <5> QED  BY <5>1, <5>2, <5>3
      <4> QED  BY <4>1, <4>2
    <3> QED  BY <3>2, <3>3, <3>4
  <2> QED  BY <2>2, <2>3, <2>5, <2>6, <2>7, <2>8, <2>9 DEF IInv
<1> QED  BY <1>1, <1>2 DEF Nic

-----------------------------------------------------------------------------
(* The theorems. *)

\* The initial state satisfies the invariant.
LEMMA InitIInv == Init => IInv
<1> SUFFICES ASSUME Init PROVE IInv
  OBVIOUS
<1> USE DEF Init, QpInit
<1>0. /\ sendCq = <<>> /\ Len(sendCq) = 0 /\ produced = 0 /\ Consumed = 0
      /\ Depth \in Nat /\ Depth > 0 /\ WordMod \in Nat /\ WordMod > 0
      /\ IndexMod \in Nat /\ IndexMod > 0 /\ Interval \in Nat /\ Interval >= 1
      /\ RecvDepth \in Nat
  <2>1. sendCq = <<>> /\ Len(sendCq) = 0 /\ produced = 0 /\ Consumed = 0
    <3>1. sendCq = <<>> /\ produced = 0
      BY Zenon
    <3>2. Len(<<>>) = 0 /\ 0 - 0 = 0
      OBVIOUS
    <3>3. Len(sendCq) = 0 /\ Consumed = 0 - 0
      BY <3>1, <3>2, Zenon DEF Consumed
    <3> QED  BY <3>1, <3>2, <3>3, Zenon
  <2>2. /\ Depth \in Nat /\ Depth > 0 /\ WordMod \in Nat /\ WordMod > 0
        /\ IndexMod \in Nat /\ IndexMod > 0
    BY WordFacts, Zenon
  <2> QED  BY <2>1, <2>2, QpAssumption
<1>1. TypeOK
  <2>1. QpTypeOK
    BY <1>0 DEF QpTypeOK, Cqe
  <2>2. wrIds \in [0 .. Depth - 1 -> Nat] /\ decoded \in [wrId : Nat, wqe : Nat]
    OBVIOUS
  <2>3. cqRing \in [0 .. Depth - 1 -> HnsCqe]
    <3>1. [owner |-> 0, ok |-> FALSE, index |-> 0] \in HnsCqe
      BY <1>0 DEF HnsCqe
    <3> QED  BY <3>1
  <2>4. 0 \in 0 .. WordMod - 1
    BY <1>0
  <2>5. consumer \in 0 .. WordMod - 1 /\ tailWord \in 0 .. WordMod - 1 /\ produced \in Nat
    BY <2>4
  <2>6. pc \in {"idle", "post", "wait", "recv"} /\ target \in Nat /\ status \in Statuses
    BY DEF Statuses
  <2> QED  BY <2>1, <2>2, <2>3, <2>5, <2>6, Zenon DEF TypeOK
<1>2. BoundsInv /\ CqInv /\ FailInv
  BY <1>0 DEF BoundsInv, CqInv, FailInv
<1>3. WordsInv
  <2>1. 0 % WordMod = 0
    <3>1. 0 \in 0 .. (WordMod - 1)
      BY <1>0
    <3> QED  BY <3>1, <1>0, ModSmall
  <2> QED  BY <2>1, <1>0 DEF WordsInv
<1>4. EntriesInv
  <2>1. ASSUME NEW q \in 0 .. (Depth - 1) PROVE Entry(q).owner = (q \div Depth) % 2
    <3>1. q % Depth = q /\ q \div Depth = 0
      BY <1>0, ModSmall
    <3>2. 0 % 2 = 0
      OBVIOUS
    <3>3. cqRing[q].owner = 0
      BY <1>0
    <3> QED  BY <3>1, <3>2, <3>3 DEF Entry
  <2>2. \A q \in produced .. (Consumed + Depth - 1) : q \in 0 .. (Depth - 1)
    BY <1>0
  <2> QED  BY <2>1, <2>2, <1>0 DEF EntriesInv
<1>5. SchedInv /\ CallInv
  BY <1>0 DEF SchedInv, CallInv, Clean
<1>6. WrIdsIntact /\ DecodedIsOwn /\ WaitedIsExecuted
  BY DEF WrIdsIntact, DecodedIsOwn, WaitedIsExecuted
<1> QED  BY <1>1, <1>2, <1>3, <1>4, <1>5, <1>6 DEF IInv

\* Every step keeps the invariant.
LEMMA NextIInv == IInv /\ [Next]_vars => IInv'
<1> SUFFICES ASSUME IInv, [Next]_vars PROVE IInv'
  OBVIOUS
<1>1. CASE PostSend
  BY <1>1, PostSendIInv
<1>2. CASE ProviderPostInvalid
  BY <1>2, ProviderPostInvalidIInv
<1>3. CASE ProviderPostFails
  BY <1>3, ProviderPostFailsIInv
<1>4. CASE ProviderPost
  BY <1>4, ProviderPostIInv
<1>5. CASE WaitForSendCompletion
  BY <1>5, WaitIInv
<1>6. CASE RdmaRecv \/ PostRecv
  BY <1>6, RecvIInv
<1>7. CASE Nic
  BY <1>7, NicIInv
<1>8. CASE UNCHANGED vars
  <2> USE DEF vars, sendVars, nicVars, ringVars
  <2>1. TypeOK'
    BY <1>8 DEF IInv, TypeOK, QpTypeOK
  <2>2. CallInv
    BY DEF IInv
  <2> QED  BY <2>1, <2>2, <1>8, SameSend DEF CallInv
<1> QED  BY <1>1, <1>2, <1>3, <1>4, <1>5, <1>6, <1>7, <1>8 DEF Next

\* The ring and the words are exact in every state of the invariant.
LEMMA RingExactHolds == IInv => RingExact
<1> SUFFICES ASSUME IInv PROVE RingExact
  OBVIOUS
<1>0. TypeOK /\ BoundsInv /\ CqInv /\ WordsInv /\ EntriesInv
  BY DEF IInv
<1>1. /\ \A k \in 0 .. (Depth - 1) : CqeIsReady(k) <=> k < Len(sendCq)
      /\ \A k \in 0 .. (Len(sendCq) - 1) : CqeAt(k).ok = sendCq[k + 1].ok
  BY <1>0, ScanSees
<1>2. tailWord = tail % WordMod
  BY <1>0 DEF WordsInv
<1>3. ASSUME NEW k \in 0 .. (Len(sendCq) - 1)
      PROVE  SendTailForCqe(tailWord, k) = sendCq[k + 1].wqe % WordMod
  <2>1. k + 1 \in 1 .. Len(sendCq) /\ sendCq \in Seq(Cqe)
    BY <1>0 DEF TypeOK, QpTypeOK
  <2>2. /\ tail \in Nat /\ executed \in Nat /\ head \in Nat /\ Depth \in Nat
        /\ executed <= head /\ head - tail <= Depth
    BY <1>0, WordFacts DEF TypeOK, QpTypeOK, BoundsInv
  <2>3. /\ sendCq[k + 1].wqe \in Nat /\ tail <= sendCq[k + 1].wqe
        /\ sendCq[k + 1].wqe < executed
    BY <2>1, <1>0, CqeFields DEF CqInv
  <2>4. sendCq[k + 1].wqe - tail < Depth
    BY <2>2, <2>3
  <2> QED  BY <2>2, <2>3, <2>4, <1>0, <1>2, TailForCqe
<1>4. RingReady = SendReady
  BY <1>0, ScanStops
<1> QED  BY <1>1, <1>2, <1>3, <1>4 DEF RingExact

\* The inductive invariant holds in every behaviour of the AICPU transport.
THEOREM Invariance == Spec => []IInv
<1>1. Init => IInv
  BY InitIInv
<1>2. IInv /\ [Next]_vars => IInv'
  BY NextIInv
<1> QED  BY <1>1, <1>2, PTL DEF Spec

\* The queue pair's counters, credits, rings and words keep their types: no
\* counter goes below zero and no word leaves its range.
THEOREM TypeCorrect == Spec => []TypeOK
<1>1. IInv => TypeOK
  BY DEF IInv
<1> QED  BY <1>1, Invariance, PTL

\* nds_aicpu_post_send, which stores a wr_id before the provider has accepted
\* the request, overwrites the one of no request still in the ring.
THEOREM WrIdsKept == Spec => []WrIdsIntact
<1>1. IInv => WrIdsIntact
  BY DEF IInv
<1> QED  BY <1>1, Invariance, PTL

\* A decoded completion carries its own request's wr_id, whatever the depth, the
\* word size and the number of unsignaled requests it stands for.
THEOREM DecodesOwn == Spec => []DecodedIsOwn
<1>1. IInv => DecodedIsOwn
  BY DEF IInv
<1> QED  BY <1>1, Invariance, PTL

\* A signaled post that returns success was executed by the adapter.
THEOREM WaitedExecuted == Spec => []WaitedIsExecuted
<1>1. IInv => WaitedIsExecuted
  BY DEF IInv
<1> QED  BY <1>1, Invariance, PTL

\* The owner bits of the never cleared completion ring show exactly the unread
\* completions, and the wrapped tail word and request index give every
\* completion's request back, on every lap and across every wrap of the words.
THEOREM RingIsExact == Spec => []RingExact
<1>1. IInv => RingExact
  BY RingExactHolds
<1> QED  BY <1>1, Invariance, PTL

=============================================================================
