-------------------------- MODULE ClientHostProofs --------------------------
(***************************************************************************)
(* Proofs about ClientHost, for every program and backend and every number *)
(* of queue pairs and commands: teardown is in reverse ownership order,    *)
(* nothing is left at the end, and no kernel loses what it uses.           *)
(*                                                                         *)
(* The argument has a static and a dynamic half.  The static half goes     *)
(* through the texts of the programs: every step is good where it stands   *)
(* (what it takes stands on what is open, what it would undo is undone in  *)
(* a right order, a kernel finds what it uses), so a program has a plan,   *)
(* the set of resources that is open before each step; and every scope is  *)
(* left in a right order.  The dynamic half is an inductive invariant: at  *)
(* any time the program holds what its plan has opened, what it lent to a  *)
(* call, and what the running destructors have still to reset.             *)
(***************************************************************************)
EXTENDS ClientHost, WellFoundedInduction, TLAPS

-----------------------------------------------------------------------------
(* Sequences. *)

\* A set of naturals that is not empty has a least element.
LEMMA Least ==
  ASSUME NEW S, S \subseteq Nat, S # {}
  PROVE  \E m \in S : \A y \in S : m <= y
<1>1. PICK m \in S : \A y \in S : ~(<<y, m>> \in OpToRel(<, Nat))
  BY NatLessThanWellFounded, WFMin
<1>2. \A y \in S : ~(y < m)
  BY <1>1 DEF OpToRel
<1> QED  BY <1>2

\* The elements of a concatenation.
LEMMA ConcatFacts ==
  ASSUME NEW T, NEW a \in Seq(T), NEW b \in Seq(T)
  PROVE  /\ a \o b \in Seq(T) /\ Len(a \o b) = Len(a) + Len(b)
         /\ \A i \in 1 .. Len(a) : (a \o b)[i] = a[i]
         /\ \A i \in 1 .. Len(b) : (a \o b)[Len(a) + i] = b[i]
         /\ Len(a) \in Nat /\ Len(b) \in Nat
         /\ DOMAIN a = 1 .. Len(a) /\ DOMAIN b = 1 .. Len(b) /\ DOMAIN (a \o b) = 1 .. Len(a) + Len(b)
  OBVIOUS

\* A concatenation has the elements of both.
LEMMA RangeConcat ==
  ASSUME NEW T, NEW a \in Seq(T), NEW b \in Seq(T)
  PROVE  a \o b \in Seq(T) /\ ToSet(a \o b) = ToSet(a) \cup ToSet(b)
<1> DEFINE c == a \o b
<1>0. /\ c \in Seq(T) /\ Len(c) = Len(a) + Len(b) /\ Len(a) \in Nat /\ Len(b) \in Nat
      /\ \A i \in 1 .. Len(a) : c[i] = a[i]
      /\ \A i \in 1 .. Len(b) : c[Len(a) + i] = b[i]
      /\ DOMAIN a = 1 .. Len(a) /\ DOMAIN b = 1 .. Len(b) /\ DOMAIN c = 1 .. Len(a) + Len(b)
  BY ConcatFacts
<1> HIDE DEF c
<1>1. ASSUME NEW x \in ToSet(c) PROVE x \in ToSet(a) \cup ToSet(b)
  <2>1. PICK i \in 1 .. Len(a) + Len(b) : c[i] = x
    BY <1>0, <1>1 DEF ToSet
  <2>2. CASE i <= Len(a)
    <3>1. i \in 1 .. Len(a)
      BY <2>2, <1>0
    <3> QED  BY <3>1, <2>1, <1>0 DEF ToSet
  <2>3. CASE ~(i <= Len(a))
    <3>1. i - Len(a) \in 1 .. Len(b) /\ Len(a) + (i - Len(a)) = i
      BY <2>3, <1>0
    <3>2. c[i] = b[i - Len(a)]
      BY <3>1, <1>0
    <3> QED  BY <3>1, <3>2, <2>1, <1>0 DEF ToSet
  <2> QED  BY <2>2, <2>3
<1>2. ASSUME NEW x \in ToSet(a) PROVE x \in ToSet(c)
  <2>1. PICK i \in 1 .. Len(a) : a[i] = x
    BY <1>0, <1>2 DEF ToSet
  <2>2. i \in 1 .. Len(a) + Len(b) /\ c[i] = x
    BY <2>1, <1>0
  <2> QED  BY <2>2, <1>0 DEF ToSet
<1>3. ASSUME NEW x \in ToSet(b) PROVE x \in ToSet(c)
  <2>1. PICK i \in 1 .. Len(b) : b[i] = x
    BY <1>0, <1>3 DEF ToSet
  <2>2. Len(a) + i \in 1 .. Len(a) + Len(b) /\ c[Len(a) + i] = x
    BY <2>1, <1>0
  <2> QED  BY <2>2, <1>0 DEF ToSet
<1> QED  BY <1>0, <1>1, <1>2, <1>3 DEF c

\* FlattenSeq appends one sequence after the other.
LEMMA FlattenFacts ==
  ASSUME NEW T, NEW ss \in Seq(Seq(T)), Len(ss) # 0
  PROVE  \E f \in [1 .. Len(ss) -> Seq(T)] :
           /\ f[1] = ss[1] /\ \A i \in 2 .. Len(ss) : f[i] = f[i - 1] \o ss[i]
           /\ FlattenSeq(ss) = f[Len(ss)]
<1> DEFINE N == Len(ss)
           Rec(f, k) == /\ f \in [1 .. k -> Seq(T)] /\ f[1] = ss[1]
                        /\ \A i \in 2 .. k : f[i] = f[i - 1] \o ss[i]
           Bad == {k \in 1 .. N : ~\E f : Rec(f, k)}
<1>0. N \in Nat \ {0} /\ \A i \in 1 .. N : ss[i] \in Seq(T)
  OBVIOUS
<1> HIDE DEF Rec
<1>1. Bad = {}
  <2>1. SUFFICES ASSUME Bad # {} PROVE FALSE
    OBVIOUS
  <2>2. PICK m \in Bad : \A y \in Bad : m <= y
    <3>1. Bad \subseteq Nat  BY <1>0
    <3> HIDE DEF Bad
    <3> QED  BY <3>1, <2>1, Least
  <2>3. CASE m = 1
    <3>1. Rec([i \in 1 .. 1 |-> ss[1]], 1)
      BY <1>0 DEF Rec
    <3> QED  BY <3>1, <2>2, <2>3
  <2>4. CASE m # 1
    <3>0. m \in 1 .. N
      OBVIOUS
    <3>1. m \in 2 .. N /\ m - 1 \in 1 .. N /\ m - 1 \notin Bad
      <4> HIDE DEF Bad, N
      <4> QED  BY <2>2, <2>4, <1>0, <3>0
    <3>2. PICK f : Rec(f, m - 1)
      BY <3>1
    <3>a. /\ f \in [1 .. m - 1 -> Seq(T)] /\ f[1] = ss[1]
          /\ \A i \in 2 .. m - 1 : f[i] = f[i - 1] \o ss[i]
      BY <3>2 DEF Rec
    <3> DEFINE g == [i \in 1 .. m |-> IF i = m THEN f[m - 1] \o ss[m] ELSE f[i]]
    <3>3. g \in [1 .. m -> Seq(T)]
      BY <3>1, <3>a, <1>0
    <3>4. g[1] = ss[1]
      BY <3>1, <3>a
    <3>5. ASSUME NEW i \in 2 .. m PROVE g[i] = g[i - 1] \o ss[i]
      <4>1. i - 1 \in 1 .. m - 1 /\ g[i - 1] = f[i - 1]
        BY <3>1
      <4>2. CASE i = m
        <5>1. m \in 1 .. m
          BY <3>1
        <5>2. g[m] = f[m - 1] \o ss[m]
          BY <5>1, Zenon
        <5> QED  BY <5>2, <4>1, <4>2
      <4>3. CASE i # m
        <5>1. i \in 2 .. m - 1 /\ g[i] = f[i]
          BY <4>3, <3>1
        <5> QED  BY <5>1, <4>1, <3>a
      <4> QED  BY <4>2, <4>3
    <3>6. Rec(g, m)
      <4> HIDE DEF g
      <4> QED  BY <3>3, <3>4, <3>5 DEF Rec
    <3> QED  BY <3>6, <2>2
  <2> QED  BY <2>3, <2>4
<1>2. PICK f : Rec(f, N)
  <2>1. N \in 1 .. N /\ N \notin Bad
    <3> HIDE DEF Bad, N
    <3> QED  BY <1>0, <1>1
  <2> QED  BY <2>1
<1>9. /\ f \in [1 .. N -> Seq(T)] /\ f[1] = ss[1]
      /\ \A i \in 2 .. N : f[i] = f[i - 1] \o ss[i]
  BY <1>2 DEF Rec
<1> DEFINE Def(g) == g = [i \in 1 .. N |-> IF i = 1 THEN ss[i] ELSE g[i - 1] \o ss[i]]
<1>3. Def(f)
  <2> DEFINE d == [i \in 1 .. N |-> IF i = 1 THEN ss[i] ELSE f[i - 1] \o ss[i]]
  <2>1. ASSUME NEW i \in 1 .. N PROVE f[i] = d[i]
    <3>1. CASE i = 1
      BY <3>1, <1>9
    <3>2. CASE i # 1
      <4>1. i \in 2 .. N
        BY <3>2, <1>0
      <4> QED  BY <4>1, <3>2, <1>9
    <3> QED  BY <3>1, <3>2
  <2>2. f \in [1 .. N -> Seq(T)]  BY <1>9
  <2> QED  BY <2>1, <2>2
<1>4. Def(CHOOSE g : Def(g))
  <2> HIDE DEF Def
  <2> QED  BY <1>3
<1> DEFINE c == CHOOSE g : Def(g)
<1>5. FlattenSeq(ss) = c[N]
  <2>1. N # 0 BY <1>0
  <2> QED BY <2>1, Zenon DEF FlattenSeq
<1> HIDE DEF c
<1>6. DEFINE Diff == {k \in 1 .. N : f[k] # c[k]}
<1>7. Diff = {}
  <2>0. c = [i \in 1 .. N |-> IF i = 1 THEN ss[i] ELSE c[i - 1] \o ss[i]]
    BY <1>4 DEF c
  <2>1. SUFFICES ASSUME Diff # {} PROVE FALSE
    OBVIOUS
  <2>2. PICK m \in Diff : \A y \in Diff : m <= y
    <3>1. Diff \subseteq Nat  BY <1>0
    <3> HIDE DEF Diff
    <3> QED  BY <3>1, <2>1, Least
  <2>3. m \in 1 .. N /\ c[m] = IF m = 1 THEN ss[m] ELSE c[m - 1] \o ss[m]
    BY <2>2, <2>0
  <2>4. CASE m = 1
    BY <2>4, <2>3, <2>2, <1>9
  <2>5. CASE m # 1
    <3>1. m \in 2 .. N /\ m - 1 \in 1 .. N /\ m - 1 \notin Diff
      BY <2>2, <2>5, <1>0
    <3>2. f[m - 1] = c[m - 1]
      BY <3>1
    <3>3. f[m] = f[m - 1] \o ss[m]
      BY <3>1, <1>9
    <3> QED  BY <3>2, <3>3, <2>3, <2>5, <2>2
  <2> QED  BY <2>4, <2>5
<1>8. c[N] = f[N]
  <2>1. N \in 1 .. N  BY <1>0
  <2> QED BY <2>1, <1>7
<1> QED  BY <1>9, <1>5, <1>8

\* It has the elements of all of them, and its last element is that of the last.
LEMMA FlattenRange ==
  ASSUME NEW T, NEW ss \in Seq(Seq(T)), Len(ss) # 0
  PROVE  /\ FlattenSeq(ss) \in Seq(T)
         /\ ToSet(FlattenSeq(ss)) = UNION {ToSet(ss[i]) : i \in 1 .. Len(ss)}
<1>1. PICK f \in [1 .. Len(ss) -> Seq(T)] :
           /\ f[1] = ss[1] /\ \A i \in 2 .. Len(ss) : f[i] = f[i - 1] \o ss[i]
           /\ FlattenSeq(ss) = f[Len(ss)]
  BY FlattenFacts
<1> DEFINE N == Len(ss)
           R(k) == UNION {ToSet(ss[i]) : i \in 1 .. k}
           Bad == {k \in 1 .. N : ToSet(f[k]) # R(k)}
<1>2. N \in Nat \ {0} /\ \A i \in 1 .. N : ss[i] \in Seq(T) /\ f[i] \in Seq(T)
  BY <1>1
<1> HIDE DEF N, R
<1>3. Bad = {}
  <2>1. SUFFICES ASSUME Bad # {} PROVE FALSE
    OBVIOUS
  <2>2. PICK m \in Bad : \A y \in Bad : m <= y
    <3>1. Bad \subseteq Nat  BY <1>2
    <3> HIDE DEF Bad
    <3> QED  BY <3>1, <2>1, Least
  <2>3. m \in 1 .. N /\ ToSet(f[m]) # R(m)
    OBVIOUS
  <2>4. CASE m = 1
    <3>1. R(1) = ToSet(ss[1])
      <4>1. 1 .. 1 = {1}  OBVIOUS
      <4> QED  BY <4>1, Zenon DEF R
    <3> QED  BY <3>1, <2>3, <2>4, <1>1
  <2>5. CASE m # 1
    <3>1. m \in 2 .. N /\ m - 1 \in 1 .. N /\ m - 1 \notin Bad
      <4> HIDE DEF Bad
      <4> QED  BY <2>2, <2>3, <2>5, <1>2
    <3>2. ToSet(f[m - 1]) = R(m - 1)
      BY <3>1
    <3>3. ToSet(f[m]) = ToSet(f[m - 1]) \cup ToSet(ss[m])
      <4>1. f[m] = f[m - 1] \o ss[m] /\ f[m - 1] \in Seq(T) /\ ss[m] \in Seq(T)
        BY <3>1, <1>1, <1>2, <2>3 DEF N
      <4> QED  BY <4>1, RangeConcat
    <3>4. R(m) = R(m - 1) \cup ToSet(ss[m])
      <4>1. 1 .. m = (1 .. m - 1) \cup {m}
        BY <3>1, <1>2
      <4> HIDE DEF Bad
      <4> QED  BY <4>1, Zenon DEF R
    <3> QED  BY <3>2, <3>3, <3>4, <2>3
  <2> QED  BY <2>4, <2>5
<1>4. N \in 1 .. N /\ N \notin Bad
  <2>1. N \in 1 .. N  BY <1>2
  <2> QED  BY <2>1, <1>3
<1> QED  BY <1>1, <1>2, <1>4 DEF N, R

\* Its last element is the last one of the last sequence.
LEMMA FlattenLast ==
  ASSUME NEW T, NEW ss \in Seq(Seq(T)), Len(ss) # 0, ss[Len(ss)] # <<>>
  PROVE  /\ FlattenSeq(ss) # <<>>
         /\ FlattenSeq(ss)[Len(FlattenSeq(ss))] = ss[Len(ss)][Len(ss[Len(ss)])]
<1>1. PICK f \in [1 .. Len(ss) -> Seq(T)] :
           /\ f[1] = ss[1] /\ \A i \in 2 .. Len(ss) : f[i] = f[i - 1] \o ss[i]
           /\ FlattenSeq(ss) = f[Len(ss)]
  BY FlattenFacts
<1>2. Len(ss) \in 1 .. Len(ss) /\ Len(ss) \in Nat /\ ss[Len(ss)] \in Seq(T)
  OBVIOUS
<1>5. Len(ss) # 1 => Len(ss) \in 2 .. Len(ss) /\ Len(ss) - 1 \in 1 .. Len(ss)
  <2> DEFINE n == Len(ss)
  <2>1. n \in Nat /\ n # 0  BY <1>2
  <2> HIDE DEF n
  <2>2. n # 1 => n \in 2 .. n /\ n - 1 \in 1 .. n  BY <2>1
  <2> QED  BY <2>2 DEF n
<1>3. CASE Len(ss) = 1
  BY <1>1, <1>2, <1>3
<1>4. CASE Len(ss) # 1
  <2> DEFINE a == f[Len(ss) - 1]  b == ss[Len(ss)]
  <2>1. Len(ss) \in 2 .. Len(ss) /\ Len(ss) - 1 \in 1 .. Len(ss)
    BY <1>4, <1>5
  <2>2. a \in Seq(T) /\ b \in Seq(T) /\ FlattenSeq(ss) = a \o b /\ b # <<>>
    BY <2>1, <1>1, <1>2
  <2> HIDE DEF a, b
  <2>3. Len(b) \in 1 .. Len(b) /\ Len(a \o b) = Len(a) + Len(b) /\ Len(a) \in Nat
    BY <2>2
  <2>4. (a \o b)[Len(a) + Len(b)] = b[Len(b)]
    BY <2>2, <2>3, ConcatFacts
  <2>5. a \o b # <<>>
    BY <2>2, <2>3
  <2> QED  BY <2>2, <2>3, <2>4, <2>5 DEF b
<1> QED  BY <1>3, <1>4

-----------------------------------------------------------------------------
(* Orders of destruction. *)

\* What a resource stands on for its reset to reach the provider: what it needs, and
\* the runtime a device buffer is freed through.
Stands(r, backend) ==
  Needs(r, backend) \cup IF r[1] = "buffer" /\ ~OnHost(r, backend) THEN {NetService} ELSE {}
\* What a kernel may touch, the entries of a batch aside.
Used == {Binary} \cup {Qp(q) : q \in Nat} \cup {Buffer(n, c) : n \in Names \ {"data", "entries"}, c \in Nat}
\* What must outlive a resource: for the stream, all its kernels may touch.
Under(r, backend) == Stands(r, backend) \cup IF r = Stream THEN Used ELSE {}
\* Resetting the sequence from left to right takes nothing away from under one of
\* the given resources: what stands on an element is reset before it.
Covers(s, H, backend) ==
  \A x \in H : \A i \in DOMAIN s : s[i] \in Under(x, backend) => \E k \in 1 .. i - 1 : s[k] = x

\* The order is right for fewer resources too.
LEMMA CoversFewer ==
  ASSUME NEW s, NEW G, NEW H, NEW b, G \subseteq H, Covers(s, H, b)
  PROVE  Covers(s, G, b)
  BY Zenon DEF Covers

\* A right order followed by one that is right for what is left.
LEMMA CoversConcat ==
  ASSUME NEW T, NEW s \in Seq(T), NEW t \in Seq(T), NEW H, NEW b,
         Covers(s, H, b), Covers(t, H \ ToSet(s), b)
  PROVE  Covers(s \o t, H, b)
<1> DEFINE c == s \o t
<1>0. /\ c \in Seq(T) /\ Len(c) = Len(s) + Len(t) /\ Len(s) \in Nat /\ Len(t) \in Nat
      /\ \A i \in 1 .. Len(s) : c[i] = s[i]
      /\ \A i \in 1 .. Len(t) : c[Len(s) + i] = t[i]
      /\ DOMAIN s = 1 .. Len(s) /\ DOMAIN t = 1 .. Len(t) /\ DOMAIN c = 1 .. Len(s) + Len(t)
  BY ConcatFacts
<1> HIDE DEF c
<1>1. SUFFICES ASSUME NEW x \in H, NEW i \in 1 .. Len(s) + Len(t), c[i] \in Under(x, b)
               PROVE  \E k \in 1 .. i - 1 : c[k] = x
  BY <1>0 DEF Covers, c
<1>2. CASE i <= Len(s)
  <2>1. i \in 1 .. Len(s) /\ s[i] \in Under(x, b)
    BY <1>0, <1>1, <1>2
  <2>2. PICK k \in 1 .. i - 1 : s[k] = x
    BY <2>1, <1>0 DEF Covers
  <2>3. k \in 1 .. Len(s) /\ c[k] = x
    BY <2>1, <2>2, <1>0
  <2> QED  BY <2>3
<1>3. CASE ~(i <= Len(s))
  <2>1. i - Len(s) \in 1 .. Len(t) /\ Len(s) + (i - Len(s)) = i
    BY <1>0, <1>3
  <2>2. t[i - Len(s)] \in Under(x, b)
    BY <2>1, <1>0, <1>1
  <2>3. CASE x \in ToSet(s)
    <3>1. PICK k \in 1 .. Len(s) : s[k] = x
      BY <2>3, <1>0 DEF ToSet
    <3>2. k \in 1 .. i - 1 /\ c[k] = x
      BY <3>1, <1>0, <1>3
    <3> QED  BY <3>2
  <2>4. CASE x \notin ToSet(s)
    <3>1. PICK k \in 1 .. (i - Len(s)) - 1 : t[k] = x
      BY <2>1, <2>2, <2>4, <1>0 DEF Covers
    <3>2. k \in 1 .. Len(t) /\ Len(s) + k \in 1 .. i - 1 /\ c[Len(s) + k] = x
      BY <3>1, <2>1, <1>0
    <3> QED  BY <3>2
  <2> QED  BY <2>3, <2>4
<1> QED  BY <1>2, <1>3

\* Right orders, flattened, are a right order.
LEMMA CoversFlatten ==
  ASSUME NEW T, NEW ss \in Seq(Seq(T)), Len(ss) # 0, NEW H, NEW b,
         \A i \in 1 .. Len(ss) : Covers(ss[i], H, b)
  PROVE  Covers(FlattenSeq(ss), H, b)
<1>1. PICK f \in [1 .. Len(ss) -> Seq(T)] :
           /\ f[1] = ss[1] /\ \A i \in 2 .. Len(ss) : f[i] = f[i - 1] \o ss[i]
           /\ FlattenSeq(ss) = f[Len(ss)]
  BY FlattenFacts
<1> DEFINE N == Len(ss)
           Bad == {k \in 1 .. N : ~Covers(f[k], H, b)}
<1>6. N \in Nat \ {0} /\ \A i \in 1 .. N : ss[i] \in Seq(T)
  OBVIOUS
<1>2. N \in Nat \ {0} /\ \A i \in 1 .. N : ss[i] \in Seq(T) /\ f[i] \in Seq(T)
  BY <1>6
<1>5. \A i \in 1 .. N : Covers(ss[i], H, b)
  BY Zenon
<1> HIDE DEF N
<1>3. Bad = {}
  <2>1. SUFFICES ASSUME Bad # {} PROVE FALSE
    OBVIOUS
  <2>2. PICK m \in Bad : \A y \in Bad : m <= y
    <3>1. Bad \subseteq Nat  BY <1>2
    <3> HIDE DEF Bad
    <3> QED  BY <3>1, <2>1, Least
  <2>3. m \in 1 .. N /\ ~Covers(f[m], H, b)
    OBVIOUS
  <2>4. CASE m = 1
    BY <2>3, <2>4, <1>1, <1>5
  <2>5. CASE m # 1
    <3>1. m \in 2 .. N /\ m - 1 \in 1 .. N /\ m - 1 \notin Bad
      <4> HIDE DEF Bad
      <4> QED  BY <2>2, <2>3, <2>5, <1>2
    <3>2. Covers(f[m - 1], H, b) /\ Covers(ss[m], H, b)
      BY <3>1, <1>5, <2>3
    <3>3. f[m] = f[m - 1] \o ss[m] /\ f[m - 1] \in Seq(T) /\ ss[m] \in Seq(T)
      BY <3>1, <1>1, <1>2, <2>3 DEF N
    <3>4. Covers(ss[m], H \ ToSet(f[m - 1]), b)
      BY <3>2, CoversFewer
    <3> QED  BY <3>2, <3>3, <3>4, <2>3, CoversConcat
  <2> QED  BY <2>4, <2>5
<1>4. N \in 1 .. N /\ N \notin Bad
  <2>1. N \in 1 .. N  BY <1>2
  <2> QED  BY <2>1, <1>3
<1> QED  BY <1>1, <1>4 DEF N

-----------------------------------------------------------------------------
(* Good steps. *)

\* Memory a call lends its kernel, and all resources of a client.
Lent == {Args, Completions}
Resources ==
  {Acl, NetService, Ra, Rdev, Binary, Stream} \cup {Qp(q) : q \in 1 .. QpCount}
    \cup {Buffer(n, c) : n \in Names, c \in Nat} \cup {Region(n, c) : n \in Names, c \in Nat}
\* What a step may name, and the steps.
Kernel(k, c) == <<"kernel", k, c>>
KernelKinds == {"bootstrap", "rdma", "post", "poll", "storage", "wait"}
Operands == Resources \cup {NoResource} \cup {Kernel(k, c) : k \in KernelKinds, c \in Nat}
Steps ==
  [do : {"get", "check", "receive", "call", "wait", "submit", "leave", "exit"}, res : Operands, undo : Seq(Resources)]
\* What the program finds open; all the objects of its scopes; the requests a launcher
\* keeps for the kernels of a stream.
Base(j) == IF j.program = "torch" THEN {Acl} ELSE {}
All(j) == ToSet(ScopeReset(j))
Kept(H) == IF Stream \in H THEN Requests ELSE {}
\* The resources of the program after a step that succeeds.
After(step, H) ==
  CASE step.do = "get" -> H \cup {step.res}
    [] step.do = "leave" -> H \ ToSet(step.undo)
    [] OTHER -> H

\* A step is good in a state where the program has opened H.  What it takes stands on
\* what is open, and its own scope or that of the call will give it back.  A kernel
\* is launched with all it uses.  What it undoes on a failure it undoes in order,
\* and in a call that leaves exactly what the Session had open before.
GetGood(j, inCall, step, H) ==
  step.do = "get" =>
    /\ step.res \in Resources \ (Requests \cup Lent)
    /\ Stands(step.res, j.backend) \subseteq H
    /\ ~inCall => step.res \in All(j)
LaunchGood(j, step, H) ==
  /\ step.do \in {"call", "wait", "submit"} /\ j.backend # "RA" =>
       {Stream, Acl, NetService} \cup Descriptors(step.res[2]) \subseteq H
  /\ step.do = "submit" =>
       /\ j.program # "torch" /\ step.res[3] \in 1 .. CommandCount
       /\ j.batch => Buffer("entries", step.res[3]) \in H
UndoGood(j, inCall, S, step, H) ==
  /\ Covers(step.undo, H \cup Kept(H), j.backend)
  /\ Base(j) \cap ToSet(step.undo) = {}
  /\ step.do = "leave" => inCall
  /\ inCall => /\ S \subseteq H /\ H \subseteq S \cup ToSet(step.undo) /\ S \cap ToSet(step.undo) = {}
               /\ Stream \notin ToSet(step.undo)
Good(j, inCall, S, step, H) ==
  GetGood(j, inCall, step, H) /\ LaunchGood(j, step, H) /\ UndoGood(j, inCall, S, step, H)

\* h marks what is open before and after each of the steps, all of which are good.
Marks(j, inCall, S, s, h) ==
  \A n \in 1 .. Len(s) : Good(j, inCall, S, s[n], h[n - 1]) /\ h[n] = After(s[n], h[n - 1])
\* The steps are good from A, and leave B open.
Sound(j, inCall, S, s, A, B) ==
  /\ s \in Seq(Steps)
  /\ \E h \in [0 .. Len(s) -> SUBSET Resources] :
       h[0] = A /\ h[Len(s)] = B /\ Marks(j, inCall, S, s, h)

\* The marks of two sequences of steps, one after the other.
Joined(f, m, g, n) == [i \in 0 .. m + n |-> IF i <= m THEN f[i] ELSE g[i - m]]

\* Joined marks agree with the first marks and then with the second.
LEMMA JoinedFacts ==
  ASSUME NEW m \in Nat, NEW n \in Nat, NEW f, NEW g, f \in [0 .. m -> SUBSET Resources], g \in [0 .. n -> SUBSET Resources],
         f[m] = g[0]
  PROVE  /\ Joined(f, m, g, n) \in [0 .. m + n -> SUBSET Resources]
         /\ \A i \in 0 .. m : Joined(f, m, g, n)[i] = f[i]
         /\ \A i \in 0 .. n : Joined(f, m, g, n)[m + i] = g[i]
<1> DEFINE h == [i \in 0 .. m + n |-> IF i <= m THEN f[i] ELSE g[i - m]]
<1>1. ASSUME NEW i \in 0 .. m + n PROVE h[i] \in SUBSET Resources
  <2>1. CASE i <= m
    BY <2>1
  <2>2. CASE ~(i <= m)
    <3>1. i - m \in 0 .. n
      BY <2>2
    <3> QED  BY <3>1, <2>2
  <2> QED  BY <2>1, <2>2
<1>2. h \in [0 .. m + n -> SUBSET Resources]
  BY <1>1
<1>3. ASSUME NEW i \in 0 .. m PROVE h[i] = f[i]
  OBVIOUS
<1>4. ASSUME NEW i \in 0 .. n PROVE h[m + i] = g[i]
  <2>1. CASE i = 0
    BY <2>1
  <2>2. CASE i # 0
    <3>1. m + i \in 0 .. m + n /\ ~(m + i <= m) /\ (m + i) - m = i
      BY <2>2
    <3> QED  BY <3>1
  <2> QED  BY <2>1, <2>2
<1>5. h = Joined(f, m, g, n)
  BY DEF Joined
<1> HIDE DEF h
<1> QED  BY <1>2, <1>3, <1>4, <1>5

\* Sound sequences of steps compose.
LEMMA SoundConcat ==
  ASSUME NEW j, NEW fl, NEW S, NEW s, NEW t, NEW A, NEW B, NEW C,
         Sound(j, fl, S, s, A, B), Sound(j, fl, S, t, B, C)
  PROVE  Sound(j, fl, S, s \o t, A, C)
<1> DEFINE c == s \o t
<1>1. s \in Seq(Steps) /\ t \in Seq(Steps)
  BY Zenon DEF Sound
<1>0. /\ c \in Seq(Steps) /\ Len(c) = Len(s) + Len(t) /\ Len(s) \in Nat /\ Len(t) \in Nat
      /\ \A i \in 1 .. Len(s) : c[i] = s[i]
      /\ \A i \in 1 .. Len(t) : c[Len(s) + i] = t[i]
  BY <1>1, ConcatFacts
<1>2. PICK f \in [0 .. Len(s) -> SUBSET Resources] :
         f[0] = A /\ f[Len(s)] = B /\ Marks(j, fl, S, s, f)
  BY Zenon DEF Sound
<1>3. PICK g \in [0 .. Len(t) -> SUBSET Resources] :
         g[0] = B /\ g[Len(t)] = C /\ Marks(j, fl, S, t, g)
  BY Zenon DEF Sound
<1> HIDE DEF c
<1> DEFINE h == Joined(f, Len(s), g, Len(t))
<1>4. /\ h \in [0 .. Len(s) + Len(t) -> SUBSET Resources]
      /\ (\A i \in 0 .. Len(s) : h[i] = f[i]) /\ (\A i \in 0 .. Len(t) : h[Len(s) + i] = g[i])
  <2>1. f[Len(s)] = g[0] /\ Len(s) \in Nat /\ Len(t) \in Nat
    BY <1>0, <1>2, <1>3
  <2> QED  BY <2>1, JoinedFacts, SMTT(30)
<1> HIDE DEF h
<1>5. h[0] = A /\ h[Len(c)] = C
  <2>1. 0 \in 0 .. Len(s) /\ Len(t) \in 0 .. Len(t)
    BY <1>0
  <2> QED  BY <2>1, <1>0, <1>2, <1>3, <1>4
<1>6. ASSUME NEW n \in 1 .. Len(c)
      PROVE  Good(j, fl, S, c[n], h[n - 1]) /\ h[n] = After(c[n], h[n - 1])
  <2>1. CASE n <= Len(s)
    <3>1. n \in 1 .. Len(s) /\ n \in 0 .. Len(s) /\ n - 1 \in 0 .. Len(s)
      BY <2>1, <1>0
    <3>2. c[n] = s[n] /\ h[n] = f[n] /\ h[n - 1] = f[n - 1]
      BY <3>1, <1>0, <1>4
    <3>3. Good(j, fl, S, s[n], f[n - 1]) /\ f[n] = After(s[n], f[n - 1])
      BY <3>1, <1>2 DEF Marks
    <3> QED  BY <3>2, <3>3
  <2>2. CASE ~(n <= Len(s))
    <3>0. PICK k \in Nat : k = n - Len(s)
      <4>1. n \in Nat /\ Len(s) \in Nat /\ n > Len(s)
        BY <2>2, <1>0
      <4>2. n - Len(s) \in Nat
        BY <4>1
      <4> QED  BY <4>2
    <3>1. /\ k \in 1 .. Len(t) /\ k \in 0 .. Len(t) /\ k - 1 \in 0 .. Len(t)
          /\ n = Len(s) + k /\ n - 1 = Len(s) + (k - 1)
      BY <2>2, <1>0, <3>0
    <3>2. c[n] = t[k] /\ h[n] = g[k] /\ h[n - 1] = g[k - 1]
      BY <3>1, <1>0, <1>4
    <3>3. Good(j, fl, S, t[k], g[k - 1]) /\ g[k] = After(t[k], g[k - 1])
      BY <3>1, <1>3 DEF Marks
    <3> QED  BY <3>2, <3>3
  <2> QED  BY <2>1, <2>2
<1>7. Marks(j, fl, S, c, h)
  BY <1>6 DEF Marks
<1>8. h \in [0 .. Len(c) -> SUBSET Resources]
  BY <1>0, <1>4
<1> QED  BY <1>0, <1>5, <1>7, <1>8, Zenon DEF Sound, c

\* One good step; no step; one sequence after another.
LEMMA SoundOne ==
  ASSUME NEW j, NEW fl, NEW S, NEW s \in Steps, NEW H \in SUBSET Resources, NEW G,
         Good(j, fl, S, s, H), G = After(s, H)
  PROVE  Sound(j, fl, S, <<s>>, H, G)
<1>1. G \in SUBSET Resources
  BY DEF After, Good, GetGood
<1> DEFINE h == [i \in 0 .. 1 |-> IF i = 0 THEN H ELSE G]
<1>2. h \in [0 .. 1 -> SUBSET Resources] /\ h[0] = H /\ h[1] = G
  BY <1>1
<1>3. <<s>> \in Seq(Steps) /\ Len(<<s>>) = 1 /\ <<s>>[1] = s
  OBVIOUS
<1> HIDE DEF h
<1>4. ASSUME NEW n \in 1 .. 1
      PROVE  Good(j, fl, S, <<s>>[n], h[n - 1]) /\ h[n] = After(<<s>>[n], h[n - 1])
  <2>1. n = 1 /\ n - 1 = 0  OBVIOUS
  <2> QED  BY <2>1, <1>2, <1>3
<1>5. Marks(j, fl, S, <<s>>, h)
  BY <1>3, <1>4 DEF Marks
<1> QED  BY <1>2, <1>3, <1>5 DEF Sound

\* No step is sound and leaves everything as it is.
LEMMA SoundNone ==
  ASSUME NEW j, NEW fl, NEW S, NEW H \in SUBSET Resources
  PROVE  Sound(j, fl, S, <<>>, H, H)
<1> DEFINE h == [i \in 0 .. 0 |-> H]
<1>1. h \in [0 .. 0 -> SUBSET Resources] /\ h[0] = H
  OBVIOUS
<1>2. <<>> \in Seq(Steps) /\ Len(<<>>) = 0 /\ 1 .. 0 = {}
  OBVIOUS
<1> HIDE DEF h
<1>3. Marks(j, fl, S, <<>>, h)
  BY <1>2 DEF Marks
<1> QED  BY <1>1, <1>2, <1>3 DEF Sound

\* Sound sequences of steps, one from where the other ends, are sound when flattened.
LEMMA SoundFlatten ==
  ASSUME NEW j, NEW fl, NEW S, NEW ss \in Seq(Seq(Steps)), Len(ss) # 0, NEW I,
         \A i \in 1 .. Len(ss) : Sound(j, fl, S, ss[i], I[i - 1], I[i])
  PROVE  Sound(j, fl, S, FlattenSeq(ss), I[0], I[Len(ss)])
<1>1. PICK f \in [1 .. Len(ss) -> Seq(Steps)] :
           /\ f[1] = ss[1] /\ \A i \in 2 .. Len(ss) : f[i] = f[i - 1] \o ss[i]
           /\ FlattenSeq(ss) = f[Len(ss)]
  BY FlattenFacts
<1> DEFINE N == Len(ss)
           Bad == {k \in 1 .. N : ~Sound(j, fl, S, f[k], I[0], I[k])}
<1>2. N \in Nat \ {0}
  OBVIOUS
<1>5. \A i \in 1 .. N : Sound(j, fl, S, ss[i], I[i - 1], I[i])
  BY Zenon
<1> HIDE DEF N
<1>3. Bad = {}
  <2>1. SUFFICES ASSUME Bad # {} PROVE FALSE
    OBVIOUS
  <2>2. PICK m \in Bad : \A y \in Bad : m <= y
    <3>1. Bad \subseteq Nat  BY <1>2
    <3> HIDE DEF Bad
    <3> QED  BY <3>1, <2>1, Least
  <2>3. m \in 1 .. N /\ ~Sound(j, fl, S, f[m], I[0], I[m])
    OBVIOUS
  <2>4. CASE m = 1
    <3>1. 1 - 1 = 0  OBVIOUS
    <3> QED  BY <3>1, <2>3, <2>4, <1>1, <1>5
  <2>5. CASE m # 1
    <3>1. m \in 2 .. N /\ m - 1 \in 1 .. N /\ m - 1 \notin Bad
      <4> HIDE DEF Bad
      <4> QED  BY <2>2, <2>3, <2>5, <1>2
    <3>2. Sound(j, fl, S, f[m - 1], I[0], I[m - 1]) /\ Sound(j, fl, S, ss[m], I[m - 1], I[m])
      BY <3>1, <1>5, <2>3
    <3>3. f[m] = f[m - 1] \o ss[m]
      BY <3>1, <1>1, <2>3 DEF N
    <3> QED  BY <3>2, <3>3, <2>3, SoundConcat
  <2> QED  BY <2>4, <2>5
<1>4. N \in 1 .. N /\ N \notin Bad
  <2>1. N \in 1 .. N  BY <1>2
  <2> QED  BY <2>1, <1>3
<1> QED  BY <1>1, <1>4 DEF N

-----------------------------------------------------------------------------
(* Tuples, kinds and names. *)

\* Tuples as concatenations.
LEMMA Tuple2 ==
  ASSUME NEW T, NEW a \in T, NEW b \in T
  PROVE  <<a>> \o <<b>> = <<a, b>>
<1>1. <<a>> \in Seq(T) /\ <<b>> \in Seq(T) /\ <<a, b>> \in Seq(T)
  OBVIOUS
<1> DEFINE s == <<a>> \o <<b>>  t == <<a, b>>
<1>2. s \in Seq(T) /\ t \in Seq(T) /\ Len(s) = 2 /\ Len(t) = 2
  BY <1>1
<1>3. s[1] = t[1] /\ s[2] = t[2]
  OBVIOUS
<1> HIDE DEF s, t
<1>4. \A i \in 1 .. 2 : s[i] = t[i]
  BY <1>3
<1>5. s = t BY <1>2, <1>4
<1> QED  BY <1>5 DEF s, t

\* A triple.
LEMMA Tuple3 ==
  ASSUME NEW T, NEW a \in T, NEW b \in T, NEW c \in T
  PROVE  <<a>> \o <<b, c>> = <<a, b, c>>
<1>1. <<a>> \in Seq(T) /\ <<b, c>> \in Seq(T) /\ <<a, b, c>> \in Seq(T)
  OBVIOUS
<1> DEFINE s == <<a>> \o <<b, c>>  t == <<a, b, c>>
<1>2. s \in Seq(T) /\ t \in Seq(T) /\ Len(s) = 3 /\ Len(t) = 3
  BY <1>1
<1>3. s[1] = t[1] /\ s[2] = t[2] /\ s[3] = t[3]
  OBVIOUS
<1> HIDE DEF s, t
<1>4. \A i \in 1 .. 3 : s[i] = t[i]
  BY <1>3
<1>5. s = t BY <1>2, <1>4
<1> QED  BY <1>5 DEF s, t

\* A quadruple.
LEMMA Tuple4 ==
  ASSUME NEW T, NEW a \in T, NEW b \in T, NEW c \in T, NEW d \in T
  PROVE  <<a, b>> \o <<c, d>> = <<a, b, c, d>>
<1>1. <<a, b>> \in Seq(T) /\ <<c, d>> \in Seq(T) /\ <<a, b, c, d>> \in Seq(T)
  OBVIOUS
<1> DEFINE s == <<a, b>> \o <<c, d>>  t == <<a, b, c, d>>
<1>2. s \in Seq(T) /\ t \in Seq(T) /\ Len(s) = 4 /\ Len(t) = 4
  BY <1>1
<1>3. s[1] = t[1] /\ s[2] = t[2] /\ s[3] = t[3] /\ s[4] = t[4]
  OBVIOUS
<1> HIDE DEF s, t
<1>4. \A i \in 1 .. 4 : s[i] = t[i]
  BY <1>3
<1>5. s = t
  BY <1>2, <1>4
<1> QED  BY <1>5 DEF s, t

\* A quintuple.
LEMMA Tuple5 ==
  ASSUME NEW T, NEW a \in T, NEW b \in T, NEW c \in T, NEW d \in T, NEW e \in T
  PROVE  <<a>> \o <<b, c, d, e>> = <<a, b, c, d, e>>
<1>1. <<a>> \in Seq(T) /\ <<b, c, d, e>> \in Seq(T) /\ <<a, b, c, d, e>> \in Seq(T)
  OBVIOUS
<1> DEFINE s == <<a>> \o <<b, c, d, e>>  t == <<a, b, c, d, e>>
<1>2. s \in Seq(T) /\ t \in Seq(T) /\ Len(s) = 5 /\ Len(t) = 5
  BY <1>1
<1>3. s[1] = t[1] /\ s[2] = t[2] /\ s[3] = t[3] /\ s[4] = t[4] /\ s[5] = t[5]
  OBVIOUS
<1> HIDE DEF s, t
<1>4. \A i \in 1 .. 5 : s[i] = t[i]
  BY <1>3
<1>5. s = t
  BY <1>2, <1>4
<1> QED  BY <1>5 DEF s, t

\* Eight elements.
LEMMA Tuple8 ==
  ASSUME NEW T, NEW a \in T, NEW b \in T, NEW c \in T, NEW d \in T, NEW e \in T, NEW f \in T, NEW g \in T, NEW h \in T
  PROVE  <<a, b, c, d>> \o <<e, f, g, h>> = <<a, b, c, d, e, f, g, h>>
<1>1. <<a, b, c, d>> \in Seq(T) /\ <<e, f, g, h>> \in Seq(T) /\ <<a, b, c, d, e, f, g, h>> \in Seq(T)
  OBVIOUS
<1> DEFINE s == <<a, b, c, d>> \o <<e, f, g, h>>  t == <<a, b, c, d, e, f, g, h>>
<1>2. s \in Seq(T) /\ t \in Seq(T) /\ Len(s) = 8 /\ Len(t) = 8
  BY <1>1
<1>3. s[1] = t[1] /\ s[2] = t[2] /\ s[3] = t[3] /\ s[4] = t[4] /\ s[5] = t[5] /\ s[6] = t[6] /\ s[7] = t[7] /\ s[8] = t[8]
  OBVIOUS
<1> HIDE DEF s, t
<1>4. \A i \in 1 .. 8 : s[i] = t[i]
  BY <1>3
<1>5. s = t
  BY <1>2, <1>4
<1> QED  BY <1>5 DEF s, t

\* The kinds and names of the resources.
LEMMA SingleKinds ==
  /\ Acl[1] = "acl" /\ NetService[1] = "net" /\ Ra[1] = "ra" /\ Rdev[1] = "rdev"
  /\ Binary[1] = "binary" /\ Stream[1] = "stream"
  BY DEF Acl, NetService, Ra, Rdev, Binary, Stream

\* The kind of a queue pair handle.
LEMMA QpKind ==
  ASSUME NEW q
  PROVE  Qp(q)[1] = "qp"
  BY DEF Qp

\* The kind, name and number of a buffer.
LEMMA BufferKind ==
  ASSUME NEW n, NEW c
  PROVE  Buffer(n, c)[1] = "buffer" /\ Buffer(n, c)[2] = n /\ Buffer(n, c)[3] = c
  BY DEF Buffer

\* The kind, name and number of a region.
LEMMA RegionKind ==
  ASSUME NEW n, NEW c
  PROVE  Region(n, c)[1] = "region" /\ Region(n, c)[2] = n /\ Region(n, c)[3] = c
  BY DEF Region

\* What each of them stands on.
LEMMA SingleStands ==
  ASSUME NEW b
  PROVE  /\ Stands(Acl, b) = {} /\ Stands(NetService, b) = {Acl} /\ Stands(Ra, b) = {NetService}
         /\ Stands(Rdev, b) = {Ra} /\ Stands(Binary, b) \subseteq {Acl} /\ Stands(Stream, b) = {Acl}
  BY SingleKinds DEF Stands, Needs

\* A queue pair stands on the device handle.
LEMMA QpStands ==
  ASSUME NEW b, NEW q
  PROVE  Stands(Qp(q), b) = {Rdev}
  BY QpKind DEF Stands, Needs

\* A buffer stands on the device context and the runtime at most.
LEMMA BufferStands ==
  ASSUME NEW b, NEW n, NEW c
  PROVE  Stands(Buffer(n, c), b) \subseteq {Acl, NetService}
  BY BufferKind DEF Stands, Needs

\* A region stands on the device handle and on its buffer.
LEMMA RegionStands ==
  ASSUME NEW b, NEW n, NEW c
  PROVE  Stands(Region(n, c), b) = {Rdev, Buffer(n, c)}
  BY RegionKind DEF Stands, Needs

\* The same from the resource underneath.
LEMMA StandsOf ==
  ASSUME NEW b, NEW x \in Resources, NEW r \in Stands(x, b)
  PROVE  \/ r = Acl
         \/ r = NetService /\ (x[1] = "ra" \/ x[1] = "buffer")
         \/ r = Ra /\ x = Rdev
         \/ r = Rdev /\ (x[1] = "qp" \/ x[1] = "region")
         \/ \E n \in Names, c \in Nat : x = Region(n, c) /\ r = Buffer(n, c)
<1>1. CASE x \in {Acl, NetService, Ra, Rdev, Binary, Stream}
  <2>1. x # Acl
    BY SingleStands
  <2>2. x = NetService => r = Acl
    BY SingleStands
  <2>3. x = Ra => r = NetService
    BY SingleStands
  <2>4. x = Rdev => r = Ra
    BY SingleStands
  <2>5. x = Binary \/ x = Stream => r = Acl
    BY SingleStands
  <2>6. x = Ra => x[1] = "ra"
    BY SingleKinds
  <2>7. x = Acl \/ x = NetService \/ x = Ra \/ x = Rdev \/ x = Binary \/ x = Stream
    BY <1>1
  <2> QED  BY <2>1, <2>2, <2>3, <2>4, <2>5, <2>6, <2>7, Zenon
<1>2. ASSUME NEW q \in 1 .. QpCount, x = Qp(q) PROVE r = Rdev /\ x[1] = "qp"
  BY <1>2, QpStands, QpKind
<1>3. ASSUME NEW n \in Names, NEW c \in Nat, x = Buffer(n, c) PROVE (r = Acl \/ r = NetService) /\ x[1] = "buffer"
  BY <1>3, BufferStands, BufferKind
<1>4. ASSUME NEW n \in Names, NEW c \in Nat, x = Region(n, c)
      PROVE  (r = Rdev /\ x[1] = "region") \/ r = Buffer(n, c)
  BY <1>4, RegionStands, RegionKind
<1>5. \/ x \in {Acl, NetService, Ra, Rdev, Binary, Stream} \/ \E q \in 1 .. QpCount : x = Qp(q)
      \/ (\E n \in Names, c \in Nat : x = Buffer(n, c)) \/ (\E n \in Names, c \in Nat : x = Region(n, c))
  BY DEF Resources
<1> QED  BY <1>1, <1>2, <1>3, <1>4, <1>5, Zenon

\* A kernel uses the binary, queue pairs and buffers that are not the application's.
LEMMA UsedKinds ==
  ASSUME NEW r \in Used
  PROVE  r[1] = "binary" \/ r[1] = "qp" \/ (r[1] = "buffer" /\ r[2] \notin {"data", "entries"})
<1>1. ASSUME NEW n \in Names \ {"data", "entries"}, NEW c \in Nat, r = Buffer(n, c)
      PROVE  r[1] = "buffer" /\ r[2] \notin {"data", "entries"}
  BY <1>1, BufferKind
<1>2. ASSUME NEW q \in Nat, r = Qp(q) PROVE r[1] = "qp"
  BY <1>2, QpKind
<1>3. \/ r = Binary \/ \E q \in Nat : r = Qp(q)
      \/ (\E n \in Names \ {"data", "entries"}, c \in Nat : r = Buffer(n, c))
  BY DEF Used
<1>4. r = Binary => r[1] = "binary"
  BY SingleKinds
<1> QED  BY <1>1, <1>2, <1>3, <1>4, Zenon

\* What can stand on a resource of each kind.
LEMMA UnderOf ==
  ASSUME NEW b, NEW x \in Resources, NEW r \in Under(x, b)
  PROVE  /\ r[1] # "region" /\ r[1] # "stream"
         /\ r[1] = "buffer" => x = Region(r[2], r[3]) \/ (x = Stream /\ r[2] \notin {"data", "entries"})
         /\ r[1] = "qp" \/ r[1] = "binary" => x = Stream
         /\ r[1] = "rdev" => x[1] = "qp" \/ x[1] = "region"
         /\ r[1] = "ra" => x = Rdev
         /\ r[1] = "net" => x[1] = "ra" \/ x[1] = "buffer"
<1>1. CASE r \in Stands(x, b)
  <2>1. ASSUME NEW n \in Names, NEW c \in Nat, x = Region(n, c), r = Buffer(n, c)
        PROVE  r[1] = "buffer" /\ x = Region(r[2], r[3])
    BY <2>1, BufferKind
  <2>2. CASE r = Acl
    <3>1. r[1] = "acl"  BY <2>2, SingleKinds
    <3> QED  BY <3>1
  <2>3. CASE r = NetService /\ (x[1] = "ra" \/ x[1] = "buffer")
    <3>1. r[1] = "net"  BY <2>3, SingleKinds
    <3> QED  BY <3>1, <2>3
  <2>4. CASE r = Ra /\ x = Rdev
    <3>1. r[1] = "ra"  BY <2>4, SingleKinds
    <3> QED  BY <3>1, <2>4
  <2>5. CASE r = Rdev /\ (x[1] = "qp" \/ x[1] = "region")
    <3>1. r[1] = "rdev"  BY <2>5, SingleKinds
    <3> QED  BY <3>1, <2>5
  <2>6. CASE \E n \in Names, c \in Nat : x = Region(n, c) /\ r = Buffer(n, c)
    <3>1. r[1] = "buffer" /\ x = Region(r[2], r[3])
      BY <2>1, <2>6, Zenon
    <3> QED  BY <3>1
  <2>7. \/ r = Acl
        \/ r = NetService /\ (x[1] = "ra" \/ x[1] = "buffer")
        \/ r = Ra /\ x = Rdev
        \/ r = Rdev /\ (x[1] = "qp" \/ x[1] = "region")
        \/ \E n \in Names, c \in Nat : x = Region(n, c) /\ r = Buffer(n, c)
    BY <1>1, StandsOf
  <2> QED  BY <2>2, <2>3, <2>4, <2>5, <2>6, <2>7, Zenon
<1>2. CASE x = Stream /\ r \in Used
  <2>1. r[1] = "binary" \/ r[1] = "qp" \/ (r[1] = "buffer" /\ r[2] \notin {"data", "entries"})
    BY <1>2, UsedKinds
  <2> QED  BY <1>2, <2>1
<1> QED  BY <1>1, <1>2 DEF Under

\* An order is right if nothing stands on any of its elements.
LEMMA CoversFree ==
  ASSUME NEW s, NEW G, NEW b, \A r \in ToSet(s), x \in G : r \notin Under(x, b)
  PROVE  Covers(s, G, b)
  BY Zenon DEF Covers, ToSet

\* The elements of a tuple.
LEMMA ToSet1 ==
  ASSUME NEW a
  PROVE  ToSet(<<a>>) = {a}
  BY DEF ToSet

\* The elements of a pair.
LEMMA ToSet2 ==
  ASSUME NEW a, NEW b
  PROVE  ToSet(<<a, b>>) = {a, b}
  BY DEF ToSet

\* The elements of a triple.
LEMMA ToSet3 ==
  ASSUME NEW a, NEW b, NEW c
  PROVE  ToSet(<<a, b, c>>) = {a, b, c}
  BY DEF ToSet

\* The elements of a quadruple.
LEMMA ToSet4 ==
  ASSUME NEW a, NEW b, NEW c, NEW d
  PROVE  ToSet(<<a, b, c, d>>) = {a, b, c, d}
  BY DEF ToSet

\* The resources are known ones.
LEMMA Known ==
  /\ Acl \in Resources /\ NetService \in Resources /\ Ra \in Resources /\ Rdev \in Resources
  /\ Binary \in Resources /\ Stream \in Resources
  /\ \A q \in 1 .. QpCount : Qp(q) \in Resources
  /\ \A n \in Names, c \in Nat : Buffer(n, c) \in Resources /\ Region(n, c) \in Resources
  BY DEF Resources

-----------------------------------------------------------------------------
(* What the objects hold and reset. *)

\* What the objects hold: a queue pair, a transport, a storage client, a launcher, the
\* commands of the storage example.
QpParts(q) == {Qp(q), Buffer("recvWrIds", q), Buffer("sendWrIds", q)}
AllQpParts == UNION {QpParts(q) : q \in 1 .. QpCount}
TransportParts == {Buffer("qpStates", 0), Buffer("deviceQpAddresses", 0)} \cup AllQpParts \cup {Rdev, Ra}
RegionNames == {"slotTable", "completion", "command", "namespace", "bootstrap"}
ClientParts ==
  {Buffer(n, 0) : n \in RegionNames \cup {"storageStates", "slotDescriptors"}} \cup {Region(n, 0) : n \in RegionNames}
LauncherParts == Requests \cup {Binary}
CommandParts(c) == {Region("entries", c), Buffer("entries", c), Region("data", c), Buffer("data", c)}
AllCommandParts == UNION {CommandParts(c) : c \in 1 .. CommandCount}

\* The names of their buffers.
LEMMA NameFacts ==
  /\ RegionNames \subseteq Names
  /\ {"qpStates", "deviceQpAddresses", "recvWrIds", "sendWrIds", "request", "storageStates",
      "slotDescriptors", "data", "entries", "args", "completions"} \subseteq Names
  BY DEF Names, RegionNames

\* Each reset goes through exactly what its object holds.
LEMMA QpResetFacts ==
  ASSUME NEW q \in 1 .. QpCount
  PROVE  QpReset(q) \in Seq(Resources) /\ ToSet(QpReset(q)) = QpParts(q)
<1>1. q \in Nat
  BY QpAssumption
<1>2. Qp(q) \in Resources /\ Buffer("recvWrIds", q) \in Resources /\ Buffer("sendWrIds", q) \in Resources
  BY <1>1, Known, NameFacts
<1> QED  BY <1>2, ToSet3 DEF QpReset, QpParts

\* The queue pairs of a Transport reset exactly what all of them hold.
LEMMA AllQpReset ==
  LET s == FlattenSeq([q \in 1 .. QpCount |-> QpReset(q)])
  IN  s \in Seq(Resources) /\ ToSet(s) = AllQpParts
<1> DEFINE ss == [q \in 1 .. QpCount |-> QpReset(q)]
<1>1. ss \in Seq(Seq(Resources)) /\ Len(ss) = QpCount /\ QpCount # 0
  BY QpResetFacts, QpAssumption
<1>2. \A q \in 1 .. QpCount : ToSet(ss[q]) = QpParts(q)
  BY QpResetFacts
<1> HIDE DEF ss
<1>3. UNION {ToSet(ss[q]) : q \in 1 .. QpCount} = AllQpParts
  BY <1>2 DEF AllQpParts
<1>4. FlattenSeq(ss) \in Seq(Resources) /\ ToSet(FlattenSeq(ss)) = AllQpParts
  BY <1>1, <1>3, FlattenRange
<1> QED  BY <1>4 DEF ss

\* Runtime::reset goes through the network service, and the context unless it is adopted.
LEMMA RuntimeResetFacts ==
  /\ RuntimeReset(TRUE) \in Seq(Resources) /\ ToSet(RuntimeReset(TRUE)) = {NetService}
  /\ RuntimeReset(FALSE) \in Seq(Resources) /\ ToSet(RuntimeReset(FALSE)) = {NetService, Acl}
  /\ RuntimeReset(FALSE) = <<NetService, Acl>> /\ RuntimeReset(TRUE) = <<NetService>>
<1>1. RuntimeReset(TRUE) = <<NetService>>
  BY Known DEF RuntimeReset
<1>2. RuntimeReset(FALSE) = <<NetService, Acl>>
  BY Known, Tuple2 DEF RuntimeReset
<1>3. ToSet(<<NetService>>) = {NetService} /\ ToSet(<<NetService, Acl>>) = {NetService, Acl}
  BY ToSet1, ToSet2
<1>4. <<NetService>> \in Seq(Resources) /\ <<NetService, Acl>> \in Seq(Resources)
  BY Known
<1> QED  BY <1>1, <1>2, <1>3, <1>4

\* A registered buffer of the client resets its region and itself.
LEMMA UnregisteredFacts ==
  ASSUME NEW n \in Names
  PROVE  /\ Unregistered(n) \in Seq(Resources)
         /\ ToSet(Unregistered(n)) = {Region(n, 0), Buffer(n, 0)}
  BY Known, ToSet2 DEF Unregistered

\* The members of StorageClient reset exactly what the client holds.
LEMMA ClientResetFacts ==
  ClientReset \in Seq(Resources) /\ ToSet(ClientReset) = ClientParts
<1> DEFINE st == <<Buffer("storageStates", 0), Buffer("slotDescriptors", 0)>>
           u1 == Unregistered("slotTable")
           u2 == Unregistered("completion")
           u3 == Unregistered("command")
           u4 == Unregistered("namespace")
           u5 == Unregistered("bootstrap")
<1>1. st \in Seq(Resources) /\ ToSet(st) = {Buffer("storageStates", 0), Buffer("slotDescriptors", 0)}
  BY Known, NameFacts, ToSet2
<1>2. /\ u1 \in Seq(Resources) /\ u2 \in Seq(Resources) /\ u3 \in Seq(Resources)
      /\ u4 \in Seq(Resources) /\ u5 \in Seq(Resources)
  BY UnregisteredFacts, NameFacts DEF RegionNames
<1>3. /\ ToSet(u1) = {Region("slotTable", 0), Buffer("slotTable", 0)}
      /\ ToSet(u2) = {Region("completion", 0), Buffer("completion", 0)}
      /\ ToSet(u3) = {Region("command", 0), Buffer("command", 0)}
      /\ ToSet(u4) = {Region("namespace", 0), Buffer("namespace", 0)}
      /\ ToSet(u5) = {Region("bootstrap", 0), Buffer("bootstrap", 0)}
  BY UnregisteredFacts, NameFacts DEF RegionNames
<1>4. ClientReset = ((((u1 \o st) \o u2) \o u3) \o u4) \o u5
  BY DEF ClientReset
<1>5. st \in Seq(Resources)
  BY <1>1
<1> HIDE DEF st, u1, u2, u3, u4, u5
<1> DEFINE v1 == u1 \o st
           v2 == v1 \o u2
           v3 == v2 \o u3
           v4 == v3 \o u4
           v5 == v4 \o u5
<1>6. v1 \in Seq(Resources) /\ ToSet(v1) = ToSet(u1) \cup ToSet(st)
  BY <1>5, <1>2, RangeConcat, SMT
<1>6t. v1 \in Seq(Resources)
  BY <1>6
<1> HIDE DEF v1
<1>7. v2 \in Seq(Resources) /\ ToSet(v2) = ToSet(v1) \cup ToSet(u2)
  BY <1>6t, <1>2, RangeConcat, SMT
<1>7t. v2 \in Seq(Resources)
  BY <1>7
<1> HIDE DEF v2
<1>8. v3 \in Seq(Resources) /\ ToSet(v3) = ToSet(v2) \cup ToSet(u3)
  BY <1>7t, <1>2, RangeConcat, SMT
<1>8t. v3 \in Seq(Resources)
  BY <1>8
<1> HIDE DEF v3
<1>9. v4 \in Seq(Resources) /\ ToSet(v4) = ToSet(v3) \cup ToSet(u4)
  BY <1>8t, <1>2, RangeConcat, SMT
<1>9t. v4 \in Seq(Resources)
  BY <1>9
<1> HIDE DEF v4
<1>10. v5 \in Seq(Resources) /\ ToSet(v5) = ToSet(v4) \cup ToSet(u5)
  BY <1>9t, <1>2, RangeConcat, SMT
<1>10t. v5 \in Seq(Resources)
  BY <1>10
<1>11. ClientReset = v5
  BY <1>4 DEF v1, v2, v3, v4, v5
<1> HIDE DEF v5
<1>12. ToSet(v5) = (((((ToSet(u1) \cup ToSet(st)) \cup ToSet(u2)) \cup ToSet(u3)) \cup ToSet(u4)) \cup ToSet(u5))
  BY <1>6, <1>7, <1>8, <1>9, <1>10, Zenon
<1>13. ToSet(v5) = ClientParts
  BY <1>12, <1>1, <1>3 DEF ClientParts, RegionNames
<1> QED  BY <1>10, <1>11, <1>13

\* A launcher resets exactly the requests it keeps and its binary.
LEMMA LauncherResetFacts ==
  LauncherReset \in Seq(Resources) /\ ToSet(LauncherReset) = LauncherParts
<1> DEFINE a == [c \in 1 .. CommandCount |-> Request(c)]
<1>0. CommandCount \in Nat  BY HostAssumption
<1>1. \A c \in 1 .. CommandCount : Request(c) \in Resources
  BY <1>0, Known, NameFacts DEF Request
<1>2. a \in Seq(Resources)
  BY <1>0, <1>1
<1>3. ToSet(a) = Requests
  BY DEF ToSet, Requests
<1>4. <<Binary>> \in Seq(Resources) /\ ToSet(<<Binary>>) = {Binary}
  BY Known, ToSet1
<1> HIDE DEF a
<1>5. a \o <<Binary>> \in Seq(Resources) /\ ToSet(a \o <<Binary>>) = ToSet(a) \cup ToSet(<<Binary>>)
  BY <1>2, <1>4, RangeConcat, ZenonT(40)
<1> QED  BY <1>3, <1>4, <1>5 DEF LauncherReset, LauncherParts, a

\* A command of the storage example resets exactly its buffers and regions.
LEMMA CommandResetFacts ==
  ASSUME NEW c \in Nat
  PROVE  CommandReset(c) \in Seq(Resources) /\ ToSet(CommandReset(c)) = CommandParts(c)
<1>1. /\ Region("entries", c) \in Resources /\ Buffer("entries", c) \in Resources
      /\ Region("data", c) \in Resources /\ Buffer("data", c) \in Resources
  BY Known, NameFacts
<1> QED  BY <1>1, ToSet4 DEF CommandReset, CommandParts

\* So do all commands of the example together.
LEMMA AllCommandReset ==
  Each(CommandReset) \in Seq(Resources) /\ ToSet(Each(CommandReset)) = AllCommandParts
<1> DEFINE ss == [c \in 1 .. CommandCount |-> CommandReset(c)]
<1>1. ss \in Seq(Seq(Resources)) /\ Len(ss) = CommandCount /\ CommandCount # 0
  BY CommandResetFacts, HostAssumption
<1>2. \A c \in 1 .. CommandCount : ToSet(ss[c]) = CommandParts(c)
  BY CommandResetFacts, HostAssumption
<1>0. Each(CommandReset) = FlattenSeq(ss)
  BY DEF Each
<1> HIDE DEF ss
<1>3. UNION {ToSet(ss[c]) : c \in 1 .. CommandCount} = AllCommandParts
  BY <1>2 DEF AllCommandParts
<1> QED  BY <1>0, <1>1, <1>3, FlattenRange

\* The kinds of what they hold.
LEMMA LauncherKinds ==
  ASSUME NEW x \in LauncherParts
  PROVE  x \in Resources /\ x # Stream /\ x[1] # "region"
<1>1. ASSUME NEW c \in 1 .. CommandCount, x = Request(c) PROVE x[1] = "buffer"
  BY <1>1, BufferKind DEF Request
<1>2. x = Binary => x[1] = "binary"
  BY SingleKinds
<1>3. x = Binary \/ \E c \in 1 .. CommandCount : x = Request(c)
  BY DEF LauncherParts, Requests
<1>4. x[1] = "buffer" \/ x[1] = "binary"
  BY <1>1, <1>2, <1>3
<1>5. x \in Resources
  BY LauncherResetFacts DEF ToSet
<1> QED  BY <1>4, <1>5, SingleKinds

\* A queue pair holds its handle and buffers.
LEMMA QpPartsKinds ==
  ASSUME NEW q \in 1 .. QpCount, NEW x \in QpParts(q)
  PROVE  x \in Resources /\ (x[1] = "qp" \/ x[1] = "buffer")
<1>1. x[1] = "qp" \/ x[1] = "buffer"
  BY QpKind, BufferKind DEF QpParts
<1>2. x \in Resources
  BY QpResetFacts DEF ToSet
<1> QED  BY <1>1, <1>2

\* A transport holds neither the stream nor a region.
LEMMA TransportKinds ==
  ASSUME NEW x \in TransportParts
  PROVE  x \in Resources /\ x # Stream /\ x[1] # "region"
<1>1. CASE x \in {Buffer("qpStates", 0), Buffer("deviceQpAddresses", 0), Rdev, Ra}
  <2>1. x[1] = "buffer" \/ x[1] = "rdev" \/ x[1] = "ra"
    BY <1>1, BufferKind, SingleKinds
  <2>2. x \in Resources
    BY <1>1, Known, NameFacts
  <2> QED  BY <2>1, <2>2, SingleKinds
<1>2. CASE x \in AllQpParts
  <2>1. PICK q \in 1 .. QpCount : x \in QpParts(q)
    BY <1>2 DEF AllQpParts
  <2> QED  BY <2>1, QpPartsKinds, SingleKinds
<1> QED  BY <1>1, <1>2 DEF TransportParts

\* A storage client does not hold the stream; its regions have names of their own.
LEMMA ClientKinds ==
  ASSUME NEW x \in ClientParts
  PROVE  x \in Resources /\ x # Stream /\ (x[1] = "region" => x[2] \in RegionNames)
<1>1. ASSUME NEW n, x = Buffer(n, 0) PROVE x[1] = "buffer"
  BY <1>1, BufferKind
<1>2. ASSUME NEW n \in RegionNames, x = Region(n, 0) PROVE x[1] = "region" /\ x[2] \in RegionNames
  BY <1>2, RegionKind
<1>3. x[1] = "buffer" \/ (x[1] = "region" /\ x[2] \in RegionNames)
  BY <1>1, <1>2 DEF ClientParts
<1>4. x \in Resources
  BY ClientResetFacts DEF ToSet
<1> QED  BY <1>3, <1>4, SingleKinds

\* A command of the example holds buffers and regions of its data and its entries.
LEMMA CommandKinds ==
  ASSUME NEW c \in Nat, NEW x \in CommandParts(c)
  PROVE  /\ x \in Resources /\ (x[1] = "region" \/ x[1] = "buffer")
         /\ x[2] \in {"data", "entries"} /\ x[3] = c
<1>1. (x[1] = "region" \/ x[1] = "buffer") /\ x[2] \in {"data", "entries"} /\ x[3] = c
  BY BufferKind, RegionKind DEF CommandParts
<1>2. x \in Resources
  BY CommandResetFacts DEF ToSet
<1> QED  BY <1>1, <1>2

-----------------------------------------------------------------------------
(* Every scope is left in a right order. *)

\* The sequence resets exactly X, in an order that is right when H is held.
Teardown(s, X, H, b) == s \in Seq(Resources) /\ ToSet(s) = X /\ Covers(s, H, b)

\* Two teardowns, one after the other.
LEMMA TeardownConcat ==
  ASSUME NEW s, NEW t, NEW X, NEW Y, NEW H, NEW b, Teardown(s, X, H, b), Teardown(t, Y, H \ X, b)
  PROVE  Teardown(s \o t, X \cup Y, H, b)
<1>1. s \in Seq(Resources) /\ t \in Seq(Resources)
  BY DEF Teardown
<1>2. s \o t \in Seq(Resources) /\ ToSet(s \o t) = ToSet(s) \cup ToSet(t)
  BY <1>1, RangeConcat
<1>3. Covers(s, H, b) /\ Covers(t, H \ ToSet(s), b)
  BY Zenon DEF Teardown
<1>4. Covers(s \o t, H, b)
  BY <1>1, <1>3, CoversConcat
<1> QED  BY <1>2, <1>4 DEF Teardown

\* No region and no stream: nothing stands on the buffer.
LEMMA FreeBuffer ==
  ASSUME NEW b, NEW G, G \subseteq Resources, NEW n, NEW c, Region(n, c) \notin G,
         Stream \notin G \/ n \in {"data", "entries"}
  PROVE  \A x \in G : Buffer(n, c) \notin Under(x, b)
<1>1. SUFFICES ASSUME NEW x \in G, Buffer(n, c) \in Under(x, b) PROVE FALSE
  OBVIOUS
<1>2. Buffer(n, c)[1] = "buffer" /\ Buffer(n, c)[2] = n /\ Buffer(n, c)[3] = c
  BY BufferKind
<1>3. x = Region(n, c) \/ (x = Stream /\ n \notin {"data", "entries"})
  BY <1>1, <1>2, UnderOf
<1> QED  BY <1>3

\* The stream goes at any time; a region before its buffer.
LEMMA StreamTeardown ==
  ASSUME NEW b, NEW G, G \subseteq Resources
  PROVE  Teardown(<<Stream>>, {Stream}, G, b)
<1>1. \A x \in G : Stream \notin Under(x, b)
  BY UnderOf, SingleKinds
<1>2. ToSet(<<Stream>>) = {Stream} /\ <<Stream>> \in Seq(Resources)
  BY ToSet1, Known
<1>3. Covers(<<Stream>>, G, b)
  BY <1>1, <1>2, CoversFree
<1> QED  BY <1>2, <1>3 DEF Teardown

\* A region and then its buffer, once no kernel can use the buffer.
LEMMA PairTeardown ==
  ASSUME NEW b, NEW G, G \subseteq Resources, NEW n \in Names, NEW c \in Nat,
         Stream \notin G \/ n \in {"data", "entries"}
  PROVE  Teardown(<<Region(n, c), Buffer(n, c)>>, {Region(n, c), Buffer(n, c)}, G, b)
<1> DEFINE R == Region(n, c)  B == Buffer(n, c)
<1>0. R \in Resources /\ B \in Resources
  BY Known
<1>1. \A x \in G : R \notin Under(x, b)
  BY UnderOf, RegionKind
<1>2. R \notin G \ {R}  OBVIOUS
<1>3. \A x \in G \ {R} : B \notin Under(x, b)
  <2>1. G \ {R} \subseteq Resources /\ Region(n, c) \notin G \ {R}  OBVIOUS
  <2>2. Stream \notin G \ {R} \/ n \in {"data", "entries"}  OBVIOUS
  <2> QED  BY <2>1, <2>2, FreeBuffer
<1> HIDE DEF R, B
<1>a. ToSet(<<R>>) = {R} /\ ToSet(<<B>>) = {B}
  BY ToSet1
<1>b. <<R>> \in Seq(Resources) /\ <<B>> \in Seq(Resources)
  BY <1>0
<1>4. ToSet(<<R>>) = {R} /\ ToSet(<<B>>) = {B} /\ <<R>> \in Seq(Resources) /\ <<B>> \in Seq(Resources)
  BY <1>a, <1>b
<1>5. Covers(<<R>>, G, b) /\ Covers(<<B>>, G \ {R}, b)
  BY <1>1, <1>3, <1>4, CoversFree
<1>6. Teardown(<<R>>, {R}, G, b) /\ Teardown(<<B>>, {B}, G \ {R}, b)
  BY <1>4, <1>5 DEF Teardown
<1>7. Teardown(<<R>> \o <<B>>, {R} \cup {B}, G, b)
  BY <1>6, TeardownConcat
<1>8. <<R>> \o <<B>> = <<R, B>>
  BY <1>0, Tuple2
<1>9. {R} \cup {B} = {R, B}
  OBVIOUS
<1> QED  BY <1>7, <1>8, <1>9 DEF R, B

\* The launcher once there is no stream any more; the commands of the storage example
\* at any time, for no kernel is covered by them.
LEMMA LauncherTeardown ==
  ASSUME NEW b, NEW G, G \subseteq Resources, Stream \notin G, \A c : Region("request", c) \notin G
  PROVE  Teardown(LauncherReset, LauncherParts, G, b)
<1>1. \A x \in G : Binary \notin Under(x, b)
  BY UnderOf, SingleKinds
<1>2. \A c \in 1 .. CommandCount : \A x \in G : Request(c) \notin Under(x, b)
  BY FreeBuffer DEF Request
<1>3. \A r \in LauncherParts, x \in G : r \notin Under(x, b)
  BY <1>1, <1>2 DEF LauncherParts, Requests
<1>4. Covers(LauncherReset, G, b)
  BY <1>3, LauncherResetFacts, CoversFree
<1> QED  BY <1>4, LauncherResetFacts DEF Teardown

\* The commands of the storage example.
LEMMA CommandTeardown ==
  ASSUME NEW b, NEW G, G \subseteq Resources
  PROVE  Teardown(Each(CommandReset), AllCommandParts, G, b)
<1> DEFINE ss == [c \in 1 .. CommandCount |-> CommandReset(c)]
<1>1. ASSUME NEW c \in 1 .. CommandCount PROVE Covers(CommandReset(c), G, b)
  <2>0. c \in Nat
    BY HostAssumption
  <2> DEFINE p == <<Region("entries", c), Buffer("entries", c)>>
             d == <<Region("data", c), Buffer("data", c)>>
             X == {Region("entries", c), Buffer("entries", c)}
             Y == {Region("data", c), Buffer("data", c)}
  <2>1. Teardown(p, X, G, b) /\ Teardown(d, Y, G \ X, b)
    BY <2>0, PairTeardown, NameFacts
  <2>2. Teardown(p \o d, X \cup Y, G, b)
    BY <2>1, TeardownConcat
  <2>3. p \o d = CommandReset(c)
    <3>1. /\ Region("entries", c) \in Resources /\ Buffer("entries", c) \in Resources
          /\ Region("data", c) \in Resources /\ Buffer("data", c) \in Resources
      BY <2>0, Known, NameFacts
    <3> QED  BY <3>1, Tuple4 DEF CommandReset
  <2> QED  BY <2>2, <2>3 DEF Teardown
<1>2. ss \in Seq(Seq(Resources)) /\ Len(ss) = CommandCount /\ CommandCount # 0
  BY CommandResetFacts, HostAssumption
<1>3. \A c \in 1 .. CommandCount : Covers(ss[c], G, b)
  BY <1>1
<1>4. Each(CommandReset) = FlattenSeq(ss)
  BY DEF Each
<1> HIDE DEF ss
<1>5. Covers(FlattenSeq(ss), G, b)
  BY <1>2, <1>3, CoversFlatten
<1> QED  BY <1>4, <1>5, AllCommandReset DEF Teardown

\* The storage client once there is no stream, the endpoint and the transport once there
\* is no region, the runtime last.
LEMMA ClientTeardown ==
  ASSUME NEW b, NEW G, G \subseteq Resources, Stream \notin G,
         \A n, c : Region(n, c) \in G => n \in RegionNames
  PROVE  Teardown(ClientReset, ClientParts, G, b)
<1> DEFINE st == <<Buffer("storageStates", 0), Buffer("slotDescriptors", 0)>>
           U(n) == {Region(n, 0), Buffer(n, 0)}
           X0 == {Buffer("storageStates", 0), Buffer("slotDescriptors", 0)}
           X1 == U("slotTable")
           X2 == X1 \cup X0
           X3 == X2 \cup U("completion")
           X4 == X3 \cup U("command")
           X5 == X4 \cup U("namespace")
           X6 == X5 \cup U("bootstrap")
<1>1. ASSUME NEW X, NEW n \in RegionNames PROVE Teardown(Unregistered(n), U(n), G \ X, b)
  <2>1. G \ X \subseteq Resources /\ Stream \notin G \ X /\ n \in Names
    BY NameFacts
  <2> QED  BY <2>1, PairTeardown DEF Unregistered
<1>2. Teardown(st, X0, G \ X1, b)
  <2>1. Region("storageStates", 0) \notin G \ X1 /\ Region("slotDescriptors", 0) \notin G \ X1
    BY DEF RegionNames
  <2>2. \A x \in G \ X1 : Buffer("storageStates", 0) \notin Under(x, b) /\ Buffer("slotDescriptors", 0) \notin Under(x, b)
    <3> HIDE DEF X1
    <3>1. G \ X1 \subseteq Resources /\ Stream \notin G \ X1  OBVIOUS
    <3> QED  BY <2>1, <3>1, FreeBuffer
  <2>3. st \in Seq(Resources) /\ ToSet(st) = X0
    BY Known, NameFacts, ToSet2
  <2>4. Covers(st, G \ X1, b)
    <3> HIDE DEF st, X1
    <3> QED  BY <2>2, <2>3, CoversFree
  <2> QED  BY <2>3, <2>4 DEF Teardown
<1>3. ClientReset = ((((Unregistered("slotTable") \o st) \o Unregistered("completion")) \o Unregistered("command"))
                       \o Unregistered("namespace")) \o Unregistered("bootstrap")
  BY DEF ClientReset
<1>4. ClientParts = X6
  BY DEF ClientParts, RegionNames
<1> HIDE DEF st, U, X0
<1>5. Teardown(Unregistered("slotTable"), X1, G, b)
  <2>1. G \ {} = G  OBVIOUS
  <2>2. Teardown(Unregistered("slotTable"), U("slotTable"), G \ {}, b)
    BY <1>1 DEF RegionNames
  <2> QED  BY <2>1, <2>2
<1> HIDE DEF X1
<1>6. Teardown(Unregistered("slotTable") \o st, X2, G, b)
  BY <1>2, <1>5, TeardownConcat
<1> HIDE DEF X2
<1>7. /\ Teardown(Unregistered("completion"), U("completion"), G \ X2, b)
      /\ Teardown(Unregistered("command"), U("command"), G \ X3, b)
      /\ Teardown(Unregistered("namespace"), U("namespace"), G \ X4, b)
      /\ Teardown(Unregistered("bootstrap"), U("bootstrap"), G \ X5, b)
  BY <1>1 DEF RegionNames
<1> DEFINE v2 == Unregistered("slotTable") \o st
           v3 == v2 \o Unregistered("completion")
           v4 == v3 \o Unregistered("command")
           v5 == v4 \o Unregistered("namespace")
<1>8. Teardown(v3, X3, G, b)
  BY <1>6, <1>7, TeardownConcat
<1>9. Teardown(v4, X4, G, b)
  <2> HIDE DEF v3, X3
  <2> QED  BY <1>7, <1>8, TeardownConcat
<1>10. Teardown(v5, X5, G, b)
  <2> HIDE DEF v4, X4
  <2> QED  BY <1>7, <1>9, TeardownConcat
<1>11. Teardown(v5 \o Unregistered("bootstrap"), X6, G, b)
  <2> HIDE DEF v5, X5
  <2> QED  BY <1>7, <1>10, TeardownConcat
<1> QED  BY <1>3, <1>4, <1>11

\* The endpoint once there is neither a region nor a queue pair.
LEMMA EndpointTeardown ==
  ASSUME NEW b, NEW G, G \subseteq Resources, \A x \in G : x[1] # "region" /\ x[1] # "qp"
  PROVE  Teardown(EndpointReset, {Rdev, Ra}, G, b)
<1>1. \A x \in G : Rdev \notin Under(x, b)
  BY UnderOf, SingleKinds
<1>2. \A x \in G \ {Rdev} : Ra \notin Under(x, b)
  BY UnderOf, SingleKinds
<1>3. /\ ToSet(<<Rdev>>) = {Rdev} /\ <<Rdev>> \in Seq(Resources)
      /\ ToSet(<<Ra>>) = {Ra} /\ <<Ra>> \in Seq(Resources)
  BY ToSet1, Known
<1>4. Covers(<<Rdev>>, G, b) /\ Covers(<<Ra>>, G \ {Rdev}, b)
  BY <1>1, <1>2, <1>3, CoversFree
<1>5. Teardown(<<Rdev>>, {Rdev}, G, b) /\ Teardown(<<Ra>>, {Ra}, G \ {Rdev}, b)
  BY <1>3, <1>4 DEF Teardown
<1>6. Teardown(<<Rdev>> \o <<Ra>>, {Rdev} \cup {Ra}, G, b)
  BY <1>5, TeardownConcat
<1>7. <<Rdev>> \o <<Ra>> = EndpointReset /\ {Rdev} \cup {Ra} = {Rdev, Ra}
  BY Known, Tuple2 DEF EndpointReset
<1> QED  BY <1>6, <1>7

\* A queue pair once there is neither a stream nor a region.
LEMMA QpTeardown ==
  ASSUME NEW b, NEW G, G \subseteq Resources, Stream \notin G, \A x \in G : x[1] # "region",
         NEW q \in 1 .. QpCount
  PROVE  Teardown(QpReset(q), QpParts(q), G, b)
<1>0. \A n, c : Region(n, c) \notin G
  BY RegionKind
<1>1. \A x \in G : Qp(q) \notin Under(x, b)
  BY UnderOf, QpKind
<1>2. \A x \in G : Buffer("recvWrIds", q) \notin Under(x, b) /\ Buffer("sendWrIds", q) \notin Under(x, b)
  BY <1>0, FreeBuffer
<1>3. \A r \in QpParts(q), x \in G : r \notin Under(x, b)
  BY <1>1, <1>2 DEF QpParts
<1>4. Covers(QpReset(q), G, b)
  BY <1>3, QpResetFacts, CoversFree
<1> QED  BY <1>4, QpResetFacts DEF Teardown

\* The transport, its queue pairs before its endpoint.
LEMMA TransportTeardown ==
  ASSUME NEW b, NEW G, G \subseteq Resources, Stream \notin G, \A x \in G : x[1] # "region"
  PROVE  Teardown(TransportReset, TransportParts, G, b)
<1> DEFINE a == <<Buffer("qpStates", 0), Buffer("deviceQpAddresses", 0)>>
           X == {Buffer("qpStates", 0), Buffer("deviceQpAddresses", 0)}
           ss == [q \in 1 .. QpCount |-> QpReset(q)]
           s == FlattenSeq(ss)
<1>0. \A n, c : Region(n, c) \notin G
  BY RegionKind
<1>1. Teardown(a, X, G, b)
  <2>1. a \in Seq(Resources) /\ ToSet(a) = X
    BY Known, NameFacts, ToSet2
  <2>2. \A r \in X, x \in G : r \notin Under(x, b)
    BY <1>0, FreeBuffer
  <2>3. Covers(a, G, b)
    <3> HIDE DEF a, X
    <3> QED  BY <2>1, <2>2, CoversFree
  <2> QED  BY <2>1, <2>3 DEF Teardown
<1>2. Teardown(s, AllQpParts, G \ X, b)
  <2>0. G \ X \subseteq Resources /\ Stream \notin G \ X /\ \A x \in G \ X : x[1] # "region"
    OBVIOUS
  <2>1. \A q \in 1 .. QpCount : Covers(QpReset(q), G \ X, b)
    <3> HIDE DEF X
    <3> QED  BY <2>0, QpTeardown DEF Teardown
  <2>2. ss \in Seq(Seq(Resources)) /\ Len(ss) = QpCount /\ QpCount # 0
    BY QpResetFacts, QpAssumption
  <2>3. \A q \in 1 .. QpCount : Covers(ss[q], G \ X, b)
    BY <2>1
  <2>4. s \in Seq(Resources) /\ ToSet(s) = AllQpParts
    BY AllQpReset
  <2>5. Covers(s, G \ X, b)
    <3> HIDE DEF ss, X
    <3> QED  BY <2>2, <2>3, CoversFlatten
  <2> QED  BY <2>4, <2>5 DEF Teardown
<1>3. TransportReset = (a \o s) \o EndpointReset
  BY DEF TransportReset
<1> HIDE DEF a, s
<1>4. Teardown(a \o s, X \cup AllQpParts, G, b)
  <2> HIDE DEF X
  <2> QED  BY <1>1, <1>2, TeardownConcat
<1>5. ASSUME NEW x \in G \ (X \cup AllQpParts) PROVE x[1] # "region" /\ x[1] # "qp"
  <2>1. ASSUME NEW q \in 1 .. QpCount, x = Qp(q) PROVE FALSE
    BY <1>5, <2>1 DEF AllQpParts, QpParts
  <2>2. ASSUME NEW n, NEW c, x = Buffer(n, c) PROVE x[1] # "qp"
    BY <2>2, BufferKind
  <2>3. x \in {Acl, NetService, Ra, Rdev, Binary, Stream} => x[1] # "qp"
    BY SingleKinds
  <2>4. ASSUME NEW n, NEW c, x = Region(n, c) PROVE FALSE
    BY <2>4, <1>0
  <2>5. x \in Resources /\ x[1] # "region"
    OBVIOUS
  <2>6. \/ x \in {Acl, NetService, Ra, Rdev, Binary, Stream}
        \/ \E q \in 1 .. QpCount : x = Qp(q)
        \/ (\E n \in Names, c \in Nat : x = Buffer(n, c)) \/ (\E n \in Names, c \in Nat : x = Region(n, c))
    BY <2>5 DEF Resources
  <2>7. x[1] # "qp"
    BY <2>1, <2>2, <2>3, <2>4, <2>6
  <2> QED  BY <2>5, <2>7
<1>6. Teardown(EndpointReset, {Rdev, Ra}, G \ (X \cup AllQpParts), b)
  <2>1. G \ (X \cup AllQpParts) \subseteq Resources
    OBVIOUS
  <2> HIDE DEF X
  <2> QED  BY <2>1, <1>5, EndpointTeardown
<1>7. Teardown((a \o s) \o EndpointReset, (X \cup AllQpParts) \cup {Rdev, Ra}, G, b)
  <2> HIDE DEF X
  <2> QED  BY <1>4, <1>6, TeardownConcat
<1>8. (X \cup AllQpParts) \cup {Rdev, Ra} = TransportParts
  BY DEF TransportParts
<1> QED  BY <1>3, <1>7, <1>8

\* The runtime when nothing else is left.
LEMMA RuntimeTeardown ==
  ASSUME NEW b, NEW G, G \subseteq {NetService, Acl}
  PROVE  /\ Teardown(RuntimeReset(FALSE), {NetService, Acl}, G, b)
         /\ Teardown(RuntimeReset(TRUE), {NetService}, G, b)
<1>0. G \subseteq Resources
  BY Known
<1>1. \A x \in G : NetService \notin Under(x, b)
  BY <1>0, UnderOf, SingleKinds
<1>2. \A x \in G \ {NetService} : Acl \notin Under(x, b)
  <2>1. Stands(Acl, b) = {} /\ Acl # Stream
    BY SingleStands, SingleKinds
  <2>2. Under(Acl, b) = {}
    BY <2>1 DEF Under
  <2> QED  BY <2>2
<1>3. /\ ToSet(<<NetService>>) = {NetService} /\ <<NetService>> \in Seq(Resources)
      /\ ToSet(<<Acl>>) = {Acl} /\ <<Acl>> \in Seq(Resources)
  BY ToSet1, Known
<1>4. Covers(<<NetService>>, G, b) /\ Covers(<<Acl>>, G \ {NetService}, b)
  BY <1>1, <1>2, <1>3, CoversFree
<1>5. Teardown(<<NetService>>, {NetService}, G, b) /\ Teardown(<<Acl>>, {Acl}, G \ {NetService}, b)
  BY <1>3, <1>4 DEF Teardown
<1>6. Teardown(<<NetService>> \o <<Acl>>, {NetService} \cup {Acl}, G, b)
  BY <1>5, TeardownConcat
<1>7. <<NetService>> \o <<Acl>> = <<NetService, Acl>> /\ {NetService} \cup {Acl} = {NetService, Acl}
  BY Known, Tuple2
<1> QED  BY <1>5, <1>6, <1>7, RuntimeResetFacts

\* What the scopes of the four programs hold.
StorageParts ==
  ((((AllCommandParts \cup {Stream}) \cup LauncherParts) \cup ClientParts) \cup TransportParts) \cup {NetService, Acl}
TransportScopeParts ==
  (({Stream, Region("data", 1), Buffer("data", 1)} \cup LauncherParts) \cup TransportParts) \cup {NetService, Acl}
VerbsParts ==
  (((({Stream} \cup LauncherParts) \cup {Region("data", 1), Buffer("data", 1)}) \cup QpParts(1)) \cup {Rdev, Ra})
    \cup {NetService, Acl}
TorchParts == ((({Stream} \cup LauncherParts) \cup ClientParts) \cup TransportParts) \cup {NetService}

\* These are all known resources.
LEMMA PartsKnown ==
  /\ AllCommandParts \subseteq Resources /\ LauncherParts \subseteq Resources /\ ClientParts \subseteq Resources
  /\ TransportParts \subseteq Resources /\ {NetService, Acl, Stream, Rdev, Ra} \subseteq Resources
<1>1. AllCommandParts \subseteq Resources
  <2>1. SUFFICES ASSUME NEW c \in 1 .. CommandCount PROVE CommandParts(c) \subseteq Resources
    BY DEF AllCommandParts
  <2>2. c \in Nat
    BY HostAssumption
  <2> QED  BY <2>2, CommandKinds
<1> QED  BY <1>1, LauncherKinds, ClientKinds, TransportKinds, Known

\* The network service and the context are neither the stream, a region nor a queue pair.
LEMMA BaseKinds ==
  ASSUME NEW x \in {NetService, Acl}
  PROVE  x # Stream /\ x[1] # "region" /\ x[1] # "qp"
  BY SingleKinds

\* Each scope is left in an order that is right whatever part of it is held.
LEMMA StorageTeardown ==
  ASSUME NEW b
  PROVE  Teardown(StorageScope, StorageParts, StorageParts, b)
<1> DEFINE H == StorageParts
           X1 == AllCommandParts
           X2 == X1 \cup {Stream}
           X3 == X2 \cup LauncherParts
           X4 == X3 \cup ClientParts
           X5 == X4 \cup TransportParts
           v1 == Each(CommandReset)
           v2 == v1 \o <<Stream>>
           v3 == v2 \o LauncherReset
           v4 == v3 \o ClientReset
           v5 == v4 \o TransportReset
<1>0. H \subseteq Resources
  BY PartsKnown DEF StorageParts
<1>1. Teardown(v1, X1, H, b)
  BY <1>0, CommandTeardown
<1>2. Teardown(<<Stream>>, {Stream}, H \ X1, b)
  <2>1. H \ X1 \subseteq Resources  BY <1>0
  <2> QED  BY <2>1, StreamTeardown
<1>3. \A x \in H \ X2 : x \in LauncherParts \/ x \in ClientParts \/ x \in TransportParts \/ x \in {NetService, Acl}
  BY DEF StorageParts
<1>4. \A x \in H \ X2 : x # Stream /\ (x[1] = "region" => x[2] \in RegionNames)
  <2> HIDE DEF X2
  <2> QED  BY <1>3, LauncherKinds, ClientKinds, TransportKinds, BaseKinds
<1>5. Teardown(LauncherReset, LauncherParts, H \ X2, b)
  <2>1. H \ X2 \subseteq Resources /\ Stream \notin H \ X2
    BY <1>0
  <2>2. \A c : Region("request", c) \notin H \ X2
    <3> HIDE DEF X2
    <3> QED  BY <1>4, RegionKind DEF RegionNames
  <2> QED  BY <2>1, <2>2, LauncherTeardown
<1>6. Teardown(ClientReset, ClientParts, H \ X3, b)
  <2>1. H \ X3 \subseteq Resources /\ Stream \notin H \ X3 /\ H \ X3 \subseteq H \ X2
    BY <1>0
  <2>2. \A n, c : Region(n, c) \in H \ X3 => n \in RegionNames
    <3> HIDE DEF X2, X3
    <3> QED  BY <2>1, <1>4, RegionKind
  <2> QED  BY <2>1, <2>2, ClientTeardown
<1>7. Teardown(TransportReset, TransportParts, H \ X4, b)
  <2>1. H \ X4 \subseteq Resources /\ Stream \notin H \ X4
    BY <1>0
  <2>2. \A x \in H \ X4 : x \in TransportParts \/ x \in {NetService, Acl}
    BY DEF StorageParts
  <2>3. \A x \in H \ X4 : x[1] # "region"
    <3> HIDE DEF X4
    <3> QED  BY <2>2, TransportKinds, BaseKinds
  <2> QED  BY <2>1, <2>3, TransportTeardown
<1>8. Teardown(RuntimeReset(FALSE), {NetService, Acl}, H \ X5, b)
  <2>1. H \ X5 \subseteq {NetService, Acl}
    BY DEF StorageParts
  <2> QED  BY <2>1, RuntimeTeardown
<1>9. StorageScope = v5 \o RuntimeReset(FALSE) /\ StorageParts = X5 \cup {NetService, Acl}
  BY DEF StorageScope, StorageParts
<1> HIDE DEF H, X1, v1
<1>10. Teardown(v2, X2, H, b)
  BY <1>1, <1>2, TeardownConcat
<1> HIDE DEF X2, v2
<1>11. Teardown(v3, X3, H, b)
  BY <1>5, <1>10, TeardownConcat
<1> HIDE DEF X3, v3
<1>12. Teardown(v4, X4, H, b)
  BY <1>6, <1>11, TeardownConcat
<1> HIDE DEF X4, v4
<1>13. Teardown(v5, X5, H, b)
  BY <1>7, <1>12, TeardownConcat
<1> HIDE DEF X5, v5
<1>14. Teardown(v5 \o RuntimeReset(FALSE), X5 \cup {NetService, Acl}, H, b)
  BY <1>8, <1>13, TeardownConcat
<1>15. H = StorageParts  BY DEF H
<1> QED  BY <1>9, <1>14, <1>15, Zenon

\* The data buffer and region of the transport and the verbs example.
LEMMA DataKinds ==
  /\ Region("data", 1) \in Resources /\ Buffer("data", 1) \in Resources
  /\ Region("data", 1)[1] = "region" /\ Region("data", 1)[2] = "data" /\ Region("data", 1) # Stream
  /\ Buffer("data", 1)[1] = "buffer" /\ Buffer("data", 1) # Stream
<1>1. Region("data", 1)[1] = "region" /\ Region("data", 1)[2] = "data" /\ Buffer("data", 1)[1] = "buffer"
  BY BufferKind, RegionKind
<1>2. Region("data", 1) \in Resources /\ Buffer("data", 1) \in Resources
  BY Known, NameFacts
<1> QED  BY <1>1, <1>2, SingleKinds

\* The scope of the transport example is left in a right order.
LEMMA TransportScopeTeardown ==
  ASSUME NEW b
  PROVE  Teardown(TransportScope, TransportScopeParts, TransportScopeParts, b)
<1> DEFINE D == {Region("data", 1), Buffer("data", 1)}
           d == <<Region("data", 1), Buffer("data", 1)>>
           H == TransportScopeParts
           X1 == {Stream} \cup D
           X2 == X1 \cup LauncherParts
           X3 == X2 \cup TransportParts
           v1 == <<Stream>> \o d
           v2 == v1 \o LauncherReset
           v3 == v2 \o TransportReset
<1>0. H \subseteq Resources
  BY PartsKnown, DataKinds DEF TransportScopeParts
<1>1. Teardown(<<Stream>>, {Stream}, H, b)
  BY <1>0, StreamTeardown
<1>2. Teardown(d, D, H \ {Stream}, b)
  <2>1. H \ {Stream} \subseteq Resources /\ Stream \notin H \ {Stream}
    BY <1>0
  <2> QED  BY <2>1, PairTeardown, NameFacts
<1>3. \A x \in H \ X1 : x \in LauncherParts \/ x \in TransportParts \/ x \in {NetService, Acl}
  BY DEF TransportScopeParts
<1>4. \A x \in H \ X1 : x # Stream /\ x[1] # "region"
  <2> HIDE DEF X1
  <2> QED  BY <1>3, LauncherKinds, TransportKinds, BaseKinds
<1>5. Teardown(LauncherReset, LauncherParts, H \ X1, b)
  <2>1. H \ X1 \subseteq Resources /\ Stream \notin H \ X1
    BY <1>0
  <2>2. \A c : Region("request", c) \notin H \ X1
    <3> HIDE DEF X1
    <3> QED  BY <1>4, RegionKind
  <2> QED  BY <2>1, <2>2, LauncherTeardown
<1>6. Teardown(TransportReset, TransportParts, H \ X2, b)
  <2>1. H \ X2 \subseteq Resources /\ Stream \notin H \ X2 /\ H \ X2 \subseteq H \ X1
    BY <1>0
  <2>2. \A x \in H \ X2 : x[1] # "region"
    <3> HIDE DEF X1, X2
    <3> QED  BY <2>1, <1>4
  <2> QED  BY <2>1, <2>2, TransportTeardown
<1>7. Teardown(RuntimeReset(FALSE), {NetService, Acl}, H \ X3, b)
  <2>1. H \ X3 \subseteq {NetService, Acl}
    BY DEF TransportScopeParts
  <2> QED  BY <2>1, RuntimeTeardown
<1>8. TransportScope = v3 \o RuntimeReset(FALSE)
  <2>1. v1 = <<Stream, Region("data", 1), Buffer("data", 1)>>
    BY Known, DataKinds, Tuple3
  <2> QED  BY <2>1 DEF TransportScope
<1>9. TransportScopeParts = X3 \cup {NetService, Acl}
  BY DEF TransportScopeParts
<1>10. H = TransportScopeParts  OBVIOUS
<1> HIDE DEF H, D, d
<1>11. Teardown(v1, X1, H, b)
  BY <1>1, <1>2, TeardownConcat
<1> HIDE DEF X1, v1
<1>12. Teardown(v2, X2, H, b)
  BY <1>5, <1>11, TeardownConcat
<1> HIDE DEF X2, v2
<1>13. Teardown(v3, X3, H, b)
  BY <1>6, <1>12, TeardownConcat
<1> HIDE DEF X3, v3
<1>14. Teardown(v3 \o RuntimeReset(FALSE), X3 \cup {NetService, Acl}, H, b)
  BY <1>7, <1>13, TeardownConcat
<1> QED  BY <1>8, <1>9, <1>10, <1>14, Zenon

\* So is that of the verbs example.
LEMMA VerbsTeardown ==
  ASSUME NEW b
  PROVE  Teardown(VerbsScope, VerbsParts, VerbsParts, b)
<1> DEFINE D == {Region("data", 1), Buffer("data", 1)}
           d == <<Region("data", 1), Buffer("data", 1)>>
           H == VerbsParts
           X1 == {Stream}
           X2 == X1 \cup LauncherParts
           X3 == X2 \cup D
           X4 == X3 \cup QpParts(1)
           X5 == X4 \cup {Rdev, Ra}
           v1 == <<Stream>>
           v2 == v1 \o LauncherReset
           v3 == v2 \o d
           v4 == v3 \o QpReset(1)
           v5 == v4 \o EndpointReset
<1>a. 1 \in 1 .. QpCount
  BY QpAssumption
<1>0. H \subseteq Resources
  BY <1>a, PartsKnown, DataKinds, QpPartsKinds DEF VerbsParts
<1>1. Teardown(v1, X1, H, b)
  BY <1>0, StreamTeardown
<1>2. Teardown(LauncherReset, LauncherParts, H \ X1, b)
  <2>1. H \ X1 \subseteq Resources /\ Stream \notin H \ X1
    BY <1>0
  <2>2. \A c : Region("request", c) \notin H \ X1
    <3>1. \A x \in H \ X1 : \/ x \in LauncherParts \/ x \in D \/ x \in QpParts(1)
                            \/ x \in {Rdev, Ra} \/ x \in {NetService, Acl}
      BY DEF VerbsParts
    <3>2. \A x \in {Rdev, Ra} : x[1] # "region"
      BY SingleKinds
    <3>3. \A x \in D : x[1] = "region" => x[2] = "data"
      BY DataKinds
    <3>4. \A x \in H \ X1 : x[1] = "region" => x[2] = "data"
      <4> HIDE DEF H, X1, D
      <4> QED  BY <1>a, <3>1, <3>2, <3>3, LauncherKinds, QpPartsKinds, BaseKinds
    <3> HIDE DEF H, X1
    <3> QED  BY <3>4, RegionKind
  <2> QED  BY <2>1, <2>2, LauncherTeardown
<1>3. Teardown(d, D, H \ X2, b)
  <2>1. H \ X2 \subseteq Resources /\ Stream \notin H \ X2
    BY <1>0
  <2> QED  BY <2>1, PairTeardown, NameFacts
<1>4. \A x \in H \ X3 : x \in QpParts(1) \/ x \in {Rdev, Ra} \/ x \in {NetService, Acl}
  BY DEF VerbsParts
<1>5. \A x \in H \ X3 : x[1] # "region"
  <2>1. \A x \in {Rdev, Ra} : x[1] # "region"
    BY SingleKinds
  <2> HIDE DEF H, X3
  <2> QED  BY <1>4, <1>a, <2>1, QpPartsKinds, BaseKinds
<1>6. Teardown(QpReset(1), QpParts(1), H \ X3, b)
  <2>1. H \ X3 \subseteq Resources /\ Stream \notin H \ X3
    BY <1>0
  <2> HIDE DEF H, X3
  <2> QED  BY <2>1, <1>a, <1>5, QpTeardown
<1>7. Teardown(EndpointReset, {Rdev, Ra}, H \ X4, b)
  <2>1. H \ X4 \subseteq Resources
    BY <1>0
  <2>2. \A x \in H \ X4 : x \in {Rdev, Ra, NetService, Acl}
    BY DEF VerbsParts
  <2>3. \A x \in {Rdev, Ra, NetService, Acl} : x[1] # "region" /\ x[1] # "qp"
    BY SingleKinds
  <2> HIDE DEF H, X4
  <2> QED  BY <2>1, <2>2, <2>3, EndpointTeardown
<1>8. Teardown(RuntimeReset(FALSE), {NetService, Acl}, H \ X5, b)
  <2>1. H \ X5 \subseteq {NetService, Acl}
    BY DEF VerbsParts
  <2> QED  BY <2>1, RuntimeTeardown
<1>9. VerbsScope = v5 \o RuntimeReset(FALSE) /\ VerbsParts = X5 \cup {NetService, Acl} /\ H = VerbsParts
  BY DEF VerbsScope, VerbsParts
<1> HIDE DEF H, D, d, X1, v1
<1>10. Teardown(v2, X2, H, b)
  BY <1>1, <1>2, TeardownConcat
<1> HIDE DEF X2, v2
<1>11. Teardown(v3, X3, H, b)
  BY <1>3, <1>10, TeardownConcat
<1> HIDE DEF X3, v3
<1>12. Teardown(v4, X4, H, b)
  BY <1>6, <1>11, TeardownConcat
<1> HIDE DEF X4, v4
<1>13. Teardown(v5, X5, H, b)
  BY <1>7, <1>12, TeardownConcat
<1> HIDE DEF X5, v5
<1>14. Teardown(v5 \o RuntimeReset(FALSE), X5 \cup {NetService, Acl}, H, b)
  BY <1>8, <1>13, TeardownConcat
<1> QED  BY <1>9, <1>14, Zenon

\* So is a Session, which leaves the context to its owner.
LEMMA TorchTeardown ==
  ASSUME NEW b
  PROVE  Teardown(TorchScope, TorchParts, TorchParts \cup {Acl}, b)
<1> DEFINE H == TorchParts \cup {Acl}
           X1 == {Stream}
           X2 == X1 \cup LauncherParts
           X3 == X2 \cup ClientParts
           X4 == X3 \cup TransportParts
           v1 == <<Stream>>
           v2 == v1 \o LauncherReset
           v3 == v2 \o ClientReset
           v4 == v3 \o TransportReset
<1>0. H \subseteq Resources
  BY PartsKnown, Known DEF TorchParts
<1>1. Teardown(v1, X1, H, b)
  BY <1>0, StreamTeardown
<1>2. \A x \in H \ X1 : x \in LauncherParts \/ x \in ClientParts \/ x \in TransportParts \/ x \in {NetService, Acl}
  BY DEF TorchParts
<1>3. \A x \in H \ X1 : x # Stream /\ (x[1] = "region" => x[2] \in RegionNames)
  <2> HIDE DEF X1, H
  <2> QED  BY <1>2, LauncherKinds, ClientKinds, TransportKinds, BaseKinds
<1>4. Teardown(LauncherReset, LauncherParts, H \ X1, b)
  <2>1. H \ X1 \subseteq Resources /\ Stream \notin H \ X1
    BY <1>0
  <2>2. \A c : Region("request", c) \notin H \ X1
    <3> HIDE DEF X1, H
    <3> QED  BY <1>3, RegionKind DEF RegionNames
  <2> HIDE DEF X1, H
  <2> QED  BY <2>1, <2>2, LauncherTeardown
<1>5. Teardown(ClientReset, ClientParts, H \ X2, b)
  <2>1. H \ X2 \subseteq Resources /\ Stream \notin H \ X2 /\ H \ X2 \subseteq H \ X1
    BY <1>0
  <2>2. \A n, c : Region(n, c) \in H \ X2 => n \in RegionNames
    <3> HIDE DEF X1, X2, H
    <3> QED  BY <2>1, <1>3, RegionKind
  <2> HIDE DEF X2, H
  <2> QED  BY <2>1, <2>2, ClientTeardown
<1>6. Teardown(TransportReset, TransportParts, H \ X3, b)
  <2>1. H \ X3 \subseteq Resources /\ Stream \notin H \ X3
    BY <1>0
  <2>2. \A x \in H \ X3 : x \in TransportParts \/ x \in {NetService, Acl}
    BY DEF TorchParts
  <2>3. \A x \in H \ X3 : x[1] # "region"
    <3> HIDE DEF X3, H
    <3> QED  BY <2>2, TransportKinds, BaseKinds
  <2> HIDE DEF X3, H
  <2> QED  BY <2>1, <2>3, TransportTeardown
<1>7. Teardown(RuntimeReset(TRUE), {NetService}, H \ X4, b)
  <2>1. H \ X4 \subseteq {NetService, Acl}
    BY DEF TorchParts
  <2> QED  BY <2>1, RuntimeTeardown
<1>8. TorchScope = v4 \o RuntimeReset(TRUE) /\ TorchParts = X4 \cup {NetService} /\ H = TorchParts \cup {Acl}
  BY DEF TorchScope, TorchParts
<1> HIDE DEF H, X1, v1
<1>9. Teardown(v2, X2, H, b)
  BY <1>1, <1>4, TeardownConcat
<1> HIDE DEF X2, v2
<1>10. Teardown(v3, X3, H, b)
  BY <1>5, <1>9, TeardownConcat
<1> HIDE DEF X3, v3
<1>11. Teardown(v4, X4, H, b)
  BY <1>6, <1>10, TeardownConcat
<1> HIDE DEF X4, v4
<1>12. Teardown(v4 \o RuntimeReset(TRUE), X4 \cup {NetService}, H, b)
  BY <1>7, <1>11, TeardownConcat
<1> QED  BY <1>8, <1>12, Zenon

\* A Session never resets the context it was lent.
LEMMA AclOutside == Acl \notin TorchParts
<1>1. Acl \notin LauncherParts
  <2>1. Acl # Binary /\ \A c : Acl # Request(c)
    BY SingleKinds, BufferKind DEF Request
  <2> QED  BY <2>1 DEF LauncherParts, Requests
<1>2. Acl \notin ClientParts
  BY SingleKinds, BufferKind, RegionKind DEF ClientParts
<1>3. Acl \notin TransportParts
  <2>1. \A q \in 1 .. QpCount : Acl \notin QpParts(q)
    BY QpPartsKinds, SingleKinds
  <2>2. Acl # Rdev /\ Acl # Ra /\ \A n : Acl # Buffer(n, 0)
    BY SingleKinds, BufferKind
  <2> QED  BY <2>1, <2>2 DEF TransportParts, AllQpParts
<1>4. Acl # Stream /\ Acl # NetService
  BY SingleKinds
<1> QED  BY <1>1, <1>2, <1>3, <1>4 DEF TorchParts

\* Every program leaves its scope in a right order, and resets all the scope can hold.
LEMMA ScopeTeardown ==
  ASSUME NEW j \in Jobs, NEW b
  PROVE  /\ Teardown(ScopeReset(j), All(j), All(j) \cup Base(j), b)
         /\ Base(j) \cap All(j) = {} /\ Requests \subseteq All(j) /\ Stream \in All(j)
         /\ All(j) = CASE j.program = "storage" -> StorageParts
                       [] j.program = "transport" -> TransportScopeParts
                       [] j.program = "verbs" -> VerbsParts
                       [] j.program = "torch" -> TorchParts
<1>0. j.program \in Programs
  BY DEF Jobs
<1>1. CASE j.program = "storage"
  <2>1. ScopeReset(j) = StorageScope /\ Base(j) = {}
    BY <1>1 DEF ScopeReset, Base
  <2>2. All(j) = StorageParts
    BY <2>1, StorageTeardown DEF All, Teardown
  <2>3. Requests \subseteq StorageParts /\ Stream \in StorageParts
    BY DEF StorageParts, LauncherParts
  <2>4. StorageParts \cup Base(j) = StorageParts
    BY <2>1
  <2> QED  BY <1>1, <2>1, <2>2, <2>3, <2>4, StorageTeardown
<1>2. CASE j.program = "transport"
  <2>1. ScopeReset(j) = TransportScope /\ Base(j) = {}
    BY <1>2 DEF ScopeReset, Base
  <2>2. All(j) = TransportScopeParts
    BY <2>1, TransportScopeTeardown DEF All, Teardown
  <2>3. Requests \subseteq TransportScopeParts /\ Stream \in TransportScopeParts
    BY DEF TransportScopeParts, LauncherParts
  <2>4. TransportScopeParts \cup Base(j) = TransportScopeParts
    BY <2>1
  <2> QED  BY <1>2, <2>1, <2>2, <2>3, <2>4, TransportScopeTeardown
<1>3. CASE j.program = "verbs"
  <2>1. ScopeReset(j) = VerbsScope /\ Base(j) = {}
    BY <1>3 DEF ScopeReset, Base
  <2>2. All(j) = VerbsParts
    BY <2>1, VerbsTeardown DEF All, Teardown
  <2>3. Requests \subseteq VerbsParts /\ Stream \in VerbsParts
    BY DEF VerbsParts, LauncherParts
  <2>4. VerbsParts \cup Base(j) = VerbsParts
    BY <2>1
  <2> QED  BY <1>3, <2>1, <2>2, <2>3, <2>4, VerbsTeardown
<1>4. CASE j.program = "torch"
  <2>1. ScopeReset(j) = TorchScope /\ Base(j) = {Acl}
    BY <1>4 DEF ScopeReset, Base
  <2>2. All(j) = TorchParts
    BY <2>1, TorchTeardown DEF All, Teardown
  <2>3. Requests \subseteq TorchParts /\ Stream \in TorchParts
    BY DEF TorchParts, LauncherParts
  <2> QED  BY <1>4, <2>1, <2>2, <2>3, TorchTeardown, AclOutside
<1> QED  BY <1>0, <1>1, <1>2, <1>3, <1>4 DEF Programs

-----------------------------------------------------------------------------
(* The open functions are sequences of good steps. *)

\* Sound steps, one by one.
LEMMA SoundTypes ==
  ASSUME NEW j, NEW fl, NEW S, NEW a, NEW A, NEW B, Sound(j, fl, S, <<a>>, A, B)
  PROVE  a \in Steps
<1>1. <<a>> \in Seq(Steps)
  BY DEF Sound
<1> QED  BY <1>1

\* Two good steps.
LEMMA Sound2 ==
  ASSUME NEW j, NEW fl, NEW S, NEW a, NEW b, NEW H0, NEW H1, NEW H2,
         Sound(j, fl, S, <<a>>, H0, H1), Sound(j, fl, S, <<b>>, H1, H2)
  PROVE  Sound(j, fl, S, <<a, b>>, H0, H2)
<1>1. a \in Steps /\ b \in Steps
  BY SoundTypes
<1>2. <<a>> \o <<b>> = <<a, b>>
  BY <1>1, Tuple2
<1> QED  BY <1>2, SoundConcat

\* Three good steps.
LEMMA Sound3 ==
  ASSUME NEW j, NEW fl, NEW S, NEW a, NEW b, NEW c, NEW H0, NEW H1, NEW H2, NEW H3,
         Sound(j, fl, S, <<a>>, H0, H1), Sound(j, fl, S, <<b>>, H1, H2), Sound(j, fl, S, <<c>>, H2, H3)
  PROVE  Sound(j, fl, S, <<a, b, c>>, H0, H3)
<1>1. a \in Steps /\ b \in Steps /\ c \in Steps
  BY SoundTypes
<1>2. Sound(j, fl, S, <<b, c>>, H1, H3)
  BY Sound2
<1>3. <<a>> \o <<b, c>> = <<a, b, c>>
  BY <1>1, Tuple3
<1> QED  BY <1>2, <1>3, SoundConcat

\* Four good steps.
LEMMA Sound4 ==
  ASSUME NEW j, NEW fl, NEW S, NEW a, NEW b, NEW c, NEW d, NEW H0, NEW H1, NEW H2, NEW H3, NEW H4,
         Sound(j, fl, S, <<a>>, H0, H1), Sound(j, fl, S, <<b>>, H1, H2),
         Sound(j, fl, S, <<c>>, H2, H3), Sound(j, fl, S, <<d>>, H3, H4)
  PROVE  Sound(j, fl, S, <<a, b, c, d>>, H0, H4)
<1>1. a \in Steps /\ b \in Steps /\ c \in Steps /\ d \in Steps
  BY SoundTypes
<1>2. Sound(j, fl, S, <<a, b>>, H0, H2) /\ Sound(j, fl, S, <<c, d>>, H2, H4)
  BY Sound2
<1>3. <<a, b>> \o <<c, d>> = <<a, b, c, d>>
  BY <1>1, Tuple4
<1> QED  BY <1>2, <1>3, SoundConcat

\* Five good steps.
LEMMA Sound5 ==
  ASSUME NEW j, NEW fl, NEW S, NEW a, NEW b, NEW c, NEW d, NEW e,
         NEW H0, NEW H1, NEW H2, NEW H3, NEW H4, NEW H5,
         Sound(j, fl, S, <<a>>, H0, H1), Sound(j, fl, S, <<b>>, H1, H2), Sound(j, fl, S, <<c>>, H2, H3),
         Sound(j, fl, S, <<d>>, H3, H4), Sound(j, fl, S, <<e>>, H4, H5)
  PROVE  Sound(j, fl, S, <<a, b, c, d, e>>, H0, H5)
<1>1. a \in Steps /\ b \in Steps /\ c \in Steps /\ d \in Steps /\ e \in Steps
  BY SoundTypes
<1>2. Sound(j, fl, S, <<b, c, d, e>>, H1, H5)
  BY Sound4
<1>3. <<a>> \o <<b, c, d, e>> = <<a, b, c, d, e>>
  BY <1>1, Tuple5
<1> QED  BY <1>2, <1>3, SoundConcat

\* The fields of a step.
LEMMA StepTypes ==
  ASSUME NEW d \in {"get", "check", "receive", "call", "wait", "submit", "leave", "exit"},
         NEW r \in Operands, NEW u \in Seq(Resources)
  PROVE  /\ Step(d, r, u) \in Steps
         /\ Step(d, r, u).do = d /\ Step(d, r, u).res = r /\ Step(d, r, u).undo = u
  BY DEF Step, Steps

\* What an open function undoes on a failure, it undoes in a right order.
UndoFine(j, u, H) ==
  u \in Seq(Resources) /\ Covers(u, H \cup Kept(H), j.backend) /\ Base(j) \cap ToSet(u) = {}

\* To undo nothing is fine anywhere.
LEMMA NoUndo ==
  ASSUME NEW j, NEW H
  PROVE  UndoFine(j, <<>>, H)
<1>1. <<>> \in Seq(Resources) /\ DOMAIN <<>> = {} /\ ToSet(<<>>) = {}
  BY DEF ToSet
<1> QED  BY <1>1 DEF UndoFine, Covers

\* Steps outside of a Session call.
Main(j, s, A, B) == Sound(j, FALSE, {}, s, A, B)

\* Checks, resources that are taken, kernels that are launched.
LEMMA MainCheckIn ==
  ASSUME NEW j, NEW u, NEW H \in SUBSET Resources, UndoFine(j, u, H)
  PROVE  Main(j, <<CheckIn(u)>>, H, H)
<1> DEFINE s == CheckIn(u)
<1>1. NoResource \in Operands
  BY DEF Operands
<1>2. s \in Steps /\ s.do = "check" /\ s.undo = u
  BY <1>1, StepTypes DEF CheckIn, UndoFine
<1> HIDE DEF s
<1>3. Good(j, FALSE, {}, s, H)
  BY <1>2 DEF Good, GetGood, LaunchGood, UndoGood, UndoFine
<1>4. H = After(s, H)
  BY <1>2 DEF After
<1>5. Sound(j, FALSE, {}, <<s>>, H, H)
  BY <1>2, <1>3, <1>4, SoundOne
<1> QED  BY <1>5 DEF Main, s

\* A check takes nothing and is good anywhere.
LEMMA MainCheck ==
  ASSUME NEW j, NEW H \in SUBSET Resources
  PROVE  Main(j, <<Check>>, H, H)
<1>1. Check = CheckIn(<<>>)
  BY DEF Check, CheckIn
<1>2. UndoFine(j, <<>>, H)
  BY NoUndo
<1> QED  BY <1>1, <1>2, MainCheckIn

\* So is a read from the peer.
LEMMA MainReceive ==
  ASSUME NEW j, NEW H \in SUBSET Resources
  PROVE  Main(j, <<Receive>>, H, H)
<1> DEFINE u == <<>>
           s == Receive
<1>1. NoResource \in Operands /\ UndoFine(j, u, H)
  BY NoUndo DEF Operands
<1>2. s = Step("receive", NoResource, u)
  BY DEF Receive
<1> HIDE DEF s, u
<1>3. s \in Steps /\ s.do = "receive" /\ s.undo = u
  BY <1>1, <1>2, StepTypes DEF UndoFine
<1>4. Good(j, FALSE, {}, s, H)
  BY <1>1, <1>3 DEF Good, GetGood, LaunchGood, UndoGood, UndoFine
<1>5. H = After(s, H)
  BY <1>3 DEF After
<1>6. Sound(j, FALSE, {}, <<s>>, H, H)
  BY <1>3, <1>4, <1>5, SoundOne
<1> QED  BY <1>6 DEF Main, s

\* A step that takes a resource of the program's scope is good where what the resource stands
\* on is open, if what it would undo is fine.
LEMMA MainGetIn ==
  ASSUME NEW j, NEW r \in All(j) \ (Requests \cup Lent), r \in Resources, NEW u, NEW H \in SUBSET Resources,
         UndoFine(j, u, H), Stands(r, j.backend) \subseteq H
  PROVE  Main(j, <<GetIn(r, u)>>, H, H \cup {r})
<1> DEFINE s == GetIn(r, u)
<1>1. r \in Operands
  BY DEF Operands
<1>2. s \in Steps /\ s.do = "get" /\ s.undo = u /\ s.res = r
  BY <1>1, StepTypes DEF GetIn, UndoFine
<1> HIDE DEF s
<1>3. Good(j, FALSE, {}, s, H)
  BY <1>2 DEF Good, GetGood, LaunchGood, UndoGood, UndoFine
<1>4. H \cup {r} = After(s, H)
  BY <1>2 DEF After
<1>5. Sound(j, FALSE, {}, <<s>>, H, H \cup {r})
  BY <1>2, <1>3, <1>4, SoundOne
<1> QED  BY <1>5 DEF Main, s

\* The same for a step that undoes nothing.
LEMMA MainGet ==
  ASSUME NEW j, NEW r \in All(j) \ (Requests \cup Lent), r \in Resources, NEW H \in SUBSET Resources,
         Stands(r, j.backend) \subseteq H
  PROVE  Main(j, <<Get(r)>>, H, H \cup {r})
<1>1. Get(r) = GetIn(r, <<>>)
  BY DEF Get, GetIn
<1>2. UndoFine(j, <<>>, H)
  BY NoUndo
<1> QED  BY <1>1, <1>2, MainGetIn

\* A launch is good where the stream and all its kernel uses is open.
LEMMA MainCall ==
  ASSUME NEW j, NEW d \in {"call", "wait", "submit"}, NEW k \in KernelKinds, NEW c \in Nat,
         NEW H \in SUBSET Resources,
         j.backend # "RA" => {Stream, Acl, NetService} \cup Descriptors(k) \subseteq H,
         d = "submit" => /\ j.program # "torch" /\ c \in 1 .. CommandCount
                         /\ j.batch => Buffer("entries", c) \in H
  PROVE  Main(j, <<Step(d, Kernel(k, c), <<>>)>>, H, H)
<1> DEFINE r == Kernel(k, c)
           s == Step(d, r, <<>>)
<1>1. r \in Operands /\ r[2] = k /\ r[3] = c
  BY DEF Operands, Kernel
<1>2. UndoFine(j, <<>>, H) /\ <<>> \in Seq(Resources)
  BY NoUndo DEF UndoFine
<1> HIDE DEF r
<1>3. s \in Steps /\ s.do = d /\ s.undo = <<>> /\ s.res = r
  <2>1. d \in {"get", "check", "receive", "call", "wait", "submit", "leave", "exit"}
    OBVIOUS
  <2> DEFINE u == <<>>
  <2>2. u \in Seq(Resources)
    OBVIOUS
  <2> HIDE DEF u
  <2>3. Step(d, r, u) \in Steps /\ Step(d, r, u).do = d /\ Step(d, r, u).undo = u /\ Step(d, r, u).res = r
    BY <1>1, <2>1, <2>2, StepTypes
  <2> QED  BY <2>3 DEF u
<1> HIDE DEF s
<1>4. GetGood(j, FALSE, s, H)
  BY <1>3 DEF GetGood
<1>5. LaunchGood(j, s, H)
  BY <1>1, <1>3 DEF LaunchGood
<1>6. UndoGood(j, FALSE, {}, s, H)
  BY <1>2, <1>3 DEF UndoGood, UndoFine
<1>7. H = After(s, H)
  BY <1>3 DEF After
<1>8. Good(j, FALSE, {}, s, H)
  BY <1>4, <1>5, <1>6 DEF Good
<1>9. Sound(j, FALSE, {}, <<s>>, H, H)
  BY <1>3, <1>7, <1>8, SoundOne
<1> QED  BY <1>9 DEF Main, s, r

\* What the scope of each program holds.
LEMMA AllFacts ==
  ASSUME NEW j \in Jobs
  PROVE  /\ {NetService, Ra, Rdev, Binary, Stream} \subseteq All(j) /\ QpParts(1) \subseteq All(j)
         /\ j.program # "torch" => Acl \in All(j)
         /\ j.program # "verbs" => TransportParts \subseteq All(j)
         /\ j.program \in {"storage", "torch"} => ClientParts \subseteq All(j)
         /\ j.program = "storage" => AllCommandParts \subseteq All(j)
         /\ j.program \in {"transport", "verbs"} => {Region("data", 1), Buffer("data", 1)} \subseteq All(j)
<1>0. j.program \in Programs
  BY DEF Jobs
<1>a. 1 \in 1 .. QpCount
  BY QpAssumption
<1>1. QpParts(1) \subseteq TransportParts /\ {Ra, Rdev} \subseteq TransportParts /\ Binary \in LauncherParts
  BY <1>a DEF TransportParts, AllQpParts, LauncherParts
<1>2. CASE j.program = "storage"
  <2>1. All(j) = StorageParts
    BY <1>2, ScopeTeardown
  <2> QED  BY <1>1, <1>2, <2>1 DEF StorageParts
<1>3. CASE j.program = "transport"
  <2>1. All(j) = TransportScopeParts
    BY <1>3, ScopeTeardown
  <2> QED  BY <1>1, <1>3, <2>1 DEF TransportScopeParts
<1>4. CASE j.program = "verbs"
  <2>1. All(j) = VerbsParts
    BY <1>4, ScopeTeardown
  <2> QED  BY <1>1, <1>4, <2>1 DEF VerbsParts
<1>5. CASE j.program = "torch"
  <2>1. All(j) = TorchParts
    BY <1>5, ScopeTeardown
  <2> QED  BY <1>1, <1>5, <2>1 DEF TorchParts
<1> QED  BY <1>0, <1>2, <1>3, <1>4, <1>5 DEF Programs

\* Nothing an object holds is lent to a call, or one of the requests.
LEMMA NotLent ==
  /\ \A r : r[1] # "buffer" => r \notin Requests \cup Lent
  /\ \A n, c : n \notin {"args", "completions", "request"} => Buffer(n, c) \notin Requests \cup Lent
<1>1. ASSUME NEW r \in Requests \cup Lent PROVE r[1] = "buffer" /\ r[2] \in {"args", "completions", "request"}
  BY BufferKind DEF Requests, Lent, Request, Args, Completions
<1>2. ASSUME NEW n, NEW c, Buffer(n, c) \in Requests \cup Lent PROVE n \in {"args", "completions", "request"}
  <2>1. Buffer(n, c)[2] \in {"args", "completions", "request"}
    BY <1>1, <1>2
  <2> QED  BY <2>1, BufferKind
<1> QED  BY <1>1, <1>2

\* None of the single resources is lent to a kernel.
LEMMA SinglesNotLent ==
  {Acl, NetService, Ra, Rdev, Binary, Stream} \cap (Requests \cup Lent) = {}
  BY NotLent, SingleKinds

\* An open runtime; an open endpoint on it.
Infra0 == {Acl, NetService}
Infra == {Acl, NetService, Ra, Rdev}

\* Without a stream the launcher keeps no request.
LEMMA KeptNone ==
  ASSUME NEW H, Stream \notin H
  PROVE  H \cup Kept(H) = H
  BY DEF Kept

\* Steps one after the other.
LEMMA MainConcat ==
  ASSUME NEW j, NEW s, NEW t, NEW A, NEW B, NEW C, Main(j, s, A, B), Main(j, t, B, C)
  PROVE  Main(j, s \o t, A, C)
  BY SoundConcat, Zenon DEF Main

\* Two good steps of the program.
LEMMA Main2 ==
  ASSUME NEW j, NEW a, NEW b, NEW H0, NEW H1, NEW H2, Main(j, <<a>>, H0, H1), Main(j, <<b>>, H1, H2)
  PROVE  Main(j, <<a, b>>, H0, H2)
  BY Sound2 DEF Main

\* Three of them.
LEMMA Main3 ==
  ASSUME NEW j, NEW a, NEW b, NEW c, NEW H0, NEW H1, NEW H2, NEW H3,
         Main(j, <<a>>, H0, H1), Main(j, <<b>>, H1, H2), Main(j, <<c>>, H2, H3)
  PROVE  Main(j, <<a, b, c>>, H0, H3)
  BY Sound3 DEF Main

\* Four of them.
LEMMA Main4 ==
  ASSUME NEW j, NEW a, NEW b, NEW c, NEW d, NEW H0, NEW H1, NEW H2, NEW H3, NEW H4,
         Main(j, <<a>>, H0, H1), Main(j, <<b>>, H1, H2), Main(j, <<c>>, H2, H3), Main(j, <<d>>, H3, H4)
  PROVE  Main(j, <<a, b, c, d>>, H0, H4)
  BY Sound4 DEF Main

\* Runtime::open and Endpoint::open.
LEMMA MainRuntime ==
  ASSUME NEW j \in Jobs
  PROVE  IF j.program = "torch" THEN Main(j, RuntimeOpen(TRUE), {Acl}, Infra0)
         ELSE Main(j, RuntimeOpen(FALSE), {}, Infra0)
<1>1. \A H : H \subseteq Infra0 => H \in SUBSET Resources /\ H \cup Kept(H) = H
  <2>1. SUFFICES ASSUME NEW H, H \subseteq Infra0 PROVE H \in SUBSET Resources /\ Stream \notin H
    BY KeptNone
  <2>2. Infra0 \subseteq Resources /\ Stream \notin Infra0
    BY Known, SingleKinds DEF Infra0
  <2> QED  BY <2>1, <2>2
<1>2. Acl \notin Requests \cup Lent /\ NetService \notin Requests \cup Lent
  BY SinglesNotLent
<1>3. CASE j.program = "torch"
  <2> DEFINE u == RuntimeReset(TRUE)
  <2>1. \A H : H \subseteq Infra0 => UndoFine(j, u, H)
    <3>1. Base(j) \cap {NetService} = {}
      BY <1>3, SingleKinds DEF Base
    <3>2. \A H : H \subseteq {NetService, Acl} => Teardown(u, {NetService}, H, j.backend)
      BY RuntimeTeardown
    <3>3. \A H : H \subseteq Infra0 => Teardown(u, {NetService}, H, j.backend)
      BY <3>2 DEF Infra0
    <3> HIDE DEF u
    <3>4. SUFFICES ASSUME NEW H, H \subseteq Infra0 PROVE UndoFine(j, u, H)
      OBVIOUS
    <3>5. Teardown(u, {NetService}, H, j.backend) /\ H \cup Kept(H) = H
      BY <1>1, <3>3, <3>4
    <3> QED  BY <3>1, <3>5 DEF UndoFine, Teardown
  <2>2. RuntimeOpen(TRUE) = <<>> \o <<CheckIn(u), GetIn(NetService, u)>>
    BY DEF RuntimeOpen
  <2> HIDE DEF u
  <2>3. {Acl} \subseteq Infra0 /\ {Acl} \cup {NetService} = Infra0 /\ {Acl} \in SUBSET Resources
    BY Known DEF Infra0
  <2>4. Main(j, <<CheckIn(u)>>, {Acl}, {Acl})
    BY <2>1, <2>3, MainCheckIn
  <2>5. Main(j, <<GetIn(NetService, u)>>, {Acl}, {Acl} \cup {NetService})
    <3>1. NetService \in All(j) \ (Requests \cup Lent) /\ NetService \in Resources
      BY <1>2, AllFacts, Known
    <3>2. Stands(NetService, j.backend) \subseteq {Acl}
      BY SingleStands
    <3> QED  BY <2>1, <2>3, <3>1, <3>2, MainGetIn
  <2>6. Main(j, <<CheckIn(u), GetIn(NetService, u)>>, {Acl}, Infra0)
    BY <2>3, <2>4, <2>5, Main2
  <2>7. Main(j, <<>>, {Acl}, {Acl})
    BY <2>3, SoundNone DEF Main
  <2>8. Main(j, RuntimeOpen(TRUE), {Acl}, Infra0)
    BY <2>2, <2>6, <2>7, MainConcat
  <2> QED  BY <1>3, <2>8
<1>4. CASE j.program # "torch"
  <2> DEFINE u == RuntimeReset(FALSE)
  <2>1. \A H : H \subseteq Infra0 => UndoFine(j, u, H)
    <3>1. Base(j) = {}
      BY <1>4 DEF Base
    <3>2. \A H : H \subseteq {NetService, Acl} => Teardown(u, {NetService, Acl}, H, j.backend)
      BY RuntimeTeardown
    <3>3. \A H : H \subseteq Infra0 => Teardown(u, {NetService, Acl}, H, j.backend)
      BY <3>2 DEF Infra0
    <3> HIDE DEF u
    <3>4. SUFFICES ASSUME NEW H, H \subseteq Infra0 PROVE UndoFine(j, u, H)
      OBVIOUS
    <3>5. Teardown(u, {NetService, Acl}, H, j.backend) /\ H \cup Kept(H) = H
      BY <1>1, <3>3, <3>4
    <3> QED  BY <3>1, <3>5 DEF UndoFine, Teardown
  <2>2. RuntimeOpen(FALSE) = <<GetIn(Acl, u), CheckIn(u)>> \o <<CheckIn(u), GetIn(NetService, u)>>
    BY DEF RuntimeOpen
  <2> HIDE DEF u
  <2>3. /\ {} \subseteq Infra0 /\ {} \cup {Acl} = {Acl} /\ {} \in SUBSET Resources
        /\ {Acl} \subseteq Infra0 /\ {Acl} \cup {NetService} = Infra0 /\ {Acl} \in SUBSET Resources
    BY Known DEF Infra0
  <2>4. Main(j, <<CheckIn(u)>>, {Acl}, {Acl})
    BY <2>1, <2>3, MainCheckIn
  <2>5. Main(j, <<GetIn(NetService, u)>>, {Acl}, {Acl} \cup {NetService})
    <3>1. NetService \in All(j) \ (Requests \cup Lent) /\ NetService \in Resources
      BY <1>2, AllFacts, Known
    <3>2. Stands(NetService, j.backend) \subseteq {Acl}
      BY SingleStands
    <3> QED  BY <2>1, <2>3, <3>1, <3>2, MainGetIn
  <2>6. Main(j, <<GetIn(Acl, u)>>, {}, {} \cup {Acl})
    <3>1. Acl \in All(j) \ (Requests \cup Lent) /\ Acl \in Resources
      BY <1>2, <1>4, AllFacts, Known
    <3>2. Stands(Acl, j.backend) \subseteq {}
      BY SingleStands
    <3> QED  BY <2>1, <2>3, <3>1, <3>2, MainGetIn
  <2>7. Main(j, <<GetIn(Acl, u), CheckIn(u)>>, {}, {Acl})
    BY <2>3, <2>4, <2>6, Main2
  <2>8. Main(j, <<CheckIn(u), GetIn(NetService, u)>>, {Acl}, Infra0)
    BY <2>3, <2>4, <2>5, Main2
  <2>9. Main(j, RuntimeOpen(FALSE), {}, Infra0)
    BY <2>2, <2>7, <2>8, MainConcat
  <2> QED  BY <1>4, <2>9
<1> QED  BY <1>3, <1>4

\* Endpoint::open is sound: a failure undoes what the endpoint has got so far.
LEMMA MainEndpoint ==
  ASSUME NEW j \in Jobs
  PROVE  Main(j, EndpointOpen, Infra0, Infra)
<1> DEFINE u == EndpointReset
           H1 == Infra0 \cup {Ra}
           H2 == H1 \cup {Rdev}
<1>1. /\ Infra0 \in SUBSET Resources /\ H1 \in SUBSET Resources /\ H2 = Infra
      /\ Stream \notin H1 /\ Infra0 \subseteq H1 /\ \A x \in H1 : x[1] # "region" /\ x[1] # "qp"
  BY Known, SingleKinds DEF Infra0, Infra
<1>2. \A H : H \subseteq H1 => UndoFine(j, u, H)
  <2> HIDE DEF H1
  <2>1. SUFFICES ASSUME NEW H, H \subseteq H1 PROVE UndoFine(j, u, H)
    OBVIOUS
  <2>2. Teardown(u, {Rdev, Ra}, H, j.backend)
    BY <1>1, <2>1, EndpointTeardown
  <2>3. H \cup Kept(H) = H
    BY <1>1, <2>1, KeptNone
  <2>4. Base(j) \cap {Rdev, Ra} = {}
    BY SingleKinds DEF Base
  <2> QED  BY <2>2, <2>3, <2>4 DEF UndoFine, Teardown
<1>3. EndpointOpen = <<CheckIn(u), GetIn(Ra, u), CheckIn(u), GetIn(Rdev, u)>>
  BY DEF EndpointOpen
<1> HIDE DEF u
<1>4. Main(j, <<CheckIn(u)>>, Infra0, Infra0) /\ Main(j, <<CheckIn(u)>>, H1, H1)
  BY <1>1, <1>2, MainCheckIn
<1>5. Main(j, <<GetIn(Ra, u)>>, Infra0, H1)
  <2>1. Ra \in All(j) \ (Requests \cup Lent) /\ Ra \in Resources
    BY SinglesNotLent, AllFacts, Known
  <2>2. Stands(Ra, j.backend) \subseteq Infra0
    BY SingleStands DEF Infra0
  <2> QED  BY <1>1, <1>2, <2>1, <2>2, MainGetIn
<1>6. Main(j, <<GetIn(Rdev, u)>>, H1, H2)
  <2>1. Rdev \in All(j) \ (Requests \cup Lent) /\ Rdev \in Resources
    BY SinglesNotLent, AllFacts, Known
  <2>2. Stands(Rdev, j.backend) \subseteq H1
    BY SingleStands
  <2> HIDE DEF H1
  <2> QED  BY <1>1, <1>2, <2>1, <2>2, MainGetIn
<1>7. Main(j, <<CheckIn(u), GetIn(Ra, u), CheckIn(u), GetIn(Rdev, u)>>, Infra0, H2)
  <2> HIDE DEF H1, H2
  <2> QED  BY <1>4, <1>5, <1>6, Main4
<1> QED  BY <1>1, <1>3, <1>7

\* The endpoint is open, and there is no stream and no region yet.
Clean(H) == H \in SUBSET Resources /\ Infra \subseteq H /\ Stream \notin H /\ \A x \in H : x[1] # "region"

\* With the endpoint open, everything has what it stands on, a region its buffer aside.
LEMMA InfraStands ==
  ASSUME NEW b, NEW H, Infra \subseteq H
  PROVE  /\ \A q : Stands(Qp(q), b) \subseteq H
         /\ \A n, c : Stands(Buffer(n, c), b) \subseteq H
         /\ \A n, c : Buffer(n, c) \in H => Stands(Region(n, c), b) \subseteq H
         /\ Stands(Binary, b) \subseteq H /\ Stands(Stream, b) \subseteq H
  BY QpStands, BufferStands, RegionStands, SingleStands DEF Infra

\* With the runtime and the endpoint alone there is neither a stream nor a region.
LEMMA InfraClean == Clean(Infra)
  BY Known, SingleKinds DEF Clean, Infra

\* What a queue pair takes with each backend.
QpGot(q, b) == IF b = "RA" THEN {Qp(q)} ELSE QpParts(q)

\* No part of a queue pair is there before the program starts.
LEMMA QpBaseFree ==
  ASSUME NEW j, NEW q \in 1 .. QpCount
  PROVE  Base(j) \cap QpParts(q) = {}
<1>1. \A x \in QpParts(q) : x[1] = "qp" \/ x[1] = "buffer"
  BY QpPartsKinds
<1> QED  BY <1>1, SingleKinds DEF Base

\* A resource that is neither a stream nor a region leaves it so.
LEMMA CleanMore ==
  ASSUME NEW H, Clean(H), NEW r \in Resources, r # Stream, r[1] # "region"
  PROVE  Clean(H \cup {r})
  BY DEF Clean

\* QueuePair::initialize.
LEMMA MainQp ==
  ASSUME NEW j \in Jobs, NEW q \in 1 .. QpCount, QpParts(q) \subseteq All(j), NEW H, Clean(H)
  PROVE  Main(j, QpCreate(q, j.backend), H, H \cup QpGot(q, j.backend)) /\ Clean(H \cup QpGot(q, j.backend))
<1> DEFINE u == QpReset(q)
           SB == Buffer("sendWrIds", q)
           RB == Buffer("recvWrIds", q)
           b == j.backend
<1>1. \A G : Clean(G) => UndoFine(j, u, G)
  <2>1. SUFFICES ASSUME NEW G, Clean(G) PROVE UndoFine(j, u, G)
    OBVIOUS
  <2>2. Teardown(u, QpParts(q), G, b)
    BY <2>1, QpTeardown DEF Clean
  <2>3. G \cup Kept(G) = G
    BY <2>1, KeptNone DEF Clean
  <2>4. Base(j) \cap QpParts(q) = {}
    BY QpBaseFree
  <2> QED  BY <2>2, <2>3, <2>4 DEF UndoFine, Teardown
<1>2. /\ Qp(q) \in Resources /\ SB \in Resources /\ RB \in Resources
      /\ Qp(q) \in All(j) /\ SB \in All(j) /\ RB \in All(j)
      /\ Qp(q) # Stream /\ SB # Stream /\ RB # Stream
      /\ Qp(q)[1] # "region" /\ SB[1] # "region" /\ RB[1] # "region"
  <2>1. Qp(q) \in QpParts(q) /\ SB \in QpParts(q) /\ RB \in QpParts(q)
    BY DEF QpParts
  <2>2. \A x \in QpParts(q) : x \in Resources /\ x # Stream /\ x[1] # "region"
    BY QpPartsKinds, SingleKinds
  <2> QED  BY <2>1, <2>2
<1>3. Qp(q) \notin Requests \cup Lent /\ SB \notin Requests \cup Lent /\ RB \notin Requests \cup Lent
  BY NotLent, QpKind
<1> DEFINE H1 == H \cup {Qp(q)}
           H2 == H1 \cup {SB}
           H3 == H2 \cup {RB}
<1>4. Clean(H1) /\ Clean(H2) /\ Clean(H3)
  <2>1. Clean(H1)  BY <1>2, CleanMore
  <2> HIDE DEF H1
  <2>2. Clean(H2)  BY <1>2, <2>1, CleanMore
  <2> HIDE DEF H2
  <2>3. Clean(H3)  BY <1>2, <2>2, CleanMore
  <2> QED  BY <2>1, <2>2, <2>3
<1>5. QpCreate(q, b) = (<<GetIn(Qp(q), u)>> \o (IF b = "RA" THEN <<>> ELSE <<CheckIn(u), GetIn(SB, u), GetIn(RB, u)>>))
                          \o <<CheckIn(u)>>
  BY DEF QpCreate
<1>6. H \cup QpGot(q, b) = IF b = "RA" THEN H1 ELSE H3
  BY DEF QpGot, QpParts
<1> HIDE DEF u, SB, RB
<1>7. Main(j, <<GetIn(Qp(q), u)>>, H, H1)
  <2>1. Stands(Qp(q), j.backend) \subseteq H
    BY InfraStands DEF Clean
  <2>2. Qp(q) \in All(j) \ (Requests \cup Lent) /\ H \in SUBSET Resources
    BY <1>2, <1>3 DEF Clean
  <2> QED  BY <1>1, <1>2, <2>1, <2>2, MainGetIn
<1>8. CASE b = "RA"
  <2>0. H1 \in SUBSET Resources
    BY <1>4 DEF Clean
  <2> HIDE DEF H1
  <2>1. Main(j, <<>>, H1, H1)
    BY <2>0, SoundNone DEF Main
  <2>2. Main(j, <<GetIn(Qp(q), u)>> \o <<>>, H, H1)
    BY <1>7, <2>1, MainConcat
  <2>3. Main(j, <<CheckIn(u)>>, H1, H1)
    BY <1>1, <1>4, <2>0, MainCheckIn
  <2>4. Main(j, (<<GetIn(Qp(q), u)>> \o <<>>) \o <<CheckIn(u)>>, H, H1)
    BY <2>2, <2>3, MainConcat
  <2> QED  BY <1>4, <1>5, <1>6, <1>8, <2>4
<1>9. CASE b # "RA"
  <2>0. H1 \in SUBSET Resources /\ H2 \in SUBSET Resources /\ H3 \in SUBSET Resources /\ Infra \subseteq H1 /\ Infra \subseteq H2
    BY <1>4 DEF Clean
  <2> HIDE DEF H1
  <2>1. Main(j, <<CheckIn(u)>>, H1, H1)
    BY <1>1, <1>4, <2>0, MainCheckIn
  <2>2. Main(j, <<GetIn(SB, u)>>, H1, H2)
    <3>1. Stands(SB, j.backend) \subseteq H1
      BY <2>0, InfraStands DEF SB
    <3>2. SB \in All(j) \ (Requests \cup Lent)
      BY <1>2, <1>3
    <3> QED  BY <1>1, <1>2, <1>4, <2>0, <3>1, <3>2, MainGetIn
  <2> HIDE DEF H2
  <2>3. Main(j, <<GetIn(RB, u)>>, H2, H3)
    <3>1. Stands(RB, j.backend) \subseteq H2
      BY <2>0, InfraStands DEF RB
    <3>2. RB \in All(j) \ (Requests \cup Lent)
      BY <1>2, <1>3
    <3> QED  BY <1>1, <1>2, <1>4, <2>0, <3>1, <3>2, MainGetIn
  <2> HIDE DEF H3
  <2>4. Main(j, <<CheckIn(u), GetIn(SB, u), GetIn(RB, u)>>, H1, H3)
    BY <2>1, <2>2, <2>3, Main3
  <2>5. Main(j, <<CheckIn(u)>>, H3, H3)
    BY <1>1, <1>4, <2>0, MainCheckIn
  <2> DEFINE m == <<CheckIn(u), GetIn(SB, u), GetIn(RB, u)>>
  <2>6. QpCreate(q, b) = (<<GetIn(Qp(q), u)>> \o m) \o <<CheckIn(u)>>
    BY <1>5, <1>9
  <2> HIDE DEF m
  <2>7. Main(j, <<GetIn(Qp(q), u)>> \o m, H, H3)
    BY <1>7, <2>4, MainConcat DEF m
  <2>8. Main(j, (<<GetIn(Qp(q), u)>> \o m) \o <<CheckIn(u)>>, H, H3)
    BY <2>5, <2>7, MainConcat
  <2> QED  BY <1>4, <1>6, <1>9, <2>6, <2>8
<1> QED  BY <1>8, <1>9

\* A loop of sound rounds.
LEMMA MainFlatten ==
  ASSUME NEW j, NEW ss, NEW N \in Nat \ {0}, ss = [i \in 1 .. N |-> ss[i]], NEW I,
         \A i \in 1 .. N : Main(j, ss[i], I[i - 1], I[i])
  PROVE  Main(j, FlattenSeq(ss), I[0], I[N])
<1>1. \A i \in 1 .. N : ss[i] \in Seq(Steps)
  BY DEF Main, Sound
<1>2. ss \in Seq(Seq(Steps)) /\ Len(ss) = N
  BY <1>1
<1>3. \A i \in 1 .. Len(ss) : Sound(j, FALSE, {}, ss[i], I[i - 1], I[i])
  BY <1>2 DEF Main
<1>4. Len(ss) # 0
  BY <1>2
<1>5. Sound(j, FALSE, {}, FlattenSeq(ss), I[0], I[Len(ss)])
  BY <1>2, <1>3, <1>4, SoundFlatten
<1> QED  BY <1>2, <1>5 DEF Main

\* The queue pairs of a transport.
QpsGot(k, b) == UNION {QpGot(q, b) : q \in 1 .. k}

\* The queue pairs are created one after the other, each on what the endpoint has got.
LEMMA MainQps ==
  ASSUME NEW j \in Jobs, TransportParts \subseteq All(j)
  PROVE  /\ Main(j, FlattenSeq([q \in 1 .. QpCount |-> QpCreate(q, j.backend)]), Infra,
                 Infra \cup QpsGot(QpCount, j.backend))
         /\ Clean(Infra \cup QpsGot(QpCount, j.backend))
<1> DEFINE b == j.backend
           ss == [q \in 1 .. QpCount |-> QpCreate(q, b)]
           I == [k \in 0 .. QpCount |-> Infra \cup QpsGot(k, b)]
           Bad == {k \in 0 .. QpCount : ~Clean(I[k])}
<1>0. QpCount \in Nat \ {0}
  BY QpAssumption
<1>1. I[0] = Infra
  <2>1. 1 .. 0 = {} /\ 0 \in 0 .. QpCount  BY <1>0
  <2> QED  BY <2>1 DEF QpsGot
<1>2. ASSUME NEW q \in 1 .. QpCount PROVE I[q] = I[q - 1] \cup QpGot(q, b)
  <2>1. 1 .. q = (1 .. q - 1) \cup {q} /\ q \in 0 .. QpCount /\ q - 1 \in 0 .. QpCount
    BY <1>0
  <2>2. QpsGot(q, b) = QpsGot(q - 1, b) \cup QpGot(q, b)
    BY <2>1, Zenon DEF QpsGot
  <2> QED  BY <2>1, <2>2
<1>3. \A q \in 1 .. QpCount : QpParts(q) \subseteq All(j)
  BY DEF TransportParts, AllQpParts
<1>4. \A q \in 1 .. QpCount : Clean(I[q - 1]) => Main(j, QpCreate(q, b), I[q - 1], I[q]) /\ Clean(I[q])
  <2> HIDE DEF I
  <2> QED  BY <1>2, <1>3, MainQp
<1> HIDE DEF I
<1>5. Bad = {}
  <2>1. SUFFICES ASSUME Bad # {} PROVE FALSE
    OBVIOUS
  <2>2. PICK m \in Bad : \A y \in Bad : m <= y
    <3>1. Bad \subseteq Nat  BY <1>0
    <3> HIDE DEF Bad
    <3> QED  BY <3>1, <2>1, Least
  <2>3. m \in 0 .. QpCount /\ ~Clean(I[m])
    OBVIOUS
  <2>4. m # 0
    BY <2>3, <1>1, InfraClean
  <2>5. m \in 1 .. QpCount /\ m - 1 \in 0 .. QpCount /\ m - 1 \notin Bad
    <3> HIDE DEF Bad
    <3> QED  BY <2>2, <2>3, <2>4, <1>0
  <2>6. Clean(I[m - 1])
    BY <2>5
  <2> QED  BY <2>3, <2>5, <2>6, <1>4
<1>6. \A k \in 0 .. QpCount : Clean(I[k])
  BY <1>5
<1>7. \A q \in 1 .. QpCount : Main(j, ss[q], I[q - 1], I[q])
  <2>1. \A q \in 1 .. QpCount : q - 1 \in 0 .. QpCount
    BY <1>0
  <2>2. \A q \in 1 .. QpCount : ss[q] = QpCreate(q, b)
    OBVIOUS
  <2> HIDE DEF ss
  <2> QED  BY <1>4, <1>6, <2>1, <2>2
<1>8. ss = [i \in 1 .. QpCount |-> ss[i]]
  OBVIOUS
<1> HIDE DEF ss
<1>9. Main(j, FlattenSeq(ss), I[0], I[QpCount])
  BY <1>0, <1>7, <1>8, MainFlatten
<1>10. QpCount \in 0 .. QpCount /\ I[QpCount] = Infra \cup QpsGot(QpCount, b)
  BY <1>0 DEF I
<1> QED  BY <1>1, <1>6, <1>9, <1>10 DEF ss

\* A local buffer that a failure frees.
LEMMA BufferUndo ==
  ASSUME NEW j, NEW H, Clean(H), NEW n \in Names, NEW c \in Nat
  PROVE  UndoFine(j, <<Buffer(n, c)>>, H)
<1>1. ToSet(<<Buffer(n, c)>>) = {Buffer(n, c)} /\ <<Buffer(n, c)>> \in Seq(Resources)
  BY ToSet1, Known
<1>2. Region(n, c) \notin H /\ Stream \notin H /\ H \subseteq Resources
  BY RegionKind DEF Clean
<1>3. \A x \in H : Buffer(n, c) \notin Under(x, j.backend)
  BY <1>2, FreeBuffer
<1>4. Covers(<<Buffer(n, c)>>, H, j.backend)
  BY <1>1, <1>3, CoversFree
<1>5. H \cup Kept(H) = H
  BY <1>2, KeptNone
<1>6. Base(j) \cap {Buffer(n, c)} = {}
  BY BufferKind, SingleKinds DEF Base
<1> QED  BY <1>1, <1>4, <1>5, <1>6 DEF UndoFine

\* Transport::build_device_transport.
DeviceGot(b) == {Buffer("qpStates", 0)} \cup IF b = "RA" THEN {} ELSE {Buffer("deviceQpAddresses", 0)}

\* Transport::build_device_transport is sound: each array is undone alone.
LEMMA MainBuild ==
  ASSUME NEW j \in Jobs, TransportParts \subseteq All(j), NEW H, Clean(H)
  PROVE  /\ Main(j, BuildDeviceTransport(j.backend), H, H \cup DeviceGot(j.backend))
         /\ Clean(H \cup DeviceGot(j.backend))
<1> DEFINE P == Buffer("qpStates", 0)
           A == Buffer("deviceQpAddresses", 0)
           b == j.backend
           H1 == H \cup {P}
           H2 == H1 \cup {A}
<1>1. /\ P \in Resources /\ A \in Resources /\ P \in All(j) /\ A \in All(j)
      /\ P # Stream /\ A # Stream /\ P[1] # "region" /\ A[1] # "region"
  <2>1. P \in TransportParts /\ A \in TransportParts
    BY DEF TransportParts
  <2> QED  BY <2>1, TransportKinds
<1>2. P \notin Requests \cup Lent /\ A \notin Requests \cup Lent
  BY NotLent
<1>3. Clean(H1) /\ Clean(H2)
  <2>1. Clean(H1)  BY <1>1, CleanMore
  <2> HIDE DEF H1
  <2> QED  BY <1>1, <2>1, CleanMore
<1>4. \A G : Clean(G) => /\ UndoFine(j, <<P>>, G) /\ UndoFine(j, <<A>>, G) /\ G \in SUBSET Resources
                         /\ Stands(P, b) \subseteq G /\ Stands(A, b) \subseteq G
  BY BufferUndo, NameFacts, InfraStands DEF Clean
<1>5. BuildDeviceTransport(b) =
        <<Check, GetIn(P, <<P>>), CheckIn(<<P>>)>> \o (IF b = "RA" THEN <<>> ELSE <<GetIn(A, <<A>>), CheckIn(<<A>>)>>)
  BY DEF BuildDeviceTransport
<1>6. H \cup DeviceGot(b) = IF b = "RA" THEN H1 ELSE H2
  BY DEF DeviceGot
<1> HIDE DEF P, A
<1>7. Main(j, <<Check>>, H, H)
  BY <1>4, MainCheck
<1>8. Main(j, <<GetIn(P, <<P>>)>>, H, H1)
  <2>1. P \in All(j) \ (Requests \cup Lent)
    BY <1>1, <1>2
  <2> QED  BY <1>1, <1>4, <2>1, MainGetIn
<1> HIDE DEF H1
<1>9. Main(j, <<CheckIn(<<P>>)>>, H1, H1)
  BY <1>3, <1>4, MainCheckIn
<1>10. Main(j, <<Check, GetIn(P, <<P>>), CheckIn(<<P>>)>>, H, H1)
  BY <1>7, <1>8, <1>9, Main3
<1>11. CASE b = "RA"
  <2>1. Main(j, <<>>, H1, H1)
    BY <1>3, <1>4, SoundNone DEF Main
  <2> DEFINE m == <<Check, GetIn(P, <<P>>), CheckIn(<<P>>)>>
  <2>2. BuildDeviceTransport(b) = m \o <<>>
    BY <1>5, <1>11
  <2>3. Main(j, m, H, H1)
    BY <1>10
  <2> HIDE DEF m
  <2>4. Main(j, m \o <<>>, H, H1)
    BY <2>1, <2>3, MainConcat
  <2> QED  BY <1>3, <1>6, <1>11, <2>2, <2>4
<1>12. CASE b # "RA"
  <2>1. Main(j, <<GetIn(A, <<A>>)>>, H1, H2)
    <3>1. A \in All(j) \ (Requests \cup Lent)
      BY <1>1, <1>2
    <3> QED  BY <1>1, <1>3, <1>4, <3>1, MainGetIn
  <2> HIDE DEF H2
  <2>2. Main(j, <<CheckIn(<<A>>)>>, H2, H2)
    BY <1>3, <1>4, MainCheckIn
  <2>3. Main(j, <<GetIn(A, <<A>>), CheckIn(<<A>>)>>, H1, H2)
    BY <2>1, <2>2, Main2
  <2> DEFINE m == <<Check, GetIn(P, <<P>>), CheckIn(<<P>>)>>
             w == <<GetIn(A, <<A>>), CheckIn(<<A>>)>>
  <2>4. BuildDeviceTransport(b) = m \o w
    BY <1>5, <1>12
  <2>5. Main(j, m, H, H1) /\ Main(j, w, H1, H2)
    BY <1>10, <2>3
  <2> HIDE DEF m, w
  <2>6. Main(j, m \o w, H, H2)
    BY <2>5, MainConcat
  <2> QED  BY <1>3, <1>6, <1>12, <2>4, <2>6
<1> QED  BY <1>11, <1>12

\* Transport::open.
TransportGot(b) == (Infra \cup QpsGot(QpCount, b)) \cup DeviceGot(b)

\* Transport::open is sound for every number of queue pairs.
LEMMA MainTransport ==
  ASSUME NEW j \in Jobs, j.program # "verbs"
  PROVE  Main(j, TransportOpen(j.backend), Infra0, TransportGot(j.backend)) /\ Clean(TransportGot(j.backend))
<1> DEFINE b == j.backend
           f == FlattenSeq([q \in 1 .. QpCount |-> QpCreate(q, b)])
           H1 == Infra \cup QpsGot(QpCount, b)
           H2 == TransportGot(b)
<1>1. TransportParts \subseteq All(j)
  BY AllFacts
<1>2. Main(j, f, Infra, H1) /\ Clean(H1)
  BY <1>1, MainQps
<1>3. Main(j, BuildDeviceTransport(b), H1, H2) /\ Clean(H2)
  <2>1. H2 = H1 \cup DeviceGot(b)
    BY DEF TransportGot
  <2> HIDE DEF H1
  <2> QED  BY <1>1, <1>2, <2>1, MainBuild
<1>4. Main(j, EndpointOpen, Infra0, Infra)
  BY MainEndpoint
<1>5. TransportOpen(b) = ((((EndpointOpen \o <<Receive>>) \o f) \o <<Receive>>) \o BuildDeviceTransport(b)) \o <<Check>>
  BY DEF TransportOpen
<1> HIDE DEF f, H1, H2
<1>6. Main(j, <<Receive>>, Infra, Infra) /\ Main(j, <<Receive>>, H1, H1) /\ Main(j, <<Check>>, H2, H2)
  <2>1. Infra \in SUBSET Resources /\ H1 \in SUBSET Resources /\ H2 \in SUBSET Resources
    BY <1>2, <1>3, InfraClean DEF Clean
  <2> QED  BY <2>1, MainCheck, MainReceive
<1> DEFINE v1 == EndpointOpen \o <<Receive>>
           v2 == v1 \o f
           v3 == v2 \o <<Receive>>
           v4 == v3 \o BuildDeviceTransport(b)
           v5 == v4 \o <<Check>>
<1>7. Main(j, v1, Infra0, Infra)
  BY <1>4, <1>6, MainConcat
<1> HIDE DEF v1
<1>8. Main(j, v2, Infra0, H1)
  BY <1>2, <1>7, MainConcat
<1> HIDE DEF v2
<1>9. Main(j, v3, Infra0, H1)
  BY <1>6, <1>8, MainConcat
<1> HIDE DEF v3
<1>10. Main(j, v4, Infra0, H2)
  BY <1>3, <1>9, MainConcat
<1> HIDE DEF v4
<1>11. Main(j, v5, Infra0, H2)
  BY <1>6, <1>10, MainConcat
<1>12. TransportOpen(b) = v5
  BY <1>5 DEF v1, v2, v3, v4, v5
<1> HIDE DEF v5
<1> QED  BY <1>3, <1>11, <1>12 DEF H2

\* StorageClient::open, its regions first.
LEMMA MainRegistered ==
  ASSUME NEW j, NEW n \in RegionNames, ClientParts \subseteq All(j), NEW H \in SUBSET Resources, Infra \subseteq H
  PROVE  /\ Main(j, Registered(n), H, H \cup {Buffer(n, 0), Region(n, 0)})
         /\ H \cup {Buffer(n, 0), Region(n, 0)} \in SUBSET Resources
<1> DEFINE B == Buffer(n, 0)
           R == Region(n, 0)
           H1 == H \cup {B}
           H2 == H1 \cup {R}
<1>1. B \in Resources /\ R \in Resources /\ B \in All(j) /\ R \in All(j)
  <2>1. B \in ClientParts /\ R \in ClientParts
    BY DEF ClientParts
  <2> QED  BY <2>1, ClientKinds
<1>2. B \notin Requests \cup Lent /\ R \notin Requests \cup Lent
  <2>1. n \notin {"args", "completions", "request"}
    BY DEF RegionNames
  <2> QED  BY <2>1, NotLent, RegionKind
<1>3. Stands(B, j.backend) \subseteq H /\ Stands(R, j.backend) \subseteq H1
  <2>1. Infra \subseteq H1 /\ B \in H1  OBVIOUS
  <2> HIDE DEF H1
  <2> QED  BY <2>1, InfraStands
<1>4. Registered(n) = <<Get(B), Get(R)>> /\ H \cup {B, R} = H2
  BY DEF Registered
<1>5. H1 \in SUBSET Resources /\ H2 \in SUBSET Resources
  BY <1>1
<1> HIDE DEF B, R
<1>6. Main(j, <<Get(B)>>, H, H1)
  BY <1>1, <1>2, <1>3, MainGet
<1> HIDE DEF H1
<1>7. Main(j, <<Get(R)>>, H1, H2)
  BY <1>1, <1>2, <1>3, <1>5, MainGet
<1> HIDE DEF H2
<1>8. Main(j, <<Get(B), Get(R)>>, H, H2)
  BY <1>6, <1>7, Main2
<1> QED  BY <1>4, <1>5, <1>8 DEF B, R

\* StorageClient::open is sound on an open endpoint.
LEMMA MainClient ==
  ASSUME NEW j \in Jobs, ClientParts \subseteq All(j), NEW H \in SUBSET Resources, Infra \subseteq H
  PROVE  Main(j, ClientOpen, H, H \cup ClientParts) /\ H \cup ClientParts \in SUBSET Resources
<1> DEFINE U(n) == {Buffer(n, 0), Region(n, 0)}
           D == Buffer("slotDescriptors", 0)
           T == Buffer("storageStates", 0)
           B == Buffer("slotTable", 0)
           R == Region("slotTable", 0)
           H1 == H \cup U("bootstrap")
           H2 == H1 \cup U("command")
           H3 == H2 \cup U("completion")
           H4 == H3 \cup U("namespace")
           H5 == H4 \cup {D}
           H6 == H5 \cup {T}
           H7 == H6 \cup {B}
           H8 == H7 \cup {R}
           w1 == <<Get(D), Check, Get(T), Check>>
           w2 == <<Get(B), Check, Get(R), Check>>
<1>1. /\ D \in Resources /\ T \in Resources /\ B \in Resources /\ R \in Resources
      /\ D \in All(j) /\ T \in All(j) /\ B \in All(j) /\ R \in All(j)
  <2>1. D \in ClientParts /\ T \in ClientParts /\ B \in ClientParts /\ R \in ClientParts
    BY DEF ClientParts, RegionNames
  <2> QED  BY <2>1, ClientKinds
<1>2. /\ D \notin Requests \cup Lent /\ T \notin Requests \cup Lent
      /\ B \notin Requests \cup Lent /\ R \notin Requests \cup Lent
  BY NotLent, RegionKind
<1>3. /\ H1 \in SUBSET Resources /\ Infra \subseteq H1 /\ Main(j, Registered("bootstrap"), H, H1)
      /\ H2 \in SUBSET Resources /\ Infra \subseteq H2 /\ Main(j, Registered("command"), H1, H2)
      /\ H3 \in SUBSET Resources /\ Infra \subseteq H3 /\ Main(j, Registered("completion"), H2, H3)
      /\ H4 \in SUBSET Resources /\ Infra \subseteq H4 /\ Main(j, Registered("namespace"), H3, H4)
  <2>0. "bootstrap" \in RegionNames /\ "command" \in RegionNames /\ "completion" \in RegionNames /\ "namespace" \in RegionNames
    BY DEF RegionNames
  <2>1. H1 \in SUBSET Resources /\ Infra \subseteq H1 /\ Main(j, Registered("bootstrap"), H, H1)
    BY <2>0, MainRegistered
  <2> HIDE DEF H1
  <2>2. H2 \in SUBSET Resources /\ Infra \subseteq H2 /\ Main(j, Registered("command"), H1, H2)
    BY <2>0, <2>1, MainRegistered
  <2> HIDE DEF H2
  <2>3. H3 \in SUBSET Resources /\ Infra \subseteq H3 /\ Main(j, Registered("completion"), H2, H3)
    BY <2>0, <2>2, MainRegistered
  <2> HIDE DEF H3
  <2>4. H4 \in SUBSET Resources /\ Infra \subseteq H4 /\ Main(j, Registered("namespace"), H3, H4)
    BY <2>0, <2>3, MainRegistered
  <2> QED  BY <2>1, <2>2, <2>3, <2>4
<1>4. H \cup ClientParts = H8
  BY DEF ClientParts, RegionNames
<1>5. ClientOpen = ((((Registered("bootstrap") \o Registered("command")) \o Registered("completion"))
                      \o Registered("namespace")) \o w1) \o w2
  BY DEF ClientOpen
<1>6. \A G : Infra \subseteq G => Stands(D, j.backend) \subseteq G /\ Stands(T, j.backend) \subseteq G /\ Stands(B, j.backend) \subseteq G
  BY InfraStands
<1>7. \A G : Infra \subseteq G /\ B \in G => Stands(R, j.backend) \subseteq G
  BY InfraStands
<1> HIDE DEF U, D, T, B, R, H1, H2, H3, H4
<1>8. H5 \in SUBSET Resources /\ H6 \in SUBSET Resources /\ H7 \in SUBSET Resources /\ H8 \in SUBSET Resources
  BY <1>1, <1>3
<1>9. Infra \subseteq H5 /\ Infra \subseteq H6 /\ Infra \subseteq H7 /\ B \in H7
  BY <1>3
<1>10. /\ D \in All(j) \ (Requests \cup Lent) /\ T \in All(j) \ (Requests \cup Lent)
       /\ B \in All(j) \ (Requests \cup Lent) /\ R \in All(j) \ (Requests \cup Lent)
  BY <1>1, <1>2
<1>11. Main(j, <<Get(D)>>, H4, H5)
  BY <1>1, <1>3, <1>6, <1>10, MainGet
<1> HIDE DEF H5
<1>12. Main(j, <<Get(T)>>, H5, H6)
  BY <1>1, <1>8, <1>9, <1>6, <1>10, MainGet
<1> HIDE DEF H6
<1>13. Main(j, <<Get(B)>>, H6, H7)
  BY <1>1, <1>8, <1>9, <1>6, <1>10, MainGet
<1> HIDE DEF H7
<1>14. Main(j, <<Get(R)>>, H7, H8)
  BY <1>1, <1>8, <1>9, <1>7, <1>10, MainGet
<1> HIDE DEF H8
<1>15. Main(j, <<Check>>, H5, H5) /\ Main(j, <<Check>>, H6, H6) /\ Main(j, <<Check>>, H7, H7) /\ Main(j, <<Check>>, H8, H8)
  BY <1>8, MainCheck
<1>16. Main(j, w1, H4, H6)
  BY <1>11, <1>12, <1>15, Main4
<1>17. Main(j, w2, H6, H8)
  BY <1>13, <1>14, <1>15, Main4
<1> HIDE DEF w1, w2
<1> DEFINE v1 == Registered("bootstrap") \o Registered("command")
           v2 == v1 \o Registered("completion")
           v3 == v2 \o Registered("namespace")
           v4 == v3 \o w1
           v5 == v4 \o w2
<1>18. Main(j, v1, H, H2)
  BY <1>3, MainConcat
<1> HIDE DEF v1
<1>19. Main(j, v2, H, H3)
  BY <1>3, <1>18, MainConcat
<1> HIDE DEF v2
<1>20. Main(j, v3, H, H4)
  BY <1>3, <1>19, MainConcat
<1> HIDE DEF v3
<1>21. Main(j, v4, H, H6)
  BY <1>16, <1>20, MainConcat
<1> HIDE DEF v4
<1>22. Main(j, v5, H, H8)
  BY <1>17, <1>21, MainConcat
<1>23. ClientOpen = v5
  BY <1>5 DEF v1, v2, v3, v4, v5
<1> HIDE DEF v5
<1> QED  BY <1>4, <1>8, <1>22, <1>23

\* Launcher::open.
LEMMA MainLauncher ==
  ASSUME NEW j \in Jobs, NEW H \in SUBSET Resources, Infra \subseteq H, Stream \notin H
  PROVE  /\ Main(j, LauncherOpen(j.backend), H, H \cup {Binary})
         /\ H \cup {Binary} \in SUBSET Resources /\ Stream \notin H \cup {Binary}
<1> DEFINE H1 == H \cup {Binary}
<1>1. H1 \in SUBSET Resources /\ Stream \notin H1
  BY Known, SingleKinds
<1>2. Main(j, <<Get(Binary)>>, H, H1)
  <2>1. Binary \in All(j) \ (Requests \cup Lent) /\ Binary \in Resources
    BY AllFacts, SinglesNotLent, Known
  <2>2. Stands(Binary, j.backend) \subseteq H
    BY InfraStands
  <2> QED  BY <2>1, <2>2, MainGet
<1>3. CASE j.backend # "RA"
  <2>1. LauncherOpen(j.backend) = <<Get(Binary)>>
    BY <1>3 DEF LauncherOpen, BinaryLoad
  <2> QED  BY <1>1, <1>2, <2>1
<1>4. CASE j.backend = "RA"
  <2>1. LauncherOpen(j.backend) = <<Get(Binary), CheckIn(<<Binary>>)>>
    BY <1>4 DEF LauncherOpen, RaLoad
  <2> HIDE DEF H1
  <2>2. UndoFine(j, <<Binary>>, H1)
    <3>1. \A x \in H1 : Binary \notin Under(x, j.backend)
      BY <1>1, UnderOf, SingleKinds
    <3>2. ToSet(<<Binary>>) = {Binary} /\ <<Binary>> \in Seq(Resources)
      BY ToSet1, Known
    <3>3. Covers(<<Binary>>, H1, j.backend)
      BY <3>1, <3>2, CoversFree
    <3>4. H1 \cup Kept(H1) = H1
      BY <1>1, KeptNone
    <3>5. Base(j) \cap {Binary} = {}
      BY SingleKinds DEF Base
    <3> QED  BY <3>2, <3>3, <3>4, <3>5 DEF UndoFine
  <2>3. Main(j, <<CheckIn(<<Binary>>)>>, H1, H1)
    BY <1>1, <2>2, MainCheckIn
  <2>4. Main(j, <<Get(Binary), CheckIn(<<Binary>>)>>, H, H1)
    BY <1>2, <2>3, Main2
  <2> QED  BY <1>1, <2>1, <2>4 DEF H1
<1> QED  BY <1>3, <1>4

\* The stream, which only the launchers of AIV and AICPU need.
StreamGot(b) == IF b = "RA" THEN {} ELSE {Stream}

\* So is the creation of the stream.
LEMMA MainStream ==
  ASSUME NEW j \in Jobs, NEW H \in SUBSET Resources, Infra \subseteq H
  PROVE  /\ Main(j, StreamOpen(j.backend), H, H \cup StreamGot(j.backend))
         /\ Main(j, <<Get(Stream)>>, H, H \cup {Stream})
         /\ H \cup StreamGot(j.backend) \in SUBSET Resources /\ H \cup {Stream} \in SUBSET Resources
<1>1. Main(j, <<Get(Stream)>>, H, H \cup {Stream})
  <2>1. Stream \in All(j) \ (Requests \cup Lent) /\ Stream \in Resources
    BY AllFacts, SinglesNotLent, Known
  <2>2. Stands(Stream, j.backend) \subseteq H
    BY InfraStands
  <2> QED  BY <2>1, <2>2, MainGet
<1>2. H \cup {Stream} \in SUBSET Resources
  BY Known
<1>3. CASE j.backend = "RA"
  <2>1. StreamOpen(j.backend) = <<>> /\ H \cup StreamGot(j.backend) = H
    BY <1>3 DEF StreamOpen, StreamGot
  <2>2. Main(j, <<>>, H, H)
    BY SoundNone DEF Main
  <2> QED  BY <1>1, <1>2, <2>1, <2>2
<1>4. CASE j.backend # "RA"
  BY <1>1, <1>2, <1>4 DEF StreamOpen, StreamGot
<1> QED  BY <1>3, <1>4

-----------------------------------------------------------------------------
(* The programs are sequences of good steps. *)

\* A storage session up to its bootstrap, as the storage example and the constructor of
\* a torch Session open it.
SessionGot(b) == ((TransportGot(b) \cup ClientParts) \cup {Binary}) \cup StreamGot(b)
SessionOpen(adopted, b) ==
  ((((RuntimeOpen(adopted) \o TransportOpen(b)) \o ClientOpen) \o LauncherOpen(b)) \o StreamOpen(b))
    \o <<Call("bootstrap"), Check>>

\* A kernel finds what its descriptors point to.
LEMMA QpsGotFacts ==
  ASSUME NEW b, b # "RA"
  PROVE  QpsGot(QpCount, b) = AllQpParts
<1>1. \A q \in 1 .. QpCount : QpGot(q, b) = QpParts(q)
  BY DEF QpGot
<1> QED  BY <1>1 DEF QpsGot, AllQpParts

\* What the descriptors of each kind of kernel point to is part of the transport, the storage
\* client, the first queue pair or the binary.
LEMMA DescriptorFacts ==
  ASSUME NEW b, b # "RA"
  PROVE  /\ Descriptors("rdma") \subseteq TransportGot(b) \cup {Binary}
         /\ \A k \in {"bootstrap", "storage", "wait"} :
              Descriptors(k) \subseteq (TransportGot(b) \cup ClientParts) \cup {Binary}
         /\ \A k \in {"post", "poll"} : Descriptors(k) \subseteq QpParts(1) \cup {Binary}
<1> DEFINE Q(S) == {Qp(q) : q \in S} \cup {Buffer(n, q) : n \in {"sendWrIds", "recvWrIds"}, q \in S}
           T == {Buffer("qpStates", 0), Buffer("deviceQpAddresses", 0)}
           C == {Buffer(n, 0) : n \in {"slotDescriptors", "storageStates", "command", "completion"}}
<1>1. Q(1 .. QpCount) \subseteq TransportGot(b)
  <2>1. Q(1 .. QpCount) \subseteq AllQpParts
    BY DEF AllQpParts, QpParts
  <2> QED  BY <2>1, QpsGotFacts DEF TransportGot
<1>2. T \subseteq TransportGot(b)
  BY DEF TransportGot, DeviceGot
<1>3. C \subseteq ClientParts /\ Buffer("bootstrap", 0) \in ClientParts
  BY DEF ClientParts, RegionNames
<1>4. Q({1}) \subseteq QpParts(1)
  BY DEF QpParts
<1>5. Descriptors("rdma") = ({Binary} \cup Q(1 .. QpCount)) \cup T
  BY DEF Descriptors
<1>6. Descriptors("bootstrap") = ({Binary} \cup Q(1 .. QpCount)) \cup (T \cup {Buffer("bootstrap", 0)})
  BY DEF Descriptors
<1>7. Descriptors("storage") = ({Binary} \cup Q(1 .. QpCount)) \cup (T \cup C)
  BY DEF Descriptors
<1>8. Descriptors("wait") = ({Binary} \cup Q(1 .. QpCount)) \cup (T \cup C)
  BY DEF Descriptors
<1>9. Descriptors("post") = ({Binary} \cup Q({1})) \cup {} /\ Descriptors("poll") = ({Binary} \cup Q({1})) \cup {}
  BY DEF Descriptors
<1> HIDE DEF Q, T, C
<1>10. Descriptors("rdma") \subseteq TransportGot(b) \cup {Binary}
  BY <1>1, <1>2, <1>5
<1>11. /\ Descriptors("bootstrap") \subseteq (TransportGot(b) \cup ClientParts) \cup {Binary}
       /\ Descriptors("storage") \subseteq (TransportGot(b) \cup ClientParts) \cup {Binary}
       /\ Descriptors("wait") \subseteq (TransportGot(b) \cup ClientParts) \cup {Binary}
  BY <1>1, <1>2, <1>3, <1>6, <1>7, <1>8
<1>12. Descriptors("post") \subseteq QpParts(1) \cup {Binary} /\ Descriptors("poll") \subseteq QpParts(1) \cup {Binary}
  BY <1>4, <1>9
<1> QED  BY <1>10, <1>11, <1>12

\* An open session has all that a storage kernel uses.
LEMMA SessionReady ==
  ASSUME NEW b, b # "RA", NEW H, SessionGot(b) \subseteq H, NEW k \in {"bootstrap", "storage", "wait"}
  PROVE  {Stream, Acl, NetService} \cup Descriptors(k) \subseteq H
<1>1. Descriptors(k) \subseteq (TransportGot(b) \cup ClientParts) \cup {Binary}
  BY DescriptorFacts
<1>2. (TransportGot(b) \cup ClientParts) \cup {Binary} \subseteq H /\ Stream \in H
  BY DEF SessionGot, StreamGot
<1>3. {Acl, NetService} \subseteq H
  BY DEF SessionGot, TransportGot, Infra
<1> QED  BY <1>1, <1>2, <1>3

\* The steps that launch a kernel.
LEMMA KernelForm ==
  ASSUME NEW k, NEW c
  PROVE  /\ Call(k) = Step("call", Kernel(k, 0), <<>>) /\ Poll = Step("wait", Kernel("poll", 0), <<>>)
         /\ Submit(c) = Step("submit", Kernel("storage", c), <<>>) /\ Wait(c) = Step("wait", Kernel("wait", c), <<>>)
  BY DEF Call, Poll, Submit, Wait, Kernel

\* The session is opened by good steps.
LEMMA MainSession ==
  ASSUME NEW j \in Jobs, j.program \in {"storage", "torch"}
  PROVE  /\ Main(j, SessionOpen(j.program = "torch", j.backend), Base(j), SessionGot(j.backend))
         /\ SessionGot(j.backend) \in SUBSET Resources /\ Infra \subseteq SessionGot(j.backend)
<1> DEFINE b == j.backend
           H1 == TransportGot(b)
           H2 == H1 \cup ClientParts
           H3 == H2 \cup {Binary}
           H4 == H3 \cup StreamGot(b)
           ad == j.program = "torch"
<1>0. ad \in BOOLEAN  OBVIOUS
<1>1. Main(j, RuntimeOpen(ad), Base(j), Infra0)
  <2>1. CASE j.program = "torch"
    BY <2>1, MainRuntime DEF Base
  <2>2. CASE j.program # "torch"
    BY <2>2, MainRuntime DEF Base
  <2> QED  BY <2>1, <2>2
<1>2. Main(j, TransportOpen(b), Infra0, H1) /\ H1 \in SUBSET Resources /\ Infra \subseteq H1 /\ Stream \notin H1
  BY MainTransport DEF Clean
<1>3. Main(j, ClientOpen, H1, H2) /\ H2 \in SUBSET Resources
  <2>1. ClientParts \subseteq All(j)
    BY AllFacts
  <2> HIDE DEF H1
  <2> QED  BY <1>2, <2>1, MainClient
<1>4. Infra \subseteq H2 /\ Stream \notin H2
  <2>1. Stream \notin ClientParts
    BY ClientKinds
  <2> QED  BY <1>2, <2>1
<1>5. Main(j, LauncherOpen(b), H2, H3) /\ H3 \in SUBSET Resources
  <2> HIDE DEF H2
  <2> QED  BY <1>3, <1>4, MainLauncher
<1>6. Main(j, StreamOpen(b), H3, H4) /\ H4 \in SUBSET Resources
  <2>1. Infra \subseteq H3
    BY <1>4
  <2> HIDE DEF H3
  <2> QED  BY <1>5, <2>1, MainStream
<1>7. H4 = SessionGot(b) /\ Infra \subseteq H4
  BY <1>2 DEF SessionGot
<1> HIDE DEF H1, H2, H3, H4, ad
<1>8. Main(j, <<Call("bootstrap")>>, H4, H4)
  <2>1. b # "RA" => {Stream, Acl, NetService} \cup Descriptors("bootstrap") \subseteq H4
    BY <1>7, SessionReady
  <2>2. Main(j, <<Step("call", Kernel("bootstrap", 0), <<>>)>>, H4, H4)
    BY <1>6, <2>1, MainCall DEF KernelKinds
  <2> QED  BY <2>2, KernelForm
<1>9. Main(j, <<Call("bootstrap"), Check>>, H4, H4)
  BY <1>6, <1>8, MainCheck, Main2
<1> DEFINE v1 == RuntimeOpen(ad) \o TransportOpen(b)
           v2 == v1 \o ClientOpen
           v3 == v2 \o LauncherOpen(b)
           v4 == v3 \o StreamOpen(b)
           w == <<Call("bootstrap"), Check>>
           v5 == v4 \o w
<1>10. Main(j, w, H4, H4)
  BY <1>9
<1> HIDE DEF w
<1>11. Main(j, v1, Base(j), H1)
  BY <1>1, <1>2, MainConcat
<1> HIDE DEF v1
<1>12. Main(j, v2, Base(j), H2)
  BY <1>3, <1>11, MainConcat
<1> HIDE DEF v2
<1>13. Main(j, v3, Base(j), H3)
  BY <1>5, <1>12, MainConcat
<1> HIDE DEF v3
<1>14. Main(j, v4, Base(j), H4)
  BY <1>6, <1>13, MainConcat
<1> HIDE DEF v4
<1>15. Main(j, v5, Base(j), H4)
  BY <1>10, <1>14, MainConcat
<1>16. SessionOpen(ad, b) = v5
  BY DEF SessionOpen, v1, v2, v3, v4, v5, w
<1> HIDE DEF v5
<1> QED  BY <1>6, <1>7, <1>15, <1>16 DEF ad

\* The buffers and regions of the first k commands.
PairsGot(name, k) == {Buffer(name, c) : c \in 1 .. k} \cup {Region(name, c) : c \in 1 .. k}

\* The registered buffers of one command more.
LEMMA PairsMore ==
  ASSUME NEW n, NEW k \in Nat
  PROVE  /\ PairsGot(n, 0) = {}
         /\ PairsGot(n, k + 1) = PairsGot(n, k) \cup {Buffer(n, k + 1), Region(n, k + 1)}
<1>1. 1 .. 0 = {} /\ 1 .. (k + 1) = (1 .. k) \cup {k + 1}
  OBVIOUS
<1>2. PairsGot(n, 0) = {}
  BY <1>1 DEF PairsGot
<1>3. \A x : x \in PairsGot(n, k + 1) <=> x \in PairsGot(n, k) \/ x = Buffer(n, k + 1) \/ x = Region(n, k + 1)
  BY <1>1, Zenon DEF PairsGot
<1> QED  BY <1>2, <1>3

\* They are known resources.
LEMMA PairsKnown ==
  ASSUME NEW n \in Names, NEW k \in Nat
  PROVE  PairsGot(n, k) \in SUBSET Resources
<1>1. \A c \in 1 .. k : Buffer(n, c) \in Resources /\ Region(n, c) \in Resources
  BY Known
<1> QED  BY <1>1 DEF PairsGot

\* The rounds of the storage example: prepare, submit, finish.
Prepare(c) == <<Get(Buffer("data", c)), Get(Region("data", c)), Check>>
EntryGets(batch, c) == IF batch THEN <<Get(Buffer("entries", c)), Check, Get(Region("entries", c))>> ELSE <<>>
SubmitOne(batch, c) == (<<Check>> \o EntryGets(batch, c)) \o <<Submit(c)>>
Finish(c) == <<Wait(c), Check>>

\* The storage example opens a session, prepares all commands, submits all and waits for all.
LEMMA StorageForm ==
  ASSUME NEW b, NEW batch
  PROVE  StorageProgram(b, batch) =
           ((SessionOpen(FALSE, b) \o FlattenSeq([c \in 1 .. CommandCount |-> Prepare(c)]))
              \o FlattenSeq([c \in 1 .. CommandCount |-> SubmitOne(batch, c)]))
              \o FlattenSeq([c \in 1 .. CommandCount |-> Finish(c)])
  BY Zenon DEF StorageProgram, SessionOpen, Each, Prepare, EntryGets, SubmitOne, Finish

\* The buffer and the region of a command.
LEMMA CommandPair ==
  ASSUME NEW j \in Jobs, j.program = "storage", NEW n \in {"data", "entries"}, NEW c \in 1 .. CommandCount
  PROVE  {Buffer(n, c), Region(n, c)} \subseteq All(j) /\ c \in Nat
<1>1. c \in Nat
  BY HostAssumption
<1>2. Buffer(n, c) \in CommandParts(c) /\ Region(n, c) \in CommandParts(c)
  BY DEF CommandParts
<1>3. Buffer(n, c) \in AllCommandParts /\ Region(n, c) \in AllCommandParts
  BY <1>2 DEF AllCommandParts
<1> QED  BY <1>1, <1>3, AllFacts

\* To allocate and to register a buffer of a command is good on an open endpoint.
LEMMA PairGets ==
  ASSUME NEW j, NEW n \in {"data", "entries"}, NEW c \in Nat, {Buffer(n, c), Region(n, c)} \subseteq All(j),
         NEW H \in SUBSET Resources, Infra \subseteq H
  PROVE  LET H1 == H \cup {Buffer(n, c)}
             H2 == H \cup {Buffer(n, c), Region(n, c)}
         IN /\ Main(j, <<Get(Buffer(n, c))>>, H, H1) /\ Main(j, <<Get(Region(n, c))>>, H1, H2)
            /\ Main(j, <<Check>>, H1, H1) /\ Main(j, <<Check>>, H2, H2) /\ H2 \in SUBSET Resources
<1> DEFINE B == Buffer(n, c)
           R == Region(n, c)
           H1 == H \cup {B}
           H2 == H \cup {B, R}
<1>1. B \in Resources /\ R \in Resources /\ B \in All(j) /\ R \in All(j)
  BY Known, NameFacts
<1>2. B \notin Requests \cup Lent /\ R \notin Requests \cup Lent
  BY NotLent, RegionKind
<1>3. Stands(B, j.backend) \subseteq H /\ Stands(R, j.backend) \subseteq H1
  <2>1. Infra \subseteq H1 /\ B \in H1  OBVIOUS
  <2> HIDE DEF H1
  <2> QED  BY <2>1, InfraStands
<1>4. H1 \in SUBSET Resources /\ H2 \in SUBSET Resources /\ H2 = H1 \cup {R}
  BY <1>1
<1> HIDE DEF B, R
<1>5. B \in All(j) \ (Requests \cup Lent) /\ R \in All(j) \ (Requests \cup Lent)
  BY <1>1, <1>2
<1>6. Main(j, <<Get(B)>>, H, H1)
  BY <1>1, <1>3, <1>5, MainGet
<1> HIDE DEF H1
<1>7. Main(j, <<Get(R)>>, H1, H2)
  <2> HIDE DEF H2
  <2> QED  BY <1>1, <1>3, <1>4, <1>5, MainGet
<1> HIDE DEF H2
<1>8. Main(j, <<Check>>, H1, H1) /\ Main(j, <<Check>>, H2, H2)
  BY <1>4, MainCheck
<1> QED  BY <1>4, <1>6, <1>7, <1>8 DEF B, R, H1, H2

\* The three loops of the storage example.
LEMMA MainPrepare ==
  ASSUME NEW j \in Jobs, j.program = "storage", NEW G \in SUBSET Resources, Infra \subseteq G
  PROVE  Main(j, FlattenSeq([c \in 1 .. CommandCount |-> Prepare(c)]), G, G \cup PairsGot("data", CommandCount))
<1> DEFINE ss == [c \in 1 .. CommandCount |-> Prepare(c)]
           I == [k \in 0 .. CommandCount |-> G \cup PairsGot("data", k)]
<1>0. CommandCount \in Nat \ {0} /\ 0 \in Nat
  BY HostAssumption
<1>1. I[0] = G /\ I[CommandCount] = G \cup PairsGot("data", CommandCount)
  BY <1>0, PairsMore
<1>2. ASSUME NEW c \in 1 .. CommandCount PROVE Main(j, ss[c], I[c - 1], I[c])
  <2> DEFINE H == I[c - 1]
             B == Buffer("data", c)
             R == Region("data", c)
  <2>1. c - 1 \in 0 .. CommandCount /\ c \in 0 .. CommandCount /\ c - 1 \in Nat /\ (c - 1) + 1 = c
    BY <1>0
  <2>2. H = G \cup PairsGot("data", c - 1) /\ I[c] = G \cup PairsGot("data", c)
    BY <2>1
  <2>3. PairsGot("data", c) = PairsGot("data", c - 1) \cup {B, R}
    BY <2>1, PairsMore
  <2>4. I[c] = H \cup {B, R}
    <3> HIDE DEF I, H, B, R
    <3> QED  BY <2>2, <2>3
  <2>5. H \in SUBSET Resources /\ Infra \subseteq H
    <3>1. PairsGot("data", c - 1) \in SUBSET Resources
      BY <2>1, PairsKnown, NameFacts
    <3> QED  BY <2>2, <3>1
  <2> HIDE DEF I, H
  <2>6. /\ Main(j, <<Get(B)>>, H, H \cup {B}) /\ Main(j, <<Get(R)>>, H \cup {B}, H \cup {B, R})
        /\ Main(j, <<Check>>, H \cup {B, R}, H \cup {B, R})
    BY <2>5, PairGets, CommandPair
  <2> HIDE DEF B, R
  <2>7. Main(j, <<Get(B), Get(R), Check>>, H, H \cup {B, R})
    BY <2>6, Main3
  <2>8. ss[c] = <<Get(B), Get(R), Check>>
    BY DEF Prepare, B, R
  <2> QED  BY <2>4, <2>7, <2>8 DEF H
<1>3. ss = [c \in 1 .. CommandCount |-> ss[c]]
  OBVIOUS
<1> HIDE DEF ss, I
<1>4. Main(j, FlattenSeq(ss), I[0], I[CommandCount])
  BY <1>0, <1>2, <1>3, MainFlatten
<1> QED  BY <1>1, <1>4 DEF ss

EntriesGot(batch, k) == IF batch THEN PairsGot("entries", k) ELSE {}

\* The submission loop of the storage example is sound, entries of batches included.
LEMMA MainSubmit ==
  ASSUME NEW j \in Jobs, j.program = "storage", NEW G \in SUBSET Resources, SessionGot(j.backend) \subseteq G,
         Infra \subseteq G
  PROVE  Main(j, FlattenSeq([c \in 1 .. CommandCount |-> SubmitOne(j.batch, c)]), G, G \cup EntriesGot(j.batch, CommandCount))
<1> DEFINE ss == [c \in 1 .. CommandCount |-> SubmitOne(j.batch, c)]
           I == [k \in 0 .. CommandCount |-> G \cup EntriesGot(j.batch, k)]
<1>0. CommandCount \in Nat \ {0} /\ 0 \in Nat
  BY HostAssumption
<1>b. j.batch \in BOOLEAN /\ j.program # "torch"
  BY DEF Jobs
<1>1. I[0] = G /\ I[CommandCount] = G \cup EntriesGot(j.batch, CommandCount)
  <2>1. EntriesGot(j.batch, 0) = {}
    BY <1>0, PairsMore DEF EntriesGot
  <2>2. 0 \in 0 .. CommandCount /\ CommandCount \in 0 .. CommandCount
    BY <1>0
  <2> QED  BY <2>1, <2>2
<1>2. ASSUME NEW c \in 1 .. CommandCount PROVE Main(j, ss[c], I[c - 1], I[c])
  <2> DEFINE H == I[c - 1]
             K == I[c]
             B == Buffer("entries", c)
             R == Region("entries", c)
  <2>1. c - 1 \in 0 .. CommandCount /\ c \in 0 .. CommandCount /\ c - 1 \in Nat /\ (c - 1) + 1 = c /\ c \in Nat
    BY <1>0
  <2>2. H = G \cup EntriesGot(j.batch, c - 1) /\ K = G \cup EntriesGot(j.batch, c)
    BY <2>1
  <2>3. PairsGot("entries", c) = PairsGot("entries", c - 1) \cup {B, R}
    BY <2>1, PairsMore
  <2>4. K = IF j.batch THEN H \cup {B, R} ELSE H
    <3> HIDE DEF I, H, B, R, K
    <3> QED  BY <2>2, <2>3 DEF EntriesGot
  <2>5. H \in SUBSET Resources /\ Infra \subseteq H /\ G \subseteq H
    <3>1. EntriesGot(j.batch, c - 1) \in SUBSET Resources
      BY <2>1, PairsKnown, NameFacts DEF EntriesGot
    <3> QED  BY <2>2, <3>1
  <2> HIDE DEF I, H, K
  <2>6. /\ Main(j, <<Get(B)>>, H, H \cup {B}) /\ Main(j, <<Get(R)>>, H \cup {B}, H \cup {B, R})
        /\ Main(j, <<Check>>, H \cup {B}, H \cup {B}) /\ H \cup {B, R} \in SUBSET Resources
    <3>1. "entries" \in {"data", "entries"} /\ {Buffer("entries", c), Region("entries", c)} \subseteq All(j)
      BY <1>0, CommandPair
    <3> QED  BY <2>1, <2>5, <3>1, PairGets, ZenonT(40)
  <2>7. Main(j, <<Check>>, H, H)
    BY <2>5, MainCheck
  <2>8. Main(j, EntryGets(j.batch, c), H, K) /\ K \in SUBSET Resources /\ SessionGot(j.backend) \subseteq K
    <3>1. CASE j.batch
      <4> DEFINE H1 == H \cup {B}
                 H2 == H \cup {B, R}
      <4>1. Main(j, <<Get(B)>>, H, H1) /\ Main(j, <<Check>>, H1, H1) /\ Main(j, <<Get(R)>>, H1, H2)
        BY <2>6
      <4> HIDE DEF H1, H2
      <4>2. Main(j, <<Get(B), Check, Get(R)>>, H, H2)
        BY <4>1, Main3
      <4>3. EntryGets(j.batch, c) = <<Get(B), Check, Get(R)>>
        BY <3>1 DEF EntryGets
      <4>4. K = H2 /\ H2 \in SUBSET Resources /\ H \subseteq H2
        BY <2>4, <2>6, <3>1 DEF H2
      <4> QED  BY <2>5, <4>2, <4>3, <4>4
    <3>2. CASE ~j.batch
      <4>1. Main(j, <<>>, H, H)
        BY <2>5, SoundNone DEF Main
      <4>2. EntryGets(j.batch, c) = <<>> /\ K = H
        BY <2>4, <3>2 DEF EntryGets
      <4> QED  BY <2>5, <4>1, <4>2
    <3> QED  BY <3>1, <3>2
  <2>9. Main(j, <<Submit(c)>>, K, K)
    <3>1. j.backend # "RA" => {Stream, Acl, NetService} \cup Descriptors("storage") \subseteq K
      BY <2>8, SessionReady
    <3>2. j.batch => Buffer("entries", c) \in K
      BY <2>4
    <3>3. Main(j, <<Step("submit", Kernel("storage", c), <<>>)>>, K, K)
      BY <1>b, <2>1, <2>8, <3>1, <3>2, MainCall DEF KernelKinds
    <3> QED  BY <3>3, KernelForm
  <2>10. Main(j, <<Check>> \o EntryGets(j.batch, c), H, K)
    BY <2>7, <2>8, MainConcat
  <2>11. Main(j, (<<Check>> \o EntryGets(j.batch, c)) \o <<Submit(c)>>, H, K)
    BY <2>9, <2>10, MainConcat
  <2>12. ss[c] = (<<Check>> \o EntryGets(j.batch, c)) \o <<Submit(c)>>
    BY DEF SubmitOne
  <2> QED  BY <2>11, <2>12 DEF H, K
<1>3. ss = [c \in 1 .. CommandCount |-> ss[c]]
  OBVIOUS
<1> HIDE DEF ss, I
<1>4. Main(j, FlattenSeq(ss), I[0], I[CommandCount])
  BY <1>0, <1>2, <1>3, MainFlatten
<1> QED  BY <1>1, <1>4 DEF ss

\* So is its loop of waits, which takes nothing.
LEMMA MainFinish ==
  ASSUME NEW j \in Jobs, j.program = "storage", NEW G \in SUBSET Resources, SessionGot(j.backend) \subseteq G
  PROVE  Main(j, FlattenSeq([c \in 1 .. CommandCount |-> Finish(c)]), G, G)
<1> DEFINE ss == [c \in 1 .. CommandCount |-> Finish(c)]
           I == [k \in 0 .. CommandCount |-> G]
<1>0. CommandCount \in Nat \ {0}
  BY HostAssumption
<1>1. I[0] = G /\ I[CommandCount] = G /\ \A c \in 1 .. CommandCount : I[c - 1] = G /\ I[c] = G
  BY <1>0
<1>2. ASSUME NEW c \in 1 .. CommandCount PROVE Main(j, ss[c], I[c - 1], I[c])
  <2>0. c \in Nat  BY <1>0
  <2>1. j.backend # "RA" => {Stream, Acl, NetService} \cup Descriptors("wait") \subseteq G
    BY SessionReady
  <2>2. Main(j, <<Step("wait", Kernel("wait", c), <<>>)>>, G, G)
    BY <2>0, <2>1, MainCall DEF KernelKinds
  <2>3. Main(j, <<Wait(c), Check>>, G, G)
    BY <2>2, KernelForm, MainCheck, Main2
  <2>4. ss[c] = <<Wait(c), Check>>
    BY DEF Finish
  <2> QED  BY <1>1, <2>3, <2>4
<1>3. ss = [c \in 1 .. CommandCount |-> ss[c]]
  OBVIOUS
<1> HIDE DEF ss, I
<1>4. Main(j, FlattenSeq(ss), I[0], I[CommandCount])
  BY <1>0, <1>2, <1>3, MainFlatten
<1> QED  BY <1>1, <1>4 DEF ss

\* The end of main.
LEMMA MainExit ==
  ASSUME NEW j, NEW H \in SUBSET Resources
  PROVE  Main(j, <<Exit>>, H, H)
<1>1. NoResource \in Operands /\ <<>> \in Seq(Resources)
  BY DEF Operands
<1>2. Exit \in Steps /\ Exit.do = "exit" /\ Exit.undo = <<>>
  BY <1>1 DEF Exit, Step, Steps
<1>3. UndoFine(j, <<>>, H)
  BY NoUndo
<1>4. Good(j, FALSE, {}, Exit, H)
  BY <1>2, <1>3 DEF Good, GetGood, LaunchGood, UndoGood, UndoFine
<1>5. H = After(Exit, H)
  BY <1>2 DEF After
<1> QED  BY <1>2, <1>4, <1>5, SoundOne DEF Main

\* The storage example is a sequence of good steps.
LEMMA MainStorage ==
  ASSUME NEW j \in Jobs, j.program = "storage"
  PROVE  \E H \in SUBSET Resources : Main(j, StorageProgram(j.backend, j.batch), Base(j), H)
<1> DEFINE b == j.backend
           G0 == SessionGot(b)
           G1 == G0 \cup PairsGot("data", CommandCount)
           G2 == G1 \cup EntriesGot(j.batch, CommandCount)
           p == FlattenSeq([c \in 1 .. CommandCount |-> Prepare(c)])
           s == FlattenSeq([c \in 1 .. CommandCount |-> SubmitOne(j.batch, c)])
           f == FlattenSeq([c \in 1 .. CommandCount |-> Finish(c)])
<1>0. Main(j, SessionOpen(FALSE, b), Base(j), G0) /\ G0 \in SUBSET Resources /\ Infra \subseteq G0
  <2>1. (j.program = "torch") = FALSE
    OBVIOUS
  <2> QED  BY <2>1, MainSession
<1>1. CommandCount \in Nat
  BY HostAssumption
<1>2. G1 \in SUBSET Resources /\ G2 \in SUBSET Resources /\ Infra \subseteq G1
  BY <1>0, <1>1, PairsKnown, NameFacts DEF EntriesGot
<1>3. Main(j, p, G0, G1)
  BY <1>0, MainPrepare
<1>4. Main(j, s, G1, G2)
  <2>1. SessionGot(j.backend) \subseteq G1
    OBVIOUS
  <2> HIDE DEF G1
  <2> QED  BY <1>2, <2>1, MainSubmit
<1>5. Main(j, f, G2, G2)
  <2>1. SessionGot(j.backend) \subseteq G2
    OBVIOUS
  <2> HIDE DEF G2
  <2> QED  BY <1>2, <2>1, MainFinish
<1>6. StorageProgram(b, j.batch) = ((SessionOpen(FALSE, b) \o p) \o s) \o f
  BY StorageForm
<1> HIDE DEF G0, G1, G2, p, s, f
<1> DEFINE v1 == SessionOpen(FALSE, b) \o p
           v2 == v1 \o s
           v3 == v2 \o f
<1>7. Main(j, v1, Base(j), G1)
  BY <1>0, <1>3, MainConcat
<1> HIDE DEF v1
<1>8. Main(j, v2, Base(j), G2)
  BY <1>4, <1>7, MainConcat
<1> HIDE DEF v2
<1>9. Main(j, v3, Base(j), G2)
  BY <1>5, <1>8, MainConcat
<1>10. StorageProgram(b, j.batch) = v3
  BY <1>6 DEF v1, v2, v3
<1> HIDE DEF v3
<1> QED  BY <1>2, <1>9, <1>10

\* Five of them.
LEMMA Main5 ==
  ASSUME NEW j, NEW a, NEW b, NEW c, NEW d, NEW e, NEW H0, NEW H1, NEW H2, NEW H3, NEW H4, NEW H5,
         Main(j, <<a>>, H0, H1), Main(j, <<b>>, H1, H2), Main(j, <<c>>, H2, H3), Main(j, <<d>>, H3, H4),
         Main(j, <<e>>, H4, H5)
  PROVE  Main(j, <<a, b, c, d, e>>, H0, H5)
  BY Sound5 DEF Main

\* The buffer and the region of the other two examples.
DataGets == <<Get(Buffer("data", 1)), Check, Get(Region("data", 1))>>

\* So is the data buffer of the transport and the verbs example.
LEMMA MainData ==
  ASSUME NEW j \in Jobs, j.program \in {"transport", "verbs"}, NEW H \in SUBSET Resources, Infra \subseteq H
  PROVE  /\ Main(j, DataGets, H, H \cup {Buffer("data", 1), Region("data", 1)})
         /\ H \cup {Buffer("data", 1), Region("data", 1)} \in SUBSET Resources
<1> DEFINE B == Buffer("data", 1)
           R == Region("data", 1)
           H1 == H \cup {B}
           H2 == H \cup {B, R}
<1>1. {B, R} \subseteq All(j)
  BY AllFacts
<1>2. /\ Main(j, <<Get(B)>>, H, H1) /\ Main(j, <<Get(R)>>, H1, H2)
      /\ Main(j, <<Check>>, H1, H1) /\ H2 \in SUBSET Resources
  BY <1>1, PairGets
<1> HIDE DEF H1, H2
<1>3. Main(j, <<Get(B), Check, Get(R)>>, H, H2)
  BY <1>2, Main3
<1> QED  BY <1>2, <1>3 DEF DataGets, H2

\* So is the transport example.
LEMMA MainTransportProgram ==
  ASSUME NEW j \in Jobs, j.program = "transport"
  PROVE  \E H \in SUBSET Resources : Main(j, TransportProgram(j.backend), Base(j), H)
<1> DEFINE b == j.backend
           H1 == TransportGot(b)
           H2 == H1 \cup {Binary}
           H3 == H2 \cup {Buffer("data", 1), Region("data", 1)}
           H4 == H3 \cup StreamGot(b)
           c == Call("rdma")
           w == <<Receive, c, Receive, c, Receive>>
<1>1. Main(j, RuntimeOpen(FALSE), Base(j), Infra0)
  BY MainRuntime DEF Base
<1>2. Main(j, TransportOpen(b), Infra0, H1) /\ H1 \in SUBSET Resources /\ Infra \subseteq H1 /\ Stream \notin H1
  BY MainTransport DEF Clean
<1>3. Main(j, LauncherOpen(b), H1, H2) /\ H2 \in SUBSET Resources /\ Infra \subseteq H2
  <2> HIDE DEF H1
  <2>1. Main(j, LauncherOpen(b), H1, H2) /\ H2 \in SUBSET Resources
    BY <1>2, MainLauncher
  <2> QED  BY <1>2, <2>1
<1>4. Main(j, DataGets, H2, H3) /\ H3 \in SUBSET Resources /\ Infra \subseteq H3
  <2>1. Main(j, DataGets, H2, H3) /\ H3 \in SUBSET Resources
    <3> HIDE DEF H2
    <3> QED  BY <1>3, MainData
  <2> QED  BY <1>3, <2>1
<1>5. Main(j, StreamOpen(b), H3, H4) /\ H4 \in SUBSET Resources
  <2> HIDE DEF H3
  <2> QED  BY <1>4, MainStream
<1>6. b # "RA" => {Stream, Acl, NetService} \cup Descriptors("rdma") \subseteq H4
  <2> SUFFICES ASSUME b # "RA" PROVE {Stream, Acl, NetService} \cup Descriptors("rdma") \subseteq H4
    OBVIOUS
  <2>1. Descriptors("rdma") \subseteq TransportGot(b) \cup {Binary}
    BY DescriptorFacts
  <2>2. TransportGot(b) \cup {Binary} \subseteq H4
    OBVIOUS
  <2>3. {Acl, NetService} \subseteq H4
    BY <1>2 DEF Infra
  <2>4. Stream \in H4
    BY DEF StreamGot
  <2> QED  BY <2>1, <2>2, <2>3, <2>4
<1> HIDE DEF H1, H2, H3, H4
<1>7. Main(j, <<c>>, H4, H4) /\ Main(j, <<Receive>>, H4, H4)
  <2>1. Main(j, <<Step("call", Kernel("rdma", 0), <<>>)>>, H4, H4)
    BY <1>5, <1>6, MainCall DEF KernelKinds
  <2> QED  BY <1>5, <2>1, KernelForm, MainReceive
<1>8. Main(j, w, H4, H4)
  <2> HIDE DEF c
  <2> QED  BY <1>7, Main5
<1> HIDE DEF w
<1> DEFINE v1 == RuntimeOpen(FALSE) \o TransportOpen(b)
           v2 == v1 \o LauncherOpen(b)
           v3 == v2 \o DataGets
           v4 == v3 \o StreamOpen(b)
           v5 == v4 \o w
<1>11. Main(j, v1, Base(j), H1)
  BY <1>1, <1>2, MainConcat
<1> HIDE DEF v1
<1>12. Main(j, v2, Base(j), H2)
  BY <1>3, <1>11, MainConcat
<1> HIDE DEF v2
<1>13. Main(j, v3, Base(j), H3)
  BY <1>4, <1>12, MainConcat
<1> HIDE DEF v3
<1>14. Main(j, v4, Base(j), H4)
  BY <1>5, <1>13, MainConcat
<1> HIDE DEF v4
<1>15. Main(j, v5, Base(j), H4)
  BY <1>8, <1>14, MainConcat
<1>16. TransportProgram(b) = v5
  BY DEF TransportProgram, DataGets, v1, v2, v3, v4, w
<1> HIDE DEF v5
<1> QED  BY <1>5, <1>15, <1>16

\* So is the verbs example.
LEMMA MainVerbs ==
  ASSUME NEW j \in Jobs, j.program = "verbs"
  PROVE  \E H \in SUBSET Resources : Main(j, VerbsProgram(j.backend), Base(j), H)
<1> DEFINE b == j.backend
           H1 == Infra \cup QpGot(1, b)
           H2 == H1 \cup {Buffer("data", 1), Region("data", 1)}
           H3 == H2 \cup {Binary}
           H4 == H3 \cup {Stream}
           w == <<Receive, Get(Stream), Call("post"), Poll, Receive>>
<1>1. Main(j, RuntimeOpen(FALSE), Base(j), Infra0)
  BY MainRuntime DEF Base
<1>2. Main(j, EndpointOpen, Infra0, Infra)
  BY MainEndpoint
<1>3. Main(j, QpCreate(1, b), Infra, H1) /\ H1 \in SUBSET Resources /\ Infra \subseteq H1 /\ Stream \notin H1
  <2>1. 1 \in 1 .. QpCount
    BY QpAssumption
  <2>2. Main(j, QpCreate(1, b), Infra, H1) /\ Clean(H1)
    BY <2>1, AllFacts, InfraClean, MainQp
  <2> QED  BY <2>2 DEF Clean
<1>4. Main(j, DataGets, H1, H2) /\ H2 \in SUBSET Resources /\ Infra \subseteq H2 /\ Stream \notin H2
  <2>1. Main(j, DataGets, H1, H2) /\ H2 \in SUBSET Resources
    <3> HIDE DEF H1
    <3> QED  BY <1>3, MainData
  <2>2. Stream \notin {Buffer("data", 1), Region("data", 1)}
    BY DataKinds
  <2> QED  BY <1>3, <2>1, <2>2
<1>5. Main(j, LauncherOpen(b), H2, H3) /\ H3 \in SUBSET Resources /\ Infra \subseteq H3
  <2>1. Main(j, LauncherOpen(b), H2, H3) /\ H3 \in SUBSET Resources
    <3> HIDE DEF H2
    <3> QED  BY <1>4, MainLauncher
  <2> QED  BY <1>4, <2>1
<1>6. Main(j, <<Get(Stream)>>, H3, H4) /\ H4 \in SUBSET Resources /\ Main(j, <<Receive>>, H3, H3)
  <2> HIDE DEF H3
  <2> QED  BY <1>5, MainStream, MainReceive
<1>7. ASSUME b # "RA", NEW k \in {"post", "poll"}
      PROVE  {Stream, Acl, NetService} \cup Descriptors(k) \subseteq H4
  <2>1. Descriptors(k) \subseteq QpParts(1) \cup {Binary}
    BY <1>7, DescriptorFacts
  <2>2. QpParts(1) \cup {Binary} \subseteq H4
    BY <1>7 DEF QpGot
  <2>3. {Acl, NetService} \subseteq H4
    BY <1>3 DEF Infra
  <2> QED  BY <2>1, <2>2, <2>3
<1> HIDE DEF H1, H2, H3, H4
<1>8. Main(j, <<Call("post")>>, H4, H4) /\ Main(j, <<Poll>>, H4, H4) /\ Main(j, <<Receive>>, H4, H4)
  <2>1. Main(j, <<Step("call", Kernel("post", 0), <<>>)>>, H4, H4)
    BY <1>6, <1>7, MainCall DEF KernelKinds
  <2>2. Main(j, <<Step("wait", Kernel("poll", 0), <<>>)>>, H4, H4)
    BY <1>6, <1>7, MainCall DEF KernelKinds
  <2> QED  BY <1>6, <2>1, <2>2, KernelForm, MainReceive
<1>9. Main(j, w, H3, H4)
  BY <1>6, <1>8, Main5
<1> HIDE DEF w
<1> DEFINE v1 == RuntimeOpen(FALSE) \o EndpointOpen
           v2 == v1 \o QpCreate(1, b)
           v3 == v2 \o DataGets
           v4 == v3 \o LauncherOpen(b)
           v5 == v4 \o w
<1>11. Main(j, v1, Base(j), Infra)
  BY <1>1, <1>2, MainConcat
<1> HIDE DEF v1
<1>12. Main(j, v2, Base(j), H1)
  BY <1>3, <1>11, MainConcat
<1> HIDE DEF v2
<1>13. Main(j, v3, Base(j), H2)
  BY <1>4, <1>12, MainConcat
<1> HIDE DEF v3
<1>14. Main(j, v4, Base(j), H3)
  BY <1>5, <1>13, MainConcat
<1> HIDE DEF v4
<1>15. Main(j, v5, Base(j), H4)
  BY <1>9, <1>14, MainConcat
<1>16. VerbsProgram(b) = v5
  BY DEF VerbsProgram, DataGets, v1, v2, v3, v4, w
<1> HIDE DEF v5
<1> QED  BY <1>6, <1>15, <1>16

-----------------------------------------------------------------------------
(* Session calls. *)

\* The locals of a Session call, and a state of a call in which a failure can be undone.
Locals(c) == <<Region("data", c), Buffer("data", c)>>
WithinCall(j, S, u, H) ==
  UndoFine(j, u, H) /\ S \subseteq H /\ H \subseteq S \cup ToSet(u) /\ S \cap ToSet(u) = {} /\ Stream \notin ToSet(u)

\* A good step of a call.
LEMMA CallStep ==
  ASSUME NEW j, NEW S, NEW u, NEW H \in SUBSET Resources, WithinCall(j, S, u, H),
         NEW d \in {"get", "check", "call", "wait", "leave"}, NEW r \in Operands,
         d = "get" => r \in Resources \ (Requests \cup Lent) /\ Stands(r, j.backend) \subseteq H,
         d \in {"call", "wait"} /\ j.backend # "RA" => {Stream, Acl, NetService} \cup Descriptors(r[2]) \subseteq H,
         NEW G, G = CASE d = "get" -> H \cup {r} [] d = "leave" -> H \ ToSet(u) [] OTHER -> H
  PROVE  Sound(j, TRUE, S, <<Step(d, r, u)>>, H, G)
<1> DEFINE s == Step(d, r, u)
<1>1. s \in Steps /\ s.do = d /\ s.res = r /\ s.undo = u
  BY StepTypes DEF WithinCall, UndoFine
<1> HIDE DEF s
<1>2. GetGood(j, TRUE, s, H)
  BY <1>1 DEF GetGood
<1>3. LaunchGood(j, s, H)
  BY <1>1 DEF LaunchGood
<1>4. UndoGood(j, TRUE, S, s, H)
  BY <1>1 DEF UndoGood, WithinCall, UndoFine
<1>5. G = After(s, H)
  BY <1>1 DEF After
<1>6. Sound(j, TRUE, S, <<s>>, H, G)
  BY <1>1, <1>2, <1>3, <1>4, <1>5, SoundOne DEF Good
<1> QED  BY <1>6 DEF s

\* A Session has no buffer called as the locals are.
LEMMA SessionNames ==
  ASSUME NEW b, NEW x \in SessionGot(b)
  PROVE  x[1] \in {"buffer", "region"} => x[2] # "data"
<1>1. CASE x \in Infra
  BY <1>1, SingleKinds DEF Infra
<1>2. CASE x \in QpsGot(QpCount, b)
  <2>1. PICK q \in 1 .. QpCount : x \in QpParts(q)
    BY <1>2 DEF QpsGot, QpGot, QpParts
  <2> QED  BY <2>1, QpKind, BufferKind DEF QpParts
<1>3. CASE x \in DeviceGot(b)
  BY <1>3, BufferKind DEF DeviceGot
<1>4. CASE x \in ClientParts
  <2>1. "data" \notin RegionNames \cup {"storageStates", "slotDescriptors"}
    BY DEF RegionNames
  <2>2. x[2] \in RegionNames \cup {"storageStates", "slotDescriptors"}
    BY <1>4, BufferKind, RegionKind DEF ClientParts
  <2> QED  BY <2>1, <2>2
<1>5. CASE x = Binary \/ x = Stream
  BY <1>5, SingleKinds
<1> QED  BY <1>1, <1>2, <1>3, <1>4, <1>5 DEF SessionGot, TransportGot, StreamGot

\* What the launcher keeps is known.
LEMMA KeptKnown ==
  ASSUME NEW H, H \subseteq Resources
  PROVE  H \cup Kept(H) \subseteq Resources
<1>1. Requests \subseteq Resources
  BY LauncherKinds DEF LauncherParts
<1> QED  BY <1>1 DEF Kept

\* The locals are given back in a right order, and nothing of the Session with them.
LEMMA Within ==
  ASSUME NEW j \in Jobs, j.program = "torch", NEW c \in Nat, NEW H,
         SessionGot(j.backend) \subseteq H, H \subseteq SessionGot(j.backend) \cup {Region("data", c), Buffer("data", c)}
  PROVE  WithinCall(j, SessionGot(j.backend), Locals(c), H) /\ H \in SUBSET Resources
<1> DEFINE S == SessionGot(j.backend)
           X == {Region("data", c), Buffer("data", c)}
<1>1. S \in SUBSET Resources /\ X \subseteq Resources
  BY MainSession, Known, NameFacts
<1>2. H \in SUBSET Resources
  BY <1>1
<1>3. Teardown(<<Region("data", c), Buffer("data", c)>>, X, H \cup Kept(H), j.backend)
  BY <1>2, KeptKnown, PairTeardown, NameFacts
<1>4. S \cap X = {}
  BY SessionNames, BufferKind, RegionKind
<1>5. Acl \notin X /\ Stream \notin X
  BY SingleKinds, BufferKind, RegionKind
<1>6. ToSet(Locals(c)) = X /\ Locals(c) \in Seq(Resources) /\ Covers(Locals(c), H \cup Kept(H), j.backend)
  BY <1>3 DEF Teardown, Locals
<1> HIDE DEF S, X
<1>7. UndoFine(j, Locals(c), H)
  BY <1>5, <1>6 DEF UndoFine, Base
<1> QED  BY <1>2, <1>4, <1>5, <1>6, <1>7 DEF WithinCall, S, X

\* The steps of a call.
LEMMA TorchForm ==
  ASSUME NEW c
  PROVE  LET u == Locals(c)
         IN TorchCall(c) = <<Step("get", Buffer("data", c), u), Step("check", NoResource, u),
                             Step("get", Region("data", c), u), Step("check", NoResource, u),
                             Step("call", Kernel("storage", c), u), Step("wait", Kernel("wait", c), u),
                             Step("check", NoResource, u), Step("leave", NoResource, u)>>
  BY DEF TorchCall, Locals, GetIn, CheckIn, Kernel

\* A Session call is a sequence of good steps and leaves what was open before it.
LEMMA SoundTorchCall ==
  ASSUME NEW j \in Jobs, j.program = "torch", NEW c \in 1 .. CommandCount
  PROVE  Sound(j, TRUE, SessionGot(j.backend), TorchCall(c), SessionGot(j.backend), SessionGot(j.backend))
<1> DEFINE S == SessionGot(j.backend)
           B == Buffer("data", c)
           R == Region("data", c)
           u == Locals(c)
           S1 == S \cup {B}
           S2 == S1 \cup {R}
           D(H, t, G) == Sound(j, TRUE, S, <<t>>, H, G)
           s1 == Step("get", B, u)
           ck == Step("check", NoResource, u)
           s3 == Step("get", R, u)
           s5 == Step("call", Kernel("storage", c), u)
           s6 == Step("wait", Kernel("wait", c), u)
           s8 == Step("leave", NoResource, u)
<1>0. c \in Nat
  BY HostAssumption
<1>1. /\ WithinCall(j, S, u, S) /\ S \in SUBSET Resources
      /\ WithinCall(j, S, u, S1) /\ S1 \in SUBSET Resources
      /\ WithinCall(j, S, u, S2) /\ S2 \in SUBSET Resources
  <2>1. S \subseteq S1 /\ S \subseteq S2 /\ S1 \subseteq S \cup {R, B} /\ S2 \subseteq S \cup {R, B}
    OBVIOUS
  <2> HIDE DEF S1, S2
  <2> QED  BY <1>0, <2>1, Within
<1>2. B \in Resources \ (Requests \cup Lent) /\ R \in Resources \ (Requests \cup Lent)
  BY <1>0, Known, NameFacts, NotLent, RegionKind
<1>3. Stands(B, j.backend) \subseteq S /\ Stands(R, j.backend) \subseteq S1
  <2>1. Infra \subseteq S
    BY MainSession
  <2>2. Infra \subseteq S1 /\ B \in S1
    BY <2>1
  <2> HIDE DEF S, S1
  <2> QED  BY <2>1, <2>2, InfraStands
<1>4. B \in Operands /\ R \in Operands /\ NoResource \in Operands
      /\ Kernel("storage", c) \in Operands /\ Kernel("wait", c) \in Operands
  BY <1>0, <1>2 DEF Operands, KernelKinds
<1>5. Kernel("storage", c)[2] = "storage" /\ Kernel("wait", c)[2] = "wait"
  BY DEF Kernel
<1>6. j.backend # "RA" => /\ {Stream, Acl, NetService} \cup Descriptors("storage") \subseteq S2
                          /\ {Stream, Acl, NetService} \cup Descriptors("wait") \subseteq S2
  BY SessionReady
<1>7. S2 \ ToSet(u) = S
  <2>1. ToSet(u) = {R, B}
    BY ToSet2 DEF Locals
  <2>2. S \cap ToSet(u) = {}
    BY <1>1 DEF WithinCall
  <2> HIDE DEF S, u
  <2> QED  BY <2>1, <2>2
<1> HIDE DEF S, B, R, u
<1>8. D(S, s1, S1)
  BY <1>1, <1>2, <1>3, <1>4, CallStep
<1>9. D(S1, ck, S1) /\ D(S2, ck, S2)
  <2> HIDE DEF S1, S2
  <2> QED  BY <1>1, <1>4, CallStep
<1>10. D(S1, s3, S2)
  <2>1. S2 = S1 \cup {R}
    OBVIOUS
  <2> HIDE DEF S1, S2
  <2> QED  BY <1>1, <1>2, <1>3, <1>4, <2>1, CallStep
<1> HIDE DEF S1, S2
<1>11. D(S2, s5, S2)
  BY <1>1, <1>4, <1>5, <1>6, CallStep
<1>12. D(S2, s6, S2)
  BY <1>1, <1>4, <1>5, <1>6, CallStep
<1>13. D(S2, s8, S)
  BY <1>1, <1>4, <1>7, CallStep
<1> HIDE DEF s1, ck, s3, s5, s6, s8
<1>14. Sound(j, TRUE, S, <<s1, ck, s3, ck>>, S, S2)
  BY <1>8, <1>9, <1>10, Sound4
<1>15. Sound(j, TRUE, S, <<s5, s6, ck, s8>>, S2, S)
  BY <1>9, <1>11, <1>12, <1>13, Sound4
<1>16. s1 \in Steps /\ ck \in Steps /\ s3 \in Steps /\ s5 \in Steps /\ s6 \in Steps /\ s8 \in Steps
  BY <1>8, <1>9, <1>10, <1>11, <1>12, <1>13, SoundTypes
<1>17. <<s1, ck, s3, ck>> \o <<s5, s6, ck, s8>> = <<s1, ck, s3, ck, s5, s6, ck, s8>>
  BY <1>16, Tuple8
<1>18. Sound(j, TRUE, S, <<s1, ck, s3, ck>> \o <<s5, s6, ck, s8>>, S, S)
  BY <1>14, <1>15, SoundConcat
<1>19. TorchCall(c) = <<s1, ck, s3, ck, s5, s6, ck, s8>>
  BY TorchForm DEF s1, ck, s3, s5, s6, s8, B, R, u
<1> QED  BY <1>17, <1>18, <1>19 DEF S

-----------------------------------------------------------------------------
(* The plan of a program. *)

\* The steps of calls: none leaves main, the last leaves the call.
CallSteps == {s \in Steps : s.do # "exit"}

\* A call of a Session has eight steps, the last of which leaves it.
LEMMA TorchCallSteps ==
  ASSUME NEW c \in Nat
  PROVE  /\ TorchCall(c) \in Seq(CallSteps) /\ Len(TorchCall(c)) = 8 /\ TorchCall(c)[8].do = "leave"
<1> DEFINE u == Locals(c)
           s1 == Step("get", Buffer("data", c), u)
           ck == Step("check", NoResource, u)
           s3 == Step("get", Region("data", c), u)
           s5 == Step("call", Kernel("storage", c), u)
           s6 == Step("wait", Kernel("wait", c), u)
           s8 == Step("leave", NoResource, u)
<1>1. Buffer("data", c) \in Resources /\ Region("data", c) \in Resources
  BY Known, NameFacts
<1>2. u \in Seq(Resources)
  BY <1>1 DEF Locals
<1>3. /\ Buffer("data", c) \in Operands /\ Region("data", c) \in Operands /\ NoResource \in Operands
      /\ Kernel("storage", c) \in Operands /\ Kernel("wait", c) \in Operands
  BY <1>1 DEF Operands, KernelKinds
<1> HIDE DEF u
<1>4. s1 \in CallSteps /\ ck \in CallSteps /\ s3 \in CallSteps /\ s5 \in CallSteps /\ s6 \in CallSteps
      /\ s8 \in CallSteps /\ s8.do = "leave"
  BY <1>2, <1>3, StepTypes DEF CallSteps
<1>5. TorchCall(c) = <<s1, ck, s3, ck, s5, s6, ck, s8>>
  BY TorchForm DEF u
<1> HIDE DEF s1, ck, s3, s5, s6, s8
<1> QED  BY <1>4, <1>5

\* All the calls of a Session, one after the other.
LEMMA TorchCalls ==
  LET E == Each(TorchCall)
  IN  /\ E \in Seq(CallSteps) /\ Len(E) # 0 /\ E[Len(E)].do = "leave"
      /\ \A j \in Jobs : j.program = "torch" =>
           Sound(j, TRUE, SessionGot(j.backend), E, SessionGot(j.backend), SessionGot(j.backend))
<1> DEFINE ss == [c \in 1 .. CommandCount |-> TorchCall(c)]
           E == FlattenSeq(ss)
<1>0. CommandCount \in Nat \ {0}
  BY HostAssumption
<1>1. \A c \in 1 .. CommandCount :
         TorchCall(c) \in Seq(CallSteps) /\ Len(TorchCall(c)) = 8 /\ TorchCall(c)[8].do = "leave"
  BY <1>0, TorchCallSteps
<1>2. ss \in Seq(Seq(CallSteps)) /\ Len(ss) = CommandCount
  BY <1>0, <1>1
<1>3. CallSteps \subseteq Steps
  BY DEF CallSteps
<1>4. ss \in Seq(Seq(Steps))
  <2>1. \A c \in 1 .. CommandCount : TorchCall(c) \in Seq(Steps)
    BY <1>1, <1>3
  <2> QED  BY <1>0, <2>1
<1>5. \A c \in 1 .. CommandCount : ss[c] = TorchCall(c)
  OBVIOUS
<1> HIDE DEF ss
<1>6. E \in Seq(CallSteps)
  BY <1>0, <1>2, FlattenRange
<1>7. ss[CommandCount] # <<>> /\ ss[CommandCount][Len(ss[CommandCount])].do = "leave"
  BY <1>0, <1>1, <1>5, SMTT(30)
<1>8. E # <<>> /\ E[Len(E)] = ss[Len(ss)][Len(ss[Len(ss)])]
  BY <1>0, <1>2, <1>7, FlattenLast
<1>9. ASSUME NEW j \in Jobs, j.program = "torch"
      PROVE  Sound(j, TRUE, SessionGot(j.backend), E, SessionGot(j.backend), SessionGot(j.backend))
  <2> DEFINE S == SessionGot(j.backend)
             I == [k \in 0 .. CommandCount |-> S]
  <2>1. I[0] = S /\ I[CommandCount] = S /\ \A c \in 1 .. CommandCount : I[c - 1] = S /\ I[c] = S
    BY <1>0
  <2>2. \A c \in 1 .. CommandCount : Sound(j, TRUE, S, ss[c], S, S)
    BY <1>5, <1>9, SoundTorchCall
  <2> HIDE DEF S, I
  <2>3. \A c \in 1 .. Len(ss) : Sound(j, TRUE, S, ss[c], I[c - 1], I[c])
    BY <1>2, <2>1, <2>2
  <2>4. Sound(j, TRUE, S, FlattenSeq(ss), I[0], I[Len(ss)])
    BY <1>0, <1>2, <1>4, <2>3, SoundFlatten
  <2> QED  BY <1>2, <2>1, <2>4 DEF S
<1>10. Each(TorchCall) = E
  BY DEF Each, ss
<1>11. Len(E) # 0
  BY <1>6, <1>8
<1> HIDE DEF E
<1> QED  BY <1>2, <1>6, <1>7, <1>8, <1>9, <1>10, <1>11

\* Where the calls begin, the steps of calls, and what is open along a program.
CallStart(j) == Len(TorchConstructor(j.backend))
InCallAt(j, n) == j.program = "torch" /\ n > CallStart(j) /\ Program(j)[n].do # "exit"
Plan(j, h) ==
  /\ h \in [0 .. Len(Program(j)) -> SUBSET Resources] /\ h[0] = Base(j)
  /\ \A n \in 1 .. Len(Program(j)) :
       /\ Good(j, InCallAt(j, n), SessionGot(j.backend), Program(j)[n], h[n - 1])
       /\ h[n] = After(Program(j)[n], h[n - 1])

\* Outside of a call it does not matter what a call would find open.
LEMMA GoodAny ==
  ASSUME NEW j, NEW s, NEW H, NEW S, Good(j, FALSE, {}, s, H)
  PROVE  Good(j, FALSE, S, s, H)
  BY DEF Good, GetGood, LaunchGood, UndoGood

\* The programs as concatenations.
LEMMA ProgramForm ==
  ASSUME NEW j \in Jobs
  PROVE  /\ j.program = "storage" => Program(j) = StorageProgram(j.backend, j.batch) \o <<Exit>>
         /\ j.program = "transport" => Program(j) = TransportProgram(j.backend) \o <<Exit>>
         /\ j.program = "verbs" => Program(j) = VerbsProgram(j.backend) \o <<Exit>>
         /\ j.program = "torch" => Program(j) = (SessionOpen(TRUE, j.backend) \o Each(TorchCall)) \o <<Exit>>
         /\ TorchConstructor(j.backend) = SessionOpen(TRUE, j.backend)
<1>1. TorchConstructor(j.backend) = SessionOpen(TRUE, j.backend)
  BY Zenon DEF TorchConstructor, SessionOpen
<1>2. j.program = "storage" => Program(j) = StorageProgram(j.backend, j.batch) \o <<Exit>>
  BY DEF Program
<1>3. j.program = "transport" => Program(j) = TransportProgram(j.backend) \o <<Exit>>
  BY DEF Program
<1>4. j.program = "verbs" => Program(j) = VerbsProgram(j.backend) \o <<Exit>>
  BY DEF Program
<1>5. j.program = "torch" => Program(j) = (TorchConstructor(j.backend) \o Each(TorchCall)) \o <<Exit>>
  BY DEF Program
<1> QED  BY <1>1, <1>2, <1>3, <1>4, <1>5

\* To leave main is good anywhere.
LEMMA ExitFacts ==
  /\ Exit \in Steps /\ Exit.do = "exit" /\ Exit.undo = <<>>
  /\ \A j, H : Good(j, FALSE, {}, Exit, H) /\ After(Exit, H) = H
<1>1. NoResource \in Operands /\ <<>> \in Seq(Resources)
  BY DEF Operands
<1>2. Exit \in Steps /\ Exit.do = "exit" /\ Exit.undo = <<>>
  BY <1>1 DEF Exit, Step, Steps
<1>3. \A j, H : UndoFine(j, <<>>, H)
  BY NoUndo
<1>4. \A j, H : Good(j, FALSE, {}, Exit, H)
  BY <1>2, <1>3 DEF Good, GetGood, LaunchGood, UndoGood, UndoFine
<1> QED  BY <1>2, <1>4 DEF After

\* A program with its exit.
LEMMA EndsWithExit ==
  ASSUME NEW p \in Seq(Steps), NEW P, P = p \o <<Exit>>
  PROVE  P \in Seq(Steps) /\ Len(P) = Len(p) + 1 /\ Len(P) \in Nat \ {0} /\ P[Len(P)] = Exit
<1>1. <<Exit>> \in Seq(Steps) /\ Len(<<Exit>>) = 1 /\ <<Exit>>[1] = Exit
  BY ExitFacts
<1> QED  BY <1>1, ConcatFacts

\* A program other than a Session's is sound up to its exit.
LEMMA OthersForm ==
  ASSUME NEW j \in Jobs, j.program # "torch"
  PROVE  \E p \in Seq(Steps), H \in SUBSET Resources : Program(j) = p \o <<Exit>> /\ Main(j, p, Base(j), H)
<1>1. \A p, H : Main(j, p, Base(j), H) => p \in Seq(Steps)
  BY Zenon DEF Main, Sound
<1> QED  BY <1>1, ProgramForm, MainStorage, MainTransportProgram, MainVerbs DEF Jobs, Programs

\* Every program has a plan: all its steps are good.
LEMMA PlanOthers ==
  ASSUME NEW j \in Jobs, j.program # "torch"
  PROVE  Program(j) \in Seq(Steps) /\ \E h : Plan(j, h)
<1>1. PICK p \in Seq(Steps), H \in SUBSET Resources : Program(j) = p \o <<Exit>> /\ Main(j, p, Base(j), H)
  BY OthersForm
<1>2. Main(j, Program(j), Base(j), H)
  BY <1>1, MainExit, MainConcat
<1>3. Program(j) \in Seq(Steps)
  BY <1>2, Zenon DEF Main, Sound
<1>4. PICK h \in [0 .. Len(Program(j)) -> SUBSET Resources] : h[0] = Base(j) /\ Marks(j, FALSE, {}, Program(j), h)
  BY <1>2, Zenon DEF Main, Sound
<1>5. ASSUME NEW n \in 1 .. Len(Program(j))
      PROVE  /\ Good(j, InCallAt(j, n), SessionGot(j.backend), Program(j)[n], h[n - 1])
             /\ h[n] = After(Program(j)[n], h[n - 1])
  <2>1. InCallAt(j, n) = FALSE
    BY DEF InCallAt
  <2>2. Good(j, FALSE, {}, Program(j)[n], h[n - 1]) /\ h[n] = After(Program(j)[n], h[n - 1])
    BY <1>4 DEF Marks
  <2> QED  BY <2>1, <2>2, GoodAny
<1>6. Plan(j, h)
  BY <1>4, <1>5 DEF Plan
<1> QED  BY <1>3, <1>6

\* A Session's program has a plan.
LEMMA PlanTorch ==
  ASSUME NEW j \in Jobs, j.program = "torch"
  PROVE  Program(j) \in Seq(Steps) /\ \E h : Plan(j, h)
<1> DEFINE S == SessionGot(j.backend)
           T == SessionOpen(TRUE, j.backend)
           E == Each(TorchCall)
           m == Len(T)
           n == Len(E)
           P == (T \o E) \o <<Exit>>
<1>0. Program(j) = P /\ CallStart(j) = m
  BY ProgramForm DEF CallStart
<1>1. Main(j, T, Base(j), S) /\ S \in SUBSET Resources
  <2>1. (j.program = "torch") = TRUE
    OBVIOUS
  <2> QED  BY <2>1, MainSession
<1>2. Sound(j, TRUE, S, E, S, S)
  BY TorchCalls
<1>3. T \in Seq(Steps) /\ E \in Seq(Steps)
  BY <1>1, <1>2, Zenon DEF Main, Sound
<1>4. PICK f \in [0 .. m -> SUBSET Resources] : f[0] = Base(j) /\ f[m] = S /\ Marks(j, FALSE, {}, T, f)
  BY <1>1, Zenon DEF Main, Sound
<1>5. PICK g \in [0 .. n -> SUBSET Resources] : g[0] = S /\ g[n] = S /\ Marks(j, TRUE, S, E, g)
  BY <1>2, Zenon DEF Sound
<1>6. m \in Nat /\ n \in Nat
  <2> HIDE DEF T, E
  <2> QED  BY <1>3
<1>7. \A i \in 1 .. n : E[i].do # "exit"
  <2>1. E \in Seq(CallSteps)
    BY TorchCalls
  <2> HIDE DEF E
  <2> QED  BY <2>1 DEF CallSteps
<1> HIDE DEF S, T, E
<1>8. /\ T \o E \in Seq(Steps) /\ Len(T \o E) = m + n
      /\ \A i \in 1 .. m : (T \o E)[i] = T[i]
      /\ \A i \in 1 .. n : (T \o E)[m + i] = E[i]
  BY <1>3, ConcatFacts
<1>9. <<Exit>> \in Seq(Steps) /\ Len(<<Exit>>) = 1 /\ <<Exit>>[1] = Exit
  BY ExitFacts
<1>10. /\ P \in Seq(Steps) /\ Len(P) = m + n + 1 /\ P[m + n + 1] = Exit
       /\ \A i \in 1 .. m + n : P[i] = (T \o E)[i]
  BY <1>6, <1>8, <1>9, ConcatFacts
<1> HIDE DEF m, n, P
<1>11. /\ \A i \in 1 .. m : P[i] = T[i]
       /\ \A i \in 1 .. n : P[m + i] = E[i]
  <2>1. \A i \in 1 .. m : i \in 1 .. m + n
    BY <1>6
  <2>2. \A i \in 1 .. n : m + i \in 1 .. m + n
    BY <1>6
  <2> QED  BY <1>8, <1>10, <2>1, <2>2
<1> DEFINE k == Joined(f, m, g, n)
           e == [i \in 0 .. 1 |-> S]
           h == Joined(k, m + n, e, 1)
<1>12. /\ k \in [0 .. m + n -> SUBSET Resources]
       /\ \A i \in 0 .. m : k[i] = f[i]
       /\ \A i \in 0 .. n : k[m + i] = g[i]
  <2>1. f[m] = g[0] /\ f \in [0 .. m -> SUBSET Resources] /\ g \in [0 .. n -> SUBSET Resources]
    BY <1>4, <1>5
  <2> QED  BY <1>6, <2>1, JoinedFacts
<1>13. k[0] = Base(j) /\ k[m + n] = S
  <2>1. 0 \in 0 .. m /\ n \in 0 .. n
    BY <1>6
  <2> QED  BY <1>4, <1>5, <1>12, <2>1
<1> HIDE DEF k
<1>14. e \in [0 .. 1 -> SUBSET Resources] /\ e[0] = S /\ e[1] = S
  BY <1>1
<1> HIDE DEF e
<1>15. /\ h \in [0 .. m + n + 1 -> SUBSET Resources]
       /\ \A i \in 0 .. m + n : h[i] = k[i]
       /\ \A i \in 0 .. 1 : h[m + n + i] = e[i]
  <2>1. m + n \in Nat /\ 1 \in Nat
    BY <1>6
  <2>2. k[m + n] = e[0] /\ k \in [0 .. m + n -> SUBSET Resources] /\ e \in [0 .. 1 -> SUBSET Resources]
    BY <1>12, <1>13, <1>14
  <2>3. PICK M \in Nat, o \in Nat : M = m + n /\ o = 1
    BY <2>1
  <2>4. k[M] = e[0] /\ k \in [0 .. M -> SUBSET Resources] /\ e \in [0 .. o -> SUBSET Resources]
    BY <2>2, <2>3
  <2>5. /\ Joined(k, M, e, o) \in [0 .. M + o -> SUBSET Resources]
        /\ \A i \in 0 .. M : Joined(k, M, e, o)[i] = k[i]
        /\ \A i \in 0 .. o : Joined(k, M, e, o)[M + i] = e[i]
    BY <2>4, JoinedFacts, SMTT(30)
  <2> QED  BY <2>3, <2>5
<1> HIDE DEF h
<1>16. h[0] = Base(j) /\ h[m + n] = S /\ h[m + n + 1] = S
  <2>1. 0 \in 0 .. m + n /\ m + n \in 0 .. m + n /\ 1 \in 0 .. 1
    BY <1>6
  <2> QED  BY <1>13, <1>14, <1>15, <2>1
<1>17. ASSUME NEW i \in 1 .. Len(P)
       PROVE  /\ Good(j, InCallAt(j, i), S, P[i], h[i - 1])
              /\ h[i] = After(P[i], h[i - 1])
  <2>1. CASE i <= m
    <3>1. i \in 1 .. m /\ i \in 0 .. m /\ i - 1 \in 0 .. m /\ i \in 0 .. m + n /\ i - 1 \in 0 .. m + n
      BY <2>1, <1>6
    <3>2. P[i] = T[i] /\ h[i] = f[i] /\ h[i - 1] = f[i - 1]
      BY <3>1, <1>11, <1>12, <1>15
    <3>3. InCallAt(j, i) = FALSE
      BY <2>1, <1>0, <1>6 DEF InCallAt
    <3>4. Good(j, FALSE, {}, T[i], f[i - 1]) /\ f[i] = After(T[i], f[i - 1])
      BY <3>1, <1>4 DEF Marks, m
    <3> QED  BY <3>2, <3>3, <3>4, GoodAny
  <2>2. CASE m < i /\ i <= m + n
    <3>0. PICK q \in Nat : q = i - m
      BY <2>2, <1>6
    <3>1. /\ q \in 1 .. n /\ q \in 0 .. n /\ q - 1 \in 0 .. n /\ i = m + q /\ i - 1 = m + (q - 1)
          /\ i \in 0 .. m + n /\ i - 1 \in 0 .. m + n
      BY <2>2, <3>0, <1>6
    <3>2. P[i] = E[q] /\ h[i] = g[q] /\ h[i - 1] = g[q - 1]
      BY <3>1, <1>11, <1>12, <1>15
    <3>3. InCallAt(j, i) = TRUE
      <4>1. P[i].do # "exit"
        BY <3>1, <3>2, <1>7 DEF n
      <4> QED  BY <4>1, <2>2, <1>0, <1>6 DEF InCallAt
    <3>4. Good(j, TRUE, S, E[q], g[q - 1]) /\ g[q] = After(E[q], g[q - 1])
      BY <3>1, <1>5 DEF Marks, n
    <3> QED  BY <3>2, <3>3, <3>4
  <2>3. CASE i = m + n + 1
    <3>1. P[i] = Exit /\ i - 1 = m + n
      BY <2>3, <1>6, <1>10
    <3>2. InCallAt(j, i) = FALSE
      BY <3>1, <1>0, ExitFacts DEF InCallAt
    <3>3. Good(j, FALSE, {}, Exit, h[i - 1]) /\ After(Exit, h[i - 1]) = h[i - 1]
      BY ExitFacts
    <3>4. h[i - 1] = S /\ h[i] = S
      BY <2>3, <3>1, <1>16
    <3> QED  BY <3>1, <3>2, <3>3, <3>4, GoodAny
  <2> QED  BY <2>1, <2>2, <2>3, <1>6, <1>10
<1>18. Plan(j, h)
  BY <1>0, <1>10, <1>15, <1>16, <1>17 DEF Plan, S
<1> QED  BY <1>0, <1>10, <1>18

\* Every program has a plan.
LEMMA Planned ==
  ASSUME NEW j \in Jobs
  PROVE  Program(j) \in Seq(Steps) /\ \E h : Plan(j, h)
  BY PlanOthers, PlanTorch

\* A program ends with its exit, and the calls of a Session with their leave.
LEMMA ProgramEnd ==
  ASSUME NEW j \in Jobs
  PROVE  LET P == Program(j)
             N == Len(P)
         IN /\ P \in Seq(Steps) /\ N \in Nat \ {0} /\ P[N].do = "exit"
            /\ j.program = "torch" =>
                 /\ CallStart(j) \in Nat /\ CallStart(j) < N - 1 /\ P[N - 1].do = "leave"
                 /\ \A n \in CallStart(j) + 1 .. N - 1 : P[n].do # "exit"
<1>1. CASE j.program # "torch"
  <2>1. PICK p \in Seq(Steps) : Program(j) = p \o <<Exit>>
    BY <1>1, OthersForm
  <2> QED  BY <1>1, <2>1, EndsWithExit, ExitFacts
<1>2. CASE j.program = "torch"
  <2> DEFINE T == SessionOpen(TRUE, j.backend)
             E == Each(TorchCall)
             P == Program(j)
             m == Len(T)
             n == Len(E)
  <2>1. P = (T \o E) \o <<Exit>> /\ CallStart(j) = m
    BY <1>2, ProgramForm DEF CallStart
  <2>2. E \in Seq(CallSteps) /\ n # 0 /\ E[n].do = "leave"
    BY TorchCalls
  <2>3. T \in Seq(Steps)
    <3>1. (j.program = "torch") = TRUE
      BY <1>2
    <3>2. \E A, B : Main(j, T, A, B)
      BY <1>2, <3>1, MainSession
    <3> HIDE DEF T
    <3> QED  BY <3>2, Zenon DEF Main, Sound
  <2> HIDE DEF T, E, P
  <2>4. E \in Seq(Steps) /\ n \in Nat \ {0} /\ m \in Nat /\ \A i \in 1 .. n : E[i].do # "exit"
    BY <2>2, <2>3 DEF CallSteps
  <2>5. T \o E \in Seq(Steps) /\ Len(T \o E) = m + n /\ \A i \in 1 .. n : (T \o E)[m + i] = E[i]
    BY <2>3, <2>4, ConcatFacts
  <2>6. P \in Seq(Steps) /\ Len(P) = m + n + 1 /\ P[Len(P)] = Exit
    BY <2>1, <2>5, EndsWithExit
  <2>7. \A i \in 1 .. m + n : P[i] = (T \o E)[i]
    <3>1. <<Exit>> \in Seq(Steps)
      BY ExitFacts
    <3> QED  BY <2>1, <2>5, <3>1, ConcatFacts
  <2>8. \A i \in 1 .. n : P[m + i] = E[i]
    <3>1. \A i \in 1 .. n : m + i \in 1 .. m + n
      BY <2>4
    <3> QED  BY <2>5, <2>7, <3>1
  <2> HIDE DEF m, n
  <2>9. P[m + n] = E[n] /\ Len(P) - 1 = m + n
    <3>1. n \in 1 .. n
      BY <2>4
    <3> QED  BY <2>4, <2>6, <2>8, <3>1
  <2>10. ASSUME NEW i \in m + 1 .. m + n PROVE P[i].do # "exit"
    <3>1. PICK k \in 1 .. n : i = m + k
      <4>1. i - m \in 1 .. n /\ i = m + (i - m)
        BY <2>4
      <4> QED  BY <4>1
    <3> QED  BY <2>4, <2>8, <3>1 DEF n
  <2>11. /\ P \in Seq(Steps) /\ Len(P) \in Nat \ {0} /\ P[Len(P)].do = "exit"
         /\ m \in Nat /\ m < Len(P) - 1 /\ P[Len(P) - 1].do = "leave"
         /\ \A i \in m + 1 .. Len(P) - 1 : P[i].do # "exit"
    BY <2>2, <2>4, <2>6, <2>9, <2>10, ExitFacts DEF n
  <2> QED  BY <2>1, <2>11 DEF P
<1> QED  BY <1>1, <1>2

\* What is open along the program when all its steps succeed.
PlanOf(j) == CHOOSE h : Plan(j, h)

\* The plan starts with what the program finds open, every step is good in it, and the next
\* set is what the step leaves.
LEMMA PlanFacts ==
  ASSUME NEW j \in Jobs
  PROVE  LET P == Program(j)
             h == PlanOf(j)
         IN /\ h[0] = Base(j)
            /\ \A n \in 0 .. Len(P) : h[n] \in SUBSET Resources
            /\ \A n \in 1 .. Len(P) :
                 /\ Good(j, InCallAt(j, n), SessionGot(j.backend), P[n], h[n - 1])
                 /\ h[n] = After(P[n], h[n - 1])
<1>1. Plan(j, PlanOf(j))
  BY Planned, Zenon DEF PlanOf
<1> QED  BY <1>1 DEF Plan

\* What holds at the start and is kept by every step holds all along.
LEMMA PlanInduction ==
  ASSUME NEW N \in Nat, NEW Q, Q \in [0 .. N -> BOOLEAN], Q[0],
         \A n \in 1 .. N : Q[n - 1] => Q[n]
  PROVE  \A n \in 0 .. N : Q[n]
<1> DEFINE Bad == {n \in 0 .. N : ~Q[n]}
<1>1. CASE Bad = {}
  BY <1>1
<1>2. CASE Bad # {}
  <2>0. Bad \subseteq Nat
    OBVIOUS
  <2>1. PICK m \in Bad : \A y \in Bad : m <= y
    <3> HIDE DEF Bad
    <3> QED  BY <1>2, <2>0, Least
  <2>2. m # 0 /\ m \in 0 .. N
    BY <2>1
  <2>3. m \in 1 .. N /\ m - 1 \in 0 .. N /\ m - 1 \notin Bad
    BY <2>1, <2>2
  <2>4. Q[m - 1]
    BY <2>3
  <2> QED  BY <2>1, <2>3, <2>4
<1> QED  BY <1>1, <1>2

\* How the steps change what is open.
LEMMA StepGrows ==
  ASSUME NEW j \in Jobs, NEW n \in 1 .. Len(Program(j))
  PROVE  LET s == Program(j)[n]
             H == PlanOf(j)[n - 1]
             G == PlanOf(j)[n]
         IN /\ s.do = "get" => G = H \cup {s.res}
            /\ s.do = "leave" => G = H \ ToSet(s.undo)
            /\ s.do # "get" /\ s.do # "leave" => G = H
<1>1. PlanOf(j)[n] = After(Program(j)[n], PlanOf(j)[n - 1])
  BY PlanFacts
<1> QED  BY <1>1 DEF After

\* What the program was lent stays open; lent memory is never part of the plan.
LEMMA PlanBase ==
  ASSUME NEW j \in Jobs, NEW n \in 0 .. Len(Program(j))
  PROVE  Base(j) \subseteq PlanOf(j)[n]
<1> DEFINE N == Len(Program(j))
           h == PlanOf(j)
           Q == [k \in 0 .. N |-> Base(j) \subseteq h[k]]
<1>0. N \in Nat
  BY ProgramEnd
<1>1. Q \in [0 .. N -> BOOLEAN] /\ Q[0]
  <2>1. h[0] = Base(j) /\ 0 \in 0 .. N
    BY <1>0, PlanFacts
  <2> HIDE DEF h, N
  <2> QED  BY <2>1
<1>2. ASSUME NEW k \in 1 .. N, Q[k - 1] PROVE Q[k]
  <2>1. k - 1 \in 0 .. N /\ k \in 0 .. N
    BY <1>0
  <2>2. Base(j) \subseteq h[k - 1]
    BY <1>2, <2>1
  <2>3. Base(j) \cap ToSet(Program(j)[k].undo) = {}
    BY PlanFacts DEF Good, UndoGood
  <2>4. Base(j) \subseteq h[k]
    <3> HIDE DEF h
    <3> QED  BY <2>2, <2>3, StepGrows DEF h
  <2> QED  BY <2>1, <2>4
<1> HIDE DEF Q
<1>3. \A k \in 0 .. N : Q[k]
  BY <1>0, <1>1, <1>2, PlanInduction
<1> QED  BY <1>3 DEF Q

\* The plan has neither memory that a call lends nor requests that a launcher keeps, nor
\* anything that stands on those.
LEMMA PlanNotLent ==
  ASSUME NEW j \in Jobs, NEW n \in 0 .. Len(Program(j))
  PROVE  LET H == PlanOf(j)[n]
         IN H \cap (Requests \cup Lent) = {} /\ \A r \in H : Stands(r, j.backend) \cap (Requests \cup Lent) = {}
<1> DEFINE N == Len(Program(j))
           h == PlanOf(j)
           L == Requests \cup Lent
           OK(H) == H \cap L = {} /\ \A r \in H : Stands(r, j.backend) \cap L = {}
           Q == [k \in 0 .. N |-> OK(h[k])]
<1>0. N \in Nat
  BY ProgramEnd
<1>1. Q \in [0 .. N -> BOOLEAN] /\ Q[0]
  <2>1. h[0] = Base(j) /\ 0 \in 0 .. N
    BY <1>0, PlanFacts
  <2>2. Acl \notin L
    BY SinglesNotLent
  <2>3. \A r \in Base(j) : r = Acl
    BY DEF Base
  <2>4. Stands(Acl, j.backend) = {}
    BY SingleStands
  <2>5. OK(Base(j))
    <3> HIDE DEF L
    <3> QED  BY <2>2, <2>3, <2>4
  <2> HIDE DEF h, N, OK
  <2>6. Q \in [0 .. N -> BOOLEAN]
    BY DEF OK
  <2> QED  BY <2>1, <2>5, <2>6
<1>2. ASSUME NEW k \in 1 .. N, Q[k - 1] PROVE Q[k]
  <2> DEFINE s == Program(j)[k]
             H == h[k - 1]
             G == h[k]
  <2>1. k - 1 \in 0 .. N /\ k \in 0 .. N
    BY <1>0
  <2>2. OK(H)
    BY <1>2, <2>1
  <2>3. s.do = "get" => s.res \notin L /\ Stands(s.res, j.backend) \subseteq H
    BY PlanFacts DEF Good, GetGood
  <2>4. (G = H \cup {s.res} /\ s.do = "get") \/ G = H \ ToSet(s.undo) \/ G = H
    BY StepGrows
  <2>5. OK(G)
    <3> HIDE DEF h, L, s, H, G
    <3> QED  BY <2>2, <2>3, <2>4
  <2> HIDE DEF OK
  <2> QED  BY <2>1, <2>5
<1> HIDE DEF Q
<1>3. \A k \in 0 .. N : Q[k]
  BY <1>0, <1>1, <1>2, PlanInduction
<1> QED  BY <1>3 DEF Q

\* A Session's scope gives back all its constructor takes.
LEMMA SessionInScope ==
  ASSUME NEW j \in Jobs, j.program = "torch"
  PROVE  SessionGot(j.backend) \subseteq Base(j) \cup All(j)
<1>1. {NetService, Ra, Rdev, Binary, Stream} \subseteq All(j) /\ TransportParts \subseteq All(j) /\ ClientParts \subseteq All(j)
  BY AllFacts
<1>2. Infra \subseteq Base(j) \cup All(j)
  BY <1>1 DEF Infra, Base
<1>3. QpsGot(QpCount, j.backend) \subseteq TransportParts
  <2>1. QpsGot(QpCount, j.backend) \subseteq AllQpParts
    BY DEF QpsGot, QpGot, QpParts, AllQpParts
  <2> QED  BY <2>1 DEF TransportParts
<1>4. DeviceGot(j.backend) \subseteq TransportParts
  BY DEF DeviceGot, TransportParts
<1>5. StreamGot(j.backend) \subseteq All(j)
  BY <1>1 DEF StreamGot
<1> QED  BY <1>1, <1>2, <1>3, <1>4, <1>5 DEF SessionGot, TransportGot

\* A call leaves what the constructor left.
LEMMA PlanAfterLeave ==
  ASSUME NEW j \in Jobs, NEW n \in 1 .. Len(Program(j)), Program(j)[n].do = "leave"
  PROVE  PlanOf(j)[n] = SessionGot(j.backend)
<1> DEFINE u == Program(j)[n].undo
           S == SessionGot(j.backend)
           H == PlanOf(j)[n - 1]
<1>1. PlanOf(j)[n] = H \ ToSet(u)
  BY StepGrows
<1>2. S \subseteq H /\ H \subseteq S \cup ToSet(u) /\ S \cap ToSet(u) = {}
  <2>1. UndoGood(j, InCallAt(j, n), S, Program(j)[n], H)
    BY PlanFacts DEF Good
  <2> HIDE DEF S, H
  <2> QED  BY <2>1, Zenon DEF UndoGood
<1> HIDE DEF S, H, u
<1>3. PlanOf(j)[n] = S
  BY <1>1, <1>2
<1> QED  BY <1>3 DEF S

\* Outside of the calls, the scopes give back all that is open.
LEMMA PlanInScope ==
  ASSUME NEW j \in Jobs, NEW n \in 1 .. Len(Program(j)), ~InCallAt(j, n)
  PROVE  PlanOf(j)[n - 1] \subseteq Base(j) \cup All(j)
<1> DEFINE N == Len(Program(j))
           h == PlanOf(j)
           D == Base(j) \cup All(j)
           Outside(k) == j.program # "torch" \/ k <= CallStart(j)
           Q == [k \in 0 .. N |-> Outside(k) => h[k] \subseteq D]
<1>0. N \in Nat /\ (j.program = "torch" => CallStart(j) \in Nat)
  BY ProgramEnd
<1>1. Q \in [0 .. N -> BOOLEAN] /\ Q[0]
  <2>1. h[0] = Base(j) /\ 0 \in 0 .. N
    BY <1>0, PlanFacts
  <2>2. Q \in [0 .. N -> BOOLEAN]
    <3> HIDE DEF h, N, D, Outside
    <3> QED  OBVIOUS
  <2>3. h[0] \subseteq D
    BY <2>1
  <2> HIDE DEF h, N, Outside, D
  <2> QED  BY <2>1, <2>2, <2>3
<1>2. ASSUME NEW k \in 1 .. N, Q[k - 1] PROVE Q[k]
  <2> DEFINE s == Program(j)[k]
  <2>1. k - 1 \in 0 .. N /\ k \in 0 .. N
    BY <1>0
  <2>2. ASSUME Outside(k) PROVE h[k] \subseteq D
    <3>1. Outside(k - 1)
      BY <2>2, <1>0
    <3>2. h[k - 1] \subseteq D
      BY <1>2, <2>1, <3>1
    <3>3. InCallAt(j, k) = FALSE
      BY <2>2, <1>0 DEF InCallAt
    <3>4. (s.do = "get" => s.res \in All(j)) /\ s.do # "leave"
      BY <3>3, PlanFacts DEF Good, GetGood, UndoGood
    <3>5. (s.do = "get" => h[k] = h[k - 1] \cup {s.res}) /\ (s.do # "get" /\ s.do # "leave" => h[k] = h[k - 1])
      BY StepGrows
    <3> HIDE DEF h, s
    <3> QED  BY <3>2, <3>4, <3>5
  <2> HIDE DEF h, D, Outside
  <2> QED  BY <2>1, <2>2
<1> HIDE DEF Q
<1>3. \A k \in 0 .. N : Q[k]
  BY <1>0, <1>1, <1>2, PlanInduction
<1>4. n - 1 \in 0 .. N
  BY <1>0
<1>5. CASE Outside(n - 1)
  <2> HIDE DEF h, D, Outside
  <2>1. h[n - 1] \subseteq D
    BY <1>3, <1>4, <1>5 DEF Q
  <2> QED  BY <2>1 DEF h, D
<1>6. CASE ~Outside(n - 1)
  <2>1. j.program = "torch" /\ n > CallStart(j)
    BY <1>6, <1>0
  <2>2. Program(j)[n].do = "exit"
    BY <2>1 DEF InCallAt
  <2>3. n = N /\ n - 1 \in 1 .. N /\ Program(j)[n - 1].do = "leave"
    <3>1. n \notin CallStart(j) + 1 .. N - 1
      BY <2>1, <2>2, ProgramEnd
    <3>2. n = N
      BY <3>1, <2>1, <1>0
    <3>3. CallStart(j) < N - 1 /\ Program(j)[N - 1].do = "leave"
      BY <2>1, ProgramEnd
    <3> QED  BY <3>2, <3>3, <2>1, <1>0
  <2>4. h[n - 1] = SessionGot(j.backend)
    BY <2>3, PlanAfterLeave
  <2> QED  BY <2>1, <2>4, SessionInScope
<1> QED  BY <1>5, <1>6

-----------------------------------------------------------------------------
(* The inductive invariant of the host. *)

\* What is open at the program's step: what its plan says or, once the program leaves
\* main, what it was lent.  During a synchronous call, its arguments are lent besides.
Standing(j, p) == IF p <= Len(Program(j)) THEN PlanOf(j)[p - 1] ELSE Base(j)
Lending == IF launched THEN Arguments(Current.res[2]) ELSE {}
\* What is open is held.  All that is held and not orphaned is open, kept by the
\* launcher for a kernel, or in T; and all it stands on is held.
Settled(b, G, X, O, T) ==
  /\ G \subseteq X /\ O \subseteq X /\ X \subseteq Resources
  /\ X \ O \subseteq (G \cup Kept(G)) \cup T
  /\ \A r \in X \ O : Stands(r, b) \subseteq X

\* The inductive invariant of the host: whatever failed, what is held is what the
\* plan has opened so far and what the running destructors will still reset, and they
\* reset it in a right order.  A stream is orphaned only by a program that leaves.
HostTypes ==
  /\ job \in Jobs /\ pc \in 1 .. Len(Program(job)) + 1 /\ todo \in Seq(Resources)
  /\ probes \in 0 .. MaxProbes - 1 /\ launched \in BOOLEAN
LaunchInv ==
  launched => /\ todo = <<>> /\ pc <= Len(Program(job))
              /\ Current.do \in {"call", "wait"} /\ job.backend # "RA"
OrphanInv ==
  /\ \A r \in orphans : r[1] = "region" \/ r = Stream
  /\ Stream \in orphans => pc > Len(Program(job))
HostInv ==
  /\ HostTypes
  /\ Settled(job.backend, Standing(job, pc), held, orphans, ToSet(todo) \cup Lending)
  /\ Standing(job, pc) \cap ToSet(todo) = {}
  /\ Covers(todo, held \ orphans, job.backend)
  /\ LaunchInv /\ OrphanInv
  /\ pc <= Len(Program(job)) /\ todo # <<>> => job.program = "torch"

\* The program is at one of its steps.
Here == pc \in 1 .. Len(Program(job))

\* The plan at the current step.
LEMMA HereFacts ==
  ASSUME job \in Jobs, Here
  PROVE  LET H == Standing(job, pc)
         IN /\ H = PlanOf(job)[pc - 1] /\ H \in SUBSET Resources /\ Base(job) \subseteq H
            /\ Current \in Steps
            /\ GetGood(job, InTorchCall, Current, H) /\ LaunchGood(job, Current, H)
            /\ UndoGood(job, InTorchCall, SessionGot(job.backend), Current, H)
            /\ H \cap (Requests \cup Lent) = {}
            /\ \A r \in H : Stands(r, job.backend) \cap (Requests \cup Lent) = {}
            /\ ~InTorchCall => H \subseteq Base(job) \cup All(job)
            /\ Current.do # "exit" => pc + 1 \in 1 .. Len(Program(job))
<1> DEFINE N == Len(Program(job))
           H == PlanOf(job)[pc - 1]
<1>0. Program(job) \in Seq(Steps) /\ N \in Nat \ {0} /\ Program(job)[N].do = "exit"
  BY ProgramEnd
<1>1. pc \in 1 .. N /\ pc - 1 \in 0 .. N
  BY <1>0 DEF Here
<1>2. Standing(job, pc) = H
  BY <1>0, <1>1 DEF Standing
<1>3. InTorchCall = InCallAt(job, pc)
  <2>1. CASE job.program = "torch"
    <3>1. Len(TorchConstructor(job.backend)) \in Nat
      BY <2>1, ProgramEnd DEF CallStart
    <3>2. (~(pc <= Len(TorchConstructor(job.backend)))) <=> (pc > Len(TorchConstructor(job.backend)))
      BY <1>1, <3>1
    <3> QED  BY <2>1, <3>2, Zenon DEF InTorchCall, Constructing, InCallAt, CallStart, Current
  <2>2. CASE job.program # "torch"
    BY <2>2, Zenon DEF InTorchCall, InCallAt
  <2> QED  BY <2>1, <2>2
<1>4. Good(job, InCallAt(job, pc), SessionGot(job.backend), Program(job)[pc], H)
  BY <1>1, PlanFacts
<1>5. /\ GetGood(job, InTorchCall, Current, H) /\ LaunchGood(job, Current, H)
      /\ UndoGood(job, InTorchCall, SessionGot(job.backend), Current, H)
  BY <1>3, <1>4, Zenon DEF Good, Current
<1>6. H \in SUBSET Resources /\ Base(job) \subseteq H
  BY <1>1, PlanFacts, PlanBase
<1>7. H \cap (Requests \cup Lent) = {} /\ \A r \in H : Stands(r, job.backend) \cap (Requests \cup Lent) = {}
  BY <1>1, PlanNotLent
<1>8. ~InTorchCall => H \subseteq Base(job) \cup All(job)
  BY <1>1, <1>3, PlanInScope
<1>9. Current \in Steps
  BY <1>0, <1>1 DEF Current
<1>10. Current.do # "exit" => pc + 1 \in 1 .. N
  BY <1>0, <1>1 DEF Current
<1> HIDE DEF H
<1> QED  BY <1>2, <1>5, <1>6, <1>7, <1>8, <1>9, <1>10 DEF H

\* After a failed call the program goes on behind its next leave, as the call found it.
LEMMA AfterCallFacts ==
  ASSUME job \in Jobs, Here, InTorchCall
  PROVE  /\ AfterCall \in 1 .. Len(Program(job))
         /\ Standing(job, AfterCall) = SessionGot(job.backend)
<1> DEFINE P == Program(job)
           N == Len(P)
           D == {i \in pc + 1 .. N : P[i - 1].do = "leave"}
           C(i) == P[i - 1].do = "leave" /\ \A k \in pc .. i - 2 : P[k].do # "leave"
<1>0. N \in Nat \ {0} /\ P[N].do = "exit" /\ P[N - 1].do = "leave" /\ job.program = "torch"
  BY ProgramEnd DEF InTorchCall
<1>1. pc \in 1 .. N /\ P[pc].do # "exit"
  BY DEF Here, InTorchCall, Current
<1> HIDE DEF P, N
<1>2. N \in D
  BY <1>0, <1>1
<1>3. PICK m \in D : \A y \in D : m <= y
  <2>1. D \subseteq Nat
    BY <1>0, <1>1
  <2> HIDE DEF D
  <2> QED  BY <1>2, <2>1, Least
<1>4. m \in pc + 1 .. N /\ C(m)
  <2>1. m \in pc + 1 .. N /\ P[m - 1].do = "leave"
    BY <1>3
  <2>2. ASSUME NEW k \in pc .. m - 2, P[k].do = "leave" PROVE FALSE
    <3>1. k + 1 \in pc + 1 .. N /\ (k + 1) - 1 = k
      BY <1>0, <1>1, <2>1
    <3>2. k + 1 \in D
      BY <2>2, <3>1
    <3> QED  BY <1>0, <1>1, <1>3, <2>1, <3>2
  <2> QED  BY <2>1, <2>2
<1>5. AfterCall = CHOOSE i \in pc + 1 .. N : C(i)
  BY Zenon DEF AfterCall, P, N
<1> HIDE DEF C
<1>6. AfterCall \in pc + 1 .. N /\ C(AfterCall)
  BY <1>4, <1>5
<1>7. PICK i \in Nat : i = AfterCall
  BY <1>0, <1>1, <1>6
<1>8. i \in 1 .. N /\ i - 1 \in 1 .. N /\ P[i - 1].do = "leave"
  BY <1>0, <1>1, <1>6, <1>7 DEF C
<1>9. PlanOf(job)[i - 1] = SessionGot(job.backend)
  BY <1>8, PlanAfterLeave DEF P, N
<1>10. Standing(job, i) = PlanOf(job)[i - 1]
  BY <1>0, <1>8 DEF Standing, P, N
<1> QED  BY <1>7, <1>8, <1>9, <1>10 DEF P, N

\* How a settled state changes: a resource is orphaned, less is open and more is to be
\* reset, a resource is taken, memory is lent and given back.
LEMMA SettledLost ==
  ASSUME NEW b, NEW G, NEW X, NEW O, NEW T, Settled(b, G, X, O, T), NEW Q, O \subseteq Q, Q \subseteq X
  PROVE  Settled(b, G, X, Q, T)
  BY DEF Settled

\* The plan may be exchanged for a smaller one if the rest is to be reset.
LEMMA SettledLess ==
  ASSUME NEW b, NEW G, NEW X, NEW O, Settled(b, G, X, O, {}), NEW S, NEW T, S \subseteq G,
         G \cup Kept(G) \subseteq (S \cup Kept(S)) \cup T
  PROVE  Settled(b, S, X, O, T)
  BY DEF Settled

\* A resource is taken where what it stands on is open.
LEMMA SettledGet ==
  ASSUME NEW b, NEW G, NEW X, NEW O, Settled(b, G, X, O, {}), NEW r \in Resources, Stands(r, b) \subseteq G
  PROVE  Settled(b, G \cup {r}, X \cup {r}, O, {})
<1>1. Kept(G) \subseteq Kept(G \cup {r})
  BY DEF Kept
<1> QED  BY <1>1 DEF Settled

\* What is lent or kept for a kernel is memory that stands on the context and the runtime.
LEMMA LentStands ==
  ASSUME NEW b, NEW r \in Requests \cup Lent
  PROVE  r \in Resources /\ r \in Used /\ r[1] = "buffer" /\ Stands(r, b) \subseteq {Acl, NetService}
<1>1. PICK n \in {"args", "completions", "request"}, c \in Nat : r = Buffer(n, c)
  BY HostAssumption DEF Requests, Lent, Request, Args, Completions
<1>2. n \in Names \ {"data", "entries"}
  BY DEF Names
<1> QED  BY <1>1, <1>2, BufferStands, BufferKind, Known DEF Used

\* Memory is lent to a kernel.
LEMMA SettledLend ==
  ASSUME NEW b, NEW G, NEW X, NEW O, NEW T, Settled(b, G, X, O, T), NEW A, A \subseteq Requests \cup Lent,
         {Acl, NetService} \subseteq G
  PROVE  Settled(b, G, X \cup A, O, T \cup A)
<1>1. \A r \in A : r \in Resources /\ Stands(r, b) \subseteq G
  BY LentStands
<1> QED  BY <1>1 DEF Settled

\* Memory that was lent is freed.
LEMMA SettledUnlend ==
  ASSUME NEW b, NEW G, NEW X, NEW O, NEW T, Settled(b, G, X, O, T), NEW Z, Z \subseteq Requests \cup Lent, T \subseteq Z,
         G \cap (Requests \cup Lent) = {}, \A r \in G : Stands(r, b) \cap (Requests \cup Lent) = {},
         O \cap (Requests \cup Lent) = {}
  PROVE  Settled(b, G, X \ Z, O, {})
<1> DEFINE L == Requests \cup Lent
<1>1. Kept(G) \subseteq L
  BY DEF Kept
<1>2. \A r \in L : Stands(r, b) \cap L = {}
  BY LentStands, SinglesNotLent
<1> HIDE DEF L
<1>3. \A r \in X \ O : Stands(r, b) \cap L = {}
  BY <1>1, <1>2 DEF Settled, L
<1>4. G \subseteq X \ Z /\ O \subseteq X \ Z
  BY DEF Settled, L
<1>5. (X \ Z) \ O \subseteq (G \cup Kept(G)) \cup {}
  BY DEF Settled
<1>6. \A r \in (X \ Z) \ O : Stands(r, b) \subseteq X \ Z
  BY <1>3 DEF Settled, L
<1> QED  BY <1>4, <1>5, <1>6 DEF Settled

\* The invariant while no destructor runs.
LEMMA RunningFacts ==
  ASSUME HostInv, Running
  PROVE  /\ job \in Jobs /\ Here /\ todo = <<>> /\ ToSet(todo) = {}
         /\ Settled(job.backend, Standing(job, pc), held, orphans, Lending)
         /\ Stream \notin orphans /\ orphans \cap (Requests \cup Lent) = {}
         /\ launched \in BOOLEAN /\ (launched => Current.do \in {"call", "wait"} /\ job.backend # "RA")
         /\ (~launched => Lending = {})
<1>1. job \in Jobs /\ todo = <<>> /\ launched \in BOOLEAN /\ pc \in 1 .. Len(Program(job)) + 1
  BY DEF HostInv, HostTypes, Running
<1>2. Here
  <2>1. Len(Program(job)) \in Nat
    BY <1>1, ProgramEnd
  <2> QED  BY <1>1, <2>1 DEF Here, Running
<1>3. ToSet(todo) = {}
  BY <1>1 DEF ToSet
<1>4. Settled(job.backend, Standing(job, pc), held, orphans, Lending)
  <2>1. ToSet(todo) \cup Lending = Lending
    BY <1>3
  <2> QED  BY <2>1 DEF HostInv
<1>5. Stream \notin orphans
  <2>1. ~(pc > Len(Program(job)))
    <3>1. Len(Program(job)) \in Nat
      BY <1>1, ProgramEnd
    <3> QED  BY <1>2, <3>1 DEF Here
  <2> QED  BY <2>1 DEF HostInv, OrphanInv
<1>6. orphans \cap (Requests \cup Lent) = {}
  <2>1. \A r \in orphans : r[1] # "buffer"
    BY SingleKinds DEF HostInv, OrphanInv
  <2> QED  BY <2>1, LentStands
<1>7. launched => Current.do \in {"call", "wait"} /\ job.backend # "RA"
  BY DEF HostInv, LaunchInv
<1>8. ~launched => Lending = {}
  BY DEF Lending
<1> QED  BY <1>1, <1>2, <1>3, <1>4, <1>5, <1>6, <1>7, <1>8

\* An empty sequence of destructors is always right.
LEMMA NoTodo ==
  ASSUME NEW G, NEW H, NEW b, NEW t, t = <<>>
  PROVE  G \cap ToSet(t) = {} /\ Covers(t, H, b) /\ t \in Seq(Resources)
<1>1. ToSet(t) = {} /\ DOMAIN t = {}
  BY DEF ToSet
<1> QED  BY <1>1 DEF Covers

\* A wait starts within its deadline.
LEMMA ProbeZero == 0 \in 0 .. MaxProbes - 1
  BY HostAssumption

\* The ways a step ends keep the invariant: it succeeds, it is probed again, it fails.
LEMMA ContinueStep ==
  ASSUME HostInv, Running, Continue, job' = job, launched' = FALSE, Current.do \notin {"exit", "leave"},
         Settled(job.backend, PlanOf(job)[pc], held', orphans, {})
  PROVE  HostInv'
<1> DEFINE N == Len(Program(job))
<1>0. job \in Jobs /\ Here /\ todo = <<>> /\ Stream \notin orphans /\ N \in Nat
  BY RunningFacts, ProgramEnd
<1>1. pc + 1 \in 1 .. N /\ pc \in Nat
  BY <1>0, HereFacts DEF Here
<1>2. pc' = pc + 1 /\ todo' = <<>> /\ orphans' = orphans /\ probes' = 0
  BY <1>0 DEF Continue
<1>3. HostTypes'
  <2>1. job' \in Jobs /\ pc' \in 1 .. Len(Program(job')) + 1
    BY <1>0, <1>1, <1>2
  <2>2. todo' \in Seq(Resources) /\ probes' \in 0 .. MaxProbes - 1 /\ launched' \in BOOLEAN
    <3>1. todo' \in Seq(Resources)
      BY <1>2, NoTodo
    <3> QED  BY <1>2, <3>1, ProbeZero
  <2> QED  BY <2>1, <2>2 DEF HostTypes
<1>4. Standing(job', pc') = PlanOf(job)[pc]
  BY <1>0, <1>1, <1>2 DEF Standing
<1>5. (ToSet(todo) \cup Lending)' = {}
  BY <1>2 DEF Lending, ToSet
<1>6. Settled(job.backend, Standing(job, pc), held, orphans, ToSet(todo) \cup Lending)'
  BY <1>2, <1>4, <1>5
<1>7. LaunchInv' /\ OrphanInv'
  <2>1. \A r \in orphans : r[1] = "region" \/ r = Stream
    BY DEF HostInv, OrphanInv
  <2> QED  BY <1>0, <1>2, <2>1 DEF LaunchInv, OrphanInv
<1>8. (Standing(job, pc) \cap ToSet(todo) = {})' /\ Covers(todo, held \ orphans, job.backend)'
  BY <1>2, NoTodo
<1> QED  BY <1>2, <1>3, <1>6, <1>7, <1>8 DEF HostInv

\* Another probe preserves the invariant.
LEMMA ProbeStep ==
  ASSUME HostInv, Running, ProbeAgain(Current), job' = job, launched' = FALSE,
         Settled(job.backend, Standing(job, pc), held', orphans, {})
  PROVE  HostInv'
<1>0. job \in Jobs /\ Here /\ todo = <<>> /\ Stream \notin orphans
  BY RunningFacts
<1>1. pc' = pc /\ todo' = <<>> /\ orphans' = orphans /\ probes' = probes + 1 /\ probes + 1 < MaxProbes
  BY <1>0 DEF ProbeAgain
<1>2. HostTypes'
  <2>1. probes + 1 \in 0 .. MaxProbes - 1
    BY <1>1, HostAssumption DEF HostInv, HostTypes
  <2>2. job' \in Jobs /\ pc' \in 1 .. Len(Program(job')) + 1
    BY <1>1 DEF HostInv, HostTypes
  <2>3. todo' \in Seq(Resources)
    BY <1>1, NoTodo
  <2> QED  BY <1>1, <2>1, <2>2, <2>3 DEF HostTypes
<1>3. (ToSet(todo) \cup Lending)' = {}
  BY <1>1 DEF Lending, ToSet
<1>4. Settled(job.backend, Standing(job, pc), held, orphans, ToSet(todo) \cup Lending)'
  BY <1>1, <1>3
<1>5. LaunchInv' /\ OrphanInv'
  <2>1. OrphanInv
    BY DEF HostInv
  <2> QED  BY <1>1, <2>1 DEF LaunchInv, OrphanInv
<1>6. (Standing(job, pc) \cap ToSet(todo) = {})' /\ Covers(todo, held \ orphans, job.backend)'
  BY <1>1, NoTodo
<1> QED  BY <1>1, <1>2, <1>4, <1>5, <1>6 DEF HostInv

\* A failure preserves the invariant: the plan is exchanged for what the step undoes and the
\* scopes reset, or for what a Session had open before the call.
LEMMA FailStep ==
  ASSUME HostInv, Running, NEW lost, Fail(Current, held', lost), job' = job, launched' = FALSE,
         \A r \in lost : r[1] = "region",
         Settled(job.backend, Standing(job, pc), held', orphans \cup lost, {})
  PROVE  HostInv'
<1> DEFINE N == Len(Program(job))
           b == job.backend
           G == Standing(job, pc)
           u == Current.undo
<1>0. job \in Jobs /\ Here /\ Stream \notin orphans /\ N \in Nat
  BY RunningFacts, ProgramEnd
<1>1. UndoGood(job, InTorchCall, SessionGot(b), Current, G) /\ Base(job) \subseteq G
      /\ (~InTorchCall => G \subseteq Base(job) \cup All(job)) /\ Current \in Steps
  BY <1>0, HereFacts
<1>2. u \in Seq(Resources)
  BY <1>1 DEF Steps
<1>3. orphans \cup lost \subseteq orphans' /\ orphans' \subseteq held'
  BY DEF Fail, Settled
<1>4. Settled(b, G, held', orphans', {})
  <2> HIDE DEF b, G
  <2> QED  BY <1>3, SettledLost DEF b, G
<1>5. (Lending)' = {}
  BY DEF Lending
<1>6. LaunchInv' /\ launched' \in BOOLEAN /\ probes' \in 0 .. MaxProbes - 1
  BY ProbeZero DEF LaunchInv, Fail
<1>7. Covers(u, G \cup Kept(G), b) /\ Base(job) \cap ToSet(u) = {}
  BY <1>1 DEF UndoGood
<1>8. held' \ orphans' \subseteq G \cup Kept(G)
  <2> HIDE DEF G, b
  <2> QED  BY <1>4 DEF Settled
<1>9. Covers(u, held' \ orphans', b)
  BY <1>7, <1>8, CoversFewer
<1>10. \A r \in orphans' : r[1] = "region" \/ r = Stream
  BY DEF Fail, HostInv, OrphanInv
<1>11. CASE InTorchCall
  <2> DEFINE S == SessionGot(b)
  <2>1. /\ S \subseteq G /\ G \subseteq S \cup ToSet(u) /\ S \cap ToSet(u) = {} /\ Stream \notin ToSet(u)
    BY <1>1, <1>11 DEF UndoGood
  <2>2. AfterCall \in 1 .. N /\ Standing(job, AfterCall) = S
    BY <1>0, <1>11, AfterCallFacts
  <2>3. pc' = AfterCall /\ todo' = u \o <<>>
    BY <1>11 DEF Fail
  <2>4. todo' = u
    BY <1>2, <2>3
  <2> HIDE DEF S, G, u, b
  <2>5. Kept(G) \subseteq Kept(S)
    BY <2>1 DEF Kept
  <2>6. Settled(b, S, held', orphans', ToSet(u))
    BY <1>4, <2>1, <2>5, SettledLess
  <2>7. HostTypes'
    BY <1>0, <1>2, <1>6, <2>2, <2>3, <2>4 DEF HostTypes
  <2>8. OrphanInv'
    <3>1. job.program = "torch" /\ ~Constructing
      BY <1>11 DEF InTorchCall
    <3>2. orphans' = orphans \cup lost
      BY <3>1 DEF Fail
    <3>3. Stream \notin orphans'
      BY <1>0, <3>2, SingleKinds
    <3> QED  BY <1>10, <3>3 DEF OrphanInv
  <2>9. Settled(job.backend, Standing(job, pc), held, orphans, ToSet(todo) \cup Lending)'
    BY <1>5, <2>2, <2>3, <2>4, <2>6 DEF b
  <2>10. (Standing(job, pc) \cap ToSet(todo) = {})' /\ Covers(todo, held \ orphans, job.backend)'
    BY <1>9, <2>1, <2>2, <2>3, <2>4 DEF b
  <2>11. job'.program = "torch"
    BY <1>11 DEF InTorchCall
  <2> QED  BY <1>6, <2>7, <2>8, <2>9, <2>10, <2>11 DEF HostInv
<1>12. CASE ~InTorchCall
  <2> DEFINE R == ScopeReset(job)
             B == Base(job)
  <2>1. Teardown(R, All(job), All(job) \cup B, b) /\ B \cap All(job) = {} /\ Requests \subseteq All(job)
    BY <1>0, ScopeTeardown
  <2>2. R \in Seq(Resources) /\ ToSet(R) = All(job) /\ Covers(R, All(job) \cup B, b)
    BY <2>1 DEF Teardown
  <2>3. pc' = N + 1 /\ todo' = u \o R
    BY <1>12 DEF Fail
  <2>4. Standing(job', pc') = B
    BY <1>0, <2>3 DEF Standing
  <2> HIDE DEF G, u, b, R, B
  <2>5. todo' \in Seq(Resources) /\ ToSet(todo') = ToSet(u) \cup All(job)
    BY <1>2, <2>2, <2>3, RangeConcat
  <2>6. Kept(G) \subseteq All(job)
    BY <2>1 DEF Kept
  <2>7. Settled(b, B, held', orphans', ToSet(todo'))
    <3>1. B \subseteq G /\ G \subseteq B \cup All(job)
      BY <1>1, <1>12 DEF B, G
    <3>2. G \cup Kept(G) \subseteq (B \cup Kept(B)) \cup ToSet(todo')
      BY <2>5, <2>6, <3>1
    <3> QED  BY <1>4, <3>1, <3>2, SettledLess
  <2>8. Covers(todo', held' \ orphans', b)
    <3>1. held' \ orphans' \subseteq All(job) \cup B
      BY <1>1, <1>8, <1>12, <2>6 DEF G, B
    <3>2. Covers(R, (held' \ orphans') \ ToSet(u), b)
      BY <2>2, <3>1, CoversFewer
    <3> QED  BY <1>2, <1>9, <2>2, <2>3, <3>2, CoversConcat
  <2>9. B \cap ToSet(todo') = {}
    BY <1>7, <2>1, <2>5 DEF B
  <2>10. HostTypes'
    BY <1>0, <1>6, <2>3, <2>5 DEF HostTypes
  <2>11. pc' > Len(Program(job')) /\ ~(pc' <= Len(Program(job')))
    BY <1>0, <2>3
  <2>12. OrphanInv'
    BY <1>10, <2>11 DEF OrphanInv
  <2>13. Settled(job.backend, Standing(job, pc), held, orphans, ToSet(todo) \cup Lending)'
    BY <1>5, <2>4, <2>7 DEF b
  <2>14. (Standing(job, pc) \cap ToSet(todo) = {})' /\ Covers(todo, held \ orphans, job.backend)'
    BY <2>4, <2>8, <2>9 DEF b
  <2> QED  BY <1>6, <2>10, <2>11, <2>12, <2>13, <2>14 DEF HostInv
<1> QED  BY <1>11, <1>12

\* The host's invariant holds at the start, and every action keeps it.
LEMMA HostInit == Init => HostInv
<1> SUFFICES ASSUME Init PROVE HostInv
  OBVIOUS
<1>0. job \in Jobs /\ Len(Program(job)) \in Nat \ {0}
  BY ProgramEnd DEF Init
<1>1. pc = 1 /\ todo = <<>> /\ orphans = {} /\ launched = FALSE /\ probes = 0 /\ held = Base(job)
  BY DEF Init, Base
<1>2. HostTypes
  <2>1. todo \in Seq(Resources)
    BY <1>1, NoTodo
  <2>2. pc \in 1 .. Len(Program(job)) + 1
    BY <1>0, <1>1
  <2>3. probes \in 0 .. MaxProbes - 1
    BY <1>1, ProbeZero
  <2>4. launched \in BOOLEAN
    BY <1>1
  <2> QED  BY <1>0, <2>1, <2>2, <2>3, <2>4 DEF HostTypes
<1>3. Standing(job, pc) = Base(job)
  <2>1. PlanOf(job)[0] = Base(job)
    BY <1>0, PlanFacts
  <2>2. pc - 1 = 0 /\ pc <= Len(Program(job))
    BY <1>0, <1>1
  <2> QED  BY <2>1, <2>2 DEF Standing
<1>4. Settled(job.backend, Standing(job, pc), held, orphans, ToSet(todo) \cup Lending)
  <2>1. \A r \in Base(job) : r \in Resources /\ Stands(r, job.backend) = {}
    BY Known, SingleStands DEF Base
  <2> HIDE DEF Base
  <2> QED  BY <1>1, <1>3, <2>1 DEF Settled
<1>5. Standing(job, pc) \cap ToSet(todo) = {} /\ Covers(todo, held \ orphans, job.backend)
  BY <1>1, NoTodo
<1>6. LaunchInv /\ OrphanInv
  BY <1>1 DEF LaunchInv, OrphanInv
<1> QED  BY <1>1, <1>2, <1>4, <1>5, <1>6 DEF HostInv

\* When the program runs and no call is waiting, it holds what its plan says.
LEMMA IdleSettled ==
  ASSUME HostInv, Running, ~launched
  PROVE  Settled(job.backend, Standing(job, pc), held, orphans, {})
  BY RunningFacts

\* A step that takes nothing and ends no call leaves the plan as it is.
LEMMA SamePlan ==
  ASSUME HostInv, Running, Current.do # "get", Current.do # "leave"
  PROVE  PlanOf(job)[pc] = Standing(job, pc)
<1>1. job \in Jobs /\ Here
  BY RunningFacts
<1>2. Standing(job, pc) = PlanOf(job)[pc - 1]
  BY <1>1, HereFacts
<1> QED  BY <1>1, <1>2, StepGrows DEF Here, Current

\* Freeing the arguments of a call, and the requests after a probe, leaves the rest.
LEMMA ProbeSettled ==
  ASSUME HostInv, Running, NEW X, X = AfterProbe(Current, held \ Lending)
  PROVE  Settled(job.backend, Standing(job, pc), X, orphans, {})
<1> DEFINE L == Requests \cup Lent
           G == Standing(job, pc)
           Z == IF job.backend = "AIV" /\ Current.res[2] = "wait" THEN Lending \cup Requests ELSE Lending
<1>0. /\ job \in Jobs /\ Here /\ Settled(job.backend, G, held, orphans, Lending) /\ orphans \cap L = {}
  BY RunningFacts
<1>1. G \cap L = {} /\ \A r \in G : Stands(r, job.backend) \cap L = {}
  BY <1>0, HereFacts
<1>2. Lending \subseteq L
  BY DEF Lending, Arguments, Lent
<1>3. X = held \ Z
  BY DEF AfterProbe
<1>4. Z \subseteq L /\ Lending \subseteq Z
  BY <1>2
<1> HIDE DEF Z, G
<1>5. Settled(job.backend, G, held \ Z, orphans, {})
  BY <1>0, <1>1, <1>4, SettledUnlend
<1> QED  BY <1>3, <1>5 DEF G

\* A failure that loses no region.
LEMMA FailNone ==
  ASSUME HostInv, Running, Fail(Current, held', {}), job' = job, launched' = FALSE,
         Settled(job.backend, Standing(job, pc), held', orphans, {})
  PROVE  HostInv'
<1> DEFINE lost == {}
<1>1. orphans \cup lost = orphans /\ (\A r \in lost : r[1] = "region") /\ Fail(Current, held', lost)
  OBVIOUS
<1> HIDE DEF lost
<1>2. Settled(job.backend, Standing(job, pc), held', orphans \cup lost, {})
  BY <1>1
<1> QED  BY <1>1, <1>2, FailStep

\* Every way a call can come back preserves the invariant.
LEMMA OutcomeStep ==
  ASSUME HostInv, Running, Outcome(Current, held'), job' = job, launched' = FALSE,
         Current.do \in {"call", "submit", "wait"},
         Settled(job.backend, Standing(job, pc), held', orphans, {})
  PROVE  HostInv'
<1>1. Settled(job.backend, PlanOf(job)[pc], held', orphans, {})
  BY SamePlan
<1>2. CASE Continue
  BY <1>1, <1>2, ContinueStep
<1>3. CASE Fail(Current, held', {})
  BY <1>3, FailNone
<1>4. CASE ProbeAgain(Current)
  BY <1>4, ProbeStep
<1> QED  BY <1>2, <1>3, <1>4 DEF Outcome

\* One lemma per action.
LEMMA AcquireHost ==
  ASSUME HostInv, Acquire
  PROVE  HostInv'
<1> DEFINE r == Current.res
           G == Standing(job, pc)
<1>0. Running /\ Current.do = "get" /\ held' = held \cup {r} /\ Continue /\ job' = job /\ launched' = launched
  BY DEF Acquire
<1>1. job \in Jobs /\ Here /\ launched = FALSE
  BY <1>0, RunningFacts
<1>2. r \in Resources /\ Stands(r, job.backend) \subseteq G /\ G = PlanOf(job)[pc - 1]
  BY <1>0, <1>1, HereFacts DEF GetGood
<1>3. PlanOf(job)[pc] = G \cup {r}
  BY <1>0, <1>1, <1>2, StepGrows DEF Here, Current
<1>4. Settled(job.backend, G, held, orphans, {})
  BY <1>0, <1>1, IdleSettled
<1> HIDE DEF G, r
<1>5. Settled(job.backend, PlanOf(job)[pc], held', orphans, {})
  BY <1>0, <1>2, <1>3, <1>4, SettledGet
<1> QED  BY <1>0, <1>1, <1>5, ContinueStep

\* Pass preserves the invariant.
LEMMA PassHost ==
  ASSUME HostInv, Pass
  PROVE  HostInv'
<1>0. Running /\ Current.do = "check" /\ held' = held /\ Continue /\ job' = job /\ launched' = launched
  BY DEF Pass
<1>1. launched = FALSE
  BY <1>0, RunningFacts
<1>2. Settled(job.backend, PlanOf(job)[pc], held', orphans, {})
  BY <1>0, <1>1, IdleSettled, SamePlan
<1> QED  BY <1>0, <1>1, <1>2, ContinueStep

\* A failure that changes nothing that is held.
LEMMA PlainFail ==
  ASSUME HostInv, Running, ~launched, Fail(Current, held, {}), job' = job, held' = held, launched' = launched
  PROVE  HostInv'
<1>1. Settled(job.backend, Standing(job, pc), held', orphans, {})
  BY IdleSettled
<1>2. launched' = FALSE
  BY RunningFacts
<1>3. Fail(Current, held', {})
  OBVIOUS
<1> QED  BY <1>1, <1>2, <1>3, FailNone

\* StepFails preserves the invariant.
LEMMA StepFailsHost ==
  ASSUME HostInv, StepFails
  PROVE  HostInv'
<1>1. Running /\ Fail(Current, held, {}) /\ job' = job /\ held' = held /\ launched' = launched
  BY DEF StepFails
<1>2. ~launched
  BY <1>1, RunningFacts DEF StepFails
<1> QED  BY <1>1, <1>2, PlainFail

\* ReceiveRecord preserves the invariant, whether the record comes or not.
LEMMA ReceiveRecordHost ==
  ASSUME HostInv, ReceiveRecord
  PROVE  HostInv'
<1>0. /\ Running /\ Current.do = "receive" /\ held' = held /\ job' = job /\ launched' = launched
      /\ Continue \/ Fail(Current, held, {})
  BY DEF ReceiveRecord
<1>1. launched = FALSE
  BY <1>0, RunningFacts
<1>2. CASE Continue
  <2>1. Settled(job.backend, PlanOf(job)[pc], held', orphans, {})
    BY <1>0, <1>1, IdleSettled, SamePlan
  <2> QED  BY <1>0, <1>1, <1>2, <2>1, ContinueStep
<1>3. CASE Fail(Current, held, {})
  BY <1>0, <1>1, <1>3, PlainFail
<1> QED  BY <1>0, <1>2, <1>3

\* LeaveMain preserves the invariant.
LEMMA LeaveMainHost ==
  ASSUME HostInv, LeaveMain
  PROVE  HostInv'
<1>1. Running /\ Fail(Current, held, {}) /\ job' = job /\ held' = held /\ launched' = launched
  BY DEF LeaveMain
<1>2. ~launched
  BY <1>1, RunningFacts DEF LeaveMain
<1> QED  BY <1>1, <1>2, PlainFail

\* ZeroKey preserves the invariant: the region becomes an orphan.
LEMMA ZeroKeyHost ==
  ASSUME HostInv, ZeroKey
  PROVE  HostInv'
<1> DEFINE r == Current.res
           G == Standing(job, pc)
<1>0. /\ Running /\ Current.do = "get" /\ r[1] = "region" /\ held' = held \cup {r}
      /\ Fail(Current, held', {r}) /\ job' = job /\ launched' = launched
  BY DEF ZeroKey
<1>1. job \in Jobs /\ Here /\ launched = FALSE
  BY <1>0, RunningFacts
<1>2. r \in Resources
  BY <1>0, <1>1, HereFacts DEF GetGood
<1>3. Settled(job.backend, G, held, orphans, {})
  BY <1>0, <1>1, IdleSettled
<1> HIDE DEF G, r
<1>4. Settled(job.backend, G, held', orphans \cup {r}, {})
  BY <1>0, <1>2, <1>3 DEF Settled
<1> DEFINE lost == {r}
<1>5. \A x \in lost : x[1] = "region"
  BY <1>0
<1>6. Settled(job.backend, Standing(job, pc), held', orphans \cup lost, {}) /\ Fail(Current, held', lost)
  BY <1>0, <1>4 DEF G
<1> HIDE DEF lost
<1> QED  BY <1>0, <1>1, <1>5, <1>6, FailStep

\* CallLibrary preserves the invariant.
LEMMA CallLibraryHost ==
  ASSUME HostInv, CallLibrary
  PROVE  HostInv'
<1>0. /\ Running /\ Current.do \in {"call", "submit", "wait"} /\ job.backend = "RA"
      /\ Outcome(Current, held) /\ job' = job /\ held' = held /\ launched' = launched
  BY DEF CallLibrary
<1>1. launched = FALSE
  BY <1>0, RunningFacts
<1>2. Settled(job.backend, Standing(job, pc), held', orphans, {}) /\ Outcome(Current, held')
  BY <1>0, <1>1, IdleSettled
<1> QED  BY <1>0, <1>1, <1>2, OutcomeStep

\* LaunchSync preserves the invariant: the arguments are lent.
LEMMA LaunchSyncHost ==
  ASSUME HostInv, LaunchSync
  PROVE  HostInv'
<1> DEFINE A == Arguments(Current.res[2])
           G == Standing(job, pc)
<1>0. /\ Running /\ Current.do \in {"call", "wait"} /\ job.backend # "RA" /\ ~launched
      /\ held' = held \cup A /\ launched' = TRUE /\ UNCHANGED <<job, pc, orphans, todo, probes>>
  BY DEF LaunchSync
<1>1. job \in Jobs /\ Here /\ todo = <<>> /\ Settled(job.backend, G, held, orphans, {})
  BY <1>0, RunningFacts, IdleSettled
<1>2. A \subseteq Requests \cup Lent
  BY DEF Arguments, Lent
<1>3. {Acl, NetService} \subseteq G
  BY <1>0, <1>1, HereFacts DEF LaunchGood
<1>4. Current' = Current
  BY <1>0 DEF Current
<1>5. (ToSet(todo) \cup Lending)' = A
  BY <1>0, <1>1, <1>4 DEF Lending, ToSet
<1>6. Settled(job.backend, G, held', orphans, {} \cup A)
  <2> HIDE DEF A, G
  <2> QED  BY <1>0, <1>1, <1>2, <1>3, SettledLend
<1>7. Settled(job.backend, Standing(job, pc), held, orphans, ToSet(todo) \cup Lending)'
  <2>1. {} \cup A = A
    OBVIOUS
  <2> QED  BY <1>0, <1>5, <1>6, <2>1
<1>8. HostTypes' /\ OrphanInv'
  BY <1>0 DEF HostInv, HostTypes, OrphanInv
<1>9. LaunchInv'
  BY <1>0, <1>1, <1>4 DEF LaunchInv, Running
<1>10. (Standing(job, pc) \cap ToSet(todo) = {})' /\ Covers(todo, held \ orphans, job.backend)'
  <2>1. todo' = <<>>
    BY <1>0, <1>1
  <2> QED  BY <2>1, NoTodo
<1>11. todo' = <<>>
  BY <1>0, <1>1
<1> QED  BY <1>7, <1>8, <1>9, <1>10, <1>11 DEF HostInv

\* LaunchFails preserves the invariant.
LEMMA LaunchFailsHost ==
  ASSUME HostInv, LaunchFails
  PROVE  HostInv'
<1>0. /\ Running /\ ~launched /\ held' = AfterProbe(Current, held) /\ Fail(Current, held', {})
      /\ job' = job /\ launched' = launched
  BY DEF LaunchFails
<1>1. launched' = FALSE /\ Lending = {}
  BY <1>0, RunningFacts
<1>2. held \ Lending = held
  BY <1>1
<1>3. Settled(job.backend, Standing(job, pc), held', orphans, {})
  BY <1>0, <1>2, ProbeSettled
<1> QED  BY <1>0, <1>1, <1>3, FailNone

\* SubmitAsync preserves the invariant: the launcher keeps the request.
LEMMA SubmitAsyncHost ==
  ASSUME HostInv, SubmitAsync
  PROVE  HostInv'
<1> DEFINE A == AsyncArguments(Current.res[3])
           G == Standing(job, pc)
<1>0. /\ Running /\ Current.do = "submit" /\ job.backend # "RA" /\ held' = held \cup A
      /\ Continue /\ job' = job /\ launched' = launched
  BY DEF SubmitAsync
<1>1. job \in Jobs /\ Here /\ launched = FALSE /\ Settled(job.backend, G, held, orphans, {})
  BY <1>0, RunningFacts, IdleSettled
<1>2. {Stream, Acl, NetService} \subseteq G /\ Current.res[3] \in 1 .. CommandCount
  BY <1>0, <1>1, HereFacts DEF LaunchGood
<1>3. A \subseteq Requests
  BY <1>2 DEF AsyncArguments, Requests
<1>4. Kept(G) = Requests
  BY <1>2 DEF Kept
<1> HIDE DEF A, G
<1>5. Settled(job.backend, G, held', orphans, {} \cup A)
  BY <1>0, <1>1, <1>2, <1>3, SettledLend
<1>6. Settled(job.backend, G, held', orphans, {})
  BY <1>3, <1>4, <1>5 DEF Settled
<1>7. PlanOf(job)[pc] = G
  BY <1>0, SamePlan DEF G
<1> QED  BY <1>0, <1>1, <1>6, <1>7, ContinueStep

\* SyncDone preserves the invariant: what was lent is freed.
LEMMA SyncDoneHost ==
  ASSUME HostInv, SyncDone
  PROVE  HostInv'
<1>0. /\ Running /\ launched /\ held' = AfterProbe(Current, held \ Arguments(Current.res[2]))
      /\ launched' = FALSE /\ Outcome(Current, held') /\ job' = job
  BY DEF SyncDone
<1>1. held' = AfterProbe(Current, held \ Lending)
  BY <1>0 DEF Lending
<1>2. Settled(job.backend, Standing(job, pc), held', orphans, {})
  BY <1>0, <1>1, ProbeSettled
<1>3. Current.do \in {"call", "submit", "wait"}
  BY <1>0, RunningFacts
<1> QED  BY <1>0, <1>2, <1>3, OutcomeStep

\* SyncTimesOut preserves the invariant.
LEMMA SyncTimesOutHost ==
  ASSUME HostInv, SyncTimesOut
  PROVE  HostInv'
<1>0. /\ Running /\ launched /\ held' = AfterProbe(Current, held \ Arguments(Current.res[2]))
      /\ launched' = FALSE /\ Fail(Current, held', {}) /\ job' = job
  BY DEF SyncTimesOut
<1>1. held' = AfterProbe(Current, held \ Lending)
  BY <1>0 DEF Lending
<1>2. Settled(job.backend, Standing(job, pc), held', orphans, {})
  BY <1>0, <1>1, ProbeSettled
<1> QED  BY <1>0, <1>2, FailNone

\* A call that returns: its locals are still to be reset, and only they.
LEMMA LeaveCallHost ==
  ASSUME HostInv, LeaveCall
  PROVE  HostInv'
<1> DEFINE u == Current.undo
           S == SessionGot(job.backend)
           G == Standing(job, pc)
<1>0. /\ Running /\ Current.do = "leave" /\ todo' = u /\ pc' = pc + 1
      /\ UNCHANGED <<job, held, orphans, launched, probes>>
  BY DEF LeaveCall
<1>1. job \in Jobs /\ Here /\ launched = FALSE /\ Stream \notin orphans
  BY <1>0, RunningFacts
<1>2. Settled(job.backend, G, held, orphans, {})
  BY <1>0, <1>1, IdleSettled
<1>3. /\ UndoGood(job, InTorchCall, S, Current, G) /\ Current \in Steps /\ pc + 1 \in 1 .. Len(Program(job))
      /\ Len(Program(job)) \in Nat
  BY <1>0, <1>1, HereFacts, ProgramEnd
<1>4. InTorchCall /\ u \in Seq(Resources) /\ Covers(u, G \cup Kept(G), job.backend)
  BY <1>0, <1>3 DEF UndoGood, Steps
<1>5. S \subseteq G /\ G \subseteq S \cup ToSet(u) /\ S \cap ToSet(u) = {} /\ Stream \notin ToSet(u)
  BY <1>3, <1>4 DEF UndoGood
<1>6. Standing(job, pc + 1) = S
  <2>1. PlanOf(job)[pc] = S
    BY <1>0, <1>1, PlanAfterLeave DEF Here, Current
  <2> QED  BY <1>1, <1>3, <2>1 DEF Standing, Here
<1> HIDE DEF u, S, G
<1>7. Kept(G) \subseteq Kept(S)
  BY <1>5 DEF Kept
<1>8. Settled(job.backend, S, held, orphans, ToSet(u))
  BY <1>2, <1>5, <1>7, SettledLess
<1>9. Covers(u, held \ orphans, job.backend)
  <2>1. held \ orphans \subseteq G \cup Kept(G)
    BY <1>2 DEF Settled
  <2> QED  BY <1>4, <2>1, CoversFewer
<1>10. HostTypes'
  BY <1>0, <1>3, <1>4 DEF HostInv, HostTypes
<1>11. LaunchInv' /\ OrphanInv'
  BY <1>0, <1>1 DEF HostInv, LaunchInv, OrphanInv
<1>12. (ToSet(todo) \cup Lending)' = ToSet(u)
  BY <1>0, <1>1 DEF Lending
<1>13. Settled(job.backend, Standing(job, pc), held, orphans, ToSet(todo) \cup Lending)'
  BY <1>0, <1>6, <1>8, <1>12
<1>14. (Standing(job, pc) \cap ToSet(todo) = {})' /\ Covers(todo, held \ orphans, job.backend)'
  BY <1>0, <1>5, <1>6, <1>9
<1>15. job'.program = "torch"
  BY <1>0, <1>4 DEF InTorchCall
<1> QED  BY <1>10, <1>11, <1>13, <1>14, <1>15 DEF HostInv

\* Nothing stands on the first of a right order, and the rest is a right order.
LEMMA CoversTail ==
  ASSUME NEW s \in Seq(Resources), s # <<>>, NEW X, NEW b, Covers(s, X, b)
  PROVE  /\ \A x \in X : Head(s) \notin Under(x, b)
         /\ Covers(Tail(s), X \ {Head(s)}, b)
<1>0. /\ Len(s) \in Nat \ {0} /\ DOMAIN s = 1 .. Len(s) /\ DOMAIN Tail(s) = 1 .. Len(s) - 1 /\ Head(s) = s[1]
      /\ \A i \in 1 .. Len(s) - 1 : Tail(s)[i] = s[i + 1]
  OBVIOUS
<1>1. ASSUME NEW x \in X, Head(s) \in Under(x, b) PROVE FALSE
  <2>1. 1 \in DOMAIN s /\ s[1] \in Under(x, b)
    BY <1>0, <1>1
  <2>2. \E k \in 1 .. 1 - 1 : s[k] = x
    BY <2>1 DEF Covers
  <2> QED  BY <2>2
<1>2. ASSUME NEW x \in X \ {Head(s)}, NEW i \in DOMAIN Tail(s), Tail(s)[i] \in Under(x, b)
      PROVE  \E k \in 1 .. i - 1 : Tail(s)[k] = x
  <2>1. i \in 1 .. Len(s) - 1 /\ i + 1 \in DOMAIN s /\ s[i + 1] \in Under(x, b)
    BY <1>0, <1>2
  <2>2. PICK k \in 1 .. (i + 1) - 1 : s[k] = x
    BY <2>1, <1>2 DEF Covers
  <2>3. k # 1
    BY <1>0, <2>2
  <2>4. k - 1 \in 1 .. i - 1 /\ k - 1 \in 1 .. Len(s) - 1 /\ (k - 1) + 1 = k
    BY <1>0, <2>1, <2>2, <2>3
  <2>5. Tail(s)[k - 1] = x
    BY <1>0, <2>2, <2>4
  <2> QED  BY <2>4, <2>5
<1> QED  BY <1>1, <1>2 DEF Covers

\* The elements of a sequence are its head and those of its tail.
LEMMA TailSet ==
  ASSUME NEW s \in Seq(Resources), s # <<>>
  PROVE  /\ Tail(s) \in Seq(Resources) /\ Head(s) \in Resources
         /\ ToSet(s) = {Head(s)} \cup ToSet(Tail(s))
<1>0. /\ Len(s) \in Nat \ {0} /\ DOMAIN s = 1 .. Len(s) /\ DOMAIN Tail(s) = 1 .. Len(s) - 1 /\ Head(s) = s[1]
      /\ \A i \in 1 .. Len(s) - 1 : Tail(s)[i] = s[i + 1]
      /\ Tail(s) \in Seq(Resources) /\ Head(s) \in Resources
  OBVIOUS
<1>1. ASSUME NEW i \in DOMAIN s PROVE s[i] \in {Head(s)} \cup ToSet(Tail(s))
  <2>1. CASE i = 1
    BY <1>0, <2>1
  <2>2. CASE i # 1
    <3>1. i - 1 \in DOMAIN Tail(s) /\ Tail(s)[i - 1] = s[i]
      BY <1>0, <2>2
    <3> QED  BY <3>1 DEF ToSet
  <2> QED  BY <2>1, <2>2
<1>2. Head(s) \in ToSet(s)
  <2>1. 1 \in DOMAIN s
    BY <1>0
  <2> QED  BY <1>0, <2>1 DEF ToSet
<1>3. ASSUME NEW i \in DOMAIN Tail(s) PROVE Tail(s)[i] \in ToSet(s)
  <2>1. i + 1 \in DOMAIN s /\ Tail(s)[i] = s[i + 1]
    BY <1>0
  <2> QED  BY <2>1 DEF ToSet
<1> QED  BY <1>0, <1>1, <1>2, <1>3 DEF ToSet

\* The reset of a live resource reaches its provider.
LEMMA StandsOnRelease ==
  ASSUME NEW b, NEW X, NEW r \in Resources, Stands(r, b) \subseteq X
  PROVE  CanRelease(r, b, X)
<1>1. CASE r[1] = "region"
  <2>1. Needs(r, b) = {Rdev, Buffer(r[2], r[3])}
    BY <1>1 DEF Needs
  <2>2. Rdev \in X
    BY <2>1 DEF Stands
  <2> QED  BY <1>1, <2>2 DEF CanRelease
<1>2. CASE r[1] = "buffer"
  <2>1. ~OnHost(r, b) => NetService \in X
    BY <1>2 DEF Stands
  <2> QED  BY <1>2, <2>1 DEF CanRelease
<1>3. CASE r[1] # "region" /\ r[1] # "buffer"
  BY <1>3 DEF CanRelease
<1> QED  BY <1>1, <1>2, <1>3

\* One reset gives back its resource, unless it is orphaned or not held.
LEMMA ReleaseFacts ==
  ASSUME HostInv, Release
  PROVE  /\ todo \in Seq(Resources) /\ todo # <<>> /\ todo' = Tail(todo) /\ ~launched
         /\ held' \ orphans = (held \ orphans) \ {Head(todo)} /\ held' \subseteq held
         /\ \A r \in held \ held' : r = Head(todo) /\ r \notin orphans
<1> DEFINE b == job.backend
           r == Head(todo)
<1>0. todo \in Seq(Resources) /\ todo # <<>> /\ todo' = Tail(todo) /\ ~launched
  BY DEF HostInv, HostTypes, LaunchInv, Release
<1>1. r \in Resources
  BY <1>0, TailSet
<1>2. held' = IF r \notin orphans /\ CanRelease(r, b, held) THEN held \ {r} ELSE held
  BY DEF Release
<1>3. r \in held \ orphans => CanRelease(r, b, held)
  BY <1>1, StandsOnRelease DEF HostInv, Settled
<1> HIDE DEF r, b
<1>4. held' \ orphans = (held \ orphans) \ {r} /\ held' \subseteq held /\ \A x \in held \ held' : x = r /\ x \notin orphans
  BY <1>2, <1>3
<1> QED  BY <1>0, <1>4 DEF r

\* Release preserves the invariant: the rest of the destructors still covers what is held.
LEMMA ReleaseHost ==
  ASSUME HostInv, Release
  PROVE  HostInv'
<1> DEFINE b == job.backend
           r == Head(todo)
           G == Standing(job, pc)
           T == ToSet(todo)
           T1 == ToSet(Tail(todo))
<1>0. UNCHANGED <<job, pc, orphans, launched, probes>>
  BY DEF Release
<1>1. /\ todo \in Seq(Resources) /\ todo # <<>> /\ todo' = Tail(todo) /\ ~launched
      /\ held' \ orphans = (held \ orphans) \ {r} /\ held' \subseteq held
      /\ \A x \in held \ held' : x = r /\ x \notin orphans
  BY ReleaseFacts
<1>2. Tail(todo) \in Seq(Resources) /\ T = {r} \cup T1
  BY <1>1, TailSet
<1>3. Covers(todo, held \ orphans, b)
  BY DEF HostInv
<1>4. (\A x \in held \ orphans : r \notin Under(x, b)) /\ Covers(Tail(todo), (held \ orphans) \ {r}, b)
  BY <1>1, <1>3, CoversTail
<1>5. Settled(b, G, held, orphans, T) /\ G \cap T = {}
  <2>1. Lending = {}
    BY <1>1 DEF Lending
  <2>2. T \cup Lending = T
    BY <2>1
  <2> QED  BY <2>2 DEF HostInv
<1>6. \A x \in held \ orphans : r \notin Stands(x, b)
  BY <1>4 DEF Under
<1> HIDE DEF r, G, T, T1
<1>7. Settled(b, G, held', orphans, T1)
  <2>1. G \subseteq held' /\ orphans \subseteq held' /\ held' \subseteq Resources
    BY <1>1, <1>2, <1>5 DEF Settled
  <2>2. held' \ orphans \subseteq (G \cup Kept(G)) \cup T1
    BY <1>1, <1>2, <1>5 DEF Settled
  <2>3. ASSUME NEW x \in held' \ orphans PROVE Stands(x, b) \subseteq held'
    <3>1. x \in held \ orphans
      BY <1>1
    <3>2. Stands(x, b) \subseteq held
      BY <1>5, <3>1 DEF Settled
    <3> QED  BY <1>1, <1>6, <3>1, <3>2
  <2> QED  BY <2>1, <2>2, <2>3 DEF Settled
<1>8. HostTypes' /\ LaunchInv' /\ OrphanInv'
  BY <1>0, <1>1, <1>2 DEF HostInv, HostTypes, LaunchInv, OrphanInv
<1>9. (ToSet(todo) \cup Lending)' = T1
  BY <1>0, <1>1 DEF Lending, T1
<1>10. Settled(job.backend, Standing(job, pc), held, orphans, ToSet(todo) \cup Lending)'
  BY <1>0, <1>7, <1>9 DEF G
<1>11. (Standing(job, pc) \cap ToSet(todo) = {})' /\ Covers(todo, held \ orphans, job.backend)'
  BY <1>0, <1>1, <1>2, <1>4, <1>5 DEF G, T1
<1>12. pc' <= Len(Program(job')) /\ todo' # <<>> => job'.program = "torch"
  BY <1>0, <1>1 DEF HostInv
<1> QED  BY <1>8, <1>10, <1>11, <1>12 DEF HostInv

\* A step that changes none of the host's variables preserves the invariant.
LEMMA HostSame ==
  ASSUME HostInv, UNCHANGED <<job, pc, held, orphans, todo, launched, probes>>
  PROVE  HostInv'
<1>1. Current' = Current
  BY DEF Current
<1>2. HostTypes' /\ LaunchInv' /\ OrphanInv'
  BY <1>1 DEF HostInv, HostTypes, LaunchInv, OrphanInv
<1>3. Lending' = Lending
  BY <1>1 DEF Lending
<1> QED  BY <1>2, <1>3 DEF HostInv

\* Every step preserves the invariant of the host.
LEMMA HostNext == HostInv /\ [Next]_vars => HostInv'
<1> SUFFICES ASSUME HostInv, [Next]_vars PROVE HostInv'
  OBVIOUS
<1>1. CASE Acquire \/ Pass \/ StepFails \/ ZeroKey
  BY <1>1, AcquireHost, PassHost, StepFailsHost, ZeroKeyHost
<1>2. CASE CallLibrary \/ LaunchSync \/ LaunchFails \/ SubmitAsync
  BY <1>2, CallLibraryHost, LaunchSyncHost, LaunchFailsHost, SubmitAsyncHost
<1>3. CASE SyncDone \/ SyncTimesOut
  BY <1>3, SyncDoneHost, SyncTimesOutHost
<1>4. CASE LeaveCall \/ LeaveMain \/ Release \/ ReceiveRecord
  BY <1>4, LeaveCallHost, LeaveMainHost, ReleaseHost, ReceiveRecordHost
<1>5. CASE RunKernel \/ UNCHANGED vars
  <2>1. UNCHANGED <<job, pc, held, orphans, todo, launched, probes>>
    BY <1>5 DEF RunKernel, vars
  <2> QED  BY <2>1, HostSame
<1> QED  BY <1>1, <1>2, <1>3, <1>4, <1>5 DEF Next, Host

-----------------------------------------------------------------------------
(* The inductive invariant of the stream. *)

\* The inductive invariant of the stream: until a call frees memory without having
\* synchronized it, a stream with kernels is alive and named, and all its kernels use
\* is held.  A Session has kernels only in a synchronous call.
BatchEntries == {Buffer("entries", c) : c \in 1 .. CommandCount}
Exposed == IF pc <= Len(Program(job)) THEN {} ELSE BatchEntries
StreamTypes == stream \in Seq(SUBSET (Used \cup BatchEntries)) /\ freedEarly \in BOOLEAN
KernelInv ==
  /\ StreamTypes
  /\ ~freedEarly /\ stream # <<>> =>
       /\ Stream \in held \ orphans /\ job.backend # "RA" /\ (job.program = "torch" => launched)
       /\ \A i \in DOMAIN stream : stream[i] \ Exposed \subseteq held

\* Nothing is claimed of an empty stream, or after an early free.
LEMMA KernelQuiet ==
  ASSUME StreamTypes', freedEarly' \/ stream' = <<>>
  PROVE  KernelInv'
  BY DEF KernelInv

\* A host step that launches and frees nothing.
LEMMA KernelRunning ==
  ASSUME HostInv, KernelInv, Running, ~launched, stream' = stream, freedEarly' = freedEarly, job' = job,
         held \subseteq held', Stream \in orphans' => Stream \in orphans \/ job.program = "torch"
  PROVE  KernelInv'
<1>1. StreamTypes'
  BY DEF KernelInv, StreamTypes
<1>2. CASE freedEarly \/ stream = <<>>
  BY <1>1, <1>2, KernelQuiet
<1>3. CASE ~freedEarly /\ stream # <<>>
  <2>1. /\ Stream \in held \ orphans /\ job.backend # "RA" /\ job.program # "torch"
        /\ \A i \in DOMAIN stream : stream[i] \ Exposed \subseteq held
    BY <1>3 DEF KernelInv
  <2>2. Exposed = {}
    BY DEF Exposed, Running
  <2>3. \A i \in DOMAIN stream' : stream'[i] \ Exposed' \subseteq held'
    <3>1. \A i \in DOMAIN stream : stream[i] \subseteq held
      BY <2>1, <2>2
    <3> QED  BY <3>1
  <2>4. Stream \in held' \ orphans' /\ job'.backend # "RA" /\ job'.program # "torch"
    BY <2>1
  <2> QED  BY <1>1, <2>3, <2>4 DEF KernelInv
<1> QED  BY <1>2, <1>3

\* Only a Session's constructor orphans the stream.
LEMMA FailOrphans ==
  ASSUME NEW now, NEW lost, Fail(Current, now, lost), \A r \in lost : r[1] = "region"
  PROVE  Stream \in orphans' => Stream \in orphans \/ job.program = "torch"
<1>1. Stream \notin lost
  BY SingleKinds
<1>2. orphans' = (orphans \cup lost) \cup (IF Constructing THEN {Stream} \cap now ELSE {})
  BY DEF Fail
<1>3. Constructing => job.program = "torch"
  BY DEF Constructing
<1> QED  BY <1>1, <1>2, <1>3

\* The same for a failure that loses no region.
LEMMA FailNoneOrphans ==
  ASSUME NEW now, Fail(Current, now, {})
  PROVE  Stream \in orphans' => Stream \in orphans \/ job.program = "torch"
<1> DEFINE lost == {}
<1>1. Fail(Current, now, lost) /\ \A r \in lost : r[1] = "region"
  OBVIOUS
<1> HIDE DEF lost
<1> QED  BY <1>1, FailOrphans

\* One lemma per action, or group of actions that leave the stream alone.
LEMMA PlainKernels ==
  ASSUME HostInv, KernelInv, Acquire \/ Pass \/ ReceiveRecord \/ StepFails \/ ZeroKey \/ LeaveCall \/ LeaveMain
  PROVE  KernelInv'
<1>1. Running /\ stream' = stream /\ freedEarly' = freedEarly /\ job' = job /\ held \subseteq held'
  BY DEF Acquire, Pass, ReceiveRecord, StepFails, ZeroKey, LeaveCall, LeaveMain
<1>2. Current.do \notin {"call", "wait"}
  BY DEF Acquire, Pass, ReceiveRecord, StepFails, ZeroKey, LeaveCall, LeaveMain
<1>3. ~launched
  BY <1>1, <1>2, RunningFacts
<1>4. Stream \in orphans' => Stream \in orphans \/ job.program = "torch"
  <2>1. CASE Acquire \/ Pass \/ LeaveCall
    BY <2>1 DEF Acquire, Pass, LeaveCall, Continue
  <2>2. CASE StepFails \/ LeaveMain
    BY <2>2, FailNoneOrphans DEF StepFails, LeaveMain
  <2>4. CASE ReceiveRecord
    BY <2>4, FailNoneOrphans DEF ReceiveRecord, Continue
  <2>3. CASE ZeroKey
    <3> DEFINE lost == {Current.res}
    <3>1. Fail(Current, held', lost) /\ \A r \in lost : r[1] = "region"
      BY <2>3 DEF ZeroKey
    <3> HIDE DEF lost
    <3> QED  BY <3>1, FailOrphans
  <2> QED  BY <2>1, <2>2, <2>3, <2>4
<1> QED  BY <1>1, <1>3, <1>4, KernelRunning

\* CallLibrary preserves the invariant of the stream: RA has none.
LEMMA CallLibraryKernels ==
  ASSUME HostInv, KernelInv, CallLibrary
  PROVE  KernelInv'
<1>1. StreamTypes' /\ stream' = stream /\ freedEarly' = freedEarly
  BY DEF CallLibrary, KernelInv, StreamTypes
<1>2. freedEarly \/ stream = <<>>
  BY DEF CallLibrary, KernelInv, StreamTypes
<1> QED  BY <1>1, <1>2, KernelQuiet

\* LaunchFails preserves it: requests are freed early, or nothing is freed.
LEMMA LaunchFailsKernels ==
  ASSUME HostInv, KernelInv, LaunchFails
  PROVE  KernelInv'
<1>1. stream' = stream /\ freedEarly' = (freedEarly \/ held' # held) /\ Running /\ ~launched /\ job' = job
  BY DEF LaunchFails
<1>2. StreamTypes'
  BY <1>1 DEF KernelInv, StreamTypes
<1>3. CASE held' = held
  <2>1. freedEarly' = freedEarly
    BY <1>1, <1>3 DEF KernelInv, StreamTypes
  <2>2. Stream \in orphans' => Stream \in orphans \/ job.program = "torch"
    BY FailNoneOrphans DEF LaunchFails
  <2> QED  BY <1>1, <1>3, <2>1, <2>2, KernelRunning
<1>4. CASE held' # held
  BY <1>1, <1>2, <1>4, KernelQuiet
<1> QED  BY <1>3, <1>4

\* The end of a synchronization preserves it: the stream is empty, or memory is freed early.
LEMMA SyncKernels ==
  ASSUME HostInv, KernelInv, SyncDone \/ SyncTimesOut
  PROVE  KernelInv'
<1>1. stream' = stream /\ (freedEarly' = TRUE \/ (freedEarly' = freedEarly /\ stream = <<>>))
  BY DEF SyncDone, SyncTimesOut
<1>2. StreamTypes'
  BY <1>1 DEF KernelInv, StreamTypes
<1> QED  BY <1>1, <1>2, KernelQuiet

\* The descriptors of a kernel point to what a kernel may touch.
Queues(S) == {Qp(q) : q \in S} \cup {Buffer(n, q) : n \in {"sendWrIds", "recvWrIds"}, q \in S}

\* The queue pairs are among what a kernel may touch.
LEMMA QueuesUsed ==
  ASSUME NEW S, S \subseteq Nat
  PROVE  Queues(S) \subseteq Used
<1>1. \A n \in {"sendWrIds", "recvWrIds"} : n \in Names \ {"data", "entries"}
  BY DEF Names
<1> QED  BY <1>1 DEF Used, Queues

\* So is all that the descriptors point to.
LEMMA DescriptorsUsed ==
  ASSUME NEW k
  PROVE  Descriptors(k) \subseteq Used
<1> DEFINE T == {Buffer("qpStates", 0), Buffer("deviceQpAddresses", 0)}
           C == {Buffer(n, 0) : n \in {"slotDescriptors", "storageStates", "command", "completion"}}
           B == Buffer("bootstrap", 0)
<1>0. \A n \in {"qpStates", "deviceQpAddresses", "slotDescriptors", "storageStates", "command", "completion",
                "bootstrap"} : n \in Names \ {"data", "entries"}
  BY DEF Names
<1>2. T \subseteq Used /\ C \subseteq Used /\ B \in Used /\ Binary \in Used
  BY <1>0 DEF Used
<1>3. Queues({1}) \subseteq Used /\ Queues(1 .. QpCount) \subseteq Used
  <2> DEFINE one == {1}
             all == 1 .. QpCount
  <2>1. one \subseteq Nat /\ all \subseteq Nat
    BY QpAssumption
  <2> HIDE DEF one, all
  <2>2. Queues(one) \subseteq Used /\ Queues(all) \subseteq Used
    BY <2>1, QueuesUsed
  <2> QED  BY <2>2 DEF one, all
<1>4. Descriptors(k) = ({Binary} \cup Queues(IF k \in {"post", "poll"} THEN {1} ELSE 1 .. QpCount))
         \cup (CASE k = "bootstrap" -> T \cup {B} [] k \in {"storage", "wait"} -> T \cup C
                 [] k = "rdma" -> T [] OTHER -> {})
  BY DEF Descriptors, Queues
<1> HIDE DEF T, C, B
<1>5. Queues(IF k \in {"post", "poll"} THEN {1} ELSE 1 .. QpCount) \subseteq Used
  <2>1. CASE k \in {"post", "poll"}
    BY <1>3, <2>1
  <2>2. CASE k \notin {"post", "poll"}
    BY <1>3, <2>2
  <2> QED  BY <2>1, <2>2
<1>6. (CASE k = "bootstrap" -> T \cup {B} [] k \in {"storage", "wait"} -> T \cup C
          [] k = "rdma" -> T [] OTHER -> {}) \subseteq Used
  BY <1>2
<1> QED  BY <1>2, <1>4, <1>5, <1>6

\* A kernel is launched with all it uses held.
LEMMA KernelLaunch ==
  ASSUME HostInv, KernelInv, Running, NEW K, K \subseteq Used \cup BatchEntries, K \subseteq held',
         stream' = Append(stream, K), freedEarly' = freedEarly, job' = job, held \subseteq held', orphans' = orphans,
         Stream \in held', job.backend # "RA", job.program = "torch" => launched',
         pc' <= Len(Program(job))
  PROVE  KernelInv'
<1>1. stream \in Seq(SUBSET (Used \cup BatchEntries)) /\ freedEarly \in BOOLEAN
  BY DEF KernelInv, StreamTypes
<1>2. stream' \in Seq(SUBSET (Used \cup BatchEntries))
  BY <1>1
<1>3. Stream \notin orphans
  BY RunningFacts
<1>4. ASSUME ~freedEarly, NEW i \in DOMAIN stream' PROVE stream'[i] \subseteq held'
  <2>1. CASE i = Len(stream) + 1
    BY <1>1, <2>1
  <2>2. CASE i # Len(stream) + 1
    <3>1. i \in DOMAIN stream /\ stream'[i] = stream[i] /\ stream # <<>>
      BY <1>1, <2>2
    <3>2. Exposed = {}
      BY DEF Exposed, Running
    <3>3. stream[i] \ Exposed \subseteq held
      BY <1>4, <3>1 DEF KernelInv
    <3> QED  BY <3>1, <3>2, <3>3
  <2> QED  BY <2>1, <2>2
<1>5. ~freedEarly' => \A i \in DOMAIN stream' : stream'[i] \ Exposed' \subseteq held'
  BY <1>4
<1>6. Stream \in held' \ orphans' /\ job'.backend # "RA" /\ (job'.program = "torch" => launched')
  BY <1>3
<1>7. StreamTypes'
  BY <1>1, <1>2 DEF StreamTypes
<1> QED  BY <1>5, <1>6, <1>7 DEF KernelInv

\* LaunchSync preserves the invariant of the stream: the new kernel finds what it uses.
LEMMA LaunchSyncKernels ==
  ASSUME HostInv, KernelInv, LaunchSync
  PROVE  KernelInv'
<1> DEFINE A == Arguments(Current.res[2])
           D == Descriptors(Current.res[2])
           K == A \cup D
<1>0. /\ Running /\ Current.do \in {"call", "wait"} /\ job.backend # "RA" /\ held' = held \cup A
      /\ stream' = Append(stream, K) /\ launched' = TRUE
      /\ UNCHANGED <<job, pc, orphans, freedEarly>> /\ pc <= Len(Program(job))
  BY DEF LaunchSync, Running
<1>1. job \in Jobs /\ Here /\ Standing(job, pc) \subseteq held
  BY <1>0, RunningFacts DEF Settled
<1>2. {Stream} \cup D \subseteq Standing(job, pc)
  BY <1>0, <1>1, HereFacts DEF LaunchGood
<1>3. D \subseteq Used
  BY DescriptorsUsed
<1>4. A \subseteq Used
  <2>1. A \subseteq Requests \cup Lent
    BY DEF Arguments, Lent
  <2> QED  BY <2>1, LentStands
<1> HIDE DEF A, D
<1>5. K \subseteq Used \cup BatchEntries /\ K \subseteq held' /\ Stream \in held' /\ held \subseteq held'
  BY <1>0, <1>1, <1>2, <1>3, <1>4
<1> HIDE DEF K
<1>6. pc' <= Len(Program(job)) /\ orphans' = orphans /\ freedEarly' = freedEarly /\ job' = job
  BY <1>0
<1> QED  BY <1>0, <1>5, <1>6, KernelLaunch

\* SubmitAsync preserves it, with the entries of a batch.
LEMMA SubmitAsyncKernels ==
  ASSUME HostInv, KernelInv, SubmitAsync
  PROVE  KernelInv'
<1> DEFINE c == Current.res[3]
           A == AsyncArguments(c)
           E == EntriesRead(c)
           D == Descriptors(Current.res[2])
           K == (A \cup E) \cup D
<1>0. /\ Running /\ Current.do = "submit" /\ job.backend # "RA" /\ held' = held \cup A
      /\ stream' = Append(stream, K) /\ UNCHANGED <<job, freedEarly>> /\ pc' = pc + 1 /\ orphans' = orphans
  BY DEF SubmitAsync, Continue
<1>1. job \in Jobs /\ Here /\ Standing(job, pc) \subseteq held
  BY <1>0, RunningFacts DEF Settled
<1>2. /\ {Stream} \cup D \subseteq Standing(job, pc) /\ job.program # "torch" /\ c \in 1 .. CommandCount
      /\ job.batch => Buffer("entries", c) \in Standing(job, pc)
  BY <1>0, <1>1, HereFacts DEF LaunchGood
<1>3. D \subseteq Used
  BY DescriptorsUsed
<1>4. A \subseteq Used
  <2>1. A \subseteq Requests
    BY <1>2 DEF AsyncArguments, Requests
  <2> QED  BY <2>1, LentStands
<1>5. E \subseteq Standing(job, pc) /\ E \subseteq BatchEntries
  BY <1>2 DEF EntriesRead, BatchEntries
<1>6. pc' <= Len(Program(job))
  <2>1. pc + 1 \in 1 .. Len(Program(job)) /\ Len(Program(job)) \in Nat
    BY <1>0, <1>1, HereFacts, ProgramEnd
  <2> QED  BY <1>0, <2>1
<1> HIDE DEF A, D, E
<1>7. K \subseteq Used \cup BatchEntries /\ K \subseteq held' /\ Stream \in held' /\ held \subseteq held'
  BY <1>0, <1>1, <1>2, <1>3, <1>4, <1>5
<1> HIDE DEF K
<1>8. freedEarly' = freedEarly /\ job' = job /\ (job.program = "torch" => launched')
  BY <1>0, <1>2
<1> QED  BY <1>0, <1>6, <1>7, <1>8, KernelLaunch

\* While the stream is alive nothing its kernels use is reset: all of it is under the
\* stream.
LEMMA ReleaseKernels ==
  ASSUME HostInv, KernelInv, Release
  PROVE  KernelInv'
<1> DEFINE r == Head(todo)
<1>0. /\ UNCHANGED <<job, pc, orphans, launched, freedEarly>>
      /\ stream' = IF r = Stream /\ Stream \in held \ orphans THEN <<>> ELSE stream
  BY DEF Release
<1>1. /\ todo \in Seq(Resources) /\ todo # <<>> /\ ~launched
      /\ held' \ orphans = (held \ orphans) \ {r} /\ held' \subseteq held
      /\ \A x \in held \ held' : x = r /\ x \notin orphans
  BY ReleaseFacts
<1>2. stream \in Seq(SUBSET (Used \cup BatchEntries)) /\ freedEarly \in BOOLEAN
  BY DEF KernelInv, StreamTypes
<1>3. StreamTypes'
  <2>1. stream' = <<>> \/ stream' = stream
    BY <1>0
  <2>2. <<>> \in Seq(SUBSET (Used \cup BatchEntries))
    OBVIOUS
  <2> QED  BY <1>0, <1>2, <2>1, <2>2 DEF StreamTypes
<1>4. CASE freedEarly \/ stream' = <<>>
  BY <1>0, <1>3, <1>4, KernelQuiet
<1>5. CASE ~freedEarly /\ stream' # <<>>
  <2>1. stream' = stream /\ stream # <<>> /\ ~(r = Stream /\ Stream \in held \ orphans)
    BY <1>0, <1>5
  <2>2. /\ Stream \in held \ orphans /\ job.backend # "RA" /\ (job.program = "torch" => launched)
        /\ \A i \in DOMAIN stream : stream[i] \ Exposed \subseteq held
    BY <1>5, <2>1 DEF KernelInv
  <2>3. r # Stream /\ job.program # "torch"
    BY <1>1, <2>1, <2>2
  <2>4. ~(pc <= Len(Program(job)))
    BY <1>1, <2>3 DEF HostInv
  <2>5. Exposed = BatchEntries /\ Exposed' = BatchEntries
    BY <1>0, <2>4 DEF Exposed
  <2>6. r \notin Used
    <3>1. \A x \in held \ orphans : r \notin Under(x, job.backend)
      BY <1>1, CoversTail DEF HostInv
    <3>2. Used \subseteq Under(Stream, job.backend)
      BY DEF Under
    <3> QED  BY <2>2, <3>1, <3>2
  <2> HIDE DEF r
  <2>7. Stream \in held' \ orphans'
    BY <1>0, <1>1, <2>2, <2>3
  <2>8. ASSUME NEW i \in DOMAIN stream PROVE stream[i] \ BatchEntries \subseteq held'
    <3>1. stream[i] \subseteq Used \cup BatchEntries
      BY <1>2
    <3>2. stream[i] \ BatchEntries \subseteq held
      BY <2>2, <2>5
    <3> QED  BY <1>1, <2>6, <3>1, <3>2
  <2>9. \A i \in DOMAIN stream' : stream'[i] \ Exposed' \subseteq held'
    BY <2>1, <2>5, <2>8
  <2>10. job'.backend # "RA" /\ job'.program # "torch"
    BY <1>0, <2>2, <2>3
  <2> QED  BY <1>3, <2>7, <2>9, <2>10 DEF KernelInv
<1> QED  BY <1>4, <1>5

\* A kernel that finishes preserves it.
LEMMA RunKernelKernels ==
  ASSUME KernelInv, RunKernel
  PROVE  KernelInv'
<1>0. stream # <<>> /\ stream' = Tail(stream) /\ UNCHANGED <<job, pc, held, orphans, launched, freedEarly>>
  BY DEF RunKernel
<1>1. stream \in Seq(SUBSET (Used \cup BatchEntries)) /\ freedEarly \in BOOLEAN
  BY DEF KernelInv, StreamTypes
<1>2. StreamTypes'
  BY <1>0, <1>1 DEF StreamTypes
<1>3. \A i \in DOMAIN stream' : i + 1 \in DOMAIN stream /\ stream'[i] = stream[i + 1]
  BY <1>0, <1>1
<1>4. Exposed' = Exposed
  BY <1>0 DEF Exposed
<1>5. ~freedEarly => \A i \in DOMAIN stream' : stream'[i] \ Exposed' \subseteq held'
  BY <1>0, <1>3, <1>4 DEF KernelInv
<1>6. ~freedEarly => Stream \in held' \ orphans' /\ job'.backend # "RA" /\ (job'.program = "torch" => launched')
  BY <1>0 DEF KernelInv
<1> QED  BY <1>0, <1>2, <1>5, <1>6 DEF KernelInv

\* Every step preserves the invariant of the stream.
LEMMA KernelNext == HostInv /\ KernelInv /\ [Next]_vars => KernelInv'
<1> SUFFICES ASSUME HostInv, KernelInv, [Next]_vars PROVE KernelInv'
  OBVIOUS
<1>1. CASE Acquire \/ Pass \/ ReceiveRecord \/ StepFails \/ ZeroKey \/ LeaveCall \/ LeaveMain
  BY <1>1, PlainKernels
<1>2. CASE CallLibrary \/ LaunchSync \/ LaunchFails \/ SubmitAsync
  BY <1>2, CallLibraryKernels, LaunchSyncKernels, LaunchFailsKernels, SubmitAsyncKernels
<1>3. CASE SyncDone \/ SyncTimesOut
  BY <1>3, SyncKernels
<1>4. CASE Release \/ RunKernel
  BY <1>4, ReleaseKernels, RunKernelKernels
<1>5. CASE UNCHANGED vars
  BY <1>5 DEF vars, KernelInv, StreamTypes, Exposed
<1> QED  BY <1>1, <1>2, <1>3, <1>4, <1>5 DEF Next, Host

-----------------------------------------------------------------------------
(* The theorems. *)

Inv == HostInv /\ KernelInv

\* The two invariants together are inductive.
THEOREM Invariance == Spec => []Inv
<1>1. Init => Inv
  <2> SUFFICES ASSUME Init PROVE KernelInv
    BY HostInit DEF Inv
  <2>1. stream = <<>> /\ freedEarly = FALSE
    BY DEF Init
  <2>2. stream \in Seq(SUBSET (Used \cup BatchEntries))
    BY <2>1
  <2> QED  BY <2>1, <2>2 DEF KernelInv, StreamTypes
<1>2. Inv /\ [Next]_vars => Inv'
  BY HostNext, KernelNext DEF Inv
<1> QED  BY <1>1, <1>2, PTL DEF Spec

\* The resources are known ones, the program stands at one of its steps, and a wait
\* never makes more probes than its deadline allows, for every program, backend, number
\* of queue pairs and of commands.
THEOREM TypeCorrect == Spec => []TypeOK
<1>1. Inv => TypeOK
  <2> SUFFICES ASSUME Inv PROVE TypeOK
    OBVIOUS
  <2>1. HostTypes /\ orphans \subseteq held /\ held \subseteq Resources /\ LaunchInv /\ freedEarly \in BOOLEAN
    BY DEF Inv, HostInv, Settled, KernelInv, StreamTypes
  <2>2. ToSet(todo) \subseteq Resources
    BY <2>1 DEF HostTypes, ToSet
  <2>3. ASSUME NEW r \in Resources
        PROVE  \/ r \in {Acl, NetService, Ra, Rdev, Binary, Stream} \cup {Qp(q) : q \in 1 .. QpCount}
               \/ r[1] \in {"buffer", "region"} /\ r[2] \in Names
    BY BufferKind, RegionKind DEF Resources
  <2>4. \A r \in held \cup ToSet(todo) :
          \/ r \in {Acl, NetService, Ra, Rdev, Binary, Stream} \cup {Qp(q) : q \in 1 .. QpCount}
          \/ r[1] \in {"buffer", "region"} /\ r[2] \in Names
    BY <2>1, <2>2, <2>3
  <2>5. job \in Jobs /\ pc \in 1 .. Len(Program(job)) + 1 /\ probes \in 0 .. MaxProbes - 1 /\ launched \in BOOLEAN
    BY <2>1 DEF HostTypes
  <2>6. launched => todo = <<>>
    BY <2>1 DEF LaunchInv
  <2> QED  BY <2>1, <2>4, <2>5, <2>6 DEF TypeOK
<1> QED  BY <1>1, Invariance, PTL

\* No resource is given back while one that stands on it is alive, whatever step of
\* whatever open fails and whatever scope unwinds (Runtime, Endpoint, QueuePair,
\* Transport, StorageClient, the launchers, the examples' run() and Session).
THEOREM TeardownOrder == Spec => []Supported
<1>1. Inv => Supported
  BY DEF Inv, HostInv, Settled, Supported, Stands
<1> QED  BY <1>1, Invariance, PTL

\* At the end of the program nothing is held but the orphaned stream or regions and the
\* context a Session was lent: every open that fails half way and every destructor
\* together give back all the program took.
THEOREM AllGivenBack == Spec => []NothingLeft
<1>1. Inv => NothingLeft
  <2> SUFFICES ASSUME Inv, Ended PROVE held \ orphans = Base(job)
    BY DEF NothingLeft, Base
  <2>1. todo = <<>> /\ job \in Jobs /\ Len(Program(job)) \in Nat /\ pc > Len(Program(job)) /\ pc \in Nat
    BY ProgramEnd DEF Inv, HostInv, HostTypes, Ended
  <2>2. Standing(job, pc) = Base(job)
    BY <2>1 DEF Standing
  <2>3. ~launched
    BY <2>1 DEF Inv, HostInv, LaunchInv
  <2>4. ToSet(todo) \cup Lending = {}
    BY <2>1, <2>3 DEF ToSet, Lending
  <2>5. Base(job) = {} \/ Base(job) = {Acl}
    BY DEF Base
  <2>6. Kept(Base(job)) = {}
    BY <2>5, SingleKinds DEF Kept
  <2>7. Settled(job.backend, Base(job), held, orphans, {})
    BY <2>2, <2>4 DEF Inv, HostInv
  <2>8. Acl \notin orphans
    BY SingleKinds DEF Inv, HostInv, OrphanInv
  <2> QED  BY <2>5, <2>6, <2>7, <2>8 DEF Settled
<1> QED  BY <1>1, Invariance, PTL

\* Every kernel on the stream finds the memory, queue pairs and code it was launched
\* with, as long as no call freed its memory unsynchronized and up to the entries of a
\* batch once the storage example has left run().
THEOREM KernelMemory == Spec => []KernelsSafe
<1>1. Inv => KernelsSafe
  <2> SUFFICES ASSUME Inv, ~freedEarly, NEW i \in DOMAIN stream
               PROVE  stream[i] \ (IF Running THEN {} ELSE BatchEntries) \subseteq held
    BY DEF KernelsSafe, BatchEntries
  <2>1. stream # <<>>
    OBVIOUS
  <2>2. stream[i] \ Exposed \subseteq held
    BY <2>1 DEF Inv, KernelInv
  <2>3. Exposed \subseteq (IF Running THEN {} ELSE BatchEntries)
    BY DEF Exposed, Running
  <2> QED  BY <2>2, <2>3
<1> QED  BY <1>1, Invariance, PTL

=============================================================================
