---------------------------- MODULE DataTheorems ----------------------------
(***************************************************************************)
(* Facts about numbers and sequences that the library lacks: least         *)
(* numbers, induction and recursion up to a number (over the set of the    *)
(* numbers that have a property, and with the steps of a recursion given   *)
(* as a function), remainders, and FlattenSeq.                             *)
(***************************************************************************)
EXTENDS Integers, SequencesExt, FiniteSetTheorems, FunctionTheorems, SequenceTheorems,
        WellFoundedInduction, TLAPS

-----------------------------------------------------------------------------
(* Least numbers, induction, recursion *)

\* A set of numbers that is not empty has a least element, which Min picks.
LEMMA LeastOfNaturals ==
  ASSUME NEW I \in SUBSET Nat, I # {}
  PROVE  Min(I) \in I /\ \A j \in I : Min(I) <= j
<1> DEFINE R == OpToRel(<, Nat)
<1>1. \A x, y \in Nat : y < x => <<y, x>> \in R
  BY Zenon DEF OpToRel
<1>2. IsWellFoundedOn(R, Nat)
  BY NatLessThanWellFounded
<1> HIDE DEF R
<1>3. PICK x \in I : \A y \in I : ~(<<y, x>> \in R)
  BY <1>2, WFMin
<1>4. x \in Nat
  OBVIOUS
<1>5. ASSUME NEW y \in I PROVE x <= y
  <2>1. y \in Nat
    OBVIOUS
  <2>2. ~(<<y, x>> \in R)
    BY <1>3
  <2>3. ~(y < x)
    BY <1>1, <1>4, <2>1, <2>2, Zenon
  <2> QED BY <1>4, <2>1, <2>3
<1> QED BY <1>5 DEF Min

\* Induction up to n, over the set of the numbers that have a property
LEMMA InductionTo ==
  ASSUME NEW n \in Nat, NEW S, 0 \in S, \A k \in 1 .. n : k - 1 \in S => k \in S
  PROVE  \A k \in 0 .. n : k \in S
<1> DEFINE I == {k \in 0 .. n : k \notin S}
<1> SUFFICES ASSUME I # {} PROVE FALSE
  OBVIOUS
<1>1. I \in SUBSET Nat
  OBVIOUS
<1> DEFINE m == Min(I)
<1>2. m \in I /\ \A j \in I : m <= j
  BY <1>1, LeastOfNaturals
<1> HIDE DEF m
<1>3. m \in 1 .. n
  BY <1>2
<1>4. m - 1 \notin I
  BY <1>2, <1>3
<1> QED BY <1>2, <1>3, <1>4

\* A function on 0 .. n may be defined by recursion, its steps given as a function G.
IsRecursive(f, n, a, G) == f = [k \in 0 .. n |-> IF k = 0 THEN a ELSE G[<<k, f[k - 1]>>]]

LEMMA RecursionTo ==
  ASSUME NEW n \in Nat, NEW a, NEW G
  PROVE  \E f : IsRecursive(f, n, a, G)
<1> DEFINE Is(f, m) == f = [k \in 0 .. m |-> IF k = 0 THEN a ELSE G[<<k, f[k - 1]>>]]
           S == {m \in 0 .. n : \E f : Is(f, m)}
<1>1. 0 \in S
  <2> DEFINE g == [k \in 0 .. 0 |-> a]
  <2>1. [k \in 0 .. 0 |-> IF k = 0 THEN a ELSE G[<<k, g[k - 1]>>]] = g
    OBVIOUS
  <2> HIDE DEF g
  <2>2. Is(g, 0)
    BY <2>1
  <2> QED BY <2>2
<1>2. ASSUME NEW m \in 1 .. n, m - 1 \in S PROVE m \in S
  <2>1. PICK f : Is(f, m - 1)
    BY <1>2
  <2> DEFINE g == [k \in 0 .. m |-> IF k = m THEN G[<<m, f[m - 1]>>] ELSE f[k]]
  <2>2. ASSUME NEW k \in 0 .. m PROVE g[k] = IF k = 0 THEN a ELSE G[<<k, g[k - 1]>>]
    <3>1. CASE k = m
      BY <3>1
    <3>2. CASE k # m
      <4>1. k \in 0 .. m - 1 /\ g[k] = f[k]
        BY <3>2
      <4>2. f[k] = IF k = 0 THEN a ELSE G[<<k, f[k - 1]>>]
        BY <2>1, <4>1
      <4>3. k # 0 => g[k - 1] = f[k - 1]
        BY <4>1
      <4> QED BY <4>1, <4>2, <4>3
    <3> QED BY <3>1, <3>2
  <2>3. Is(g, m)
    <3>1. g = [k \in 0 .. m |-> g[k]]
      OBVIOUS
    <3> HIDE DEF g
    <3> QED BY <2>2, <3>1
  <2> HIDE DEF g
  <2>4. m \in 0 .. n
    OBVIOUS
  <2> QED BY <2>3, <2>4
<1>3. n \in S
  <2> HIDE DEF S
  <2> QED BY <1>1, <1>2, InductionTo
<1> QED BY <1>3 DEF IsRecursive

\* If the steps do not leave a set, neither does the function.
StaysIn(S, n, G) == \A k \in 1 .. n : \A s \in S : G[<<k, s>>] \in S

LEMMA RecursionIn ==
  ASSUME NEW n \in Nat, NEW S, NEW a, a \in S, NEW G, StaysIn(S, n, G)
  PROVE  \E f : f \in [0 .. n -> S] /\ IsRecursive(f, n, a, G)
<1>1. PICK f : IsRecursive(f, n, a, G)
  BY RecursionTo
<1>2. f = [k \in 0 .. n |-> IF k = 0 THEN a ELSE G[<<k, f[k - 1]>>]]
  BY <1>1 DEF IsRecursive
<1>3. DOMAIN f = 0 .. n /\ f[0] = a /\ f = [k \in 0 .. n |-> f[k]]
  BY <1>2
<1>4. \A k \in 1 .. n : f[k] = G[<<k, f[k - 1]>>]
  BY <1>2
<1> DEFINE I == {k \in 0 .. n : f[k] \in S}
<1>5. 0 \in I
  BY <1>3
<1>6. ASSUME NEW k \in 1 .. n, k - 1 \in I PROVE k \in I
  <2>1. f[k - 1] \in S /\ k \in 0 .. n
    BY <1>6
  <2> QED BY <1>4, <2>1 DEF StaysIn
<1>7. \A k \in 0 .. n : k \in I
  <2> HIDE DEF I
  <2> QED BY <1>5, <1>6, InductionTo
<1>8. f \in [0 .. n -> S]
  BY <1>3, <1>7
<1> QED BY <1>1, <1>8

\* The least number from "from" on that is not in a finite set is found among the first
\* Cardinality + 1 of them.
LEMMA LeastGap ==
  ASSUME NEW D, IsFiniteSet(D), NEW from \in Nat, NEW gap,
         gap = Min((from .. from + Cardinality(D)) \ D)
  PROVE  /\ gap \in Nat /\ gap >= from /\ gap \notin D
         /\ \A n \in from .. gap - 1 : n \in D
<1> DEFINE c == Cardinality(D)  I == (from .. from + c) \ D
<1>1. c \in Nat
  BY FS_CardinalityType
<1>2. I # {}
  <2> SUFFICES ASSUME I = {} PROVE FALSE
    OBVIOUS
  <2>1. from .. from + c \subseteq D
    BY Zenon
  <2>2. Cardinality(from .. from + c) <= c
    BY <2>1, FS_Subset
  <2>3. Cardinality(from .. from + c) = c + 1
    <3> HIDE DEF c
    <3> DEFINE last == from + c
    <3>1. from \in Int /\ last \in Int
      BY <1>1
    <3> HIDE DEF last
    <3>2. Cardinality(from .. last) = IF from > last THEN 0 ELSE last - from + 1
      BY <3>1, FS_Interval
    <3> QED BY <1>1, <3>2 DEF last
  <2> HIDE DEF c
  <2> QED BY <1>1, <2>2, <2>3
<1>3. I \in SUBSET Nat
  OBVIOUS
<1>4. Min(I) \in I /\ \A j \in I : Min(I) <= j
  BY <1>2, <1>3, LeastOfNaturals
<1>5. gap = Min(I)
  OBVIOUS
<1> DEFINE m == Min(I)
<1> HIDE DEF m
<1>6. m \in Nat /\ m >= from /\ m <= from + c /\ m \notin D
  BY <1>1, <1>4 DEF m
<1>7. ASSUME NEW n \in from .. m - 1 PROVE n \in D
  <2>1. n \in from .. from + c /\ n < m
    BY <1>1, <1>6
  <2>2. ~(m <= n)
    BY <1>6, <2>1
  <2> QED BY <1>4, <2>1, <2>2 DEF m
<1> QED BY <1>5, <1>6, <1>7 DEF m

\* Moving all its members by k leaves the size of a set of numbers alone.
LEMMA SizeOfMoved ==
  ASSUME NEW D, NEW E, IsFiniteSet(D), D \subseteq Int, NEW k \in Int,
         E = {i + k : i \in D}
  PROVE  IsFiniteSet(E) /\ Cardinality(E) = Cardinality(D)
<1> DEFINE f == [i \in D |-> i + k]
<1>1. f \in [D -> E]
  OBVIOUS
<1>2. \A i, j \in D : f[i] = f[j] => i = j
  OBVIOUS
<1>3. \A e \in E : \E i \in D : f[i] = e
  OBVIOUS
<1> HIDE DEF f
<1>4. f \in Bijection(D, E)
  BY <1>1, <1>2, <1>3, Fun_IsBij
<1> QED BY <1>4, FS_Bijection DEF ExistsBijection

-----------------------------------------------------------------------------
(* Remainders *)

LEMMA Remainder ==
  ASSUME NEW x \in Nat, NEW m \in Nat \ {0}
  PROVE  x % m \in 0 .. m - 1 /\ \E q \in Nat : x = m * q + (x % m)
<1>1. x % m \in 0 .. m - 1 /\ x \div m \in Nat /\ x = m * (x \div m) + (x % m)
  OBVIOUS
<1> QED BY <1>1

LEMMA RemainderIs ==
  ASSUME NEW m \in Nat \ {0}, NEW q \in Nat, NEW r \in 0 .. m - 1
  PROVE  (m * q + r) % m = r
<1> DEFINE x == m * q + r
<1>1. m * q \in Nat /\ x \in Nat
  OBVIOUS
<1>2. PICK p \in Nat : x = m * p + (x % m)
  BY <1>1, Remainder
<1>3. x % m \in 0 .. m - 1
  BY <1>1, Remainder
<1> DEFINE s == x % m
<1>4. s \in 0 .. m - 1 /\ m * q + r = m * p + s
  BY <1>2, <1>3
<1> HIDE DEF s
<1>5. CASE p = q
  <2>1. m * p \in Nat /\ m * p = m * q
    BY <1>5
  <2> DEFINE y == m * p
  <2>2. y + r = y + s
    BY <1>4, <2>1
  <2> HIDE DEF y
  <2>3. y \in Nat
    BY <2>1 DEF y
  <2> QED BY <1>4, <2>2, <2>3 DEF s
<1>6. ASSUME NEW a \in Nat, NEW b \in Nat, NEW c \in 0 .. m - 1, NEW d \in 0 .. m - 1,
             m * a + c = m * b + d, a < b
      PROVE  FALSE
  <2>1. PICK k \in Nat : b = a + 1 + k
    <3>1. b - a - 1 \in Nat /\ b = a + 1 + (b - a - 1)
      BY <1>6
    <3> QED BY <3>1
  <2>2. m * b = m * a + m + m * k
    BY <2>1
  <2>3. m * a \in Nat /\ m * k \in Nat
    OBVIOUS
  <2> DEFINE u == m * a  w == m * k
  <2>4. u + c = u + m + w + d /\ u \in Nat /\ w \in Nat
    BY <1>6, <2>2, <2>3
  <2> HIDE DEF u, w
  <2> QED BY <2>4
<1>7. p < q \/ q < p \/ p = q
  OBVIOUS
<1> QED BY <1>4, <1>5, <1>6, <1>7

LEMMA RemainderOfSmall ==
  ASSUME NEW m \in Nat \ {0}, NEW x \in 0 .. m - 1
  PROVE  x % m = x
<1>1. (m * 0 + x) % m = x
  BY RemainderIs
<1>2. m * 0 + x = x
  OBVIOUS
<1> QED BY <1>1, <1>2

\* A factor may be replaced by its remainder.
LEMMA RemainderOfProduct ==
  ASSUME NEW a \in Nat, NEW b \in Nat, NEW m \in Nat \ {0}
  PROVE  ((a % m) * b) % m = (a * b) % m
<1>1. PICK q \in Nat : a = m * q + (a % m)
  BY Remainder
<1> DEFINE r == a % m
<1>2. r \in 0 .. m - 1 /\ a = m * q + r
  BY <1>1, Remainder
<1> HIDE DEF r
<1>3. r * b \in Nat
  BY <1>2
<1>4. PICK p \in Nat : r * b = m * p + ((r * b) % m)
  BY <1>3, Remainder
<1> DEFINE s == (r * b) % m
<1>5. s \in 0 .. m - 1 /\ r * b = m * p + s
  BY <1>3, <1>4, Remainder
<1> HIDE DEF s
<1>6. a * b = m * (q * b + p) + s /\ q * b + p \in Nat
  BY <1>2, <1>5
<1>7. (a * b) % m = s
  BY <1>5, <1>6, RemainderIs
<1> QED BY <1>7 DEF r, s

-----------------------------------------------------------------------------
(* Sequences of sequences, one after the other *)

\* f[i] is what the first i of the sequences make.
IsFlattening(f, seqs) == f[0] = <<>> /\ \A i \in 1 .. Len(seqs) : f[i] = f[i - 1] \o seqs[i]

LEMMA FlatteningIn ==
  ASSUME NEW S, NEW seqs \in Seq(Seq(S)), NEW f, IsFlattening(f, seqs)
  PROVE  \A i \in 0 .. Len(seqs) : f[i] \in Seq(S)
<1> DEFINE I == {i \in 0 .. Len(seqs) : f[i] \in Seq(S)}
<1>1. 0 \in I
  <2>1. <<>> \in Seq(S)
    BY EmptySeq, Zenon
  <2>2. f[0] = <<>> /\ 0 \in 0 .. Len(seqs)
    BY DEF IsFlattening
  <2>3. f[0] \in Seq(S)
    BY <2>1, <2>2
  <2> QED BY <2>2, <2>3, Zenon
<1>2. ASSUME NEW i \in 1 .. Len(seqs), i - 1 \in I PROVE i \in I
  <2>1. seqs[i] \in Seq(S)
    BY ElementOfSeq
  <2>2. f[i] = f[i - 1] \o seqs[i] /\ f[i - 1] \in Seq(S)
    BY <1>2 DEF IsFlattening
  <2> HIDE DEF I
  <2>3. f[i] \in Seq(S)
    BY <2>1, <2>2, ConcatProperties
  <2> QED BY <2>3 DEF I
<1>3. Len(seqs) \in Nat
  OBVIOUS
<1>4. \A i \in 0 .. Len(seqs) : i \in I
  <2> HIDE DEF I
  <2> QED BY <1>1, <1>2, <1>3, InductionTo
<1> QED BY <1>4

LEMMA FlatteningExists ==
  ASSUME NEW S, NEW seqs \in Seq(Seq(S))
  PROVE  \E f : IsFlattening(f, seqs) /\ FlattenSeq(seqs) = f[Len(seqs)]
<1> DEFINE n == Len(seqs)
           G == [p \in (1 .. n) \X Seq(S) |-> p[2] \o seqs[p[1]]]
<1>1. n \in Nat
  OBVIOUS
<1>2. PICK g : g = [i \in 0 .. n |-> IF i = 0 THEN <<>> ELSE G[<<i, g[i - 1]>>]]
  <2> HIDE DEF G, n
  <2>1. PICK g : IsRecursive(g, n, <<>>, G)
    BY <1>1, RecursionTo
  <2> QED BY <2>1 DEF IsRecursive
<1> DEFINE I == {i \in 0 .. n : g[i] \in Seq(S)}
<1>3. g[0] = <<>>
  <2> HIDE DEF G, n
  <2>1. 0 \in 0 .. n
    BY <1>1
  <2> QED BY <1>2, <2>1
<1>4. 0 \in I
  <2>1. <<>> \in Seq(S)
    BY EmptySeq, Zenon
  <2>2. 0 \in 0 .. n
    BY <1>1
  <2> HIDE DEF n, G
  <2> QED BY <1>3, <2>1, <2>2, Zenon
<1>a. \A i \in 1 .. n : seqs[i] \in Seq(S)
  BY ElementOfSeq
<1>5. ASSUME NEW i \in 1 .. n, i - 1 \in I PROVE i \in I /\ g[i] = g[i - 1] \o seqs[i]
  <2>1. G[<<i, g[i - 1]>>] = g[i - 1] \o seqs[i]
    BY <1>5
  <2>2. g[i] = G[<<i, g[i - 1]>>]
    <3> HIDE DEF G, n
    <3> QED BY <1>1, <1>2
  <2>3. g[i - 1] \in Seq(S) /\ seqs[i] \in Seq(S)
    BY <1>5, <1>a
  <2>4. g[i - 1] \o seqs[i] \in Seq(S)
    BY <2>3, ConcatProperties
  <2>5. g[i] \in Seq(S)
    BY <2>1, <2>2, <2>4, Zenon
  <2>6. i \in I
    BY <1>1, <2>5
  <2> HIDE DEF I, G, n
  <2> QED BY <2>1, <2>2, <2>6
<1>6. \A i \in 0 .. n : i \in I
  <2> HIDE DEF I, n, G
  <2> QED BY <1>1, <1>4, <1>5, InductionTo
<1>7. \A i \in 1 .. n : i - 1 \in I
  <2> HIDE DEF I, G
  <2> QED BY <1>1, <1>6
<1>8. IsFlattening(g, seqs)
  <2> HIDE DEF I, G
  <2> QED BY <1>3, <1>5, <1>7 DEF IsFlattening
<1>9. CASE n = 0
  <2>1. seqs = <<>>
    BY <1>9
  <2>2. FlattenSeq(seqs) = g[n]
    BY <1>3, <1>9, <2>1 DEF FlattenSeq
  <2> QED BY <1>8, <2>2
<1>10. CASE n # 0
  <2> DEFINE f == CHOOSE f : f = [i \in 1 .. n |-> IF i = 1 THEN seqs[i] ELSE f[i - 1] \o seqs[i]]
             h == [i \in 1 .. n |-> g[i]]
  <2>1. \A i \in 1 .. n : h[i] = IF i = 1 THEN seqs[i] ELSE h[i - 1] \o seqs[i]
    <3>1. g[1] = seqs[1]
      <4>1. 1 \in 1 .. n
        BY <1>1, <1>10
      <4>a. seqs[1] \in Seq(S)
        BY <1>a, <4>1, Zenon
      <4>2. g[1] = g[1 - 1] \o seqs[1] /\ 1 - 1 = 0
        <5> HIDE DEF f, h, I, G
        <5>1. \A i \in 1 .. n : g[i] = g[i - 1] \o seqs[i]
          BY <1>8 DEF IsFlattening
        <5>2. 1 - 1 = 0
          OBVIOUS
        <5> QED BY <4>1, <5>1, <5>2, Zenon
      <4>3. g[1] = <<>> \o seqs[1]
        BY <1>3, <4>2, Zenon
      <4> QED BY <4>a, <4>3, ConcatEmptySeq, Zenon
    <3>2. ASSUME NEW i \in 1 .. n, i # 1 PROVE h[i] = h[i - 1] \o seqs[i]
      <4>1. i - 1 \in 1 .. n
        BY <3>2
      <4> QED BY <1>8, <4>1 DEF IsFlattening
    <3> QED BY <3>1, <3>2
  <2>2. h = [i \in 1 .. n |-> IF i = 1 THEN seqs[i] ELSE h[i - 1] \o seqs[i]]
    <3>1. h = [i \in 1 .. n |-> h[i]]
      OBVIOUS
    <3> HIDE DEF h, G, I, n
    <3> QED BY <2>1, <3>1
  <2>3. f = [i \in 1 .. n |-> IF i = 1 THEN seqs[i] ELSE f[i - 1] \o seqs[i]]
    <3> HIDE DEF h, G, I, n
    <3> QED BY <2>2
  <2>4. FlattenSeq(seqs) = f[n]
    BY <1>1, <1>10 DEF FlattenSeq
  <2> HIDE DEF f, G, I
  <2> DEFINE e == [i \in 0 .. n |-> IF i = 0 THEN <<>> ELSE f[i]]
  <2>5. IsFlattening(e, seqs)
    <3>1. e[0] = <<>> /\ \A i \in 1 .. n : e[i] = f[i]
      BY <1>1
    <3>2. ASSUME NEW i \in 1 .. n PROVE e[i] = e[i - 1] \o seqs[i]
      <4>1. CASE i = 1
        <5>1. seqs[1] \in Seq(S)
          BY <1>a, <4>1, Zenon
        <5>2. f[1] = seqs[1]
          BY <2>3, <4>1
        <5>3. <<>> \o seqs[1] = seqs[1]
          BY <5>1, ConcatEmptySeq, Zenon
        <5>4. i - 1 = 0 /\ e[i] = f[i] /\ e[0] = <<>>
          BY <3>1, <4>1
        <5> HIDE DEF e
        <5> QED BY <4>1, <5>2, <5>3, <5>4, Zenon
      <4>2. CASE i # 1
        <5>1. i - 1 \in 1 .. n
          BY <4>2
        <5>2. f[i] = f[i - 1] \o seqs[i]
          BY <2>3, <4>2
        <5> QED BY <3>1, <5>1, <5>2
      <4> QED BY <4>1, <4>2
    <3> QED BY <3>1, <3>2 DEF IsFlattening
  <2>6. FlattenSeq(seqs) = e[n]
    BY <1>1, <1>10, <2>4
  <2> HIDE DEF e
  <2> QED BY <2>5, <2>6
<1> QED BY <1>9, <1>10

\* What two sequences make when one follows the other
LEMMA FlattenConcat ==
  ASSUME NEW S, NEW a \in Seq(Seq(S)), NEW b \in Seq(Seq(S))
  PROVE  /\ FlattenSeq(a) \in Seq(S) /\ FlattenSeq(b) \in Seq(S)
         /\ FlattenSeq(a \o b) = FlattenSeq(a) \o FlattenSeq(b)
<1> DEFINE n == Len(a)  m == Len(b)  c == a \o b
<1>1. n \in Nat /\ m \in Nat
  BY LenProperties
<1>2. /\ c \in Seq(Seq(S)) /\ Len(c) = n + m
      /\ \A i \in 1 .. n + m : c[i] = IF i <= n THEN a[i] ELSE b[i - n]
  BY ConcatProperties
<1> HIDE DEF c
<1>3. PICK f : IsFlattening(f, c) /\ FlattenSeq(c) = f[n + m]
  BY <1>2, FlatteningExists
<1>4. PICK g : IsFlattening(g, a) /\ FlattenSeq(a) = g[n]
  BY FlatteningExists
<1>5. PICK h : IsFlattening(h, b) /\ FlattenSeq(b) = h[m]
  BY FlatteningExists
<1>6. (\A i \in 0 .. n : g[i] \in Seq(S)) /\ \A i \in 0 .. m : h[i] \in Seq(S)
  BY <1>4, <1>5, FlatteningIn
<1>7. /\ f[0] = <<>> /\ \A i \in 1 .. n + m : f[i] = f[i - 1] \o c[i]
      /\ g[0] = <<>> /\ \A i \in 1 .. n : g[i] = g[i - 1] \o a[i]
      /\ h[0] = <<>> /\ \A i \in 1 .. m : h[i] = h[i - 1] \o b[i]
  BY <1>2, <1>3, <1>4, <1>5 DEF IsFlattening
<1>9. \A i \in 1 .. m : b[i] \in Seq(S)
  BY ElementOfSeq
<1> HIDE DEF n, m
<1>8. /\ \A i \in 1 .. n : c[i] = a[i]
      /\ \A i \in n + 1 .. n + m : c[i] = b[i - n]
  BY <1>1, <1>2, SMTT(30)
<1>10. f[n] = g[n]
  <2> DEFINE I == {i \in 0 .. n : f[i] = g[i]}
  <2>1. 0 \in I
    BY <1>1, <1>7
  <2>2. ASSUME NEW i \in 1 .. n, i - 1 \in I PROVE i \in I
    <3>1. f[i - 1] = g[i - 1] /\ i \in 1 .. n + m /\ i \in 0 .. n
      BY <1>1, <2>2
    <3>2. f[i] = g[i]
      BY <1>7, <1>8, <3>1, Zenon
    <3> QED BY <3>1, <3>2
  <2>3. \A i \in 0 .. n : i \in I
    <3> HIDE DEF I
    <3> QED BY <1>1, <2>1, <2>2, InductionTo
  <2> QED BY <1>1, <2>3, SMTT(30)
<1>11. f[n + m] = g[n] \o h[m]
  <2> DEFINE I == {i \in 0 .. m : \A j \in n .. n + m : j - n = i => f[j] = g[n] \o h[i]}
  <2>1. g[n] \in Seq(S)
    BY <1>1, <1>6
  <2>2. 0 \in I
    <3>1. g[n] \o <<>> = g[n]
      BY <2>1, ConcatEmptySeq, Zenon
    <3>2. f[n] = g[n] \o h[0]
      BY <1>7, <1>10, <3>1, Zenon
    <3>3. \A j \in n .. n + m : j - n = 0 => j = n
      BY <1>1
    <3>4. 0 \in 0 .. m
      BY <1>1
    <3> QED BY <3>2, <3>3, <3>4, Zenon
  <2>3. ASSUME NEW i \in 1 .. m, i - 1 \in I PROVE i \in I
    <3>1. ASSUME NEW j \in n .. n + m, j - n = i PROVE f[j] = g[n] \o h[i]
      <4>1. j \in 1 .. n + m /\ j \in n + 1 .. n + m /\ i \in 0 .. m /\ i - 1 \in 0 .. m
            /\ j - 1 \in n .. n + m /\ (j - 1) - n = i - 1
        BY <1>1, <3>1
      <4>2. f[j - 1] = g[n] \o h[i - 1]
        BY <2>3, <4>1, Zenon
      <4>3. c[j] = b[i]
        BY <1>8, <3>1, <4>1, Zenon
      <4>4. f[j] = f[j - 1] \o c[j]
        BY <1>7, <4>1, Zenon
      <4>5. h[i] = h[i - 1] \o b[i]
        BY <1>7, Zenon
      <4>6. h[i - 1] \in Seq(S) /\ b[i] \in Seq(S)
        BY <1>6, <1>9, <4>1
      <4> DEFINE p == g[n]  q == h[i - 1]  r == b[i]
      <4>7. (p \o q) \o r = p \o (q \o r)
        <5>1. p \in Seq(S) /\ q \in Seq(S) /\ r \in Seq(S)
          BY <2>1, <4>6
        <5> HIDE DEF p, q, r, I
        <5> QED BY <5>1, ConcatAssociative, SMTT(30)
      <4> QED BY <4>2, <4>3, <4>4, <4>5, <4>7, Zenon
    <3>2. i \in 0 .. m
      OBVIOUS
    <3> QED BY <3>1, <3>2, Zenon
  <2>4. m \in I
    <3> HIDE DEF I
    <3>1. \A i \in 0 .. m : i \in I
      BY <1>1, <2>2, <2>3, InductionTo
    <3> QED BY <1>1, <3>1
  <2>5. n + m \in n .. n + m /\ (n + m) - n = m
    BY <1>1
  <2> QED BY <2>4, <2>5
<1>12. g[n] \in Seq(S) /\ h[m] \in Seq(S)
  BY <1>1, <1>6
<1> QED BY <1>3, <1>4, <1>5, <1>11, <1>12, Zenon DEF c
=============================================================================
