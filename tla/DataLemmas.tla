----------------------------- MODULE DataLemmas -----------------------------
(***************************************************************************)
(* Facts about numbers and texts that the proofs about several components  *)
(* rest on.  Induction is stated for sets: an inductive set of natural     *)
(* numbers has them all.                                                   *)
(***************************************************************************)
EXTENDS Integers, SequencesExt, SequenceTheorems, FiniteSetTheorems, TLAPS

\* A set of natural numbers that is not empty has a smallest one.
LEMMA Smallest ==
  ASSUME NEW T, T \subseteq Nat, T # {}
  PROVE  \E n \in T : \A m \in T : n <= m
<1> DEFINE R == {ss \in Nat \X Nat : ss[1] < ss[2]}
<1>1. IsWellFoundedOn(R, Nat)
  BY NatLessThanWellFounded DEF OpToRel
<1>2. PICK n \in T : \A m \in T : ~(<<m, n>> \in R)
  <2>. HIDE DEF R
  <2>. QED
    BY <1>1, WFMin
<1>3. \A m \in T : ~(m < n)
  BY <1>2
<1>. QED
  BY <1>3

\* Induction over the natural numbers.
LEMMA SetInduction ==
  ASSUME NEW S, 0 \in S, \A n \in Nat : n \in S => n + 1 \in S
  PROVE  Nat \subseteq S
<1> DEFINE T == Nat \ S
<1>. SUFFICES ASSUME T # {} PROVE FALSE
  OBVIOUS
<1>1. PICK n \in T : \A m \in T : n <= m
  <2>1. T \subseteq Nat /\ T # {}
    OBVIOUS
  <2>. HIDE DEF T
  <2>. QED
    BY <2>1, Smallest
<1>2. n - 1 \in Nat /\ n - 1 \in S
  BY <1>1
<1>3. (n - 1) + 1 \in S
  BY <1>2
<1>. QED
  BY <1>1, <1>3

----------------------------------------------------------------------------
(* Powers of two *)

\* They count the subsets of an interval.
LEMMA PowerCounts ==
  ASSUME NEW n \in Nat
  PROVE  IsFiniteSet(SUBSET (1..n)) /\ Cardinality(SUBSET (1..n)) = 2 ^ n
<1>1. IsFiniteSet(1..n) /\ Cardinality(1..n) = n
  BY FS_Interval
<1>. QED
  BY <1>1, FS_SUBSET

\* Each is twice the one before: a subset of 1..n+1 has its last number or not.
LEMMA PowerDoubles ==
  ASSUME NEW n \in Nat
  PROVE  2 ^ (n + 1) = 2 * 2 ^ n
<1> DEFINE A == SUBSET (1..n)
           With(X) == X \cup {n + 1}
           B == {With(X) : X \in A}
           f == [X \in A |-> With(X)]
<1>1. f \in Bijection(A, B)
  <2>1. f \in [A -> B] /\ \A Y \in B : \E X \in A : f[X] = Y
    OBVIOUS
  <2>2. ASSUME NEW X \in A, NEW Y \in A, f[X] = f[Y] PROVE X = Y
    <3>1. X = With(X) \ {n + 1} /\ Y = With(Y) \ {n + 1}
      OBVIOUS
    <3>. QED
      BY <2>2, <3>1
  <2>. HIDE DEF A, B, f
  <2>. QED
    BY <2>1, <2>2 DEF Bijection, Injection, Surjection, IsInjective
<1>2. SUBSET (1..(n + 1)) = A \cup B
  <2>0. \A Y : Y \in B <=> \E X \in A : Y = With(X)
    OBVIOUS
  <2>1. ASSUME NEW X \in SUBSET (1..(n + 1)) PROVE X \in A \cup B
    <3>1. CASE n + 1 \in X
      <4>1. X \ {n + 1} \in A /\ X = With(X \ {n + 1})
        BY <3>1
      <4>. QED
        BY <4>1
    <3>2. CASE n + 1 \notin X
      BY <3>2
    <3>. QED
      BY <3>1, <3>2
  <2>2. \A X \in A : X \in SUBSET (1..(n + 1)) /\ With(X) \in SUBSET (1..(n + 1))
    OBVIOUS
  <2>. HIDE DEF A, B
  <2>3. \A Y \in A \cup B : Y \in SUBSET (1..(n + 1))
    BY <2>0, <2>2
  <2>. QED
    BY <2>1, <2>3
<1>3. A \cap B = {}
  <2>1. \A Y \in B : n + 1 \in Y
    OBVIOUS
  <2>2. \A X \in A : n + 1 \notin X
    OBVIOUS
  <2>. QED
    BY <2>1, <2>2
<1>4. IsFiniteSet(A) /\ Cardinality(A) = 2 ^ n
  BY PowerCounts
<1>. HIDE DEF A, B, f
<1>5. Cardinality(A \cup B) = 2 ^ (n + 1)
  <2>1. n + 1 \in Nat
    OBVIOUS
  <2>2. Cardinality(SUBSET (1..(n + 1))) = 2 ^ (n + 1)
    BY <2>1, PowerCounts
  <2>. QED
    BY <1>2, <2>2
<1>6. IsFiniteSet(B) /\ Cardinality(B) = Cardinality(A)
  BY <1>1, <1>4, FS_Bijection DEF ExistsBijection
<1>7. Cardinality(A \cup B) = Cardinality(A) + Cardinality(B) - Cardinality(A \cap B)
  BY <1>4, <1>6, FS_Union
<1>8. Cardinality(A \cap B) = 0 /\ Cardinality(A) \in Nat
  BY <1>3, <1>4, FS_EmptySet, FS_CardinalityType
<1>. QED
  BY <1>4, <1>5, <1>6, <1>7, <1>8

\* They are numbers, the first is 1, and they grow.
LEMMA Powers ==
  /\ 2 ^ 0 = 1
  /\ \A n \in Nat : 2 ^ n \in Nat \ {0}
  /\ \A m, n \in Nat : m <= n => 2 ^ m <= 2 ^ n
<1>1. 2 ^ 0 = 1
  OBVIOUS
<1>2. ASSUME NEW n \in Nat PROVE 2 ^ n \in Nat \ {0}
  <2>1. Cardinality(SUBSET (1..n)) \in Nat /\ {} \in SUBSET (1..n)
    BY PowerCounts, FS_CardinalityType
  <2>. QED
    BY <2>1, PowerCounts, FS_EmptySet
<1>3. ASSUME NEW m \in Nat, NEW n \in Nat, m <= n PROVE 2 ^ m <= 2 ^ n
  <2>1. SUBSET (1..m) \in SUBSET (SUBSET (1..n))
    BY <1>3
  <2>2. Cardinality(SUBSET (1..m)) <= Cardinality(SUBSET (1..n))
    BY <2>1, PowerCounts, FS_Subset
  <2>. QED
    BY <2>2, PowerCounts
<1>. QED
  BY <1>1, <1>2, <1>3

\* Products of natural numbers.
LEMMA Products ==
  ASSUME NEW x \in Nat, NEW y \in Nat, NEW z \in Nat
  PROVE  /\ x * z \in Nat
         /\ (x + 1) * z = x * z + z
         /\ x <= y => x * z <= y * z
OBVIOUS

----------------------------------------------------------------------------
(* Texts joined of pieces *)

\* A recursive function on the numbers up to n: there is one, and its values
\* are of the kind that the steps lead to.
Follows(f, n, x, step) == f = [i \in 0..n |-> IF i = 0 THEN x ELSE step[i][f[i - 1]]]

LEMMA Recursion ==
  ASSUME NEW D, NEW n \in Nat, NEW x \in D, NEW step \in [1..n -> [D -> D]]
  PROVE  \E f \in [0..n -> D] : Follows(f, n, x, step)
<1> DEFINE Right(f, i) == f[i] = IF i = 0 THEN x ELSE step[i][f[i - 1]]
           Has(m) == \E f \in [0..m -> D] : \A i \in 0..m : Right(f, i)
           S == {m \in Nat : m <= n => Has(m)}
<1>1. Has(0)
  <2>1. [i \in 0..0 |-> x] \in [0..0 -> D]
    OBVIOUS
  <2>2. \A i \in 0..0 : Right([j \in 0..0 |-> x], i)
    OBVIOUS
  <2>. QED
    BY <2>1, <2>2
<1>2. ASSUME NEW m \in Nat, m + 1 <= n, Has(m) PROVE Has(m + 1)
  <2>1. PICK f \in [0..m -> D] : \A i \in 0..m : Right(f, i)
    BY <1>2
  <2> DEFINE next == step[m + 1][f[m]]
             g == [i \in 0..(m + 1) |-> IF i = m + 1 THEN next ELSE f[i]]
  <2>2. next \in D
    <3>1. m + 1 \in 1..n /\ m \in 0..m
      BY <1>2
    <3>. QED
      BY <3>1
  <2>3. g \in [0..(m + 1) -> D]
    <3>. HIDE DEF next
    <3>. QED
      BY <2>2
  <2>4. ASSUME NEW i \in 0..(m + 1) PROVE Right(g, i)
    <3>1. CASE i = m + 1
      <4>1. g[m + 1] = next /\ g[(m + 1) - 1] = f[m] /\ m + 1 # 0
        OBVIOUS
      <4>. HIDE DEF g
      <4>. QED
        BY <3>1, <4>1
    <3>2. CASE i # m + 1
      <4>1. i \in 0..m /\ g[i] = f[i] /\ (i # 0 => g[i - 1] = f[i - 1])
        BY <3>2
      <4>2. Right(f, i)
        BY <2>1, <4>1
      <4>. QED
        BY <4>1, <4>2
    <3>. QED
      BY <3>1, <3>2
  <2>. HIDE DEF g, Right
  <2>. QED
    BY <2>3, <2>4
<1>3. Has(n)
  <2>. HIDE DEF Has
  <2>1. 0 \in S /\ \A m \in Nat : m \in S => m + 1 \in S
    BY <1>1, <1>2
  <2>. HIDE DEF S
  <2>2. n \in S
    BY <2>1, SetInduction
  <2>. QED
    BY <2>2 DEF S
<1>4. PICK f \in [0..n -> D] : \A i \in 0..n : Right(f, i)
  BY <1>3
<1>5. Follows(f, n, x, step)
  BY <1>4 DEF Follows
<1>. QED
  BY <1>4, <1>5

\* A sequence of values stays where each of its steps stays.
Keeps(D, n, g) == \A i \in 1..n : g[i - 1] \in D => g[i] \in D

LEMMA StaysIn ==
  ASSUME NEW D, NEW n \in Nat, NEW g, g[0] \in D, Keeps(D, n, g)
  PROVE  \A i \in 0..n : g[i] \in D
<1> DEFINE S == {m \in Nat : m <= n => g[m] \in D}
<1>1. 0 \in S
  OBVIOUS
<1>2. ASSUME NEW m \in Nat, m \in S PROVE m + 1 \in S
  <2>1. ASSUME m + 1 <= n PROVE g[m + 1] \in D
    <3>1. m + 1 \in 1..n /\ (m + 1) - 1 = m /\ g[m] \in D
      BY <1>2, <2>1
    <3>. QED
      BY <3>1 DEF Keeps
  <2>. QED
    BY <2>1
<1>. HIDE DEF S
<1>3. Nat \subseteq S
  BY <1>1, <1>2, SetInduction
<1>. QED
  BY <1>3 DEF S

\* Steps taken back one by one, the last one first, lead to where they began.
Reverses(n, g, h) == \A j \in 1..n : g[j - 1] = h[(n + 1) - j] => g[j] = h[n - j]

LEMMA LeadsBack ==
  ASSUME NEW n \in Nat, NEW g, NEW h, g[0] = h[n], Reverses(n, g, h)
  PROVE  g[n] = h[0]
<1> DEFINE S == {m \in Nat : m <= n => g[m] = h[n - m]}
<1>1. 0 \in S
  OBVIOUS
<1>2. ASSUME NEW m \in Nat, m \in S PROVE m + 1 \in S
  <2>1. ASSUME m + 1 <= n PROVE g[m + 1] = h[n - (m + 1)]
    <3>1. m + 1 \in 1..n /\ (m + 1) - 1 = m /\ (n + 1) - (m + 1) = n - m /\ g[m] = h[n - m]
      BY <1>2, <2>1
    <3>. QED
      BY <3>1 DEF Reverses
  <2>. QED
    BY <2>1
<1>. HIDE DEF S
<1>3. n \in S
  BY <1>1, <1>2, SetInduction
<1>. QED
  BY <1>3 DEF S

\* What FlattenSeq computes, piece by piece.
Joins(f, s) == f = [i \in 1..Len(s) |-> IF i = 1 THEN s[1] ELSE f[i - 1] \o s[i]]

\* Any pieces can be joined, and the beginnings of the result are texts.
LEMMA JoinsExist ==
  ASSUME NEW V, NEW s \in Seq(Seq(V))
  PROVE  \E f \in [1..Len(s) -> Seq(V)] : Joins(f, s)
<1> DEFINE n == Len(s)
           Right(f, i) == f[i] = IF i = 1 THEN s[1] ELSE f[i - 1] \o s[i]
           Has(m) == \E f \in [1..m -> Seq(V)] : \A i \in 1..m : Right(f, i)
           S == {m \in Nat : m <= n => Has(m)}
<1>0. n \in Nat
  BY LenProperties
<1>1. Has(0)
  <2>1. [i \in 1..0 |-> <<>>] \in [1..0 -> Seq(V)]
    OBVIOUS
  <2>2. \A f, i : i \in 1..0 => Right(f, i)
    OBVIOUS
  <2>. QED
    BY <2>1, <2>2
<1>2. ASSUME NEW m \in Nat, m + 1 <= n, Has(m) PROVE Has(m + 1)
  <2>1. PICK f \in [1..m -> Seq(V)] : \A i \in 1..m : Right(f, i)
    BY <1>2
  <2> DEFINE next == IF m = 0 THEN s[1] ELSE f[m] \o s[m + 1]
             g == [i \in 1..(m + 1) |-> IF i = m + 1 THEN next ELSE f[i]]
  <2>2. next \in Seq(V)
    <3>1. s[1] \in Seq(V) /\ s[m + 1] \in Seq(V)
      BY <1>0, <1>2, ElementOfSeq
    <3>2. m # 0 => f[m] \in Seq(V)
      OBVIOUS
    <3>. QED
      BY <3>1, <3>2, ConcatProperties
  <2>3. g \in [1..(m + 1) -> Seq(V)]
    <3>. HIDE DEF next
    <3>. QED
      BY <2>2
  <2>4. ASSUME NEW i \in 1..(m + 1) PROVE Right(g, i)
    <3>1. CASE i = m + 1
      BY <3>1
    <3>2. CASE i # m + 1
      <4>1. i \in 1..m /\ g[i] = f[i] /\ (i # 1 => g[i - 1] = f[i - 1])
        BY <3>2
      <4>2. Right(f, i)
        BY <2>1, <4>1
      <4>. QED
        BY <4>1, <4>2
    <3>. QED
      BY <3>1, <3>2
  <2>. HIDE DEF g, Right
  <2>. QED
    BY <2>3, <2>4
<1>3. Has(n)
  <2>. HIDE DEF Has, n
  <2>1. 0 \in S /\ \A m \in Nat : m \in S => m + 1 \in S
    BY <1>0, <1>1, <1>2
  <2>. HIDE DEF S
  <2>2. n \in S
    BY <1>0, <2>1, SetInduction
  <2>. QED
    BY <1>0, <2>2 DEF S
<1>4. PICK f \in [1..n -> Seq(V)] : \A i \in 1..n : Right(f, i)
  BY <1>3
<1>5. f = [i \in 1..n |-> IF i = 1 THEN s[1] ELSE f[i - 1] \o s[i]]
  BY <1>4
<1>. QED
  BY <1>4, <1>5 DEF Joins

\* Each beginning is the one before it and a piece more.
LEMMA JoinsAt ==
  ASSUME NEW f, NEW s, Joins(f, s), NEW i \in 1..Len(s)
  PROVE  f[i] = IF i = 1 THEN s[1] ELSE f[i - 1] \o s[i]
<1> DEFINE G == [j \in 1..Len(s) |-> IF j = 1 THEN s[1] ELSE f[j - 1] \o s[j]]
<1>1. f = G
  BY DEF Joins
<1>2. G[i] = IF i = 1 THEN s[1] ELSE f[i - 1] \o s[i]
  OBVIOUS
<1>. HIDE DEF G
<1>. QED
  BY <1>1, <1>2

\* There is one way to join them.
SameUpTo(n, s, t) == \A i \in 1..n : s[i] = t[i]
LEMMA JoinsAgree ==
  ASSUME NEW s, NEW t, NEW f, NEW g, Joins(f, s), Joins(g, t),
         Len(s) \in Nat, Len(t) \in Nat, Len(s) <= Len(t),
         SameUpTo(Len(s), s, t)
  PROVE  SameUpTo(Len(s), f, g)
<1> DEFINE S == {m \in Nat : m \in 1..Len(s) => f[m] = g[m]}
<1>1. 0 \in S
  OBVIOUS
<1>2. ASSUME NEW m \in Nat, m \in S PROVE m + 1 \in S
  <2>. SUFFICES ASSUME m + 1 \in 1..Len(s) PROVE f[m + 1] = g[m + 1]
    OBVIOUS
  <2>1. /\ m + 1 \in 1..Len(s) /\ m + 1 \in 1..Len(t)
        /\ s[m + 1] = t[m + 1] /\ s[1] = t[1] /\ (m + 1) - 1 = m
    BY DEF SameUpTo
  <2>2. f[m + 1] = IF m + 1 = 1 THEN s[1] ELSE f[m] \o s[m + 1]
    BY <2>1, JoinsAt
  <2>3. g[m + 1] = IF m + 1 = 1 THEN t[1] ELSE g[m] \o t[m + 1]
    BY <2>1, JoinsAt
  <2>4. m + 1 # 1 => f[m] = g[m]
    BY <1>2
  <2>. QED
    BY <2>1, <2>2, <2>3, <2>4
<1>. HIDE DEF S
<1>3. Nat \subseteq S
  BY <1>1, <1>2, SetInduction
<1>. QED
  BY <1>3 DEF S, SameUpTo

\* The text joined of no pieces is empty.
LEMMA FlattenNone ==
  ASSUME NEW s, Len(s) = 0
  PROVE  FlattenSeq(s) = s
BY DEF FlattenSeq

\* The text joined of one piece more is what was joined, and that piece.
LEMMA FlattenMore ==
  ASSUME NEW V, NEW s \in Seq(Seq(V)), NEW t \in Seq(Seq(V)), Len(t) = Len(s) + 1,
         \A i \in 1..Len(s) : s[i] = t[i]
  PROVE  /\ FlattenSeq(s) \in Seq(V)
         /\ FlattenSeq(t) = FlattenSeq(s) \o t[Len(t)]
<1>0. Len(s) \in Nat /\ Len(t) \in Nat /\ Len(t) # 0
  BY LenProperties
<1>1. PICK f \in [1..Len(s) -> Seq(V)] : Joins(f, s)
  BY JoinsExist
<1>2. ASSUME NEW u \in Seq(Seq(V)), Len(u) # 0
      PROVE  \E h \in [1..Len(u) -> Seq(V)] : Joins(h, u) /\ FlattenSeq(u) = h[Len(u)]
  <2> DEFINE h == CHOOSE h : Joins(h, u)
  <2>1. PICK e \in [1..Len(u) -> Seq(V)] : Joins(e, u)
    BY JoinsExist
  <2>2. Joins(h, u)
    BY <2>1
  <2>3. FlattenSeq(u) = h[Len(u)]
    BY <1>2 DEF FlattenSeq, Joins
  <2>. HIDE DEF h
  <2>4. Len(u) \in Nat
    BY LenProperties
  <2>5. \A i \in 1..Len(u) : h[i] = e[i]
    <3>1. SameUpTo(Len(u), u, u) /\ Len(u) <= Len(u)
      BY <2>4 DEF SameUpTo
    <3>2. SameUpTo(Len(u), h, e)
      BY <2>1, <2>2, <2>4, <3>1, JoinsAgree
    <3>. QED
      BY <3>2 DEF SameUpTo
  <2>6. h = [i \in 1..Len(u) |-> e[i]]
    BY <2>2, <2>5 DEF Joins
  <2>. QED
    BY <2>2, <2>3, <2>6
<1>3. PICK g \in [1..Len(t) -> Seq(V)] : Joins(g, t) /\ FlattenSeq(t) = g[Len(t)]
  BY <1>0, <1>2
<1>4. g[Len(t)] = IF Len(t) = 1 THEN t[1] ELSE g[Len(t) - 1] \o t[Len(t)]
  <2>1. Len(t) \in 1..Len(t)
    BY <1>0
  <2>. QED
    BY <1>3, <2>1, JoinsAt
<1>5. t[Len(t)] \in Seq(V)
  BY <1>0, ElementOfSeq
<1>6. CASE Len(s) = 0
  <2>1. FlattenSeq(s) = <<>>
    BY <1>6, FlattenNone, EmptySeq
  <2>. QED
    BY <1>3, <1>4, <1>5, <1>6, <2>1, ConcatEmptySeq, EmptySeq
<1>7. CASE Len(s) # 0
  <2>1. PICK h \in [1..Len(s) -> Seq(V)] : Joins(h, s) /\ FlattenSeq(s) = h[Len(s)]
    BY <1>2, <1>7
  <2>2. \A i \in 1..Len(s) : h[i] = g[i]
    <3>1. SameUpTo(Len(s), s, t) /\ Len(s) <= Len(t)
      BY <1>0 DEF SameUpTo
    <3>2. SameUpTo(Len(s), h, g)
      BY <1>0, <1>3, <2>1, <3>1, JoinsAgree
    <3>. QED
      BY <3>2 DEF SameUpTo
  <2>3. h[Len(s)] = g[Len(s)] /\ h[Len(s)] \in Seq(V)
    BY <1>0, <1>7, <2>1, <2>2
  <2>4. Len(t) - 1 = Len(s) /\ Len(t) # 1
    BY <1>0, <1>7
  <2>. QED
    BY <1>3, <1>4, <2>1, <2>3, <2>4
<1>. QED
  BY <1>6, <1>7

\* Texts join to a text.
LEMMA FlattenType ==
  ASSUME NEW V, NEW s \in Seq(Seq(V))
  PROVE  FlattenSeq(s) \in Seq(V)
<1> DEFINE t == Append(s, <<>>)
<1>1. <<>> \in Seq(V)
  BY EmptySeq
<1>2. t \in Seq(Seq(V)) /\ Len(t) = Len(s) + 1 /\ \A i \in 1..Len(s) : s[i] = t[i]
  BY <1>1, AppendProperties
<1>. HIDE DEF t
<1>. QED
  BY <1>2, FlattenMore

\* A text ends with another one if it is some text and that one.
LEMMA SuffixIsJoin ==
  ASSUME NEW V, NEW s \in Seq(V), NEW t \in Seq(V)
  PROVE  IsSuffix(s, t) <=> \E p \in Seq(V) : t = p \o s
<1>0. Len(s) \in Nat /\ Len(t) \in Nat
  BY LenProperties
<1>1. ASSUME NEW u \in Seq(V)
      PROVE  /\ Reverse(u) \in Seq(V) /\ Len(Reverse(u)) = Len(u)
             /\ \A i \in 1..Len(u) : Reverse(u)[i] = u[(Len(u) - i) + 1]
  <2>1. Len(u) \in Nat
    BY LenProperties
  <2>2. \A i \in 1..Len(u) : u[(Len(u) - i) + 1] \in V
    BY <2>1, ElementOfSeq
  <2>3. Reverse(u) \in [1..Len(u) -> V]
    BY <2>2 DEF Reverse
  <2>4. Reverse(u) \in Seq(V)
    BY <2>1, <2>3, SeqDef
  <2>5. Len(Reverse(u)) = Len(u)
    BY <2>1, <2>3, <2>4, LenProperties
  <2>. QED
    BY <2>4, <2>5 DEF Reverse
<1> DEFINE Same(i) == s[i] = t[(Len(t) - Len(s)) + i]
           Ends == Len(s) <= Len(t) /\ \A i \in 1..Len(s) : Same(i)
<1>2. IsSuffix(s, t) <=> Ends
  <2> DEFINE a == SubSeq(Reverse(s), 1, Len(s))
             b == SubSeq(Reverse(t), 1, Len(s))
  <2>1. IsSuffix(s, t) <=> Len(s) <= Len(t) /\ a = b
    BY <1>1 DEF IsSuffix, IsPrefix
  <2>2. ASSUME Len(s) <= Len(t)
        PROVE  a = b <=> \A i \in 1..Len(s) : Reverse(s)[i] = Reverse(t)[i]
    <3>1. \A i \in 1..Len(s) : Reverse(s)[i] \in V /\ Reverse(t)[i] \in V
      BY <1>0, <1>1, <2>2, ElementOfSeq
    <3>2. /\ a \in Seq(V) /\ Len(a) = Len(s) /\ b \in Seq(V) /\ Len(b) = Len(s)
          /\ \A i \in 1..Len(s) : a[i] = Reverse(s)[i] /\ b[i] = Reverse(t)[i]
      BY <1>0, <1>1, <3>1, SubSeqProperties
    <3>. HIDE DEF a, b
    <3>. QED
      BY <3>2, SeqEqual
  <2>3. ASSUME Len(s) <= Len(t)
        PROVE  (\A i \in 1..Len(s) : Reverse(s)[i] = Reverse(t)[i]) <=> \A i \in 1..Len(s) : Same(i)
    <3>1. ASSUME NEW i \in 1..Len(s)
          PROVE  /\ (Len(s) - i) + 1 \in 1..Len(s)
                 /\ Reverse(s)[i] = Reverse(t)[i] <=> Same((Len(s) - i) + 1)
                 /\ Reverse(s)[(Len(s) - i) + 1] = Reverse(t)[(Len(s) - i) + 1] <=> Same(i)
      <4>1. (Len(s) - i) + 1 \in 1..Len(s) /\ i \in 1..Len(t) /\ (Len(s) - i) + 1 \in 1..Len(t)
        BY <1>0, <2>3
      <4>2. /\ Reverse(s)[i] = s[(Len(s) - i) + 1] /\ Reverse(t)[i] = t[(Len(t) - i) + 1]
            /\ Reverse(s)[(Len(s) - i) + 1] = s[(Len(s) - ((Len(s) - i) + 1)) + 1]
            /\ Reverse(t)[(Len(s) - i) + 1] = t[(Len(t) - ((Len(s) - i) + 1)) + 1]
        BY <1>1, <4>1
      <4>3. /\ (Len(s) - ((Len(s) - i) + 1)) + 1 = i
            /\ (Len(t) - ((Len(s) - i) + 1)) + 1 = (Len(t) - Len(s)) + i
            /\ (Len(t) - Len(s)) + ((Len(s) - i) + 1) = (Len(t) - i) + 1
        BY <1>0
      <4>. QED
        BY <4>1, <4>2, <4>3
    <3>. HIDE DEF Same
    <3>. QED
      BY <3>1
  <2>. HIDE DEF a, b, Same
  <2>. QED
    BY <2>1, <2>2, <2>3
<1>3. ASSUME NEW p \in Seq(V), t = p \o s PROVE Ends
  <2>1. /\ Len(p) \in Nat /\ Len(t) = Len(p) + Len(s)
        /\ \A i \in 1..Len(p) + Len(s) : t[i] = IF i <= Len(p) THEN p[i] ELSE s[i - Len(p)]
    BY <1>3, LenProperties, ConcatProperties
  <2>2. ASSUME NEW i \in 1..Len(s) PROVE Same(i)
    <3>1. /\ (Len(t) - Len(s)) + i = Len(p) + i /\ Len(p) + i \in 1..Len(p) + Len(s)
          /\ ~(Len(p) + i <= Len(p)) /\ (Len(p) + i) - Len(p) = i
      BY <1>0, <2>1
    <3>2. t[Len(p) + i] = s[(Len(p) + i) - Len(p)]
      BY <2>1, <3>1
    <3>. QED
      BY <3>1, <3>2
  <2>. QED
    BY <1>0, <2>1, <2>2
<1>4. ASSUME Ends PROVE \E p \in Seq(V) : t = p \o s
  <2> DEFINE k == Len(t) - Len(s)
             p == SubSeq(t, 1, k)
  <2>0. k \in 0..Len(t) /\ k \in Int
    BY <1>0, <1>4
  <2>1. p \in Seq(V) /\ Len(p) = k /\ \A i \in 1..k : p[i] = t[i]
    <3>1. \A i \in 1..k : t[i] \in V
      BY <1>0, <1>4, ElementOfSeq
    <3>. QED
      BY <1>0, <1>4, <3>1, SubSeqProperties
  <2>. HIDE DEF p
  <2>2. /\ p \o s \in Seq(V) /\ Len(p \o s) = Len(t)
        /\ \A i \in 1..Len(t) : (p \o s)[i] = IF i <= k THEN p[i] ELSE s[i - k]
    BY <1>0, <2>0, <2>1, ConcatProperties
  <2>3. ASSUME NEW i \in 1..Len(t) PROVE (p \o s)[i] = t[i]
    <3>1. CASE i <= k
      BY <2>0, <2>1, <2>2, <3>1
    <3>2. CASE i > k
      <4>1. i - k \in 1..Len(s) /\ k + (i - k) = i
        BY <1>0, <2>0, <3>2
      <4>2. Same(i - k)
        BY <1>4, <4>1
      <4>3. (p \o s)[i] = s[i - k]
        BY <1>0, <2>2, <3>2
      <4>4. s[i - k] = t[k + (i - k)]
        BY <4>2
      <4>. QED
        BY <4>1, <4>3, <4>4
    <3>3. i <= k \/ i > k
      BY <1>0, <2>0
    <3>. QED
      BY <3>1, <3>2, <3>3
  <2>4. t = p \o s
    BY <2>2, <2>3, SeqEqual
  <2>. QED
    BY <2>1, <2>4
<1>. QED
  BY <1>2, <1>3, <1>4

\* Two texts that end alike are alike before that.
LEMMA SameBefore ==
  ASSUME NEW V, NEW a \in Seq(V), NEW b \in Seq(V), NEW x \in Seq(V), NEW y \in Seq(V),
         a \o x = b \o y, Len(x) = Len(y)
  PROVE  a = b
<1>1. /\ Len(a) \in Nat /\ Len(b) \in Nat /\ Len(x) \in Nat
      /\ Len(a \o x) = Len(a) + Len(x) /\ Len(b \o y) = Len(b) + Len(y)
  BY LenProperties, ConcatProperties
<1>2. Len(a) = Len(b)
  BY <1>1
<1>3. ASSUME NEW i \in 1..Len(a) PROVE a[i] = b[i]
  <2>1. i \in 1..Len(a) + Len(x) /\ i \in 1..Len(b) + Len(y) /\ i <= Len(a) /\ i <= Len(b)
    BY <1>1, <1>2
  <2>2. (a \o x)[i] = a[i]
    BY <2>1, ConcatProperties
  <2>3. (b \o y)[i] = b[i]
    BY <2>1, ConcatProperties
  <2>. QED
    BY <2>2, <2>3
<1>. QED
  BY <1>2, <1>3, SeqEqual

\* Joining texts of numbers, the first two or the last two first.
LEMMA Regrouped ==
  ASSUME NEW a \in Seq(Nat), NEW b \in Seq(Nat), NEW c \in Seq(Nat)
  PROVE  (a \o b) \o c = a \o (b \o c)
BY ConcatAssociative

\* All pieces but the last.
LEMMA AllButLast ==
  ASSUME NEW V, NEW s \in Seq(V), Len(s) # 0
  PROVE  \E t \in Seq(V) : Len(s) = Len(t) + 1 /\ \A i \in 1..Len(t) : t[i] = s[i]
<1> DEFINE t == SubSeq(s, 1, Len(s) - 1)
<1>1. Len(s) \in Nat \ {0} /\ \A i \in 1..Len(s) : s[i] \in V
  BY LenProperties, ElementOfSeq
<1>2. \A i \in 1..(Len(s) - 1) : i \in 1..Len(s) /\ (1 + i) - 1 = i
  BY <1>1
<1>3. /\ t \in Seq(V) /\ Len(t) = IF 1 <= Len(s) - 1 THEN (Len(s) - 1) - 1 + 1 ELSE 0
      /\ \A i \in 1..((Len(s) - 1) - 1 + 1) : t[i] = s[(1 + i) - 1]
  <2>1. \A i \in 1..(Len(s) - 1) : s[i] \in V
    BY <1>1, <1>2
  <2>. QED
    BY <1>1, <2>1, SubSeqProperties
<1>. HIDE DEF t
<1>4. Len(s) = Len(t) + 1
  <2>1. CASE 1 <= Len(s) - 1
    BY <1>1, <1>3, <2>1
  <2>2. CASE ~(1 <= Len(s) - 1)
    <3>1. Len(t) = 0
      BY <1>3, <2>2
    <3>2. Len(s) = 1
      <4>1. \A m \in Nat : m # 0 /\ ~(1 <= m - 1) => m = 1
        OBVIOUS
      <4>2. Len(s) \in Nat /\ Len(s) # 0
        BY LenProperties
      <4>. QED
        BY <2>2, <4>1, <4>2
    <3>. QED
      BY <3>1, <3>2
  <2>. QED
    BY <2>1, <2>2
<1>5. \A i \in 1..Len(t) : t[i] = s[i]
  BY <1>1, <1>2, <1>3, <1>4
<1>. QED
  BY <1>3, <1>4, <1>5

\* What is joined of some pieces and others is what is joined of the ones and what is
\* joined of the others.
LEMMA FlattenBoth ==
  ASSUME NEW a \in Seq(Seq(Nat)), NEW b \in Seq(Seq(Nat))
  PROVE  FlattenSeq(a \o b) = FlattenSeq(a) \o FlattenSeq(b)
<1> DEFINE Both(c) == FlattenSeq(a \o c) = FlattenSeq(a) \o FlattenSeq(c)
           T == {n \in Nat : \A c \in Seq(Seq(Nat)) : Len(c) = n => Both(c)}
<1>0. FlattenSeq(a) \in Seq(Nat)
  BY FlattenType
<1>1. 0 \in T
  <2>1. ASSUME NEW c \in Seq(Seq(Nat)), Len(c) = 0 PROVE Both(c)
    <3>1. c = <<>> /\ FlattenSeq(c) = <<>>
      BY <2>1, EmptySeq, FlattenNone
    <3>2. a \o c = a /\ FlattenSeq(a) \o <<>> = FlattenSeq(a)
      BY <1>0, <3>1, ConcatEmptySeq
    <3>. QED
      BY <3>1, <3>2
  <2>. QED
    BY <2>1
<1>2. ASSUME NEW n \in Nat, n \in T PROVE n + 1 \in T
  <2>1. ASSUME NEW c \in Seq(Seq(Nat)), Len(c) = n + 1 PROVE Both(c)
    <3>1. PICK d \in Seq(Seq(Nat)) : Len(c) = Len(d) + 1 /\ \A i \in 1..Len(d) : d[i] = c[i]
      <4>1. Len(c) # 0
        BY <2>1
      <4>2. \E d \in Seq(Seq(Nat)) : Len(c) = Len(d) + 1 /\ \A i \in 1..Len(d) : d[i] = c[i]
        BY <4>1, AllButLast
      <4>. QED
        BY <4>2
    <3>2. Len(d) \in Nat /\ Len(d) = n /\ Both(d)
      BY <1>2, <2>1, <3>1, LenProperties
    <3> DEFINE x == c[Len(c)]
    <3>3. x \in Seq(Nat) /\ Len(c) \in 1..Len(c)
      BY <3>1, <3>2, ElementOfSeq
    <3>4. FlattenSeq(c) = FlattenSeq(d) \o x /\ FlattenSeq(d) \in Seq(Nat)
      BY <3>1, FlattenMore
    <3>5. /\ a \o d \in Seq(Seq(Nat)) /\ a \o c \in Seq(Seq(Nat)) /\ Len(a) \in Nat
          /\ Len(a \o d) = Len(a) + Len(d) /\ Len(a \o c) = Len(a) + Len(c)
          /\ \A i \in 1..(Len(a) + Len(d)) : (a \o d)[i] = IF i <= Len(a) THEN a[i] ELSE d[i - Len(a)]
          /\ \A i \in 1..(Len(a) + Len(c)) : (a \o c)[i] = IF i <= Len(a) THEN a[i] ELSE c[i - Len(a)]
      BY ConcatProperties, LenProperties
    <3>6. ASSUME NEW i \in 1..Len(a \o d) PROVE (a \o d)[i] = (a \o c)[i]
      <4>1. i \in 1..(Len(a) + Len(d)) /\ i \in 1..(Len(a) + Len(c))
        BY <3>1, <3>2, <3>5
      <4>2. ~(i <= Len(a)) => i - Len(a) \in 1..Len(d)
        BY <3>2, <3>5, <4>1
      <4>. QED
        BY <3>1, <3>5, <4>1, <4>2
    <3>7. (a \o c)[Len(a \o c)] = x
      <4>1. Len(a) + Len(c) \in 1..(Len(a) + Len(c)) /\ ~(Len(a) + Len(c) <= Len(a))
            /\ (Len(a) + Len(c)) - Len(a) = Len(c)
        BY <3>1, <3>2, <3>5
      <4>. QED
        BY <3>5, <4>1
    <3>8. FlattenSeq(a \o c) = FlattenSeq(a \o d) \o x
      <4> DEFINE u == a \o d
                 v == a \o c
      <4>1. u \in Seq(Seq(Nat)) /\ v \in Seq(Seq(Nat)) /\ Len(u) = Len(a) + Len(d) /\ Len(v) = Len(a) + Len(c)
        BY <3>5
      <4>2. v[Len(v)] = x /\ \A i \in 1..Len(u) : u[i] = v[i]
        BY <3>6, <3>7
      <4>. HIDE DEF u, v
      <4>3. Len(v) = Len(u) + 1
        <5>1. Len(a) \in Nat /\ Len(d) \in Nat
          BY LenProperties
        <5>2. Len(c) = Len(d) + 1
          BY <3>1
        <5>. QED
          BY <4>1, <5>1, <5>2
      <4>4. FlattenSeq(v) = FlattenSeq(u) \o v[Len(v)]
        BY <4>1, <4>2, <4>3, FlattenMore
      <4>. QED
        BY <4>2, <4>4 DEF u, v
    <3>. HIDE DEF x
    <3>9. (FlattenSeq(a) \o FlattenSeq(d)) \o x = FlattenSeq(a) \o (FlattenSeq(d) \o x)
      BY <1>0, <3>3, <3>4, Regrouped
    <3>. QED
      BY <3>2, <3>4, <3>8, <3>9
  <2>. HIDE DEF Both
  <2>. QED
    BY <2>1
<1>3. Nat \subseteq T
  <2>. HIDE DEF T
  <2>. QED
    BY <1>1, <1>2, SetInduction
<1>4. Len(b) \in Nat
  BY LenProperties
<1>. QED
  BY <1>3, <1>4

\* All that is in a text joined of pieces is in one of them.
Within(V, s) == {x \in V : \E i \in 1..Len(s) : \E j \in 1..Len(s[i]) : x = s[i][j]}

LEMMA FlattenWithin ==
  ASSUME NEW V, NEW s \in Seq(Seq(V))
  PROVE  \A j \in 1..Len(FlattenSeq(s)) : FlattenSeq(s)[j] \in Within(V, s)
<1> DEFINE In(c) == \A j \in 1..Len(FlattenSeq(c)) : FlattenSeq(c)[j] \in Within(V, c)
           T == {n \in Nat : \A c \in Seq(Seq(V)) : Len(c) = n => In(c)}
<1>1. 0 \in T
  <2>1. ASSUME NEW c \in Seq(Seq(V)), Len(c) = 0 PROVE In(c)
    <3>1. FlattenSeq(c) = c
      BY <2>1, FlattenNone
    <3>. QED
      BY <2>1, <3>1
  <2>. QED
    BY <2>1
<1>2. ASSUME NEW n \in Nat, n \in T PROVE n + 1 \in T
  <2>1. ASSUME NEW c \in Seq(Seq(V)), Len(c) = n + 1 PROVE In(c)
    <3>1. PICK d \in Seq(Seq(V)) : Len(c) = Len(d) + 1 /\ \A i \in 1..Len(d) : d[i] = c[i]
      <4>1. Len(c) # 0
        BY <2>1
      <4>2. \E d \in Seq(Seq(V)) : Len(c) = Len(d) + 1 /\ \A i \in 1..Len(d) : d[i] = c[i]
        BY <4>1, AllButLast
      <4>. QED
        BY <4>2
    <3>2. Len(d) \in Nat /\ Len(d) = n /\ In(d)
      BY <1>2, <2>1, <3>1, LenProperties
    <3> DEFINE x == c[Len(c)]
               y == FlattenSeq(d)
    <3>3. x \in Seq(V) /\ Len(c) \in 1..Len(c)
      BY <3>1, <3>2, ElementOfSeq
    <3>4. FlattenSeq(c) = y \o x /\ y \in Seq(V)
      BY <3>1, FlattenMore
    <3> SUFFICES ASSUME NEW j \in 1..Len(y \o x) PROVE (y \o x)[j] \in Within(V, c)
      BY <3>4
    <3>5. /\ Len(y) \in Nat /\ Len(x) \in Nat /\ Len(y \o x) = Len(y) + Len(x)
          /\ (y \o x)[j] = IF j <= Len(y) THEN y[j] ELSE x[j - Len(y)]
      BY <3>3, <3>4, ConcatProperties, LenProperties
    <3>6. CASE j <= Len(y)
      <4>1. y[j] \in Within(V, d)
        BY <3>2, <3>5, <3>6
      <4>2. Within(V, d) \subseteq Within(V, c)
        <5>1. \A i \in 1..Len(d) : i \in 1..Len(c)
          BY <3>1, <3>2
        <5>. QED
          BY <3>1, <5>1 DEF Within
      <4>. QED
        BY <3>5, <3>6, <4>1, <4>2
    <3>7. CASE ~(j <= Len(y))
      <4>1. j - Len(y) \in 1..Len(x)
        BY <3>5, <3>7
      <4>2. x[j - Len(y)] \in V
        BY <3>3, <4>1, ElementOfSeq
      <4>. QED
        BY <3>3, <3>5, <3>7, <4>1, <4>2 DEF Within
    <3>. QED
      BY <3>6, <3>7
  <2>. HIDE DEF In
  <2>. QED
    BY <2>1
<1>3. Nat \subseteq T
  <2>. HIDE DEF T
  <2>. QED
    BY <1>1, <1>2, SetInduction
<1>4. Len(s) \in Nat
  BY LenProperties
<1>. QED
  BY <1>3, <1>4
=============================================================================
