---------------------------- MODULE CodecProofs ----------------------------
(***************************************************************************)
(* Proofs about SrunCodec.tla and CommandLine.tla, for inputs of any       *)
(* length: the portal reads out of the info field the text that was        *)
(* encoded, whatever the token; replies and command lines are read as they *)
(* were meant.                                                             *)
(***************************************************************************)
EXTENDS MCCodec, DataLemmas, SequenceTheorems, TLAPS

Word == (0..Half - 1) \X (0..Half - 1)

\* Membership as inequalities, which the provers take better than a long range.
Fits(x) == x \in Int /\ 0 <= x /\ x < 65536
FitsByte(x) == x \in Int /\ 0 <= x /\ x < 256

-----------------------------------------------------------------------------
(* Arithmetic on words. *)

LEMMA HalfRange == \A x : x \in 0..Half - 1 <=> Fits(x)
<1>1. Half \in Int
  BY DEF Half
<1>2. \A x : x \in 0..Half - 1 <=> x \in Int /\ 0 <= x /\ x < Half
  BY <1>1
<1>3. \A x \in Int : x < Half <=> x < 65536
  BY DEF Half
<1>. QED
  BY <1>2, <1>3 DEF Fits

LEMMA ByteRange == \A x : x \in Byte <=> FitsByte(x)
BY DEF Byte, FitsByte

\* A word has two halves, and two halves are a word.
LEMMA WordParts ==
  ASSUME NEW a \in Word
  PROVE  a = <<a[1], a[2]>> /\ Fits(a[1]) /\ Fits(a[2])
<1>1. a = <<a[1], a[2]>> /\ a[1] \in 0..Half - 1 /\ a[2] \in 0..Half - 1
  BY DEF Word
<1>. QED
  BY <1>1, HalfRange

LEMMA WordOf ==
  ASSUME NEW x, NEW y, Fits(x), Fits(y)
  PROVE  <<x, y>> \in Word
<1>1. x \in 0..Half - 1 /\ y \in 0..Half - 1
  BY HalfRange
<1>. QED
  BY <1>1 DEF Word

\* Numbers modulo the range of a half.
LEMMA HalfMod ==
  ASSUME NEW x \in Int
  PROVE  Fits(x % Half) /\ x \div Half \in Int
BY DEF Half, Fits

\* A sum is a word.
LEMMA AddType ==
  ASSUME NEW a, NEW b, a[1] \in Int, a[2] \in Int, b[1] \in Int, b[2] \in Int
  PROVE  Add(a, b) \in Word
<1>1. Fits((a[2] + b[2]) % Half) /\ (a[2] + b[2]) \div Half \in Int
  BY HalfMod
<1>2. Fits((a[1] + b[1] + (a[2] + b[2]) \div Half) % Half)
  BY <1>1, HalfMod
<1>. QED
  BY <1>1, <1>2, WordOf DEF Add

LEMMA AddWords ==
  ASSUME NEW a \in Word, NEW b \in Word
  PROVE  Add(a, b) \in Word
<1>1. a[1] \in Int /\ a[2] \in Int /\ b[1] \in Int /\ b[2] \in Int
  BY WordParts DEF Fits
<1>. QED
  BY <1>1, AddType

\* What was added can be taken away, in each half with its carry.
LEMMA Subtraction ==
  ASSUME NEW a1, NEW a2, NEW b1, NEW b2, Fits(a1), Fits(a2), Fits(b1), Fits(b2),
         NEW c1, NEW c2, NEW m1, NEW m2,
         c2 = (a2 + b2) % 65536, c1 = ((a1 + b1) + (a2 + b2) \div 65536) % 65536,
         m2 = ((65536 - 1 - b2) + 1) % 65536,
         m1 = ((65536 - 1 - b1) + 0 + ((65536 - 1 - b2) + 1) \div 65536) % 65536
  PROVE  /\ (c2 + m2) % 65536 = a2
         /\ ((c1 + m1) + (c2 + m2) \div 65536) % 65536 = a1
BY DEF Fits

LEMMA AddMinus ==
  ASSUME NEW a \in Word, NEW b \in Word
  PROVE  Add(Add(a, b), Minus(b)) = a
<1> DEFINE c == Add(a, b)
           m == Minus(b)
<1>1. /\ a = <<a[1], a[2]>> /\ Fits(a[1]) /\ Fits(a[2]) /\ Fits(b[1]) /\ Fits(b[2])
  BY WordParts
<1>2. /\ c[2] = (a[2] + b[2]) % 65536
      /\ c[1] = ((a[1] + b[1]) + (a[2] + b[2]) \div 65536) % 65536
  BY DEF Add, Half
<1>3. /\ m[2] = ((65536 - 1 - b[2]) + 1) % 65536
      /\ m[1] = ((65536 - 1 - b[1]) + 0 + ((65536 - 1 - b[2]) + 1) \div 65536) % 65536
  BY DEF Minus, Add, Half
<1>4. Add(c, m) = <<((c[1] + m[1]) + (c[2] + m[2]) \div 65536) % 65536, (c[2] + m[2]) % 65536>>
  BY DEF Add, Half
<1>. HIDE DEF c, m
<1>5. /\ (c[2] + m[2]) % 65536 = a[2]
      /\ ((c[1] + m[1]) + (c[2] + m[2]) \div 65536) % 65536 = a[1]
  BY <1>1, <1>2, <1>3, Subtraction
<1>. QED
  BY <1>1, <1>4, <1>5 DEF c, m

\* And what was taken away can be added: Minus of a word is a word.
LEMMA MinusType ==
  ASSUME NEW b \in Word
  PROVE  Minus(b) \in Word
<1> DEFINE n == <<Half - 1 - b[1], Half - 1 - b[2]>>
<1>1. n[1] \in Int /\ n[2] \in Int
  BY WordParts DEF Fits, Half
<1>2. <<0, 1>>[1] \in Int /\ <<0, 1>>[2] \in Int
  OBVIOUS
<1>. HIDE DEF n
<1>3. Add(n, <<0, 1>>) \in Word
  BY <1>1, <1>2, AddType
<1>. QED
  BY <1>3 DEF Minus, n

\* One bit of an exclusive or.
LEMMA XorBitType ==
  ASSUME NEW a, NEW b, FitsByte(a), FitsByte(b), NEW w \in {1, 2, 4, 8, 16, 32, 64, 128}
  PROVE  XorBit(a, b, w) \in {0, w}
BY DEF XorBit, FitsByte

\* Exclusive or of bytes is a byte, and of two-bit numbers a two-bit number.
LEMMA XorByteType ==
  ASSUME NEW a \in Byte, NEW b \in Byte
  PROVE  XorByte[a][b] \in Byte /\ (a < 4 /\ b < 4 => XorByte[a][b] \in 0..3)
<1>0. FitsByte(a) /\ FitsByte(b)
  BY ByteRange
<1>2. XorByte[a][b] =
        XorBit(a, b, 1) + XorBit(a, b, 2) + XorBit(a, b, 4) + XorBit(a, b, 8)
        + XorBit(a, b, 16) + XorBit(a, b, 32) + XorBit(a, b, 64) + XorBit(a, b, 128)
  BY Zenon DEF XorByte
<1>3. /\ XorBit(a, b, 1) \in {0, 1} /\ XorBit(a, b, 2) \in {0, 2} /\ XorBit(a, b, 4) \in {0, 4}
      /\ XorBit(a, b, 8) \in {0, 8} /\ XorBit(a, b, 16) \in {0, 16}
      /\ XorBit(a, b, 32) \in {0, 32} /\ XorBit(a, b, 64) \in {0, 64}
      /\ XorBit(a, b, 128) \in {0, 128}
  BY <1>0, XorBitType
<1>4. ASSUME a < 4, b < 4
      PROVE  /\ XorBit(a, b, 4) = 0 /\ XorBit(a, b, 8) = 0 /\ XorBit(a, b, 16) = 0
             /\ XorBit(a, b, 32) = 0 /\ XorBit(a, b, 64) = 0 /\ XorBit(a, b, 128) = 0
  BY <1>0, <1>4 DEF XorBit, FitsByte
<1>5. FitsByte(XorByte[a][b])
  BY <1>2, <1>3 DEF FitsByte
<1>6. ASSUME a < 4, b < 4 PROVE XorByte[a][b] \in 0..3
  BY <1>2, <1>3, <1>4, <1>6
<1>. QED
  BY <1>5, <1>6, ByteRange

LEMMA XorHalfType ==
  ASSUME NEW x, NEW y, Fits(x), Fits(y)
  PROVE  Fits(XorHalf(x, y))
<1>1. /\ FitsByte(x \div 256) /\ FitsByte(y \div 256) /\ FitsByte(x % 256) /\ FitsByte(y % 256)
  BY DEF Fits, FitsByte
<1>2. FitsByte(XorByte[x \div 256][y \div 256]) /\ FitsByte(XorByte[x % 256][y % 256])
  BY <1>1, ByteRange, XorByteType
<1>. QED
  BY <1>2 DEF XorHalf, Fits, FitsByte

\* Of words, a word.
LEMMA XorWordType ==
  ASSUME NEW a \in Word, NEW b \in Word
  PROVE  XorWord(a, b) \in Word
BY WordParts, WordOf, XorHalfType DEF XorWord

\* The shifts of Mix give words.
LEMMA Shifts ==
  ASSUME NEW a \in Word
  PROVE  /\ ShiftRight(a, 3) \in Word /\ ShiftRight(a, 5) \in Word
         /\ ShiftLeft(a, 2) \in Word /\ ShiftLeft(a, 4) \in Word
<1>1. 2^2 = 4 /\ 2^3 = 8 /\ 2^4 = 16 /\ 2^5 = 32 /\ 2^(16 - 2) = 16384 /\ 2^(16 - 4) = 4096
  OBVIOUS
<1>2. Fits(a[1]) /\ Fits(a[2])
  BY WordParts
<1>3. ShiftRight(a, 3) = <<a[1] \div 8, (a[2] + (a[1] % 8) * 65536) \div 8>>
      /\ ShiftRight(a, 5) = <<a[1] \div 32, (a[2] + (a[1] % 32) * 65536) \div 32>>
  BY <1>1 DEF ShiftRight, Half
<1>4. /\ ShiftLeft(a, 2) = <<(a[1] * 4 + a[2] \div 16384) % 65536, (a[2] * 4) % 65536>>
      /\ ShiftLeft(a, 4) = <<(a[1] * 16 + a[2] \div 4096) % 65536, (a[2] * 16) % 65536>>
  BY <1>1 DEF ShiftLeft, Half
<1>5. /\ Fits(a[1] \div 8) /\ Fits((a[2] + (a[1] % 8) * 65536) \div 8)
      /\ Fits(a[1] \div 32) /\ Fits((a[2] + (a[1] % 32) * 65536) \div 32)
  BY <1>2 DEF Fits
<1>6. /\ Fits((a[1] * 4 + a[2] \div 16384) % 65536) /\ Fits((a[2] * 4) % 65536)
      /\ Fits((a[1] * 16 + a[2] \div 4096) % 65536) /\ Fits((a[2] * 16) % 65536)
  BY <1>2 DEF Fits
<1>. QED
  BY <1>3, <1>4, <1>5, <1>6, WordOf

-----------------------------------------------------------------------------
(* The passes, as sequences of steps that can be taken back. *)

Words(n) == {w \in Seq(Word) : Len(w) = n}
IsKey(k) == k \in Seq(Word) /\ Len(k) >= 4

LEMMA WordAt ==
  ASSUME NEW n \in Nat, NEW v \in Words(n), NEW p \in 1..n
  PROVE  v[p] \in Word
BY ElementOfSeq DEF Words

LEMMA MixType ==
  ASSUME NEW z \in Word, NEW y \in Word, NEW d \in Word, NEW k, IsKey(k), NEW p \in Nat, p # 0
  PROVE  Mix(z, y, d, k, p) \in Word
<1> DEFINE e == (d[2] \div 4) % 4
           q == (p - 1) % 4
           m == XorWord(ShiftRight(z, 5), ShiftLeft(y, 2))
           l == XorWord(XorWord(ShiftRight(y, 3), ShiftLeft(z, 4)), XorWord(d, y))
           j == XorByte[q][e] + 1
<1>1. m \in Word
  BY Shifts, XorWordType
<1>2. l \in Word
  <2>1. XorWord(ShiftRight(y, 3), ShiftLeft(z, 4)) \in Word /\ XorWord(d, y) \in Word
    BY Shifts, XorWordType
  <2>. QED
    BY <2>1, XorWordType
<1>3. e \in Int /\ 0 <= e /\ e < 4
  BY WordParts DEF Fits
<1>4. q \in Int /\ 0 <= q /\ q < 4
  OBVIOUS
<1>. HIDE DEF e, q
<1>5. j \in 1..4
  <2>1. e \in Byte /\ q \in Byte
    BY <1>3, <1>4, ByteRange DEF FitsByte
  <2>2. XorByte[q][e] \in 0..3
    BY <1>3, <1>4, <2>1, XorByteType
  <2>. QED
    BY <2>2
<1>. HIDE DEF j
<1>6. k[j] \in Word
  <2>1. k \in Seq(Word) /\ Len(k) >= 4 /\ Len(k) \in Nat
    BY LenProperties DEF IsKey
  <2>2. j \in 1..Len(k)
    BY <1>5, <2>1
  <2>. QED
    BY <2>1, <2>2, ElementOfSeq
<1>. HIDE DEF m, l
<1>7. Add(Add(m, l), XorWord(k[j], z)) \in Word
  BY <1>1, <1>2, <1>6, AddWords, XorWordType
<1>. QED
  BY <1>7 DEF Mix, m, l, j, q, e

\* The words around the ring.
LEMMA Neighbours ==
  ASSUME NEW n \in Nat, NEW v \in Words(n), NEW p \in 1..n
  PROVE  Before(v, p) \in Word /\ After(v, p) \in Word
<1>1. Len(v) = n /\ (IF p = 1 THEN Len(v) ELSE p - 1) \in 1..n
      /\ (IF p = Len(v) THEN 1 ELSE p + 1) \in 1..n
  BY DEF Words
<1>. QED
  BY <1>1, WordAt DEF Before, After

\* Another value for one word.
LEMMA Replaced ==
  ASSUME NEW n \in Nat, NEW v \in Words(n), NEW p \in 1..n, NEW x \in Word
  PROVE  [v EXCEPT ![p] = x] \in Words(n)
BY ExceptSeq DEF Words

LEMMA MixedType ==
  ASSUME NEW n \in Nat, NEW v \in Words(n), NEW p \in 1..n, NEW d \in Word, NEW k, IsKey(k)
  PROVE  Mixed(v, d, k, p) \in Words(n) /\ Unmixed(v, d, k, p) \in Words(n)
<1> DEFINE m == Mix(Before(v, p), After(v, p), d, k, p)
<1>1. m \in Word
  BY Neighbours, MixType
<1>. HIDE DEF m
<1> DEFINE x == Add(v[p], m)
           y == Add(v[p], Minus(m))
<1>2. x \in Word /\ y \in Word
  BY <1>1, WordAt, MinusType, AddWords
<1>3. Mixed(v, d, k, p) = [v EXCEPT ![p] = x] /\ Unmixed(v, d, k, p) = [v EXCEPT ![p] = y]
  BY DEF Mixed, Unmixed, m
<1>. HIDE DEF x, y
<1>4. [v EXCEPT ![p] = x] \in Words(n) /\ [v EXCEPT ![p] = y] \in Words(n)
  BY <1>2, Replaced
<1>. QED
  BY <1>3, <1>4

\* One word mixed and unmixed: its neighbours are other words, so that both
\* directions see the same ones.
LEMMA MixUndone ==
  ASSUME NEW n \in Nat, n >= 2, NEW v \in Words(n), NEW p \in 1..n,
         NEW d \in Word, NEW k, IsKey(k)
  PROVE  Unmixed(Mixed(v, d, k, p), d, k, p) = v
<1> DEFINE m == Mix(Before(v, p), After(v, p), d, k, p)
           u == [v EXCEPT ![p] = Add(v[p], m)]
<1>1. m \in Word
  BY Neighbours, MixType
<1>2. v \in Seq(Word) /\ Len(v) = n /\ v[p] \in Word /\ DOMAIN v = 1..n /\ v = [i \in 1..n |-> v[i]]
  BY WordAt, LenProperties DEF Words
<1>3. /\ Len(u) = n /\ \A i \in 1..n : i # p => u[i] = v[i]
      /\ u[p] = Add(v[p], m)
  <2>. HIDE DEF m
  <2>1. u \in Seq(Word) /\ Len(u) = n
    BY <1>1, <1>2, AddWords, Replaced DEF Words
  <2>. QED
    BY <1>2, <2>1
<1>4. Before(u, p) = Before(v, p) /\ After(u, p) = After(v, p)
  <2>1. /\ (IF p = 1 THEN n ELSE p - 1) \in 1..n /\ (IF p = 1 THEN n ELSE p - 1) # p
        /\ (IF p = n THEN 1 ELSE p + 1) \in 1..n /\ (IF p = n THEN 1 ELSE p + 1) # p
    OBVIOUS
  <2>. HIDE DEF u
  <2>. QED
    BY <1>2, <1>3, <2>1 DEF Before, After
<1>5. Mixed(v, d, k, p) = u
  BY DEF Mixed, u, m
<1>6. Unmixed(u, d, k, p) = [u EXCEPT ![p] = Add(u[p], Minus(m))]
  BY <1>4 DEF Unmixed, m
<1>7. Add(u[p], Minus(m)) = v[p]
  BY <1>1, <1>2, <1>3, AddMinus
<1>8. [u EXCEPT ![p] = v[p]] = v
  <2>. HIDE DEF m
  <2>. QED
    BY <1>2
<1>. QED
  BY <1>5, <1>6, <1>7, <1>8

\* What Pass computes, word by word.
LEMMA PassRuns ==
  ASSUME NEW n \in Nat, NEW v \in Words(n), NEW d \in Word, NEW k, IsKey(k)
  PROVE  \E h : /\ h[0] = v /\ Pass(v, d, k) = h[n]
                /\ \A i \in 0..n : h[i] \in Words(n)
                /\ \A i \in 1..n : h[i] = Mixed(h[i - 1], d, k, i)
<1> DEFINE D == Words(n)
           step == [i \in 1..n |-> [w \in D |-> Mixed(w, d, k, i)]]
           Body(f) == [p \in 0..n |-> IF p = 0 THEN v ELSE Mixed(f[p - 1], d, k, p)]
           h == CHOOSE f : f = Body(f)
<1>1. step \in [1..n -> [D -> D]]
  BY MixedType
<1>2. PICK f \in [0..n -> D] : Follows(f, n, v, step)
  <2>. HIDE DEF step, D
  <2>1. v \in D
    BY DEF D
  <2>. QED
    BY <1>1, <2>1, Recursion
<1>3. f = Body(f)
  <2>1. ASSUME NEW i \in 1..n PROVE step[i][f[i - 1]] = Mixed(f[i - 1], d, k, i)
    <3>1. f[i - 1] \in D
      <4>1. i - 1 \in 0..n
        OBVIOUS
      <4>. HIDE DEF D
      <4>. QED
        BY <1>2, <4>1
    <3>. QED
      BY <3>1
  <2> DEFINE A(i) == IF i = 0 THEN v ELSE step[i][f[i - 1]]
             B(i) == IF i = 0 THEN v ELSE Mixed(f[i - 1], d, k, i)
  <2>2. ASSUME NEW i \in 0..n PROVE A(i) = B(i)
    <3>1. i = 0 \/ i \in 1..n
      OBVIOUS
    <3>. HIDE DEF step, D
    <3>. QED
      BY <2>1, <3>1
  <2>3. f = [i \in 0..n |-> A(i)]
    BY <1>2 DEF Follows
  <2>4. [i \in 0..n |-> A(i)] = [i \in 0..n |-> B(i)]
    <3>. HIDE DEF A, B
    <3>. QED
      BY <2>2
  <2>. QED
    BY <2>3, <2>4
<1>4. h = Body(h)
  BY <1>3
<1>5. Pass(v, d, k) = h[n]
  <2>1. Len(v) = n
    BY DEF Words
  <2>. QED
    BY <2>1 DEF Pass
<1>. HIDE DEF h
<1>6. h[0] = v /\ \A i \in 1..n : h[i] = Mixed(h[i - 1], d, k, i)
  <2>1. \A i \in 0..n : Body(h)[i] = IF i = 0 THEN v ELSE Mixed(h[i - 1], d, k, i)
    OBVIOUS
  <2>. HIDE DEF Body
  <2>2. \A i \in 0..n : h[i] = IF i = 0 THEN v ELSE Mixed(h[i - 1], d, k, i)
    BY <1>4, <2>1
  <2>. QED
    BY <2>2
<1>7. Keeps(D, n, h)
  BY <1>6, MixedType DEF Keeps
<1>8. \A i \in 0..n : h[i] \in D
  <2>. HIDE DEF D
  <2>1. h[0] \in D
    BY <1>6 DEF D
  <2>. QED
    BY <1>7, <2>1, StaysIn
<1>. QED
  BY <1>5, <1>6, <1>8

\* What Unpass computes, word by word.
LEMMA UnpassRuns ==
  ASSUME NEW n \in Nat, NEW v \in Words(n), NEW d \in Word, NEW k, IsKey(k)
  PROVE  \E h : /\ h[0] = v /\ Unpass(v, d, k) = h[n]
                /\ \A i \in 0..n : h[i] \in Words(n)
                /\ \A i \in 1..n : h[i] = Unmixed(h[i - 1], d, k, n + 1 - i)
<1> DEFINE D == Words(n)
           step == [i \in 1..n |-> [w \in D |-> Unmixed(w, d, k, n + 1 - i)]]
           Body(f) == [p \in 0..n |-> IF p = 0 THEN v ELSE Unmixed(f[p - 1], d, k, n + 1 - p)]
           h == CHOOSE f : f = Body(f)
<1>1. step \in [1..n -> [D -> D]]
  <2>1. ASSUME NEW i \in 1..n, NEW w \in D PROVE Unmixed(w, d, k, n + 1 - i) \in D
    <3>1. n + 1 - i \in 1..n
      OBVIOUS
    <3>. QED
      BY <3>1, MixedType
  <2>. HIDE DEF D
  <2>. QED
    BY <2>1
<1>2. PICK f \in [0..n -> D] : Follows(f, n, v, step)
  <2>1. v \in D
    BY DEF D
  <2>. HIDE DEF step, D
  <2>. QED
    BY <1>1, <2>1, Recursion
<1>3. f = Body(f)
  <2>1. ASSUME NEW i \in 1..n PROVE step[i][f[i - 1]] = Unmixed(f[i - 1], d, k, n + 1 - i)
    <3>1. f[i - 1] \in D
      <4>1. i - 1 \in 0..n
        OBVIOUS
      <4>. HIDE DEF D
      <4>. QED
        BY <1>2, <4>1
    <3>. HIDE DEF D
    <3>. QED
      BY <3>1
  <2> DEFINE A(i) == IF i = 0 THEN v ELSE step[i][f[i - 1]]
             B(i) == IF i = 0 THEN v ELSE Unmixed(f[i - 1], d, k, n + 1 - i)
  <2>2. ASSUME NEW i \in 0..n PROVE A(i) = B(i)
    <3>1. i = 0 \/ i \in 1..n
      OBVIOUS
    <3>. HIDE DEF step, D
    <3>. QED
      BY <2>1, <3>1
  <2>3. f = [i \in 0..n |-> A(i)]
    BY <1>2 DEF Follows
  <2>4. [i \in 0..n |-> A(i)] = [i \in 0..n |-> B(i)]
    <3>. HIDE DEF A, B
    <3>. QED
      BY <2>2
  <2>. QED
    BY <2>3, <2>4
<1>4. h = Body(h)
  BY <1>3
<1>5. Unpass(v, d, k) = h[n]
  <2>1. Len(v) = n
    BY DEF Words
  <2>. QED
    BY <2>1 DEF Unpass
<1>. HIDE DEF h
<1>6. h[0] = v /\ \A i \in 1..n : h[i] = Unmixed(h[i - 1], d, k, n + 1 - i)
  <2>1. \A i \in 0..n : Body(h)[i] = IF i = 0 THEN v ELSE Unmixed(h[i - 1], d, k, n + 1 - i)
    OBVIOUS
  <2>. HIDE DEF Body
  <2>2. \A i \in 0..n : h[i] = IF i = 0 THEN v ELSE Unmixed(h[i - 1], d, k, n + 1 - i)
    BY <1>4, <2>1
  <2>. QED
    BY <2>2
<1>7. Keeps(D, n, h)
  <2>1. ASSUME NEW i \in 1..n, h[i - 1] \in D PROVE h[i] \in D
    <3>1. n + 1 - i \in 1..n
      OBVIOUS
    <3>2. Unmixed(h[i - 1], d, k, n + 1 - i) \in D
      BY <2>1, <3>1, MixedType
    <3>. QED
      BY <1>6, <3>2
  <2>. QED
    BY <2>1 DEF Keeps
<1>8. \A i \in 0..n : h[i] \in D
  <2>1. h[0] \in D
    BY <1>6
  <2>. HIDE DEF D
  <2>. QED
    BY <1>7, <2>1, StaysIn
<1>. QED
  BY <1>5, <1>6, <1>8

\* A pass undone, from the last word to the first.
LEMMA PassUndone ==
  ASSUME NEW n \in Nat, n >= 2, NEW v \in Words(n), NEW d \in Word, NEW k, IsKey(k)
  PROVE  Pass(v, d, k) \in Words(n) /\ Unpass(Pass(v, d, k), d, k) = v
<1> DEFINE u == Pass(v, d, k)
<1>1. PICK h : /\ h[0] = v /\ u = h[n]
               /\ \A i \in 0..n : h[i] \in Words(n)
               /\ \A i \in 1..n : h[i] = Mixed(h[i - 1], d, k, i)
  BY PassRuns
<1>2. u \in Words(n)
  BY <1>1
<1>. HIDE DEF u
<1>3. PICK g : /\ g[0] = u /\ Unpass(u, d, k) = g[n]
               /\ \A i \in 1..n : g[i] = Unmixed(g[i - 1], d, k, n + 1 - i)
  BY <1>2, UnpassRuns
<1>4. ASSUME NEW j \in 1..n, g[j - 1] = h[(n + 1) - j] PROVE g[j] = h[n - j]
  <2> DEFINE i == n + 1 - j
  <2>1. i = (n + 1) - j /\ i \in 1..n /\ i - 1 = n - j /\ n - j \in 0..n
    OBVIOUS
  <2>2. h[i] = Mixed(h[n - j], d, k, i) /\ h[n - j] \in Words(n)
    BY <1>1, <2>1
  <2>3. g[j] = Unmixed(h[i], d, k, i)
    BY <1>3, <1>4, <2>1
  <2>. HIDE DEF i
  <2>4. Unmixed(Mixed(h[n - j], d, k, i), d, k, i) = h[n - j]
    BY <2>1, <2>2, MixUndone
  <2>. QED
    BY <2>2, <2>3, <2>4
<1>5. Reverses(n, g, h)
  BY <1>4 DEF Reverses
<1>6. g[n] = h[0]
  BY <1>1, <1>3, <1>5, LeadsBack
<1>. QED
  BY <1>1, <1>2, <1>3, <1>6 DEF u

LEMMA UnpassType ==
  ASSUME NEW n \in Nat, NEW v \in Words(n), NEW d \in Word, NEW k, IsKey(k)
  PROVE  Unpass(v, d, k) \in Words(n)
<1>1. n \in 0..n
  OBVIOUS
<1>. QED
  BY <1>1, UnpassRuns

LEMMA Constants ==
  Zero \in Word /\ Delta \in Word
<1>1. Fits(0) /\ Fits(40503) /\ Fits(31161)
  BY DEF Fits
<1>. QED
  BY <1>1, WordOf DEF Zero, Delta

\* What Sum computes, addition by addition.
LEMMA SumRuns ==
  ASSUME NEW n \in Nat
  PROVE  \E h : /\ h[0] = Zero /\ Sum(n) = h[n]
                /\ \A i \in 0..n : h[i] \in Word
                /\ \A i \in 1..n : h[i] = Add(h[i - 1], Delta)
<1> DEFINE D == Word
           step == [i \in 1..n |-> [w \in D |-> Add(w, Delta)]]
           Body(f) == [q \in 0..n |-> IF q = 0 THEN Zero ELSE Add(f[q - 1], Delta)]
           h == CHOOSE f : f = Body(f)
<1>1. step \in [1..n -> [D -> D]]
  <2>1. ASSUME NEW i \in 1..n, NEW w \in D PROVE Add(w, Delta) \in D
    BY Constants, AddWords
  <2>. HIDE DEF D
  <2>. QED
    BY <2>1
<1>2. PICK f \in [0..n -> D] : Follows(f, n, Zero, step)
  <2>1. Zero \in D
    BY Constants
  <2>. HIDE DEF step, D
  <2>. QED
    BY <1>1, <2>1, Recursion
<1>3. f = Body(f)
  <2>1. ASSUME NEW i \in 1..n PROVE step[i][f[i - 1]] = Add(f[i - 1], Delta)
    <3>1. f[i - 1] \in D
      <4>1. i - 1 \in 0..n
        OBVIOUS
      <4>. HIDE DEF D
      <4>. QED
        BY <1>2, <4>1
    <3>. HIDE DEF D
    <3>. QED
      BY <3>1
  <2> DEFINE A(i) == IF i = 0 THEN Zero ELSE step[i][f[i - 1]]
             B(i) == IF i = 0 THEN Zero ELSE Add(f[i - 1], Delta)
  <2>2. ASSUME NEW i \in 0..n PROVE A(i) = B(i)
    <3>1. i = 0 \/ i \in 1..n
      OBVIOUS
    <3>. HIDE DEF step, D
    <3>. QED
      BY <2>1, <3>1
  <2>3. f = [i \in 0..n |-> A(i)]
    BY <1>2 DEF Follows
  <2>4. [i \in 0..n |-> A(i)] = [i \in 0..n |-> B(i)]
    <3>. HIDE DEF A, B
    <3>. QED
      BY <2>2
  <2>. QED
    BY <2>3, <2>4
<1>4. h = Body(h)
  BY <1>3
<1>5. Sum(n) = h[n]
  BY DEF Sum
<1>. HIDE DEF h
<1>6. h[0] = Zero /\ \A i \in 1..n : h[i] = Add(h[i - 1], Delta)
  <2>1. \A i \in 0..n : Body(h)[i] = IF i = 0 THEN Zero ELSE Add(h[i - 1], Delta)
    OBVIOUS
  <2>. HIDE DEF Body
  <2>2. \A i \in 0..n : h[i] = IF i = 0 THEN Zero ELSE Add(h[i - 1], Delta)
    BY <1>4, <2>1
  <2>. QED
    BY <2>2
<1>7. Keeps(D, n, h)
  <2>1. ASSUME NEW i \in 1..n, h[i - 1] \in D PROVE h[i] \in D
    BY <1>6, <2>1, Constants, AddWords
  <2>. QED
    BY <2>1 DEF Keeps
<1>8. \A i \in 0..n : h[i] \in D
  <2>1. h[0] \in D
    BY <1>6, Constants
  <2>. HIDE DEF D
  <2>. QED
    BY <1>7, <2>1, StaysIn
<1>. QED
  BY <1>5, <1>6, <1>8

LEMMA SumType ==
  ASSUME NEW n \in Nat
  PROVE  Sum(n) \in Word
<1>1. n \in 0..n
  OBVIOUS
<1>. QED
  BY <1>1, SumRuns

\* What Encipher computes, pass by pass.
LEMMA EncipherRuns ==
  ASSUME NEW n \in Nat, n >= 2, NEW v \in Words(n), NEW k, IsKey(k), NEW r \in Nat
  PROVE  \E h : /\ h[0] = v /\ Encipher(v, k, r) = h[r]
                /\ \A i \in 0..r : h[i] \in Words(n)
                /\ \A i \in 1..r : h[i] = Pass(h[i - 1], Sum(i), k)
<1> DEFINE D == Words(n)
           step == [i \in 1..r |-> [w \in D |-> Pass(w, Sum(i), k)]]
           Body(f) == [q \in 0..r |-> IF q = 0 THEN v ELSE Pass(f[q - 1], Sum(q), k)]
           h == CHOOSE f : f = Body(f)
<1>1. step \in [1..r -> [D -> D]]
  <2>1. ASSUME NEW i \in 1..r, NEW w \in D PROVE Pass(w, Sum(i), k) \in D
    BY SumType, PassUndone
  <2>. HIDE DEF D
  <2>. QED
    BY <2>1
<1>2. PICK f \in [0..r -> D] : Follows(f, r, v, step)
  <2>1. v \in D
    BY DEF D
  <2>. HIDE DEF step, D
  <2>. QED
    BY <1>1, <2>1, Recursion
<1>3. f = Body(f)
  <2>1. ASSUME NEW i \in 1..r PROVE step[i][f[i - 1]] = Pass(f[i - 1], Sum(i), k)
    <3>1. f[i - 1] \in D
      <4>1. i - 1 \in 0..r
        OBVIOUS
      <4>. HIDE DEF D
      <4>. QED
        BY <1>2, <4>1
    <3>. HIDE DEF D
    <3>. QED
      BY <3>1
  <2> DEFINE A(i) == IF i = 0 THEN v ELSE step[i][f[i - 1]]
             B(i) == IF i = 0 THEN v ELSE Pass(f[i - 1], Sum(i), k)
  <2>2. ASSUME NEW i \in 0..r PROVE A(i) = B(i)
    <3>1. i = 0 \/ i \in 1..r
      OBVIOUS
    <3>. HIDE DEF step, D
    <3>. QED
      BY <2>1, <3>1
  <2>3. f = [i \in 0..r |-> A(i)]
    BY <1>2 DEF Follows
  <2>4. [i \in 0..r |-> A(i)] = [i \in 0..r |-> B(i)]
    <3>. HIDE DEF A, B
    <3>. QED
      BY <2>2
  <2>. QED
    BY <2>3, <2>4
<1>4. h = Body(h)
  BY <1>3
<1>5. Encipher(v, k, r) = h[r]
  BY DEF Encipher
<1>. HIDE DEF h
<1>6. h[0] = v /\ \A i \in 1..r : h[i] = Pass(h[i - 1], Sum(i), k)
  <2>1. \A i \in 0..r : Body(h)[i] = IF i = 0 THEN v ELSE Pass(h[i - 1], Sum(i), k)
    OBVIOUS
  <2>. HIDE DEF Body
  <2>2. \A i \in 0..r : h[i] = IF i = 0 THEN v ELSE Pass(h[i - 1], Sum(i), k)
    BY <1>4, <2>1
  <2>. QED
    BY <2>2
<1>7. Keeps(D, r, h)
  <2>1. ASSUME NEW i \in 1..r, h[i - 1] \in D PROVE h[i] \in D
    <3>1. Pass(h[i - 1], Sum(i), k) \in D
      BY <2>1, SumType, PassUndone
    <3>. QED
      BY <1>6, <3>1
  <2>. QED
    BY <2>1 DEF Keeps
<1>8. \A i \in 0..r : h[i] \in D
  <2>1. h[0] \in D
    BY <1>6
  <2>. HIDE DEF D
  <2>. QED
    BY <1>7, <2>1, StaysIn
<1>. QED
  BY <1>5, <1>6, <1>8

\* What Decipher computes, pass by pass.
LEMMA DecipherRuns ==
  ASSUME NEW n \in Nat, n >= 2, NEW v \in Words(n), NEW k, IsKey(k), NEW r \in Nat
  PROVE  \E h : /\ h[0] = v /\ Decipher(v, k, r) = h[r]
                /\ \A i \in 0..r : h[i] \in Words(n)
                /\ \A i \in 1..r : h[i] = Unpass(h[i - 1], Sum(r + 1 - i), k)
<1> DEFINE D == Words(n)
           step == [i \in 1..r |-> [w \in D |-> Unpass(w, Sum(r + 1 - i), k)]]
           Body(f) == [q \in 0..r |-> IF q = 0 THEN v ELSE Unpass(f[q - 1], Sum(r + 1 - q), k)]
           h == CHOOSE f : f = Body(f)
<1>1. step \in [1..r -> [D -> D]]
  <2>1. ASSUME NEW i \in 1..r, NEW w \in D PROVE Unpass(w, Sum(r + 1 - i), k) \in D
    <3>1. r + 1 - i \in Nat
      OBVIOUS
    <3>. QED
      BY <3>1, SumType, UnpassType
  <2>. HIDE DEF D
  <2>. QED
    BY <2>1
<1>2. PICK f \in [0..r -> D] : Follows(f, r, v, step)
  <2>1. v \in D
    BY DEF D
  <2>. HIDE DEF step, D
  <2>. QED
    BY <1>1, <2>1, Recursion
<1>3. f = Body(f)
  <2>1. ASSUME NEW i \in 1..r PROVE step[i][f[i - 1]] = Unpass(f[i - 1], Sum(r + 1 - i), k)
    <3>1. f[i - 1] \in D
      <4>1. i - 1 \in 0..r
        OBVIOUS
      <4>. HIDE DEF D
      <4>. QED
        BY <1>2, <4>1
    <3>. HIDE DEF D
    <3>. QED
      BY <3>1
  <2> DEFINE A(i) == IF i = 0 THEN v ELSE step[i][f[i - 1]]
             B(i) == IF i = 0 THEN v ELSE Unpass(f[i - 1], Sum(r + 1 - i), k)
  <2>2. ASSUME NEW i \in 0..r PROVE A(i) = B(i)
    <3>1. i = 0 \/ i \in 1..r
      OBVIOUS
    <3>. HIDE DEF step, D
    <3>. QED
      BY <2>1, <3>1
  <2>3. f = [i \in 0..r |-> A(i)]
    BY <1>2 DEF Follows
  <2>4. [i \in 0..r |-> A(i)] = [i \in 0..r |-> B(i)]
    <3>. HIDE DEF A, B
    <3>. QED
      BY <2>2
  <2>. QED
    BY <2>3, <2>4
<1>4. h = Body(h)
  BY <1>3
<1>5. Decipher(v, k, r) = h[r]
  BY DEF Decipher
<1>. HIDE DEF h
<1>6. h[0] = v /\ \A i \in 1..r : h[i] = Unpass(h[i - 1], Sum(r + 1 - i), k)
  <2>1. \A i \in 0..r : Body(h)[i] = IF i = 0 THEN v ELSE Unpass(h[i - 1], Sum(r + 1 - i), k)
    OBVIOUS
  <2>. HIDE DEF Body
  <2>2. \A i \in 0..r : h[i] = IF i = 0 THEN v ELSE Unpass(h[i - 1], Sum(r + 1 - i), k)
    BY <1>4, <2>1
  <2>. QED
    BY <2>2
<1>7. Keeps(D, r, h)
  <2>1. ASSUME NEW i \in 1..r, h[i - 1] \in D PROVE h[i] \in D
    <3>1. r + 1 - i \in Nat
      OBVIOUS
    <3>2. Unpass(h[i - 1], Sum(r + 1 - i), k) \in D
      BY <2>1, <3>1, SumType, UnpassType
    <3>. QED
      BY <1>6, <3>2
  <2>. QED
    BY <2>1 DEF Keeps
<1>8. \A i \in 0..r : h[i] \in D
  <2>1. h[0] \in D
    BY <1>6
  <2>. HIDE DEF D
  <2>. QED
    BY <1>7, <2>1, StaysIn
<1>. QED
  BY <1>5, <1>6, <1>8

\* All passes undone, from the last to the first: the cipher of two words or
\* more can be read by who has the key.
LEMMA Deciphers ==
  ASSUME NEW n \in Nat, n >= 2, NEW v \in Words(n), NEW k, IsKey(k), NEW r \in Nat
  PROVE  Encipher(v, k, r) \in Words(n) /\ Decipher(Encipher(v, k, r), k, r) = v
<1> DEFINE u == Encipher(v, k, r)
<1>1. PICK h : /\ h[0] = v /\ u = h[r]
               /\ \A i \in 0..r : h[i] \in Words(n)
               /\ \A i \in 1..r : h[i] = Pass(h[i - 1], Sum(i), k)
  BY EncipherRuns
<1>2. u \in Words(n)
  BY <1>1
<1>. HIDE DEF u
<1>3. PICK g : /\ g[0] = u /\ Decipher(u, k, r) = g[r]
               /\ \A i \in 1..r : g[i] = Unpass(g[i - 1], Sum(r + 1 - i), k)
  BY <1>2, DecipherRuns
<1>4. ASSUME NEW j \in 1..r, g[j - 1] = h[(r + 1) - j] PROVE g[j] = h[r - j]
  <2> DEFINE i == r + 1 - j
  <2>1. i = (r + 1) - j /\ i \in 1..r /\ i \in Nat /\ i - 1 = r - j /\ r - j \in 0..r
    OBVIOUS
  <2>2. h[i] = Pass(h[r - j], Sum(i), k) /\ h[r - j] \in Words(n)
    BY <1>1, <2>1
  <2>3. g[j] = Unpass(h[i], Sum(i), k)
    BY <1>3, <1>4, <2>1
  <2>. HIDE DEF i
  <2>4. Unpass(Pass(h[r - j], Sum(i), k), Sum(i), k) = h[r - j]
    BY <2>1, <2>2, SumType, PassUndone
  <2>. QED
    BY <2>2, <2>3, <2>4
<1>5. Reverses(r, g, h)
  BY <1>4 DEF Reverses
<1>6. g[r] = h[0]
  BY <1>1, <1>3, <1>5, LeadsBack
<1>. QED
  BY <1>1, <1>2, <1>3, <1>6 DEF u

-----------------------------------------------------------------------------
(* Bytes and words. *)

\* Four bytes and the halves they make.
LEMMA Halves ==
  ASSUME NEW x, NEW y, FitsByte(x), FitsByte(y)
  PROVE  /\ Fits(x * 256 + y)
         /\ (x * 256 + y) % 256 = y /\ (x * 256 + y) \div 256 = x
BY DEF Fits, FitsByte

LEMMA HalfBytes ==
  ASSUME NEW x, Fits(x)
  PROVE  /\ FitsByte(x % 256) /\ FitsByte(x \div 256)
         /\ (x \div 256) * 256 + (x % 256) = x
BY DEF Fits, FitsByte

\* A byte of a text that is filled with zeros.
Filled(s, i) == IF i <= Len(s) THEN s[i] ELSE 0
WordAtPlace(s, w) ==
  <<Filled(s, 4 * w) * 256 + Filled(s, 4 * w - 1), Filled(s, 4 * w - 2) * 256 + Filled(s, 4 * w - 3)>>
Room(s) == (Len(s) + 3) \div 4

LEMMA FilledType ==
  ASSUME NEW s \in Seq(Byte), NEW i \in Nat, i # 0
  PROVE  FitsByte(Filled(s, i))
<1>1. Len(s) \in Nat
  BY LenProperties
<1>2. CASE i <= Len(s)
  <2>1. i \in 1..Len(s)
    BY <1>1, <1>2
  <2>2. s[i] \in Byte
    BY <2>1, ElementOfSeq
  <2>. QED
    BY <1>2, <2>2, ByteRange DEF Filled
<1>3. CASE ~(i <= Len(s))
  BY <1>3 DEF Filled, FitsByte
<1>. QED
  BY <1>2, <1>3

LEMMA PlacesFit ==
  ASSUME NEW s \in Seq(Byte), NEW w \in Nat, w # 0
  PROVE  /\ FitsByte(Filled(s, 4 * w)) /\ FitsByte(Filled(s, 4 * w - 1))
         /\ FitsByte(Filled(s, 4 * w - 2)) /\ FitsByte(Filled(s, 4 * w - 3))
<1>1. /\ 4 * w \in Nat /\ 4 * w # 0 /\ 4 * w - 1 \in Nat /\ 4 * w - 1 # 0
      /\ 4 * w - 2 \in Nat /\ 4 * w - 2 # 0 /\ 4 * w - 3 \in Nat /\ 4 * w - 3 # 0
  OBVIOUS
<1>. QED
  BY <1>1, FilledType

LEMMA PlaceType ==
  ASSUME NEW s \in Seq(Byte), NEW w \in Nat, w # 0
  PROVE  WordAtPlace(s, w) \in Word
BY PlacesFit, Halves, WordOf DEF WordAtPlace

LEMMA RoomFits ==
  ASSUME NEW s \in Seq(Byte)
  PROVE  /\ Len(s) \in Nat /\ Room(s) \in Nat
         /\ Len(s) <= 4 * Room(s) /\ 4 * Room(s) <= Len(s) + 3
         /\ (s # <<>> => Len(s) # 0 /\ Room(s) # 0)
<1>1. Len(s) \in Nat /\ (s # <<>> => Len(s) # 0)
  BY LenProperties, EmptySeq
<1>. QED
  BY <1>1 DEF Room

\* The words of a text.
LEMMA WordsOfText ==
  ASSUME NEW s \in Seq(Byte)
  PROVE  /\ StringToUint32(s, FALSE) \in Words(Room(s))
         /\ \A w \in 1..Room(s) : StringToUint32(s, FALSE)[w] = WordAtPlace(s, w)
<1> DEFINE t == [w \in 1..Room(s) |-> WordAtPlace(s, w)]
<1>1. StringToUint32(s, FALSE) = t
  BY DEF StringToUint32, Room, WordAtPlace, Filled
<1>2. Room(s) \in Nat
  BY RoomFits
<1>3. ASSUME NEW w \in 1..Room(s) PROVE WordAtPlace(s, w) \in Word
  BY PlaceType
<1>4. t \in Seq(Word) /\ Len(t) = Room(s) /\ \A w \in 1..Room(s) : t[w] = WordAtPlace(s, w)
  BY <1>2, <1>3
<1>. HIDE DEF t
<1>. QED
  BY <1>1, <1>4 DEF Words

\* The words of a text with its length.
LEMMA WordsAndLength ==
  ASSUME NEW s \in Seq(Byte)
  PROVE  /\ StringToUint32(s, TRUE) \in Words(Room(s) + 1)
         /\ \A w \in 1..Room(s) : StringToUint32(s, TRUE)[w] = WordAtPlace(s, w)
         /\ Last(StringToUint32(s, TRUE)) = LengthWord(Len(s))
<1> DEFINE t == StringToUint32(s, FALSE)
           u == StringToUint32(s, TRUE)
           l == LengthWord(Len(s))
<1>1. u = Append(t, l)
  BY DEF StringToUint32
<1>2. /\ t \in Seq(Word) /\ Len(t) = Room(s) /\ Room(s) \in Nat
      /\ \A w \in 1..Room(s) : t[w] = WordAtPlace(s, w)
  BY WordsOfText, RoomFits DEF Words
<1>3. l \in Word
  <2>1. Len(s) \in Int /\ Len(s) \div Half \in Int
    BY RoomFits, HalfMod
  <2>2. Fits(Len(s) % Half) /\ Fits((Len(s) \div Half) % Half)
    BY <2>1, HalfMod
  <2>. QED
    BY <2>2, WordOf DEF LengthWord
<1>. HIDE DEF t, l, u
<1>4. /\ u \in Seq(Word) /\ Len(u) = Room(s) + 1
      /\ \A w \in 1..Room(s) : u[w] = t[w]
      /\ u[Room(s) + 1] = l
  BY <1>1, <1>2, <1>3, AppendProperties
<1>5. Last(u) = l
  BY <1>4 DEF Last
<1>. QED
  BY <1>2, <1>4, <1>5 DEF Words, u, l

LEMMA KeyWordsType ==
  ASSUME NEW key \in Seq(Byte)
  PROVE  IsKey(KeyWords(key))
<1> DEFINE k == StringToUint32(key, FALSE)
           m == IF Len(k) < 4 THEN 4 ELSE Len(k)
           t == [i \in 1..m |-> IF i <= Len(k) THEN k[i] ELSE Zero]
<1>1. KeyWords(key) = t
  BY DEF KeyWords
<1>2. k \in Seq(Word) /\ Len(k) \in Nat
  BY WordsOfText, RoomFits DEF Words
<1>. HIDE DEF k
<1>3. m \in Nat /\ m >= 4
  BY <1>2
<1>. HIDE DEF m
<1>4. ASSUME NEW i \in 1..m PROVE (IF i <= Len(k) THEN k[i] ELSE Zero) \in Word
  <2>1. i <= Len(k) => i \in 1..Len(k)
    BY <1>2, <1>3
  <2>. QED
    BY <1>2, <2>1, ElementOfSeq, Constants
<1>5. t \in Seq(Word) /\ Len(t) = m
  BY <1>3, <1>4
<1>. HIDE DEF t
<1>. QED
  BY <1>1, <1>3, <1>5 DEF IsKey

\* The four bytes of a word.
LEMMA ByteOfType ==
  ASSUME NEW a \in Word, NEW i \in 0..3
  PROVE  ByteOf(a, i) \in Byte
<1>1. /\ FitsByte(a[1] % 256) /\ FitsByte(a[1] \div 256)
      /\ FitsByte(a[2] % 256) /\ FitsByte(a[2] \div 256)
  BY WordParts, HalfBytes
<1>2. i = 0 \/ i = 1 \/ i = 2 \/ i = 3
  OBVIOUS
<1>3. ByteOf(a, i) \in {a[1] % 256, a[1] \div 256, a[2] % 256, a[2] \div 256}
  BY <1>2 DEF ByteOf
<1>. QED
  BY <1>1, <1>3, ByteRange

LEMMA BytesOfWords ==
  ASSUME NEW n \in Nat, NEW v \in Words(n)
  PROVE  /\ Uint32ToBytes(v) \in Seq(Byte) /\ Len(Uint32ToBytes(v)) = 4 * n
         /\ \A j \in 1..(4 * n) : Uint32ToBytes(v)[j] = ByteOf(v[((j - 1) \div 4) + 1], (j - 1) % 4)
<1> DEFINE E(j) == ByteOf(v[((j - 1) \div 4) + 1], (j - 1) % 4)
           t == [j \in 1..(4 * n) |-> E(j)]
<1>1. Len(v) = n /\ 4 * n \in Nat
  BY DEF Words
<1>2. Uint32ToBytes(v) = t
  BY <1>1 DEF Uint32ToBytes
<1>3. ASSUME NEW j \in 1..(4 * n) PROVE E(j) \in Byte
  <2>1. ((j - 1) \div 4) + 1 \in 1..n /\ (j - 1) % 4 \in 0..3
    OBVIOUS
  <2>. QED
    BY <2>1, WordAt, ByteOfType
<1>. HIDE DEF E
<1>4. t \in Seq(Byte) /\ Len(t) = 4 * n /\ \A j \in 1..(4 * n) : t[j] = E(j)
  BY <1>1, <1>3
<1>. HIDE DEF t
<1>. QED
  BY <1>2, <1>4 DEF E

\* The bytes of words are read as these words.
LEMMA WordsAreRead ==
  ASSUME NEW n \in Nat, NEW v \in Words(n)
  PROVE  StringToUint32(Uint32ToBytes(v), FALSE) = v
<1> DEFINE s == Uint32ToBytes(v)
           u == StringToUint32(s, FALSE)
<1>1. s \in Seq(Byte) /\ Len(s) = 4 * n
      /\ \A j \in 1..(4 * n) : s[j] = ByteOf(v[((j - 1) \div 4) + 1], (j - 1) % 4)
  BY BytesOfWords
<1>2. Room(s) = n
  <2>. HIDE DEF s
  <2>. QED
    BY <1>1 DEF Room
<1>. HIDE DEF s
<1>3. u \in Words(n) /\ \A w \in 1..n : u[w] = WordAtPlace(s, w)
  BY <1>1, <1>2, WordsOfText
<1>. HIDE DEF u
<1>4. ASSUME NEW w \in 1..n PROVE WordAtPlace(s, w) = v[w]
  <2>1. /\ 4 * w \in 1..(4 * n) /\ 4 * w - 1 \in 1..(4 * n)
        /\ 4 * w - 2 \in 1..(4 * n) /\ 4 * w - 3 \in 1..(4 * n)
    OBVIOUS
  <2>2. /\ ((4 * w - 1) \div 4) + 1 = w /\ ((4 * w - 1 - 1) \div 4) + 1 = w
        /\ ((4 * w - 2 - 1) \div 4) + 1 = w /\ ((4 * w - 3 - 1) \div 4) + 1 = w
        /\ (4 * w - 1) % 4 = 3 /\ (4 * w - 1 - 1) % 4 = 2
        /\ (4 * w - 2 - 1) % 4 = 1 /\ (4 * w - 3 - 1) % 4 = 0
    OBVIOUS
  <2>3. /\ s[4 * w] = ByteOf(v[w], 3) /\ s[4 * w - 1] = ByteOf(v[w], 2)
        /\ s[4 * w - 2] = ByteOf(v[w], 1) /\ s[4 * w - 3] = ByteOf(v[w], 0)
    BY <1>1, <2>1, <2>2
  <2>4. /\ Filled(s, 4 * w) = v[w][1] \div 256 /\ Filled(s, 4 * w - 1) = v[w][1] % 256
        /\ Filled(s, 4 * w - 2) = v[w][2] \div 256 /\ Filled(s, 4 * w - 3) = v[w][2] % 256
    <3>1. /\ ByteOf(v[w], 3) = v[w][1] \div 256 /\ ByteOf(v[w], 2) = v[w][1] % 256
          /\ ByteOf(v[w], 1) = v[w][2] \div 256 /\ ByteOf(v[w], 0) = v[w][2] % 256
      BY DEF ByteOf
    <3>2. /\ 4 * w <= Len(s) /\ 4 * w - 1 <= Len(s) /\ 4 * w - 2 <= Len(s) /\ 4 * w - 3 <= Len(s)
      BY <1>1, <2>1
    <3>. QED
      BY <2>3, <3>1, <3>2 DEF Filled
  <2>5. v[w] \in Word
    BY WordAt
  <2>6. v[w] = <<v[w][1], v[w][2]>> /\ Fits(v[w][1]) /\ Fits(v[w][2])
    BY <2>5, WordParts
  <2>7. /\ (v[w][1] \div 256) * 256 + (v[w][1] % 256) = v[w][1]
        /\ (v[w][2] \div 256) * 256 + (v[w][2] % 256) = v[w][2]
    BY <2>6, HalfBytes
  <2>8. WordAtPlace(s, w) = <<v[w][1], v[w][2]>>
    BY <2>4, <2>7 DEF WordAtPlace
  <2>. QED
    BY <2>6, <2>8
<1>5. u = v
  <2>1. u \in Seq(Word) /\ v \in Seq(Word) /\ Len(u) = n /\ Len(v) = n
    BY <1>3 DEF Words
  <2>. QED
    BY <1>3, <1>4, <2>1, SeqEqual
<1>. QED
  BY <1>5 DEF u, s

\* The words of a text, taken apart, begin with the text.
LEMMA TextIsRead ==
  ASSUME NEW s \in Seq(Byte)
  PROVE  SubSeq(Uint32ToBytes(StringToUint32(s, TRUE)), 1, Len(s)) = s
<1> DEFINE v == StringToUint32(s, TRUE)
           t == Uint32ToBytes(v)
           n == Room(s) + 1
<1>1. /\ Len(s) \in Nat /\ Room(s) \in Nat /\ n \in Nat /\ Len(s) <= 4 * n
      /\ Len(s) <= 4 * Room(s)
  BY RoomFits
<1>2. v \in Words(n) /\ \A w \in 1..Room(s) : v[w] = WordAtPlace(s, w)
  BY WordsAndLength
<1>. HIDE DEF v
<1>3. t \in Seq(Byte) /\ Len(t) = 4 * n
      /\ \A j \in 1..(4 * n) : t[j] = ByteOf(v[((j - 1) \div 4) + 1], (j - 1) % 4)
  BY <1>1, <1>2, BytesOfWords
<1>. HIDE DEF t, n
<1>4. ASSUME NEW j \in 1..Len(s) PROVE t[j] = s[j]
  <2> DEFINE w == ((j - 1) \div 4) + 1
             r == (j - 1) % 4
  <2>1. w \in 1..Room(s) /\ w \in Nat /\ w # 0 /\ j \in 1..(4 * n)
    BY <1>1
  <2>2. \/ r = 0 /\ j = 4 * w - 3
        \/ r = 1 /\ j = 4 * w - 2
        \/ r = 2 /\ j = 4 * w - 1
        \/ r = 3 /\ j = 4 * w
    BY <1>1
  <2>3. t[j] = ByteOf(v[w], r) /\ v[w] = WordAtPlace(s, w)
    BY <1>2, <1>3, <2>1
  <2>. HIDE DEF w, r
  <2>4. Filled(s, j) = s[j]
    BY <1>1 DEF Filled
  <2>5. /\ ByteOf(v[w], 3) = v[w][1] \div 256 /\ ByteOf(v[w], 2) = v[w][1] % 256
        /\ ByteOf(v[w], 1) = v[w][2] \div 256 /\ ByteOf(v[w], 0) = v[w][2] % 256
    BY DEF ByteOf
  <2>6. /\ v[w][1] = Filled(s, 4 * w) * 256 + Filled(s, 4 * w - 1)
        /\ v[w][2] = Filled(s, 4 * w - 2) * 256 + Filled(s, 4 * w - 3)
    BY <2>3 DEF WordAtPlace
  <2>7. /\ ByteOf(v[w], 3) = Filled(s, 4 * w) /\ ByteOf(v[w], 2) = Filled(s, 4 * w - 1)
        /\ ByteOf(v[w], 1) = Filled(s, 4 * w - 2) /\ ByteOf(v[w], 0) = Filled(s, 4 * w - 3)
    BY <2>1, <2>5, <2>6, PlacesFit, Halves
  <2>. QED
    BY <2>2, <2>3, <2>4, <2>7
<1>5. SubSeq(t, 1, Len(s)) = s
  <2> DEFINE a == SubSeq(t, 1, Len(s))
  <2>1. a \in Seq(Byte) /\ Len(a) = Len(s) /\ \A i \in 1..Len(s) : a[i] = t[i]
    <3>1. \A i \in 1..Len(s) : t[i] \in Byte
      BY <1>4, ElementOfSeq
    <3>. QED
      BY <1>1, <1>3, <3>1, SubSeqProperties
  <2>. HIDE DEF a
  <2>2. a = s
    BY <1>4, <2>1, SeqEqual
  <2>. QED
    BY <2>2 DEF a
<1>. QED
  BY <1>5 DEF t, v

-----------------------------------------------------------------------------
(* The info field. *)

\* Lengths that are close to each other and look alike in a word are equal.
LEMMA LengthsDiffer ==
  ASSUME NEW m \in Nat, NEW n \in Nat, m <= n + 3, n <= m + 3, LengthWord(m) = LengthWord(n)
  PROVE  m = n
<1>1. m % Half = n % Half
  BY DEF LengthWord
<1>2. m % 65536 = n % 65536
  BY <1>1 DEF Half
<1>. QED
  BY <1>2

\* What XEncode makes of a text: the passes over the words of the text and of
\* its length, as bytes.
LEMMA XEncodeIs ==
  ASSUME NEW value \in Seq(Byte), value # <<>>, NEW key \in Seq(Byte)
  PROVE  LET n == Room(value) + 1
             v == StringToUint32(value, TRUE)
         IN /\ n \in Nat /\ n >= 2 /\ v \in Words(n)
            /\ Passes(n) = 6 + 52 \div n /\ Passes(n) \in Nat
            /\ XEncode(value, key) = Uint32ToBytes(Encipher(v, KeyWords(key), Passes(n)))
<1> DEFINE n == Room(value) + 1
           v == StringToUint32(value, TRUE)
<1>1. n \in Nat /\ n >= 2
  BY RoomFits
<1>2. v \in Words(n) /\ Len(v) = n
  BY WordsAndLength DEF Words
<1>3. Passes(n) = 6 + 52 \div n
  BY DEF Passes
<1>4. 6 + 52 \div n \in Nat
  <2>. HIDE DEF n
  <2>. QED
    BY <1>1
<1>5. XEncode(value, key) = Uint32ToBytes(Encipher(v, KeyWords(key), Passes(n)))
  BY <1>2 DEF XEncode
<1>. QED
  BY <1>1, <1>2, <1>3, <1>4, <1>5

\* The portal reads out of the info field the text that XEncode was given, for
\* every text and every token: what goes into the padding, the neighbours around
\* the ring, the running sum and the number of passes are the same on both sides.
THEOREM CodeIsRead ==
  ASSUME NEW value \in Seq(Byte), NEW key \in Seq(Byte)
  PROVE  PortalDecode(XEncode(value, key), key) = {value}
<1>1. CASE value = <<>>
  BY <1>1 DEF XEncode, PortalDecode
<1>2. CASE value # <<>>
  <2> DEFINE n == Room(value) + 1
             v == StringToUint32(value, TRUE)
             k == KeyWords(key)
             u == Encipher(v, k, Passes(n))
             code == XEncode(value, key)
             room == 4 * (n - 1)
             Fit == {l \in (room - 3)..room : l >= 0 /\ Last(v) = LengthWord(l)}
  <2>1. /\ n \in Nat /\ n >= 2 /\ v \in Words(n) /\ Passes(n) = 6 + 52 \div n /\ Passes(n) \in Nat
        /\ code = Uint32ToBytes(u)
    BY <1>2, XEncodeIs
  <2>2. IsKey(k)
    BY KeyWordsType
  <2>3. /\ Len(value) \in Nat /\ Room(value) \in Nat
        /\ Len(value) <= 4 * Room(value) /\ 4 * Room(value) <= Len(value) + 3
        /\ Last(v) = LengthWord(Len(value)) /\ room = 4 * Room(value)
    <3>1. Len(value) \in Nat /\ Room(value) \in Nat
          /\ Len(value) <= 4 * Room(value) /\ 4 * Room(value) <= Len(value) + 3
      BY RoomFits
    <3>2. Last(v) = LengthWord(Len(value))
      BY WordsAndLength
    <3>3. n - 1 = Room(value)
      BY <3>1
    <3>. QED
      BY <3>1, <3>2, <3>3
  <2>4. SubSeq(Uint32ToBytes(v), 1, Len(value)) = value
    BY TextIsRead
  <2>. HIDE DEF v, k, n
  <2>5. u \in Words(n) /\ Decipher(u, k, Passes(n)) = v
    BY <2>1, <2>2, Deciphers
  <2>. HIDE DEF u
  <2>6. StringToUint32(code, FALSE) = u
    BY <2>1, <2>5, WordsAreRead
  <2>7. code # <<>>
    <3>1. Len(Uint32ToBytes(u)) = 4 * n
      BY <2>1, <2>5, BytesOfWords
    <3>2. Len(code) # 0
      BY <2>1, <3>1
    <3>. QED
      BY <3>2
  <2>8. Fit = {Len(value)}
    <3>1. Len(value) \in Fit
      BY <2>3
    <3>2. ASSUME NEW l \in Fit PROVE l = Len(value)
      <4>1. l \in Int /\ room - 3 <= l /\ l <= room /\ l >= 0 /\ Last(v) = LengthWord(l)
        <5>1. room \in Int
          BY <2>1
        <5>. HIDE DEF room
        <5>. QED
          BY <5>1
      <4>2. l \in Nat /\ l <= Len(value) + 3 /\ Len(value) <= l + 3
        BY <2>3, <4>1
      <4>. QED
        BY <2>3, <4>1, <4>2, LengthsDiffer
    <3>. HIDE DEF Fit
    <3>. QED
      BY <3>1, <3>2
  <2>9. PortalDecode(code, key) = {SubSeq(Uint32ToBytes(v), 1, l) : l \in Fit}
    <3>1. Len(u) = n
      BY <2>5 DEF Words
    <3>2. Decipher(u, k, 6 + 52 \div n) = v
      BY <2>1, <2>5
    <3>. HIDE DEF code
    <3>. QED
      BY <2>6, <2>7, <3>1, <3>2 DEF PortalDecode, k
  <2>. HIDE DEF Fit
  <2>. QED
    BY <2>4, <2>8, <2>9
<1>. QED
  BY <1>1, <1>2

-----------------------------------------------------------------------------
(* Replies. *)

Chars == ReplyChars \cup {"cbrace"}

LEMMA MinIs ==
  ASSUME NEW I, I \subseteq Int, NEW i \in I, \A j \in I : i <= j
  PROVE  Min(I) = i
<1>1. \A x \in I : (\A y \in I : x =< y) => x = i
  OBVIOUS
<1>. QED
  BY <1>1 DEF Min

LEMMA MaxIs ==
  ASSUME NEW I, I \subseteq Int, NEW i \in I, \A j \in I : i >= j
  PROVE  Max(I) = i
<1>1. \A x \in I : (\A y \in I : x >= y) => x = i
  OBVIOUS
<1>. QED
  BY <1>1 DEF Max

LEMMA Greatest ==
  ASSUME NEW I, I \subseteq Nat, I # {}, NEW n \in Nat, \A i \in I : i <= n
  PROVE  \E j \in I : \A m \in I : j >= m
<1> DEFINE K == {m \in Nat : \A y \in I : y <= m}
<1>1. n \in K /\ K \subseteq Nat
  OBVIOUS
<1>2. PICK k \in K : \A m \in K : k <= m
  <2>. HIDE DEF K
  <2>. QED
    BY <1>1, Smallest
<1>3. ASSUME k \notin I PROVE FALSE
  <2>1. k \in Nat /\ \A y \in I : y <= k /\ y # k
    BY <1>2, <1>3
  <2>2. PICK y \in I : TRUE
    OBVIOUS
  <2>3. k - 1 \in Nat
    BY <2>1, <2>2
  <2>4. k - 1 \in K
    BY <2>1, <2>3
  <2>. QED
    BY <1>2, <2>1, <2>4
<1>. QED
  BY <1>2, <1>3

\* Joining pieces of a reply.
LEMMA CharsJoin ==
  ASSUME NEW x \in Seq(Chars), NEW y \in Seq(Chars)
  PROVE  /\ x \o y \in Seq(Chars) /\ Len(x \o y) = Len(x) + Len(y)
         /\ Len(x) \in Nat /\ Len(y) \in Nat
         /\ \A i \in 1..(Len(x) + Len(y)) : (x \o y)[i] = IF i <= Len(x) THEN x[i] ELSE y[i - Len(x)]
BY ConcatProperties, LenProperties

\* A text without the spaces around it.
LEMMA TrimIs ==
  ASSUME NEW text \in Seq(Chars), NEW a \in 1..Len(text), NEW b \in 1..Len(text),
         text[a] # "blank", text[b] # "blank",
         \A i \in 1..Len(text) : i < a \/ b < i => text[i] = "blank"
  PROVE  TrimSpace(text) = SubSeq(text, a, b)
<1> DEFINE I == {i \in 1..Len(text) : text[i] # "blank"}
<1>1. I \subseteq Int /\ a \in I /\ b \in I /\ \A i \in I : a <= i /\ i <= b
  BY LenProperties
<1>2. SelectInSeq(text, LAMBDA c : c # "blank") = IF I # {} THEN Min(I) ELSE 0
  BY DEF SelectInSeq
<1>3. SelectLastInSeq(text, LAMBDA c : c # "blank") = IF I # {} THEN Max(I) ELSE 0
  BY DEF SelectLastInSeq
<1>. HIDE DEF I
<1>4. Min(I) = a /\ Max(I) = b
  <2>1. \A j \in I : a <= j /\ b >= j
    BY <1>1
  <2>. QED
    BY <1>1, <2>1, MinIs, MaxIs
<1>5. a # 0 /\ I # {}
  BY <1>1
<1>. QED
  BY <1>2, <1>3, <1>4, <1>5 DEF TrimSpace

\* A text that is not all spaces, without the spaces around it.
LEMMA Trimmed ==
  ASSUME NEW body \in Seq(Chars), NEW c \in 1..Len(body), body[c] # "blank"
  PROVE  \E a, b \in 1..Len(body) :
           /\ a <= c /\ c <= b /\ body[a] # "blank" /\ body[b] # "blank"
           /\ \A i \in 1..Len(body) : i < a \/ b < i => body[i] = "blank"
           /\ TrimSpace(body) = SubSeq(body, a, b)
<1> DEFINE I == {i \in 1..Len(body) : body[i] # "blank"}
<1>1. Len(body) \in Nat
  BY LenProperties
<1>2. I \subseteq Nat /\ c \in I /\ \A i \in I : i <= Len(body)
  BY <1>1
<1>3. PICK a \in I : \A m \in I : a <= m
  <2>. HIDE DEF I
  <2>. QED
    BY <1>2, Smallest
<1>4. PICK b \in I : \A m \in I : b >= m
  <2>. HIDE DEF I
  <2>. QED
    BY <1>1, <1>2, Greatest
<1>5. /\ a \in 1..Len(body) /\ b \in 1..Len(body) /\ body[a] # "blank" /\ body[b] # "blank"
      /\ a <= c /\ c <= b
  BY <1>2, <1>3, <1>4
<1>6. ASSUME NEW i \in 1..Len(body), i < a \/ b < i PROVE body[i] = "blank"
  <2>1. i \in I => a <= i /\ i <= b
    BY <1>3, <1>4
  <2>. QED
    BY <1>1, <1>5, <1>6, <2>1
<1>7. TrimSpace(body) = SubSeq(body, a, b)
  BY <1>5, <1>6, TrimIs
<1>. QED
  BY <1>5, <1>6, <1>7

\* The characters of a part of a text.
LEMMA PartOf ==
  ASSUME NEW t \in Seq(Chars), NEW a \in Int, NEW b \in Int, 1 <= a, b <= Len(t), a <= b + 1
  PROVE  /\ SubSeq(t, a, b) \in Seq(Chars) /\ Len(SubSeq(t, a, b)) = b - a + 1
         /\ \A i \in 1..(b - a + 1) : a + i - 1 \in 1..Len(t) /\ SubSeq(t, a, b)[i] = t[a + i - 1]
<1>1. Len(t) \in Nat
  BY LenProperties
<1>2. \A i \in a..b : t[i] \in Chars
  <2>1. \A i \in a..b : i \in 1..Len(t)
    BY <1>1
  <2>. QED
    BY <2>1, ElementOfSeq
<1> DEFINE u == SubSeq(t, a, b)
<1>3. /\ u \in Seq(Chars) /\ Len(u) = IF a <= b THEN (b - a) + 1 ELSE 0
      /\ \A i \in 1..((b - a) + 1) : u[i] = t[(a + i) - 1]
  BY <1>2, SubSeqProperties
<1>. HIDE DEF u
<1>4. Len(u) = b - a + 1 /\ \A i \in 1..(b - a + 1) : (a + i) - 1 = a + i - 1 /\ a + i - 1 \in 1..Len(t)
  BY <1>1, <1>3
<1>5. \A i \in 1..(b - a + 1) : a + i - 1 \in 1..Len(t) /\ u[i] = t[a + i - 1]
  BY <1>3, <1>4
<1>. QED
  BY <1>3, <1>4, <1>5 DEF u

\* The argument of a callback stands between its outermost parentheses.
IsCall(text, a, b) ==
  /\ a \in 1..Len(text) /\ b \in 1..Len(text) /\ a < b
  /\ text[1] # "obrace" /\ text[a] = "(" /\ text[b] = ")"
  /\ \A i \in 1..Len(text) : (text[i] = "(" => a <= i) /\ (text[i] = ")" => i <= b)

LEMMA CallIs ==
  ASSUME NEW text \in Seq(Chars), NEW a, NEW b, IsCall(text, a, b), NEW body, TrimSpace(body) = text
  PROVE  UnwrapJSONP(body) = {SubSeq(text, a + 1, b - 1)}
<1> DEFINE I == {i \in 1..Len(text) : text[i] = "("}
           J == {i \in 1..Len(text) : text[i] = ")"}
<1>1. /\ I \subseteq Int /\ a \in I /\ \A i \in I : a <= i
      /\ J \subseteq Int /\ b \in J /\ \A i \in J : b >= i
  BY LenProperties DEF IsCall
<1>2. SelectInSeq(text, LAMBDA c : c = "(") = IF I # {} THEN Min(I) ELSE 0
  BY DEF SelectInSeq
<1>3. SelectLastInSeq(text, LAMBDA c : c = ")") = IF J # {} THEN Max(J) ELSE 0
  BY DEF SelectLastInSeq
<1>. HIDE DEF I, J
<1>4. Min(I) = a /\ Max(J) = b
  BY <1>1, MinIs, MaxIs
<1>5. I # {} /\ J # {} /\ a # 0 /\ ~(b <= a) /\ Head(text) = text[1] /\ text[1] # "obrace"
  BY <1>1 DEF IsCall
<1>. QED
  BY <1>2, <1>3, <1>4, <1>5 DEF UnwrapJSONP

\* A text in which no parenthesis that closes comes after one that opens.
LEMMA NoCall ==
  ASSUME NEW body, NEW text \in Seq(Chars), TrimSpace(body) = text,
         Len(text) # 0, text[1] # "obrace",
         \A i, j \in 1..Len(text) : text[i] = "(" /\ text[j] = ")" => j < i
  PROVE  UnwrapJSONP(body) = {}
<1> DEFINE I == {i \in 1..Len(text) : text[i] = "("}
           J == {i \in 1..Len(text) : text[i] = ")"}
           open == IF I # {} THEN Min(I) ELSE 0
           close == IF J # {} THEN Max(J) ELSE 0
<1>1. /\ I \subseteq Nat /\ J \subseteq Nat /\ I \subseteq Int /\ J \subseteq Int
      /\ \A i \in I, j \in J : j < i
  BY LenProperties
<1>2. SelectInSeq(text, LAMBDA c : c = "(") = open
  BY DEF SelectInSeq
<1>3. SelectLastInSeq(text, LAMBDA c : c = ")") = close
  BY DEF SelectLastInSeq
<1>. HIDE DEF I, J
<1>4. open = 0 \/ close <= open
  <2>1. CASE I = {}
    BY <2>1
  <2>2. CASE I # {} /\ J = {}
    <3>1. PICK i \in I : \A m \in I : i <= m
      BY <1>1, <2>2, Smallest
    <3>2. Min(I) = i
      BY <1>1, <3>1, MinIs
    <3>. QED
      BY <1>1, <2>2, <3>2
  <2>3. CASE I # {} /\ J # {}
    <3>1. PICK i \in I : \A m \in I : i <= m
      BY <1>1, <2>3, Smallest
    <3>2. Min(I) = i
      BY <1>1, <3>1, MinIs
    <3>3. PICK j \in J : \A m \in J : j >= m
      <4>1. \A y \in J : y <= i
        BY <1>1, <3>1
      <4>. QED
        BY <1>1, <2>3, <4>1, Greatest
    <3>4. Max(J) = j
      BY <1>1, <3>3, MaxIs
    <3>. QED
      BY <1>1, <2>3, <3>2, <3>4
  <2>. QED
    BY <2>1, <2>2, <2>3
<1>5. Head(text) = text[1]
  OBVIOUS
<1>. HIDE DEF open, close
<1>. QED
  BY <1>2, <1>3, <1>4, <1>5 DEF UnwrapJSONP

\* The text of a reply in braces.
Braced(inner) == <<"obrace">> \o inner \o <<"cbrace">>

LEMMA BracedIs ==
  ASSUME NEW inner \in Seq(Chars)
  PROVE  /\ Braced(inner) \in Seq(Chars) /\ Len(Braced(inner)) = Len(inner) + 2
         /\ Braced(inner)[1] = "obrace" /\ Braced(inner)[Len(inner) + 2] = "cbrace"
<1> DEFINE a == <<"obrace">>
           c == <<"cbrace">>
<1>1. a \in Seq(Chars) /\ c \in Seq(Chars) /\ Len(a) = 1 /\ Len(c) = 1 /\ a[1] = "obrace" /\ c[1] = "cbrace"
  BY DEF Chars, ReplyChars
<1>2. Len(inner) \in Nat
  BY LenProperties
<1>. HIDE DEF a, c
<1>3. /\ a \o inner \in Seq(Chars) /\ Len(a \o inner) = Len(inner) + 1
      /\ (a \o inner)[1] = "obrace"
  <2>1. 1 \in 1..(Len(a) + Len(inner)) /\ 1 <= Len(a)
    BY <1>1, <1>2
  <2>2. /\ a \o inner \in Seq(Chars) /\ Len(a \o inner) = Len(a) + Len(inner)
        /\ (a \o inner)[1] = a[1]
    BY <1>1, <2>1, CharsJoin
  <2>. QED
    BY <1>1, <1>2, <2>2
<1>4. /\ (a \o inner) \o c \in Seq(Chars) /\ Len((a \o inner) \o c) = Len(inner) + 2
      /\ ((a \o inner) \o c)[1] = "obrace" /\ ((a \o inner) \o c)[Len(inner) + 2] = "cbrace"
  <2> DEFINE b == a \o inner
  <2>1. b \in Seq(Chars) /\ Len(b) = Len(inner) + 1 /\ b[1] = "obrace"
    BY <1>3
  <2>. HIDE DEF b
  <2>2. /\ b \o c \in Seq(Chars) /\ Len(b \o c) = Len(b) + Len(c)
        /\ \A i \in 1..(Len(b) + Len(c)) : (b \o c)[i] = IF i <= Len(b) THEN b[i] ELSE c[i - Len(b)]
    BY <1>1, <2>1, CharsJoin
  <2>3. /\ 1 \in 1..Len(b) + Len(c) /\ 1 <= Len(b) /\ Len(inner) + 2 \in 1..Len(b) + Len(c)
        /\ ~(Len(inner) + 2 <= Len(b)) /\ (Len(inner) + 2) - Len(b) = 1
    BY <1>1, <1>2, <2>1
  <2>4. (b \o c)[1] = "obrace" /\ (b \o c)[Len(inner) + 2] = "cbrace"
    BY <1>1, <2>1, <2>2, <2>3
  <2>5. Len(b \o c) = Len(inner) + 2
    BY <1>1, <1>2, <2>1, <2>2
  <2>. QED
    BY <2>2, <2>4, <2>5 DEF b
<1>. QED
  BY <1>4 DEF Braced, a, c

\* Three pieces, by their places.
LEMMA Pieces ==
  ASSUME NEW a \in Seq(Chars), NEW b \in Seq(Chars), NEW c \in Seq(Chars)
  PROVE  /\ a \o b \o c \in Seq(Chars) /\ Len(a \o b \o c) = Len(a) + Len(b) + Len(c)
         /\ \A i \in 1..Len(a) : (a \o b \o c)[i] = a[i]
         /\ \A i \in 1..Len(b) : (a \o b \o c)[Len(a) + i] = b[i]
         /\ \A i \in 1..Len(c) : (a \o b \o c)[Len(a) + Len(b) + i] = c[i]
<1>0. Len(a) \in Nat /\ Len(b) \in Nat /\ Len(c) \in Nat
  BY LenProperties
<1> DEFINE d == a \o b
<1>1. /\ d \in Seq(Chars) /\ Len(d) = Len(a) + Len(b)
      /\ \A i \in 1..(Len(a) + Len(b)) : d[i] = IF i <= Len(a) THEN a[i] ELSE b[i - Len(a)]
  BY CharsJoin
<1>. HIDE DEF d
<1>2. /\ d \o c \in Seq(Chars) /\ Len(d \o c) = Len(d) + Len(c)
      /\ \A i \in 1..(Len(d) + Len(c)) : (d \o c)[i] = IF i <= Len(d) THEN d[i] ELSE c[i - Len(d)]
  BY <1>1, CharsJoin
<1>3. ASSUME NEW i \in 1..Len(a) PROVE (d \o c)[i] = a[i]
  <2>1. i \in 1..Len(a) + Len(b) /\ i \in 1..Len(d) + Len(c) /\ i <= Len(d) /\ i <= Len(a)
    BY <1>0, <1>1
  <2>. QED
    BY <1>1, <1>2, <2>1
<1>4. ASSUME NEW i \in 1..Len(b) PROVE (d \o c)[Len(a) + i] = b[i]
  <2>1. /\ Len(a) + i \in 1..Len(a) + Len(b) /\ Len(a) + i \in 1..Len(d) + Len(c)
        /\ Len(a) + i <= Len(d) /\ ~(Len(a) + i <= Len(a)) /\ (Len(a) + i) - Len(a) = i
    BY <1>0, <1>1
  <2>2. (d \o c)[Len(a) + i] = d[Len(a) + i]
    BY <1>2, <2>1
  <2>3. d[Len(a) + i] = b[(Len(a) + i) - Len(a)]
    BY <1>1, <2>1
  <2>. QED
    BY <2>1, <2>2, <2>3
<1>5. ASSUME NEW i \in 1..Len(c) PROVE (d \o c)[Len(a) + Len(b) + i] = c[i]
  <2> DEFINE k == Len(a) + Len(b) + i
  <2>1. k \in 1..Len(d) + Len(c) /\ ~(k <= Len(d)) /\ k - Len(d) = i
    BY <1>0, <1>1
  <2>. HIDE DEF k
  <2>2. (d \o c)[k] = c[k - Len(d)]
    BY <1>2, <2>1
  <2>. QED
    BY <2>1, <2>2 DEF k
<1>. QED
  BY <1>0, <1>1, <1>2, <1>3, <1>4, <1>5 DEF d

LEMMA PiecesOf ==
  \A a, b, c \in Seq(Chars) :
    /\ a \o b \o c \in Seq(Chars) /\ Len(a \o b \o c) = Len(a) + Len(b) + Len(c)
    /\ \A i \in 1..Len(a) : (a \o b \o c)[i] = a[i]
    /\ \A i \in 1..Len(b) : (a \o b \o c)[Len(a) + i] = b[i]
    /\ \A i \in 1..Len(c) : (a \o b \o c)[Len(a) + Len(b) + i] = c[i]
BY Pieces

LEMMA CharsRegrouped ==
  ASSUME NEW x \in Seq(Chars), NEW y \in Seq(Chars), NEW z \in Seq(Chars)
  PROVE  (x \o y) \o z = x \o (y \o z)
BY ConcatAssociative

\* A part of a text that is a text by itself.
LEMMA PartIs ==
  ASSUME NEW t \in Seq(Chars), NEW s \in Seq(Chars), NEW a \in Nat, a + Len(s) <= Len(t),
         \A i \in 1..Len(s) : t[a + i] = s[i]
  PROVE  SubSeq(t, a + 1, a + Len(s)) = s
<1> DEFINE u == SubSeq(t, a + 1, a + Len(s))
<1>1. Len(s) \in Nat
  BY LenProperties
<1>2. ASSUME NEW i \in (a + 1)..(a + Len(s)) PROVE t[i] \in Chars
  <2>1. i \in 1..Len(t)
    BY <1>1
  <2>. QED
    BY <2>1, ElementOfSeq
<1>3. /\ u \in Seq(Chars) /\ Len(u) = Len(s)
      /\ \A i \in 1..Len(s) : u[i] = t[a + i]
  <2> DEFINE m == a + 1
             n == a + Len(s)
  <2>1. m \in Int /\ n \in Int /\ (n - m) + 1 = Len(s) /\ \A i \in 1..Len(s) : (m + i) - 1 = a + i
    BY <1>1
  <2>2. /\ u \in Seq(Chars)
        /\ Len(u) = IF m <= n THEN (n - m) + 1 ELSE 0
        /\ \A i \in 1..((n - m) + 1) : u[i] = t[(m + i) - 1]
    <3>. HIDE DEF m, n
    <3>. QED
      BY <1>2, <2>1, SubSeqProperties DEF m, n
  <2>3. Len(u) = Len(s)
    BY <1>1, <2>2
  <2>. HIDE DEF u, m, n
  <2>. QED
    BY <2>1, <2>2, <2>3
<1>. HIDE DEF u
<1>4. u = s
  BY <1>3, SeqEqual
<1>. QED
  BY <1>4 DEF u

\* A reply that is JSON, with spaces around it.
LEMMA PlainReply ==
  ASSUME NEW inner \in Seq(Chars)
  PROVE  UnwrapJSONP(<<"blank">> \o Braced(inner) \o <<"blank">>) = {Braced(inner)}
<1> DEFINE json == Braced(inner)
           n == Len(inner) + 2
           blank == <<"blank">>
           body == blank \o json \o blank
<1>1. /\ json \in Seq(Chars) /\ Len(json) = n /\ json[1] = "obrace" /\ json[n] = "cbrace"
      /\ n \in Nat /\ n >= 2
  BY BracedIs, LenProperties
<1>. HIDE DEF json, n
<1>2. blank \in Seq(Chars) /\ Len(blank) = 1 /\ blank[1] = "blank"
  BY DEF Chars, ReplyChars
<1>. HIDE DEF blank
<1>3. /\ body \in Seq(Chars) /\ Len(body) = n + 2
      /\ body[1] = "blank" /\ body[n + 2] = "blank"
      /\ \A i \in 1..n : body[1 + i] = json[i]
  <2>1. /\ body \in Seq(Chars) /\ Len(body) = 1 + n + 1
        /\ \A i \in 1..1 : body[i] = blank[i]
        /\ \A i \in 1..n : body[1 + i] = json[i]
        /\ \A i \in 1..1 : body[1 + n + i] = blank[i]
    <3>1. /\ body \in Seq(Chars) /\ Len(body) = Len(blank) + Len(json) + Len(blank)
          /\ \A i \in 1..Len(blank) : body[i] = blank[i]
          /\ \A i \in 1..Len(json) : body[Len(blank) + i] = json[i]
          /\ \A i \in 1..Len(blank) : body[Len(blank) + Len(json) + i] = blank[i]
      BY <1>1, <1>2, Pieces
    <3>. HIDE DEF body
    <3>. QED
      BY <1>1, <1>2, <3>1
  <2>2. 1 \in 1..1 /\ 1 + n + 1 = n + 2
    BY <1>1
  <2>3. body[1] = blank[1] /\ body[1 + n + 1] = blank[1]
    BY <2>1, <2>2
  <2>. HIDE DEF body
  <2>. QED
    BY <1>2, <2>1, <2>2, <2>3
<1>. HIDE DEF body
<1>4. TrimSpace(body) = SubSeq(body, 2, n + 1)
  <2>1. 2 \in 1..Len(body) /\ n + 1 \in 1..Len(body)
    BY <1>1, <1>3
  <2>2. 1 \in 1..n /\ n \in 1..n /\ 1 + 1 = 2 /\ 1 + n = n + 1
    BY <1>1
  <2>3. body[2] = "obrace" /\ body[n + 1] = "cbrace"
    BY <1>1, <1>3, <2>2
  <2>4. ASSUME NEW i \in 1..Len(body), i < 2 \/ n + 1 < i PROVE body[i] = "blank"
    <3>1. i = 1 \/ i = n + 2
      BY <1>1, <1>3, <2>4
    <3>. QED
      BY <1>3, <3>1
  <2>5. body[2] # "blank" /\ body[n + 1] # "blank"
    BY <2>3
  <2>. QED
    BY <1>3, <2>1, <2>4, <2>5, TrimIs
<1>5. SubSeq(body, 2, n + 1) = json
  <2>1. SubSeq(body, 1 + 1, 1 + Len(json)) = json
    <3>1. 1 + Len(json) <= Len(body) /\ 1 \in Nat
      BY <1>1, <1>3
    <3>. QED
      BY <1>1, <1>3, <3>1, PartIs
  <2>2. 1 + 1 = 2 /\ 1 + Len(json) = n + 1
    BY <1>1
  <2>. QED
    BY <2>1, <2>2
<1>6. json # <<>> /\ Head(json) = "obrace"
  BY <1>1
<1>7. UnwrapJSONP(body) = {json}
  BY <1>4, <1>5, <1>6 DEF UnwrapJSONP
<1>. QED
  BY <1>7 DEF body, json, blank

\* A reply that calls back: before the call stands no opening parenthesis and no
\* brace in front, after it no closing parenthesis.
LEMMA CallingReply ==
  ASSUME NEW before \in Seq(Chars), NEW argument \in Seq(Chars), NEW after \in Seq(Chars),
         Lacks(before, "("), ~Bare(before), Lacks(after, ")")
  PROVE  UnwrapJSONP(before \o <<"(">> \o argument \o <<")">> \o after) = {argument}
<1> DEFINE l == Len(before)
           n == Len(argument)
           r == Len(after)
           left == before \o <<"(">>
           right == <<")">> \o after
           body == left \o argument \o right
<1>1. l \in Nat /\ n \in Nat /\ r \in Nat
  BY LenProperties
<1>2. /\ left \in Seq(Chars) /\ Len(left) = l + 1
      /\ \A i \in 1..(l + 1) : left[i] = IF i <= l THEN before[i] ELSE "("
  <2> DEFINE o == <<"(">>
  <2>1. o \in Seq(Chars) /\ Len(o) = 1 /\ o[1] = "("
    BY DEF Chars, ReplyChars
  <2>. HIDE DEF o
  <2>2. /\ before \o o \in Seq(Chars) /\ Len(before \o o) = l + 1
        /\ \A i \in 1..(l + 1) : (before \o o)[i] = IF i <= l THEN before[i] ELSE o[i - l]
    <3>1. /\ before \o o \in Seq(Chars) /\ Len(before \o o) = Len(before) + Len(o)
          /\ \A i \in 1..(Len(before) + Len(o)) :
               (before \o o)[i] = IF i <= Len(before) THEN before[i] ELSE o[i - Len(before)]
      BY <2>1, CharsJoin
    <3>. QED
      BY <2>1, <3>1
  <2>3. \A i \in 1..(l + 1) : ~(i <= l) => i - l = 1
    BY <1>1
  <2>4. \A i \in 1..(l + 1) : (before \o o)[i] = IF i <= l THEN before[i] ELSE "("
    BY <2>1, <2>2, <2>3
  <2>. QED
    BY <2>2, <2>4 DEF o
<1>3. /\ right \in Seq(Chars) /\ Len(right) = r + 1 /\ right[1] = ")"
      /\ \A i \in 2..(r + 1) : i - 1 \in 1..r /\ right[i] = after[i - 1]
  <2> DEFINE o == <<")">>
  <2>1. o \in Seq(Chars) /\ Len(o) = 1 /\ o[1] = ")"
    BY DEF Chars, ReplyChars
  <2>. HIDE DEF o
  <2>2. /\ o \o after \in Seq(Chars) /\ Len(o \o after) = 1 + r
        /\ \A i \in 1..(1 + r) : (o \o after)[i] = IF i <= 1 THEN o[i] ELSE after[i - 1]
    <3>1. /\ o \o after \in Seq(Chars) /\ Len(o \o after) = Len(o) + Len(after)
          /\ \A i \in 1..(Len(o) + Len(after)) :
               (o \o after)[i] = IF i <= Len(o) THEN o[i] ELSE after[i - Len(o)]
      BY <2>1, CharsJoin
    <3>. QED
      BY <2>1, <3>1
  <2>3. /\ 1 + r = r + 1 /\ 1 \in 1..(1 + r) /\ 1 <= 1
        /\ \A i \in 2..(r + 1) : i \in 1..(1 + r) /\ ~(i <= 1) /\ i - 1 \in 1..r
    BY <1>1
  <2>4. (o \o after)[1] = ")" /\ \A i \in 2..(r + 1) : (o \o after)[i] = after[i - 1]
    BY <2>1, <2>2, <2>3
  <2>. QED
    BY <2>2, <2>3, <2>4 DEF o
<1>. HIDE DEF left, right
<1> DEFINE p == l + 1
           q == l + n + 2
<1>4. /\ body \in Seq(Chars) /\ Len(body) = l + n + r + 2
      /\ \A i \in 1..(l + 1) : body[i] = left[i]
      /\ \A i \in 1..n : body[p + i] = argument[i]
      /\ \A i \in 1..(r + 1) : body[(l + n + 1) + i] = right[i]
  <2>1. /\ body \in Seq(Chars) /\ Len(body) = Len(left) + Len(argument) + Len(right)
        /\ \A i \in 1..Len(left) : body[i] = left[i]
        /\ \A i \in 1..Len(argument) : body[Len(left) + i] = argument[i]
        /\ \A i \in 1..Len(right) : body[Len(left) + Len(argument) + i] = right[i]
    <3>1. left \in Seq(Chars) /\ right \in Seq(Chars)
      BY <1>2, <1>3
    <3>. HIDE DEF l, n, r, p, q
    <3>. QED
      BY <3>1, PiecesOf
  <2>2. /\ Len(left) + Len(argument) + Len(right) = l + n + r + 2
        /\ Len(left) + Len(argument) = l + n + 1
    BY <1>1, <1>2, <1>3
  <2>. HIDE DEF body
  <2>. QED
    BY <1>2, <1>3, <2>1, <2>2
<1>. HIDE DEF body
<1>5. /\ p \in 1..Len(body) /\ q \in 1..Len(body) /\ p < q
      /\ body[p] = "(" /\ body[q] = ")"
  <2>1. p \in 1..(l + 1) /\ ~(p <= l) /\ 1 \in 1..(r + 1) /\ (l + n + 1) + 1 = q
    BY <1>1
  <2>2. body[p] = left[p] /\ body[q] = right[1]
    BY <1>4, <2>1
  <2>3. left[p] = "("
    BY <1>2, <2>1
  <2>. QED
    BY <1>1, <1>3, <1>4, <2>2, <2>3
<1>6. ASSUME NEW i \in 1..Len(body)
      PROVE  /\ i < p => i \in 1..l /\ body[i] = before[i]
             /\ body[i] = "(" => p <= i
             /\ body[i] = ")" => i <= q
  <2>1. i < p => i \in 1..l /\ body[i] = before[i]
    <3>. SUFFICES ASSUME i < p PROVE i \in 1..l /\ body[i] = before[i]
      OBVIOUS
    <3>1. i \in 1..l /\ i \in 1..(l + 1) /\ i <= l
      BY <1>1, <1>4
    <3>2. body[i] = left[i]
      BY <1>4, <3>1
    <3>3. left[i] = before[i]
      BY <1>2, <3>1
    <3>. QED
      BY <3>1, <3>2, <3>3
  <2>2. body[i] = "(" => p <= i
    <3>1. \A k \in 1..l : before[k] # "("
      BY LenProperties DEF Lacks
    <3>2. p <= i \/ i < p
      BY <1>1
    <3>. QED
      BY <2>1, <3>1, <3>2
  <2>3. ASSUME body[i] = ")", ~(i <= q) PROVE FALSE
    <3> DEFINE k == i - (l + n + 1)
    <3>1. k \in 2..(r + 1) /\ k \in 1..(r + 1) /\ (l + n + 1) + k = i
      BY <1>1, <1>4, <2>3
    <3>. HIDE DEF k
    <3>2. body[i] = right[k]
      BY <1>4, <3>1
    <3>3. k - 1 \in 1..r /\ right[k] = after[k - 1]
      BY <1>3, <3>1
    <3>4. after[k - 1] # ")"
      BY <3>3, LenProperties DEF Lacks
    <3>. QED
      BY <2>3, <3>2, <3>3, <3>4
  <2>. QED
    BY <2>1, <2>2, <2>3
<1>7. PICK a, b \in 1..Len(body) :
        /\ a <= p /\ p <= b /\ body[a] # "blank" /\ body[b] # "blank"
        /\ \A i \in 1..Len(body) : i < a \/ b < i => body[i] = "blank"
        /\ TrimSpace(body) = SubSeq(body, a, b)
  BY <1>4, <1>5, Trimmed
<1>8. q <= b
  <2>1. b < q => body[q] = "blank"
    BY <1>5, <1>7
  <2>. QED
    BY <1>1, <1>4, <1>5, <1>7, <2>1
<1>9. body[a] # "obrace"
  <2>1. CASE a = p
    BY <1>5, <2>1
  <2>2. CASE a < p
    <3>1. a \in 1..l /\ body[a] = before[a]
      BY <1>6, <1>7, <2>2
    <3>2. ASSUME NEW k \in 1..(a - 1) PROVE before[k] = "blank"
      <4>1. k \in 1..Len(body) /\ k < a /\ k < p
        BY <1>1, <1>4, <1>7, <3>1, <3>2
      <4>2. body[k] = "blank" /\ body[k] = before[k]
        BY <1>6, <1>7, <4>1
      <4>. QED
        BY <4>2
    <3>3. a \in DOMAIN before
      BY <3>1, LenProperties
    <3>. QED
      BY <3>1, <3>2, <3>3 DEF Bare
  <2>. QED
    BY <1>1, <1>7, <2>1, <2>2
<1> DEFINE text == SubSeq(body, a, b)
           x == (p - a) + 1
           y == (q - a) + 1
<1>10. /\ text \in Seq(Chars) /\ Len(text) = b - a + 1
       /\ \A i \in 1..(b - a + 1) : a + i - 1 \in 1..Len(body) /\ text[i] = body[a + i - 1]
  <2>1. a \in Int /\ b \in Int /\ 1 <= a /\ b <= Len(body) /\ a <= b + 1
    BY <1>1, <1>4, <1>7
  <2>. QED
    BY <1>4, <2>1, PartOf
<1>. HIDE DEF text
<1>10a. /\ a \in Int /\ b \in Int /\ 1 <= a /\ a <= l + 1 /\ l + n + 2 <= b
       /\ Len(text) = b - a + 1
  BY <1>1, <1>4, <1>7, <1>8, <1>10
<1>11. IsCall(text, x, y)
  <2>1. /\ x \in 1..Len(text) /\ y \in 1..Len(text) /\ x < y /\ 1 \in 1..(b - a + 1)
        /\ a + x - 1 = p /\ a + y - 1 = q /\ a + 1 - 1 = a
    <3>. HIDE DEF l, n
    <3>. QED
      BY <1>1, <1>10a
  <2>2. text[x] = "(" /\ text[y] = ")" /\ text[1] # "obrace"
    <3>1. text[x] = body[p] /\ text[y] = body[q] /\ text[1] = body[a]
      <4>. HIDE DEF x, y
      <4>. QED
        BY <1>10, <2>1
    <3>. QED
      BY <1>5, <1>9, <3>1
  <2>3. ASSUME NEW i \in 1..Len(text) PROVE (text[i] = "(" => x <= i) /\ (text[i] = ")" => i <= y)
    <3> DEFINE k == a + i - 1
    <3>1. k \in 1..Len(body) /\ text[i] = body[k]
      BY <1>10
    <3>2. (p <= k => x <= i) /\ (k <= q => i <= y)
      BY <1>1, <1>4, <1>7, <1>10
    <3>. HIDE DEF k, x, y
    <3>3. (body[k] = "(" => p <= k) /\ (body[k] = ")" => k <= q)
      BY <1>6, <3>1
    <3>. QED
      BY <3>1, <3>2, <3>3
  <2>. HIDE DEF x, y
  <2>. QED
    BY <2>1, <2>2, <2>3 DEF IsCall
<1>12. UnwrapJSONP(body) = {SubSeq(text, x + 1, y - 1)}
  <2>1. TrimSpace(body) = text
    BY <1>7 DEF text
  <2>. HIDE DEF x, y
  <2>. QED
    BY <1>10, <1>11, <2>1, CallIs
<1>13. SubSeq(text, x + 1, y - 1) = argument
  <2>1. x \in Nat /\ x + n <= Len(text) /\ y - 1 = x + n
    <3>. HIDE DEF l, n
    <3>. QED
      BY <1>1, <1>10a
  <2>2. ASSUME NEW i \in 1..n PROVE text[x + i] = argument[i]
    <3>1. x + i \in 1..(b - a + 1) /\ a + (x + i) - 1 = p + i
      <4>. HIDE DEF l, n
      <4>. QED
        BY <1>1, <1>10a
    <3>2. text[x + i] = body[p + i]
      <4>. HIDE DEF x
      <4>. QED
        BY <1>10, <3>1
    <3>. QED
      BY <1>4, <3>2
  <2>3. SubSeq(text, x + 1, x + n) = argument
    <3>. HIDE DEF x
    <3>. QED
      BY <1>10, <2>1, <2>2, PartIs
  <2>. QED
    BY <2>1, <2>3
<1>14. body = before \o <<"(">> \o argument \o <<")">> \o after
  <2> DEFINE o == <<"(">>
             c == <<")">>
             u == before \o o \o argument
  <2>1. o \in Seq(Chars) /\ c \in Seq(Chars)
    BY DEF Chars, ReplyChars
  <2>2. u \in Seq(Chars)
    BY <2>1, Pieces
  <2>. HIDE DEF o, c, u
  <2>3. u \o (c \o after) = (u \o c) \o after
    <3>. HIDE DEF l, n, r, x, y
    <3>. QED
      BY <2>1, <2>2, CharsRegrouped
  <2>. QED
    BY <2>3 DEF o, c, u, body, left, right
<1>. QED
  BY <1>12, <1>13, <1>14

\* A reply of neither form.
LEMMA OtherReply ==
  ASSUME NEW body \in Seq(Chars), ~Bare(body),
         \A i, j \in 1..Len(body) : body[i] = "(" /\ body[j] = ")" => j < i
  PROVE  UnwrapJSONP(body) = {}
<1>1. Len(body) \in Nat /\ DOMAIN body = 1..Len(body)
  BY LenProperties
<1>2. CASE \E c \in 1..Len(body) : body[c] # "blank"
  <2>1. PICK a, b \in 1..Len(body) :
          /\ a <= b /\ body[a] # "blank"
          /\ \A i \in 1..Len(body) : i < a \/ b < i => body[i] = "blank"
          /\ TrimSpace(body) = SubSeq(body, a, b)
    <3>1. PICK c \in 1..Len(body) : body[c] # "blank"
      BY <1>2
    <3>2. PICK a, b \in 1..Len(body) :
            /\ a <= c /\ c <= b /\ body[a] # "blank" /\ body[b] # "blank"
            /\ \A i \in 1..Len(body) : i < a \/ b < i => body[i] = "blank"
            /\ TrimSpace(body) = SubSeq(body, a, b)
      BY <3>1, Trimmed
    <3>3. a <= b
      BY <1>1, <3>2
    <3>. QED
      BY <3>2, <3>3
  <2> DEFINE text == SubSeq(body, a, b)
  <2>2. body[a] # "obrace"
    <3>1. \A k \in 1..(a - 1) : k \in 1..Len(body) /\ k < a
      BY <1>1
    <3>. QED
      BY <1>1, <2>1, <3>1 DEF Bare
  <2>3. /\ text \in Seq(Chars) /\ Len(text) = b - a + 1
        /\ \A i \in 1..(b - a + 1) : a + i - 1 \in 1..Len(body) /\ text[i] = body[a + i - 1]
    <3>1. a \in Int /\ b \in Int /\ 1 <= a /\ b <= Len(body) /\ a <= b + 1
      BY <1>1, <2>1
    <3>. QED
      BY <3>1, PartOf
  <2>. HIDE DEF text
  <2>4. Len(text) # 0 /\ text[1] # "obrace"
    <3>1. 1 \in 1..(b - a + 1) /\ a + 1 - 1 = a /\ b - a + 1 # 0
      BY <1>1, <2>1
    <3>. QED
      BY <2>2, <2>3, <3>1
  <2>5. ASSUME NEW i \in 1..Len(text), NEW j \in 1..Len(text), text[i] = "(", text[j] = ")"
        PROVE  j < i
    <3>1. a + j - 1 < a + i - 1
      BY <2>3, <2>5
    <3>. QED
      BY <1>1, <2>3, <3>1
  <2>. QED
    BY <2>1, <2>3, <2>4, <2>5, NoCall DEF text
<1>3. CASE \A c \in 1..Len(body) : body[c] = "blank"
  <2> DEFINE empty == TrimSpace(body)
  <2>1. SelectInSeq(body, LAMBDA c : c # "blank") = 0
    BY <1>3 DEF SelectInSeq
  <2>2. empty = <<>>
    BY <2>1 DEF TrimSpace
  <2>3. SelectInSeq(<<>>, LAMBDA c : c = "(") = 0
    BY DEF SelectInSeq
  <2>. QED
    BY <2>2, <2>3 DEF UnwrapJSONP
<1>. QED
  BY <1>2, <1>3

-----------------------------------------------------------------------------
(* The inputs that are typed. *)

Typed ==
  /\ kind = "password" => data \in Seq(PasswordBytes)
  /\ kind = "reply" => data \in Seq(ReplyChars)
  /\ kind = "arguments" => data \in Seq(ArgumentChars)

LEMMA InputsAreTyped == Spec => []Typed
<1>1. Init => Typed
  BY DEF Init, Typed
<1>2. Typed /\ [Next]_vars => Typed'
  <2>. SUFFICES ASSUME Typed, [Next]_vars PROVE Typed'
    OBVIOUS
  <2>1. ASSUME NEW k, NEW chars, NEW bound, Type(k, chars, bound), data \in Seq(chars)
        PROVE  kind' = k /\ kind = k /\ data' \in Seq(chars)
    <3>1. PICK c \in chars : data' = Append(data, c)
      BY <2>1 DEF Type
    <3>2. Append(data, c) \in Seq(chars)
      BY <2>1, AppendProperties
    <3>. QED
      BY <2>1, <3>1, <3>2 DEF Type
  <2>2. CASE Type("password", PasswordBytes, MaxPassword)
    <3>1. data \in Seq(PasswordBytes)
      BY <2>2 DEF Typed, Type
    <3>. QED
      BY <2>1, <2>2, <3>1 DEF Typed
  <2>3. CASE Type("reply", ReplyChars, MaxReply)
    <3>1. data \in Seq(ReplyChars)
      BY <2>3 DEF Typed, Type
    <3>. QED
      BY <2>1, <2>3, <3>1 DEF Typed
  <2>4. CASE Type("arguments", ArgumentChars, MaxArguments)
    <3>1. data \in Seq(ArgumentChars)
      BY <2>4 DEF Typed, Type
    <3>. QED
      BY <2>1, <2>4, <3>1 DEF Typed
  <2>5. CASE UNCHANGED vars
    BY <2>5 DEF Typed, vars
  <2>. QED
    BY <2>2, <2>3, <2>4, <2>5 DEF Next
<1>. QED
  BY <1>1, <1>2, PTL DEF Spec

\* Among larger sets of characters.
LEMMA Widened ==
  ASSUME NEW A, NEW B, A \subseteq B, NEW s \in Seq(A)
  PROVE  s \in Seq(B)
<1>1. Len(s) \in Nat /\ s = [i \in 1..Len(s) |-> s[i]] /\ \A i \in 1..Len(s) : s[i] \in B
  BY LenProperties, ElementOfSeq
<1>2. [i \in 1..Len(s) |-> s[i]] \in Seq(B)
  BY <1>1
<1>. QED
  BY <1>1, <1>2

LEMMA PasswordIsText ==
  ASSUME Typed, kind = "password"
  PROVE  data \in Seq(Byte)
<1>1. PasswordBytes \subseteq Byte
  BY DEF PasswordBytes, Byte
<1>. QED
  BY <1>1, Widened DEF Typed

LEMMA TokensAreTexts == \A token \in Tokens : token \in Seq(Byte)
<1>1. <<55>> \in Seq(Byte)
  BY DEF Byte
<1>2. ASSUME NEW f, NEW n \in Nat, f = [i \in 1..n |-> f[i]], \A i \in 1..n : f[i] \in Byte
      PROVE  f \in Seq(Byte)
  <2>1. [i \in 1..n |-> f[i]] \in Seq(Byte)
    BY <1>2
  <2>. QED
    BY <1>2, <2>1
<1>3. [i \in 1..16 |-> 47 + i] \in Seq(Byte)
  <2>1. \A i \in 1..16 : 47 + i \in Byte
    BY ByteRange DEF FitsByte
  <2>. QED
    BY <2>1
<1>4. [i \in 1..20 |-> 90 - i] \in Seq(Byte)
  <2>1. \A i \in 1..20 : 90 - i \in Byte
    BY ByteRange DEF FitsByte
  <2>. QED
    BY <2>1
<1>. QED
  BY <1>1, <1>3, <1>4 DEF Tokens

\* Whatever the password, the portal reads it out of the info field.
THEOREM InfoIsRead == Spec => []XEncodeInverts
<1>1. Typed => XEncodeInverts
  BY PasswordIsText, TokensAreTexts, CodeIsRead DEF XEncodeInverts
<1>. QED
  BY <1>1, InputsAreTyped, PTL

\* Replies are read, whatever their text and whatever stands around the call, but
\* for a parenthesis that opens before it or closes after it.
THEOREM RepliesAreUnwrapped == Spec => []RepliesAreRead
<1>1. ASSUME Typed, kind = "reply" PROVE RepliesAreRead
  <2>1. data \in Seq(Chars)
    <3>1. ReplyChars \subseteq Chars
      BY DEF Chars
    <3>. QED
      BY <1>1, <3>1, Widened DEF Typed
  <2>2. DOMAIN data = 1..Len(data) /\ Len(data) \in Nat
    BY <2>1, LenProperties
  <2>3. UnwrapJSONP(<<"blank">> \o Braced(data) \o <<"blank">>) = {Braced(data)}
    BY <2>1, PlainReply
  <2>4. ASSUME NEW i \in 0..Len(data), NEW j \in 0..Len(data), i <= j,
               Lacks(SubSeq(data, 1, i), "("), ~Bare(SubSeq(data, 1, i)),
               Lacks(SubSeq(data, j + 1, Len(data)), ")")
        PROVE  UnwrapJSONP(SubSeq(data, 1, i) \o <<"(">> \o SubSeq(data, i + 1, j)
                             \o <<")">> \o SubSeq(data, j + 1, Len(data)))
                 = {SubSeq(data, i + 1, j)}
    <3> DEFINE from == i + 1
               next == j + 1
    <3>1. /\ 1 \in Int /\ i \in Int /\ 1 <= 1 /\ i <= Len(data) /\ 1 <= i + 1
          /\ from \in Int /\ j \in Int /\ 1 <= from /\ j <= Len(data) /\ from <= j + 1
          /\ next \in Int /\ Len(data) \in Int /\ 1 <= next /\ Len(data) <= Len(data)
          /\ next <= Len(data) + 1
      BY <2>2, <2>4
    <3>. HIDE DEF from, next
    <3>2. /\ SubSeq(data, 1, i) \in Seq(Chars) /\ SubSeq(data, from, j) \in Seq(Chars)
          /\ SubSeq(data, next, Len(data)) \in Seq(Chars)
      BY <2>1, <3>1, PartOf
    <3>. QED
      BY <2>4, <3>2, CallingReply DEF from, next
  <2>5. ~Bare(data) /\ (\A i, j \in DOMAIN data : data[i] = "(" /\ data[j] = ")" => j < i)
          => UnwrapJSONP(data) = {}
    BY <2>1, <2>2, OtherReply
  <2>. QED
    BY <2>3, <2>4, <2>5 DEF RepliesAreRead, Braced
<1>2. Typed => RepliesAreRead
  BY <1>1 DEF RepliesAreRead
<1>. QED
  BY <1>2, InputsAreTyped, PTL

-----------------------------------------------------------------------------
(* Command lines. *)

Text == Seq(ArgumentChars)

\* Joining texts.
LEMMA TextJoin ==
  ASSUME NEW x \in Text, NEW y \in Text
  PROVE  /\ x \o y \in Text /\ Len(x \o y) = Len(x) + Len(y) /\ Len(x) \in Nat /\ Len(y) \in Nat
         /\ \A i \in 1..(Len(x) + Len(y)) : (x \o y)[i] = IF i <= Len(x) THEN x[i] ELSE y[i - Len(x)]
BY ConcatProperties, LenProperties DEF Text

LEMMA TextRegrouped ==
  ASSUME NEW x \in Text, NEW y \in Text, NEW z \in Text
  PROVE  (x \o y) \o z = x \o (y \o z)
BY ConcatAssociative DEF Text

LEMMA NoText ==
  /\ <<>> \in Text /\ Len(<<>>) = 0
  /\ \A x \in Text : x \o <<>> = x
BY ConcatEmptySeq, EmptySeq DEF Text

LEMMA Single ==
  ASSUME NEW c \in ArgumentChars
  PROVE  <<c>> \in Text /\ Len(<<c>>) = 1 /\ <<c>>[1] = c
BY DEF Text

LEMMA BackslashesType ==
  ASSUME NEW n \in Nat
  PROVE  /\ Backslashes(n) \in Text /\ Len(Backslashes(n)) = n
         /\ \A i \in 1..n : Backslashes(n)[i] = "b"
BY DEF Backslashes, Text, ArgumentChars

LEMMA NoBackslashes == Backslashes(0) = <<>>
<1>1. Backslashes(0) \in Text /\ Len(Backslashes(0)) = 0
  BY BackslashesType
<1>. QED
  BY <1>1, EmptySeq DEF Text

LEMMA BackslashMore ==
  ASSUME NEW n \in Nat
  PROVE  Backslashes(n + 1) = Backslashes(n) \o <<"b">>
<1> DEFINE x == Backslashes(n)
           y == <<"b">>
           z == Backslashes(n + 1)
<1>1. /\ x \in Text /\ Len(x) = n /\ \A i \in 1..n : x[i] = "b"
  BY BackslashesType
<1>2. y \in Text /\ Len(y) = 1 /\ y[1] = "b"
  BY Single DEF ArgumentChars
<1>3. /\ z \in Text /\ Len(z) = n + 1 /\ \A i \in 1..(n + 1) : z[i] = "b"
  <2>1. n + 1 \in Nat
    OBVIOUS
  <2>. QED
    BY <2>1, BackslashesType
<1>. HIDE DEF x, y, z
<1>4. /\ x \o y \in Text /\ Len(x \o y) = n + 1
      /\ \A i \in 1..(n + 1) : (x \o y)[i] = IF i <= n THEN x[i] ELSE y[i - n]
  <2>1. /\ x \o y \in Text /\ Len(x \o y) = Len(x) + Len(y)
        /\ \A i \in 1..(Len(x) + Len(y)) : (x \o y)[i] = IF i <= Len(x) THEN x[i] ELSE y[i - Len(x)]
    BY <1>1, <1>2, TextJoin
  <2>. QED
    BY <1>1, <1>2, <2>1
<1>5. ASSUME NEW i \in 1..(n + 1) PROVE (x \o y)[i] = z[i]
  <2>1. CASE i <= n
    BY <1>1, <1>3, <1>4, <2>1
  <2>2. CASE ~(i <= n)
    <3>1. i - n = 1
      BY <2>2
    <3>. QED
      BY <1>2, <1>3, <1>4, <2>2, <3>1
  <2>. QED
    BY <2>1, <2>2
<1>6. z = x \o y
  BY <1>3, <1>4, <1>5, SeqEqual DEF Text
<1>. QED
  BY <1>6 DEF x, y, z

\* From state s the reader gets to t with text x.
Reads(s, x, t) ==
  \E h : /\ h[0] = s /\ h[Len(x)] = t
         /\ \A i \in 1..Len(x) : h[i] = ReadNext(h[i - 1], x[i])

LEMMA ReadsOne ==
  ASSUME NEW s, NEW c \in ArgumentChars
  PROVE  Reads(s, <<c>>, ReadNext(s, c))
<1> DEFINE h == [i \in 0..1 |-> IF i = 0 THEN s ELSE ReadNext(s, c)]
           x == <<c>>
<1>1. h[0] = s /\ h[1] = ReadNext(s, c)
  OBVIOUS
<1>. HIDE DEF h
<1>2. x \in Text /\ Len(x) = 1 /\ x[1] = c
  BY Single
<1>. HIDE DEF x
<1>3. h[Len(x)] = ReadNext(s, c) /\ \A i \in 1..Len(x) : h[i] = ReadNext(h[i - 1], x[i])
  <2>1. \A i \in 1..Len(x) : i = 1
    BY <1>2
  <2>2. 1 - 1 = 0
    OBVIOUS
  <2>. QED
    BY <1>1, <1>2, <2>1, <2>2
<1>4. Reads(s, x, ReadNext(s, c))
  BY <1>1, <1>3 DEF Reads
<1>. QED
  BY <1>4 DEF x

LEMMA ReadsJoin ==
  ASSUME NEW s, NEW t, NEW u, NEW x \in Text, NEW y \in Text, Reads(s, x, t), Reads(t, y, u)
  PROVE  Reads(s, x \o y, u)
<1> DEFINE m == Len(x)
           n == Len(y)
           z == x \o y
<1>1. /\ m \in Nat /\ n \in Nat /\ Len(z) = m + n
      /\ \A i \in 1..(m + n) : z[i] = IF i <= m THEN x[i] ELSE y[i - m]
  BY TextJoin
<1>2. PICK g : g[0] = s /\ g[m] = t /\ \A i \in 1..m : g[i] = ReadNext(g[i - 1], x[i])
  BY DEF Reads
<1>3. PICK h : h[0] = t /\ h[n] = u /\ \A i \in 1..n : h[i] = ReadNext(h[i - 1], y[i])
  BY DEF Reads
<1>. HIDE DEF m, n, z
<1> DEFINE f == [i \in 0..(m + n) |-> IF i <= m THEN g[i] ELSE h[i - m]]
<1>4. \A i \in 0..(m + n) : f[i] = IF i <= m THEN g[i] ELSE h[i - m]
  OBVIOUS
<1>. HIDE DEF f
<1>5. f[0] = s /\ f[m + n] = u
  <2>1. 0 \in 0..(m + n) /\ m + n \in 0..(m + n) /\ 0 <= m /\ (m + n <= m => n = 0) /\ (m + n) - m = n
    BY <1>1
  <2>2. f[0] = g[0]
    BY <1>4, <2>1
  <2>3. CASE m + n <= m
    <3>1. n = 0 /\ m + n = m
      BY <1>1, <2>1, <2>3
    <3>. QED
      BY <1>2, <1>3, <1>4, <2>1, <2>2, <3>1
  <2>4. CASE ~(m + n <= m)
    BY <1>2, <1>3, <1>4, <2>1, <2>2, <2>4
  <2>. QED
    BY <2>3, <2>4
<1>6. ASSUME NEW i \in 1..(m + n) PROVE f[i] = ReadNext(f[i - 1], z[i])
  <2>1. i \in 0..(m + n) /\ i - 1 \in 0..(m + n)
    BY <1>1
  <2>2. CASE i <= m
    <3>1. i \in 1..m /\ i - 1 <= m
      BY <1>1, <2>2
    <3>2. f[i] = g[i] /\ f[i - 1] = g[i - 1] /\ z[i] = x[i]
      BY <1>1, <1>4, <2>1, <2>2, <3>1
    <3>. QED
      BY <1>2, <3>1, <3>2
  <2>3. CASE i = m + 1
    <3>1. ~(i <= m) /\ i - m = 1 /\ i - 1 = m /\ m <= m /\ 1 \in 1..n /\ 1 - 1 = 0
      BY <1>1, <2>3
    <3>2. f[i] = h[i - m] /\ f[i - 1] = g[i - 1] /\ z[i] = y[i - m]
      BY <1>1, <1>4, <2>1, <3>1
    <3>3. f[i] = h[1] /\ f[i - 1] = h[0] /\ z[i] = y[1]
      BY <1>2, <1>3, <3>1, <3>2
    <3>4. h[1] = ReadNext(h[1 - 1], y[1])
      BY <1>3, <3>1
    <3>. QED
      BY <3>1, <3>3, <3>4
  <2>4. CASE ~(i <= m + 1)
    <3>1. ~(i <= m) /\ ~(i - 1 <= m) /\ i - m \in 1..n /\ (i - 1) - m = (i - m) - 1
      BY <1>1, <2>4
    <3>2. f[i] = h[i - m] /\ f[i - 1] = h[(i - m) - 1] /\ z[i] = y[i - m]
      BY <1>1, <1>4, <2>1, <3>1
    <3>3. h[i - m] = ReadNext(h[(i - m) - 1], y[i - m])
      BY <1>3, <3>1
    <3>. QED
      BY <3>2, <3>3
  <2>5. i <= m \/ i = m + 1 \/ ~(i <= m + 1)
    BY <1>1
  <2>. QED
    BY <2>2, <2>3, <2>4, <2>5
<1>7. Reads(s, z, u)
  BY <1>1, <1>5, <1>6 DEF Reads
<1>. QED
  BY <1>7 DEF z

\* What CommandLineToArgv returns is where the reader gets to.
LEMMA ArgvIs ==
  ASSUME NEW x \in Text, NEW t, Reads(Between(<<>>), x, t)
  PROVE  CommandLineToArgv(x) = Ended(t).args
<1> DEFINE n == Len(x)
           start == Between(<<>>)
           Body(f) == [i \in 0..n |-> IF i = 0 THEN start ELSE ReadNext(f[i - 1], x[i])]
           g == CHOOSE f : f = Body(f)
<1>1. n \in Nat
  BY LenProperties DEF Text
<1>2. PICK h : h[0] = start /\ h[n] = t /\ \A i \in 1..n : h[i] = ReadNext(h[i - 1], x[i])
  BY DEF Reads
<1>3. CommandLineToArgv(x) = Ended(g[n]).args
  BY DEF CommandLineToArgv
<1>. HIDE DEF start, n
<1> DEFINE f == [i \in 0..n |-> h[i]]
<1>4. f = Body(f)
  <2> DEFINE A(i) == h[i]
             B(i) == IF i = 0 THEN start ELSE ReadNext(f[i - 1], x[i])
  <2>1. ASSUME NEW i \in 0..n PROVE A(i) = B(i)
    <3>1. i = 0 \/ (i \in 1..n /\ i - 1 \in 0..n /\ i # 0)
      BY <1>1
    <3>2. i - 1 \in 0..n => f[i - 1] = h[i - 1]
      OBVIOUS
    <3>. HIDE DEF f
    <3>. QED
      BY <1>2, <3>1, <3>2
  <2>2. [i \in 0..n |-> A(i)] = [i \in 0..n |-> B(i)]
    <3>. HIDE DEF A, B
    <3>. QED
      BY <2>1
  <2>. QED
    BY <2>2
<1>5. g = Body(g)
  <2>. HIDE DEF f
  <2>. QED
    BY <1>4
<1>. HIDE DEF g
<1>6. \A i \in 0..n : g[i] = IF i = 0 THEN start ELSE ReadNext(g[i - 1], x[i])
  <2>1. \A i \in 0..n : Body(g)[i] = IF i = 0 THEN start ELSE ReadNext(g[i - 1], x[i])
    OBVIOUS
  <2>. HIDE DEF Body
  <2>. QED
    BY <1>5, <2>1
<1> DEFINE S == {m \in Nat : m <= n => g[m] = h[m]}
<1>7. 0 \in S
  <2>1. 0 \in 0..n
    BY <1>1
  <2>. QED
    BY <1>2, <1>6, <2>1
<1>8. ASSUME NEW m \in Nat, m \in S PROVE m + 1 \in S
  <2>1. ASSUME m + 1 <= n PROVE g[m + 1] = h[m + 1]
    <3>1. m + 1 \in 0..n /\ m + 1 \in 1..n /\ (m + 1) - 1 = m /\ m + 1 # 0 /\ g[m] = h[m]
      BY <1>1, <1>8, <2>1
    <3>2. g[m + 1] = ReadNext(g[(m + 1) - 1], x[m + 1])
      BY <1>6, <3>1
    <3>3. h[m + 1] = ReadNext(h[(m + 1) - 1], x[m + 1])
      BY <1>2, <3>1
    <3>. QED
      BY <3>1, <3>2, <3>3
  <2>. QED
    BY <2>1
<1>. HIDE DEF S
<1>9. n \in S
  BY <1>1, <1>7, <1>8, SetInduction
<1>10. g[n] = t
  BY <1>1, <1>2, <1>9 DEF S
<1>. QED
  BY <1>3, <1>10

-----------------------------------------------------------------------------
(* Writing an argument, and reading what was written. *)

Buffers == [text : Text, backslashes : Nat]
Opened == [text |-> <<"q">>, backslashes |-> 0]

LEMMA TextOf ==
  ASSUME NEW x \in Text, NEW n \in Nat, NEW c \in ArgumentChars
  PROVE  x \o Backslashes(n) \o <<c>> \in Text
<1>1. Backslashes(n) \in Text /\ <<c>> \in Text
  BY BackslashesType, Single
<1>2. x \o Backslashes(n) \in Text
  BY <1>1, TextJoin
<1>. QED
  BY <1>1, <1>2, TextJoin

\* One character written.
LEMMA WrittenIs ==
  ASSUME NEW b \in Buffers, NEW r \in ArgumentChars
  PROVE  /\ Written(b, r) \in Buffers
         /\ r = "b" => /\ Written(b, r).text = b.text
                       /\ Written(b, r).backslashes = b.backslashes + 1
         /\ r = "q" => /\ Written(b, r).text = b.text \o Backslashes(2 * b.backslashes + 1) \o <<r>>
                       /\ Written(b, r).backslashes = 0
         /\ r \notin {"b", "q"} => /\ Written(b, r).text = b.text \o Backslashes(b.backslashes) \o <<r>>
                                   /\ Written(b, r).backslashes = 0
<1> DEFINE w == Written(b, r)
           n == IF r = "q" THEN 2 * b.backslashes + 1 ELSE b.backslashes
           x == b.text \o Backslashes(n) \o <<r>>
<1>1. b.text \in Text /\ b.backslashes \in Nat /\ n \in Nat
  BY DEF Buffers
<1>2. CASE r = "b"
  <2>1. w = [b EXCEPT !.backslashes = b.backslashes + 1]
    BY <1>2 DEF Written
  <2>2. w.text = b.text /\ w.backslashes = b.backslashes + 1 /\ w \in Buffers
    <3>. HIDE DEF w
    <3>. QED
      BY <1>1, <2>1 DEF Buffers
  <2>. QED
    BY <1>2, <2>2
<1>3. CASE r # "b"
  <2>1. w = [text |-> x, backslashes |-> 0]
    BY <1>3 DEF Written
  <2>2. x \in Text
    <3>. HIDE DEF n
    <3>. QED
      BY <1>1, TextOf
  <2>3. w.text = x /\ w.backslashes = 0 /\ w \in Buffers
    <3>. HIDE DEF w, x
    <3>. QED
      BY <2>1, <2>2 DEF Buffers
  <2>. HIDE DEF w
  <2>. QED
    BY <1>3, <2>3 DEF w
<1>. QED
  BY <1>2, <1>3

LEMMA OpenedType == Opened \in Buffers
<1>1. <<"q">> \in Text
  BY Single DEF ArgumentChars
<1>. QED
  BY <1>1 DEF Opened, Buffers

\* What Quoted computes, character by character.
LEMMA QuotedRuns ==
  ASSUME NEW arg \in Text, NEW n \in Nat, n = Len(arg)
  PROVE  \E h : /\ h[0] = Opened /\ Quoted(arg) = h[n].text \o Backslashes(2 * h[n].backslashes) \o <<"q">>
                /\ \A i \in 0..n : h[i] \in Buffers
                /\ \A i \in 1..n : h[i] = Written(h[i - 1], arg[i])
<1> DEFINE D == Buffers
           step == [i \in 1..n |-> [w \in D |-> Written(w, arg[i])]]
           Body(f) == [i \in 0..n |-> IF i = 0 THEN Opened ELSE Written(f[i - 1], arg[i])]
           h == CHOOSE f : f = Body(f)
<1>1. step \in [1..n -> [D -> D]]
  <2>1. ASSUME NEW i \in 1..n, NEW w \in D PROVE (Written(w, arg[i])) \in D
    <3>1. arg[i] \in ArgumentChars
      BY ElementOfSeq DEF Text
    <3>. QED
      BY <3>1, WrittenIs
  <2>. HIDE DEF D
  <2>. QED
    BY <2>1
<1>2. PICK f \in [0..n -> D] : Follows(f, n, Opened, step)
  <2>1. Opened \in D
    BY OpenedType
  <2>. HIDE DEF step, D
  <2>. QED
    BY <1>1, <2>1, Recursion
<1>3. f = Body(f)
  <2>1. ASSUME NEW i \in 1..n PROVE step[i][f[i - 1]] = Written(f[i - 1], arg[i])
    <3>1. f[i - 1] \in D
      <4>1. i - 1 \in 0..n
        OBVIOUS
      <4>. HIDE DEF D
      <4>. QED
        BY <1>2, <4>1
    <3>. HIDE DEF D
    <3>. QED
      BY <3>1
  <2> DEFINE A(i) == IF i = 0 THEN Opened ELSE step[i][f[i - 1]]
             B(i) == IF i = 0 THEN Opened ELSE Written(f[i - 1], arg[i])
  <2>2. ASSUME NEW i \in 0..n PROVE A(i) = B(i)
    <3>1. i = 0 \/ i \in 1..n
      OBVIOUS
    <3>. HIDE DEF step, D
    <3>. QED
      BY <2>1, <3>1
  <2>3. f = [i \in 0..n |-> A(i)]
    BY <1>2 DEF Follows
  <2>4. [i \in 0..n |-> A(i)] = [i \in 0..n |-> B(i)]
    <3>. HIDE DEF A, B
    <3>. QED
      BY <2>2
  <2>. QED
    BY <2>3, <2>4
<1>4. h = Body(h)
  BY <1>3
<1>5. Quoted(arg) = h[n].text \o Backslashes(2 * h[n].backslashes) \o <<"q">>
  BY DEF Quoted, Opened
<1>. HIDE DEF h
<1>6. h[0] = Opened /\ \A i \in 1..n : h[i] = Written(h[i - 1], arg[i])
  <2>1. \A i \in 0..n : Body(h)[i] = IF i = 0 THEN Opened ELSE Written(h[i - 1], arg[i])
    OBVIOUS
  <2>. HIDE DEF Body
  <2>2. \A i \in 0..n : h[i] = IF i = 0 THEN Opened ELSE Written(h[i - 1], arg[i])
    BY <1>4, <2>1
  <2>. QED
    BY <2>2
<1>7. Keeps(D, n, h)
  <2>1. ASSUME NEW i \in 1..n, h[i - 1] \in D PROVE h[i] \in D
    <3>1. arg[i] \in ArgumentChars
      BY ElementOfSeq DEF Text
    <3>2. Written(h[i - 1], arg[i]) \in D
      BY <2>1, <3>1, WrittenIs
    <3>. QED
      BY <1>6, <3>2
  <2>. QED
    BY <2>1 DEF Keeps
<1>8. \A i \in 0..n : h[i] \in D
  <2>1. h[0] \in D
    BY <1>6, OpenedType
  <2>. HIDE DEF D
  <2>. QED
    BY <1>7, <2>1, StaysIn
<1>. QED
  BY <1>5, <1>6, <1>8

LEMMA QuotedType ==
  ASSUME NEW arg \in Text
  PROVE  Quoted(arg) \in Text
<1> DEFINE n == Len(arg)
<1>1. n \in Nat /\ n \in 0..n
  BY LenProperties DEF Text
<1>2. PICK h : /\ Quoted(arg) = h[n].text \o Backslashes(2 * h[n].backslashes) \o <<"q">>
               /\ \A i \in 0..n : h[i] \in Buffers
  BY <1>1, QuotedRuns
<1>. HIDE DEF n
<1>3. h[n].text \in Text /\ 2 * h[n].backslashes \in Nat /\ "q" \in ArgumentChars
  BY <1>1, <1>2 DEF Buffers, ArgumentChars
<1>. QED
  BY <1>2, <1>3, TextOf

LEMMA ArgType ==
  ASSUME NEW arg \in Text
  PROVE  WindowsCommandLineArg(arg) \in Text
BY QuotedType DEF WindowsCommandLineArg

\* A state of the reader.
State(args, arg, n, w, q, c) ==
  [args |-> args, arg |-> arg, nslash |-> n, within |-> w, inquote |-> q, closed |-> c]
Changed(s, x, y, z, u) == [s EXCEPT !.arg = x, !.nslash = y, !.within = z, !.closed = u]

\* In an argument, in a quoted part of it or outside; and after a quoted part.
Running(args, arg, n, m) == State(args, arg, n, TRUE, m = "quoted", FALSE)
Shut(args, arg) == State(args, arg, 0, TRUE, FALSE, TRUE)

LEMMA StateChanged ==
  ASSUME NEW args, NEW a, NEW n, NEW w, NEW q, NEW c, NEW x, NEW y, NEW z, NEW u
  PROVE  Changed(State(args, a, n, w, q, c), x, y, z, u) = State(args, x, y, z, q, u)
<1> DEFINE s == State(args, a, n, w, q, c)
<1>1. [s EXCEPT !.arg = x] = State(args, x, n, w, q, c)
  BY DEF State
<1>2. [State(args, x, n, w, q, c) EXCEPT !.nslash = y] = State(args, x, y, w, q, c)
  BY DEF State
<1>3. [State(args, x, y, w, q, c) EXCEPT !.within = z] = State(args, x, y, z, q, c)
  BY DEF State
<1>4. [State(args, x, y, z, q, c) EXCEPT !.closed = u] = State(args, x, y, z, q, u)
  BY DEF State
<1>. HIDE DEF s
<1>5. [s EXCEPT !.arg = x, !.nslash = y, !.within = z, !.closed = u]
        = [[[[s EXCEPT !.arg = x] EXCEPT !.nslash = y] EXCEPT !.within = z] EXCEPT !.closed = u]
  OBVIOUS
<1>6. Changed(s, x, y, z, u) = State(args, x, y, z, q, u)
  BY <1>1, <1>2, <1>3, <1>4, <1>5 DEF Changed
<1>. QED
  BY <1>6 DEF s

LEMMA NextBackslash ==
  ASSUME NEW args, NEW a, NEW n, NEW m
  PROVE  ReadNext(Running(args, a, n, m), "b") = Running(args, a, n + 1, m)
<1> DEFINE yes == TRUE
           no == FALSE
           q == m = "quoted"
           s == State(args, a, n, yes, q, no)
<1>1. s.nslash = n /\ s.arg = a
  BY DEF State
<1>2. ReadNext(s, "b") = Changed(s, a, n + 1, yes, no)
  <2>. HIDE DEF s
  <2>. QED
    BY <1>1 DEF ReadNext, Changed
<1>. HIDE DEF yes, no, q
<1>3. ReadNext(s, "b") = State(args, a, n + 1, yes, q, no)
  BY <1>2, StateChanged
<1>. QED
  BY <1>3 DEF yes, no, q, Running

LEMMA NextOther ==
  ASSUME NEW args, NEW a, NEW n, NEW m, NEW r, r \notin {"b", "q"}, r = "blank" => m = "quoted"
  PROVE  ReadNext(Running(args, a, n, m), r) = Running(args, a \o Backslashes(n) \o <<r>>, 0, m)
<1> DEFINE yes == TRUE
           no == FALSE
           q == m = "quoted"
           s == State(args, a, n, yes, q, no)
           x == a \o Backslashes(n) \o <<r>>
<1>1. s.nslash = n /\ s.arg = a /\ s.inquote = q
  BY DEF State
<1>2. ReadNext(s, r) = Changed(s, x, 0, yes, no)
  <2>. HIDE DEF s
  <2>1. ReadNext(s, r) = Kept(s, r, n)
    BY <1>1 DEF ReadNext
  <2>. QED
    BY <1>1, <2>1 DEF Kept, Changed
<1>. HIDE DEF yes, no, q, x
<1>3. ReadNext(s, r) = State(args, x, 0, yes, q, no)
  BY <1>2, StateChanged
<1>. QED
  BY <1>3 DEF yes, no, q, x, Running

LEMMA NextQuote ==
  ASSUME NEW args, NEW a, NEW n \in Nat, NEW m
  PROVE  ReadNext(Running(args, a, 2 * n + 1, m), "q")
           = Running(args, a \o Backslashes(n) \o <<"q">>, 0, m)
<1> DEFINE yes == TRUE
           no == FALSE
           q == m = "quoted"
           s == State(args, a, 2 * n + 1, yes, q, no)
           x == a \o Backslashes(n) \o <<"q">>
<1>1. s.nslash = 2 * n + 1 /\ s.arg = a
  BY DEF State
<1>2. (2 * n + 1) % 2 = 1 /\ (2 * n + 1) \div 2 = n
  OBVIOUS
<1>3. ReadNext(s, "q") = Changed(s, x, 0, yes, no)
  <2>. HIDE DEF s
  <2>1. ReadNext(s, "q") = Kept(s, "q", n)
    BY <1>1, <1>2 DEF ReadNext
  <2>. QED
    BY <1>1, <2>1 DEF Kept, Changed
<1> DEFINE k == 2 * n + 1
<1>. HIDE DEF yes, no, q, x, k
<1>4. Changed(State(args, a, k, yes, q, no), x, 0, yes, no) = State(args, x, 0, yes, q, no)
  BY StateChanged
<1>. QED
  BY <1>3, <1>4 DEF yes, no, q, x, k, Running

LEMMA NextClose ==
  ASSUME NEW args, NEW a, NEW n \in Nat
  PROVE  ReadNext(Running(args, a, 2 * n, "quoted"), "q") = Shut(args, a \o Backslashes(n))
<1> DEFINE yes == TRUE
           no == FALSE
           k == 2 * n
           s == State(args, a, k, yes, yes, no)
           x == a \o Backslashes(n)
<1>1. s.nslash = 2 * n /\ s.arg = a /\ s.inquote = TRUE /\ s.closed = FALSE
  BY DEF State
<1>2. (2 * n) % 2 = 0 /\ (2 * n) \div 2 = n
  OBVIOUS
<1>3. ReadNext(s, "q") = [Changed(s, x, 0, yes, yes) EXCEPT !.inquote = FALSE]
  <2>. HIDE DEF s
  <2>1. ReadNext(s, "q") = [s EXCEPT !.arg = @ \o Backslashes(s.nslash \div 2), !.nslash = 0,
                                     !.within = TRUE, !.inquote = ~@, !.closed = s.inquote]
    BY <1>1, <1>2 DEF ReadNext
  <2>2. s.nslash \div 2 = n
    BY <1>1, <1>2
  <2>3. ReadNext(s, "q") = [s EXCEPT !.arg = x, !.nslash = 0, !.within = TRUE, !.inquote = FALSE,
                                     !.closed = TRUE]
    BY <1>1, <2>1, <2>2
  <2>. QED
    BY <2>3 DEF Changed
<1>. HIDE DEF yes, no, x, k
<1>4. Changed(s, x, 0, yes, yes) = State(args, x, 0, yes, yes, yes)
  BY StateChanged
<1>5. [State(args, x, 0, yes, yes, yes) EXCEPT !.inquote = no] = State(args, x, 0, yes, no, yes)
  BY DEF State
<1>6. Running(args, a, 2 * n, "quoted") = s
  BY DEF Running, k, yes, no
<1>7. State(args, x, 0, yes, no, yes) = Shut(args, x)
  BY DEF Shut, yes, no
<1>. HIDE DEF s
<1>. QED
  BY <1>3, <1>4, <1>5, <1>6, <1>7 DEF x, no

LEMMA NextOpen ==
  ASSUME NEW args
  PROVE  ReadNext(Between(args), "q") = Running(args, <<>>, 0, "quoted")
<1> DEFINE yes == TRUE
           no == FALSE
           x == <<>>
           s == State(args, x, 0, no, no, no)
<1>1. s.nslash = 0 /\ s.arg = x /\ s.inquote = FALSE /\ s.closed = FALSE
  BY DEF State
<1>2. x \o Backslashes(0) = x
  BY NoBackslashes, NoText
<1>3. ReadNext(s, "q") = [Changed(s, x, 0, yes, no) EXCEPT !.inquote = TRUE]
  <2>. HIDE DEF s
  <2>1. 0 % 2 = 0 /\ 0 \div 2 = 0
    OBVIOUS
  <2>2. ReadNext(s, "q") = [s EXCEPT !.arg = @ \o Backslashes(s.nslash \div 2), !.nslash = 0,
                                     !.within = TRUE, !.inquote = ~@, !.closed = s.inquote]
    BY <1>1, <2>1 DEF ReadNext
  <2>3. s.nslash \div 2 = 0
    BY <1>1, <2>1
  <2>. HIDE DEF x
  <2>4. ReadNext(s, "q") = [s EXCEPT !.arg = x, !.nslash = 0, !.within = TRUE, !.inquote = TRUE,
                                     !.closed = FALSE]
    BY <1>1, <1>2, <2>2, <2>3
  <2>. QED
    BY <2>4 DEF Changed
<1>4. Between(args) = s
  BY DEF Between, State
<1>. HIDE DEF yes, no, x
<1>5. Changed(s, x, 0, yes, no) = State(args, x, 0, yes, no, no)
  BY StateChanged
<1>6. [State(args, x, 0, yes, no, no) EXCEPT !.inquote = yes] = State(args, x, 0, yes, yes, no)
  BY DEF State
<1>7. State(args, x, 0, yes, yes, no) = Running(args, x, 0, "quoted")
  BY DEF Running, yes, no
<1>. HIDE DEF s
<1>8. ReadNext(Between(args), "q") = Running(args, x, 0, "quoted")
  BY <1>3, <1>4, <1>5, <1>6, <1>7 DEF yes
<1>. QED
  BY <1>8 DEF x

\* The first character of an argument with no quotes around it.
LEMMA NextBare ==
  ASSUME NEW args, NEW r \in ArgumentChars, r \notin {"q", "blank"}
  PROVE  ReadNext(Between(args), r)
           = IF r = "b" THEN Running(args, <<>>, 1, "bare") ELSE Running(args, <<r>>, 0, "bare")
<1> DEFINE yes == TRUE
           no == FALSE
           x == <<>>
           y == <<r>>
           s == State(args, x, 0, no, no, no)
<1>1. s.nslash = 0 /\ s.arg = x /\ s.inquote = FALSE
  BY DEF State
<1>2. x \o Backslashes(0) \o y = y
  <2>1. y \in Text /\ <<>> \in Text
    BY Single, NoText
  <2>. QED
    BY <2>1, NoBackslashes, NoText, ConcatEmptySeq DEF Text
<1>3. Between(args) = s
  BY DEF Between, State
<1>4. CASE r = "b"
  <2>1. ReadNext(s, r) = Changed(s, x, 1, yes, no)
    <3>. HIDE DEF s, x
    <3>1. ReadNext(s, r) = [s EXCEPT !.nslash = @ + 1, !.within = TRUE, !.closed = FALSE]
      BY <1>1, <1>4 DEF ReadNext
    <3>2. s.nslash + 1 = 1
      BY <1>1
    <3>3. ReadNext(s, r) = [s EXCEPT !.nslash = 1, !.within = TRUE, !.closed = FALSE]
      BY <3>1, <3>2
    <3>. QED
      BY <1>1, <3>3 DEF Changed
  <2>. HIDE DEF yes, no, x
  <2>2. Changed(s, x, 1, yes, no) = State(args, x, 1, yes, no, no)
    BY StateChanged
  <2>3. State(args, x, 1, yes, no, no) = Running(args, x, 1, "bare")
    BY DEF Running, yes, no
  <2>. HIDE DEF s
  <2>4. ReadNext(Between(args), r) = Running(args, x, 1, "bare")
    BY <1>3, <2>1, <2>2, <2>3
  <2>. QED
    BY <1>4, <2>4 DEF x
<1>5. CASE r # "b"
  <2>1. ReadNext(s, r) = Changed(s, y, 0, yes, no)
    <3>. HIDE DEF s
    <3>1. ReadNext(s, r) = Kept(s, r, 0)
      BY <1>1, <1>5 DEF ReadNext
    <3>. QED
      BY <1>1, <1>2, <3>1 DEF Kept, Changed
  <2>. HIDE DEF yes, no, x, y
  <2>2. Changed(s, y, 0, yes, no) = State(args, y, 0, yes, no, no)
    BY StateChanged
  <2>3. State(args, y, 0, yes, no, no) = Running(args, y, 0, "bare")
    BY DEF Running, yes, no
  <2>. HIDE DEF s
  <2>4. ReadNext(Between(args), r) = Running(args, y, 0, "bare")
    BY <1>3, <2>1, <2>2, <2>3
  <2>. QED
    BY <1>5, <2>4 DEF y
<1>. QED
  BY <1>4, <1>5

\* The end of an argument: of the line, or a space.
LEMMA EndShut ==
  ASSUME NEW args, NEW a \in Text
  PROVE  /\ Ended(Shut(args, a)) = Between(Append(args, a))
         /\ ReadNext(Shut(args, a), "blank") = Between(Append(args, a))
<1> DEFINE s == Shut(args, a)
<1>1. s.within /\ ~s.inquote /\ s.args = args /\ s.arg = a /\ s.nslash = 0
  BY DEF Shut, State
<1>2. a \o Backslashes(0) = a
  BY NoBackslashes, NoText
<1>. HIDE DEF s
<1>3. Ended(s) = Between(Append(args, a))
  BY <1>1, <1>2 DEF Ended
<1>4. ReadNext(s, "blank") = Ended(s)
  BY <1>1 DEF ReadNext
<1>. QED
  BY <1>3, <1>4 DEF s

LEMMA EndBare ==
  ASSUME NEW args, NEW a, NEW n
  PROVE  /\ Ended(Running(args, a, n, "bare")) = Between(Append(args, a \o Backslashes(n)))
         /\ ReadNext(Running(args, a, n, "bare"), "blank") = Between(Append(args, a \o Backslashes(n)))
<1> DEFINE s == Running(args, a, n, "bare")
<1>1. s.within /\ ~s.inquote /\ s.args = args /\ s.arg = a /\ s.nslash = n
  BY DEF Running, State
<1>. HIDE DEF s
<1>2. Ended(s) = Between(Append(args, a \o Backslashes(n)))
  BY <1>1 DEF Ended
<1>3. ReadNext(s, "blank") = Ended(s)
  BY <1>1 DEF ReadNext
<1>. QED
  BY <1>2, <1>3 DEF s

\* Backslashes are counted.
LEMMA ReadsBackslashes ==
  ASSUME NEW args, NEW a, NEW n \in Nat, NEW m
  PROVE  Reads(Running(args, a, 0, m), Backslashes(n), Running(args, a, n, m))
<1> DEFINE x == Backslashes(n)
           h == [i \in 0..n |-> Running(args, a, i, m)]
<1>1. Len(x) = n /\ \A i \in 1..n : x[i] = "b"
  BY BackslashesType
<1>2. \A i \in 0..n : h[i] = Running(args, a, i, m)
  OBVIOUS
<1>. HIDE DEF x, h
<1>3. ASSUME NEW i \in 1..n PROVE h[i] = ReadNext(h[i - 1], x[i])
  <2>1. i \in 0..n /\ i - 1 \in 0..n /\ (i - 1) + 1 = i
    OBVIOUS
  <2>2. h[i - 1] = Running(args, a, i - 1, m) /\ h[i] = Running(args, a, i, m)
    BY <1>2, <2>1
  <2> DEFINE j == i - 1
  <2>. HIDE DEF j
  <2>3. ReadNext(Running(args, a, j, m), "b") = Running(args, a, j + 1, m)
    BY NextBackslash
  <2>. QED
    BY <1>1, <2>1, <2>2, <2>3 DEF j
<1>4. h[0] = Running(args, a, 0, m) /\ h[n] = Running(args, a, n, m)
  <2>1. 0 \in 0..n /\ n \in 0..n
    OBVIOUS
  <2>. QED
    BY <1>2, <2>1
<1>5. Reads(Running(args, a, 0, m), x, Running(args, a, n, m))
  BY <1>1, <1>3, <1>4 DEF Reads
<1>. QED
  BY <1>5 DEF x

\* Reading on, through backslashes and a character.
LEMMA ReadsOn ==
  ASSUME NEW s, NEW x \in Text, NEW args, NEW a, NEW m, Reads(s, x, Running(args, a, 0, m)),
         NEW n \in Nat, NEW r \in ArgumentChars
  PROVE  Reads(s, x \o Backslashes(n) \o <<r>>, ReadNext(Running(args, a, n, m), r))
<1>1. Backslashes(n) \in Text /\ <<r>> \in Text
  BY BackslashesType, Single
<1>2. x \o Backslashes(n) \in Text
  BY <1>1, TextJoin
<1>3. Reads(s, x \o Backslashes(n), Running(args, a, n, m))
  BY <1>1, ReadsBackslashes, ReadsJoin
<1>4. Reads(Running(args, a, n, m), <<r>>, ReadNext(Running(args, a, n, m), r))
  BY <1>1, ReadsOne
<1>. QED
  BY <1>1, <1>2, <1>3, <1>4, ReadsJoin

\* A sequence up to a place, and one element more.
LEMMA PrefixMore ==
  ASSUME NEW S, NEW x \in Seq(S), NEW i \in Nat, i + 1 <= Len(x)
  PROVE  /\ SubSeq(x, 1, i) \in Seq(S) /\ x[i + 1] \in S
         /\ SubSeq(x, 1, i + 1) = SubSeq(x, 1, i) \o <<x[i + 1]>>
<1>0. Len(x) \in Nat /\ \A j \in 1..Len(x) : x[j] \in S
  BY LenProperties, ElementOfSeq
<1>1. SubSeq(x, 1, i) \in Seq(S)
  BY <1>0, SubSeqProperties
<1> DEFINE n == i + 1
<1>2. 1 \in 1..Len(x) /\ n \in 1..Len(x) /\ n - 1 = i
  BY <1>0
<1>3. SubSeq(x, 1, n) = SubSeq(x, 1, n - 1) \o <<x[n]>>
  <2>. HIDE DEF n
  <2>. QED
    BY <1>2, SubSeqRecursiveSecond
<1>4. x[n] \in S
  BY <1>0, <1>2
<1>. QED
  BY <1>1, <1>2, <1>3, <1>4

LEMMA PrefixAll ==
  ASSUME NEW x \in Text
  PROVE  SubSeq(x, 1, 0) = <<>> /\ SubSeq(x, 1, Len(x)) = x /\ Len(x) \in Nat
BY SubSeqEmpty, SubSeqFull, LenProperties DEF Text

-----------------------------------------------------------------------------
(* An argument is read as it was. *)

\* The text in the buffer is read as p, less the backslashes held back.
IsRead(args, b, p) ==
  \E a \in Text : /\ Reads(Between(args), b.text, Running(args, a, 0, "quoted"))
                  /\ a \o Backslashes(b.backslashes) = p

LEMMA OpenedIsRead ==
  ASSUME NEW args
  PROVE  IsRead(args, Opened, <<>>)
<1>1. Reads(Between(args), <<"q">>, Running(args, <<>>, 0, "quoted"))
  <2>1. "q" \in ArgumentChars
    BY DEF ArgumentChars
  <2>2. Reads(Between(args), <<"q">>, ReadNext(Between(args), "q"))
    BY <2>1, ReadsOne
  <2>. QED
    BY <2>2, NextOpen
<1>2. <<>> \in Text /\ <<>> \o Backslashes(0) = <<>>
  BY NoText, NoBackslashes
<1>. QED
  BY <1>1, <1>2 DEF IsRead, Opened

LEMMA MoreIsRead ==
  ASSUME NEW args, NEW b \in Buffers, NEW p \in Text, IsRead(args, b, p), NEW r \in ArgumentChars
  PROVE  IsRead(args, Written(b, r), p \o <<r>>)
<1> DEFINE n == b.backslashes
           x == b.text
           w == Written(b, r)
<1>0. n \in Nat /\ x \in Text
  BY DEF Buffers
<1>1. PICK a \in Text : Reads(Between(args), x, Running(args, a, 0, "quoted")) /\ a \o Backslashes(n) = p
  BY DEF IsRead
<1>. HIDE DEF n, x
<1>2. <<r>> \in Text /\ Backslashes(n) \in Text
  BY <1>0, Single, BackslashesType
<1>3. CASE r = "b"
  <2>1. w.text = x /\ w.backslashes = n + 1
    BY <1>3, WrittenIs DEF x, n
  <2>2. a \o Backslashes(n + 1) = p \o <<r>>
    <3>1. Backslashes(n + 1) = Backslashes(n) \o <<r>>
      BY <1>0, <1>3, BackslashMore
    <3>2. (a \o Backslashes(n)) \o <<r>> = a \o (Backslashes(n) \o <<r>>)
      BY <1>2, TextRegrouped
    <3>. QED
      BY <1>1, <3>1, <3>2
  <2>. HIDE DEF w
  <2>. QED
    BY <1>1, <2>1, <2>2 DEF IsRead, w
<1>4. CASE r = "q"
  <2>1. w.text = x \o Backslashes(2 * n + 1) \o <<r>> /\ w.backslashes = 0
    BY <1>4, WrittenIs DEF x, n
  <2>2. 2 * n + 1 \in Nat
    BY <1>0
  <2>3. Reads(Between(args), w.text, ReadNext(Running(args, a, 2 * n + 1, "quoted"), r))
    <3> DEFINE k == 2 * n + 1
    <3>. HIDE DEF k, w
    <3>1. Reads(Between(args), x \o Backslashes(k) \o <<r>>, ReadNext(Running(args, a, k, "quoted"), r))
      <4>1. k \in Nat
        BY <2>2 DEF k
      <4>. QED
        BY <1>0, <1>1, <4>1, ReadsOn
    <3>. QED
      BY <2>1, <3>1 DEF k
  <2>4. ReadNext(Running(args, a, 2 * n + 1, "quoted"), r) = Running(args, p \o <<r>>, 0, "quoted")
    <3>1. ReadNext(Running(args, a, 2 * n + 1, "quoted"), "q")
            = Running(args, a \o Backslashes(n) \o <<"q">>, 0, "quoted")
      BY <1>0, NextQuote
    <3>. QED
      BY <1>1, <1>4, <3>1
  <2>5. p \o <<r>> \in Text /\ (p \o <<r>>) \o Backslashes(0) = p \o <<r>>
    BY <1>2, TextJoin, NoBackslashes, NoText
  <2>. HIDE DEF w
  <2>. QED
    BY <2>1, <2>3, <2>4, <2>5 DEF IsRead, w
<1>5. CASE r \notin {"b", "q"}
  <2>1. w.text = x \o Backslashes(n) \o <<r>> /\ w.backslashes = 0
    BY <1>5, WrittenIs DEF x, n
  <2>2. Reads(Between(args), w.text, ReadNext(Running(args, a, n, "quoted"), r))
    <3>. HIDE DEF w
    <3>. QED
      BY <1>0, <1>1, <2>1, ReadsOn
  <2>3. ReadNext(Running(args, a, n, "quoted"), r) = Running(args, p \o <<r>>, 0, "quoted")
    <3>1. ReadNext(Running(args, a, n, "quoted"), r)
            = Running(args, a \o Backslashes(n) \o <<r>>, 0, "quoted")
      BY <1>5, NextOther
    <3>. QED
      BY <1>1, <3>1
  <2>4. p \o <<r>> \in Text /\ (p \o <<r>>) \o Backslashes(0) = p \o <<r>>
    BY <1>2, TextJoin, NoBackslashes, NoText
  <2>. HIDE DEF w
  <2>. QED
    BY <2>1, <2>2, <2>3, <2>4 DEF IsRead, w
<1>. QED
  BY <1>3, <1>4, <1>5

\* A quoted argument.
LEMMA QuotedIsRead ==
  ASSUME NEW args, NEW arg \in Text
  PROVE  Reads(Between(args), Quoted(arg), Shut(args, arg))
<1> DEFINE n == Len(arg)
<1>1. n \in Nat /\ SubSeq(arg, 1, 0) = <<>> /\ SubSeq(arg, 1, n) = arg
  BY PrefixAll
<1>2. PICK h : /\ h[0] = Opened /\ Quoted(arg) = h[n].text \o Backslashes(2 * h[n].backslashes) \o <<"q">>
               /\ \A i \in 0..n : h[i] \in Buffers
               /\ \A i \in 1..n : h[i] = Written(h[i - 1], arg[i])
  BY <1>1, QuotedRuns
<1> DEFINE P(i) == i <= n => IsRead(args, h[i], SubSeq(arg, 1, i))
           S == {i \in Nat : P(i)}
<1>3. 0 \in S
  BY <1>1, <1>2, OpenedIsRead
<1>4. ASSUME NEW i \in Nat, i \in S PROVE i + 1 \in S
  <2>1. ASSUME i + 1 <= n PROVE IsRead(args, h[i + 1], SubSeq(arg, 1, i + 1))
    <3>1. i \in 0..n /\ i + 1 \in 1..n /\ (i + 1) - 1 = i /\ i <= n
      BY <1>1, <2>1
    <3>2. h[i] \in Buffers
      BY <1>2, <3>1
    <3>3. h[i + 1] = Written(h[(i + 1) - 1], arg[i + 1])
      BY <1>2, <3>1
    <3>4. h[i + 1] = Written(h[i], arg[i + 1])
      BY <3>1, <3>3
    <3>5. /\ SubSeq(arg, 1, i) \in Text /\ arg[i + 1] \in ArgumentChars
          /\ SubSeq(arg, 1, i + 1) = SubSeq(arg, 1, i) \o <<arg[i + 1]>>
      BY <2>1, PrefixMore DEF Text
    <3>6. IsRead(args, h[i], SubSeq(arg, 1, i))
      BY <1>4, <3>1
    <3>7. IsRead(args, Written(h[i], arg[i + 1]), SubSeq(arg, 1, i) \o <<arg[i + 1]>>)
      BY <3>2, <3>5, <3>6, MoreIsRead
    <3>. QED
      BY <3>4, <3>5, <3>7
  <2>. QED
    BY <2>1
<1>5. n \in S
  <2>. HIDE DEF S
  <2>. QED
    BY <1>1, <1>3, <1>4, SetInduction
<1>6. IsRead(args, h[n], arg)
  <2>. HIDE DEF n
  <2>1. IsRead(args, h[n], SubSeq(arg, 1, n))
    BY <1>1, <1>5
  <2>. QED
    BY <1>1, <2>1
<1>7. h[n] \in Buffers
  BY <1>1, <1>2
<1>. HIDE DEF n
<1> DEFINE k == h[n].backslashes
           m == 2 * k
           x == h[n].text
<1>8. k \in Nat /\ m \in Nat /\ x \in Text
  BY <1>7 DEF Buffers
<1>9. PICK a \in Text : Reads(Between(args), x, Running(args, a, 0, "quoted")) /\ a \o Backslashes(k) = arg
  BY <1>6 DEF IsRead
<1>10. Quoted(arg) = x \o Backslashes(m) \o <<"q">> /\ "q" \in ArgumentChars
  BY <1>2 DEF ArgumentChars
<1>11. ReadNext(Running(args, a, m, "quoted"), "q") = Shut(args, arg)
  <2>. HIDE DEF k
  <2>1. ReadNext(Running(args, a, 2 * k, "quoted"), "q") = Shut(args, a \o Backslashes(k))
    BY <1>8, NextClose
  <2>. QED
    BY <1>9, <2>1
<1>. HIDE DEF x, m
<1>12. Reads(Between(args), x \o Backslashes(m) \o <<"q">>, ReadNext(Running(args, a, m, "quoted"), "q"))
  BY <1>8, <1>9, <1>10, ReadsOn
<1>. QED
  BY <1>10, <1>11, <1>12

\* An argument that needs no quotes.
LEMMA PlainIsRead ==
  ASSUME NEW args, NEW arg \in Text, arg # <<>>, ToSet(arg) \cap {"blank", "q"} = {}
  PROVE  \E a \in Text, k \in Nat : /\ Reads(Between(args), arg, Running(args, a, k, "bare"))
                                    /\ a \o Backslashes(k) = arg
<1> DEFINE n == Len(arg)
           p(i) == SubSeq(arg, 1, i)
           P(i) == \E a \in Text, k \in Nat : /\ Reads(Between(args), p(i), Running(args, a, k, "bare"))
                                              /\ a \o Backslashes(k) = p(i)
           S == {i \in Nat : i + 1 <= n => P(i + 1)}
<1>1. n \in Nat /\ p(0) = <<>> /\ p(n) = arg
  BY PrefixAll
<1>2. n # 0
  <2>1. Len(arg) = 0 => arg = <<>>
    BY EmptySeq DEF Text
  <2>. QED
    BY <2>1
<1>3. ASSUME NEW i \in 1..n PROVE arg[i] \in ArgumentChars /\ arg[i] \notin {"q", "blank"}
  <2>1. arg[i] \in ArgumentChars
    BY <1>3, ElementOfSeq DEF Text
  <2>2. arg[i] \in ToSet(arg)
    <3>1. DOMAIN arg = 1..n
      BY LenProperties DEF Text
    <3>. QED
      BY <3>1 DEF ToSet
  <2>. QED
    BY <2>1, <2>2
<1>4. ASSUME NEW i \in Nat, i + 1 <= n
      PROVE  /\ p(i) \in Text /\ p(i + 1) \in Text /\ i + 1 \in 1..n
             /\ p(i + 1) = p(i) \o <<arg[i + 1]>>
  <2>1. /\ SubSeq(arg, 1, i) \in Text /\ arg[i + 1] \in ArgumentChars
        /\ SubSeq(arg, 1, i + 1) = SubSeq(arg, 1, i) \o <<arg[i + 1]>>
    BY <1>4, PrefixMore DEF Text
  <2>2. <<arg[i + 1]>> \in Text
    BY <2>1, Single
  <2>3. SubSeq(arg, 1, i) \o <<arg[i + 1]>> \in Text
    BY <2>1, <2>2, TextJoin
  <2>4. i + 1 \in 1..n
    BY <1>1, <1>4
  <2>. HIDE DEF n
  <2>. QED
    BY <2>1, <2>3, <2>4
<1>. HIDE DEF p
<1>5. 0 \in S
  <2>1. ASSUME 1 <= n PROVE P(1)
    <3> DEFINE r == arg[1]
    <3>1. r \in ArgumentChars /\ r \notin {"q", "blank"}
      BY <1>1, <1>3, <2>1
    <3>2. p(1) = <<r>>
      <4>1. p(0 + 1) = p(0) \o <<arg[0 + 1]>> /\ 0 + 1 = 1
        BY <1>4, <2>1
      <4>2. <<r>> \in Text
        BY <3>1, Single
      <4>3. <<>> \o <<r>> = <<r>>
        BY <4>2, ConcatEmptySeq DEF Text
      <4>. QED
        BY <1>1, <4>1, <4>3
    <3>3. Reads(Between(args), <<r>>, ReadNext(Between(args), r))
      BY <3>1, ReadsOne
    <3>. HIDE DEF r
    <3>4. ReadNext(Between(args), r)
            = IF r = "b" THEN Running(args, <<>>, 1, "bare") ELSE Running(args, <<r>>, 0, "bare")
      BY <3>1, NextBare
    <3>5. CASE r = "b"
      <4>1. <<>> \in Text /\ <<>> \o Backslashes(1) = <<r>>
        <5>1. Backslashes(1) = Backslashes(0) \o <<"b">>
          <6>1. Backslashes(0 + 1) = Backslashes(0) \o <<"b">>
            <7>1. \A i \in Nat : Backslashes(i + 1) = Backslashes(i) \o <<"b">>
              BY BackslashMore
            <7>. QED
              BY <7>1
          <6>2. 0 + 1 = 1
            OBVIOUS
          <6>. QED
            BY <6>1, <6>2
        <5>2. Backslashes(1) = <<>> \o <<r>>
          BY <3>5, <5>1, NoBackslashes
        <5>3. <<r>> \in Text
          BY <3>1, Single
        <5>4. <<>> \o <<r>> = <<r>>
          BY <5>3, ConcatEmptySeq DEF Text
        <5>. QED
          BY <5>2, <5>4, NoText
      <4>2. Reads(Between(args), p(1), Running(args, <<>>, 1, "bare"))
        BY <3>2, <3>3, <3>4, <3>5
      <4>3. 1 \in Nat /\ <<>> \o Backslashes(1) = p(1)
        BY <3>2, <4>1
      <4>. QED
        BY <4>1, <4>2, <4>3
    <3>6. CASE r # "b"
      <4>1. <<r>> \in Text /\ <<r>> \o Backslashes(0) = <<r>>
        BY <3>1, Single, NoBackslashes, NoText
      <4>2. Reads(Between(args), p(1), Running(args, <<r>>, 0, "bare"))
        BY <3>2, <3>3, <3>4, <3>6
      <4>3. 0 \in Nat /\ <<r>> \o Backslashes(0) = p(1)
        BY <3>2, <4>1
      <4>. QED
        BY <4>1, <4>2, <4>3
    <3>. QED
      BY <3>5, <3>6
  <2>2. 0 + 1 = 1
    OBVIOUS
  <2>. HIDE DEF P
  <2>. QED
    BY <2>1, <2>2
<1>6. ASSUME NEW j \in Nat, j \in S PROVE j + 1 \in S
  <2>1. ASSUME NEW i \in Nat, i = j + 1, i + 1 <= n PROVE P(i + 1)
    <3> DEFINE r == arg[i + 1]
    <3>1. i <= n /\ P(i)
      <4>. HIDE DEF P
      <4>. QED
        BY <1>1, <1>6, <2>1
    <3>2. /\ p(i) \in Text /\ p(i + 1) \in Text /\ r \in ArgumentChars /\ r \notin {"q", "blank"}
          /\ p(i + 1) = p(i) \o <<r>>
      BY <1>3, <1>4, <2>1
    <3>. HIDE DEF r
    <3>3. PICK a \in Text, k \in Nat : /\ Reads(Between(args), p(i), Running(args, a, k, "bare"))
                                       /\ a \o Backslashes(k) = p(i)
      BY <3>1
    <3>4. <<r>> \in Text
      BY <3>2, Single
    <3>5. Reads(Between(args), p(i + 1), ReadNext(Running(args, a, k, "bare"), r))
      <4>1. Reads(Running(args, a, k, "bare"), <<r>>, ReadNext(Running(args, a, k, "bare"), r))
        BY <3>2, ReadsOne
      <4>2. Reads(Between(args), p(i) \o <<r>>, ReadNext(Running(args, a, k, "bare"), r))
        BY <3>2, <3>3, <3>4, <4>1, ReadsJoin
      <4>. QED
        BY <3>2, <4>2
    <3>6. CASE r = "b"
      <4>1. ReadNext(Running(args, a, k, "bare"), r) = Running(args, a, k + 1, "bare")
        BY <3>6, NextBackslash
      <4>2. a \o Backslashes(k + 1) = p(i + 1)
        <5>1. Backslashes(k) \in Text
          BY BackslashesType
        <5>2. (a \o Backslashes(k)) \o <<r>> = a \o (Backslashes(k) \o <<r>>)
          BY <3>4, <5>1, TextRegrouped
        <5>3. Backslashes(k + 1) = Backslashes(k) \o <<r>>
          BY <3>6, BackslashMore
        <5>. QED
          BY <3>2, <3>3, <5>2, <5>3
      <4>3. k + 1 \in Nat
        OBVIOUS
      <4>4. Reads(Between(args), p(i + 1), Running(args, a, k + 1, "bare"))
        BY <3>5, <4>1
      <4>. QED
        BY <4>2, <4>3, <4>4
    <3>7. CASE r # "b"
      <4>1. ReadNext(Running(args, a, k, "bare"), r) = Running(args, p(i + 1), 0, "bare")
        <5>1. r \notin {"b", "q"} /\ (r = "blank" => "bare" = "quoted")
          BY <3>2, <3>7
        <5>2. ReadNext(Running(args, a, k, "bare"), r)
                = Running(args, a \o Backslashes(k) \o <<r>>, 0, "bare")
          BY <5>1, NextOther
        <5>. QED
          BY <3>2, <3>3, <5>2
      <4>2. p(i + 1) \o Backslashes(0) = p(i + 1)
        BY <3>2, NoBackslashes, NoText
      <4>3. Reads(Between(args), p(i + 1), Running(args, p(i + 1), 0, "bare"))
        BY <3>5, <4>1
      <4>. QED
        BY <3>2, <4>2, <4>3
    <3>. QED
      BY <3>6, <3>7
  <2>2. j + 1 \in Nat
    OBVIOUS
  <2>. HIDE DEF P
  <2>. QED
    BY <2>1, <2>2
<1>7. PICK j \in Nat : n = j + 1
  <2>1. n - 1 \in Nat /\ n = (n - 1) + 1
    BY <1>1, <1>2
  <2>. QED
    BY <2>1
<1>8. j \in S
  <2>. HIDE DEF S
  <2>. QED
    BY <1>5, <1>6, SetInduction
<1>9. P(n)
  <2>. HIDE DEF P
  <2>. QED
    BY <1>1, <1>7, <1>8
<1>. QED
  BY <1>1, <1>9

\* The reader has read args in text x: the end of the line, or a space, ends
\* the last of them.
HasRead(x, args) ==
  \E t : /\ Reads(Between(<<>>), x, t)
         /\ Ended(t) = Between(args) /\ ReadNext(t, "blank") = Between(args)

LEMMA ArgIsRead ==
  ASSUME NEW args, NEW arg \in Text
  PROVE  \E t : /\ Reads(Between(args), WindowsCommandLineArg(arg), t)
                /\ Ended(t) = Between(Append(args, arg))
                /\ ReadNext(t, "blank") = Between(Append(args, arg))
<1>1. CASE arg # <<>> /\ ToSet(arg) \cap {"blank", "q"} = {}
  <2>1. PICK a \in Text, k \in Nat : /\ Reads(Between(args), arg, Running(args, a, k, "bare"))
                                     /\ a \o Backslashes(k) = arg
    BY <1>1, PlainIsRead
  <2>2. /\ Ended(Running(args, a, k, "bare")) = Between(Append(args, arg))
        /\ ReadNext(Running(args, a, k, "bare"), "blank") = Between(Append(args, arg))
    BY <2>1, EndBare
  <2>3. WindowsCommandLineArg(arg) = arg
    BY <1>1 DEF WindowsCommandLineArg
  <2>. QED
    BY <2>1, <2>2, <2>3
<1>2. CASE ~(arg # <<>> /\ ToSet(arg) \cap {"blank", "q"} = {})
  <2>1. WindowsCommandLineArg(arg) = Quoted(arg)
    BY <1>2 DEF WindowsCommandLineArg
  <2>2. Reads(Between(args), Quoted(arg), Shut(args, arg))
    BY QuotedIsRead
  <2>3. /\ Ended(Shut(args, arg)) = Between(Append(args, arg))
        /\ ReadNext(Shut(args, arg), "blank") = Between(Append(args, arg))
    BY EndShut
  <2>. QED
    BY <2>1, <2>2, <2>3
<1>. QED
  BY <1>1, <1>2

\* What WindowsCommandLine computes, argument by argument.
LEMMA LineRuns ==
  ASSUME NEW args \in Seq(Text), NEW n \in Nat, n = Len(args)
  PROVE  \E h : /\ WindowsCommandLine(args) = h[n]
                /\ \A i \in 0..n : /\ h[i] \in Text
                                   /\ i = 0 => h[i] = <<>>
                                   /\ i = 1 => h[i] = WindowsCommandLineArg(args[1])
                                   /\ i > 1 => h[i] = h[i - 1] \o <<"blank">> \o WindowsCommandLineArg(args[i])
<1> DEFINE D == Text
           Step(w, i) == IF i = 1 THEN WindowsCommandLineArg(args[1])
                         ELSE w \o <<"blank">> \o WindowsCommandLineArg(args[i])
           step == [i \in 1..n |-> [w \in D |-> Step(w, i)]]
           Body(f) == [i \in 0..n |-> IF i = 0 THEN <<>>
                                      ELSE IF i = 1 THEN WindowsCommandLineArg(args[1])
                                      ELSE f[i - 1] \o <<"blank">> \o WindowsCommandLineArg(args[i])]
           h == CHOOSE f : f = Body(f)
<1>0. ASSUME NEW i \in 1..n, NEW w \in D PROVE Step(w, i) \in D
  <2>1. args[i] \in Text /\ (i = 1 => args[1] \in Text)
    BY ElementOfSeq
  <2>2. WindowsCommandLineArg(args[i]) \in Text
    BY <2>1, ArgType
  <2>3. <<"blank">> \in Text
    BY Single DEF ArgumentChars
  <2>4. w \o <<"blank">> \in Text
    BY <2>3, TextJoin
  <2>5. w \o <<"blank">> \o WindowsCommandLineArg(args[i]) \in Text
    BY <2>2, <2>4, TextJoin
  <2>. QED
    BY <2>2, <2>5
<1>1. step \in [1..n -> [D -> D]]
  <2>. HIDE DEF D, Step
  <2>. QED
    BY <1>0
<1>2. PICK f \in [0..n -> D] : Follows(f, n, <<>>, step)
  <2>1. <<>> \in D
    BY NoText
  <2>. HIDE DEF step, D
  <2>. QED
    BY <1>1, <2>1, Recursion
<1>3. f = Body(f)
  <2>1. ASSUME NEW i \in 1..n PROVE step[i][f[i - 1]] = Step(f[i - 1], i)
    <3>1. f[i - 1] \in D
      <4>1. i - 1 \in 0..n
        OBVIOUS
      <4>. HIDE DEF D
      <4>. QED
        BY <1>2, <4>1
    <3>. HIDE DEF D, Step
    <3>. QED
      BY <3>1
  <2> DEFINE A(i) == IF i = 0 THEN <<>> ELSE step[i][f[i - 1]]
             B(i) == IF i = 0 THEN <<>> ELSE Step(f[i - 1], i)
  <2>2. ASSUME NEW i \in 0..n PROVE A(i) = B(i)
    <3>1. i = 0 \/ i \in 1..n
      OBVIOUS
    <3>. HIDE DEF step, D, Step
    <3>. QED
      BY <2>1, <3>1
  <2>3. f = [i \in 0..n |-> A(i)]
    BY <1>2 DEF Follows
  <2>4. [i \in 0..n |-> A(i)] = [i \in 0..n |-> B(i)]
    <3>. HIDE DEF A, B
    <3>. QED
      BY <2>2
  <2>. QED
    BY <2>3, <2>4
<1>4. h = Body(h)
  BY <1>3
<1>5. WindowsCommandLine(args) = h[n]
  BY DEF WindowsCommandLine
<1>. HIDE DEF h
<1>6. \A i \in 0..n : h[i] = IF i = 0 THEN <<>> ELSE Step(h[i - 1], i)
  <2>1. \A i \in 0..n : Body(h)[i] = IF i = 0 THEN <<>> ELSE Step(h[i - 1], i)
    OBVIOUS
  <2>. HIDE DEF Body, Step
  <2>. QED
    BY <1>4, <2>1
<1>7. Keeps(D, n, h)
  <2>1. ASSUME NEW i \in 1..n, h[i - 1] \in D PROVE h[i] \in D
    <3>1. Step(h[i - 1], i) \in D
      BY <1>0, <2>1
    <3>. HIDE DEF Step, D
    <3>. QED
      BY <1>6, <3>1
  <2>. QED
    BY <2>1 DEF Keeps
<1>8. \A i \in 0..n : h[i] \in D
  <2>1. h[0] \in D
    BY <1>6, NoText
  <2>. HIDE DEF D
  <2>. QED
    BY <1>7, <2>1, StaysIn
<1>9. ASSUME NEW i \in 0..n
      PROVE  /\ i = 0 => h[i] = <<>>
             /\ i = 1 => h[i] = WindowsCommandLineArg(args[1])
             /\ i > 1 => h[i] = h[i - 1] \o <<"blank">> \o WindowsCommandLineArg(args[i])
  <2>1. h[i] = IF i = 0 THEN <<>> ELSE Step(h[i - 1], i)
    BY <1>6
  <2>2. i > 1 => i # 0 /\ i # 1
    OBVIOUS
  <2>3. i = 1 => h[i] = WindowsCommandLineArg(args[1])
    BY <2>1
  <2>4. i > 1 => h[i] = h[i - 1] \o <<"blank">> \o WindowsCommandLineArg(args[i])
    BY <2>1, <2>2
  <2>. QED
    BY <2>1, <2>3, <2>4
<1>. QED
  BY <1>5, <1>8, <1>9

\* What the startup task writes is read as the arguments it was given
\* (startup_windows.go, windowsCommandLine): whatever the arguments, and
\* however many there are.
THEOREM ArgumentsAreRead ==
  ASSUME NEW args \in Seq(Text)
  PROVE  CommandLineToArgv(WindowsCommandLine(args)) = args
<1> DEFINE n == Len(args)
           p(i) == SubSeq(args, 1, i)
<1>1. n \in Nat /\ p(n) = args
  BY LenProperties, SubSeqFull
<1>2. PICK h : /\ WindowsCommandLine(args) = h[n]
               /\ \A i \in 0..n : /\ h[i] \in Text
                                  /\ i = 0 => h[i] = <<>>
                                  /\ i = 1 => h[i] = WindowsCommandLineArg(args[1])
                                  /\ i > 1 => h[i] = h[i - 1] \o <<"blank">> \o WindowsCommandLineArg(args[i])
  BY <1>1, LineRuns
<1>3. ASSUME NEW i \in Nat, i + 1 <= n
      PROVE  /\ args[i + 1] \in Text /\ p(i + 1) = Append(p(i), args[i + 1])
  <2>1. /\ SubSeq(args, 1, i) \in Seq(Text) /\ args[i + 1] \in Text
        /\ SubSeq(args, 1, i + 1) = SubSeq(args, 1, i) \o <<args[i + 1]>>
    BY <1>3, PrefixMore
  <2>2. Append(SubSeq(args, 1, i), args[i + 1]) = SubSeq(args, 1, i) \o <<args[i + 1]>>
    BY <2>1, AppendIsConcat
  <2>. QED
    BY <2>1, <2>2
<1>4. p(0) = <<>>
  BY SubSeqEmpty
<1>. HIDE DEF p
<1> DEFINE S == {i \in Nat : i + 1 <= n => HasRead(h[i + 1], p(i + 1))}
<1>5. 0 \in S
  <2>1. ASSUME 0 + 1 <= n PROVE HasRead(h[0 + 1], p(0 + 1))
    <3>1. 0 + 1 = 1 /\ 1 \in 0..n
      BY <1>1, <2>1
    <3>2. args[1] \in Text /\ p(1) = Append(<<>>, args[1])
      BY <1>3, <1>4, <2>1, <3>1
    <3>3. h[1] = WindowsCommandLineArg(args[1])
      BY <1>2, <3>1
    <3>4. HasRead(h[1], p(1))
      BY <3>2, <3>3, ArgIsRead DEF HasRead
    <3>. QED
      BY <3>1, <3>4
  <2>. QED
    BY <2>1
<1>6. ASSUME NEW j \in Nat, j \in S PROVE j + 1 \in S
  <2>1. ASSUME NEW i \in Nat, i = j + 1, i + 1 <= n PROVE HasRead(h[i + 1], p(i + 1))
    <3>1. i \in 0..n /\ i + 1 \in 0..n /\ i + 1 > 1 /\ (i + 1) - 1 = i
      BY <1>1, <2>1
    <3>2. HasRead(h[i], p(i))
      BY <1>6, <2>1, <3>1
    <3> DEFINE arg == args[i + 1]
               w == WindowsCommandLineArg(arg)
    <3>3. arg \in Text /\ p(i + 1) = Append(p(i), arg) /\ h[i] \in Text
      BY <1>2, <1>3, <2>1, <3>1
    <3>4. h[i + 1] = h[i] \o <<"blank">> \o w
      <4>1. h[i + 1] = h[(i + 1) - 1] \o <<"blank">> \o w
        BY <1>2, <3>1
      <4>. QED
        BY <3>1, <4>1
    <3>5. "blank" \in ArgumentChars /\ <<"blank">> \in Text
      BY Single DEF ArgumentChars
    <3>6. w \in Text
      BY <3>3, ArgType
    <3>. HIDE DEF arg, w
    <3>7. Reads(Between(<<>>), h[i] \o <<"blank">>, Between(p(i)))
      <4>1. PICK t : Reads(Between(<<>>), h[i], t) /\ ReadNext(t, "blank") = Between(p(i))
        BY <3>2 DEF HasRead
      <4>2. Reads(t, <<"blank">>, ReadNext(t, "blank"))
        BY <3>5, ReadsOne
      <4>. QED
        BY <3>3, <3>5, <4>1, <4>2, ReadsJoin
    <3>8. PICK t : /\ Reads(Between(p(i)), w, t)
                   /\ Ended(t) = Between(p(i + 1)) /\ ReadNext(t, "blank") = Between(p(i + 1))
      BY <3>3, ArgIsRead DEF w
    <3>9. h[i] \o <<"blank">> \in Text
      BY <3>3, <3>5, TextJoin
    <3>10. Reads(Between(<<>>), h[i + 1], t)
      BY <3>4, <3>6, <3>7, <3>8, <3>9, ReadsJoin
    <3>. QED
      BY <3>8, <3>10 DEF HasRead
  <2>2. j + 1 \in Nat
    OBVIOUS
  <2>. QED
    BY <2>1, <2>2
<1>7. CASE n = 0
  <2>1. WindowsCommandLine(args) = <<>> /\ args = <<>>
    BY <1>1, <1>2, <1>4, <1>7
  <2>2. Reads(Between(<<>>), <<>>, Between(<<>>))
    <3> DEFINE g == [i \in {0} |-> Between(<<>>)]
    <3>1. g[0] = Between(<<>>)
      OBVIOUS
    <3>2. Len(<<>>) = 0 /\ 1..0 = {}
      OBVIOUS
    <3>. HIDE DEF g
    <3>. QED
      BY <3>1, <3>2 DEF Reads
  <2>3. CommandLineToArgv(<<>>) = Ended(Between(<<>>)).args
    BY <2>2, NoText, ArgvIs
  <2>4. Ended(Between(<<>>)).args = <<>>
    BY DEF Ended, Between
  <2>. QED
    BY <2>1, <2>3, <2>4
<1>8. CASE n # 0
  <2>1. PICK j \in Nat : n = j + 1
    <3>1. n - 1 \in Nat /\ n = (n - 1) + 1
      BY <1>1, <1>8
    <3>. QED
      BY <3>1
  <2>2. j \in S
    <3>. HIDE DEF S
    <3>. QED
      BY <1>5, <1>6, SetInduction
  <2>3. HasRead(h[n], args)
    <3>. HIDE DEF n
    <3>1. HasRead(h[n], p(n))
      BY <1>1, <2>1, <2>2
    <3>. QED
      BY <1>1, <3>1
  <2>4. PICK t : Reads(Between(<<>>), h[n], t) /\ Ended(t) = Between(args)
    BY <2>3 DEF HasRead
  <2>5. h[n] \in Text
    <3>1. n \in 0..n
      BY <1>1
    <3>. HIDE DEF n
    <3>. QED
      BY <1>2, <3>1
  <2>6. CommandLineToArgv(h[n]) = Ended(t).args
    BY <2>4, <2>5, ArgvIs
  <2>7. Between(args).args = args
    BY DEF Between
  <2>. QED
    BY <1>2, <2>4, <2>6, <2>7
<1>. QED
  BY <1>7, <1>8

\* The launched guard sees the arguments of the startup task, in every run.
THEOREM ArgumentsArrive == Spec => []ArgumentsSurvive
<1>1. Typed => ArgumentsSurvive
  <2>1. ASSUME Typed, kind = "arguments", NEW i \in 0..Len(data)
        PROVE  LET args == <<SubSeq(data, 1, i), SubSeq(data, i + 1, Len(data))>>
               IN CommandLineToArgv(WindowsCommandLine(args)) = args
    <3> DEFINE n == Len(data)
               a == SubSeq(data, 1, i)
               b == SubSeq(data, i + 1, n)
    <3>1. data \in Text
      BY <2>1 DEF Typed, Text
    <3>2. n \in Nat /\ \A j \in 1..n : data[j] \in ArgumentChars
      BY <3>1, LenProperties, ElementOfSeq DEF Text
    <3>3. i \in Nat /\ i + 1 \in Nat /\ i <= n
      BY <3>2
    <3>. HIDE DEF n
    <3>4. a \in Text
      BY <3>2, <3>3, SubSeqProperties DEF Text
    <3>5. b \in Text
      <4> DEFINE k == i + 1
      <4>1. k \in Int /\ n \in Int /\ \A j \in k..n : data[j] \in ArgumentChars
        BY <3>2, <3>3
      <4>2. SubSeq(data, k, n) \in Seq(ArgumentChars)
        <5>. HIDE DEF k
        <5>. QED
          BY <4>1, SubSeqProperties
      <4>. QED
        BY <4>2 DEF Text
    <3>. HIDE DEF a, b
    <3>6. <<a, b>> \in Seq(Text)
      BY <3>4, <3>5
    <3>7. CommandLineToArgv(WindowsCommandLine(<<a, b>>)) = <<a, b>>
      BY <3>6, ArgumentsAreRead
    <3>. QED
      BY <3>7 DEF a, b, n
  <2>. QED
    BY <2>1 DEF ArgumentsSurvive
<1>. QED
  BY <1>1, InputsAreTyped, PTL
=============================================================================
