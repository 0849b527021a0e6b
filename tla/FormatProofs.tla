---------------------------- MODULE FormatProofs ----------------------------
(***************************************************************************)
(* Proofs about data: numbers and their bytes, the headers, integers,      *)
(* strings and items of CBOR, the documents of keys, and chunks of a       *)
(* stream in a row.  The lemmas about chunks are those that the proofs     *)
(* about package stream share.                                             *)
(***************************************************************************)
EXTENDS StreamChunk, BigEndian, SequenceTheorems, WellFoundedInduction, TLAPS

CONSTANTS Infos, Direct, Widths, LargestInt64, LargestInt, maxDepth, NotUTF8   \* of CborItem

Header == INSTANCE CborItem WITH MaxInt64 <- LargestInt64, MaxInt <- LargestInt

Documents == INSTANCE Keys
-----------------------------------------------------------------------------
(* Of any numbers one is the least.                                        *)
LEMMA Least ==
    ASSUME NEW S \in SUBSET Nat, S # {}
    PROVE  \E n \in S : \A m \in S : n <= m
<1> DEFINE R == OpToRel(<, Nat)
<1>1. IsWellFoundedOn(R, Nat)
  BY NatLessThanWellFounded
<1>2. PICK n \in S : \A y \in S : <<y, n>> \notin R
  <2> HIDE DEF R
  <2> QED
    BY <1>1, WFMin
<1>3. ASSUME NEW m \in S PROVE n <= m
  <2>1. <<m, n>> \in Nat \X Nat /\ <<m, n>>[1] = m /\ <<m, n>>[2] = n
    OBVIOUS
  <2>2. ~(m < n)
    BY <1>2, <2>1 DEF OpToRel
  <2> QED
    BY <2>2
<1> QED
  BY <1>3

(* Induction, over a set of numbers instead of a predicate.                *)
LEMMA Induction ==
    ASSUME NEW S, 0 \in S, \A n \in Nat : n \in S => n + 1 \in S
    PROVE  \A n \in Nat : n \in S
<1> SUFFICES ASSUME Nat \ S # {} PROVE FALSE
  OBVIOUS
<1>1. PICK n \in Nat \ S : \A m \in Nat \ S : n <= m
  BY Least
<1>2. n # 0 /\ n - 1 \in Nat /\ ~(n <= n - 1) /\ (n - 1) + 1 = n
  BY <1>1
<1>3. n - 1 \in S
  BY <1>1, <1>2
<1> QED
  BY <1>1, <1>2, <1>3

(* A function over the natural numbers may be defined by recursion.        *)
Recurs(f, a, step) == f[0] = a /\ \A n \in Nat : f[n + 1] = step[n][f[n]]

LEMMA Recursion ==
    ASSUME NEW T, NEW a \in T, NEW step \in [Nat -> [T -> T]]
    PROVE  \E f \in [Nat -> T] : Recurs(f, a, step)
<1> DEFINE Begins(n, g) ==
              /\ g \in [0..n -> T] /\ g[0] = a
              /\ \A k \in 0..n - 1 : g[k + 1] = step[k][g[k]]
<1>1. \A n \in Nat : \E g : Begins(n, g)
  <2> DEFINE S == {n \in Nat : \E g : Begins(n, g)}
  <2>1. 0 \in S
    <3>1. Begins(0, [k \in 0..0 |-> a])
      OBVIOUS
    <3> QED
      BY <3>1
  <2>2. ASSUME NEW n \in Nat, n \in S PROVE n + 1 \in S
    <3>1. PICK g : Begins(n, g)
      BY <2>2
    <3> DEFINE h == [k \in 0..n + 1 |-> IF k = n + 1 THEN step[n][g[n]] ELSE g[k]]
    <3>2. n \in 0..n /\ g[n] \in T /\ step[n][g[n]] \in T
      BY <3>1
    <3>3. h \in [0..n + 1 -> T] /\ h[0] = a
      BY <3>1, <3>2
    <3>4. ASSUME NEW k \in 0..(n + 1) - 1 PROVE h[k + 1] = step[k][h[k]]
      <4>1. CASE k = n
        BY <3>2, <4>1
      <4>2. CASE k # n
        <5>1. k \in 0..n - 1 /\ k + 1 # n + 1 /\ k # n + 1 /\ k \in 0..n + 1 /\ k + 1 \in 0..n + 1
          BY <4>2
        <5> QED
          BY <3>1, <5>1
      <4> QED
        BY <4>1, <4>2
    <3> HIDE DEF h
    <3>5. Begins(n + 1, h)
      BY <3>3, <3>4
    <3> QED
      BY <3>5
  <2> HIDE DEF S
  <2>3. \A n \in Nat : n \in S
    BY <2>1, <2>2, Induction
  <2> QED
    BY <2>3 DEF S
<1>2. ASSUME NEW m \in Nat, NEW n \in Nat, NEW g, NEW h, Begins(m, g), Begins(n, h)
      PROVE  \A k \in Nat : k <= m /\ k <= n => g[k] = h[k]
  <2> DEFINE S == {k \in Nat : k <= m /\ k <= n => g[k] = h[k]}
  <2>1. 0 \in S
    BY <1>2
  <2>2. ASSUME NEW k \in Nat, k \in S PROVE k + 1 \in S
    <3> SUFFICES ASSUME k + 1 <= m, k + 1 <= n PROVE g[k + 1] = h[k + 1]
      OBVIOUS
    <3>1. k \in 0..m - 1 /\ k \in 0..n - 1 /\ g[k] = h[k]
      BY <2>2
    <3> QED
      BY <1>2, <3>1
  <2> HIDE DEF S
  <2>3. \A k \in Nat : k \in S
    BY <2>1, <2>2, Induction
  <2> QED
    BY <2>3 DEF S
<1> DEFINE G(n) == CHOOSE g : Begins(n, g)
           f    == [n \in Nat |-> G(n)[n]]
<1>3. \A n \in Nat : Begins(n, G(n))
  BY <1>1
<1> HIDE DEF G
<1>4. f \in [Nat -> T] /\ f[0] = a
  <2>1. \A n \in Nat : G(n) \in [0..n -> T] /\ n \in 0..n
    BY <1>3
  <2> QED
    BY <1>3, <2>1
<1>5. ASSUME NEW n \in Nat PROVE f[n + 1] = step[n][f[n]]
  <2>1. G(n + 1)[n + 1] = step[n][G(n + 1)[n]]
    <3>1. n \in 0..(n + 1) - 1 /\ n + 1 \in Nat
      OBVIOUS
    <3> QED
      BY <1>3, <3>1
  <2>2. G(n + 1)[n] = G(n)[n]
    <3>1. Begins(n + 1, G(n + 1)) /\ Begins(n, G(n)) /\ n + 1 \in Nat /\ n <= n + 1 /\ n <= n
      BY <1>3
    <3> HIDE DEF Begins
    <3> QED
      BY <1>2, <3>1
  <2> QED
    BY <2>1, <2>2
<1> HIDE DEF f
<1> QED
  BY <1>4, <1>5 DEF Recurs

(* ... or one over the positions of a sequence.                            *)
RecursTo(f, a, step, L) ==
    /\ f = [k \in 0..L |-> f[k]] /\ f[0] = a
    /\ \A k \in 1..L : f[k] = step[k][f[k - 1]]

LEMMA RecursionTo ==
    ASSUME NEW T, NEW a \in T, NEW L \in Nat, NEW step \in [1..L -> [T -> T]]
    PROVE  \E f \in [0..L -> T] : RecursTo(f, a, step, L)
<1> DEFINE next == [n \in Nat |-> [t \in T |-> IF n < L THEN step[n + 1][t] ELSE t]]
<1>1. next \in [Nat -> [T -> T]]
  <2>1. ASSUME NEW n \in Nat, NEW t \in T PROVE (IF n < L THEN step[n + 1][t] ELSE t) \in T
    <3>1. CASE n < L
      <4>1. n + 1 \in 1..L
        BY <3>1
      <4>2. step[n + 1] \in [T -> T]
        BY <4>1
      <4> QED
        BY <3>1, <4>2
    <3>2. CASE ~(n < L)
      BY <3>2
    <3> QED
      BY <3>1, <3>2
  <2> QED
    BY <2>1
<1>2. PICK f \in [Nat -> T] : Recurs(f, a, next)
  <2> HIDE DEF next
  <2> QED
    BY <1>1, Recursion
<1>3. ASSUME NEW k \in 1..L PROVE f[k] = step[k][f[k - 1]] /\ k \in 0..L /\ k - 1 \in 0..L
  <2>1. k - 1 \in Nat /\ (k - 1) + 1 = k /\ k - 1 < L /\ f[k - 1] \in T
    OBVIOUS
  <2>2. f[k] = next[k - 1][f[k - 1]]
    BY <1>2, <2>1 DEF Recurs
  <2>3. next[k - 1][f[k - 1]] = step[k][f[k - 1]]
    BY <2>1
  <2> QED
    BY <2>1, <2>2, <2>3
<1> DEFINE g == [k \in 0..L |-> f[k]]
<1>4. g \in [0..L -> T] /\ g = [k \in 0..L |-> g[k]]
  OBVIOUS
<1>5. g[0] = a
  BY <1>2 DEF Recurs
<1>6. \A k \in 1..L : g[k] = step[k][g[k - 1]]
  BY <1>3
<1> HIDE DEF g
<1> QED
  BY <1>4, <1>5, <1>6 DEF RecursTo

(* Powers are such a function.                                             *)
LEMMA PowersRecur ==
    ASSUME NEW base \in Nat \ {0}
    PROVE  /\ powers(base) \in [Nat -> Nat \ {0}]
           /\ powers(base)[0] = 1
           /\ \A k \in Nat : powers(base)[k + 1] = base * powers(base)[k]
<1> DEFINE T    == Nat \ {0}
           step == [k \in Nat |-> [p \in T |-> base * p]]
           power == powers(base)
<1>1. \A p \in T : base * p \in T
  OBVIOUS
<1>2. step \in [Nat -> [T -> T]] /\ 1 \in T
  BY <1>1
<1>3. PICK f \in [Nat -> T] : Recurs(f, 1, step)
  <2> HIDE DEF step, T
  <2> QED
    BY <1>2, Recursion
<1>4. ASSUME NEW n \in Nat, n # 0 PROVE f[n] = base * f[n - 1]
  <2>1. n - 1 \in Nat /\ (n - 1) + 1 = n /\ f[n - 1] \in T
    BY <1>4
  <2> QED
    BY <1>3, <2>1 DEF Recurs
<1> HIDE DEF step
<1>5. f = [n \in Nat |-> IF n = 0 THEN 1 ELSE base * f[n - 1]]
  BY <1>3, <1>4 DEF Recurs
<1>6. power = CHOOSE p : p = [n \in Nat |-> IF n = 0 THEN 1 ELSE base * p[n - 1]]
  BY DEF powers
<1>7. power = [n \in Nat |-> IF n = 0 THEN 1 ELSE base * power[n - 1]]
  BY <1>5, <1>6
<1> HIDE DEF power
<1>8. power[0] = 1 /\ \A k \in Nat : power[k + 1] = base * power[k]
  <2>1. ASSUME NEW k \in Nat PROVE power[k + 1] = base * power[k]
    <3>1. k + 1 \in Nat /\ k + 1 # 0 /\ (k + 1) - 1 = k
      OBVIOUS
    <3>2. power[k + 1] = base * power[(k + 1) - 1]
      BY <1>7, <3>1
    <3> QED
      BY <3>1, <3>2
  <2>2. power[0] = 1
    BY <1>7
  <2> QED
    BY <2>1, <2>2
<1>9. \A k \in Nat : power[k] \in T
  <2> DEFINE S == {k \in Nat : power[k] \in T}
  <2>1. 0 \in S
    BY <1>8
  <2>2. ASSUME NEW k \in Nat, k \in S PROVE k + 1 \in S
    BY <1>1, <1>8, <2>2
  <2> HIDE DEF S
  <2>3. \A k \in Nat : k \in S
    BY <2>1, <2>2, Induction
  <2> QED
    BY <2>3 DEF S
<1>10. power \in [Nat -> T]
  <2> HIDE DEF T
  <2>1. DOMAIN power = Nat /\ power = [n \in Nat |-> power[n]]
    BY <1>7
  <2> QED
    BY <1>9, <2>1
<1> QED
  BY <1>8, <1>10 DEF power
-----------------------------------------------------------------------------
(* Division rounds down.                                                   *)
LEMMA DivFacts ==
    ASSUME NEW a \in Nat, NEW b \in Nat \ {0}
    PROVE  /\ a \div b \in Nat
           /\ (a \div b) * b <= a
           /\ a < ((a \div b) + 1) * b
BY SMT

(* Only one quotient fits between its neighbouring multiples.              *)
LEMMA DivUnique ==
    ASSUME NEW a \in Nat, NEW b \in Nat \ {0}, NEW q \in Nat,
           q * b <= a, a < (q + 1) * b
    PROVE  a \div b = q
BY SMT

LEMMA TimesNat ==
    ASSUME NEW a \in Nat, NEW b \in Nat
    PROVE  a * b \in Nat /\ a * b + b = (a + 1) * b
OBVIOUS

LEMMA TimesMonotone ==
    ASSUME NEW a \in Nat, NEW b \in Nat, NEW c \in Nat, a <= b
    PROVE  a * c \in Nat /\ b * c \in Nat /\ a * c <= b * c
<1>1. PICK d \in Nat : b = a + d
  BY b - a \in Nat, b = a + (b - a)
<1>2. (a + d) * c = a * c + d * c /\ a * c \in Nat /\ d * c \in Nat
  OBVIOUS
<1> QED
  BY <1>1, <1>2

(* Dividing twice is dividing by the product.                              *)
LEMMA DivTwice ==
    ASSUME NEW n \in Nat, NEW p \in Nat \ {0}, NEW b \in Nat \ {0}
    PROVE  (n \div p) \div b = n \div (b * p)
<1> DEFINE m == n \div p
           q == m \div b
<1>1. m \in Nat /\ m * p <= n /\ n < (m + 1) * p
  BY DivFacts
<1> HIDE DEF m
<1>2. q \in Nat /\ q * b <= m /\ m < (q + 1) * b
  BY <1>1, DivFacts
<1> HIDE DEF q
<1>3. b * p \in Nat \ {0}
  OBVIOUS
<1>4. q * b \in Nat /\ (q + 1) * b \in Nat /\ m + 1 <= (q + 1) * b
  BY <1>1, <1>2
<1>5. (q * b) * p <= m * p /\ (m + 1) * p <= ((q + 1) * b) * p
      /\ (q * b) * p \in Nat /\ m * p \in Nat /\ (m + 1) * p \in Nat
      /\ ((q + 1) * b) * p \in Nat
  BY <1>1, <1>2, <1>4, TimesMonotone
<1>6. (q * b) * p = q * (b * p) /\ ((q + 1) * b) * p = (q + 1) * (b * p)
  BY <1>2
<1>7. q * (b * p) <= n /\ n < (q + 1) * (b * p)
  BY <1>1, <1>5, <1>6
<1>8. n \div (b * p) = q
  BY <1>2, <1>3, <1>7, DivUnique
<1> QED
  BY <1>8 DEF m, q

LEMMA ModFacts ==
    ASSUME NEW n \in Nat, NEW b \in Nat \ {0}
    PROVE  n % b \in 0..b - 1 /\ n = b * (n \div b) + (n % b) /\ n \div b \in Nat
BY SMT

LEMMA ModUnique ==
    ASSUME NEW b \in Nat \ {0}, NEW q \in Nat, NEW r \in 0..b - 1
    PROVE  (b * q + r) \div b = q /\ (b * q + r) % b = r
<1>1. b * q + r \in Nat /\ q * b <= b * q + r /\ b * q + r < (q + 1) * b
  OBVIOUS
<1>2. (b * q + r) \div b = q
  BY <1>1, DivUnique
<1>3. b * q + r = b * q + ((b * q + r) % b)
  BY <1>1, <1>2, ModFacts
<1>4. (b * q + r) % b \in Int /\ b * q \in Int
  BY <1>1, ModFacts
<1> QED
  BY <1>2, <1>3, <1>4
-----------------------------------------------------------------------------
(* What is left of a number when k bytes have been cut off.                *)
restOf(base, n, k) == n \div powers(base)[k]

Byte(base) == 0..base - 1

LEMMA RestRecurs ==
    ASSUME NEW base \in Nat \ {0}, NEW n \in Nat
    PROVE  /\ restOf(base, n, 0) = n
           /\ \A k \in Nat :
                 /\ restOf(base, n, k) \in Nat
                 /\ restOf(base, n, k + 1) = restOf(base, n, k) \div base
                 /\ byteOf(base, n, k) = restOf(base, n, k) % base
                 /\ byteOf(base, n, k) \in Byte(base)
                 /\ restOf(base, n, k) = base * restOf(base, n, k + 1) + byteOf(base, n, k)
<1> DEFINE P == powers(base)
<1>1. P \in [Nat -> Nat \ {0}] /\ P[0] = 1 /\ \A k \in Nat : P[k + 1] = base * P[k]
  BY PowersRecur
<1> HIDE DEF P
<1>2. restOf(base, n, 0) = n
  BY <1>1 DEF restOf, P
<1>3. ASSUME NEW k \in Nat
      PROVE  /\ restOf(base, n, k) \in Nat
             /\ restOf(base, n, k + 1) = restOf(base, n, k) \div base
             /\ byteOf(base, n, k) = restOf(base, n, k) % base
  <2>1. P[k] \in Nat \ {0} /\ P[k + 1] = base * P[k]
    BY <1>1
  <2>2. n \div P[k] \in Nat
    BY <2>1, DivFacts
  <2>3. (n \div P[k]) \div base = n \div (base * P[k])
    BY <2>1, DivTwice
  <2> QED
    BY <2>1, <2>2, <2>3 DEF restOf, byteOf, P
<1>4. ASSUME NEW k \in Nat
      PROVE  /\ byteOf(base, n, k) \in Byte(base)
             /\ restOf(base, n, k) = base * restOf(base, n, k + 1) + byteOf(base, n, k)
  <2> DEFINE r == restOf(base, n, k)
  <2>1. r \in Nat
    BY <1>3
  <2>2. r % base \in 0..base - 1 /\ r = base * (r \div base) + (r % base)
    BY <2>1, ModFacts
  <2> QED
    BY <1>3, <2>2 DEF Byte
<1> QED
  BY <1>2, <1>3, <1>4

(* A number fits so many bytes if nothing is left when they are cut off.   *)
LEMMA FitsBytes ==
    ASSUME NEW base \in Nat \ {0}, NEW n \in Nat, NEW k \in Nat
    PROVE  n < powers(base)[k] <=> restOf(base, n, k) = 0
<1> DEFINE p == powers(base)[k]
<1>1. p \in Nat \ {0}
  BY PowersRecur
<1> HIDE DEF p
<1>2. /\ n \div p \in Nat
      /\ (n \div p) * p <= n
      /\ n < ((n \div p) + 1) * p
  BY <1>1, DivFacts
<1>3. n < p => n \div p = 0
  BY <1>1, DivUnique
<1>4. n \div p = 0 => n < p
  BY <1>1, <1>2
<1> QED
  BY <1>3, <1>4 DEF restOf, p

LEMMA RestFits ==
    ASSUME NEW base \in Nat \ {0}, NEW n \in Nat, NEW k \in Nat, NEW l \in Nat,
           restOf(base, n, k) = 0, k <= l
    PROVE  restOf(base, n, l) = 0 /\ byteOf(base, n, l) = 0
<1> DEFINE S == {d \in Nat : restOf(base, n, k + d) = 0}
<1>1. 0 \in S
  OBVIOUS
<1>2. 0 \div base = 0 /\ 0 % base = 0
  OBVIOUS
<1>3. ASSUME NEW d \in Nat, d \in S PROVE d + 1 \in S
  <2>1. k + d \in Nat /\ k + (d + 1) = (k + d) + 1
    OBVIOUS
  <2>2. restOf(base, n, (k + d) + 1) = restOf(base, n, k + d) \div base
    BY <2>1, RestRecurs
  <2> QED
    BY <1>2, <1>3, <2>1, <2>2
<1> HIDE DEF S
<1>4. \A d \in Nat : d \in S
  BY <1>1, <1>3, Induction
<1>5. l - k \in Nat /\ k + (l - k) = l
  OBVIOUS
<1>6. restOf(base, n, l) = 0
  BY <1>4, <1>5 DEF S
<1>7. byteOf(base, n, l) = restOf(base, n, l) % base
  BY RestRecurs
<1> QED
  BY <1>2, <1>6, <1>7

(* Numbers with the same bytes are the same.                               *)
LEMMA SameBytes ==
    ASSUME NEW base \in Nat \ {0}, NEW m \in Nat, NEW n \in Nat, NEW w \in Nat,
           restOf(base, m, w) = 0, restOf(base, n, w) = 0,
           \A k \in 0..w - 1 : byteOf(base, m, k) = byteOf(base, n, k)
    PROVE  m = n
<1> DEFINE S == {d \in Nat : d <= w => restOf(base, m, w - d) = restOf(base, n, w - d)}
<1>1. 0 \in S
  OBVIOUS
<1>2. ASSUME NEW d \in Nat, d \in S PROVE d + 1 \in S
  <2> SUFFICES ASSUME d + 1 <= w
               PROVE  restOf(base, m, w - (d + 1)) = restOf(base, n, w - (d + 1))
    OBVIOUS
  <2> DEFINE k == w - (d + 1)
  <2>1. k \in 0..w - 1 /\ k \in Nat /\ k + 1 = w - d /\ d <= w
    OBVIOUS
  <2>2. restOf(base, m, k + 1) = restOf(base, n, k + 1)
    BY <1>2, <2>1
  <2> HIDE DEF k
  <2>3. /\ restOf(base, m, k) = base * restOf(base, m, k + 1) + byteOf(base, m, k)
        /\ restOf(base, n, k) = base * restOf(base, n, k + 1) + byteOf(base, n, k)
    BY <2>1, RestRecurs, ZenonT(30)
  <2>4. byteOf(base, m, k) = byteOf(base, n, k)
    BY <2>1
  <2> QED
    BY <2>2, <2>3, <2>4 DEF k
<1> HIDE DEF S
<1>3. \A d \in Nat : d \in S
  BY <1>1, <1>2, Induction
<1>4. restOf(base, m, 0) = restOf(base, n, 0)
  <2>1. w \in S /\ w <= w /\ w - w = 0
    BY <1>3
  <2> QED
    BY <2>1 DEF S
<1>5. restOf(base, m, 0) = m /\ restOf(base, n, 0) = n
  BY RestRecurs
<1> QED
  BY <1>4, <1>5
-----------------------------------------------------------------------------
(* Counting up: the last bytes that are the greatest become zero, and ...  *)
Full(base, n, k) == \A l \in 0..k - 1 : byteOf(base, n, l) = base - 1

LEMMA CarryOn ==
    ASSUME NEW base \in Nat \ {0}, NEW n \in Nat, NEW k \in Nat, Full(base, n, k)
    PROVE  /\ restOf(base, n + 1, k) = restOf(base, n, k) + 1
           /\ \A l \in 0..k - 1 : byteOf(base, n + 1, l) = 0
<1> DEFINE S == {d \in Nat : d <= k =>
                    /\ restOf(base, n + 1, d) = restOf(base, n, d) + 1
                    /\ \A l \in 0..d - 1 : byteOf(base, n + 1, l) = 0}
<1> DEFINE N == n + 1
<1>N. N \in Nat /\ N = n + 1
  OBVIOUS
<1> HIDE DEF N
<1>1. 0 \in S
  <2>1. restOf(base, N, 0) = N /\ restOf(base, n, 0) = n
    BY <1>N, RestRecurs
  <2> QED
    BY <1>N, <2>1
<1>2. ASSUME NEW d \in Nat, d \in S PROVE d + 1 \in S
  <2> SUFFICES ASSUME d + 1 <= k
               PROVE  /\ restOf(base, n + 1, d + 1) = restOf(base, n, d + 1) + 1
                      /\ \A l \in 0..(d + 1) - 1 : byteOf(base, n + 1, l) = 0
    OBVIOUS
  <2>1. /\ restOf(base, n + 1, d) = restOf(base, n, d) + 1
        /\ \A l \in 0..d - 1 : byteOf(base, n + 1, l) = 0
    BY <1>2
  <2> DEFINE q == restOf(base, n, d + 1)
  <2>2. q \in Nat
    <3>1. d + 1 \in Nat
      OBVIOUS
    <3> QED
      BY <3>1, RestRecurs
  <2>3. restOf(base, n, d) = base * q + (base - 1)
    <3>1. byteOf(base, n, d) = base - 1
      BY DEF Full
    <3> QED
      BY <3>1, RestRecurs
  <2> HIDE DEF q
  <2> DEFINE p == q + 1
  <2>4. restOf(base, n + 1, d) = base * p + 0
    BY <2>1, <2>2, <2>3
  <2>5. p \in Nat /\ 0 \in 0..base - 1
    BY <2>2
  <2> HIDE DEF p
  <2>6. /\ restOf(base, n + 1, d) \div base = p
        /\ restOf(base, n + 1, d) % base = 0
    BY <2>4, <2>5, ModUnique
  <2>7. /\ restOf(base, n + 1, d + 1) = restOf(base, n + 1, d) \div base
        /\ byteOf(base, n + 1, d) = restOf(base, n + 1, d) % base
    <3>1. /\ restOf(base, N, d + 1) = restOf(base, N, d) \div base
          /\ byteOf(base, N, d) = restOf(base, N, d) % base
      BY <1>N, RestRecurs, ZenonT(30)
    <3> QED
      BY <1>N, <3>1
  <2>8. ASSUME NEW l \in 0..(d + 1) - 1 PROVE byteOf(base, n + 1, l) = 0
    <3>1. l \in 0..d - 1 \/ l = d
      OBVIOUS
    <3> QED
      BY <2>1, <2>6, <2>7, <3>1
  <2> QED
    BY <2>6, <2>7, <2>8 DEF p, q
<1> HIDE DEF S
<1>3. \A d \in Nat : d \in S
  BY <1>1, <1>2, Induction
<1> QED
  BY <1>3 DEF S

(* ... the one before them goes up by one, and no other changes.           *)
LEMMA CarryEnds ==
    ASSUME NEW base \in Nat \ {0}, NEW n \in Nat, NEW k \in Nat, Full(base, n, k),
           byteOf(base, n, k) # base - 1
    PROVE  /\ byteOf(base, n + 1, k) = byteOf(base, n, k) + 1
           /\ \A l \in Nat : l > k =>
                 /\ restOf(base, n + 1, l) = restOf(base, n, l)
                 /\ byteOf(base, n + 1, l) = byteOf(base, n, l)
<1> DEFINE q == restOf(base, n, k + 1)
           b == byteOf(base, n, k)
<1>1. q \in Nat /\ b \in 0..base - 1 /\ restOf(base, n, k) = base * q + b
  BY RestRecurs DEF Byte
<1>2. restOf(base, n + 1, k) = restOf(base, n, k) + 1
  BY CarryOn
<1> HIDE DEF q
<1>3. b + 1 \in 0..base - 1 /\ b \in Int
  BY <1>1
<1> HIDE DEF b
<1>4. restOf(base, n + 1, k) = base * q + (b + 1)
  BY <1>1, <1>2, <1>3
<1>5. /\ restOf(base, n + 1, k) \div base = q
      /\ restOf(base, n + 1, k) % base = b + 1
  BY <1>1, <1>3, <1>4, ModUnique
<1>N. n + 1 \in Nat
  OBVIOUS
<1>6. restOf(base, n + 1, k + 1) = q /\ byteOf(base, n + 1, k) = b + 1
  BY <1>5, <1>N, RestRecurs
<1> DEFINE S == {d \in Nat : restOf(base, n + 1, (k + 1) + d) = restOf(base, n, (k + 1) + d)}
<1>7. 0 \in S
  BY <1>6 DEF q
<1>8. ASSUME NEW d \in Nat, d \in S PROVE d + 1 \in S
  <2>1. (k + 1) + d \in Nat /\ (k + 1) + (d + 1) = ((k + 1) + d) + 1 /\ n + 1 \in Nat
    OBVIOUS
  <2>2. /\ restOf(base, n, ((k + 1) + d) + 1) = restOf(base, n, (k + 1) + d) \div base
        /\ restOf(base, n + 1, ((k + 1) + d) + 1) = restOf(base, n + 1, (k + 1) + d) \div base
    BY <2>1, RestRecurs, ZenonT(30)
  <2> QED
    BY <1>8, <2>1, <2>2
<1> HIDE DEF S
<1>9. \A d \in Nat : d \in S
  BY <1>7, <1>8, Induction
<1>10. ASSUME NEW l \in Nat, l > k
       PROVE  /\ restOf(base, n + 1, l) = restOf(base, n, l)
              /\ byteOf(base, n + 1, l) = byteOf(base, n, l)
  <2>1. l - (k + 1) \in Nat /\ (k + 1) + (l - (k + 1)) = l
    BY <1>10
  <2>2. restOf(base, n + 1, l) = restOf(base, n, l)
    BY <1>9, <2>1 DEF S
  <2>3. /\ byteOf(base, n + 1, l) = restOf(base, n + 1, l) % base
        /\ byteOf(base, n, l) = restOf(base, n, l) % base
    BY <1>N, RestRecurs, ZenonT(30)
  <2> QED
    BY <2>2, <2>3
<1> QED
  BY <1>6, <1>10 DEF b

(* Unless all are at their greatest, there is a first one that is not.     *)
LEMMA FirstHolding ==
    ASSUME NEW base \in Nat \ {0}, NEW n \in Nat, NEW w \in Nat, ~Full(base, n, w)
    PROVE  \E k \in 0..w - 1 : Full(base, n, k) /\ byteOf(base, n, k) # base - 1
<1> DEFINE S == {k \in 0..w - 1 : byteOf(base, n, k) # base - 1}
<1>1. S \in SUBSET Nat /\ S # {}
  BY DEF Full
<1>2. PICK k \in S : \A l \in S : k <= l
  BY <1>1, Least
<1>3. ASSUME NEW l \in 0..k - 1 PROVE byteOf(base, n, l) = base - 1
  <2>1. l \in 0..w - 1 /\ ~(k <= l)
    BY <1>2
  <2> QED
    BY <1>2, <2>1
<1> QED
  BY <1>2, <1>3 DEF Full

(* Every byte at its greatest is the greatest number there is.             *)
LEMMA FullIsLast ==
    ASSUME NEW base \in Nat \ {0}, NEW n \in Nat, NEW w \in Nat, n < powers(base)[w]
    PROVE  Full(base, n, w) <=> n + 1 = powers(base)[w]
<1>1. restOf(base, n, w) = 0 /\ powers(base)[w] \in Nat \ {0} /\ n + 1 \in Nat
  BY FitsBytes, PowersRecur
<1>2. n + 1 < powers(base)[w] <=> restOf(base, n + 1, w) = 0
  BY <1>1, FitsBytes
<1>3. ASSUME Full(base, n, w) PROVE n + 1 = powers(base)[w]
  <2>1. restOf(base, n + 1, w) = 1
    BY <1>1, <1>3, CarryOn
  <2> QED
    BY <1>1, <1>2, <2>1
<1>4. ASSUME ~Full(base, n, w) PROVE n + 1 # powers(base)[w]
  <2>1. PICK k \in 0..w - 1 : Full(base, n, k) /\ byteOf(base, n, k) # base - 1
    BY <1>4, FirstHolding
  <2>2. restOf(base, n + 1, w) = restOf(base, n, w)
    BY <2>1, CarryEnds
  <2> QED
    BY <1>1, <1>2, <2>2
<1> QED
  BY <1>3, <1>4

(* More bytes hold more numbers.                                           *)
LEMMA PowersGrow ==
    ASSUME NEW base \in Nat \ {0}, NEW j \in Nat, NEW k \in Nat, j <= k
    PROVE  powers(base)[j] <= powers(base)[k]
<1> DEFINE P == powers(base)
           S == {d \in Nat : P[j] <= P[j + d]}
<1>1. P \in [Nat -> Nat \ {0}] /\ \A n \in Nat : P[n + 1] = base * P[n]
  BY PowersRecur
<1> HIDE DEF P
<1>2. 0 \in S
  BY <1>1
<1>3. ASSUME NEW d \in Nat, d \in S PROVE d + 1 \in S
  <2>1. j + d \in Nat /\ j + (d + 1) = (j + d) + 1
    OBVIOUS
  <2>2. P[j + (d + 1)] = base * P[j + d]
    BY <1>1, <2>1
  <2> DEFINE p == P[j + d]
  <2>3. p \in Nat /\ P[j] \in Nat /\ P[j] <= p
    BY <1>1, <1>3, <2>1
  <2> HIDE DEF p
  <2>4. 1 * p <= base * p /\ base * p \in Nat
    BY <2>3, TimesMonotone
  <2>5. P[j] <= base * p
    BY <2>3, <2>4
  <2> QED
    BY <2>2, <2>5 DEF p
<1> HIDE DEF S
<1>4. \A d \in Nat : d \in S
  BY <1>2, <1>3, Induction
<1>5. k - j \in Nat /\ j + (k - j) = k
  OBVIOUS
<1> QED
  BY <1>4, <1>5 DEF S, P

(* The number of a sequence of bytes, byte by byte.                        *)
NumberOf(base, bytes, number) ==
    /\ number \in [0..Len(bytes) -> Nat] /\ number[0] = 0
    /\ \A k \in 1..Len(bytes) : number[k] = number[k - 1] * base + bytes[k]

LEMMA NumberRecurs ==
    ASSUME NEW base \in Nat \ {0}, NEW bytes \in Seq(Byte(base))
    PROVE  \E number : /\ NumberOf(base, bytes, number)
                       /\ bigEndianNumber(base, bytes) = number[Len(bytes)]
<1> DEFINE L     == Len(bytes)
           at(k) == IF k + 1 \in 1..L THEN bytes[k + 1] ELSE 0
           step  == [k \in Nat |-> [p \in Nat |-> p * base + at(k)]]
<1>1. L \in Nat /\ \A k \in 1..L : bytes[k] \in Nat
  BY DEF Byte
<1> HIDE DEF L
<1>2. \A k \in Nat, p \in Nat : p * base + at(k) \in Nat
  <2> SUFFICES ASSUME NEW k \in Nat, NEW p \in Nat PROVE p * base + at(k) \in Nat
    OBVIOUS
  <2>1. at(k) \in Nat
    BY <1>1
  <2>2. p * base \in Nat
    BY TimesNat
  <2> HIDE DEF at
  <2> QED
    BY <2>1, <2>2
<1>3. step \in [Nat -> [Nat -> Nat]]
  BY <1>2
<1>4. PICK f \in [Nat -> Nat] : Recurs(f, 0, step)
  <2> HIDE DEF step
  <2> QED
    BY <1>3, Recursion
<1>5. ASSUME NEW k \in 1..L PROVE f[k] = f[k - 1] * base + bytes[k]
  <2>1. k - 1 \in Nat /\ (k - 1) + 1 = k /\ f[k - 1] \in Nat
    BY SMTT(30)
  <2>2. f[k] = step[k - 1][f[k - 1]]
    BY <1>4, <2>1 DEF Recurs
  <2>3. at(k - 1) = bytes[k]
    BY <2>1
  <2> HIDE DEF at
  <2> QED
    BY <2>1, <2>2, <2>3
<1> HIDE DEF step
<1> DEFINE g == [k \in 0..L |-> f[k]]
           number == CHOOSE m : m = [k \in 0..L |-> IF k = 0 THEN 0 ELSE m[k - 1] * base + bytes[k]]
<1>6. f[0] = 0
  BY <1>4 DEF Recurs
<1>7. ASSUME NEW k \in 0..L PROVE g[k] = IF k = 0 THEN 0 ELSE g[k - 1] * base + bytes[k]
  <2>1. CASE k = 0
    BY <1>6, <2>1
  <2>2. CASE k # 0
    <3>1. k \in 1..L /\ k - 1 \in 0..L
      BY <2>2, <1>1
    <3> QED
      BY <1>5, <2>2, <3>1
  <2> QED
    BY <2>1, <2>2
<1>8. g = [k \in 0..L |-> g[k]]
  OBVIOUS
<1> HIDE DEF g
<1>9. g = [k \in 0..L |-> IF k = 0 THEN 0 ELSE g[k - 1] * base + bytes[k]]
  BY <1>7, <1>8
<1>10. number = [k \in 0..L |-> IF k = 0 THEN 0 ELSE number[k - 1] * base + bytes[k]]
  BY <1>9
<1>11. bigEndianNumber(base, bytes) = number[L]
  BY DEF bigEndianNumber, L
<1> HIDE DEF number
<1>12. number[0] = 0 /\ \A k \in 1..L : number[k] = number[k - 1] * base + bytes[k]
  <2>1. 0 \in 0..L
    BY <1>1
  <2>2. ASSUME NEW k \in 1..L PROVE number[k] = number[k - 1] * base + bytes[k]
    <3>1. k \in 0..L /\ k # 0
      BY <1>1
    <3> QED
      BY <1>10, <3>1
  <2> QED
    BY <1>10, <2>1, <2>2
<1>13. \A k \in 0..L : number[k] \in Nat
  <2> DEFINE S == {k \in Nat : k <= L => number[k] \in Nat}
  <2>1. 0 \in S
    BY <1>12, SMTT(30)
  <2>2. ASSUME NEW k \in Nat, k \in S PROVE k + 1 \in S
    <3> SUFFICES ASSUME k + 1 <= L PROVE number[k + 1] \in Nat
      OBVIOUS
    <3>1. k + 1 \in 1..L /\ (k + 1) - 1 = k /\ number[k] \in Nat
      BY <1>1, <2>2
    <3> DEFINE p == number[k] * base
               b == bytes[k + 1]
    <3>2. number[k + 1] = p + b
      BY <1>12, <3>1
    <3>3. p \in Nat
      BY <3>1, TimesNat
    <3>4. b \in Nat
      BY <1>1, <3>1
    <3> HIDE DEF p, b
    <3>5. p + b \in Nat
      BY <3>3, <3>4
    <3> QED
      BY <3>2, <3>5
  <2> HIDE DEF S
  <2>3. \A k \in Nat : k \in S
    BY <2>1, <2>2, Induction
  <2> QED
    BY <1>1, <2>3 DEF S
<1>14. number \in [0..L -> Nat]
  BY <1>10, <1>13
<1> QED
  BY <1>11, <1>12, <1>14 DEF NumberOf, L

(* A number is that of its bytes, ...                                      *)
LEMMA NumberOfBytes ==
    ASSUME NEW base \in Nat \ {0}, NEW n \in Nat, NEW w \in Nat, n < powers(base)[w]
    PROVE  /\ bigEndian(base, n, w) \in Seq(Byte(base)) /\ Len(bigEndian(base, n, w)) = w
           /\ bigEndianNumber(base, bigEndian(base, n, w)) = n
<1> DEFINE bytes == bigEndian(base, n, w)
<1>1. /\ bytes \in Seq(Byte(base)) /\ Len(bytes) = w
      /\ \A k \in 1..w : bytes[k] = byteOf(base, n, w - k)
  <2>1. \A k \in 1..w : w - k \in Nat
    OBVIOUS
  <2>2. \A k \in 1..w : byteOf(base, n, w - k) \in Byte(base)
    BY <2>1, RestRecurs
  <2> QED
    BY <2>2 DEF bigEndian
<1> HIDE DEF bytes
<1>2. PICK number : NumberOf(base, bytes, number) /\ bigEndianNumber(base, bytes) = number[w]
  BY <1>1, NumberRecurs
<1> DEFINE S == {k \in Nat : k <= w => number[k] = restOf(base, n, w - k)}
<1>3. 0 \in S
  <2>1. restOf(base, n, w) = 0
    BY FitsBytes
  <2> QED
    BY <1>2, <2>1 DEF NumberOf
<1>4. ASSUME NEW k \in Nat, k \in S PROVE k + 1 \in S
  <2> SUFFICES ASSUME k + 1 <= w PROVE number[k + 1] = restOf(base, n, w - (k + 1))
    OBVIOUS
  <2>1. /\ k + 1 \in 1..w /\ (k + 1) - 1 = k /\ number[k] = restOf(base, n, w - k)
        /\ w - (k + 1) \in Nat /\ (w - (k + 1)) + 1 = w - k
    BY <1>4
  <2>2. number[k + 1] = number[k] * base + bytes[k + 1]
    BY <1>1, <1>2, <2>1 DEF NumberOf
  <2> DEFINE l == w - (k + 1)
  <2>3. l \in Nat /\ l + 1 = w - k /\ bytes[k + 1] = byteOf(base, n, l)
    BY <1>1, <2>1
  <2> HIDE DEF l
  <2>4. /\ restOf(base, n, l) = base * restOf(base, n, l + 1) + byteOf(base, n, l)
        /\ restOf(base, n, l + 1) \in Nat
    <3>1. l + 1 \in Nat
      BY <2>3
    <3> QED
      BY <2>3, <3>1, RestRecurs
  <2>5. base * restOf(base, n, l + 1) = restOf(base, n, l + 1) * base
    BY <2>4
  <2>6. number[k + 1] = restOf(base, n, l)
    BY <2>1, <2>2, <2>3, <2>4, <2>5
  <2> QED
    BY <2>6 DEF l
<1> HIDE DEF S
<1>5. \A k \in Nat : k \in S
  BY <1>3, <1>4, Induction
<1>6. number[w] = restOf(base, n, 0)
  <2>1. w \in S /\ w <= w /\ w - w = 0
    BY <1>5
  <2> QED
    BY <2>1 DEF S
<1>7. restOf(base, n, 0) = n
  BY RestRecurs
<1> QED
  BY <1>1, <1>2, <1>6, <1>7 DEF bytes

(* ... and bytes are those of their number.                                *)
LEMMA BytesOfNumber ==
    ASSUME NEW base \in Nat \ {0}, NEW bytes \in Seq(Byte(base))
    PROVE  /\ bigEndianNumber(base, bytes) \in Nat
           /\ bigEndianNumber(base, bytes) < powers(base)[Len(bytes)]
           /\ bigEndian(base, bigEndianNumber(base, bytes), Len(bytes)) = bytes
<1> DEFINE n == bigEndianNumber(base, bytes)
           w == Len(bytes)
<1>1. w \in Nat /\ \A k \in 1..w : bytes[k] \in 0..base - 1
  BY DEF Byte
<1>2. PICK number : NumberOf(base, bytes, number) /\ n = number[w]
  BY NumberRecurs
<1> HIDE DEF n
<1>3. /\ number \in [0..w -> Nat] /\ number[0] = 0
      /\ \A k \in 1..w : number[k] = number[k - 1] * base + bytes[k]
  BY <1>2 DEF NumberOf
<1>4. n \in Nat
  BY <1>1, <1>2, <1>3
<1> HIDE DEF w
<1>5. ASSUME NEW k \in 1..w
      PROVE  number[k] \div base = number[k - 1] /\ number[k] % base = bytes[k]
  <2> DEFINE q == number[k - 1]
             r == bytes[k]
  <2>1. q \in Nat /\ r \in 0..base - 1 /\ number[k] = q * base + r
    BY <1>1, <1>3
  <2> HIDE DEF q, r
  <2>2. number[k] = base * q + r
    BY <2>1
  <2>3. number[k] \div base = q /\ number[k] % base = r
    BY <2>1, <2>2, ModUnique
  <2> QED
    BY <2>3 DEF q, r
<1> DEFINE S == {d \in Nat : d <= w => restOf(base, n, d) = number[w - d]}
<1>6. 0 \in S
  <2>1. restOf(base, n, 0) = n /\ w - 0 = w
    BY <1>1, <1>4, RestRecurs
  <2> QED
    BY <1>2, <2>1
<1>7. ASSUME NEW d \in Nat, d \in S PROVE d + 1 \in S
  <2> SUFFICES ASSUME d + 1 <= w PROVE restOf(base, n, d + 1) = number[w - (d + 1)]
    OBVIOUS
  <2>1. restOf(base, n, d) = number[w - d] /\ w - d \in 1..w /\ (w - d) - 1 = w - (d + 1)
    BY <1>1, <1>7
  <2>2. restOf(base, n, d + 1) = restOf(base, n, d) \div base
    BY <1>4, RestRecurs
  <2>3. number[w - d] \div base = number[(w - d) - 1]
    BY <1>5, <2>1
  <2> QED
    BY <2>1, <2>2, <2>3
<1> HIDE DEF S
<1>8. \A d \in Nat : d \in S
  BY <1>6, <1>7, Induction
<1>9. n < powers(base)[w]
  <2>1. w \in S /\ w <= w /\ w - w = 0
    BY <1>1, <1>8
  <2>2. restOf(base, n, w) = 0
    BY <1>3, <2>1 DEF S
  <2> QED
    BY <1>1, <1>4, <2>2, FitsBytes
<1>10. ASSUME NEW k \in 1..w PROVE byteOf(base, n, w - k) = bytes[k]
  <2>1. w - k \in Nat /\ w - k <= w /\ w - (w - k) = k
    BY <1>1
  <2>2. restOf(base, n, w - k) = number[k]
    BY <1>8, <2>1 DEF S
  <2>3. byteOf(base, n, w - k) = restOf(base, n, w - k) % base
    BY <1>4, <2>1, RestRecurs
  <2> QED
    BY <1>5, <2>2, <2>3
<1>11. bytes = [k \in 1..w |-> bytes[k]]
  BY DEF w
<1>12. bigEndian(base, n, w) = bytes
  BY <1>10, <1>11 DEF bigEndian
<1> QED
  BY <1>4, <1>9, <1>12 DEF n, w
-----------------------------------------------------------------------------
(* Concatenation is associative, in a form that is cheap to instantiate.   *)
Associates(s, t, u) == (s \o t) \o u = s \o (t \o u)

LEMMA ConcatAssociates ==
    ASSUME NEW S, NEW s \in Seq(S), NEW t \in Seq(S), NEW u \in Seq(S)
    PROVE  Associates(s, t, u)
BY ConcatAssociative DEF Associates

(* What a reader hands out and what it keeps are together what it had.     *)
LEMMA SplitJoins ==
    ASSUME NEW S, NEW s \in Seq(S), NEW k \in 0..Len(s)
    PROVE  /\ SubSeq(s, 1, k) \in Seq(S) /\ Len(SubSeq(s, 1, k)) = k
           /\ SubSeq(s, k + 1, Len(s)) \in Seq(S)
           /\ Len(SubSeq(s, k + 1, Len(s))) = Len(s) - k
           /\ SubSeq(s, 1, k) \o SubSeq(s, k + 1, Len(s)) = s
<1>1. Len(s) \in Nat /\ k \in Nat /\ k <= Len(s)
  OBVIOUS
<1>2. /\ SubSeq(s, 1, k) \in Seq(S) /\ Len(SubSeq(s, 1, k)) = k
      /\ SubSeq(s, k + 1, Len(s)) \in Seq(S)
      /\ Len(SubSeq(s, k + 1, Len(s))) = Len(s) - k
  BY <1>1
<1>3. SubSeq(s, 1, k) \o SubSeq(s, k + 1, Len(s)) = s
  <2>1. /\ 1 \in 1..Len(s) + 1 /\ k \in (1 - 1)..Len(s)
        /\ Len(s) \in k..Len(s)
    BY <1>1
  <2>2. SubSeq(s, 1, k) \o SubSeq(s, k + 1, Len(s)) = SubSeq(s, 1, Len(s))
    BY <2>1, ConcatAdjacentSubSeq
  <2>3. SubSeq(s, 1, Len(s)) = s
    BY SubSeqFull
  <2> QED
    BY <2>2, <2>3
<1> QED
  BY <1>2, <1>3

(* A part of the first of two sequences is a part of both in a row.        *)
LEMMA SubSeqOfFirst ==
    ASSUME NEW S, NEW s \in Seq(S), NEW t \in Seq(S),
           NEW m \in Nat \ {0}, NEW n \in Nat, n <= Len(s)
    PROVE  SubSeq(s \o t, m, n) = SubSeq(s, m, n)
OBVIOUS

LEMMA SubSeqOfSecond ==
    ASSUME NEW S, NEW s \in Seq(S), NEW t \in Seq(S)
    PROVE  SubSeq(s \o t, Len(s) + 1, Len(s) + Len(t)) = t
OBVIOUS
-----------------------------------------------------------------------------
(* The instance means the same numbers.                                    *)
LEMMA SameNumbers ==
    /\ \A base : Header!powers(base) = powers(base)
    /\ \A base, n, w : Header!bigEndian(base, n, w) = bigEndian(base, n, w)
    /\ \A base, bytes : Header!bigEndianNumber(base, bytes) = bigEndianNumber(base, bytes)
<1>1. \A base : Header!powers(base) = powers(base)
  BY DEF powers, Header!powers
<1>2. \A base, n, w : Header!bigEndian(base, n, w) = bigEndian(base, n, w)
  BY <1>1 DEF bigEndian, Header!bigEndian, byteOf, Header!byteOf
<1>3. \A base, bytes : Header!bigEndianNumber(base, bytes) = bigEndianNumber(base, bytes)
  BY DEF bigEndianNumber, Header!bigEndianNumber
<1> QED
  BY <1>1, <1>2, <1>3

(* The numbers that fit a width are those below its capacity, and a wider  *)
(* one holds more.                                                         *)
HeaderByte == Byte(Header!Base)

LEMMA Capacities ==
    ASSUME Header!HeaderSizes
    PROVE  /\ Header!Base \in Nat \ {0} /\ Len(Widths) \in Nat
           /\ \A i \in 0..Len(Widths) : Header!capacity(i) \in Nat \ {0}
           /\ Header!capacity(0) = Direct
           /\ \A i \in 1..Len(Widths) : /\ Widths[i] \in Nat \ {0}
                                        /\ Header!capacity(i) = powers(Header!Base)[Widths[i]]
           /\ \A i, j \in 0..Len(Widths) :
                 i <= j => Header!capacity(i) <= Header!capacity(j)
<1> DEFINE W == Len(Widths)
           B == Header!Base
           cap(i) == Header!capacity(i)
<1>1. /\ B \in Nat \ {0} /\ W \in Nat /\ Infos \in Nat /\ Direct \in Nat \ {0}
      /\ \A i \in 1..W : Widths[i] \in Nat \ {0}
      /\ B = 8 * Infos /\ Direct <= B
  BY DEF Header!HeaderSizes, Header!Base
<1> HIDE DEF B
<1>2. cap(0) = Direct
  BY DEF Header!capacity
<1>3. \A i \in 1..W : i # 0 /\ cap(i) = powers(B)[Widths[i]]
  BY <1>1, SameNumbers DEF Header!capacity, B
<1>4. \A i \in 0..W : cap(i) \in Nat \ {0}
  <2> SUFFICES ASSUME NEW i \in 0..W PROVE cap(i) \in Nat \ {0}
    OBVIOUS
  <2>1. CASE i = 0
    BY <1>1, <1>2, <2>1
  <2>2. CASE i # 0
    <3> DEFINE p == powers(B)[Widths[i]]
    <3>1. i \in 1..W /\ Widths[i] \in Nat
      BY <1>1, <2>2
    <3>2. p \in Nat \ {0}
      BY <1>1, <3>1, PowersRecur, ZenonT(30)
    <3>3. cap(i) = p
      BY <1>3, <3>1
    <3> QED
      BY <3>2, <3>3
  <2> QED
    BY <2>1, <2>2
<1>5. ASSUME NEW i \in 0..W - 1 PROVE cap(i) <= cap(i + 1)
  <2>1. i + 1 \in 1..W /\ Widths[i + 1] \in Nat \ {0} /\ cap(i + 1) = powers(B)[Widths[i + 1]]
    BY <1>1, <1>3
  <2>2. CASE i = 0
    <3>1. powers(B)[0 + 1] = B * powers(B)[0] /\ powers(B)[0] = 1
      BY <1>1, PowersRecur
    <3>2. powers(B)[1] = B
      BY <1>1, <3>1
    <3>3. 1 \in Nat /\ 1 <= Widths[i + 1] /\ Widths[i + 1] \in Nat
      BY <2>1
    <3>4. powers(B)[1] <= powers(B)[Widths[i + 1]]
      BY <1>1, <3>3, PowersGrow
    <3>5. cap(i) = Direct /\ B <= cap(i + 1) /\ cap(i + 1) \in Int
      BY <1>2, <1>4, <2>1, <2>2, <3>2, <3>4
    <3> QED
      BY <1>1, <3>5
  <2>3. CASE i # 0
    <3>1. i \in 1..W /\ i \in 1..W - 1
      BY <1>1, <2>3
    <3>2. Widths[i] \in Nat /\ Widths[i + 1] \in Nat /\ Widths[i] <= Widths[i + 1]
      BY <1>1, <2>1, <3>1 DEF Header!HeaderSizes
    <3>3. powers(B)[Widths[i]] <= powers(B)[Widths[i + 1]]
      BY <1>1, <3>2, PowersGrow
    <3> QED
      BY <1>3, <2>1, <3>1, <3>3
  <2> QED
    BY <2>2, <2>3
<1> HIDE DEF cap, W
<1>6. ASSUME NEW i \in 0..W, NEW j \in 0..W, i <= j PROVE cap(i) <= cap(j)
  <2> DEFINE S == {d \in Nat : i + d <= W => cap(i) <= cap(i + d)}
  <2>1. 0 \in S
    <3>1. i + 0 = i /\ cap(i) \in Nat
      BY <1>4
    <3> QED
      BY <3>1
  <2>2. ASSUME NEW d \in Nat, d \in S PROVE d + 1 \in S
    <3> SUFFICES ASSUME i + (d + 1) <= W PROVE cap(i) <= cap(i + (d + 1))
      OBVIOUS
    <3>1. i + d \in 0..W - 1 /\ i + (d + 1) = (i + d) + 1 /\ i + d \in 0..W
          /\ (i + d) + 1 \in 0..W
      BY <1>1
    <3>2. cap(i) <= cap(i + d) /\ cap(i + d) <= cap((i + d) + 1)
      BY <1>1, <1>5, <2>2, <3>1
    <3>3. cap(i) \in Nat /\ cap(i + d) \in Nat /\ cap((i + d) + 1) \in Nat
      BY <1>4, <3>1
    <3> DEFINE a == cap(i)
               b == cap(i + d)
               c == cap((i + d) + 1)
    <3> HIDE DEF a, b, c
    <3>4. a <= c
      <4>1. a <= b /\ b <= c /\ a \in Nat /\ b \in Nat /\ c \in Nat
        BY <3>2, <3>3 DEF a, b, c
      <4> QED
        BY <4>1
    <3> QED
      BY <3>1, <3>4 DEF a, c
  <2> HIDE DEF S
  <2>3. \A d \in Nat : d \in S
    BY <2>1, <2>2, Induction
  <2>4. j - i \in Nat /\ i + (j - i) = j /\ j <= W
    BY <1>1, <1>6
  <2> QED
    BY <2>3, <2>4 DEF S
<1> QED
  BY <1>1, <1>2, <1>3, <1>4, <1>6 DEF B, W, cap

(* One width is the shortest for a number.                                 *)
Fits(n, i) == n \in Header!capacity(i - 1)..(Header!capacity(i) - 1)

LEMMA OneWidth ==
    ASSUME Header!HeaderSizes, NEW n \in 0..Header!MaxUint64, Direct <= n
    PROVE  /\ Header!widthIndex(n) \in 1..Len(Widths)
           /\ Fits(n, Header!widthIndex(n))
           /\ \A i \in 1..Len(Widths) : Fits(n, i) => i = Header!widthIndex(n)
<1> DEFINE W == Len(Widths)
           cap(i) == Header!capacity(i)
           S == {i \in 0..W : n < cap(i)}
<1>1. /\ W \in Nat /\ DOMAIN Widths = 1..W
      /\ \A i \in 0..W : cap(i) \in Nat
      /\ cap(0) = Direct
      /\ \A i, j \in 0..W : i <= j => cap(i) <= cap(j)
  BY Capacities DEF Header!HeaderSizes
<1> HIDE DEF cap
<1>2. n \in Nat /\ n < cap(W) /\ W \in 0..W
  BY <1>1 DEF Header!MaxUint64, cap
<1> HIDE DEF W
<1>3. PICK k \in S : \A i \in S : k <= i
  <2>1. S \in SUBSET Nat /\ S # {}
    BY <1>2
  <2> QED
    BY <2>1, Least
<1>4. k \in 1..W /\ cap(k - 1) <= n /\ n < cap(k)
  <2>1. k # 0
    BY <1>1, <1>2, <1>3
  <2>2. k \in 1..W /\ k - 1 \in 0..W /\ ~(k <= k - 1)
    BY <1>1, <1>3, <2>1
  <2>3. ~(n < cap(k - 1)) /\ cap(k - 1) \in Nat
    BY <1>1, <1>3, <2>2
  <2> QED
    BY <1>2, <1>3, <2>2, <2>3
<1>5. Fits(n, k)
  <2>1. cap(k) \in Nat /\ cap(k - 1) \in Nat
    BY <1>1, <1>4
  <2> QED
    BY <1>2, <1>4, <2>1 DEF Fits, cap
<1>6. ASSUME NEW i \in 1..W, Fits(n, i) PROVE i = k
  <2>1. cap(i - 1) <= n /\ n < cap(i) /\ i \in 0..W /\ i - 1 \in 0..W
        /\ cap(i - 1) \in Nat /\ cap(i) \in Nat /\ k \in 0..W /\ k - 1 \in 0..W
        /\ cap(k - 1) \in Nat /\ cap(k) \in Nat /\ k \in Int
    BY <1>1, <1>4, <1>6 DEF Fits, cap
  <2>2. ~(i <= k - 1)
    <3>1. i <= k - 1 => cap(i) <= cap(k - 1)
      BY <1>1, <2>1
    <3> QED
      BY <1>2, <1>4, <2>1, <3>1
  <2>3. ~(k <= i - 1)
    <3>1. k <= i - 1 => cap(k) <= cap(i - 1)
      BY <1>1, <2>1
    <3> QED
      BY <1>2, <1>4, <2>1, <3>1
  <2> QED
    BY <2>1, <2>2, <2>3
<1>7. Header!widthIndex(n) = CHOOSE i \in 1..W : Fits(n, i)
  BY <1>1 DEF Header!widthIndex, Fits, W
<1>8. Header!widthIndex(n) = k
  BY <1>4, <1>5, <1>6, <1>7
<1> QED
  BY <1>4, <1>5, <1>6, <1>8 DEF W

(* What decodeHeader reads from the byte at a position and those behind.   *)
majorAt(data, pos) == data[pos] \div Infos
infoAt(data, pos)  == data[pos] % Infos
widthAt(data, pos) == infoAt(data, pos) - Direct + 1
behind(data, pos)  == pos + 1 + Widths[widthAt(data, pos)]
valueAt(data, pos) == bigEndianNumber(Header!Base, SubSeq(data, pos + 1, behind(data, pos) - 1))

HeaderAt(major, value, next) == [major |-> major, value |-> value, next |-> next]

LEMMA HeaderCases ==
    ASSUME Header!HeaderSizes, NEW data \in Seq(HeaderByte), NEW pos \in 1..Len(data)
    PROVE  Header!decodeHeader(data, pos) =
             IF infoAt(data, pos) < Direct
                THEN HeaderAt(majorAt(data, pos), infoAt(data, pos), pos + 1)
             ELSE IF widthAt(data, pos) > Len(Widths)
                THEN Header!NoHeader(Header!Invalid)
             ELSE IF behind(data, pos) > Len(data) + 1
                THEN Header!NoHeader(Header!UnexpectedEOF)
             ELSE IF valueAt(data, pos) >= Header!capacity(widthAt(data, pos) - 1)
                THEN HeaderAt(majorAt(data, pos), valueAt(data, pos), behind(data, pos))
             ELSE Header!NoHeader(Header!Invalid)
<1> DEFINE info  == data[pos] % Infos
           i     == info - Direct + 1
           next  == pos + 1 + Widths[i]
           value == bigEndianNumber(Header!Base, SubSeq(data, pos + 1, next - 1))
<1>1. /\ pos \in Nat /\ Len(data) \in Nat /\ ~(pos > Len(data)) /\ Infos \in Nat \ {0}
      /\ Direct \in Nat /\ data[pos] \in Nat /\ Len(Widths) \in Nat
      /\ DOMAIN Widths = 1..Len(Widths)
      /\ \A k \in 1..Len(Widths) : Widths[k] \in Nat
  <2>1. data[pos] \in HeaderByte
    OBVIOUS
  <2>2. data[pos] \in Nat
    BY <2>1 DEF HeaderByte, Byte
  <2>3. pos \in Nat /\ Len(data) \in Nat /\ ~(pos > Len(data))
    OBVIOUS
  <2> QED
    BY <2>2, <2>3 DEF Header!HeaderSizes
<1>2. info \in Nat
  <2>1. info \in 0..Infos - 1
    BY <1>1, ModFacts
  <2> QED
    BY <1>1, <2>1
<1>3. Header!decodeHeader(data, pos) =
        CASE info < Direct -> HeaderAt(data[pos] \div Infos, info, pos + 1)
          [] i > Len(Widths) -> Header!NoHeader(Header!Invalid)
          [] i \in DOMAIN Widths ->
               CASE next > Len(data) + 1 -> Header!NoHeader(Header!UnexpectedEOF)
                 [] next <= Len(data) + 1 ->
                      IF value >= Header!capacity(i - 1)
                         THEN HeaderAt(data[pos] \div Infos, value, next)
                         ELSE Header!NoHeader(Header!Invalid)
  BY <1>1, SameNumbers DEF Header!decodeHeader, Header!canonical, HeaderAt
<1> HIDE DEF info, value
<1>4. CASE info < Direct
  <2>1. ~(i > Len(Widths)) /\ i \notin DOMAIN Widths
    BY <1>1, <1>2, <1>4
  <2> HIDE DEF i, next
  <2> QED
    BY <1>3, <1>4, <2>1 DEF infoAt, majorAt, info
<1>5. CASE ~(info < Direct) /\ i > Len(Widths)
  <2>1. i \notin DOMAIN Widths
    BY <1>1, <1>2, <1>5
  <2> HIDE DEF next
  <2> QED
    BY <1>3, <1>5, <2>1 DEF infoAt, widthAt, info
<1>6. CASE ~(info < Direct) /\ ~(i > Len(Widths))
  <2>1. i \in DOMAIN Widths
    BY <1>1, <1>2, <1>6
  <2>2. next \in Nat
    BY <1>1, <2>1
  <2>3. ~(next > Len(data) + 1) <=> next <= Len(data) + 1
    BY <1>1, <2>2
  <2>4. /\ infoAt(data, pos) = info /\ widthAt(data, pos) = i /\ behind(data, pos) = next
        /\ valueAt(data, pos) = value /\ majorAt(data, pos) = data[pos] \div Infos
    BY DEF infoAt, widthAt, behind, valueAt, majorAt, info, value
  <2> HIDE DEF i, next
  <2> QED
    BY <1>3, <1>6, <2>1, <2>3, <2>4
<1> QED
  BY <1>4, <1>5, <1>6

(* A header byte is a major type and an info.                              *)
LEMMA HeadByte ==
    ASSUME Header!HeaderSizes, NEW major \in 0..7, NEW info \in 0..Infos - 1
    PROVE  /\ Header!head(major, info) \in HeaderByte
           /\ Header!head(major, info) \div Infos = major
           /\ Header!head(major, info) % Infos = info
<1>1. Infos \in Nat \ {0} /\ major \in Nat
  BY DEF Header!HeaderSizes
<1>2. Header!head(major, info) = Infos * major + info
  BY <1>1 DEF Header!head
<1>3. Infos * major + info \in 0..8 * Infos - 1
  BY <1>1
<1> QED
  BY <1>1, <1>2, <1>3, ModUnique DEF HeaderByte, Byte, Header!Base

LEMMA HeadOf ==
    ASSUME Header!HeaderSizes, NEW byte \in HeaderByte
    PROVE  /\ byte \div Infos \in 0..7 /\ byte % Infos \in 0..Infos - 1
           /\ Header!head(byte \div Infos, byte % Infos) = byte
<1> DEFINE q == byte \div Infos
           r == byte % Infos
<1>1. Infos \in Nat \ {0} /\ byte \in Nat /\ byte < 8 * Infos
  BY DEF Header!HeaderSizes, HeaderByte, Byte, Header!Base
<1>2. r \in 0..Infos - 1 /\ byte = Infos * q + r /\ q \in Nat
  BY <1>1, ModFacts
<1> HIDE DEF q, r
<1>3. q \in 0..7
  <2>1. ASSUME q >= 8 PROVE FALSE
    <3>1. 8 * Infos <= q * Infos /\ q * Infos \in Nat
      BY <1>1, <1>2, <2>1, TimesMonotone
    <3>2. q * Infos = Infos * q
      BY <1>1, <1>2
    <3> QED
      BY <1>1, <1>2, <3>1, <3>2
  <2> QED
    BY <1>2, <2>1
<1>4. Header!head(q, r) = byte
  BY <1>1, <1>2 DEF Header!head
<1> QED
  BY <1>2, <1>3, <1>4 DEF q, r

(* The encoding of a number is its header byte and, if it is not in that,  *)
(* its bytes.                                                              *)
LEMMA Encodings ==
    ASSUME Header!HeaderSizes, NEW major \in 0..7, NEW n \in 0..Header!MaxUint64
    PROVE  /\ n < Direct => Header!encodeLength(major, n) = <<Header!head(major, n)>>
           /\ ~(n < Direct) =>
                 LET i == Header!widthIndex(n)
                 IN  Header!encodeLength(major, n) =
                       <<Header!head(major, Direct + i - 1)>>
                       \o bigEndian(Header!Base, n, Widths[i])
BY SameNumbers DEF Header!encodeLength

(* A part of a sequence is its first element and the rest.                 *)
LEMMA SubSeqFirst ==
    ASSUME NEW S, NEW s \in Seq(S), NEW p \in 1..Len(s), NEW q \in p..Len(s)
    PROVE  /\ SubSeq(s, p + 1, q) \in Seq(S) /\ Len(SubSeq(s, p + 1, q)) = q - p
           /\ SubSeq(s, p, q) = <<s[p]>> \o SubSeq(s, p + 1, q)
<1> DEFINE t == SubSeq(s, p + 1, q)
           u == SubSeq(s, p, q)
<1>1. p \in Nat /\ q \in Nat /\ 1 <= p /\ p <= q /\ q <= Len(s) /\ Len(s) \in Nat
  OBVIOUS
<1>2. t \in Seq(S) /\ Len(t) = q - p /\ \A k \in 1..q - p : t[k] = s[p + k]
  BY <1>1
<1>3. u \in Seq(S) /\ Len(u) = q - p + 1 /\ \A k \in 1..q - p + 1 : u[k] = s[p + k - 1]
  BY <1>1
<1>4. s[p] \in S
  BY <1>1
<1> HIDE DEF t, u
<1>5. <<s[p]>> \o t \in Seq(S) /\ Len(<<s[p]>> \o t) = q - p + 1
  BY <1>1, <1>2, <1>4, SMTT(30)
<1>6. ASSUME NEW k \in 1..q - p + 1 PROVE u[k] = (<<s[p]>> \o t)[k]
  <2> DEFINE one == <<s[p]>>
  <2>1. one \in Seq(S) /\ Len(one) = 1 /\ one[1] = s[p]
    BY <1>4
  <2> HIDE DEF one
  <2>2. k \in 1..Len(one) + Len(t)
    BY <1>1, <1>2, <2>1
  <2>3. (one \o t)[k] = IF k <= Len(one) THEN one[k] ELSE t[k - Len(one)]
    BY <1>2, <2>1, <2>2, ConcatProperties
  <2>4. CASE k = 1
    <3>1. u[k] = s[p]
      <4>1. p + k - 1 = p
        BY <1>1, <2>4
      <4> QED
        BY <1>3, <4>1
    <3> QED
      BY <2>1, <2>3, <2>4, <3>1 DEF one
  <2>5. CASE k # 1
    <3>1. k - 1 \in 1..q - p /\ p + (k - 1) = p + k - 1 /\ ~(k <= 1)
      BY <1>1, <2>5
    <3>2. t[k - 1] = s[p + k - 1]
      BY <1>2, <3>1
    <3> QED
      BY <1>3, <2>1, <2>3, <3>1, <3>2 DEF one
  <2> QED
    BY <2>4, <2>5
<1>7. u = <<s[p]>> \o t
  BY <1>3, <1>5, <1>6, SeqEqual
<1> QED
  BY <1>2, <1>7 DEF t, u

(* Whatever else there is, decodeHeader reads what encodeLength wrote.     *)
THEOREM HeaderReads ==
    ASSUME Header!HeaderSizes, NEW major \in 0..7, NEW n \in 0..Header!MaxUint64,
           NEW before \in Seq(HeaderByte), NEW after \in Seq(HeaderByte)
    PROVE  LET code == Header!encodeLength(major, n)
               pos  == Len(before) + 1
           IN  /\ code \in Seq(HeaderByte)
               /\ Header!decodeHeader(before \o code \o after, pos)
                    = [major |-> major, value |-> n, next |-> pos + Len(code)]
<1> DEFINE code == Header!encodeLength(major, n)
           pos  == Len(before) + 1
           data == before \o code \o after
<1>1. /\ Infos \in Nat \ {0} /\ Direct \in Nat \ {0} /\ Direct <= Infos
      /\ Header!MaxUint64 \in Nat /\ n \in Nat /\ Len(before) \in Nat
      /\ Direct + Len(Widths) <= Infos
  <2>1. Header!capacity(Len(Widths)) \in Nat \ {0}
    BY Capacities
  <2> QED
    BY <2>1 DEF Header!HeaderSizes, Header!MaxUint64
<1>2. CASE n < Direct
  <2> DEFINE byte == Header!head(major, n)
  <2>1. n \in 0..Infos - 1
    BY <1>1, <1>2
  <2>2. byte \in HeaderByte /\ byte \div Infos = major /\ byte % Infos = n
    BY <2>1, HeadByte
  <2>3. code = <<byte>>
    BY <1>2, Encodings
  <2> HIDE DEF code, byte
  <2>4. /\ code \in Seq(HeaderByte) /\ Len(code) = 1 /\ data \in Seq(HeaderByte)
        /\ pos \in 1..Len(data) /\ data[pos] = byte
    BY <2>2, <2>3
  <2> HIDE DEF data, pos
  <2>5. Header!decodeHeader(data, pos) = HeaderAt(major, n, pos + 1)
    BY <1>2, <2>2, <2>4, HeaderCases DEF majorAt, infoAt
  <2> QED
    BY <2>4, <2>5 DEF HeaderAt, code, data, pos
<1>3. CASE ~(n < Direct)
  <2> DEFINE i     == Header!widthIndex(n)
             w     == Widths[i]
             byte  == Header!head(major, Direct + i - 1)
             bytes == bigEndian(Header!Base, n, w)
  <2>1. i \in 1..Len(Widths) /\ Fits(n, i) /\ Len(Widths) \in Nat
    BY <1>1, <1>3, OneWidth, Capacities
  <2>2. code = <<byte>> \o bytes
    BY <1>3, Encodings
  <2> HIDE DEF i, code
  <2>3. /\ w \in Nat \ {0} /\ n < powers(Header!Base)[w] /\ Header!capacity(i - 1) <= n
        /\ Header!Base \in Nat \ {0}
    <3>1. /\ Header!capacity(i) = powers(Header!Base)[w] /\ w \in Nat \ {0}
          /\ i \in 0..Len(Widths) /\ Header!Base \in Nat \ {0}
          /\ Header!capacity(i) \in Nat
      BY <2>1, Capacities
    <3>2. i - 1 \in 0..Len(Widths)
      BY <2>1
    <3>3. Header!capacity(i - 1) \in Nat
      BY <3>2, Capacities
    <3> QED
      BY <1>1, <2>1, <3>1, <3>3 DEF Fits
  <2>4. Direct + i - 1 \in 0..Infos - 1 /\ i \in Nat
    BY <1>1, <2>1
  <2>5. byte \in HeaderByte /\ byte \div Infos = major /\ byte % Infos = Direct + i - 1
    BY <2>4, HeadByte
  <2> HIDE DEF w, byte
  <2>6. /\ bytes \in Seq(HeaderByte) /\ Len(bytes) = w
        /\ bigEndianNumber(Header!Base, bytes) = n
    BY <1>1, <2>3, NumberOfBytes DEF HeaderByte
  <2> HIDE DEF bytes
  <2>7. /\ code \in Seq(HeaderByte) /\ Len(code) = 1 + w /\ data \in Seq(HeaderByte)
        /\ pos \in 1..Len(data) /\ data[pos] = byte
        /\ pos + 1 + w <= Len(data) + 1 /\ Len(data) \in Nat /\ pos \in Nat
    BY <1>1, <2>2, <2>3, <2>5, <2>6
  <2>8. SubSeq(data, pos + 1, pos + 1 + w - 1) = bytes
    BY <1>1, <2>2, <2>3, <2>5, <2>6, SMTT(30)
  <2> HIDE DEF data, pos
  <2>9. infoAt(data, pos) = Direct + i - 1 /\ majorAt(data, pos) = major
    BY <2>5, <2>7 DEF infoAt, majorAt
  <2>10. widthAt(data, pos) = i /\ ~(infoAt(data, pos) < Direct) /\ ~(i > Len(Widths))
    BY <1>1, <2>1, <2>9 DEF widthAt
  <2>11. behind(data, pos) = pos + 1 + w /\ ~(behind(data, pos) > Len(data) + 1)
    BY <2>3, <2>7, <2>10 DEF behind, w
  <2>12. valueAt(data, pos) = n /\ n >= Header!capacity(i - 1)
    <3>1. i - 1 \in 0..Len(Widths)
      BY <2>1
    <3>2. Header!capacity(i - 1) \in Nat
      BY <3>1, Capacities
    <3>3. valueAt(data, pos) = n
      <4>1. SubSeq(data, pos + 1, behind(data, pos) - 1) = bytes
        BY <2>3, <2>7, <2>8, <2>11
      <4>2. valueAt(data, pos) = bigEndianNumber(Header!Base, bytes)
        BY <4>1 DEF valueAt
      <4> QED
        BY <2>6, <4>2
    <3> QED
      BY <1>1, <2>3, <3>2, <3>3
  <2>13. Header!decodeHeader(data, pos) = HeaderAt(major, n, behind(data, pos))
    BY <2>7, <2>9, <2>10, <2>11, <2>12, HeaderCases
  <2>14. behind(data, pos) = pos + Len(code)
    BY <2>3, <2>7, <2>11
  <2> QED
    BY <2>7, <2>13, <2>14 DEF HeaderAt, code, data, pos
<1> QED
  BY <1>2, <1>3

(* decodeHeader reads nothing else: what it takes is what encodeLength     *)
(* writes of the number it returns.                                        *)
THEOREM OneHeader ==
    ASSUME Header!HeaderSizes, NEW data \in Seq(HeaderByte), NEW pos \in Nat \ {0},
           Header!decodeHeader(data, pos).next > 0
    PROVE  LET h == Header!decodeHeader(data, pos)
           IN  /\ h.major \in 0..7 /\ h.value \in 0..Header!MaxUint64
               /\ h.next \in pos + 1 .. Len(data) + 1
               /\ SubSeq(data, pos, h.next - 1) = Header!encodeLength(h.major, h.value)
<1> DEFINE h == Header!decodeHeader(data, pos)
<1>1. pos \in 1..Len(data) /\ Len(data) \in Nat
  <2>1. ASSUME pos > Len(data) PROVE FALSE
    <3>1. h = Header!NoHeader(Header!UnexpectedEOF)
      BY <2>1 DEF Header!decodeHeader
    <3>2. h.next = 0
      BY <3>1 DEF Header!NoHeader, Header!UnexpectedEOF
    <3> QED
      BY <3>2
  <2> QED
    BY <2>1
<1> DEFINE major == majorAt(data, pos)
           info  == infoAt(data, pos)
           i     == widthAt(data, pos)
           next  == behind(data, pos)
           value == valueAt(data, pos)
<1>2. \/ info < Direct /\ h = HeaderAt(major, info, pos + 1)
      \/ /\ ~(info < Direct) /\ ~(i > Len(Widths)) /\ ~(next > Len(data) + 1)
         /\ value >= Header!capacity(i - 1) /\ h = HeaderAt(major, value, next)
  <2>1. Header!NoHeader(Header!UnexpectedEOF).next = 0 /\ Header!NoHeader(Header!Invalid).next = -1
    BY DEF Header!NoHeader, Header!UnexpectedEOF, Header!Invalid
  <2>2. h # Header!NoHeader(Header!UnexpectedEOF) /\ h # Header!NoHeader(Header!Invalid)
    BY <2>1
  <2> HIDE DEF h, major, info, i, next, value
  <2> QED
    BY <1>1, <2>2, HeaderCases DEF h, major, info, i, next, value
<1>3. /\ Infos \in Nat \ {0} /\ Direct \in Nat \ {0} /\ Len(Widths) \in Nat
      /\ Header!Base \in Nat \ {0} /\ Direct <= Infos
      /\ \A k \in 1..Len(Widths) : Widths[k] \in Nat \ {0}
  BY Capacities DEF Header!HeaderSizes
<1>4. /\ major \in 0..7 /\ info \in 0..Infos - 1 /\ Header!head(major, info) = data[pos]
  <2>1. data[pos] \in HeaderByte
    BY <1>1
  <2> QED
    BY <2>1, HeadOf DEF majorAt, infoAt
<1>5. Header!capacity(0) = Direct /\ Header!capacity(Len(Widths)) \in Nat
      /\ \A k, l \in 0..Len(Widths) : k <= l => Header!capacity(k) <= Header!capacity(l)
  BY <1>3, Capacities
<1> HIDE DEF h, major, info
<1>6. CASE info < Direct /\ h = HeaderAt(major, info, pos + 1)
  <2>1. info \in 0..Header!MaxUint64
    <3>1. Direct <= Header!capacity(Len(Widths))
      BY <1>3, <1>5
    <3> QED
      BY <1>3, <1>4, <1>5, <1>6, <3>1 DEF Header!MaxUint64
  <2>2. Header!encodeLength(major, info) = <<data[pos]>>
    BY <1>4, <1>6, <2>1, Encodings
  <2>3. SubSeq(data, pos, (pos + 1) - 1) = <<data[pos]>>
    <3>1. pos \in pos..Len(data) /\ (pos + 1) - 1 = pos /\ pos - pos = 0
      BY <1>1
    <3>2. /\ SubSeq(data, pos, pos) = <<data[pos]>> \o SubSeq(data, pos + 1, pos)
          /\ SubSeq(data, pos + 1, pos) \in Seq(HeaderByte)
          /\ Len(SubSeq(data, pos + 1, pos)) = 0
      BY <1>1, <3>1, SubSeqFirst
    <3>3. SubSeq(data, pos + 1, pos) = <<>>
      BY <3>2
    <3>4. data[pos] \in HeaderByte
      BY <1>1
    <3>5. <<data[pos]>> \o <<>> = <<data[pos]>>
      BY <3>4, ConcatEmptySeq
    <3> QED
      BY <3>1, <3>2, <3>3, <3>5
  <2>4. h.major = major /\ h.value = info /\ h.next = pos + 1
    BY <1>6 DEF HeaderAt
  <2>5. pos + 1 \in pos + 1 .. Len(data) + 1
    BY <1>1
  <2> QED
    BY <1>4, <2>1, <2>2, <2>3, <2>4, <2>5 DEF h
<1>7. CASE /\ ~(info < Direct) /\ ~(i > Len(Widths)) /\ ~(next > Len(data) + 1)
           /\ value >= Header!capacity(i - 1) /\ h = HeaderAt(major, value, next)
  <2> DEFINE w     == Widths[i]
             bytes == SubSeq(data, pos + 1, next - 1)
  <2>1. i \in 1..Len(Widths) /\ info = Direct + i - 1
    BY <1>3, <1>4, <1>7 DEF widthAt, info
  <2>2. w \in Nat \ {0} /\ next = pos + 1 + w
    BY <1>3, <2>1 DEF behind
  <2> HIDE DEF i, w, next
  <2>3. /\ bytes \in Seq(HeaderByte) /\ Len(bytes) = w
        /\ SubSeq(data, pos, next - 1) = <<data[pos]>> \o bytes
    <3>1. /\ pos + 1 \in Nat \ {0} /\ next - 1 \in Nat /\ next - 1 <= Len(data)
          /\ (next - 1) - (pos + 1) + 1 = w /\ pos + 1 <= next
      BY <1>1, <1>7, <2>2
    <3> DEFINE q == next - 1
    <3>2. q \in pos..Len(data) /\ q - pos = w
      BY <1>1, <2>2, <3>1
    <3> HIDE DEF q
    <3>3. /\ SubSeq(data, pos + 1, q) \in Seq(HeaderByte)
          /\ Len(SubSeq(data, pos + 1, q)) = q - pos
          /\ SubSeq(data, pos, q) = <<data[pos]>> \o SubSeq(data, pos + 1, q)
      BY <1>1, <3>2, SubSeqFirst
    <3> QED
      BY <3>2, <3>3 DEF q
  <2>4. value = bigEndianNumber(Header!Base, bytes)
    BY DEF valueAt, next
  <2> HIDE DEF bytes, value
  <2>5. /\ value \in Nat /\ value < powers(Header!Base)[w]
        /\ bigEndian(Header!Base, value, w) = bytes
    BY <1>3, <2>3, <2>4, BytesOfNumber DEF HeaderByte
  <2>6. Header!capacity(i) = powers(Header!Base)[w]
    BY <2>1, Capacities DEF w
  <2>7. i \in 0..Len(Widths) /\ i - 1 \in 0..Len(Widths) /\ Len(Widths) \in 0..Len(Widths)
    BY <1>3, <2>1
  <2>8. Header!capacity(i) \in Nat /\ Header!capacity(i - 1) \in Nat
    BY <2>7, Capacities
  <2>9. Fits(value, i)
    BY <1>7, <2>5, <2>6, <2>8 DEF Fits
  <2>10. Direct <= value /\ value \in 0..Header!MaxUint64
    <3>1. Header!capacity(0) <= Header!capacity(i - 1)
          /\ Header!capacity(i) <= Header!capacity(Len(Widths))
      BY <1>3, <1>5, <2>1, <2>7
    <3> QED
      BY <1>3, <1>5, <1>7, <2>5, <2>6, <2>8, <3>1 DEF Header!MaxUint64
  <2>11. Header!widthIndex(value) = i
    BY <2>1, <2>9, <2>10, OneWidth
  <2>12. Header!encodeLength(major, value) = <<data[pos]>> \o bytes
    <3>1. ~(value < Direct)
      BY <1>3, <2>5, <2>10
    <3>2. Header!encodeLength(major, value) =
            <<Header!head(major, Direct + i - 1)>> \o bigEndian(Header!Base, value, Widths[i])
      BY <1>4, <2>10, <2>11, <3>1, Encodings
    <3> QED
      BY <1>4, <2>1, <2>5, <3>2 DEF w
  <2>13. h.major = major /\ h.value = value /\ h.next = next
    BY <1>7 DEF HeaderAt
  <2>14. next \in pos + 1 .. Len(data) + 1
    BY <1>1, <1>7, <2>2
  <2> QED
    BY <1>4, <2>3, <2>10, <2>12, <2>13, <2>14 DEF h
<1> QED
  BY <1>2, <1>6, <1>7

(* The integers that are encoded: an int64 is.                             *)
HeaderInts == -1 - LargestInt64 .. LargestInt64

IntsFit == LargestInt64 \in Nat /\ LargestInt64 <= Header!MaxUint64

(* DecodeInt reads the integer that EncodeInt wrote, whatever is before    *)
(* and behind it ...                                                       *)
THEOREM IntReads ==
    ASSUME Header!HeaderSizes, IntsFit, NEW value \in HeaderInts,
           NEW before \in Seq(HeaderByte), NEW after \in Seq(HeaderByte)
    PROVE  LET code == Header!EncodeInt(value)
               pos  == Len(before) + 1
           IN  /\ code \in Seq(HeaderByte)
               /\ Header!DecodeInt(before \o code \o after, pos) = Header!Result(value, pos + Len(code))
<1> DEFINE code  == Header!EncodeInt(value)
           pos   == Len(before) + 1
           data  == before \o code \o after
           major == IF value >= 0 THEN 0 ELSE 1
           n     == IF value >= 0 THEN value ELSE -1 - value
<1>1. /\ major \in 0..7 /\ n \in 0..Header!MaxUint64 /\ n <= LargestInt64
      /\ value = IF major = 0 THEN n ELSE -1 - n
  <2>1. value \in Int /\ -1 - LargestInt64 <= value /\ value <= LargestInt64 /\ Header!MaxUint64 \in Int
    <3>1. Header!capacity(Len(Widths)) \in Nat \ {0}
      BY Capacities
    <3> QED
      BY <3>1 DEF HeaderInts, IntsFit, Header!MaxUint64
  <2> QED
    BY <2>1 DEF IntsFit
<1>2. code = Header!encodeLength(major, n)
  BY DEF Header!EncodeInt, Header!majorUint, Header!majorNint
<1> HIDE DEF code, major, n
<1>3. /\ code \in Seq(HeaderByte)
      /\ Header!decodeHeader(data, pos) = [major |-> major, value |-> n, next |-> pos + Len(code)]
  <2>1. /\ Header!encodeLength(major, n) \in Seq(HeaderByte)
        /\ Header!decodeHeader(before \o Header!encodeLength(major, n) \o after, pos)
             = [major |-> major, value |-> n, next |-> pos + Len(Header!encodeLength(major, n))]
    BY <1>1, HeaderReads
  <2> QED
    BY <1>2, <2>1
<1>4. pos + Len(code) > 0
  BY <1>3
<1> HIDE DEF data, pos
<1>5. Header!DecodeInt(data, pos) = Header!Result(value, pos + Len(code))
  BY <1>1, <1>3, <1>4 DEF Header!DecodeInt, Header!majorUint, Header!majorNint, major
<1> QED
  BY <1>3, <1>5 DEF code, data, pos

(* ... and accepts of every integer only what EncodeInt writes of it.      *)
THEOREM OneInt ==
    ASSUME Header!HeaderSizes, IntsFit, NEW data \in Seq(HeaderByte), NEW pos \in Nat \ {0},
           NEW r \in Header!DecodeInt(data, pos)
    PROVE  /\ r.value \in HeaderInts /\ r.next \in pos + 1 .. Len(data) + 1
           /\ SubSeq(data, pos, r.next - 1) = Header!EncodeInt(r.value)
<1> DEFINE h == Header!decodeHeader(data, pos)
<1>1. /\ h.next > 0 /\ h.major \in {0, 1} /\ h.value <= LargestInt64
      /\ r.value = IF h.major = 0 THEN h.value ELSE -1 - h.value
      /\ r.next = h.next
  BY DEF Header!DecodeInt, Header!majorUint, Header!majorNint, Header!Result
<1>2. /\ h.value \in 0..Header!MaxUint64 /\ h.next \in pos + 1 .. Len(data) + 1
      /\ SubSeq(data, pos, h.next - 1) = Header!encodeLength(h.major, h.value)
  BY <1>1, OneHeader
<1>3. h.value \in Nat
  BY <1>2
<1> HIDE DEF h
<1>4. r.value \in HeaderInts
  BY <1>1, <1>3 DEF HeaderInts, IntsFit
<1>5. Header!EncodeInt(r.value) = Header!encodeLength(h.major, h.value)
  <2>1. CASE h.major = 0
    <3>1. r.value = h.value /\ r.value >= 0
      BY <1>1, <1>3, <2>1
    <3> QED
      BY <2>1, <3>1 DEF Header!EncodeInt, Header!majorUint
  <2>2. CASE h.major = 1
    <3>1. r.value = -1 - h.value /\ ~(r.value >= 0) /\ -1 - r.value = h.value
      BY <1>1, <1>3, <2>2
    <3> QED
      BY <2>2, <3>1 DEF Header!EncodeInt, Header!majorNint
  <2> QED
    BY <1>1, <2>1, <2>2
<1> QED
  BY <1>1, <1>2, <1>4, <1>5

(* The header of a string is its length.                                   *)
LEMMA StringOf ==
    ASSUME Header!HeaderSizes, NEW major \in 0..7, NEW bytes \in Seq(HeaderByte),
           Len(bytes) <= Header!MaxUint64
    PROVE  /\ Header!encodeLength(major, Len(bytes)) \in Seq(HeaderByte)
           /\ Len(bytes) \in 0..Header!MaxUint64
<1>1. Header!MaxUint64 \in Int
  <2>1. Header!capacity(Len(Widths)) \in Nat \ {0}
    BY Capacities
  <2> QED
    BY <2>1 DEF Header!MaxUint64
<1>2. Len(bytes) \in 0..Header!MaxUint64
  BY <1>1
<1>3. <<>> \in Seq(HeaderByte)
  OBVIOUS
<1> QED
  BY <1>2, <1>3, HeaderReads

(* DecodeBytes, and DecodeText with another major type, read the bytes     *)
(* that were written behind their length ...                               *)
THEOREM BytesRead ==
    ASSUME Header!HeaderSizes, LargestInt \in Nat, NEW major \in 0..7,
           NEW bytes \in Seq(HeaderByte), Len(bytes) <= Header!MaxUint64, Len(bytes) <= LargestInt,
           NEW before \in Seq(HeaderByte), NEW after \in Seq(HeaderByte)
    PROVE  LET code == Header!encodeLength(major, Len(bytes)) \o bytes
               pos  == Len(before) + 1
           IN  Header!DecodeBytes(before \o code \o after, pos, major) = Header!Result(bytes, pos + Len(code))
<1> DEFINE head == Header!encodeLength(major, Len(bytes))
           code == head \o bytes
           pos  == Len(before) + 1
           data == before \o code \o after
           next == pos + Len(head)
           end  == pos + Len(code)
<1>1. head \in Seq(HeaderByte) /\ Len(bytes) \in 0..Header!MaxUint64
  BY StringOf
<1>2. Header!decodeHeader(data, pos) = [major |-> major, value |-> Len(bytes), next |-> next]
  <2>1. bytes \o after \in Seq(HeaderByte)
    OBVIOUS
  <2>2. Header!decodeHeader(before \o head \o (bytes \o after), pos)
          = [major |-> major, value |-> Len(bytes), next |-> next]
    BY <1>1, <2>1, HeaderReads
  <2> HIDE DEF head
  <2>3. data = before \o head \o (bytes \o after)
    <3>1. head \o bytes \in Seq(HeaderByte)
      BY <1>1
    <3>2. before \o (head \o bytes) = (before \o head) \o bytes /\ before \o head \in Seq(HeaderByte)
      BY <1>1, ConcatAssociative, SMTT(30)
    <3>3. ((before \o head) \o bytes) \o after = (before \o head) \o (bytes \o after)
      BY <3>2, ConcatAssociative, SMTT(30)
    <3> QED
      BY <3>2, <3>3
  <2> HIDE DEF data, pos, next
  <2> QED
    BY <2>2, <2>3 DEF pos, next
<1> HIDE DEF head
<1>3. /\ Len(before) \in Nat /\ Len(head) \in Nat /\ Len(bytes) \in Nat /\ Len(after) \in Nat
      /\ Len(code) = Len(head) + Len(bytes)
      /\ Len(data) = Len(before) + (Len(head) + Len(bytes)) + Len(after)
      /\ \A k \in 1..Len(bytes) : data[Len(before) + Len(head) + k] = bytes[k]
      /\ data \in Seq(HeaderByte)
  BY <1>1
<1> HIDE DEF code, data
<1>4. next \in Nat /\ next > 0 /\ end \in Nat /\ end > 0 /\ end = next + Len(bytes)
      /\ end - 1 <= Len(data) /\ next = Len(before) + Len(head) + 1
  BY <1>3
<1>5. SubSeq(data, next, end - 1) = bytes
  <2> DEFINE s == SubSeq(data, next, end - 1)
  <2>1. s \in Seq(HeaderByte) /\ Len(s) = Len(bytes)
        /\ \A k \in 1..Len(bytes) : s[k] = data[next + k - 1]
    BY <1>3, <1>4
  <2>2. ASSUME NEW k \in 1..Len(bytes) PROVE s[k] = bytes[k]
    <3>1. next + k - 1 = Len(before) + Len(head) + k
      BY <1>3, <1>4
    <3> QED
      BY <1>3, <2>1, <3>1
  <2> HIDE DEF s
  <2>3. s = bytes
    BY <2>1, <2>2, SeqEqual
  <2> QED
    BY <2>3 DEF s
<1> HIDE DEF next, end, pos
<1>6. Header!readBytes(data, next, Len(bytes)) = end
  <2>1. ~(Len(bytes) > LargestInt) /\ ~(Len(bytes) > Len(data) - next + 1)
    BY <1>3, <1>4
  <2> QED
    BY <1>4, <2>1 DEF Header!readBytes
<1>7. Header!DecodeLength(data, pos, major) = {[value |-> Len(bytes), next |-> next]}
  BY <1>2, <1>4 DEF Header!DecodeLength, Header!Result
<1>8. Header!DecodeBytes(data, pos, major) = Header!Result(bytes, end)
  <2> DEFINE one(h) == LET e == Header!readBytes(data, h.next, h.value)
                       IN  IF e > 0 THEN Header!Result(SubSeq(data, h.next, e - 1), e) ELSE {}
             hd == [value |-> Len(bytes), next |-> next]
  <2>1. Header!DecodeBytes(data, pos, major) = UNION {one(h) : h \in {hd}}
    BY <1>7 DEF Header!DecodeBytes
  <2>2. one(hd) = Header!Result(bytes, end)
    BY <1>4, <1>5, <1>6
  <2> HIDE DEF one, hd
  <2> QED
    BY <2>1, <2>2
<1> QED
  BY <1>8 DEF head, code, data, pos, end

(* ... and accept nothing else for them.                                   *)
THEOREM OneBytes ==
    ASSUME Header!HeaderSizes, LargestInt \in Nat, NEW data \in Seq(HeaderByte),
           NEW pos \in Nat \ {0}, NEW major, NEW r \in Header!DecodeBytes(data, pos, major)
    PROVE  /\ r.value \in Seq(HeaderByte) /\ r.next \in pos + 1 .. Len(data) + 1
           /\ SubSeq(data, pos, r.next - 1) = Header!encodeLength(major, Len(r.value)) \o r.value
<1> DEFINE h == Header!decodeHeader(data, pos)
           n == h.value
<1>1. PICK l \in Header!DecodeLength(data, pos, major) :
         r \in LET end == Header!readBytes(data, l.next, l.value)
               IN  IF end > 0 THEN Header!Result(SubSeq(data, l.next, end - 1), end) ELSE {}
  BY DEF Header!DecodeBytes
<1>2. h.next > 0 /\ h.major = major /\ l.value = n /\ l.next = h.next
  BY DEF Header!DecodeLength, Header!Result
<1>3. /\ n \in 0..Header!MaxUint64 /\ h.next \in pos + 1 .. Len(data) + 1
      /\ SubSeq(data, pos, h.next - 1) = Header!encodeLength(major, n)
  BY <1>2, OneHeader
<1> HIDE DEF h
<1> DEFINE end == Header!readBytes(data, h.next, n)
<1>4. end > 0 /\ r.value = SubSeq(data, h.next, end - 1) /\ r.next = end
  <2> HIDE DEF n
  <2> QED
    BY <1>1, <1>2 DEF Header!Result
<1>5. n \in Nat /\ h.next \in Nat /\ Len(data) \in Nat /\ end = h.next + n /\ n <= Len(data) - h.next + 1
      /\ end \in Nat
  <2>1. n \in Nat /\ h.next \in Nat /\ Len(data) \in Nat
    BY <1>3
  <2> HIDE DEF n
  <2>2. ~(n > LargestInt \/ n > Len(data) - h.next + 1)
    BY <1>4 DEF Header!readBytes, Header!UnexpectedEOF
  <2>3. end = h.next + n
    BY <2>2 DEF Header!readBytes
  <2> QED
    BY <2>1, <2>2, <2>3
<1> HIDE DEF n, end
<1>6. r.value \in Seq(HeaderByte) /\ Len(r.value) = n
  <2> DEFINE p == h.next
  <2>1. p \in Nat \ {0} /\ end - 1 \in Int /\ end - 1 <= Len(data) /\ (end - 1) - p + 1 = n /\ p <= (end - 1) + 1
    BY <1>3, <1>5, SMTT(30)
  <2> HIDE DEF p
  <2> DEFINE q == end - 1
             s == SubSeq(data, p, q)
  <2>2. /\ p \in Nat \ {0} /\ q \in Int /\ q <= Len(data) /\ q - p + 1 = n /\ p <= q + 1
        /\ n \in Nat /\ Len(data) \in Nat
    BY <1>5, <2>1
  <2> HIDE DEF q
  <2>3. (IF p <= q THEN q - p + 1 ELSE 0) = n
    BY <2>2
  <2>4. \A i \in p..q : data[i] \in HeaderByte
    BY <2>2
  <2>5. s \in Seq(HeaderByte) /\ Len(s) = n
    BY <2>2, <2>3, <2>4, SubSeqProperties
  <2> QED
    BY <1>4, <2>5 DEF p, q
<1>7. SubSeq(data, pos, end - 1) = SubSeq(data, pos, h.next - 1) \o SubSeq(data, h.next, end - 1)
  <2> DEFINE p == h.next
             m == p - 1
             q == end - 1
  <2>1. p \in Nat /\ Len(data) \in Nat /\ pos < p /\ p <= end /\ end <= Len(data) + 1
    BY <1>3, <1>5
  <2> HIDE DEF p
  <2>2. pos \in 1..Len(data) + 1 /\ m \in pos - 1..Len(data) /\ q \in m..Len(data) /\ m + 1 = p
    BY <1>5, <2>1
  <2> HIDE DEF m, q
  <2>3. SubSeq(data, pos, m) \o SubSeq(data, m + 1, q) = SubSeq(data, pos, q)
    BY <2>2, ConcatAdjacentSubSeq
  <2> QED
    BY <2>2, <2>3 DEF m, q, p
<1>8. end \in pos + 1 .. Len(data) + 1
  BY <1>3, <1>5
<1> QED
  BY <1>3, <1>4, <1>6, <1>7, <1>8

(* Two sequences that are not the same differ somewhere first.             *)
FirstDifference(a, b, i) ==
    /\ ~(i <= Len(a) /\ i <= Len(b) /\ a[i] = b[i])
    /\ i <= Len(a) \/ i <= Len(b)
    /\ \A j \in 1..i - 1 : j <= Len(a) /\ j <= Len(b) /\ a[j] = b[j]

LEMMA Differ ==
    ASSUME NEW S, NEW a \in Seq(S), NEW b \in Seq(S), a # b
    PROVE  \E i \in Nat \ {0} : FirstDifference(a, b, i)
<1> DEFINE same(i) == i <= Len(a) /\ i <= Len(b) /\ a[i] = b[i]
           D == {i \in Nat : i # 0 /\ ~same(i) /\ (i <= Len(a) \/ i <= Len(b))}
<1>1. Len(a) \in Nat /\ Len(b) \in Nat
  OBVIOUS
<1>2. D # {}
  <2> SUFFICES ASSUME D = {} PROVE FALSE
    OBVIOUS
  <2>1. \A i \in Nat : i # 0 /\ (i <= Len(a) \/ i <= Len(b)) => same(i)
    OBVIOUS
  <2>2. Len(a) = Len(b)
    <3>1. CASE Len(a) < Len(b)
      <4>1. same(Len(b))
        BY <1>1, <2>1, <3>1
      <4> QED
        BY <1>1, <3>1, <4>1
    <3>2. CASE Len(b) < Len(a)
      <4>1. same(Len(a))
        BY <1>1, <2>1, <3>2
      <4> QED
        BY <1>1, <3>2, <4>1
    <3> QED
      BY <1>1, <3>1, <3>2
  <2>3. \A i \in 1..Len(a) : a[i] = b[i]
    BY <1>1, <2>1
  <2> QED
    BY <2>2, <2>3, SeqEqual
<1>3. PICK i \in D : \A j \in D : i <= j
  <2>1. D \in SUBSET Nat
    OBVIOUS
  <2> HIDE DEF D
  <2> QED
    BY <1>2, <2>1, Least
<1>4. ASSUME NEW j \in 1..i - 1 PROVE same(j)
  <2>1. j \in Nat /\ j # 0 /\ ~(i <= j) /\ (j <= Len(a) \/ j <= Len(b))
    BY <1>1, <1>3
  <2> QED
    BY <1>3, <2>1
<1>5. i \in Nat \ {0} /\ ~same(i) /\ (i <= Len(a) \/ i <= Len(b))
  OBVIOUS
<1>6. FirstDifference(a, b, i)
  BY <1>4, <1>5 DEF FirstDifference
<1> QED
  BY <1>5, <1>6

(* mapKeyBefore is a strict total order: the integer keys of a map can be  *)
(* put in order in one way, and a decoder that wants each to come before   *)
(* the next, by what they are encoded as, refuses all the other ways.      *)
THEOREM KeysInOrder ==
    ASSUME Header!HeaderSizes, IntsFit
    PROVE  \A x, y, z \in HeaderInts :
              /\ ~Header!mapKeyBefore(x, x)
              /\ x # y => Header!mapKeyBefore(x, y) \/ Header!mapKeyBefore(y, x)
              /\ Header!mapKeyBefore(x, y) /\ Header!mapKeyBefore(y, z) => Header!mapKeyBefore(x, z)
<1>1. ASSUME NEW value \in HeaderInts
      PROVE  /\ Header!EncodeInt(value) \in Seq(Nat)
             /\ Header!DecodeInt(Header!EncodeInt(value), 1)
                  = Header!Result(value, 1 + Len(Header!EncodeInt(value)))
  <2> DEFINE code == Header!EncodeInt(value)
  <2>1. /\ code \in Seq(HeaderByte)
        /\ Header!DecodeInt(<<>> \o code \o <<>>, Len(<<>>) + 1) = Header!Result(value, Len(<<>>) + 1 + Len(code))
    <3>1. <<>> \in Seq(HeaderByte)
      OBVIOUS
    <3> QED
      BY <3>1, IntReads
  <2>2. HeaderByte \subseteq Nat
    BY Capacities DEF HeaderByte, Byte
  <2> HIDE DEF code
  <2>3. code \in Seq(Nat) /\ <<>> \o code \o <<>> = code /\ Len(<<>>) + 1 = 1
    <3>1. code \in Seq(Nat)
      <4> HIDE DEF code
      <4>1. code \in Seq(HeaderByte)
        BY <2>1
      <4>2. \A S, T : S \subseteq T => Seq(S) \subseteq Seq(T)
        OBVIOUS
      <4> QED
        BY <2>2, <4>1, <4>2
    <3>2. <<>> \o code = code /\ code \o <<>> = code
      BY <3>1, ConcatEmptySeq
    <3> QED
      BY <3>1, <3>2
  <2> QED
    BY <2>1, <2>3 DEF code
<1>2. ASSUME NEW x \in HeaderInts, NEW y \in HeaderInts, Header!EncodeInt(x) = Header!EncodeInt(y)
      PROVE  x = y
  <2>1. Header!Result(x, 1 + Len(Header!EncodeInt(x))) = Header!Result(y, 1 + Len(Header!EncodeInt(y)))
    BY <1>1, <1>2
  <2>2. \A v, w, k, l : Header!Result(v, k) = Header!Result(w, l) => v = w
    <3> TAKE v, w, k, l
    <3>1. [value |-> v, next |-> k].value = v /\ [value |-> w, next |-> l].value = w
      OBVIOUS
    <3>2. ASSUME {[value |-> v, next |-> k]} = {[value |-> w, next |-> l]} PROVE v = w
      <4>1. [value |-> v, next |-> k] = [value |-> w, next |-> l]
        BY <3>2
      <4> QED
        BY <3>1, <4>1
    <3> QED
      BY <3>2 DEF Header!Result
  <2> QED
    BY <2>1, <2>2
<1>3. ASSUME NEW a \in Seq(Nat) PROVE ~Header!lexicographic(a, a)
  BY DEF Header!lexicographic
<1>4. ASSUME NEW a \in Seq(Nat), NEW b \in Seq(Nat), a # b
      PROVE  Header!lexicographic(a, b) \/ Header!lexicographic(b, a)
  <2>0. PICK i \in Nat \ {0} : FirstDifference(a, b, i)
    BY <1>4, Differ
  <2>1. /\ ~(i <= Len(a) /\ i <= Len(b) /\ a[i] = b[i])
        /\ i <= Len(a) \/ i <= Len(b)
        /\ \A j \in 1..i - 1 : j <= Len(a) /\ j <= Len(b) /\ a[j] = b[j]
    BY <2>0 DEF FirstDifference
  <2>2. Len(a) \in Nat /\ Len(b) \in Nat
    OBVIOUS
  <2>3. ASSUME i <= Len(b), i > Len(a) \/ a[i] < b[i] PROVE Header!lexicographic(a, b)
    <3>1. i \in 1..Len(b) /\ \A j \in 1..i - 1 : j <= Len(a) /\ a[j] = b[j]
      BY <2>1, <2>2, <2>3
    <3> QED
      BY <2>3, <3>1 DEF Header!lexicographic
  <2>4. ASSUME i <= Len(a), i > Len(b) \/ b[i] < a[i] PROVE Header!lexicographic(b, a)
    <3>1. i \in 1..Len(a) /\ \A j \in 1..i - 1 : j <= Len(b) /\ b[j] = a[j]
      BY <2>1, <2>2, <2>4
    <3> QED
      BY <2>4, <3>1 DEF Header!lexicographic
  <2>5. ASSUME i <= Len(a), i <= Len(b) PROVE a[i] < b[i] \/ b[i] < a[i]
    <3>1. a[i] \in Nat /\ b[i] \in Nat /\ a[i] # b[i]
      BY <2>1, <2>2, <2>5
    <3> QED
      BY <3>1
  <2> QED
    BY <2>1, <2>2, <2>3, <2>4, <2>5
<1>5. ASSUME NEW a \in Seq(Nat), NEW b \in Seq(Nat), NEW c \in Seq(Nat),
             Header!lexicographic(a, b), Header!lexicographic(b, c)
      PROVE  Header!lexicographic(a, c)
  <2>1. PICK i \in 1..Len(b) : /\ i > Len(a) \/ a[i] < b[i]
                               /\ \A m \in 1..i - 1 : m <= Len(a) /\ a[m] = b[m]
    BY <1>5 DEF Header!lexicographic
  <2>2. PICK j \in 1..Len(c) : /\ j > Len(b) \/ b[j] < c[j]
                               /\ \A m \in 1..j - 1 : m <= Len(b) /\ b[m] = c[m]
    BY <1>5 DEF Header!lexicographic
  <2>3. /\ Len(a) \in Nat /\ Len(b) \in Nat /\ Len(c) \in Nat
        /\ \A m \in 1..Len(a) : a[m] \in Nat
        /\ \A m \in 1..Len(b) : b[m] \in Nat
        /\ \A m \in 1..Len(c) : c[m] \in Nat
    <3>1. Len(a) \in Nat /\ \A m \in 1..Len(a) : a[m] \in Nat
      OBVIOUS
    <3>2. Len(b) \in Nat /\ \A m \in 1..Len(b) : b[m] \in Nat
      OBVIOUS
    <3>3. Len(c) \in Nat /\ \A m \in 1..Len(c) : c[m] \in Nat
      OBVIOUS
    <3> QED
      BY <3>1, <3>2, <3>3
  <2>4. ASSUME NEW k \in 1..Len(c), k > Len(a) \/ a[k] < c[k],
               \A m \in 1..k - 1 : m <= Len(a) /\ a[m] = c[m]
        PROVE  Header!lexicographic(a, c)
    BY <2>4 DEF Header!lexicographic
  <2>5. CASE i < j
    <3>1. i \in 1..Len(c) /\ i \in 1..j - 1 /\ b[i] = c[i]
      BY <2>2, <2>3, <2>5
    <3>2. \A m \in 1..i - 1 : m <= Len(a) /\ a[m] = c[m]
      BY <2>1, <2>2, <2>3, <2>5, SMTT(30)
    <3> QED
      BY <2>1, <2>4, <3>1, <3>2
  <2>6. CASE j <= i
    <3>1. j \in 1..Len(b) /\ b[j] < c[j]
      BY <2>2, <2>3, <2>6
    <3>2. j > Len(a) \/ a[j] < c[j]
      <4>1. CASE j = i
        <5>1. j > Len(a) \/ (j \in 1..Len(a) /\ a[j] < b[j])
          BY <2>1, <2>3, <4>1
        <5> QED
          BY <2>3, <3>1, <5>1, SMTT(30)
      <4>2. CASE j # i
        <5>1. j \in 1..i - 1
          BY <2>3, <2>6, <3>1, <4>2
        <5> QED
          BY <2>1, <3>1, <5>1
      <4> QED
        BY <4>1, <4>2
    <3>3. \A m \in 1..j - 1 : m <= Len(a) /\ a[m] = c[m]
      BY <2>1, <2>2, <2>3, <2>6, SMTT(30)
    <3> QED
      BY <2>4, <3>2, <3>3
  <2> QED
    BY <2>3, <2>5, <2>6
<1> QED
  BY <1>1, <1>2, <1>3, <1>4, <1>5 DEF Header!mapKeyBefore
-----------------------------------------------------------------------------
(* Where an item ends, of those at a position.                             *)
Ends == [Nat \ {0} -> Int]

(* The functions that skip items and pairs are well defined.               *)
PastItems(past, end) ==
    /\ past \in [Nat -> [Int -> Int]]
    /\ \A pos \in Int : past[0][pos] = pos
    /\ \A n \in Nat, pos \in Int :
          past[n + 1][pos] = IF pos < 1 THEN pos ELSE past[n][end[pos]]

LEMMA ItemsRecur ==
    ASSUME NEW end \in Ends
    PROVE  PastItems(Header!walkItems(end), end)
<1> DEFINE T    == [Int -> Int]
           a    == [pos \in Int |-> pos]
           go(f) == [pos \in Int |-> IF pos < 1 THEN pos ELSE f[end[pos]]]
           step == [n \in Nat |-> [f \in T |-> go(f)]]
           past == Header!walkItems(end)
<1>1. \A pos \in Int : pos < 1 \/ end[pos] \in Int
  BY DEF Ends
<1>2. a \in T /\ \A f \in T : go(f) \in T
  BY <1>1
<1>3. PICK f \in [Nat -> T] : Recurs(f, a, step)
  <2>1. step \in [Nat -> [T -> T]]
    <3> HIDE DEF go, T
    <3> QED
      BY <1>2
  <2> HIDE DEF step, T, a
  <2> QED
    BY <1>2, <2>1, Recursion
<1>4. ASSUME NEW n \in Nat
      PROVE  f[n] = [pos \in Int |-> IF n = 0 \/ pos < 1 THEN pos ELSE f[n - 1][end[pos]]]
  <2>1. CASE n = 0
    BY <1>3, <2>1 DEF Recurs
  <2>2. CASE n # 0
    <3>1. n - 1 \in Nat /\ (n - 1) + 1 = n /\ f[n - 1] \in T
      BY <2>2
    <3>2. f[n] = step[n - 1][f[n - 1]]
      <4> HIDE DEF step, T
      <4> QED
        BY <1>3, <3>1 DEF Recurs
    <3>3. step[n - 1][f[n - 1]] = go(f[n - 1])
      <4> HIDE DEF go, T
      <4> QED
        BY <3>1
    <3> QED
      BY <2>2, <3>2, <3>3
  <2> QED
    BY <2>1, <2>2
<1>5. f = [n \in Nat |-> [pos \in Int |-> IF n = 0 \/ pos < 1 THEN pos ELSE f[n - 1][end[pos]]]]
  BY <1>4
<1>6. past = CHOOSE p : p = [n \in Nat |-> [pos \in Int |->
                               IF n = 0 \/ pos < 1 THEN pos ELSE p[n - 1][end[pos]]]]
  BY DEF Header!walkItems
<1> HIDE DEF step, past
<1>7. past = [n \in Nat |-> [pos \in Int |->
                IF n = 0 \/ pos < 1 THEN pos ELSE past[n - 1][end[pos]]]]
  BY <1>5, <1>6
<1>8. past[0] = a
  BY <1>7
<1>9. ASSUME NEW n \in Nat PROVE past[n + 1] = go(past[n])
  <2>1. n + 1 \in Nat /\ n + 1 # 0 /\ (n + 1) - 1 = n
    OBVIOUS
  <2>2. past[n + 1] = [pos \in Int |-> IF pos < 1 THEN pos ELSE past[(n + 1) - 1][end[pos]]]
    BY <1>7, <2>1
  <2> QED
    BY <2>1, <2>2
<1> DEFINE S == {n \in Nat : past[n] \in T}
<1>10. \A n \in Nat : n \in S
  <2>1. 0 \in S
    BY <1>2, <1>8
  <2>2. ASSUME NEW n \in Nat, n \in S PROVE n + 1 \in S
    <3>1. past[n] \in T /\ n + 1 \in Nat
      BY <2>2
    <3> HIDE DEF go, T
    <3> QED
      BY <1>2, <1>9, <3>1
  <2> HIDE DEF S
  <2> QED
    BY <2>1, <2>2, Induction
<1>11. past \in [Nat -> T]
  <2> HIDE DEF T
  <2> QED
    BY <1>7, <1>10
<1>12. \A pos \in Int : past[0][pos] = pos
  BY <1>8
<1>13. ASSUME NEW n \in Nat, NEW pos \in Int
       PROVE  past[n + 1][pos] = IF pos < 1 THEN pos ELSE past[n][end[pos]]
  BY <1>9
<1> QED
  BY <1>11, <1>12, <1>13 DEF PastItems, past

(* Where a header ends is a number, a key has one value, and goes on to    *)
(* one position.                                                           *)
LEMMA HeaderNext ==
    ASSUME Header!HeaderSizes, NEW data \in Seq(HeaderByte), NEW pos \in Nat \ {0}
    PROVE  Header!decodeHeader(data, pos).next \in Int
<1> DEFINE h == Header!decodeHeader(data, pos)
<1>1. CASE h.next > 0
  <2>1. h.next \in pos + 1 .. Len(data) + 1
    BY <1>1, OneHeader
  <2> QED
    BY <2>1
<1>2. CASE pos > Len(data)
  BY <1>2 DEF Header!decodeHeader, Header!NoHeader, Header!UnexpectedEOF
<1>3. CASE ~(h.next > 0) /\ ~(pos > Len(data))
  <2>1. pos \in 1..Len(data)
    BY <1>3
  <2>2. /\ \A major, value : HeaderAt(major, value, pos + 1).next = pos + 1
        /\ \A major, value, next : HeaderAt(major, value, next).next = next
    BY DEF HeaderAt
  <2>3. pos + 1 > 0
    OBVIOUS
  <2>4. Header!NoHeader(Header!UnexpectedEOF).next \in Int /\ Header!NoHeader(Header!Invalid).next \in Int
    BY DEF Header!NoHeader, Header!UnexpectedEOF, Header!Invalid
  <2>5. CASE infoAt(data, pos) < Direct
    BY <2>1, <2>2, <2>3, <2>5, HeaderCases
  <2>6. CASE ~(infoAt(data, pos) < Direct) /\ widthAt(data, pos) > Len(Widths)
    BY <2>1, <2>4, <2>6, HeaderCases
  <2>7. CASE ~(infoAt(data, pos) < Direct) /\ ~(widthAt(data, pos) > Len(Widths))
    <3>1. widthAt(data, pos) \in 1..Len(Widths)
      <4>1. data[pos] \in HeaderByte /\ Infos \in Nat \ {0} /\ Direct \in Nat /\ Len(Widths) \in Nat
        BY <2>1 DEF Header!HeaderSizes
      <4>2. infoAt(data, pos) \in Int
        BY <4>1, HeadOf DEF infoAt
      <4> QED
        BY <2>7, <4>1, <4>2 DEF widthAt
    <3>2. behind(data, pos) \in Int
      BY <3>1 DEF behind, Header!HeaderSizes
    <3> QED
      BY <2>1, <2>2, <2>4, <2>7, <3>2, HeaderCases
  <2> QED
    BY <2>5, <2>6, <2>7
<1> QED
  BY <1>1, <1>2, <1>3

KeyAt(data, pos, prevKey, key) ==
    /\ Header!keysAt(data, pos, prevKey) = {key}
    /\ (CHOOSE k \in Header!keysAt(data, pos, prevKey) : TRUE) = key
    /\ key.value \in Int /\ key.next \in Nat \ {0}
    /\ Header!decodeHeader(data, pos).next = key.next
    /\ Header!decodeHeader(data, pos).major \in {0, 1}

LEMMA NextKey ==
    ASSUME Header!HeaderSizes, IntsFit, NEW data \in Seq(HeaderByte), NEW pos \in Nat \ {0},
           NEW prevKey, Header!keysAt(data, pos, prevKey) # {}
    PROVE  \E key : KeyAt(data, pos, prevKey, key)
<1> DEFINE keys == Header!keysAt(data, pos, prevKey)
           h    == Header!decodeHeader(data, pos)
<1>1. PICK key \in keys : TRUE
  OBVIOUS
<1>2. key \in Header!DecodeInt(data, pos)
  BY <1>1 DEF Header!keysAt
<1>3. /\ h.next > 0 /\ h.major \in {0, 1} /\ key.next = h.next
      /\ Header!DecodeInt(data, pos) = {key}
  BY <1>2 DEF Header!DecodeInt, Header!Result, Header!majorUint, Header!majorNint
<1>4. keys = {key}
  BY <1>1, <1>3 DEF Header!keysAt
<1>5. key.value \in HeaderInts /\ key.next \in pos + 1 .. Len(data) + 1
  BY <1>2, OneInt
<1>6. key.value \in Int /\ key.next \in Nat \ {0}
  BY <1>5 DEF HeaderInts, IntsFit
<1> HIDE DEF keys
<1>7. (CHOOSE k \in keys : TRUE) = key
  BY <1>4
<1> QED
  BY <1>3, <1>4, <1>6, <1>7 DEF KeyAt, keys

PastPair(past, data, end, n, pos, prevKey) ==
    /\ pos < 1 => past[n + 1][pos][prevKey] = pos
    /\ pos >= 1 /\ Header!keysAt(data, pos, prevKey) = {} =>
          past[n + 1][pos][prevKey] = Header!Invalid
    /\ \A key : pos >= 1 /\ KeyAt(data, pos, prevKey, key) =>
          past[n + 1][pos][prevKey] = past[n][end[key.next]][{key.value}]

PastPairs(past, data, end) ==
    /\ past \in [Nat -> [Int -> [SUBSET Int -> Int]]]
    /\ \A pos \in Int, prevKey \in SUBSET Int : past[0][pos][prevKey] = pos
    /\ \A n \in Nat, pos \in Int, prevKey \in SUBSET Int :
          PastPair(past, data, end, n, pos, prevKey)

LEMMA PairsRecur ==
    ASSUME Header!HeaderSizes, IntsFit, NEW data \in Seq(HeaderByte), NEW end \in Ends
    PROVE  PastPairs(Header!walkPairs(data, end), data, end)
<1> DEFINE K    == SUBSET Int
           T    == [Int -> [K -> Int]]
           a    == [pos \in Int |-> [prevKey \in K |-> pos]]
           keys(pos, prevKey) == Header!keysAt(data, pos, prevKey)
           key(pos, prevKey)  == CHOOSE k \in keys(pos, prevKey) : TRUE
           then(f, pos, prevKey) ==
               IF keys(pos, prevKey) = {} THEN Header!Invalid
               ELSE f[end[key(pos, prevKey).next]][{key(pos, prevKey).value}]
           go(f) == [pos \in Int |-> [prevKey \in K |->
                       IF pos < 1 THEN pos ELSE then(f, pos, prevKey)]]
           step == [n \in Nat |-> [f \in T |-> go(f)]]
           past == Header!walkPairs(data, end)
<1>1. a \in T
  OBVIOUS
<1>2. ASSUME NEW f \in T, NEW pos \in Int, NEW prevKey \in K, pos >= 1
      PROVE  then(f, pos, prevKey) \in Int
  <2>1. CASE keys(pos, prevKey) = {}
    BY <2>1 DEF Header!Invalid
  <2>2. CASE keys(pos, prevKey) # {}
    <3>1. pos \in Nat \ {0}
      BY <1>2
    <3>2. PICK k : KeyAt(data, pos, prevKey, k)
      BY <2>2, <3>1, NextKey
    <3>3. key(pos, prevKey) = k /\ k.next \in Nat \ {0} /\ {k.value} \in K
      BY <3>2 DEF KeyAt
    <3>4. end[k.next] \in Int
      BY <3>3 DEF Ends
    <3>5. f[end[k.next]] \in [K -> Int]
      BY <3>4
    <3> HIDE DEF key, keys, K
    <3> QED
      BY <2>2, <3>3, <3>5
  <2> QED
    BY <2>1, <2>2
<1> HIDE DEF then
<1>3. \A f \in T : go(f) \in T
  BY <1>2
<1>4. PICK f \in [Nat -> T] : Recurs(f, a, step)
  <2>1. step \in [Nat -> [T -> T]]
    <3> HIDE DEF go, T
    <3> QED
      BY <1>3
  <2> HIDE DEF step, T, a
  <2> QED
    BY <1>1, <2>1, Recursion
<1>5. ASSUME NEW n \in Nat
      PROVE  f[n] = [pos \in Int |-> [prevKey \in K |->
                       IF n = 0 \/ pos < 1 THEN pos ELSE then(f[n - 1], pos, prevKey)]]
  <2>1. CASE n = 0
    BY <1>4, <2>1 DEF Recurs
  <2>2. CASE n # 0
    <3>1. n - 1 \in Nat /\ (n - 1) + 1 = n /\ f[n - 1] \in T
      BY <2>2
    <3>2. f[n] = step[n - 1][f[n - 1]]
      <4> HIDE DEF step, T
      <4> QED
        BY <1>4, <3>1 DEF Recurs
    <3>3. step[n - 1][f[n - 1]] = go(f[n - 1])
      <4> HIDE DEF go, T
      <4> QED
        BY <3>1
    <3> QED
      BY <2>2, <3>2, <3>3
  <2> QED
    BY <2>1, <2>2
<1> DEFINE whole(p) == [n \in Nat |-> [pos \in Int |-> [prevKey \in K |->
                          IF n = 0 \/ pos < 1 THEN pos ELSE then(p[n - 1], pos, prevKey)]]]
<1>6. f = whole(f)
  BY <1>5
<1>7. past = CHOOSE p : p = whole(p)
  BY DEF Header!walkPairs, then
<1> HIDE DEF step, past
<1>8. past = whole(past)
  <2> HIDE DEF whole
  <2> QED
    BY <1>6, <1>7
<1>9. past[0] = a
  BY <1>8
<1>10. ASSUME NEW n \in Nat PROVE past[n + 1] = go(past[n])
  <2>1. n + 1 \in Nat /\ n + 1 # 0 /\ (n + 1) - 1 = n
    OBVIOUS
  <2>2. past[n + 1] = [pos \in Int |-> [prevKey \in K |->
                         IF pos < 1 THEN pos ELSE then(past[(n + 1) - 1], pos, prevKey)]]
    BY <1>8, <2>1
  <2> QED
    BY <2>1, <2>2
<1> DEFINE S == {n \in Nat : past[n] \in T}
<1>11. \A n \in Nat : n \in S
  <2>1. 0 \in S
    BY <1>1, <1>9
  <2>2. ASSUME NEW n \in Nat, n \in S PROVE n + 1 \in S
    <3>1. past[n] \in T /\ n + 1 \in Nat
      BY <2>2
    <3> HIDE DEF go, T
    <3> QED
      BY <1>3, <1>10, <3>1
  <2> HIDE DEF S
  <2> QED
    BY <2>1, <2>2, Induction
<1>12. past \in [Nat -> T]
  <2> HIDE DEF T
  <2> QED
    BY <1>8, <1>11
<1>13. \A pos \in Int, prevKey \in K : past[0][pos][prevKey] = pos
  BY <1>9
<1>14. ASSUME NEW n \in Nat, NEW pos \in Int, NEW prevKey \in K
       PROVE  past[n + 1][pos][prevKey] = IF pos < 1 THEN pos ELSE then(past[n], pos, prevKey)
  <2> HIDE DEF K
  <2>1. past[n + 1] = go(past[n])
    BY <1>10
  <2> QED
    BY <2>1
<1> DEFINE KeyStep(n, pos, prevKey, k) ==
             pos >= 1 /\ KeyAt(data, pos, prevKey, k) =>
                past[n + 1][pos][prevKey] = past[n][end[k.next]][{k.value}]
<1>15. ASSUME NEW n \in Nat, NEW pos \in Int, NEW prevKey \in K, NEW k
       PROVE  KeyStep(n, pos, prevKey, k)
  <2> SUFFICES ASSUME pos >= 1, KeyAt(data, pos, prevKey, k)
               PROVE  past[n + 1][pos][prevKey] = past[n][end[k.next]][{k.value}]
    OBVIOUS
  <2>1. keys(pos, prevKey) # {} /\ key(pos, prevKey) = k /\ ~(pos < 1)
    BY DEF KeyAt
  <2> HIDE DEF key, keys, K
  <2>2. then(past[n], pos, prevKey) = past[n][end[k.next]][{k.value}]
    BY <2>1 DEF then
  <2>3. past[n + 1][pos][prevKey] = then(past[n], pos, prevKey)
    BY <1>14, <2>1
  <2> QED
    BY <2>2, <2>3
<1>16. ASSUME NEW n \in Nat, NEW pos \in Int, NEW prevKey \in K
       PROVE  /\ pos < 1 => past[n + 1][pos][prevKey] = pos
              /\ pos >= 1 /\ Header!keysAt(data, pos, prevKey) = {} =>
                    past[n + 1][pos][prevKey] = Header!Invalid
  <2> HIDE DEF K
  <2>1. ASSUME pos < 1 PROVE past[n + 1][pos][prevKey] = pos
    BY <1>14, <2>1
  <2>2. ASSUME pos >= 1, Header!keysAt(data, pos, prevKey) = {}
        PROVE  past[n + 1][pos][prevKey] = Header!Invalid
    <3>1. ~(pos < 1) /\ then(past[n], pos, prevKey) = Header!Invalid
      BY <2>2 DEF then
    <3> QED
      BY <1>14, <3>1
  <2> QED
    BY <2>1, <2>2
<1>17. PastPairs(past, data, end)
  <2>1. /\ past \in [Nat -> [Int -> [SUBSET Int -> Int]]]
        /\ \A pos \in Int, prevKey \in SUBSET Int : past[0][pos][prevKey] = pos
    BY <1>12, <1>13
  <2>2. ASSUME NEW n \in Nat, NEW pos \in Int, NEW prevKey \in SUBSET Int
        PROVE  PastPair(past, data, end, n, pos, prevKey)
    <3>1. ASSUME NEW k PROVE KeyStep(n, pos, prevKey, k)
      <4> HIDE DEF KeyStep
      <4> QED
        BY <1>15
    <3>2. /\ pos < 1 => past[n + 1][pos][prevKey] = pos
          /\ pos >= 1 /\ Header!keysAt(data, pos, prevKey) = {} =>
                past[n + 1][pos][prevKey] = Header!Invalid
      BY <1>16
    <3> QED
      BY <3>1, <3>2, Zenon DEF PastPair
  <2> QED
    BY <2>1, <2>2 DEF PastPairs
<1> QED
  BY <1>17 DEF past

(* What walkOne does, by the major type.                                   *)
endAt(data, h) == Header!readBytes(data, h.next, h.value)

textAt(data, h) == SubSeq(data, h.next, endAt(data, h) - 1)

OneWalked(data, h, strict, below, e) ==
    /\ h.next < 1 => e = h.next
    /\ h.next > 0 =>
          /\ h.major \in 0..7 /\ h.value \in Nat /\ h.next \in Nat \ {0}
          /\ h.major \in {0, 1} => e = h.next
          /\ h.major = 2 => e = endAt(data, h)
          /\ h.major = 3 => e = IF strict /\ endAt(data, h) > 0 /\ ~Header!ValidUTF8(textAt(data, h))
                                   THEN Header!Invalid ELSE endAt(data, h)
          /\ h.major = 4 => e = Header!walkItems(below)[h.value][h.next]
          /\ h.major = 5 => e = IF strict THEN Header!walkPairs(data, below)[h.value][h.next][{}]
                                          ELSE Header!walkItems(below)[2 * h.value][h.next]
          /\ h.major = 7 => e = IF h.value \in Header!simpleSupported THEN h.next ELSE Header!Invalid
          /\ h.major = 6 => e = Header!Invalid
          /\ endAt(data, h) \in Int

LEMMA WalkedOne ==
    ASSUME Header!HeaderSizes, NEW data \in Seq(HeaderByte), NEW pos \in Nat \ {0},
           NEW strict \in BOOLEAN, NEW below
    PROVE  OneWalked(data, Header!decodeHeader(data, pos), strict, below,
                     Header!walkOne(data, pos, strict, below))
<1> DEFINE h == Header!decodeHeader(data, pos)
           e == Header!walkOne(data, pos, strict, below)
           end == endAt(data, h)
           text == textAt(data, h)
<1>1. h.next \in Int
  BY HeaderNext
<1>2. e = IF h.next < 1 THEN h.next
          ELSE CASE h.major \in {0, 1} -> h.next
                 [] h.major = 2 -> end
                 [] h.major = 3 -> IF strict => (end < 1 \/ Header!ValidUTF8(text))
                                      THEN end ELSE Header!Invalid
                 [] h.major = 4 -> Header!walkItems(below)[h.value][h.next]
                 [] h.major = 5 -> IF strict THEN Header!walkPairs(data, below)[h.value][h.next][{}]
                                             ELSE Header!walkItems(below)[2 * h.value][h.next]
                 [] h.major = 7 /\ h.value \in Header!simpleSupported -> h.next
                 [] OTHER -> Header!Invalid
  BY DEF Header!walkOne, Header!majorUint, Header!majorNint, Header!majorBytes,
         Header!majorText, Header!majorArray, Header!majorMap, Header!majorSimple,
         endAt, textAt
<1>3. ASSUME h.next > 0
      PROVE  /\ h.major \in 0..7 /\ h.value \in Nat /\ h.next \in Nat \ {0}
             /\ end \in Int
  <2>1. h.major \in 0..7 /\ h.value \in 0..Header!MaxUint64 /\ h.next \in pos + 1 .. Len(data) + 1
    BY <1>3, OneHeader
  <2>2. h.value \in Nat /\ h.next \in Nat \ {0}
    BY <2>1
  <2> QED
    BY <2>1, <2>2 DEF endAt, Header!readBytes, Header!UnexpectedEOF
<1> SUFFICES OneWalked(data, h, strict, below, e)
  OBVIOUS
<1> HIDE DEF h, e, end, text
<1>4. CASE h.next < 1
  BY <1>1, <1>2, <1>4 DEF OneWalked
<1>5. CASE h.next > 0
  <2>1. ~(h.next < 1)
    BY <1>1, <1>5
  <2>2. ~(end < 1) <=> end > 0
    BY <1>3, <1>5
  <2>3. /\ h.major \in {0, 1} => e = h.next
        /\ h.major = 2 => e = end
        /\ h.major = 4 => e = Header!walkItems(below)[h.value][h.next]
    BY <1>2, <2>1
  <2>4. h.major = 3 => e = IF strict /\ end > 0 /\ ~Header!ValidUTF8(text)
                              THEN Header!Invalid ELSE end
    BY <1>2, <2>1, <2>2
  <2>5. h.major = 5 => e = IF strict THEN Header!walkPairs(data, below)[h.value][h.next][{}]
                                     ELSE Header!walkItems(below)[2 * h.value][h.next]
    BY <1>2, <2>1
  <2>6. /\ h.major = 7 => e = IF h.value \in Header!simpleSupported THEN h.next ELSE Header!Invalid
        /\ h.major = 6 => e = Header!Invalid
    BY <1>2, <2>1
  <2> QED
    BY <1>3, <1>5, <2>1, <2>3, <2>4, <2>5, <2>6 DEF OneWalked, end, text
<1> QED
  BY <1>1, <1>4, <1>5

LEMMA WalkOneType ==
    ASSUME Header!HeaderSizes, IntsFit, NEW data \in Seq(HeaderByte), NEW pos \in Nat \ {0},
           NEW strict \in BOOLEAN, NEW below \in Ends
    PROVE  Header!walkOne(data, pos, strict, below) \in Int
<1> DEFINE h == Header!decodeHeader(data, pos)
           e == Header!walkOne(data, pos, strict, below)
           items == Header!walkItems(below)
           pairs == Header!walkPairs(data, below)
<1>1. OneWalked(data, h, strict, below, e) /\ h.next \in Int
  BY WalkedOne, HeaderNext
<1>2. /\ items \in [Nat -> [Int -> Int]]
      /\ pairs \in [Nat -> [Int -> [SUBSET Int -> Int]]]
  BY ItemsRecur, PairsRecur DEF PastItems, PastPairs
<1> SUFFICES e \in Int
  OBVIOUS
<1> HIDE DEF h, e, items, pairs
<1>3. CASE h.next < 1
  BY <1>1, <1>3 DEF OneWalked
<1>4. CASE h.next > 0
  <2>1. /\ h.major \in 0..7 /\ h.value \in Nat /\ 2 * h.value \in Nat /\ h.next \in Int
        /\ endAt(data, h) \in Int
    BY <1>1, <1>4 DEF OneWalked
  <2>2. /\ items[h.value][h.next] \in Int /\ items[2 * h.value][h.next] \in Int
        /\ pairs[h.value][h.next][{}] \in Int
    <3>1. items[h.value] \in [Int -> Int] /\ items[2 * h.value] \in [Int -> Int]
      BY <1>2, <2>1
    <3>2. pairs[h.value] \in [Int -> [SUBSET Int -> Int]] /\ {} \in SUBSET Int
      BY <1>2, <2>1
    <3>3. pairs[h.value][h.next] \in [SUBSET Int -> Int]
      BY <2>1, <3>2
    <3> QED
      BY <2>1, <3>1, <3>2, <3>3
  <2>3. Header!Invalid \in Int
    BY DEF Header!Invalid
  <2>4. CASE h.major \in {0, 1}
    BY <1>1, <1>4, <2>1, <2>4 DEF OneWalked
  <2>5. CASE h.major = 2
    BY <1>1, <1>4, <2>1, <2>5 DEF OneWalked
  <2>6. CASE h.major = 3
    BY <1>1, <1>4, <2>1, <2>3, <2>6 DEF OneWalked
  <2>7. CASE h.major = 4
    BY <1>1, <1>4, <2>2, <2>7 DEF OneWalked, items
  <2>8. CASE h.major = 5
    BY <1>1, <1>4, <2>2, <2>8 DEF OneWalked, items, pairs
  <2>9. CASE h.major \in {6, 7}
    BY <1>1, <1>4, <2>1, <2>3, <2>9 DEF OneWalked
  <2>10. \/ h.major \in {0, 1} \/ h.major = 2 \/ h.major = 3 \/ h.major = 4 \/ h.major = 5
         \/ h.major \in {6, 7}
    BY <2>1
  <2> QED
    BY <2>4, <2>5, <2>6, <2>7, <2>8, <2>9, <2>10
<1>5. h.next < 1 \/ h.next > 0
  BY <1>1
<1> QED
  BY <1>3, <1>4, <1>5

(* ... and so is walks, with the depth left.                               *)
EndsAre(ends, data, strict) ==
    /\ ends \in [Nat -> Ends]
    /\ \A pos \in Nat \ {0} : ends[0][pos] = Header!Invalid
    /\ \A depth \in Nat, pos \in Nat \ {0} :
          ends[depth + 1][pos] = Header!walkOne(data, pos, strict, ends[depth])

LEMMA WalksRecur ==
    ASSUME Header!HeaderSizes, IntsFit, NEW data \in Seq(HeaderByte), NEW strict \in BOOLEAN
    PROVE  EndsAre(Header!walks(data, strict), data, strict)
<1> DEFINE P    == Nat \ {0}
           a    == [pos \in P |-> Header!Invalid]
           go(f) == [pos \in P |-> Header!walkOne(data, pos, strict, f)]
           step == [d \in Nat |-> [f \in Ends |-> go(f)]]
           whole(p) == [d \in Nat |-> [pos \in P |->
                          IF d = 0 THEN Header!Invalid
                                   ELSE Header!walkOne(data, pos, strict, p[d - 1])]]
           ends == Header!walks(data, strict)
<1>1. a \in Ends /\ \A f \in Ends : go(f) \in Ends
  <2>1. a \in Ends
    BY DEF Ends, Header!Invalid
  <2>2. ASSUME NEW f \in Ends PROVE go(f) \in Ends
    <3>1. \A pos \in P : Header!walkOne(data, pos, strict, f) \in Int
      BY WalkOneType
    <3> QED
      BY <3>1 DEF Ends
  <2> QED
    BY <2>1, <2>2
<1>2. PICK f \in [Nat -> Ends] : Recurs(f, a, step)
  <2>1. step \in [Nat -> [Ends -> Ends]]
    <3> HIDE DEF go
    <3> QED
      BY <1>1
  <2> HIDE DEF step, a
  <2> QED
    BY <1>1, <2>1, Recursion
<1>3. ASSUME NEW d \in Nat
      PROVE  f[d] = [pos \in P |-> IF d = 0 THEN Header!Invalid
                                   ELSE Header!walkOne(data, pos, strict, f[d - 1])]
  <2>1. CASE d = 0
    BY <1>2, <2>1 DEF Recurs
  <2>2. CASE d # 0
    <3>1. d - 1 \in Nat /\ (d - 1) + 1 = d /\ f[d - 1] \in Ends
      BY <2>2
    <3>2. f[d] = step[d - 1][f[d - 1]]
      <4> HIDE DEF step
      <4> QED
        BY <1>2, <3>1 DEF Recurs
    <3>3. step[d - 1][f[d - 1]] = go(f[d - 1])
      <4> HIDE DEF go
      <4> QED
        BY <3>1
    <3> QED
      BY <2>2, <3>2, <3>3
  <2> QED
    BY <2>1, <2>2
<1>4. f = whole(f)
  BY <1>3
<1>5. ends = CHOOSE p : p = whole(p)
  BY DEF Header!walks
<1> HIDE DEF step, ends
<1>6. ends = whole(ends)
  <2> HIDE DEF whole
  <2> QED
    BY <1>4, <1>5
<1>7. ends[0] = a
  BY <1>6
<1>8. ASSUME NEW d \in Nat PROVE ends[d + 1] = go(ends[d])
  <2>1. d + 1 \in Nat /\ d + 1 # 0 /\ (d + 1) - 1 = d
    OBVIOUS
  <2>2. ends[d + 1] = [pos \in P |-> Header!walkOne(data, pos, strict, ends[(d + 1) - 1])]
    BY <1>6, <2>1
  <2> QED
    BY <2>1, <2>2
<1> DEFINE S == {d \in Nat : ends[d] \in Ends}
<1>9. \A d \in Nat : d \in S
  <2>1. 0 \in S
    BY <1>1, <1>7
  <2>2. ASSUME NEW d \in Nat, d \in S PROVE d + 1 \in S
    <3>1. ends[d] \in Ends /\ d + 1 \in Nat
      BY <2>2
    <3> HIDE DEF go
    <3> QED
      BY <1>1, <1>8, <3>1
  <2> HIDE DEF S
  <2> QED
    BY <2>1, <2>2, Induction
<1>10. ends \in [Nat -> Ends]
  BY <1>6, <1>9
<1>11. \A pos \in Nat \ {0} : ends[0][pos] = Header!Invalid
  BY <1>7
<1>12. \A d \in Nat, pos \in Nat \ {0} :
          ends[d + 1][pos] = Header!walkOne(data, pos, strict, ends[d])
  BY <1>8
<1> QED
  BY <1>10, <1>11, <1>12 DEF EndsAre, ends
-----------------------------------------------------------------------------
(* What was read from data is read from it with more behind it, too: a     *)
(* header, ...                                                             *)
SameHeader(h, g) == g.major = h.major /\ g.value = h.value /\ g.next = h.next

LEMMA HeaderProlongs ==
    ASSUME Header!HeaderSizes, NEW data \in Seq(HeaderByte), NEW rest \in Seq(HeaderByte),
           NEW pos \in Nat \ {0}, Header!decodeHeader(data, pos).next > 0
    PROVE  SameHeader(Header!decodeHeader(data, pos), Header!decodeHeader(data \o rest, pos))
<1> DEFINE h == Header!decodeHeader(data, pos)
           n == h.next - 1
           code == Header!encodeLength(h.major, h.value)
           before == SubSeq(data, 1, pos - 1)
           after  == SubSeq(data, n + 1, Len(data))
<1>1. /\ h.major \in 0..7 /\ h.value \in 0..Header!MaxUint64
      /\ h.next \in pos + 1 .. Len(data) + 1
      /\ SubSeq(data, pos, n) = code
  BY OneHeader
<1>2. /\ n \in Nat /\ pos <= n /\ n <= Len(data) /\ Len(data) \in Nat
      /\ h.next = n + 1 /\ n \in 0..Len(data) /\ pos - 1 \in 0..Len(data)
  BY <1>1
<1> HIDE DEF n, code
<1>3. /\ before \in Seq(HeaderByte) /\ Len(before) = pos - 1
      /\ after \in Seq(HeaderByte)
      /\ data = SubSeq(data, 1, n) \o after
  BY <1>2, SplitJoins
<1>4. SubSeq(data, 1, n) = before \o code
  <2>1. 1 \in 1..Len(data) + 1 /\ pos - 1 \in (1 - 1)..Len(data) /\ n \in (pos - 1)..Len(data)
        /\ (pos - 1) + 1 = pos
    BY <1>2
  <2>2. SubSeq(data, 1, pos - 1) \o SubSeq(data, (pos - 1) + 1, n) = SubSeq(data, 1, n)
    BY <2>1, ConcatAdjacentSubSeq
  <2> QED
    BY <1>1, <2>1, <2>2
<1>5. code \in Seq(HeaderByte) /\ Len(code) = n - pos + 1
  <2>1. SubSeq(data, pos, n) \in Seq(HeaderByte) /\ Len(SubSeq(data, pos, n)) = n - pos + 1
    BY <1>2
  <2> QED
    BY <1>1, <2>1
<1> HIDE DEF before, after
<1>6. data \o rest = before \o code \o (after \o rest) /\ after \o rest \in Seq(HeaderByte)
  <2>1. before \o code \in Seq(HeaderByte)
    BY <1>3, <1>5
  <2>2. Associates(before \o code, after, rest)
    BY <1>3, <2>1, ConcatAssociates
  <2>3. data = (before \o code) \o after
    BY <1>3, <1>4
  <2>4. after \o rest \in Seq(HeaderByte)
    BY <1>3
  <2> QED
    BY <2>2, <2>3, <2>4, Zenon DEF Associates
<1>7. Header!decodeHeader(before \o code \o (after \o rest), Len(before) + 1)
        = [major |-> h.major, value |-> h.value, next |-> Len(before) + 1 + Len(code)]
  BY <1>1, <1>3, <1>6, HeaderReads DEF code
<1>8. Len(before) + 1 = pos /\ Len(before) + 1 + Len(code) = h.next
  BY <1>2, <1>3, <1>5
<1> HIDE DEF h
<1> SUFFICES SameHeader(h, Header!decodeHeader(data \o rest, pos))
  BY DEF h
<1> QED
  BY <1>6, <1>7, <1>8 DEF SameHeader

(* ... the bytes behind it, ...                                            *)
LEMMA BytesProlong ==
    ASSUME LargestInt \in Nat, NEW data \in Seq(HeaderByte), NEW rest \in Seq(HeaderByte),
           NEW h, NEW g, SameHeader(h, g), h.value \in Nat, h.next \in Nat \ {0},
           endAt(data, h) > 0
    PROVE  endAt(data \o rest, g) = endAt(data, h) /\ textAt(data \o rest, g) = textAt(data, h)
<1>1. /\ Len(data) \in Nat /\ Len(rest) \in Nat /\ data \o rest \in Seq(HeaderByte)
      /\ Len(data \o rest) = Len(data) + Len(rest)
  OBVIOUS
<1>2. ~(h.value > LargestInt) /\ ~(h.value > Len(data) - h.next + 1)
      /\ endAt(data, h) = h.next + h.value
  BY DEF endAt, Header!readBytes, Header!UnexpectedEOF
<1>3. ~(h.value > Len(data \o rest) - h.next + 1)
  BY <1>1, <1>2
<1>4. endAt(data \o rest, g) = endAt(data, h)
  BY <1>2, <1>3 DEF endAt, Header!readBytes, SameHeader
<1>5. endAt(data, h) - 1 \in Nat /\ endAt(data, h) - 1 <= Len(data)
  BY <1>1, <1>2
<1>6. SubSeq(data \o rest, h.next, endAt(data, h) - 1) = SubSeq(data, h.next, endAt(data, h) - 1)
  BY <1>5, SubSeqOfFirst
<1> QED
  BY <1>4, <1>6 DEF textAt, SameHeader

(* ... and a key.                                                          *)
LEMMA KeyProlongs ==
    ASSUME Header!HeaderSizes, NEW data \in Seq(HeaderByte), NEW rest \in Seq(HeaderByte),
           NEW pos \in Nat \ {0}, NEW prevKey, NEW key, KeyAt(data, pos, prevKey, key)
    PROVE  KeyAt(data \o rest, pos, prevKey, key)
<1> DEFINE h == Header!decodeHeader(data, pos)
           g == Header!decodeHeader(data \o rest, pos)
<1>1. key \in Header!DecodeInt(data, pos)
  BY DEF KeyAt, Header!keysAt
<1>2. h.next > 0
  BY <1>1 DEF Header!DecodeInt
<1>3. SameHeader(h, g)
  BY <1>2, HeaderProlongs
<1>4. Header!DecodeInt(data \o rest, pos) = Header!DecodeInt(data, pos)
  BY <1>3 DEF Header!DecodeInt, SameHeader
<1>5. Header!keysAt(data \o rest, pos, prevKey) = Header!keysAt(data, pos, prevKey)
  BY <1>4 DEF Header!keysAt
<1> QED
  BY <1>3, <1>5 DEF KeyAt, SameHeader

(* So do items and pairs, if those in them do.                             *)
Agree(below, other) ==
    \A pos \in Nat \ {0} : below[pos] > 0 => other[pos] = below[pos]

LEMMA ItemsStep ==
    ASSUME NEW past, NEW end, PastItems(past, end), NEW n \in Nat, NEW pos \in Int
    PROVE  /\ pos < 1 => past[n][pos] = pos
           /\ ~(pos < 1) => past[n + 1][pos] = past[n][end[pos]]
<1>1. ASSUME pos < 1 PROVE past[n][pos] = pos
  <2>1. CASE n = 0
    BY <2>1 DEF PastItems
  <2>2. CASE n # 0
    <3>1. n - 1 \in Nat /\ (n - 1) + 1 = n
      BY <2>2
    <3>2. past[(n - 1) + 1][pos] = pos
      BY <1>1, <3>1, Zenon DEF PastItems
    <3> QED
      BY <3>1, <3>2
  <2> QED
    BY <2>1, <2>2
<1>2. ASSUME ~(pos < 1) PROVE past[n + 1][pos] = past[n][end[pos]]
  BY <1>2, Zenon DEF PastItems
<1> QED
  BY <1>1, <1>2

LEMMA ItemsAgree ==
    ASSUME NEW below \in Ends, NEW other \in Ends, Agree(below, other),
           NEW n \in Nat, NEW pos \in Int, Header!walkItems(below)[n][pos] > 0
    PROVE  Header!walkItems(other)[n][pos] = Header!walkItems(below)[n][pos]
<1> DEFINE p == Header!walkItems(below)
           q == Header!walkItems(other)
           S == {k \in Nat : \A x \in Int : p[k][x] > 0 => q[k][x] = p[k][x]}
<1>1. PastItems(p, below) /\ PastItems(q, other)
  BY ItemsRecur
<1> HIDE DEF p, q
<1>2. 0 \in S
  BY <1>1 DEF PastItems
<1>3. ASSUME NEW k \in Nat, k \in S PROVE k + 1 \in S
  <2>1. ASSUME NEW x \in Int, p[k + 1][x] > 0 PROVE q[k + 1][x] = p[k + 1][x]
    <3>1. CASE x < 1
      <4>1. k + 1 \in Nat
        OBVIOUS
      <4> QED
        BY <1>1, <3>1, <4>1, ItemsStep
    <3>2. CASE ~(x < 1)
      <4>1. p[k + 1][x] = p[k][below[x]] /\ q[k + 1][x] = q[k][other[x]]
        BY <1>1, <3>2, ItemsStep
      <4>2. x \in Nat \ {0} /\ below[x] \in Int
        BY <3>2 DEF Ends
      <4>3. below[x] > 0
        <5> SUFFICES ASSUME ~(below[x] > 0) PROVE FALSE
          OBVIOUS
        <5>1. below[x] < 1
          BY <4>2
        <5>2. p[k][below[x]] = below[x]
          BY <1>1, <4>2, <5>1, ItemsStep
        <5> QED
          BY <2>1, <4>1, <5>2
      <4>4. other[x] = below[x]
        BY <4>2, <4>3 DEF Agree
      <4> QED
        BY <1>3, <2>1, <4>1, <4>2, <4>4
    <3> QED
      BY <3>1, <3>2
  <2> QED
    BY <2>1
<1> HIDE DEF S
<1>4. n \in S
  BY <1>2, <1>3, Induction
<1> QED
  BY <1>4 DEF S, p, q

LEMMA PairsStep ==
    ASSUME NEW past, NEW data, NEW end, PastPairs(past, data, end),
           NEW n \in Nat, NEW pos \in Int, NEW prevKey \in SUBSET Int
    PROVE  /\ pos < 1 => past[n][pos][prevKey] = pos
           /\ PastPair(past, data, end, n, pos, prevKey)
<1>1. ASSUME pos < 1 PROVE past[n][pos][prevKey] = pos
  <2>1. CASE n = 0
    BY <2>1 DEF PastPairs
  <2>2. CASE n # 0
    <3>1. n - 1 \in Nat /\ (n - 1) + 1 = n
      BY <2>2
    <3>2. PastPair(past, data, end, n - 1, pos, prevKey)
      BY <3>1 DEF PastPairs
    <3>3. past[(n - 1) + 1][pos][prevKey] = pos
      BY <1>1, <3>2 DEF PastPair
    <3> QED
      BY <3>1, <3>3
  <2> QED
    BY <2>1, <2>2
<1>2. PastPair(past, data, end, n, pos, prevKey)
  BY DEF PastPairs
<1> QED
  BY <1>1, <1>2

(* Past some pairs there is a key, and an item behind it.                  *)
PairAt(past, data, below, n, pos, prevKey, key) ==
    /\ KeyAt(data, pos, prevKey, key) /\ {key.value} \in SUBSET Int
    /\ below[key.next] \in Int /\ below[key.next] > 0
    /\ past[n + 1][pos][prevKey] = past[n][below[key.next]][{key.value}]

LEMMA PairsBegin ==
    ASSUME Header!HeaderSizes, IntsFit, NEW data \in Seq(HeaderByte), NEW below \in Ends,
           NEW past, PastPairs(past, data, below),
           NEW n \in Nat, NEW pos \in Int, NEW prevKey \in SUBSET Int,
           past[n + 1][pos][prevKey] > 0, ~(pos < 1)
    PROVE  \E key : PairAt(past, data, below, n, pos, prevKey, key)
<1>a. PastPair(past, data, below, n, pos, prevKey) /\ pos >= 1
  BY PairsStep
<1>1. Header!keysAt(data, pos, prevKey) # {}
  <2> SUFFICES ASSUME Header!keysAt(data, pos, prevKey) = {} PROVE FALSE
    OBVIOUS
  <2>1. past[n + 1][pos][prevKey] = Header!Invalid
    BY <1>a DEF PastPair
  <2> QED
    BY <2>1 DEF Header!Invalid
<1>2. pos \in Nat \ {0}
  OBVIOUS
<1>3. PICK key : KeyAt(data, pos, prevKey, key)
  BY <1>1, <1>2, NextKey
<1>4. /\ key.next \in Nat \ {0} /\ {key.value} \in SUBSET Int /\ below[key.next] \in Int
      /\ past[n + 1][pos][prevKey] = past[n][below[key.next]][{key.value}]
  <2>1. key.next \in Nat \ {0} /\ {key.value} \in SUBSET Int
    BY <1>3 DEF KeyAt
  <2>2. past[n + 1][pos][prevKey] = past[n][below[key.next]][{key.value}]
    BY <1>3, <1>a DEF PastPair
  <2> QED
    BY <2>1, <2>2 DEF Ends
<1>5. below[key.next] > 0
  <2> SUFFICES ASSUME below[key.next] < 1 PROVE FALSE
    BY <1>4
  <2>1. past[n][below[key.next]][{key.value}] = below[key.next]
    BY <1>4, PairsStep
  <2> QED
    BY <1>4, <2>1
<1> QED
  BY <1>3, <1>4, <1>5 DEF PairAt

LEMMA PairsAgree ==
    ASSUME Header!HeaderSizes, IntsFit, NEW data \in Seq(HeaderByte), NEW rest \in Seq(HeaderByte),
           NEW below \in Ends, NEW other \in Ends, Agree(below, other),
           NEW n \in Nat, NEW pos \in Int, NEW prevKey \in SUBSET Int,
           Header!walkPairs(data, below)[n][pos][prevKey] > 0
    PROVE  Header!walkPairs(data \o rest, other)[n][pos][prevKey]
             = Header!walkPairs(data, below)[n][pos][prevKey]
<1> DEFINE p == Header!walkPairs(data, below)
           q == Header!walkPairs(data \o rest, other)
           S == {k \in Nat : \A x \in Int, prev \in SUBSET Int :
                               p[k][x][prev] > 0 => q[k][x][prev] = p[k][x][prev]}
<1>1. PastPairs(p, data, below) /\ PastPairs(q, data \o rest, other)
  <2>1. data \o rest \in Seq(HeaderByte)
    OBVIOUS
  <2> QED
    BY <2>1, PairsRecur
<1> HIDE DEF p, q
<1>2. 0 \in S
  BY <1>1 DEF PastPairs
<1>3. ASSUME NEW k \in Nat, k \in S PROVE k + 1 \in S
  <2>1. ASSUME NEW x \in Int, NEW prev \in SUBSET Int, p[k + 1][x][prev] > 0
        PROVE  q[k + 1][x][prev] = p[k + 1][x][prev]
    <3>1. CASE x < 1
      <4>1. k + 1 \in Nat
        OBVIOUS
      <4> QED
        BY <1>1, <3>1, <4>1, PairsStep
    <3>2. CASE ~(x < 1)
      <4>1. PICK key : PairAt(p, data, below, k, x, prev, key)
        BY <1>1, <2>1, <3>2, PairsBegin, ZenonT(30)
      <4>2. /\ KeyAt(data, x, prev, key) /\ key.next \in Nat \ {0} /\ {key.value} \in SUBSET Int
            /\ below[key.next] \in Int /\ below[key.next] > 0 /\ x \in Nat \ {0}
            /\ p[k + 1][x][prev] = p[k][below[key.next]][{key.value}]
        BY <3>2, <4>1 DEF PairAt, KeyAt
      <4>3. KeyAt(data \o rest, x, prev, key)
        BY <4>2, KeyProlongs
      <4>4. q[k + 1][x][prev] = q[k][other[key.next]][{key.value}]
        BY <1>1, <3>2, <4>3, PairsStep DEF PastPair
      <4>5. other[key.next] = below[key.next]
        BY <4>2 DEF Agree
      <4> QED
        BY <1>3, <2>1, <4>2, <4>4, <4>5
    <3> QED
      BY <3>1, <3>2
  <2> QED
    BY <2>1
<1> HIDE DEF S
<1>4. n \in S
  BY <1>2, <1>3, Induction
<1> QED
  BY <1>4 DEF S, p, q

(* Pairs are items, too, if keys are.                                      *)
KeysPass(data, below, other) ==
    (\E pos \in Nat \ {0} : below[pos] > 0) =>
        \A pos \in Nat \ {0} : \A prevKey, key :
            KeyAt(data, pos, prevKey, key) => other[pos] = key.next

LEMMA PairsAsItems ==
    ASSUME Header!HeaderSizes, IntsFit, NEW data \in Seq(HeaderByte),
           NEW below \in Ends, NEW other \in Ends, Agree(below, other),
           KeysPass(data, below, other),
           NEW n \in Nat, NEW pos \in Int, NEW prevKey \in SUBSET Int,
           Header!walkPairs(data, below)[n][pos][prevKey] > 0
    PROVE  Header!walkItems(other)[2 * n][pos] = Header!walkPairs(data, below)[n][pos][prevKey]
<1> DEFINE p == Header!walkPairs(data, below)
           q == Header!walkItems(other)
           S == {k \in Nat : \A x \in Int, prev \in SUBSET Int :
                               p[k][x][prev] > 0 => q[2 * k][x] = p[k][x][prev]}
<1>1. PastPairs(p, data, below) /\ PastItems(q, other)
  BY PairsRecur, ItemsRecur
<1> HIDE DEF p, q
<1>2. 0 \in S
  <2>1. ASSUME NEW x \in Int, NEW prev \in SUBSET Int PROVE q[2 * 0][x] = p[0][x][prev]
    <3>1. q[0][x] = x /\ p[0][x][prev] = x
      BY <1>1 DEF PastPairs, PastItems
    <3> QED
      BY <3>1
  <2> QED
    BY <2>1
<1>3. ASSUME NEW k \in Nat, k \in S PROVE k + 1 \in S
  <2>1. ASSUME NEW x \in Int, NEW prev \in SUBSET Int, p[k + 1][x][prev] > 0
        PROVE  q[2 * (k + 1)][x] = p[k + 1][x][prev]
    <3>0. /\ k + 1 \in Nat /\ 2 * k \in Nat /\ 2 * k + 1 \in Nat /\ 2 * (k + 1) \in Nat
          /\ 2 * (k + 1) = (2 * k + 1) + 1
      OBVIOUS
    <3>1. CASE x < 1
      <4>1. p[k + 1][x][prev] = x
        BY <1>1, <3>0, <3>1, PairsStep
      <4> DEFINE m == 2 * (k + 1)
      <4>2. m \in Nat
        BY <3>0
      <4> HIDE DEF m
      <4>3. q[m][x] = x
        BY <1>1, <3>1, <4>2, ItemsStep
      <4> QED
        BY <4>1, <4>3 DEF m
    <3>2. CASE ~(x < 1)
      <4>1. PICK key : PairAt(p, data, below, k, x, prev, key)
        BY <1>1, <2>1, <3>2, PairsBegin, ZenonT(30)
      <4>2. /\ KeyAt(data, x, prev, key) /\ key.next \in Nat \ {0} /\ {key.value} \in SUBSET Int
            /\ below[key.next] \in Int /\ below[key.next] > 0 /\ x \in Nat \ {0}
            /\ p[k + 1][x][prev] = p[k][below[key.next]][{key.value}]
        BY <3>2, <4>1 DEF PairAt, KeyAt
      <4>3. other[x] = key.next /\ other[key.next] = below[key.next]
        BY <4>2 DEF KeysPass, Agree
      <4>4. q[(2 * k + 1) + 1][x] = q[2 * k + 1][other[x]]
        <5> DEFINE m == 2 * k + 1
        <5>1. m \in Nat
          BY <3>0
        <5> HIDE DEF m
        <5>2. q[m + 1][x] = q[m][other[x]]
          BY <1>1, <3>2, <5>1, ItemsStep, SMTT(30)
        <5> QED
          BY <5>2 DEF m
      <4>5. q[2 * k + 1][key.next] = q[2 * k][other[key.next]]
        <5> DEFINE m == 2 * k
                   x2 == key.next
        <5>1. x2 \in Int /\ ~(x2 < 1) /\ m \in Nat
          BY <3>0, <4>2
        <5> HIDE DEF m, x2
        <5>2. q[m + 1][x2] = q[m][other[x2]]
          BY <1>1, <5>1, ItemsStep
        <5> QED
          BY <5>2 DEF m, x2
      <4>6. q[2 * k][below[key.next]] = p[k][below[key.next]][{key.value}]
        BY <1>3, <2>1, <4>2
      <4> QED
        BY <3>0, <4>2, <4>3, <4>4, <4>5, <4>6
    <3> QED
      BY <3>1, <3>2
  <2> QED
    BY <2>1
<1> HIDE DEF S
<1>4. n \in S
  BY <1>2, <1>3, Induction
<1> QED
  BY <1>4 DEF S, p, q

(* An item with what is in it ...                                          *)
LEMMA OneAgrees ==
    ASSUME Header!HeaderSizes, IntsFit, LargestInt \in Nat,
           NEW data \in Seq(HeaderByte), NEW rest \in Seq(HeaderByte), NEW pos \in Nat \ {0},
           NEW strict \in BOOLEAN, NEW lax \in BOOLEAN, lax => strict,
           NEW below \in Ends, NEW other \in Ends, Agree(below, other),
           strict /\ ~lax => KeysPass(data, below, other),
           Header!walkOne(data, pos, strict, below) > 0
    PROVE  Header!walkOne(data \o rest, pos, lax, other) = Header!walkOne(data, pos, strict, below)
<1> DEFINE longer == data \o rest
           h == Header!decodeHeader(data, pos)
           g == Header!decodeHeader(longer, pos)
           e == Header!walkOne(data, pos, strict, below)
           f == Header!walkOne(longer, pos, lax, other)
<1>0. longer \in Seq(HeaderByte)
  OBVIOUS
<1>1. OneWalked(data, h, strict, below, e) /\ OneWalked(longer, g, lax, other, f) /\ h.next \in Int
  BY <1>0, WalkedOne, HeaderNext
<1>2. h.next > 0
  BY <1>1 DEF OneWalked
<1>3. SameHeader(h, g)
  BY <1>2, HeaderProlongs
<1> SUFFICES f = e
  OBVIOUS
<1>4. e > 0
  OBVIOUS
<1> HIDE DEF h, g, e, f
<1>5. /\ h.major \in 0..7 /\ h.value \in Nat /\ 2 * h.value \in Nat /\ h.next \in Nat \ {0}
      /\ g.major = h.major /\ g.value = h.value /\ g.next = h.next /\ g.next > 0
      /\ h.next \in Int
  BY <1>1, <1>2, <1>3, SMTT(30) DEF OneWalked, SameHeader
<1>6. endAt(data, h) > 0 => /\ endAt(longer, g) = endAt(data, h)
                            /\ textAt(longer, g) = textAt(data, h)
  BY <1>3, <1>5, BytesProlong
<1>7. \/ h.major \in {0, 1} \/ h.major = 2 \/ h.major = 3 \/ h.major = 4 \/ h.major = 5
      \/ h.major = 6 \/ h.major = 7
  BY <1>5
<1> HIDE DEF longer
<1>8. CASE h.major \in {0, 1}
  BY <1>1, <1>2, <1>5, <1>8 DEF OneWalked
<1>9. CASE h.major = 2
  BY <1>1, <1>2, <1>4, <1>5, <1>6, <1>9 DEF OneWalked
<1>10. CASE h.major = 3
  <2>1. e = endAt(data, h) /\ endAt(data, h) > 0
        /\ ~(strict /\ ~Header!ValidUTF8(textAt(data, h)))
    BY <1>1, <1>2, <1>4, <1>10 DEF OneWalked, Header!Invalid
  <2> QED
    BY <1>1, <1>5, <1>6, <1>10, <2>1 DEF OneWalked
<1>11. CASE h.major = 4
  <2>1. e = Header!walkItems(below)[h.value][h.next]
    BY <1>1, <1>2, <1>11 DEF OneWalked
  <2>2. f = Header!walkItems(other)[h.value][h.next]
    BY <1>1, <1>5, <1>11 DEF OneWalked
  <2> QED
    BY <1>4, <1>5, <2>1, <2>2, ItemsAgree, SMTT(30)
<1>12. CASE h.major = 5
  <2>1. e = IF strict THEN Header!walkPairs(data, below)[h.value][h.next][{}]
                      ELSE Header!walkItems(below)[2 * h.value][h.next]
    BY <1>1, <1>2, <1>12 DEF OneWalked
  <2>2. f = IF lax THEN Header!walkPairs(longer, other)[h.value][h.next][{}]
                   ELSE Header!walkItems(other)[2 * h.value][h.next]
    BY <1>1, <1>5, <1>12 DEF OneWalked
  <2>3. {} \in SUBSET Int
    OBVIOUS
  <2>4. CASE strict /\ lax
    BY <1>4, <1>5, <2>1, <2>2, <2>3, <2>4, PairsAgree, SMTT(30) DEF longer
  <2>5. CASE strict /\ ~lax
    BY <1>4, <1>5, <2>1, <2>2, <2>3, <2>5, PairsAsItems, SMTT(30)
  <2>6. CASE ~strict /\ ~lax
    BY <1>4, <1>5, <2>1, <2>2, <2>6, ItemsAgree, SMTT(30)
  <2> QED
    BY <2>4, <2>5, <2>6
<1>13. CASE h.major = 6
  BY <1>1, <1>2, <1>4, <1>13 DEF OneWalked, Header!Invalid
<1>14. CASE h.major = 7
  BY <1>1, <1>2, <1>4, <1>5, <1>14 DEF OneWalked, Header!Invalid
<1> QED
  BY <1>7, <1>8, <1>9, <1>10, <1>11, <1>12, <1>13, <1>14

(* ... at any depth.                                                       *)
LEMMA WalksAgree ==
    ASSUME Header!HeaderSizes, IntsFit, LargestInt \in Nat,
           NEW data \in Seq(HeaderByte), NEW rest \in Seq(HeaderByte),
           NEW strict \in BOOLEAN, NEW lax \in BOOLEAN, lax => strict,
           NEW depth \in Nat, NEW deeper \in Nat, depth <= deeper
    PROVE  Agree(Header!walks(data, strict)[depth], Header!walks(data \o rest, lax)[deeper])
<1> DEFINE longer == data \o rest
           p == Header!walks(data, strict)
           q == Header!walks(longer, lax)
           S == {d \in Nat : \A m \in Nat : d <= m => Agree(p[d], q[m])}
<1>0. longer \in Seq(HeaderByte)
  OBVIOUS
<1>1. EndsAre(p, data, strict) /\ EndsAre(q, longer, lax)
  BY <1>0, WalksRecur
<1> HIDE DEF p, q
<1>2. 0 \in S
  <2>1. \A pos \in Nat \ {0} : p[0][pos] = -1
    BY <1>1 DEF EndsAre, Header!Invalid
  <2>2. ~(-1 > 0)
    OBVIOUS
  <2>3. ASSUME NEW m \in Nat PROVE Agree(p[0], q[m])
    BY <2>1, <2>2 DEF Agree
  <2> QED
    BY <2>3
<1>3. ASSUME NEW d \in Nat, d \in S PROVE d + 1 \in S
  <2>1. ASSUME NEW m \in Nat, d + 1 <= m, NEW pos \in Nat \ {0}, p[d + 1][pos] > 0
        PROVE  q[m][pos] = p[d + 1][pos]
    <3>1. PICK k \in Nat : m = k + 1 /\ d <= k
      <4>1. m - 1 \in Nat /\ m = (m - 1) + 1 /\ d <= m - 1
        BY <2>1
      <4> QED
        BY <4>1
    <3>2. /\ p[d + 1][pos] = Header!walkOne(data, pos, strict, p[d])
          /\ q[m][pos] = Header!walkOne(longer, pos, lax, q[k])
          /\ p[d] \in Ends /\ q[k] \in Ends
      BY <1>1, <3>1 DEF EndsAre
    <3>3. Agree(p[d], q[k])
      BY <1>3, <3>1
    <3>4. KeysPass(data, p[d], q[k])
      <4> SUFFICES ASSUME NEW x \in Nat \ {0}, p[d][x] > 0,
                          NEW y \in Nat \ {0}, NEW prevKey, NEW key, KeyAt(data, y, prevKey, key)
                   PROVE  q[k][y] = key.next
        BY DEF KeysPass
      <4>1. d # 0
        <5>1. p[0][x] = -1
          BY <1>1, Zenon DEF EndsAre, Header!Invalid
        <5> QED
          BY <5>1
      <4>2. k - 1 \in Nat /\ (k - 1) + 1 = k
        BY <3>1, <4>1
      <4>3. q[k][y] = Header!walkOne(longer, y, lax, q[k - 1])
        <5>1. q[(k - 1) + 1][y] = Header!walkOne(longer, y, lax, q[k - 1])
          BY <1>1, <4>2 DEF EndsAre
        <5> QED
          BY <4>2, <5>1
      <4>4. KeyAt(longer, y, prevKey, key)
        BY KeyProlongs
      <4> DEFINE g == Header!decodeHeader(longer, y)
      <4>5. OneWalked(longer, g, lax, q[k - 1], q[k][y])
        BY <1>0, <4>3, WalkedOne
      <4>6. g.next = key.next /\ g.major \in {0, 1} /\ key.next \in Nat \ {0}
        BY <4>4 DEF KeyAt
      <4>7. g.next > 0
        BY <4>6
      <4> HIDE DEF g
      <4> QED
        BY <4>5, <4>6, <4>7 DEF OneWalked
    <3> QED
      BY <2>1, <3>2, <3>3, <3>4, OneAgrees, SMTT(30)
  <2> QED
    BY <2>1 DEF Agree
<1> HIDE DEF S
<1>4. depth \in S
  BY <1>2, <1>3, Induction
<1> QED
  BY <1>4 DEF S, p, q

(* An item that can be skipped, or is verified, has bytes and ends within  *)
(* the data, and what is in it as well.                                    *)
Inside(data, below) ==
    \A pos \in Nat \ {0} : below[pos] > 0 => below[pos] \in pos + 1 .. Len(data) + 1

LEMMA ItemsInside ==
    ASSUME NEW data \in Seq(HeaderByte), NEW below \in Ends, Inside(data, below),
           NEW n \in Nat, NEW pos \in 1..Len(data) + 1, Header!walkItems(below)[n][pos] > 0
    PROVE  Header!walkItems(below)[n][pos] \in pos..Len(data) + 1
<1> DEFINE p == Header!walkItems(below)
           L == Len(data) + 1
           S == {k \in Nat : \A x \in 1..L : p[k][x] > 0 => p[k][x] \in x..L}
<1>1. PastItems(p, below) /\ L \in Nat
  BY ItemsRecur
<1> HIDE DEF p, L
<1>2. 0 \in S
  <2>1. ASSUME NEW x \in 1..L PROVE p[0][x] \in x..L
    <3>1. p[0][x] = x
      BY <1>1 DEF PastItems
    <3> QED
      BY <1>1, <3>1
  <2> QED
    BY <2>1
<1>3. ASSUME NEW k \in Nat, k \in S PROVE k + 1 \in S
  <2>1. ASSUME NEW x \in 1..L, p[k + 1][x] > 0 PROVE p[k + 1][x] \in x..L
    <3>1. x \in Int /\ ~(x < 1) /\ x \in Nat \ {0}
      BY <1>1
    <3>2. p[k + 1][x] = p[k][below[x]] /\ below[x] \in Int
      <4>1. p[k + 1][x] = p[k][below[x]]
        BY <1>1, <3>1, ItemsStep
      <4> QED
        BY <3>1, <4>1 DEF Ends
    <3>3. below[x] > 0
      <4> SUFFICES ASSUME below[x] < 1 PROVE FALSE
        BY <3>2
      <4> DEFINE y == below[x]
      <4>1. y \in Int /\ y < 1
        BY <3>2
      <4> HIDE DEF y
      <4>2. p[k][y] = y
        BY <1>1, <4>1, ItemsStep
      <4> QED
        BY <2>1, <3>2, <4>1, <4>2 DEF y
    <3>4. below[x] \in x + 1 .. L
      BY <3>1, <3>3 DEF Inside, L
    <3>5. below[x] \in 1..L
      BY <1>1, <3>1, <3>4
    <3>6. p[k][below[x]] \in below[x]..L
      BY <1>3, <2>1, <3>2, <3>5
    <3> QED
      BY <1>1, <3>1, <3>2, <3>4, <3>6
  <2> QED
    BY <2>1
<1> HIDE DEF S
<1>4. n \in S
  BY <1>2, <1>3, Induction
<1> QED
  BY <1>4 DEF S, p, L

LEMMA PairsInside ==
    ASSUME Header!HeaderSizes, IntsFit, NEW data \in Seq(HeaderByte),
           NEW below \in Ends, Inside(data, below),
           NEW n \in Nat, NEW pos \in 1..Len(data) + 1, NEW prevKey \in SUBSET Int,
           Header!walkPairs(data, below)[n][pos][prevKey] > 0
    PROVE  Header!walkPairs(data, below)[n][pos][prevKey] \in pos..Len(data) + 1
<1> DEFINE p == Header!walkPairs(data, below)
           L == Len(data) + 1
           S == {k \in Nat : \A x \in 1..L, prev \in SUBSET Int :
                               p[k][x][prev] > 0 => p[k][x][prev] \in x..L}
<1>1. PastPairs(p, data, below) /\ L \in Nat
  BY PairsRecur
<1> HIDE DEF p, L
<1>2. 0 \in S
  <2>1. ASSUME NEW x \in 1..L, NEW prev \in SUBSET Int PROVE p[0][x][prev] \in x..L
    <3>1. p[0][x][prev] = x
      BY <1>1 DEF PastPairs
    <3> QED
      BY <1>1, <3>1
  <2> QED
    BY <2>1
<1>3. ASSUME NEW k \in Nat, k \in S PROVE k + 1 \in S
  <2>1. ASSUME NEW x \in 1..L, NEW prev \in SUBSET Int, p[k + 1][x][prev] > 0
        PROVE  p[k + 1][x][prev] \in x..L
    <3>1. x \in Int /\ ~(x < 1) /\ x \in Nat \ {0}
      BY <1>1
    <3>2. PICK key : PairAt(p, data, below, k, x, prev, key)
      BY <1>1, <2>1, <3>1, PairsBegin, ZenonT(30)
    <3>3. /\ KeyAt(data, x, prev, key) /\ key.next \in Nat \ {0} /\ {key.value} \in SUBSET Int
          /\ below[key.next] > 0
          /\ p[k + 1][x][prev] = p[k][below[key.next]][{key.value}]
          /\ Header!decodeHeader(data, x).next = key.next
      BY <3>2 DEF PairAt, KeyAt
    <3>4. key.next \in x + 1 .. L
      <4>1. Header!decodeHeader(data, x).next > 0
        BY <3>3
      <4>2. Header!decodeHeader(data, x).next \in x + 1 .. Len(data) + 1
        BY <3>1, <4>1, OneHeader
      <4> QED
        BY <3>3, <4>2 DEF L
    <3>5. below[key.next] \in key.next + 1 .. L
      BY <3>3 DEF Inside, L
    <3>6. below[key.next] \in 1..L /\ below[key.next] \in x..L
      BY <1>1, <3>1, <3>4, <3>5
    <3>7. p[k][below[key.next]][{key.value}] \in below[key.next]..L
      BY <1>3, <2>1, <3>3, <3>6
    <3> QED
      BY <1>1, <3>1, <3>3, <3>6, <3>7, SMTT(30)
  <2> QED
    BY <2>1
<1> HIDE DEF S
<1>4. n \in S
  BY <1>2, <1>3, Induction
<1> QED
  BY <1>4 DEF S, p, L

LEMMA OneInside ==
    ASSUME Header!HeaderSizes, IntsFit, LargestInt \in Nat,
           NEW data \in Seq(HeaderByte), NEW pos \in Nat \ {0}, NEW strict \in BOOLEAN,
           NEW below \in Ends, Inside(data, below),
           Header!walkOne(data, pos, strict, below) > 0
    PROVE  Header!walkOne(data, pos, strict, below) \in pos + 1 .. Len(data) + 1
<1> DEFINE h == Header!decodeHeader(data, pos)
           e == Header!walkOne(data, pos, strict, below)
           L == Len(data) + 1
<1>1. OneWalked(data, h, strict, below, e) /\ h.next \in Int /\ L \in Nat
  BY WalkedOne, HeaderNext
<1>2. h.next > 0
  BY <1>1 DEF OneWalked
<1>3. h.next \in pos + 1 .. L
  BY <1>2, OneHeader
<1> SUFFICES e \in pos + 1 .. L
  OBVIOUS
<1>4. e > 0
  OBVIOUS
<1> HIDE DEF h, e, L
<1>5. /\ h.major \in 0..7 /\ h.value \in Nat /\ 2 * h.value \in Nat
      /\ h.next \in 1..L /\ h.next \in Nat \ {0}
  <2>1. h.major \in 0..7 /\ h.value \in Nat /\ h.next \in Nat \ {0}
    BY <1>1, <1>2 DEF OneWalked
  <2>2. h.next <= L /\ L \in Nat
    BY <1>1, <1>3
  <2>3. 2 * h.value \in Nat
    BY <2>1
  <2>4. h.next \in 1..L
    BY <2>1, <2>2
  <2> QED
    BY <2>1, <2>3, <2>4
<1>6. \A x \in h.next..L : x \in pos + 1 .. L
  BY <1>1, <1>3, <1>5
<1>7. \/ h.major \in {0, 1} \/ h.major = 2 \/ h.major = 3 \/ h.major = 4 \/ h.major = 5
      \/ h.major = 6 \/ h.major = 7
  BY <1>5
<1>8. endAt(data, h) > 0 => endAt(data, h) \in h.next..L
  <2> SUFFICES ASSUME endAt(data, h) > 0 PROVE endAt(data, h) \in h.next..L
    OBVIOUS
  <2>1. ~(h.value > Len(data) - h.next + 1) /\ endAt(data, h) = h.next + h.value
    BY DEF endAt, Header!readBytes, Header!UnexpectedEOF
  <2> QED
    BY <1>1, <1>5, <2>1 DEF L
<1>9. CASE h.major \in {0, 1}
  BY <1>1, <1>2, <1>3, <1>9 DEF OneWalked
<1>10. CASE h.major = 2 \/ h.major = 3
  <2>1. e = endAt(data, h)
    BY <1>1, <1>2, <1>4, <1>10 DEF OneWalked, Header!Invalid
  <2> QED
    BY <1>4, <1>6, <1>8, <2>1
<1>11. CASE h.major = 4
  <2>1. e = Header!walkItems(below)[h.value][h.next]
    BY <1>1, <1>2, <1>11 DEF OneWalked
  <2>2. e \in h.next..L
    BY <1>4, <1>5, <2>1, ItemsInside DEF L
  <2> QED
    BY <1>6, <2>2
<1>12. CASE h.major = 5
  <2>1. e = IF strict THEN Header!walkPairs(data, below)[h.value][h.next][{}]
                      ELSE Header!walkItems(below)[2 * h.value][h.next]
    BY <1>1, <1>2, <1>12 DEF OneWalked
  <2>2. {} \in SUBSET Int
    OBVIOUS
  <2>3. CASE strict
    <3>1. e \in h.next..L
      BY <1>4, <1>5, <2>1, <2>2, <2>3, PairsInside DEF L
    <3> QED
      BY <1>6, <3>1
  <2>4. CASE ~strict
    <3>1. e \in h.next..L
      BY <1>4, <1>5, <2>1, <2>4, ItemsInside DEF L
    <3> QED
      BY <1>6, <3>1
  <2> QED
    BY <2>3, <2>4
<1>13. CASE h.major = 6
  BY <1>1, <1>2, <1>4, <1>13 DEF OneWalked, Header!Invalid
<1>14. CASE h.major = 7
  BY <1>1, <1>2, <1>3, <1>4, <1>14 DEF OneWalked, Header!Invalid
<1> QED
  BY <1>7, <1>9, <1>10, <1>11, <1>12, <1>13, <1>14

(* skipObject and verifyObject, on success, have gone ahead and are still  *)
(* within the data, however deep and long the item.                        *)
THEOREM ItemEnds ==
    ASSUME Header!HeaderSizes, IntsFit, LargestInt \in Nat,
           NEW data \in Seq(HeaderByte), NEW pos \in Nat \ {0}, NEW depth \in Nat,
           NEW strict \in BOOLEAN, Header!walk(data, pos, depth, strict) > 0
    PROVE  Header!walk(data, pos, depth, strict) \in pos + 1 .. Len(data) + 1
<1> DEFINE p == Header!walks(data, strict)
           S == {d \in Nat : Inside(data, p[d])}
<1>1. EndsAre(p, data, strict)
  BY WalksRecur
<1> HIDE DEF p
<1>2. 0 \in S
  <2>1. \A x \in Nat \ {0} : p[0][x] = -1
    BY <1>1 DEF EndsAre, Header!Invalid
  <2> QED
    BY <2>1 DEF Inside
<1>3. ASSUME NEW d \in Nat, d \in S PROVE d + 1 \in S
  <2>1. ASSUME NEW x \in Nat \ {0}, p[d + 1][x] > 0 PROVE p[d + 1][x] \in x + 1 .. Len(data) + 1
    <3>1. p[d + 1][x] = Header!walkOne(data, x, strict, p[d]) /\ p[d] \in Ends
      BY <1>1 DEF EndsAre
    <3> QED
      BY <1>3, <2>1, <3>1, OneInside
  <2> QED
    BY <2>1 DEF Inside
<1> HIDE DEF S
<1>4. depth \in S
  BY <1>2, <1>3, Induction
<1>5. Header!walk(data, pos, depth, strict) = p[depth][pos]
  BY DEF Header!walk, p
<1> QED
  BY <1>4, <1>5 DEF S, Inside

(* Where an item ends is a matter of its own bytes: with anything behind   *)
(* it and with more depth left it ends there, too, and what verifyObject   *)
(* accepts skipObject passes by.                                           *)
THEOREM ItemStandsAlone ==
    ASSUME Header!HeaderSizes, IntsFit, LargestInt \in Nat,
           NEW data \in Seq(HeaderByte), NEW rest \in Seq(HeaderByte), NEW pos \in Nat \ {0},
           NEW depth \in Nat, NEW deeper \in Nat, depth <= deeper,
           NEW strict \in BOOLEAN, NEW lax \in BOOLEAN, lax => strict,
           Header!walk(data, pos, depth, strict) > 0
    PROVE  Header!walk(data \o rest, pos, deeper, lax) = Header!walk(data, pos, depth, strict)
BY WalksAgree DEF Agree, Header!walk

(* So does one at the first byte, with the depth that Verify begins with.  *)
FirstOn(data, rest, strict, lax) ==
    Header!walk(data, 1, maxDepth, strict) > 0 =>
        Header!walk(data \o rest, 1, maxDepth, lax) = Header!walk(data, 1, maxDepth, strict)

LEMMA FirstStands ==
    ASSUME Header!HeaderSizes, IntsFit, LargestInt \in Nat, maxDepth \in Nat,
           NEW data \in Seq(HeaderByte), NEW rest \in Seq(HeaderByte)
    PROVE  /\ FirstOn(data, rest, TRUE, FALSE)
           /\ FirstOn(data, rest, TRUE, TRUE)
<1>1. \A strict \in BOOLEAN, lax \in BOOLEAN :
         (lax => strict) => FirstOn(data, rest, strict, lax)
  <2> TAKE strict \in BOOLEAN, lax \in BOOLEAN
  <2> SUFFICES ASSUME lax => strict, Header!walk(data, 1, maxDepth, strict) > 0
               PROVE  Header!walk(data \o rest, 1, maxDepth, lax)
                        = Header!walk(data, 1, maxDepth, strict)
    BY DEF FirstOn
  <2>1. 1 \in Nat \ {0} /\ maxDepth <= maxDepth
    OBVIOUS
  <2> QED
    BY <2>1, ItemStandsAlone
<1>2. FirstOn(data, rest, TRUE, FALSE)
  BY <1>1
<1>3. FirstOn(data, rest, TRUE, TRUE)
  BY <1>1
<1> QED
  BY <1>2, <1>3

(* What Verify accepts can be skipped, wherever it is the first item, ...  *)
THEOREM VerifiedSkips ==
    ASSUME Header!HeaderSizes, IntsFit, LargestInt \in Nat, maxDepth \in Nat,
           NEW data \in Seq(HeaderByte), NEW rest \in Seq(HeaderByte), Header!Verify(data)
    PROVE  Header!walk(data \o rest, 1, maxDepth, FALSE) = Len(data) + 1
<1>1. Header!walk(data, 1, maxDepth, TRUE) = Len(data) + 1 /\ Len(data) + 1 > 0
  <2>1. Header!walk(data, 1, maxDepth, TRUE) = Len(data) + 1
    BY Zenon DEF Header!Verify
  <2>2. Len(data) + 1 > 0
    OBVIOUS
  <2> QED
    BY <2>1, <2>2
<1>2. FirstOn(data, rest, TRUE, FALSE)
  BY FirstStands
<1> QED
  BY <1>1, <1>2 DEF FirstOn

(* ... and with something behind it it is not accepted.                    *)
THEOREM VerifiedAlone ==
    ASSUME Header!HeaderSizes, IntsFit, LargestInt \in Nat, maxDepth \in Nat,
           NEW data \in Seq(HeaderByte), NEW rest \in Seq(HeaderByte),
           Header!Verify(data), Header!Verify(data \o rest)
    PROVE  rest = <<>>
<1>1. /\ Header!walk(data, 1, maxDepth, TRUE) = Len(data) + 1 /\ Len(data) + 1 > 0
      /\ Header!walk(data \o rest, 1, maxDepth, TRUE) = Len(data \o rest) + 1
  <2>1. Header!walk(data, 1, maxDepth, TRUE) = Len(data) + 1
    BY Zenon DEF Header!Verify
  <2>2. Header!walk(data \o rest, 1, maxDepth, TRUE) = Len(data \o rest) + 1
    BY Zenon DEF Header!Verify
  <2>3. Len(data) + 1 > 0
    OBVIOUS
  <2> QED
    BY <2>1, <2>2, <2>3
<1>2. FirstOn(data, rest, TRUE, TRUE)
  BY FirstStands
<1>3. Len(data \o rest) + 1 = Len(data) + 1
  BY <1>1, <1>2 DEF FirstOn
<1>4. Len(data \o rest) = Len(data) + Len(rest) /\ Len(rest) \in Nat /\ Len(data) \in Nat
  OBVIOUS
<1>5. Len(rest) = 0
  BY <1>3, <1>4
<1> QED
  BY <1>5
-----------------------------------------------------------------------------
(* What documents are made of: blocks, and items whose body is a document  *)
(* again, each of some size.  Whatever blocks there are, one that is a     *)
(* byte is nothing else, and a point of the curve is 32 bytes.             *)
IsSized(bytes) == Len(bytes) \in Nat /\ \A i \in 1..Len(bytes) : bytes[i].size \in Nat

IsBlocks(blocks) ==
    \A b \in blocks : /\ "tag" \notin DOMAIN b
                      /\ b.kind = "byte"  => \E n \in Nat : b = Documents!Byte(n)
                      /\ b.kind = "point" => b.size = 32

PiecesOf(docs, blocks) ==
    blocks \cup UNION {{Documents!Item(tag, body) : body \in docs} : tag \in STRING}

AreDocuments(docs, blocks) ==
    /\ IsBlocks(blocks)
    /\ docs \subseteq {bytes \in Seq(PiecesOf(docs, blocks)) : IsSized(bytes)}

(* Size adds up.                                                           *)
LEMMA SizeAdds ==
    ASSUME NEW bytes, IsSized(bytes)
    PROVE  /\ Documents!Size(bytes) \in Nat
           /\ Len(bytes) = 0 => Documents!Size(bytes) = 0
           /\ Len(bytes) = 1 => Documents!Size(bytes) = bytes[1].size
           /\ Len(bytes) = 2 => Documents!Size(bytes) = bytes[1].size + bytes[2].size
<1> DEFINE L    == Len(bytes)
           step == [k \in 1..L |-> [n \in Nat |-> n + bytes[k].size]]
           size == CHOOSE m : m = [k \in 0..L |-> IF k = 0 THEN 0 ELSE m[k - 1] + bytes[k].size]
<1>1. L \in Nat /\ \A k \in 1..L : bytes[k].size \in Nat
  BY DEF IsSized
<1>2. Documents!Size(bytes) = size[L]
  BY DEF Documents!Size
<1> HIDE DEF L
<1>3. step \in [1..L -> [Nat -> Nat]]
  BY <1>1
<1>4. PICK f \in [0..L -> Nat] : RecursTo(f, 0, step, L)
  <2> HIDE DEF step
  <2> QED
    BY <1>1, <1>3, RecursionTo
<1>5. ASSUME NEW k \in 1..L PROVE f[k] = f[k - 1] + bytes[k].size /\ f[k] \in Nat
  <2>1. k \in 0..L /\ k - 1 \in 0..L
    BY <1>1
  <2> QED
    BY <1>4, <2>1 DEF RecursTo
<1>6. f = [k \in 0..L |-> IF k = 0 THEN 0 ELSE f[k - 1] + bytes[k].size]
  <2>1. ASSUME NEW k \in 0..L PROVE f[k] = IF k = 0 THEN 0 ELSE f[k - 1] + bytes[k].size
    <3>1. CASE k = 0
      BY <1>4, <3>1 DEF RecursTo
    <3>2. CASE k # 0
      <4>1. k \in 1..L
        BY <1>1, <3>2
      <4> QED
        BY <1>5, <3>2, <4>1
    <3> QED
      BY <3>1, <3>2
  <2> QED
    BY <1>4, <2>1 DEF RecursTo
<1>7. size = [k \in 0..L |-> IF k = 0 THEN 0 ELSE size[k - 1] + bytes[k].size]
  BY <1>6
<1> HIDE DEF size
<1>8. size[0] = 0 /\ \A k \in 1..L : size[k] = size[k - 1] + bytes[k].size
  <2>1. 0 \in 0..L /\ \A k \in 1..L : k \in 0..L /\ k # 0
    BY <1>1
  <2> QED
    BY <1>7, <2>1
<1> DEFINE S == {k \in Nat : k \in 0..L => size[k] \in Nat}
<1>9. \A k \in Nat : k \in S
  <2>1. 0 \in S
    BY <1>8
  <2>2. ASSUME NEW k \in Nat, k \in S PROVE k + 1 \in S
    <3> SUFFICES ASSUME k + 1 \in 0..L PROVE size[k + 1] \in Nat
      BY <2>2
    <3>1. k + 1 \in 1..L /\ (k + 1) - 1 = k /\ k \in 0..L
      BY <1>1
    <3>2. size[k + 1] = size[(k + 1) - 1] + bytes[k + 1].size /\ bytes[k + 1].size \in Nat
      BY <1>1, <1>8, <3>1
    <3> QED
      BY <2>2, <3>1, <3>2
  <2> HIDE DEF S
  <2> QED
    BY <2>1, <2>2, Induction
<1>10. size[L] \in Nat /\ L = Len(bytes)
  BY <1>1, <1>9 DEF L
<1>11. L = 1 => size[1] = bytes[1].size
  <2> SUFFICES ASSUME L = 1 PROVE size[1] = bytes[1].size
    OBVIOUS
  <2>1. 1 \in 1..L /\ 1 - 1 = 0
    OBVIOUS
  <2>2. size[1] = size[0] + bytes[1].size
    BY <1>8, <2>1
  <2> QED
    BY <1>1, <1>8, <2>1, <2>2
<1>12. L = 2 => size[2] = bytes[1].size + bytes[2].size
  <2> SUFFICES ASSUME L = 2 PROVE size[2] = bytes[1].size + bytes[2].size
    OBVIOUS
  <2>1. 1 \in 1..L /\ 1 - 1 = 0 /\ 2 \in 1..L /\ 2 - 1 = 1
    OBVIOUS
  <2>2. size[1] = size[0] + bytes[1].size /\ size[2] = size[1] + bytes[2].size
    BY <1>8, <2>1
  <2> QED
    BY <1>1, <1>8, <2>1, <2>2
<1> QED
  BY <1>2, <1>8, <1>10, <1>11, <1>12

(* An item is what it was made of, and what reads as an item is one.       *)
LEMMA ItemFacts ==
    ASSUME NEW tag, NEW body
    PROVE  /\ Documents!Item(tag, body).tag = tag
           /\ Documents!Item(tag, body).body = body
           /\ DOMAIN Documents!Item(tag, body) = {"tag", "body", "size"}
BY DEF Documents!Item

LEMMA InDocuments ==
    ASSUME NEW docs, NEW blocks, AreDocuments(docs, blocks), NEW bytes \in docs
    PROVE  bytes \in Seq(PiecesOf(docs, blocks)) /\ IsSized(bytes)
BY DEF AreDocuments

LEMMA ReadsItem ==
    ASSUME NEW docs, NEW blocks, AreDocuments(docs, blocks),
           NEW bytes \in Seq(PiecesOf(docs, blocks)), NEW tag, Documents!Reads(bytes, tag)
    PROVE  /\ Documents!Inner(bytes) \in docs
           /\ bytes[1] = Documents!Item(tag, Documents!Inner(bytes))
           /\ Tail(bytes) \in Seq(PiecesOf(docs, blocks))
           /\ bytes = <<bytes[1]>> \o Tail(bytes)
           /\ Documents!ReadsOnly(bytes, tag) =>
                 bytes = <<Documents!Item(tag, Documents!Inner(bytes))>>
<1>1. bytes # <<>>
  BY DEF Documents!Reads
<1>2. Len(bytes) \in Nat /\ Len(bytes) >= 1 /\ bytes[1] \in PiecesOf(docs, blocks)
  BY <1>1
<1>3. bytes[1] \notin blocks
  BY DEF Documents!Reads, AreDocuments, IsBlocks
<1>4. PICK t \in STRING, body \in docs : bytes[1] = Documents!Item(t, body)
  BY <1>2, <1>3 DEF PiecesOf
<1>5. t = tag /\ Documents!Inner(bytes) = body
  BY <1>4, ItemFacts DEF Documents!Reads, Documents!Inner
<1>6. ASSUME Documents!ReadsOnly(bytes, tag) PROVE bytes = <<bytes[1]>>
  <2>1. Len(bytes) = 1
    BY <1>6 DEF Documents!ReadsOnly
  <2> QED
    BY <1>2, <2>1
<1>7. bytes = <<bytes[1]>> \o Tail(bytes) /\ Tail(bytes) \in Seq(PiecesOf(docs, blocks))
  BY <1>1, HeadTailProperties
<1> QED
  BY <1>4, <1>5, <1>6, <1>7

(* A document that ParsePKCS8 accepts ...                                  *)
LEMMA SecretShape ==
    ASSUME NEW docs, NEW blocks, AreDocuments(docs, blocks), NEW der \in docs, NEW alg,
           Documents!ParsePKCS8(der, alg).ok
    PROVE  LET privateKey == Documents!ParsePKCS8(der, alg).privateKey
           IN  /\ privateKey \in docs
               /\ Documents!WithoutParameters(der, 2) = Documents!PKCS8(alg, privateKey)
<1> DEFINE P     == PiecesOf(docs, blocks)
           inner == Documents!Inner(der)
           rest  == Tail(inner)
           last  == Tail(rest)
           key   == Documents!Inner(last)
<1>1. /\ Documents!ReadsOnly(der, "SEQUENCE")
      /\ Documents!Reads(inner, "INTEGER") /\ Documents!Inner(inner) = <<Documents!Byte(0)>>
      /\ Documents!ReadsOID(rest, alg)
      /\ Documents!ReadsOnly(last, "OCTETS")
      /\ Documents!ParsePKCS8(der, alg).privateKey = inner[3].body
  BY DEF Documents!ParsePKCS8, Documents!Refused
<1>2. der \in Seq(P) /\ inner \in docs /\ der = <<Documents!Item("SEQUENCE", inner)>>
  <2>1. Documents!Reads(der, "SEQUENCE")
    BY <1>1 DEF Documents!ReadsOnly
  <2>2. der \in Seq(P)
    BY InDocuments
  <2> QED
    BY <1>1, <2>1, <2>2, ReadsItem
<1>3. inner \in Seq(P)
  BY <1>2, InDocuments
<1>4. /\ inner = <<inner[1]>> \o rest /\ rest \in Seq(P)
      /\ inner[1] = Documents!Item("INTEGER", <<Documents!Byte(0)>>)
  BY <1>1, <1>3, ReadsItem
<1>5. /\ rest = <<rest[1]>> \o last /\ last \in Seq(P)
      /\ rest[1] = Documents!Item("SEQUENCE", Documents!Inner(rest))
      /\ Documents!Inner(rest)[1] = Documents!OID(alg)
  <2>1. Documents!Reads(rest, "SEQUENCE")
    BY <1>1 DEF Documents!ReadsOID
  <2>2. Documents!Inner(rest)[1] = Documents!OID(alg)
    BY <1>1 DEF Documents!ReadsOID
  <2> HIDE DEF inner
  <2> QED
    BY <1>4, <2>1, <2>2, ReadsItem
<1>6. last = <<Documents!Item("OCTETS", key)>> /\ key \in docs
  <2>1. Documents!Reads(last, "OCTETS")
    BY <1>1 DEF Documents!ReadsOnly
  <2> QED
    BY <1>1, <1>5, <2>1, ReadsItem
<1>7. inner = <<inner[1], rest[1], Documents!Item("OCTETS", key)>>
  <2> HIDE DEF inner, rest, last, key
  <2>1. inner = <<inner[1]>> \o (<<rest[1]>> \o <<Documents!Item("OCTETS", key)>>)
    BY <1>4, <1>5, <1>6
  <2> QED
    BY <2>1
<1>8. inner[3].body = key
  <2> HIDE DEF inner, rest, last, key
  <2> QED
    BY <1>7, ItemFacts
<1>9. Documents!WithoutParameters(der, 2) =
          <<Documents!Item("SEQUENCE", <<inner[1], Documents!Item("SEQUENCE", <<Documents!OID(alg)>>),
                                         Documents!Item("OCTETS", key)>>)>>
  <2>1. der[1].tag = "SEQUENCE" /\ Documents!Inner(der) = inner
    BY <1>2, ItemFacts
  <2>2. inner[2] = Documents!Item("SEQUENCE", Documents!Inner(rest))
    <3> HIDE DEF inner, rest, last, key
    <3> QED
      BY <1>5, <1>7
  <2>3. Documents!Item(inner[2].tag, <<inner[2].body[1]>>) =
            Documents!Item("SEQUENCE", <<Documents!OID(alg)>>)
    BY <2>2, <1>5, ItemFacts
  <2>4. [inner EXCEPT ![2] = Documents!Item(@.tag, <<@.body[1]>>)] =
            <<inner[1], Documents!Item(inner[2].tag, <<inner[2].body[1]>>), Documents!Item("OCTETS", key)>>
    <3> HIDE DEF inner, rest, last, key
    <3> QED
      BY <1>7
  <2> QED
    BY <2>1, <2>3, <2>4 DEF Documents!WithoutParameters
<1> QED
  BY <1>1, <1>4, <1>6, <1>8, <1>9 DEF Documents!PKCS8

(* 64 bytes that could be a seed of xdsa come in the blocks that Split     *)
(* takes it apart into.                                                    *)
SeedsSplit(docs) == \A bytes \in docs : Documents!Size(bytes) = 64 => Len(bytes) = 2

(* Every document that ParseSecretKeyDER of a package accepts is, but for  *)
(* the parameters of its algorithm, the one that MarshalDER writes of the  *)
(* key it returns, whatever documents there are.                           *)
THEOREM SecretDocuments ==
    ASSUME NEW docs, NEW blocks, AreDocuments(docs, blocks), SeedsSplit(docs),
           NEW alg \in Documents!Schemes, NEW der \in docs
    PROVE  Documents!SecretHasOneDocument(alg, der)
<1> DEFINE secret == Documents!ParseSecretDER(alg, der)
           info   == Documents!ParsePKCS8(der, alg)
           priv   == info.privateKey
<1> SUFFICES ASSUME secret.ok
             PROVE  Documents!WithoutParameters(der, 2) = Documents!MarshalSecretDER(secret.key)
  BY DEF Documents!SecretHasOneDocument
<1>1. ASSUME info.ok
      PROVE  priv \in docs /\ Documents!WithoutParameters(der, 2) = Documents!PKCS8(alg, priv)
  BY <1>1, SecretShape
<1>2. ASSUME NEW a, NEW bytes, NEW n, Documents!Seed(a, bytes, n).ok
      PROVE  /\ Documents!Seed(a, bytes, n).key = Documents!SecretKey(a, bytes)
             /\ Documents!Size(bytes) = n
  BY <1>2 DEF Documents!Seed, Documents!Refused
<1>3. \A a, bytes : /\ Documents!SecretKey(a, bytes).alg = a
                    /\ Documents!SecretKey(a, bytes).seed = bytes
  BY DEF Documents!SecretKey
<1>4. CASE alg = "mldsa"
  <2> DEFINE inner == Documents!Inner(priv)
             seed  == Documents!Inner(inner)
             rest  == Tail(inner)
  <2>1. secret = Documents!mldsaParseSecretKeyDER(der)
    BY <1>4 DEF Documents!ParseSecretDER
  <2>2. info.ok /\ secret = Documents!mldsaSeed(priv)
    BY <1>4, <2>1 DEF Documents!mldsaParseSecretKeyDER, Documents!Refused
  <2>3. /\ Documents!ReadsOnly(priv, "SEQUENCE") /\ Documents!Reads(inner, "OCTETS")
        /\ Documents!ReadsOnly(rest, "OCTETS")
        /\ Documents!Inner(rest) = Documents!Expanded(seed)
        /\ secret = Documents!Seed("mldsa", seed, 32)
    BY <2>2 DEF Documents!mldsaSeed, Documents!Refused
  <2>4. secret.key = Documents!SecretKey("mldsa", seed)
    BY <1>2, <2>3
  <2>5. priv = <<Documents!Item("SEQUENCE", inner)>> /\ inner \in docs
    <3> HIDE DEF info
    <3>1. Documents!Reads(priv, "SEQUENCE")
      BY <2>3 DEF Documents!ReadsOnly
    <3>2. priv \in docs /\ priv \in Seq(PiecesOf(docs, blocks))
      BY <1>1, <2>2, InDocuments
    <3> QED
      BY <2>3, <3>1, <3>2, ReadsItem, ZenonT(30)
  <2> HIDE DEF secret, info
  <2>6. /\ inner = <<inner[1]>> \o rest /\ inner[1] = Documents!Item("OCTETS", seed)
        /\ rest \in Seq(PiecesOf(docs, blocks))
    <3>1. inner \in Seq(PiecesOf(docs, blocks))
      BY <2>5, InDocuments
    <3> QED
      BY <2>3, <3>1, ReadsItem
  <2>7. rest = <<Documents!Item("OCTETS", Documents!Expanded(seed))>>
    <3>1. Documents!Reads(rest, "OCTETS")
      BY <2>3 DEF Documents!ReadsOnly
    <3> HIDE DEF rest
    <3>2. rest = <<Documents!Item("OCTETS", Documents!Inner(rest))>>
      BY <2>3, <2>6, <3>1, ReadsItem
    <3> QED
      BY <2>3, <3>2
  <2>8. inner = <<Documents!Item("OCTETS", seed), Documents!Item("OCTETS", Documents!Expanded(seed))>>
    <3> HIDE DEF rest, seed, inner
    <3> QED
      BY <2>6, <2>7
  <2>9. Documents!MarshalSecretDER(secret.key) = Documents!mldsaMarshalDER(secret.key)
    BY <1>3, <2>4 DEF Documents!MarshalSecretDER
  <2> HIDE DEF inner, seed, rest
  <2> QED
    BY <1>1, <1>3, <1>4, <2>2, <2>4, <2>5, <2>8, <2>9 DEF Documents!mldsaMarshalDER
<1>5. CASE alg = "eddsa"
  <2> DEFINE seed == Documents!Inner(priv)
  <2>1. secret = Documents!eddsaParseSecretKeyDER(der)
    BY <1>5 DEF Documents!ParseSecretDER
  <2>2. info.ok /\ Documents!ReadsOnly(priv, "OCTETS") /\ secret = Documents!Seed("eddsa", seed, 32)
    BY <1>5, <2>1 DEF Documents!eddsaParseSecretKeyDER, Documents!Refused
  <2> HIDE DEF secret, info
  <2>3. secret.key = Documents!SecretKey("eddsa", seed)
    BY <1>2, <2>2
  <2>4. priv = <<Documents!Item("OCTETS", seed)>>
    <3>1. Documents!Reads(priv, "OCTETS")
      BY <2>2 DEF Documents!ReadsOnly
    <3>2. priv \in Seq(PiecesOf(docs, blocks))
      BY <1>1, <2>2, InDocuments
    <3> QED
      BY <2>2, <3>1, <3>2, ReadsItem
  <2>5. Documents!MarshalSecretDER(secret.key) = Documents!eddsaMarshalDER(secret.key)
    BY <1>3, <2>3 DEF Documents!MarshalSecretDER
  <2> HIDE DEF seed
  <2> QED
    BY <1>1, <1>3, <1>5, <2>2, <2>3, <2>4, <2>5 DEF Documents!eddsaMarshalDER
<1>6. CASE alg = "xdsa"
  <2>1. secret = Documents!xdsaParseSecretKeyDER(der)
    BY <1>6 DEF Documents!ParseSecretDER
  <2>2. info.ok /\ secret = Documents!Seed("xdsa", priv, 64)
    BY <1>6, <2>1 DEF Documents!xdsaParseSecretKeyDER, Documents!Refused
  <2> HIDE DEF secret, info
  <2>3. secret.key = Documents!SecretKey("xdsa", priv) /\ Len(priv) = 2
    <3>1. secret.key = Documents!SecretKey("xdsa", priv) /\ Documents!Size(priv) = 64
      BY <1>2, <2>2
    <3> QED
      BY <1>1, <2>2, <3>1 DEF SeedsSplit
  <2>4. priv = <<priv[1]>> \o <<priv[2]>>
    <3>1. priv \in Seq(PiecesOf(docs, blocks))
      BY <1>1, <2>2, InDocuments
    <3> QED
      BY <2>3, <3>1
  <2>5. /\ Documents!Split(secret.key).ml.seed = <<priv[1]>>
        /\ Documents!Split(secret.key).ed.seed = <<priv[2]>>
    BY <1>3, <2>3 DEF Documents!Split
  <2>6. Documents!MarshalSecretDER(secret.key) = Documents!xdsaMarshalDER(secret.key)
    BY <1>3, <2>3 DEF Documents!MarshalSecretDER
  <2> QED
    BY <1>1, <1>6, <2>2, <2>4, <2>5, <2>6 DEF Documents!xdsaMarshalDER
<1>7. CASE alg = "xhpke"
  <2>1. secret = Documents!xhpkeParseSecretKeyDER(der)
    BY <1>7 DEF Documents!ParseSecretDER
  <2>2. info.ok /\ secret = Documents!Seed("xhpke", priv, 32)
    BY <1>7, <2>1 DEF Documents!xhpkeParseSecretKeyDER, Documents!Refused
  <2> HIDE DEF secret, info
  <2>3. secret.key = Documents!SecretKey("xhpke", priv)
    BY <1>2, <2>2
  <2>4. Documents!MarshalSecretDER(secret.key) = Documents!xhpkeMarshalDER(secret.key)
    BY <1>3, <2>3 DEF Documents!MarshalSecretDER
  <2> QED
    BY <1>1, <1>3, <1>7, <2>2, <2>3, <2>4 DEF Documents!xhpkeMarshalDER
<1> QED
  BY <1>4, <1>5, <1>6, <1>7 DEF Documents!Schemes

(* ... and one that ParseSPKI accepts, which says how many bits are unused. *)
LEMMA PublicShape ==
    ASSUME NEW docs, NEW blocks, AreDocuments(docs, blocks), NEW der \in docs, NEW alg,
           Documents!ParseSPKI(der, alg).ok
    PROVE  LET info == Documents!ParseSPKI(der, alg)
           IN  /\ info.bytes \in Seq(PiecesOf(docs, blocks)) /\ IsSized(info.bytes)
               /\ \E n \in Nat :
                     /\ info.bitLength = 8 * Documents!Size(info.bytes) - n
                     /\ n = 0 => Documents!WithoutParameters(der, 1) = Documents!SPKI(alg, info.bytes)
<1> DEFINE P     == PiecesOf(docs, blocks)
           inner == Documents!Inner(der)
           rest  == Tail(inner)
           bits  == Documents!Inner(rest)
           key   == Tail(bits)
<1>1. /\ Documents!ReadsOnly(der, "SEQUENCE")
      /\ Documents!ReadsOID(inner, alg)
      /\ Documents!ReadsOnly(rest, "BITS")
  BY DEF Documents!ParseSPKI, Documents!Refused
<1>2. inner \in docs /\ der = <<Documents!Item("SEQUENCE", inner)>>
  <2>1. Documents!Reads(der, "SEQUENCE")
    BY <1>1 DEF Documents!ReadsOnly
  <2>2. der \in Seq(P)
    BY InDocuments
  <2> QED
    BY <1>1, <2>1, <2>2, ReadsItem
<1>3. inner \in Seq(P)
  BY <1>2, InDocuments
<1>4. /\ inner = <<inner[1]>> \o rest /\ rest \in Seq(P)
      /\ inner[1] = Documents!Item("SEQUENCE", Documents!Inner(inner))
      /\ Documents!Inner(inner)[1] = Documents!OID(alg)
  <2>1. Documents!Reads(inner, "SEQUENCE")
    BY <1>1 DEF Documents!ReadsOID
  <2>2. Documents!Inner(inner)[1] = Documents!OID(alg)
    BY <1>1 DEF Documents!ReadsOID
  <2> HIDE DEF inner
  <2> QED
    BY <1>3, <2>1, <2>2, ReadsItem
<1>5. rest = <<Documents!Item("BITS", bits)>> /\ bits \in docs
  <2>1. Documents!Reads(rest, "BITS")
    BY <1>1 DEF Documents!ReadsOnly
  <2> HIDE DEF rest
  <2> QED
    BY <1>1, <1>4, <2>1, ReadsItem
<1>6. inner = <<inner[1], Documents!Item("BITS", bits)>> /\ inner[2].body = bits
  <2> HIDE DEF inner, rest, bits
  <2>1. inner = <<inner[1]>> \o <<Documents!Item("BITS", bits)>>
    BY <1>4, <1>5
  <2>2. inner = <<inner[1], Documents!Item("BITS", bits)>>
    BY <2>1
  <2> QED
    BY <2>2, ItemFacts
<1>7. /\ bits # <<>> /\ "tag" \notin DOMAIN bits[1] /\ bits[1].kind = "byte"
      /\ Documents!ParseSPKI(der, alg).bytes = key
      /\ Documents!ParseSPKI(der, alg).bitLength = 8 * Documents!Size(key) - bits[1].n
  <2>1. inner[2].body = bits
    BY <1>6
  <2> HIDE DEF bits
  <2> QED
    BY <2>1 DEF Documents!ParseSPKI, Documents!Refused
<1>8. bits \in Seq(P) /\ IsSized(bits)
  BY <1>5, InDocuments
<1>9. bits = <<bits[1]>> \o key /\ key \in Seq(P) /\ Len(bits) = Len(key) + 1
      /\ Len(key) \in Nat /\ \A i \in 1..Len(key) : key[i] = bits[i + 1]
  <2> HIDE DEF bits
  <2> QED
    BY <1>7, <1>8, HeadTailProperties
<1>10. IsSized(key)
  <2>1. ASSUME NEW i \in 1..Len(key) PROVE key[i].size \in Nat
    <3>1. i + 1 \in 1..Len(bits)
      BY <1>9
    <3> QED
      BY <1>8, <1>9, <3>1 DEF IsSized
  <2> QED
    BY <1>9, <2>1 DEF IsSized
<1>11. PICK n \in Nat : bits[1] = Documents!Byte(n)
  <2> HIDE DEF bits, key, P
  <2>1. 1 \in 1..Len(bits) /\ bits[1] \in P
    BY <1>7, <1>8
  <2>2. bits[1] \in blocks
    <3>1. SUFFICES ASSUME bits[1] \notin blocks PROVE FALSE
      OBVIOUS
    <3>2. PICK t \in STRING, body \in docs : bits[1] = Documents!Item(t, body)
      BY <2>1, <3>1 DEF P, PiecesOf
    <3> QED
      BY <1>7, <3>2, ItemFacts
  <2> QED
    BY <1>7, <2>2 DEF AreDocuments, IsBlocks
<1>12. bits[1].n = n
  BY <1>11 DEF Documents!Byte, Documents!Block
<1>13. ASSUME n = 0
       PROVE  Documents!WithoutParameters(der, 1) = Documents!SPKI(alg, key)
  <2>1. der[1].tag = "SEQUENCE"
    BY <1>2, ItemFacts
  <2>2. inner[1].tag = "SEQUENCE" /\ inner[1].body[1] = Documents!OID(alg)
    <3> HIDE DEF inner
    <3> QED
      BY <1>4, ItemFacts
  <2>3. [inner EXCEPT ![1] = Documents!Item(@.tag, <<@.body[1]>>)] =
            <<Documents!Item(inner[1].tag, <<inner[1].body[1]>>), Documents!Item("BITS", bits)>>
    <3> HIDE DEF inner, bits
    <3> QED
      BY <1>6
  <2>4. bits = <<Documents!Byte(0)>> \o key
    <3> HIDE DEF bits, key
    <3> QED
      BY <1>9, <1>11, <1>13
  <2> HIDE DEF bits, key
  <2> QED
    BY <2>1, <2>2, <2>3, <2>4 DEF Documents!WithoutParameters, Documents!SPKI, Documents!SPKIUnused
<1>14. Documents!ParseSPKI(der, alg).bitLength = 8 * Documents!Size(key) - n
  BY <1>7, <1>12
<1> HIDE DEF key, P
<1> QED
  BY <1>7, <1>9, <1>10, <1>13, <1>14 DEF P

(* So is every one that ParsePublicKeyDER accepts, where an unused bit in  *)
(* the bit string would make another document of the same key.             *)
THEOREM PublicDocuments ==
    ASSUME NEW docs, NEW blocks, AreDocuments(docs, blocks),
           NEW alg \in Documents!Schemes, NEW der \in docs
    PROVE  Documents!PublicHasOneDocument(alg, der)
<1> DEFINE info   == Documents!ParseSPKI(der, alg)
           public == Documents!ParsePublicDER(alg, der)
           key    == info.bytes
<1> SUFFICES ASSUME public.ok
             PROVE  Documents!WithoutParameters(der, 1) = Documents!MarshalPublicDER(alg, public.key)
  BY DEF Documents!PublicHasOneDocument
<1>1. /\ info.ok /\ public.key = key
      /\ alg = "mldsa" => Documents!mldsaParsePublicKeyDER(info)
      /\ alg = "eddsa" => Documents!eddsaParsePublicKeyDER(info)
      /\ alg = "xdsa"  => Documents!xdsaParsePublicKeyDER(info)
      /\ alg = "xhpke" => Documents!xhpkeParsePublicKeyDER(info)
  BY DEF Documents!ParsePublicDER, Documents!Refused
<1> HIDE DEF public, info
<1>2. /\ key \in Seq(PiecesOf(docs, blocks)) /\ IsSized(key)
      /\ \E n \in Nat :
            /\ info.bitLength = 8 * Documents!Size(key) - n
            /\ n = 0 => Documents!WithoutParameters(der, 1) = Documents!SPKI(alg, key)
  BY <1>1, PublicShape DEF info
<1>3. PICK n \in Nat :
            /\ info.bitLength = 8 * Documents!Size(key) - n
            /\ n = 0 => Documents!WithoutParameters(der, 1) = Documents!SPKI(alg, key)
  BY <1>2
<1>4. Documents!Size(key) \in Nat /\ (Len(key) = 1 => Documents!Size(key) = key[1].size)
  BY <1>2, SizeAdds
<1>5. n = 0
  <2>1. CASE alg = "mldsa"
    BY <1>1, <1>3, <1>4, <2>1 DEF Documents!mldsaParsePublicKeyDER
  <2>2. CASE alg = "eddsa"
    <3>1. info.bitLength = 256 /\ Len(key) = 1 /\ "kind" \in DOMAIN key[1] /\ key[1].kind = "point"
      BY <1>1, <2>2 DEF Documents!eddsaParsePublicKeyDER, Documents!eddsaParsePublicKey, Documents!IsBlock
    <3>2. key[1] \in PiecesOf(docs, blocks)
      <4> DEFINE P == PiecesOf(docs, blocks)
      <4> HIDE DEF key, P
      <4>1. key \in Seq(P) /\ Len(key) = 1
        BY <1>2, <3>1 DEF P
      <4>2. key[1] \in P
        BY <4>1
      <4> QED
        BY <4>2 DEF P
    <3>3. key[1] \in blocks
      <4> HIDE DEF key
      <4> SUFFICES ASSUME key[1] \notin blocks PROVE FALSE
        OBVIOUS
      <4>1. PICK t \in STRING, body \in docs : key[1] = Documents!Item(t, body)
        BY <3>2 DEF PiecesOf
      <4> QED
        BY <3>1, <4>1, ItemFacts
    <3>4. key[1].size = 32
      BY <3>1, <3>3 DEF AreDocuments, IsBlocks
    <3> HIDE DEF key
    <3> QED
      BY <1>3, <1>4, <3>1, <3>4
  <2>3. CASE alg = "xdsa"
    BY <1>1, <1>3, <1>4, <2>3 DEF Documents!xdsaParsePublicKeyDER
  <2>4. CASE alg = "xhpke"
    BY <1>1, <1>3, <1>4, <2>4 DEF Documents!xhpkeParsePublicKeyDER
  <2> QED
    BY <2>1, <2>2, <2>3, <2>4 DEF Documents!Schemes
<1> QED
  BY <1>1, <1>3, <1>5 DEF Documents!MarshalPublicDER

(* A document with a public key is read as the bytes that went into it,    *)
(* less the bits it calls unused.                                          *)
LEMMA UnusedReads ==
    ASSUME NEW S, NEW bytes \in Seq(S), IsSized(bytes), NEW alg, NEW unused \in Nat
    PROVE  LET info == Documents!ParseSPKI(Documents!SPKIUnused(alg, bytes, unused), alg)
           IN  /\ info.ok /\ info.bytes = bytes
               /\ info.bitLength = 8 * Documents!Size(bytes) - unused
<1> DEFINE bits  == <<Documents!Byte(unused)>> \o bytes
           first == Documents!Item("SEQUENCE", <<Documents!OID(alg)>>)
           inner == <<first, Documents!Item("BITS", bits)>>
           der   == <<Documents!Item("SEQUENCE", inner)>>
<1>1. Documents!SPKIUnused(alg, bytes, unused) = der
  BY DEF Documents!SPKIUnused
<1>2. bits # <<>> /\ bits[1] = Documents!Byte(unused) /\ Tail(bits) = bytes
  <2>1. \A b : <<b>> \o bytes # <<>> /\ (<<b>> \o bytes)[1] = b /\ Tail(<<b>> \o bytes) = bytes
    <3> TAKE b
    <3>1. <<b>> \in Seq(S \cup {b}) /\ bytes \in Seq(S \cup {b}) /\ Len(bytes) \in Nat
      OBVIOUS
    <3>2. <<b>> \o bytes \in Seq(S \cup {b}) /\ Len(<<b>> \o bytes) = Len(bytes) + 1
      BY <3>1
    <3> QED
      BY <3>1, <3>2
  <2> QED
    BY <2>1
<1>3. "tag" \notin DOMAIN bits[1] /\ bits[1].kind = "byte" /\ bits[1].n = unused
  <2> HIDE DEF bits
  <2> QED
    BY <1>2 DEF Documents!Byte, Documents!Block
<1> HIDE DEF bits
<1>4. Documents!Inner(der) = inner /\ Documents!ReadsOnly(der, "SEQUENCE")
  <2>1. \A tag, body : Documents!ReadsOnly(<<Documents!Item(tag, body)>>, tag)
                       /\ Documents!Inner(<<Documents!Item(tag, body)>>) = body
    BY ItemFacts DEF Documents!ReadsOnly, Documents!Reads, Documents!Inner
  <2> QED
    BY <2>1
<1>5. Documents!ReadsOID(inner, alg)
  <2> HIDE DEF first
  <2>1. Documents!Reads(inner, "SEQUENCE") /\ Documents!Inner(inner) = <<Documents!OID(alg)>>
    BY ItemFacts DEF first, Documents!Reads, Documents!Inner
  <2>2. Documents!Reads(<<Documents!OID(alg)>>, "OID")
    BY ItemFacts DEF Documents!Reads, Documents!OID
  <2> HIDE DEF inner
  <2> QED
    BY <2>1, <2>2 DEF Documents!ReadsOID
<1>6. Documents!ReadsOnly(Tail(inner), "BITS") /\ inner[2].body = bits
  <2>1. Tail(inner) = <<Documents!Item("BITS", bits)>> /\ inner[2] = Documents!Item("BITS", bits)
    <3> HIDE DEF first
    <3> QED
      OBVIOUS
  <2>2. \A tag, body : Documents!ReadsOnly(<<Documents!Item(tag, body)>>, tag)
    BY ItemFacts DEF Documents!ReadsOnly, Documents!Reads
  <2>3. Documents!Item("BITS", bits).body = bits
    BY ItemFacts
  <2> HIDE DEF inner
  <2>4. Documents!ReadsOnly(Tail(inner), "BITS")
    BY <2>1, <2>2
  <2> QED
    BY <2>1, <2>3, <2>4
<1> HIDE DEF inner, der
<1>8. Documents!ParseSPKI(der, alg) =
          [ok |-> TRUE, bytes |-> Tail(bits), bitLength |-> 8 * Documents!Size(Tail(bits)) - bits[1].n]
  BY <1>2, <1>3, <1>4, <1>5, <1>6 DEF Documents!ParseSPKI
<1>9. 8 * Documents!Size(Tail(bits)) - bits[1].n = 8 * Documents!Size(bytes) - unused
  BY <1>2, <1>3
<1> QED
  BY <1>1, <1>2, <1>8, <1>9

LEMMA SPKIReads ==
    ASSUME NEW S, NEW bytes \in Seq(S), IsSized(bytes), NEW alg
    PROVE  LET info == Documents!ParseSPKI(Documents!SPKI(alg, bytes), alg)
           IN  /\ info.ok /\ info.bytes = bytes
               /\ info.bitLength = 8 * Documents!Size(bytes)
<1> DEFINE info == Documents!ParseSPKI(Documents!SPKI(alg, bytes), alg)
<1>1. /\ info.ok /\ info.bytes = bytes
      /\ info.bitLength = 8 * Documents!Size(bytes) - 0
  BY UnusedReads DEF Documents!SPKI
<1>2. Documents!Size(bytes) \in Nat
  BY SizeAdds
<1> HIDE DEF info
<1>3. info.bitLength = 8 * Documents!Size(bytes)
  BY <1>1, <1>2
<1> QED
  BY <1>1, <1>3 DEF info

(* Whether bytes are a public key does not depend on the form that they    *)
(* come in: text and CBOR take them for a key if and only if DER does,     *)
(* where no more bytes are a key for some bits of them being unused.  For  *)
(* eddsa, which asks for a number of bits, that is as a point has 32.      *)
THEOREM FormsAgree ==
    ASSUME NEW S, NEW bytes \in Seq(S), IsSized(bytes), NEW alg \in Documents!Schemes,
           Documents!IsBlock(bytes, "point") => bytes[1].size = 32
    PROVE  Documents!SameKey(alg, bytes)
<1> SUFFICES ASSUME NEW unused \in 0..255
             PROVE  Documents!ParsePublicDER(alg, Documents!SPKIUnused(alg, bytes, unused)).ok
                        <=> unused = 0 /\ Documents!UnmarshalPublicKey(alg, bytes)
  BY DEF Documents!SameKey
<1> DEFINE info == Documents!ParseSPKI(Documents!SPKIUnused(alg, bytes, unused), alg)
           size == Documents!Size(bytes)
<1>1. info.ok /\ info.bytes = bytes /\ info.bitLength = 8 * size - unused
  BY UnusedReads
<1>2. size \in Nat /\ (Documents!IsBlock(bytes, "point") => size = 32)
  BY SizeAdds DEF Documents!IsBlock
<1> HIDE DEF info
<1>3. Documents!ParsePublicDER(alg, Documents!SPKIUnused(alg, bytes, unused)).ok <=>
          CASE alg = "mldsa" -> Documents!mldsaParsePublicKeyDER(info)
            [] alg = "eddsa" -> Documents!eddsaParsePublicKeyDER(info)
            [] alg = "xdsa"  -> Documents!xdsaParsePublicKeyDER(info)
            [] alg = "xhpke" -> Documents!xhpkeParsePublicKeyDER(info)
  BY <1>1 DEF info, Documents!ParsePublicDER, Documents!Refused
<1>4. unused \in Nat /\ \A m \in Nat : 8 * size - unused = 8 * m /\ size = m <=> unused = 0 /\ size = m
  BY <1>2
<1>5. CASE alg = "mldsa"
  <2>1. Documents!ParsePublicDER(alg, Documents!SPKIUnused(alg, bytes, unused)).ok
            <=> Documents!mldsaParsePublicKeyDER(info)
    BY <1>3, <1>5
  <2>2. Documents!UnmarshalPublicKey(alg, bytes) <=> Documents!mldsaUnmarshal(bytes)
    BY <1>5 DEF Documents!UnmarshalPublicKey
  <2>3. Documents!mldsaParsePublicKeyDER(info) <=>
            size = 1952 /\ info.bitLength = 8 * 1952 /\ Documents!mldsaParsePublicKey(bytes)
    BY <1>1, <1>2 DEF Documents!mldsaParsePublicKeyDER
  <2>4. info.bitLength = 8 * 1952 /\ size = 1952 <=> unused = 0 /\ size = 1952
    BY <1>1, <1>4
  <2> QED
    BY <2>1, <2>2, <2>3, <2>4 DEF Documents!mldsaUnmarshal
<1>6. CASE alg = "eddsa"
  <2>1. Documents!ParsePublicDER(alg, Documents!SPKIUnused(alg, bytes, unused)).ok
            <=> Documents!eddsaParsePublicKeyDER(info)
    BY <1>3, <1>6
  <2>2. Documents!UnmarshalPublicKey(alg, bytes) <=> Documents!eddsaUnmarshal(bytes)
    BY <1>6 DEF Documents!UnmarshalPublicKey
  <2>3. Documents!eddsaParsePublicKeyDER(info) <=>
            size = 32 /\ info.bitLength = 8 * 32 /\ Documents!eddsaParsePublicKey(bytes)
    BY <1>1, <1>2 DEF Documents!eddsaParsePublicKeyDER, Documents!eddsaParsePublicKey
  <2>4. info.bitLength = 8 * 32 /\ size = 32 <=> unused = 0 /\ size = 32
    BY <1>1, <1>4
  <2> QED
    BY <2>1, <2>2, <2>3, <2>4 DEF Documents!eddsaUnmarshal
<1>7. CASE alg = "xdsa"
  <2>1. Documents!ParsePublicDER(alg, Documents!SPKIUnused(alg, bytes, unused)).ok
            <=> Documents!xdsaParsePublicKeyDER(info)
    BY <1>3, <1>7
  <2>2. Documents!UnmarshalPublicKey(alg, bytes) <=> Documents!xdsaUnmarshal(bytes)
    BY <1>7 DEF Documents!UnmarshalPublicKey
  <2>3. Documents!xdsaParsePublicKeyDER(info) <=>
            size = 1984 /\ info.bitLength = 8 * 1984 /\ Documents!xdsaParsePublicKey(bytes)
    BY <1>1, <1>2 DEF Documents!xdsaParsePublicKeyDER
  <2>4. info.bitLength = 8 * 1984 /\ size = 1984 <=> unused = 0 /\ size = 1984
    BY <1>1, <1>4
  <2> QED
    BY <2>1, <2>2, <2>3, <2>4 DEF Documents!xdsaUnmarshal
<1>8. CASE alg = "xhpke"
  <2>1. Documents!ParsePublicDER(alg, Documents!SPKIUnused(alg, bytes, unused)).ok
            <=> Documents!xhpkeParsePublicKeyDER(info)
    BY <1>3, <1>8
  <2>2. Documents!UnmarshalPublicKey(alg, bytes) <=> Documents!xhpkeUnmarshal(bytes)
    BY <1>8 DEF Documents!UnmarshalPublicKey
  <2>3. Documents!xhpkeParsePublicKeyDER(info) <=>
            size = 1216 /\ info.bitLength = 8 * 1216 /\ Documents!xhpkeParsePublicKey(bytes)
    BY <1>1, <1>2 DEF Documents!xhpkeParsePublicKeyDER
  <2>4. info.bitLength = 8 * 1216 /\ size = 1216 <=> unused = 0 /\ size = 1216
    BY <1>1, <1>4
  <2> QED
    BY <2>1, <2>2, <2>3, <2>4 DEF Documents!xhpkeUnmarshal
<1> QED
  BY <1>5, <1>6, <1>7, <1>8 DEF Documents!Schemes

LEMMA ReadsBare ==
    ASSUME NEW tag, NEW body
    PROVE  /\ Documents!ReadsOnly(<<Documents!Item(tag, body)>>, tag)
           /\ Documents!Inner(<<Documents!Item(tag, body)>>) = body
BY ItemFacts DEF Documents!ReadsOnly, Documents!Reads, Documents!Inner

(* That of a secret key, too.                                              *)
LEMMA PKCS8Reads ==
    ASSUME NEW alg, NEW priv
    PROVE  Documents!ParsePKCS8(Documents!PKCS8(alg, priv), alg) = [ok |-> TRUE, privateKey |-> priv]
<1> DEFINE zero  == Documents!Item("INTEGER", <<Documents!Byte(0)>>)
           oid   == Documents!Item("SEQUENCE", <<Documents!OID(alg)>>)
           octs  == Documents!Item("OCTETS", priv)
           inner == <<zero, oid, octs>>
           der   == <<Documents!Item("SEQUENCE", inner)>>
<1>1. Documents!PKCS8(alg, priv) = der
  BY DEF Documents!PKCS8
<1>2. Documents!ReadsOnly(der, "SEQUENCE") /\ Documents!Inner(der) = inner
  BY ReadsBare
<1>3. inner # <<>> /\ inner[1] = zero /\ inner[3] = octs /\ Tail(inner) = <<oid, octs>>
      /\ Tail(<<oid, octs>>) = <<octs>>
  <2> HIDE DEF zero, oid, octs
  <2> QED
    OBVIOUS
<1>4. Documents!Reads(inner, "INTEGER") /\ Documents!Inner(inner) = <<Documents!Byte(0)>>
  <2>1. zero.tag = "INTEGER" /\ zero.body = <<Documents!Byte(0)>> /\ "tag" \in DOMAIN zero
    BY ItemFacts
  <2> HIDE DEF inner, zero
  <2> QED
    BY <1>3, <2>1 DEF Documents!Reads, Documents!Inner
<1>5. Documents!ReadsOID(Tail(inner), alg)
  <2>1. oid.tag = "SEQUENCE" /\ oid.body = <<Documents!OID(alg)>> /\ "tag" \in DOMAIN oid
    BY ItemFacts
  <2>2. Documents!Reads(<<Documents!OID(alg)>>, "OID")
    BY ItemFacts DEF Documents!Reads, Documents!OID
  <2>3. <<Documents!OID(alg)>>[1] = Documents!OID(alg)
    OBVIOUS
  <2> HIDE DEF oid, octs, inner
  <2>4. Documents!Reads(<<oid, octs>>, "SEQUENCE") /\ Documents!Inner(<<oid, octs>>) = <<Documents!OID(alg)>>
    BY <2>1 DEF Documents!Reads, Documents!Inner
  <2> QED
    BY <1>3, <2>2, <2>3, <2>4 DEF Documents!ReadsOID
<1>6. Documents!ReadsOnly(Tail(Tail(inner)), "OCTETS") /\ inner[3].body = priv
  <2>1. Documents!ReadsOnly(<<octs>>, "OCTETS") /\ octs.body = priv
    BY ReadsBare, ItemFacts
  <2> HIDE DEF oid, octs, inner
  <2> QED
    BY <1>3, <2>1
<1> HIDE DEF inner, der
<1> QED
  BY <1>1, <1>2, <1>4, <1>5, <1>6 DEF Documents!ParsePKCS8

(* Seeds have the size that ParseSecretKey asks for.                       *)
IsSeed(alg, seed) ==
    /\ IsSized(seed) /\ Documents!Size(seed) = IF alg = "xdsa" THEN 64 ELSE 32
    /\ alg = "xdsa" => Len(seed) = 2

(* ParseSecretKeyDER reads every secret key back from what MarshalDER      *)
(* wrote, and Split and ComposeSecretKey are inverse for xdsa.             *)
THEOREM SecretKeysReadBack ==
    ASSUME NEW S, NEW seed \in Seq(S), NEW alg \in Documents!Schemes, IsSeed(alg, seed)
    PROVE  Documents!SecretReadsBack(Documents!SecretKey(alg, seed))
<1> DEFINE key  == Documents!SecretKey(alg, seed)
           read == [ok |-> TRUE, key |-> key]
<1>1. key.alg = alg /\ key.seed = seed
  BY DEF Documents!SecretKey
<1>2. alg = "xdsa" => /\ seed = <<seed[1]>> \o <<seed[2]>>
                      /\ Documents!Split(key).ml.seed = <<seed[1]>>
                      /\ Documents!Split(key).ed.seed = <<seed[2]>>
  <2> SUFFICES ASSUME alg = "xdsa"
               PROVE  /\ seed = <<seed[1]>> \o <<seed[2]>>
                      /\ Documents!Split(key).ml.seed = <<seed[1]>>
                      /\ Documents!Split(key).ed.seed = <<seed[2]>>
    OBVIOUS
  <2>1. seed = <<seed[1]>> \o <<seed[2]>>
    BY DEF IsSeed
  <2> HIDE DEF key
  <2>2. /\ Documents!Split(key).ml.seed = <<seed[1]>>
        /\ Documents!Split(key).ed.seed = <<seed[2]>>
    BY <1>1 DEF Documents!Split, Documents!SecretKey
  <2> QED
    BY <2>1, <2>2
<1>3. Documents!ParseSecretDER(key.alg, Documents!MarshalSecretDER(key)) = read
  <2>1. CASE alg = "mldsa"
    <3> DEFINE first  == Documents!Item("OCTETS", seed)
               second == Documents!Item("OCTETS", Documents!Expanded(seed))
               inner  == <<first, second>>
               priv   == <<Documents!Item("SEQUENCE", inner)>>
    <3>1. Documents!MarshalSecretDER(key) = Documents!PKCS8("mldsa", priv)
      BY <1>1, <2>1 DEF Documents!MarshalSecretDER, Documents!mldsaMarshalDER
    <3>2. Documents!ReadsOnly(priv, "SEQUENCE") /\ Documents!Inner(priv) = inner
      BY ReadsBare
    <3>3. Documents!Reads(inner, "OCTETS") /\ Documents!Inner(inner) = seed /\ Tail(inner) = <<second>>
      <4>1. first.tag = "OCTETS" /\ first.body = seed /\ "tag" \in DOMAIN first
        BY ItemFacts
      <4> HIDE DEF first, second
      <4> QED
        BY <4>1 DEF Documents!Reads, Documents!Inner
    <3>4. Documents!ReadsOnly(<<second>>, "OCTETS") /\ Documents!Inner(<<second>>) = Documents!Expanded(seed)
      BY ReadsBare
    <3>5. Documents!Size(Documents!Expanded(seed)) = 4032
      <4> DEFINE bytes == Documents!Expanded(seed)
      <4>1. Len(bytes) = 1 /\ bytes[1].size = 4032
        BY DEF Documents!Expanded, Documents!Derived
      <4> HIDE DEF bytes
      <4>2. IsSized(bytes)
        BY <4>1 DEF IsSized
      <4>3. Documents!Size(bytes) = 4032
        BY <4>1, <4>2, SizeAdds
      <4> QED
        BY <4>3 DEF bytes
    <3>6. Documents!Size(seed) = 32
      BY <2>1 DEF IsSeed
    <3>7. Documents!Seed("mldsa", seed, 32) = read
      BY <2>1, <3>6 DEF Documents!Seed
    <3> HIDE DEF inner, first, second, read
    <3>8. Documents!mldsaSeed(priv) = read
      <4> HIDE DEF priv
      <4>1. Documents!ReadsOnly(Tail(inner), "OCTETS") /\ Documents!Reads(inner, "OCTETS")
        BY <3>3, <3>4
      <4>2. Documents!Inner(inner) = seed
        BY <3>3
      <4>3. /\ Documents!Inner(Tail(inner)) = Documents!Expanded(Documents!Inner(inner))
            /\ Documents!Size(Documents!Inner(Tail(inner))) = 4032
        <5>1. Documents!Inner(Tail(inner)) = Documents!Expanded(seed)
          BY <3>3, <3>4
        <5>2. Documents!Expanded(Documents!Inner(inner)) = Documents!Expanded(seed)
          BY <4>2
        <5>3. Documents!Size(Documents!Inner(Tail(inner))) = 4032
          BY <3>5, <5>1
        <5> QED
          BY <5>1, <5>2, <5>3
      <4> QED
        BY <3>2, <4>1, <4>2, <4>3, <3>7 DEF Documents!mldsaSeed
    <3>9. Documents!mldsaParseSecretKeyDER(Documents!PKCS8("mldsa", priv)) = read
      <4> HIDE DEF priv, read
      <4> QED
        BY <3>8, PKCS8Reads DEF Documents!mldsaParseSecretKeyDER
    <3> HIDE DEF priv, key, read
    <3> QED
      BY <1>1, <2>1, <3>1, <3>9 DEF Documents!ParseSecretDER
  <2>2. CASE alg = "eddsa"
    <3> DEFINE priv == <<Documents!Item("OCTETS", seed)>>
    <3>1. Documents!MarshalSecretDER(key) = Documents!PKCS8("eddsa", priv)
      BY <1>1, <2>2 DEF Documents!MarshalSecretDER, Documents!eddsaMarshalDER
    <3>2. Documents!ReadsOnly(priv, "OCTETS") /\ Documents!Inner(priv) = seed
      BY ReadsBare
    <3>3. Documents!Seed("eddsa", seed, 32) = read
      BY <2>2 DEF IsSeed, Documents!Seed
    <3>4. Documents!eddsaParseSecretKeyDER(Documents!PKCS8("eddsa", priv)) = read
      <4> HIDE DEF priv, read
      <4> QED
        BY <3>2, <3>3, PKCS8Reads DEF Documents!eddsaParseSecretKeyDER
    <3> HIDE DEF priv, key, read
    <3> QED
      BY <1>1, <2>2, <3>1, <3>4 DEF Documents!ParseSecretDER
  <2>3. CASE alg = "xdsa"
    <3>1. Documents!MarshalSecretDER(key) = Documents!PKCS8("xdsa", seed)
      <4> HIDE DEF key
      <4> QED
        BY <1>1, <1>2, <2>3 DEF Documents!MarshalSecretDER, Documents!xdsaMarshalDER
    <3>2. Documents!Seed("xdsa", seed, 64) = read
      BY <2>3 DEF IsSeed, Documents!Seed
    <3>3. Documents!xdsaParseSecretKeyDER(Documents!PKCS8("xdsa", seed)) = read
      <4> HIDE DEF read
      <4> QED
        BY <3>2, PKCS8Reads DEF Documents!xdsaParseSecretKeyDER
    <3> HIDE DEF key, read
    <3> QED
      BY <1>1, <2>3, <3>1, <3>3 DEF Documents!ParseSecretDER
  <2>4. CASE alg = "xhpke"
    <3>1. Documents!MarshalSecretDER(key) = Documents!PKCS8("xhpke", seed)
      BY <1>1, <2>4 DEF Documents!MarshalSecretDER, Documents!xhpkeMarshalDER
    <3>2. Documents!Seed("xhpke", seed, 32) = read
      BY <2>4 DEF IsSeed, Documents!Seed
    <3>3. Documents!xhpkeParseSecretKeyDER(Documents!PKCS8("xhpke", seed)) = read
      <4> HIDE DEF read
      <4> QED
        BY <3>2, PKCS8Reads DEF Documents!xhpkeParseSecretKeyDER
    <3> HIDE DEF key, read
    <3> QED
      BY <1>1, <2>4, <3>1, <3>3 DEF Documents!ParseSecretDER
  <2> QED
    BY <2>1, <2>2, <2>3, <2>4 DEF Documents!Schemes
<1>4. key.alg = "xdsa" => Documents!ComposeSecretKey(Documents!Split(key).ml, Documents!Split(key).ed) = key
  <2> SUFFICES ASSUME alg = "xdsa"
               PROVE  Documents!ComposeSecretKey(Documents!Split(key).ml, Documents!Split(key).ed)
                        = Documents!SecretKey("xdsa", seed)
    BY <1>1
  <2> HIDE DEF key
  <2> QED
    BY <1>2 DEF Documents!ComposeSecretKey
<1> QED
  BY <1>3, <1>4 DEF Documents!SecretReadsBack

(* ParsePublicKeyDER reads the public key of every secret key back from    *)
(* what MarshalDER wrote.                                                  *)
THEOREM PublicKeysReadBack ==
    ASSUME NEW alg \in Documents!Schemes, NEW seed
    PROVE  Documents!PublicReadsBack(alg, Documents!PublicKey(Documents!SecretKey(alg, seed)))
<1> DEFINE key    == Documents!SecretKey(alg, seed)
           public == Documents!PublicKey(key)
           info   == Documents!ParseSPKI(Documents!SPKI(alg, public), alg)
           size   == CASE alg = "mldsa" -> 1952 [] alg = "eddsa" -> 32
                       [] alg = "xdsa" -> 1984 [] alg = "xhpke" -> 1216
<1>1. key.alg = alg
  BY DEF Documents!SecretKey
<1> HIDE DEF key
<1>2. /\ \E T : public \in Seq(T)
      /\ IsSized(public) /\ Documents!Size(public) = size
      /\ alg = "eddsa" => Documents!IsBlock(public, "point")
      /\ alg = "xdsa"  => Documents!IsBlock(<<Documents!Last(public)>>, "point")
      /\ alg = "xhpke" => Documents!IsBlock(public, "xwing")
  <2>1. ASSUME NEW n \in Nat, NEW kind, NEW x, public = <<Documents!Derived(n, kind, x)>>
        PROVE  /\ \E T : public \in Seq(T)
               /\ IsSized(public) /\ Documents!Size(public) = n
               /\ Documents!IsBlock(public, kind)
    <3> HIDE DEF public
    <3>1. public \in Seq({public[1]}) /\ Len(public) = 1 /\ public[1].size = n
      BY <2>1 DEF Documents!Derived
    <3>2. IsSized(public)
      BY <3>1 DEF IsSized
    <3>3. Documents!Size(public) = n
      BY <3>1, <3>2, SizeAdds
    <3>4. Documents!IsBlock(public, kind)
      BY <2>1 DEF Documents!IsBlock, Documents!Derived
    <3> QED
      BY <3>1, <3>2, <3>3, <3>4
  <2>2. CASE alg = "mldsa"
    <3>1. public = <<Documents!Derived(1952, "mldsa", key.seed)>>
      BY <1>1, <2>2 DEF Documents!PublicKey, Documents!mldsaPublicKey, Documents!MLPublic
    <3> HIDE DEF public
    <3> QED
      BY <2>1, <2>2, <3>1
  <2>3. CASE alg = "eddsa"
    <3>1. public = <<Documents!Derived(32, "point", key.seed)>>
      BY <1>1, <2>3 DEF Documents!PublicKey, Documents!eddsaPublicKey, Documents!EdPublic
    <3> HIDE DEF public
    <3> QED
      BY <2>1, <2>3, <3>1
  <2>4. CASE alg = "xdsa"
    <3> DEFINE ml == Documents!Derived(1952, "mldsa", Documents!Split(key).ml.seed)
               ed == Documents!Derived(32, "point", Documents!Split(key).ed.seed)
    <3>1. public = <<ml>> \o <<ed>>
      BY <1>1, <2>4 DEF Documents!PublicKey, Documents!xdsaPublicKey, Documents!mldsaPublicKey,
         Documents!eddsaPublicKey, Documents!MLPublic, Documents!EdPublic
    <3> HIDE DEF public
    <3>2. ml.size = 1952 /\ ed.size = 32 /\ ed.kind = "point" /\ "kind" \in DOMAIN ed
      BY DEF Documents!Derived
    <3> HIDE DEF ml, ed
    <3>3. public = <<ml, ed>>
      <4>1. /\ <<ml>> \in Seq({ml, ed}) /\ <<ed>> \in Seq({ml, ed})
            /\ <<ml, ed>> \in Seq({ml, ed}) /\ public \in Seq({ml, ed})
        BY <3>1
      <4>2. Len(public) = 2 /\ public[1] = ml /\ public[2] = ed
        BY <3>1, <4>1
      <4> QED
        BY <4>1, <4>2
    <3>4. public \in Seq({ml, ed}) /\ Len(public) = 2 /\ public[1] = ml /\ public[2] = ed
      BY <3>3
    <3>5. IsSized(public)
      BY <3>2, <3>4 DEF IsSized
    <3>6. Documents!Size(public) = 1984
      BY <3>2, <3>4, <3>5, SizeAdds
    <3>7. Documents!IsBlock(<<Documents!Last(public)>>, "point")
      BY <3>2, <3>4 DEF Documents!Last, Documents!IsBlock
    <3> QED
      BY <2>4, <3>4, <3>5, <3>6, <3>7
  <2>5. CASE alg = "xhpke"
    <3>1. public = <<Documents!Derived(1216, "xwing", key.seed)>>
      BY <1>1, <2>5 DEF Documents!PublicKey, Documents!xhpkePublicKey, Documents!KEMPublic
    <3> HIDE DEF public
    <3> QED
      BY <2>1, <2>5, <3>1
  <2> HIDE DEF public
  <2> QED
    BY <2>2, <2>3, <2>4, <2>5 DEF Documents!Schemes
<1> HIDE DEF public
<1>3. info.ok /\ info.bytes = public /\ info.bitLength = 8 * size
  <2> HIDE DEF size
  <2> QED
    BY <1>2, SPKIReads
<1> HIDE DEF info
<1>4. /\ alg = "mldsa" => Documents!mldsaParsePublicKeyDER(info)
      /\ alg = "eddsa" => Documents!eddsaParsePublicKeyDER(info)
      /\ alg = "xdsa"  => Documents!xdsaParsePublicKeyDER(info)
      /\ alg = "xhpke" => Documents!xhpkeParsePublicKeyDER(info)
  BY <1>2, <1>3 DEF Documents!Schemes, Documents!mldsaParsePublicKeyDER, Documents!mldsaParsePublicKey,
     Documents!eddsaParsePublicKeyDER, Documents!eddsaParsePublicKey, Documents!xdsaParsePublicKeyDER,
     Documents!xdsaParsePublicKey, Documents!xhpkeParsePublicKeyDER, Documents!xhpkeParsePublicKey
<1>5. Documents!ParsePublicDER(alg, Documents!SPKI(alg, public)) = [ok |-> TRUE, key |-> public]
  BY <1>3, <1>4 DEF info, Documents!ParsePublicDER, Documents!Schemes
<1> QED
  BY <1>5 DEF public, key, Documents!PublicReadsBack, Documents!MarshalPublicDER
-----------------------------------------------------------------------------
USE ChunkSizeAssumption, OverheadAssumption

(* A run of the message's bytes is a sequence of numbers of that length,   *)
(* a part of a run is a run, and neighbouring runs join.                   *)
LEMMA BytesType ==
    ASSUME NEW lo \in Nat, NEW hi \in Nat, lo <= hi
    PROVE  Bytes(lo, hi) \in Seq(Nat) /\ Len(Bytes(lo, hi)) = hi - lo
BY DEF Bytes

LEMMA BytesEmpty ==
    ASSUME NEW a \in Nat, NEW c \in Nat, a <= c
    PROVE  Bytes(a, c) = <<>> <=> a = c
BY BytesType DEF Bytes

LEMMA BytesPart ==
    ASSUME NEW lo \in Nat, NEW hi \in Nat, NEW a \in Nat, NEW b \in Nat,
           lo <= a, a <= b, b <= hi,
           NEW i \in Nat, NEW j \in Nat, i = a - lo + 1, j = b - lo
    PROVE  SubSeq(Bytes(lo, hi), i, j) = Bytes(a, b)
BY BytesType DEF Bytes

(* The first n bytes of a run are a run, and the others are one.           *)
CutsBytes(a, n, c) ==
    /\ SubSeq(Bytes(a, c), 1, n) = Bytes(a, a + n)
    /\ SubSeq(Bytes(a, c), n + 1, Len(Bytes(a, c))) = Bytes(a + n, c)

LEMMA BytesSplit ==
    ASSUME NEW a \in Nat, NEW n \in Nat, NEW c \in Nat, a + n <= c
    PROVE  CutsBytes(a, n, c)
BY BytesType DEF CutsBytes, Bytes

LEMMA BytesJoin ==
    ASSUME NEW a \in Int, NEW b \in Int, NEW c \in Int, a <= b, b <= c
    PROVE  Bytes(a, b) \o Bytes(b, c) = Bytes(a, c)
BY DEF Bytes
-----------------------------------------------------------------------------
LEMMA CellsOf ==
    ASSUME NEW chunk, chunk.data \in Seq(Nat)
    PROVE  /\ Len(Cells(chunk)) = Len(chunk.data) + Overhead
           /\ Len(Cells(chunk)) \in Nat /\ Len(chunk.data) \in Nat
BY DEF Cells

LEMMA FullChunkData ==
    ASSUME NEW j \in Nat
    PROVE  FullChunk(j).data \in Seq(Nat) /\ Len(FullChunk(j).data) = ChunkSize
<1>1. /\ j * ChunkSize \in Nat /\ (j + 1) * ChunkSize \in Nat
      /\ (j + 1) * ChunkSize - j * ChunkSize = ChunkSize
      /\ j * ChunkSize <= (j + 1) * ChunkSize
  OBVIOUS
<1> QED
  BY <1>1, BytesType DEF FullChunk, Seal

LEMMA EmptyStream == IsStreamOf(<<>>, <<>>)
BY DEF IsStreamOf

(* A chunk put behind full ones.                                           *)
LEMMA StreamAppend ==
    ASSUME NEW S, NEW cells \in Seq(S), NEW T, NEW sealed \in Seq(T), NEW chunk \in T,
           \A c \in T : c.data \in Seq(Nat),
           Cells(chunk) \in Seq(S), IsStreamOf(cells, sealed),
           \A i \in 1..Len(sealed) : Len(sealed[i].data) = ChunkSize
    PROVE  /\ IsStreamOf(cells \o Cells(chunk), Append(sealed, chunk))
           /\ Len(cells) = Len(sealed) * encChunkSize
<1> DEFINE n == Len(sealed)
           new == Append(sealed, chunk)
           all == cells \o Cells(chunk)
           from(i) == (i - 1) * encChunkSize
           to(i) == from(i) + Len(new[i].data) + Overhead
<1>1. /\ n \in Nat /\ new \in Seq(T) /\ Len(new) = n + 1 /\ new[n + 1] = chunk
      /\ \A i \in 1..n : new[i] = sealed[i]
  OBVIOUS
<1>2. /\ Len(Cells(chunk)) = Len(chunk.data) + Overhead
      /\ Len(Cells(chunk)) \in Nat /\ Len(chunk.data) \in Nat
  BY CellsOf
<1>3. encChunkSize \in Nat /\ encChunkSize = ChunkSize + Overhead
  BY DEF encChunkSize
<1>4. \A i \in 1..n : from(i) \in Nat /\ to(i) = from(i) + encChunkSize
  <2> TAKE i \in 1..n
  <2>1. i - 1 \in Nat
    OBVIOUS
  <2>2. Len(new[i].data) = ChunkSize
    BY <1>1
  <2>3. from(i) \in Nat
    BY <1>3, <2>1, TimesNat
  <2> HIDE DEF from
  <2> QED
    BY <1>3, <2>2, <2>3
<1>5. \A i \in 1..n : from(i) + encChunkSize = i * encChunkSize
  <2> TAKE i \in 1..n
  <2>1. i - 1 \in Nat /\ (i - 1) + 1 = i
    OBVIOUS
  <2> QED
    BY <1>3, <2>1, TimesNat
<1>6. /\ \A i \in 1..n : /\ to(i) <= Len(cells)
                         /\ SubSeq(cells, from(i) + 1, to(i)) = Cells(sealed[i])
      /\ Len(cells) = IF n = 0 THEN 0 ELSE to(n)
  BY <1>1 DEF IsStreamOf
<1>a. /\ from(n + 1) = n * encChunkSize
      /\ to(n + 1) = from(n + 1) + (Len(chunk.data) + Overhead)
      /\ from(n + 1) \in Nat
  <2>1. (n + 1) - 1 = n /\ n * encChunkSize \in Nat
    BY <1>1, <1>3, TimesNat
  <2>2. Len(new[n + 1].data) = Len(chunk.data)
    BY <1>1
  <2>3. from(n + 1) = n * encChunkSize
    BY <2>1
  <2> HIDE DEF from
  <2> QED
    BY <1>2, <2>1, <2>2, <2>3
<1> HIDE DEF from, to, n
<1>7. Len(cells) = n * encChunkSize /\ Len(cells) \in Nat
  <2>1. CASE n = 0
    BY <1>3, <1>6, <2>1
  <2>2. CASE n # 0
    <3>1. n \in 1..n
      BY <1>1, <2>2
    <3>2. to(n) = n * encChunkSize
      BY <1>4, <1>5, <3>1
    <3> QED
      BY <1>1, <1>3, <1>6, <2>2, <3>2, TimesNat
  <2> QED
    BY <2>1, <2>2
<1>8. from(n + 1) = Len(cells) /\ to(n + 1) = Len(cells) + Len(Cells(chunk))
  BY <1>2, <1>7, <1>a
<1>9. Len(all) = Len(cells) + Len(Cells(chunk))
  BY ConcatProperties
<1> HIDE DEF all, new
<1>10. ASSUME NEW i \in 1..(n + 1)
       PROVE  /\ i < n + 1 => Len(new[i].data) = ChunkSize
              /\ to(i) <= Len(all)
              /\ SubSeq(all, from(i) + 1, to(i)) = Cells(new[i])
  <2>1. CASE i \in 1..n
    <3>1. /\ from(i) \in Nat /\ to(i) \in Nat /\ to(i) <= Len(cells)
          /\ SubSeq(cells, from(i) + 1, to(i)) = Cells(sealed[i])
      BY <1>3, <1>4, <1>6, <2>1
    <3>2. SubSeq(all, from(i) + 1, to(i)) = SubSeq(cells, from(i) + 1, to(i))
      <4> DEFINE Kept(a, b) == SubSeq(all, a, b) = SubSeq(cells, a, b)
      <4>1. from(i) + 1 \in Nat \ {0}
        BY <3>1
      <4>2. \A a \in Nat \ {0}, b \in Nat : b <= Len(cells) => Kept(a, b)
        BY SubSeqOfFirst DEF all
      <4> HIDE DEF Kept
      <4>3. Kept(from(i) + 1, to(i))
        BY <3>1, <4>1, <4>2
      <4> QED
        BY <4>3 DEF Kept
    <3>3. Len(new[i].data) = ChunkSize /\ new[i] = sealed[i]
      BY <1>1, <2>1 DEF n
    <3>4. to(i) <= Len(all)
      BY <1>2, <1>7, <1>9, <3>1, SMTT(30)
    <3> QED
      BY <3>1, <3>2, <3>3, <3>4
  <2>2. CASE i = n + 1
    <3>1. SubSeq(all, Len(cells) + 1, Len(cells) + Len(Cells(chunk))) = Cells(chunk)
      BY SubSeqOfSecond DEF all
    <3>2. to(n + 1) <= Len(all)
      BY <1>2, <1>7, <1>8, <1>9
    <3> QED
      BY <1>1, <1>8, <2>2, <3>1, <3>2
  <2>3. i \in 1..n \/ i = n + 1
    BY <1>1
  <2> QED
    BY <2>1, <2>2, <2>3
<1>11. IsStreamOf(all, new)
  <2>1. /\ \A i \in 1..Len(new) :
              /\ i < Len(new) => Len(new[i].data) = ChunkSize
              /\ to(i) <= Len(all)
              /\ SubSeq(all, from(i) + 1, to(i)) = Cells(new[i])
        /\ Len(all) = IF Len(new) = 0 THEN 0 ELSE to(Len(new))
    BY <1>1, <1>8, <1>9, <1>10
  <2> QED
    BY <2>1 DEF IsStreamOf, from, to
<1> QED
  BY <1>7, <1>11 DEF all, new, n
-----------------------------------------------------------------------------
(* The chunk that ends a message is the one its count says.                *)
LEMMA CountOfLast ==
    ASSUME NEW k \in Nat, NEW len \in Nat, EndsInChunk(k, len)
    PROVE  ChunkCount(len) = k + 1
<1>1. /\ k * ChunkSize <= len /\ len <= (k + 1) * ChunkSize
      /\ k * ChunkSize = len => k = 0
  BY DEF EndsInChunk
<1>2. CASE len = 0
  <2>1. k = 0
    BY <1>1, <1>2
  <2> QED
    BY <1>2, <2>1 DEF ChunkCount
<1>3. CASE len # 0
  <2>1. k * ChunkSize < len
    BY <1>1, <1>3
  <2>2. /\ len + ChunkSize - 1 \in Nat /\ k + 1 \in Nat
        /\ (k + 1) * ChunkSize <= len + ChunkSize - 1
        /\ len + ChunkSize - 1 < (k + 1 + 1) * ChunkSize
    BY <1>1, <2>1
  <2>3. (len + ChunkSize - 1) \div ChunkSize = k + 1
    BY <2>2, DivUnique
  <2> QED
    BY <1>3, <2>3 DEF ChunkCount
<1> QED
  BY <1>2, <1>3

(* The full chunk j lies at its place.                                     *)
FullChunkAt(cells, j) ==
    /\ (j + 1) * encChunkSize <= Len(cells)
    /\ SubSeq(cells, j * encChunkSize + 1, (j + 1) * encChunkSize) = Cells(FullChunk(j))

(* k full chunks and the final one are the ciphertext of a message.        *)
LEMMA CiphertextFromChunks ==
    ASSUME NEW S, NEW cells \in Seq(S), NEW k \in Nat, NEW len \in Nat, EndsInChunk(k, len),
           \A j \in 0..(k - 1) : FullChunkAt(cells, j),
           k * encChunkSize <= Len(cells),
           SubSeq(cells, k * encChunkSize + 1, Len(cells)) = Cells(FinalChunk(k, len))
    PROVE  IsCiphertext(cells, len)
<1> DEFINE sealed  == ChunksOf(len)
           n       == Len(sealed)
           from(i) == (i - 1) * encChunkSize
           to(i)   == from(i) + Len(sealed[i].data) + Overhead
<1>1. ChunkCount(len) = k + 1
  BY CountOfLast
<1>2. /\ n = k + 1
      /\ \A i \in 1..k : sealed[i] = FullChunk(i - 1)
      /\ sealed[k + 1] = FinalChunk(k, len)
  BY <1>1 DEF ChunksOf
<1>3. encChunkSize \in Nat /\ encChunkSize = ChunkSize + Overhead
  BY DEF encChunkSize
<1>4. \A j \in Nat : Len(FullChunk(j).data) = ChunkSize
  BY FullChunkData
<1>5. /\ Len(Cells(FinalChunk(k, len))) = Len(FinalChunk(k, len).data) + Overhead
      /\ Len(FinalChunk(k, len).data) \in Nat
  <2>1. FinalChunk(k, len).data \in Seq(Nat)
    <3>1. k * ChunkSize \in Nat /\ k * ChunkSize <= len
      BY DEF EndsInChunk
    <3> QED
      BY <3>1, BytesType DEF FinalChunk, Seal
  <2> QED
    BY <2>1, CellsOf
<1> HIDE DEF sealed, n
<1>6. ASSUME NEW i \in 1..k
      PROVE  /\ Len(sealed[i].data) = ChunkSize
             /\ to(i) <= Len(cells)
             /\ SubSeq(cells, from(i) + 1, to(i)) = Cells(sealed[i])
  <2>1. i - 1 \in 0..(k - 1) /\ i - 1 \in Nat /\ (i - 1) + 1 = i
    OBVIOUS
  <2>2. FullChunkAt(cells, i - 1) /\ sealed[i] = FullChunk(i - 1)
    BY <1>2, <2>1
  <2>3. Len(sealed[i].data) = ChunkSize
    BY <1>4, <2>1, <2>2
  <2>4. (i - 1) * encChunkSize + encChunkSize = i * encChunkSize
    BY <1>3
  <2>5. (i - 1) * encChunkSize \in Nat
    BY <1>3, <2>1
  <2>6. to(i) = i * encChunkSize
    BY <1>3, <2>3, <2>4, <2>5
  <2> QED
    BY <2>1, <2>2, <2>3, <2>6 DEF FullChunkAt
<1>7. /\ to(k + 1) = Len(cells)
      /\ SubSeq(cells, from(k + 1) + 1, to(k + 1)) = Cells(sealed[k + 1])
  <2>1. from(k + 1) = k * encChunkSize /\ k * encChunkSize \in Nat /\ Len(cells) \in Nat
    BY <1>3
  <2>2. Len(SubSeq(cells, k * encChunkSize + 1, Len(cells))) = Len(cells) - k * encChunkSize
    BY <2>1
  <2>3. Len(cells) - k * encChunkSize = Len(sealed[k + 1].data) + Overhead
    BY <1>2, <1>5, <2>2
  <2>4. to(k + 1) = Len(cells)
    BY <1>2, <1>5, <2>1, <2>3
  <2> QED
    BY <1>2, <2>1, <2>4
<1> HIDE DEF from, to
<1>8. \A i \in 1..n : /\ i < n => Len(sealed[i].data) = ChunkSize
                      /\ to(i) <= Len(cells)
                      /\ SubSeq(cells, from(i) + 1, to(i)) = Cells(sealed[i])
  <2> TAKE i \in 1..n
  <2>1. i \in 1..k \/ i = k + 1
    BY <1>2
  <2>2. CASE i \in 1..k
    BY <1>6, <2>2
  <2>3. CASE i = k + 1
    <3>1. ~(i < n) /\ Len(cells) \in Nat
      BY <1>2, <2>3
    <3> QED
      BY <1>7, <2>3, <3>1
  <2> QED
    BY <2>1, <2>2, <2>3
<1>9. Len(cells) = IF n = 0 THEN 0 ELSE to(n)
  BY <1>2, <1>7
<1> QED
  BY <1>8, <1>9 DEF IsCiphertext, IsStreamOf, sealed, n, from, to
-----------------------------------------------------------------------------
(* A message fills the chunks its count says, up to a part of the last.    *)
LEMMA CountBounds ==
    ASSUME NEW len \in Nat, NEW m, m = ChunkCount(len)
    PROVE  /\ m \in Nat \ {0} /\ len <= m * ChunkSize
           /\ IF len = 0 THEN m = 1
              ELSE (m - 1) * ChunkSize < len /\ m = (len + ChunkSize - 1) \div ChunkSize
<1>1. CASE len = 0
  BY <1>1 DEF ChunkCount
<1>2. CASE len # 0
  <2>1. m = (len + ChunkSize - 1) \div ChunkSize /\ len + ChunkSize - 1 \in Nat
    BY <1>2 DEF ChunkCount
  <2>2. /\ m \in Nat /\ m * ChunkSize <= len + ChunkSize - 1
        /\ len + ChunkSize - 1 < (m + 1) * ChunkSize
    BY <2>1, DivFacts
  <2>3. (m + 1) * ChunkSize = m * ChunkSize + ChunkSize /\ m * ChunkSize \in Nat
    BY <2>2
  <2>4. (m - 1) * ChunkSize = m * ChunkSize - ChunkSize
    BY <2>2
  <2>5. m # 0
    <3> SUFFICES ASSUME m = 0 PROVE FALSE
      OBVIOUS
    <3>1. m * ChunkSize = 0
      OBVIOUS
    <3> QED
      BY <1>2, <2>2, <2>3, <3>1
  <2> DEFINE c == m * ChunkSize
  <2>6. c \in Nat /\ c <= len + ChunkSize - 1 /\ len + ChunkSize - 1 < c + ChunkSize
    BY <2>2, <2>3
  <2> HIDE DEF c
  <2>7. len <= c /\ c - ChunkSize < len
    BY <2>6
  <2> QED
    BY <1>2, <2>1, <2>2, <2>4, <2>5, <2>7 DEF c
<1> QED
  BY <1>1, <1>2

(* A sealed chunk opens under its own nonce.                               *)
LEMMA SealedChunkOpens ==
    ASSUME NEW chunk, chunk.data \in Seq(Nat)
    PROVE  Opens(chunk.nonce, Cells(chunk))
<1>1. Len(Cells(chunk)) >= 1 /\ Cells(chunk) # <<>>
  BY DEF Cells
<1>2. Cells(chunk)[1].chunk = chunk
  BY DEF Cells
<1> QED
  BY <1>1, <1>2 DEF Opens

(* Its cells open under that nonce only.                                   *)
LEMMA SealedUnderOne ==
    ASSUME NEW chunk, chunk.data \in Seq(Nat), NEW other, Opens(other, Cells(chunk))
    PROVE  other = chunk.nonce
<1>1. Cells(chunk)[1].chunk = chunk
  BY DEF Cells
<1> QED
  BY <1>1 DEF Opens

(* The chunks of a message: all are full but the last.                     *)
IsChunkOf(len, k, chunk) ==
    LET m == ChunkCount(len)
    IN  /\ chunk.data \in Seq(Nat)
        /\ k < m - 1 => /\ chunk = FullChunk(k) /\ Len(chunk.data) = ChunkSize
                        /\ chunk.nonce = nonceForChunk(k)
        /\ k = m - 1 => /\ chunk = FinalChunk(k, len) /\ EndsInChunk(k, len)
                        /\ Len(chunk.data) = len - k * ChunkSize
                        /\ len - k * ChunkSize <= ChunkSize
                        /\ chunk.nonce = setLastChunkFlag(nonceForChunk(k))

LEMMA ChunkOfMessage ==
    ASSUME NEW len \in Nat, NEW k \in Nat, k < ChunkCount(len)
    PROVE  IsChunkOf(len, k, ChunksOf(len)[k + 1])
<1> DEFINE chunk == ChunksOf(len)[k + 1]
           m == ChunkCount(len)
<1>1. m \in Nat \ {0} /\ len <= m * ChunkSize
      /\ IF len = 0 THEN m = 1 ELSE (m - 1) * ChunkSize < len
  BY CountBounds
<1>2. chunk = IF k + 1 < m THEN FullChunk(k) ELSE FinalChunk(k, len)
  BY <1>1 DEF ChunksOf
<1> HIDE DEF chunk, m
<1>3. CASE k < m - 1
  <2>1. chunk = FullChunk(k)
    BY <1>1, <1>2, <1>3
  <2>2. /\ chunk.data \in Seq(Nat) /\ Len(chunk.data) = ChunkSize
        /\ chunk.nonce = nonceForChunk(k)
    BY <2>1, FullChunkData DEF FullChunk, Seal
  <2>3. k # m - 1
    BY <1>1, <1>3
  <2> QED
    BY <2>1, <2>2, <2>3 DEF IsChunkOf, chunk, m
<1>4. CASE k = m - 1
  <2>1. chunk = FinalChunk(k, len)
    BY <1>1, <1>2, <1>4
  <2>2. /\ k * ChunkSize \in Nat /\ k * ChunkSize + ChunkSize = m * ChunkSize
        /\ (k + 1) * ChunkSize = m * ChunkSize
    BY <1>1, <1>4, TimesNat
  <2>3. k * ChunkSize <= len /\ (k * ChunkSize = len => k = 0)
    BY <1>1, <1>4
  <2>4. /\ Bytes(k * ChunkSize, len) \in Seq(Nat)
        /\ Len(Bytes(k * ChunkSize, len)) = len - k * ChunkSize
    BY <2>2, <2>3, BytesType
  <2>5. len - k * ChunkSize <= ChunkSize
    BY <1>1, <2>2
  <2>6. /\ chunk.data = Bytes(k * ChunkSize, len)
        /\ chunk.nonce = setLastChunkFlag(nonceForChunk(k))
    BY <2>1 DEF FinalChunk, Seal
  <2>7. ~(k < m - 1)
    BY <1>1, <1>4
  <2>8. chunk.data \in Seq(Nat) /\ Len(chunk.data) = len - k * ChunkSize
    BY <2>4, <2>6
  <2>9. EndsInChunk(k, len)
    BY <1>1, <2>2, <2>3 DEF EndsInChunk
  <2> QED
    BY <2>1, <2>5, <2>6, <2>7, <2>8, <2>9 DEF IsChunkOf, chunk, m
<1>5. k < m - 1 \/ k = m - 1
  BY <1>1 DEF m
<1> QED
  BY <1>3, <1>4, <1>5

(* Each lies in the ciphertext where its number says, and the last one     *)
(* ends it.                                                                *)
LiesAt(cells, k, chunk, len) ==
    LET to == k * encChunkSize + Len(Cells(chunk))
    IN  /\ k * encChunkSize \in Nat /\ to \in Nat /\ to <= Len(cells)
        /\ SubSeq(cells, k * encChunkSize + 1, to) = Cells(chunk)
        /\ k = ChunkCount(len) - 1 => to = Len(cells)

LEMMA ChunkInPlace ==
    ASSUME NEW cells, NEW len \in Nat, IsCiphertext(cells, len),
           NEW k \in Nat, k < ChunkCount(len)
    PROVE  LiesAt(cells, k, ChunksOf(len)[k + 1], len)
<1> DEFINE sealed == ChunksOf(len)
           chunk  == sealed[k + 1]
           m      == ChunkCount(len)
           from   == k * encChunkSize
           to     == from + Len(Cells(chunk))
<1>1. m \in Nat \ {0} /\ k < m
  BY CountBounds
<1>2. Len(sealed) = m
  BY <1>1 DEF ChunksOf
<1>3. chunk.data \in Seq(Nat)
  BY ChunkOfMessage DEF IsChunkOf
<1> HIDE DEF sealed, m
<1>4. /\ Len(Cells(chunk)) = Len(chunk.data) + Overhead
      /\ Len(Cells(chunk)) \in Nat /\ Len(chunk.data) \in Nat
  BY <1>3, CellsOf
<1>5. from \in Nat /\ k + 1 \in 1..m /\ (k + 1) - 1 = k
  <2>1. encChunkSize \in Nat
    BY DEF encChunkSize
  <2> QED
    BY <1>1, <2>1
<1> HIDE DEF chunk
<1>6. ((k + 1) - 1) * encChunkSize = from
  BY <1>5
<1> HIDE DEF from
<1>7. to = from + Len(chunk.data) + Overhead /\ to \in Nat
  BY <1>4, <1>5
<1>8. /\ from + Len(chunk.data) + Overhead <= Len(cells)
      /\ SubSeq(cells, from + 1, from + Len(chunk.data) + Overhead) = Cells(chunk)
  BY <1>2, <1>5, <1>6 DEF IsCiphertext, IsStreamOf, sealed, chunk
<1>9. ASSUME k = m - 1 PROVE to = Len(cells)
  <2>1. k + 1 = Len(sealed) /\ Len(sealed) # 0
    BY <1>1, <1>2, <1>9
  <2>2. Len(cells) = from + Len(chunk.data) + Overhead
    BY <1>6, <2>1 DEF IsCiphertext, IsStreamOf, sealed, chunk
  <2> QED
    BY <1>7, <2>2
<1>10. /\ from \in Nat /\ to \in Nat /\ to <= Len(cells)
       /\ SubSeq(cells, from + 1, to) = Cells(chunk)
       /\ k = m - 1 => to = Len(cells)
  BY <1>5, <1>7, <1>8, <1>9
<1> QED
  BY <1>10 DEF LiesAt, from, chunk, sealed, m
-----------------------------------------------------------------------------
(* No chunk is the n-th full one and a last one, or has two places.        *)
LEMMA ChunksDiffer ==
    ASSUME NEW k \in Nat, NEW l \in Nat, NEW m, NEW n
    PROVE  /\ FullChunk(k) # FinalChunk(l, n)
           /\ FullChunk(k) = FullChunk(l) => k = l
           /\ FinalChunk(k, m) = FinalChunk(l, n) => k = l
<1>1. /\ FullChunk(k).nonce = [ctr |-> k, last |-> FALSE]
      /\ FinalChunk(k, m).nonce = [ctr |-> k, last |-> TRUE]
      /\ FullChunk(l).nonce = [ctr |-> l, last |-> FALSE]
      /\ FinalChunk(l, n).nonce = [ctr |-> l, last |-> TRUE]
  BY DEF FullChunk, FinalChunk, Seal, nonceForChunk, setLastChunkFlag
<1> HIDE DEF FullChunk, FinalChunk
<1> QED
  BY <1>1

(* A last chunk says how long the message is.                              *)
LEMMA LastIsWhole ==
    ASSUME NEW k \in Nat, NEW m \in Nat, NEW n \in Nat,
           EndsInChunk(k, m), EndsInChunk(k, n), FinalChunk(k, m) = FinalChunk(k, n)
    PROVE  m = n
<1>1. k * ChunkSize \in Nat /\ k * ChunkSize <= m /\ k * ChunkSize <= n
  BY DEF EndsInChunk
<1>2. Bytes(k * ChunkSize, m) = Bytes(k * ChunkSize, n)
  <2>1. /\ FinalChunk(k, m).data = Bytes(k * ChunkSize, m)
        /\ FinalChunk(k, n).data = Bytes(k * ChunkSize, n)
    BY DEF FinalChunk, Seal
  <2> QED
    BY <2>1
<1> DEFINE base == k * ChunkSize
<1> HIDE DEF base
<1>3. m - base = n - base
  BY <1>1, <1>2, BytesType DEF base
<1> QED
  BY <1>1, <1>3 DEF base

(* The first cell of a chunk tells which chunk it is.                      *)
Holds(cells, a, b, chunk) ==
    /\ chunk.data \in Seq(Nat)
    /\ b <= Len(cells) /\ SubSeq(cells, a + 1, b) = Cells(chunk)

Starts(cells, a, chunk) == a + 1 \in 1..Len(cells) /\ cells[a + 1].chunk = chunk

LEMMA FirstCell ==
    ASSUME NEW S, NEW cells \in Seq(S), NEW a \in Nat, NEW b \in Nat,
           NEW chunk, Holds(cells, a, b, chunk)
    PROVE  Starts(cells, a, chunk)
<1>1. /\ Len(Cells(chunk)) = Len(chunk.data) + Overhead /\ Len(chunk.data) \in Nat
      /\ 1 \in 1..Len(Cells(chunk)) /\ Cells(chunk)[1].chunk = chunk
  BY DEF Holds, Cells
<1>2. b <= Len(cells) /\ SubSeq(cells, a + 1, b) = Cells(chunk)
  BY DEF Holds
<1>3. a + 1 <= b
  BY <1>1, <1>2
<1>4. SubSeq(cells, a + 1, b)[1] = cells[a + 1] /\ a + 1 \in 1..Len(cells)
  BY <1>2, <1>3
<1> QED
  BY <1>1, <1>2, <1>4 DEF Starts

LEMMA FullChunkCell ==
    ASSUME NEW S, NEW cells \in Seq(S), NEW k \in Nat, FullChunkAt(cells, k)
    PROVE  Starts(cells, k * encChunkSize, FullChunk(k))
<1> DEFINE a == k * encChunkSize
           b == (k + 1) * encChunkSize
           chunk == FullChunk(k)
<1>1. a \in Nat /\ b \in Nat
  <2>1. encChunkSize \in Nat
    BY DEF encChunkSize
  <2> QED
    BY <2>1
<1>2. Holds(cells, a, b, chunk)
  <2>1. FullChunk(k).data \in Seq(Nat)
    BY FullChunkData
  <2> QED
    BY <2>1 DEF Holds, FullChunkAt
<1> HIDE DEF a, b, chunk
<1>3. Starts(cells, a, chunk)
  BY <1>1, <1>2, FirstCell
<1> QED
  BY <1>3 DEF a, chunk

LEMMA LiesStarts ==
    ASSUME NEW S, NEW cells \in Seq(S), NEW len \in Nat, NEW k \in Nat, NEW chunk,
           LiesAt(cells, k, chunk, len), IsChunkOf(len, k, chunk)
    PROVE  Starts(cells, k * encChunkSize, chunk)
<1> DEFINE a == k * encChunkSize
           b == a + Len(Cells(chunk))
<1>1. a \in Nat /\ b \in Nat /\ Holds(cells, a, b, chunk)
  BY DEF LiesAt, IsChunkOf, Holds
<1> HIDE DEF a, b
<1>2. Starts(cells, a, chunk)
  BY <1>1, FirstCell
<1> QED
  BY <1>2 DEF a

(* Only as many full chunks as a message has before its last one lie at    *)
(* the beginning of its ciphertext.                                        *)
LEMMA FullsBeforeLast ==
    ASSUME NEW S, NEW cells \in Seq(S), NEW len \in Nat, IsCiphertext(cells, len),
           NEW n \in Nat, \A j \in 0..(n - 1) : FullChunkAt(cells, j)
    PROVE  n < ChunkCount(len)
<1> DEFINE k == ChunkCount(len) - 1
           chunk == ChunksOf(len)[k + 1]
<1>0. ChunkCount(len) \in Nat \ {0}
  BY CountBounds
<1>1. k \in Nat /\ k < ChunkCount(len) /\ ChunkCount(len) \in Nat
  BY <1>0
<1>2. LiesAt(cells, k, chunk, len) /\ IsChunkOf(len, k, chunk)
  BY <1>1, ChunkInPlace, ChunkOfMessage
<1>3. Starts(cells, k * encChunkSize, FinalChunk(k, len))
  BY <1>1, <1>2, LiesStarts DEF IsChunkOf
<1> SUFFICES ASSUME ~(n < ChunkCount(len)) PROVE FALSE
  OBVIOUS
<1> HIDE DEF chunk
<1>4. Starts(cells, k * encChunkSize, FullChunk(k))
  <2>1. k \in 0..(n - 1)
    BY <1>1
  <2> HIDE DEF k
  <2> QED
    BY <1>1, <2>1, FullChunkCell
<1> HIDE DEF k
<1>5. FullChunk(k) = FinalChunk(k, len)
  BY <1>3, <1>4 DEF Starts
<1> QED
  BY <1>1, <1>5, ChunksDiffer
-----------------------------------------------------------------------------
(* What every encryptor does to the chunks it has sealed.  The abstract    *)
(* encryptor and the two that implement it share these facts.              *)
SealedChunk == [nonce : Nonce, data : Seq(Nat)]

(* The chunks of the format are sealed chunks, none longer than a chunk.   *)
LEMMA ChunkTypes ==
    ASSUME NEW k \in Nat, NEW n \in Nat
    PROVE  /\ FullChunk(k) \in SealedChunk
           /\ Len(FullChunk(k).data) <= ChunkSize
           /\ FullChunk(k).nonce = [ctr |-> k, last |-> FALSE]
           /\ EndsInChunk(k, n) =>
                /\ FinalChunk(k, n) \in SealedChunk
                /\ Len(FinalChunk(k, n).data) <= ChunkSize
                /\ FinalChunk(k, n).nonce = [ctr |-> k, last |-> TRUE]
<1>1. /\ k * ChunkSize \in Nat /\ (k + 1) * ChunkSize \in Nat
      /\ (k + 1) * ChunkSize - k * ChunkSize = ChunkSize
  OBVIOUS
<1>2. /\ Bytes(k * ChunkSize, (k + 1) * ChunkSize) \in Seq(Nat)
      /\ Len(Bytes(k * ChunkSize, (k + 1) * ChunkSize)) = ChunkSize
  BY <1>1, BytesType
<1>3. /\ nonceForChunk(k) = [ctr |-> k, last |-> FALSE]
      /\ setLastChunkFlag(nonceForChunk(k)) = [ctr |-> k, last |-> TRUE]
  BY DEF nonceForChunk, setLastChunkFlag
<1>4. ASSUME EndsInChunk(k, n)
      PROVE  /\ Bytes(k * ChunkSize, n) \in Seq(Nat)
             /\ Len(Bytes(k * ChunkSize, n)) <= ChunkSize
  BY <1>1, <1>4, BytesType DEF EndsInChunk
<1>5. \A last \in BOOLEAN : [ctr |-> k, last |-> last] \in Nonce
  BY DEF Nonce
<1>6. /\ FullChunk(k).nonce = [ctr |-> k, last |-> FALSE]
      /\ FullChunk(k).data = Bytes(k * ChunkSize, (k + 1) * ChunkSize)
      /\ FullChunk(k) \in SealedChunk
  BY <1>2, <1>3, <1>5 DEF FullChunk, Seal, SealedChunk
<1>7. /\ FinalChunk(k, n).nonce = [ctr |-> k, last |-> TRUE]
      /\ FinalChunk(k, n).data = Bytes(k * ChunkSize, n)
      /\ Bytes(k * ChunkSize, n) \in Seq(Nat) =>
            FinalChunk(k, n) \in SealedChunk
  BY <1>3, <1>5 DEF FinalChunk, Seal, SealedChunk
<1> QED
  BY <1>2, <1>4, <1>6, <1>7

(* The chunks are the cut of len bytes; the last one ends them, or more    *)
(* will follow.                                                            *)
IsCut(chunks, len, status) ==
    /\ chunks \in Seq(SealedChunk)
    /\ \A i \in 1..Len(chunks) :
          \/ chunks[i] = FullChunk(i - 1) /\ i * ChunkSize < len
          \/ /\ i = Len(chunks) /\ status # "open"
             /\ EndsInChunk(i - 1, len)
             /\ chunks[i] = FinalChunk(i - 1, len)
    /\ status = "closed" =>
          chunks # <<>> /\ chunks[Len(chunks)] = FinalChunk(Len(chunks) - 1, len)

(* Bytes are accepted, perhaps the source of them fails; a full chunk is   *)
(* sealed; or the last one is.                                             *)
CutStep(chunks, len, status, newChunks, newLen, newStatus) ==
    LET k == Len(chunks)
    IN  /\ status = "open"
        /\ \/ /\ newLen \in Nat /\ newLen >= len
              /\ newChunks = chunks /\ newStatus \in {"open", "failed"}
           \/ /\ (k + 1) * ChunkSize < len /\ newLen = len
              /\ newChunks = Append(chunks, FullChunk(k)) /\ newStatus \in {"open", "failed"}
           \/ /\ EndsInChunk(k, len) /\ newLen = len
              /\ newChunks = Append(chunks, FinalChunk(k, len))
              /\ newStatus \in {"closed", "failed"}

LEMMA CutGoesOn ==
    ASSUME NEW len \in Nat, NEW chunks, NEW status, IsCut(chunks, len, status),
           NEW newChunks, NEW newLen, NEW newStatus,
           CutStep(chunks, len, status, newChunks, newLen, newStatus)
    PROVE  IsCut(newChunks, newLen, newStatus)
<1> DEFINE k == Len(chunks)
<1>1. /\ status = "open" /\ chunks \in Seq(SealedChunk) /\ k \in Nat
      /\ \A i \in 1..k : chunks[i] = FullChunk(i - 1) /\ i * ChunkSize < len
  BY DEF IsCut, CutStep
<1>2. CASE /\ newLen \in Nat /\ newLen >= len
           /\ newChunks = chunks /\ newStatus \in {"open", "failed"}
  <2>1. \A i \in 1..k : i * ChunkSize < newLen
    <3> TAKE i \in 1..k
    <3>1. i * ChunkSize \in Nat /\ i * ChunkSize < len
      BY <1>1
    <3> QED
      BY <1>2, <3>1
  <2> QED
    BY <1>1, <1>2, <2>1 DEF IsCut
<1>3. ASSUME NEW chunk \in SealedChunk, newChunks = Append(chunks, chunk)
      PROVE  /\ newChunks \in Seq(SealedChunk) /\ newChunks # <<>>
             /\ Len(newChunks) = k + 1 /\ newChunks[k + 1] = chunk
             /\ \A i \in 1..k : newChunks[i] = chunks[i]
  BY <1>1, <1>3
<1>4. \A i \in 1..(k + 1) : i \in 1..k \/ i = k + 1
  BY <1>1
<1>5. CASE /\ (k + 1) * ChunkSize < len /\ newLen = len
           /\ newChunks = Append(chunks, FullChunk(k)) /\ newStatus \in {"open", "failed"}
  <2>1. FullChunk(k) \in SealedChunk
    BY <1>1, ChunkTypes
  <2>2. /\ newChunks \in Seq(SealedChunk)
        /\ Len(newChunks) = k + 1 /\ newChunks[k + 1] = FullChunk(k)
        /\ \A i \in 1..k : newChunks[i] = chunks[i]
    BY <1>3, <1>5, <2>1
  <2>3. \A i \in 1..Len(newChunks) :
            newChunks[i] = FullChunk(i - 1) /\ i * ChunkSize < newLen
    <3> TAKE i \in 1..Len(newChunks)
    <3>1. CASE i \in 1..k
      BY <1>1, <1>5, <2>2, <3>1
    <3>2. CASE i = k + 1
      <4>1. i - 1 = k
        BY <1>1, <3>2
      <4> QED
        BY <1>5, <2>2, <3>2, <4>1
    <3> QED
      BY <1>4, <2>2, <3>1, <3>2
  <2> QED
    BY <1>5, <2>2, <2>3 DEF IsCut
<1>6. CASE /\ EndsInChunk(k, len) /\ newLen = len
           /\ newChunks = Append(chunks, FinalChunk(k, len))
           /\ newStatus \in {"closed", "failed"}
  <2>1. FinalChunk(k, len) \in SealedChunk
    BY <1>1, <1>6, ChunkTypes
  <2>2. /\ newChunks \in Seq(SealedChunk) /\ newChunks # <<>>
        /\ Len(newChunks) = k + 1 /\ newChunks[k + 1] = FinalChunk(k, len)
        /\ \A i \in 1..k : newChunks[i] = chunks[i]
    BY <1>3, <1>6, <2>1
  <2>3. (k + 1) - 1 = k
    BY <1>1
  <2>4. ASSUME NEW i \in 1..Len(newChunks)
        PROVE  \/ newChunks[i] = FullChunk(i - 1) /\ i * ChunkSize < newLen
               \/ /\ i = Len(newChunks) /\ newStatus # "open"
                  /\ EndsInChunk(i - 1, newLen)
                  /\ newChunks[i] = FinalChunk(i - 1, newLen)
    <3>1. CASE i \in 1..k
      BY <1>1, <1>6, <2>2, <3>1
    <3>2. CASE i = k + 1
      BY <1>6, <2>2, <2>3, <3>2
    <3> QED
      BY <1>4, <2>2, <3>1, <3>2
  <2>5. newChunks[Len(newChunks)] = FinalChunk(Len(newChunks) - 1, newLen)
    BY <1>6, <2>2, <2>3
  <2> QED
    BY <2>2, <2>4, <2>5 DEF IsCut
<1> QED
  BY <1>2, <1>5, <1>6 DEF CutStep

(* The chunks of a cut are numbered by their place, and none is too long.  *)
LEMMA CutNumbers ==
    ASSUME NEW chunks, NEW len \in Nat, NEW status, IsCut(chunks, len, status),
           NEW i \in 1..Len(chunks)
    PROVE  chunks[i].nonce.ctr = i - 1 /\ Len(chunks[i].data) <= ChunkSize
<1>1. i - 1 \in Nat
  BY DEF IsCut
<1>2. CASE chunks[i] = FullChunk(i - 1)
  <2>1. /\ Len(FullChunk(i - 1).data) <= ChunkSize
        /\ FullChunk(i - 1).nonce = [ctr |-> i - 1, last |-> FALSE]
    BY <1>1, ChunkTypes
  <2> QED
    BY <1>2, <2>1
<1>3. CASE EndsInChunk(i - 1, len) /\ chunks[i] = FinalChunk(i - 1, len)
  <2>1. /\ Len(FinalChunk(i - 1, len).data) <= ChunkSize
        /\ FinalChunk(i - 1, len).nonce = [ctr |-> i - 1, last |-> TRUE]
    BY <1>1, <1>3, ChunkTypes
  <2> QED
    BY <1>3, <2>1
<1> QED
  BY <1>2, <1>3 DEF IsCut

(* The cut of a whole message is the chunks of the format.                 *)
LEMMA ClosedCut ==
    ASSUME NEW chunks, NEW len \in Nat, IsCut(chunks, len, "closed")
    PROVE  chunks = ChunksOf(len)
<1> DEFINE n == Len(chunks)
<1>1. /\ chunks \in Seq(SealedChunk) /\ n \in Nat \ {0}
      /\ chunks[n] = FinalChunk(n - 1, len)
      /\ \A i \in 1..n : \/ chunks[i] = FullChunk(i - 1) /\ i * ChunkSize < len
                         \/ i = n /\ EndsInChunk(i - 1, len)
  BY DEF IsCut
<1>2. EndsInChunk(n - 1, len)
  <2>1. FullChunk(n - 1).nonce.last = FALSE /\ FinalChunk(n - 1, len).nonce.last = TRUE
    BY DEF FullChunk, FinalChunk, Seal, nonceForChunk, setLastChunkFlag
  <2> QED
    BY <1>1, <2>1
<1>3. ChunkCount(len) = n
  BY <1>1, <1>2, CountOfLast
<1>4. \A i \in 1..n : chunks[i] = IF i < n THEN FullChunk(i - 1) ELSE FinalChunk(i - 1, len)
  <2> TAKE i \in 1..n
  <2>1. CASE i < n
    BY <1>1, <2>1
  <2>2. CASE i = n
    BY <1>1, <2>2
  <2> QED
    BY <1>1, <2>1, <2>2
<1>5. chunks = [i \in 1..n |-> chunks[i]]
  BY <1>1
<1> HIDE DEF n
<1> QED
  BY <1>3, <1>4, <1>5 DEF ChunksOf
=============================================================================
