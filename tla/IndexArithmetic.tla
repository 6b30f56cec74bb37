-------------------------- MODULE IndexArithmetic ---------------------------
(***************************************************************************)
(* Lemmas on the wrapping index arithmetic of the ring buffers of          *)
(* crates/anvil: indices are counters modulo W, slots are indices modulo   *)
(* the capacity C, which divides W.  The values a ring carries are         *)
(* numbered in sending order: a run of them is a sequence of consecutive   *)
(* numbers.                                                                *)
(***************************************************************************)
EXTENDS Integers, Sequences, SequenceTheorems, WellFoundedInduction, TLAPS

\* Division with remainder.
LEMMA DivMod ==
  \A n \in Nat \ {0}, i \in Int :
    i % n \in 0..(n - 1) /\ i \div n \in Int /\ i = n * (i \div n) + (i % n)
OBVIOUS

\* A set of numbers that is not empty has a least element.
LEMMA LeastElement ==
  ASSUME NEW S, S \subseteq Nat, S # {}
  PROVE  \E n \in S : \A m \in S : n <= m
<1> DEFINE R == OpToRel(<, Nat)
<1>1. IsWellFoundedOn(R, Nat)
  BY NatLessThanWellFounded, Zenon
<1>2. PICK x \in S : \A y \in S : ~ (<<y, x>> \in R)
  <2> HIDE DEF R
  <2> QED BY <1>1, WFMin
<1>3. \A y \in S : ~(y < x)
  BY <1>2 DEF OpToRel
<1> QED BY <1>3

\* Induction, with the property as the set of the numbers that have it.
LEMMA SetInduction ==
  ASSUME NEW S, 0 \in S, \A n \in Nat : n \in S => n + 1 \in S
  PROVE  \A n \in Nat : n \in S
<1> SUFFICES ASSUME Nat \ S # {} PROVE FALSE
  OBVIOUS
<1>1. PICK n \in Nat \ S : \A m \in Nat \ S : n <= m
  BY LeastElement
<1>2. n # 0 /\ n - 1 \in Nat /\ n - 1 \in S
  BY <1>1
<1> QED BY <1>1, <1>2

\* A multiple of n closer than n to zero is zero.
LEMMA MultipleBound ==
  ASSUME NEW n \in Nat \ {0}, NEW q \in Int, -n < n * q, n * q < n
  PROVE  q = 0
<1>1. CASE q >= 1
  <2>1. n * (q - 1) >= 0
    BY <1>1
  <2> QED BY <2>1, <1>1
<1>2. CASE q <= -1
  <2>1. n * (-1 - q) >= 0
    BY <1>2
  <2> QED BY <2>1, <1>2
<1> QED BY <1>1, <1>2

\* Quotient and remainder are unique.
LEMMA DivModUnique ==
  ASSUME NEW n \in Nat \ {0}, NEW q \in Int, NEW p \in Int,
         NEW r \in 0..(n - 1), NEW m \in 0..(n - 1), n * q + r = n * p + m
  PROVE  q = p /\ r = m
<1>1. n * (q - p) = m - r
  OBVIOUS
<1>2. q - p = 0
  <2>1. -n < n * (q - p) /\ n * (q - p) < n
    BY <1>1
  <2> QED BY <2>1, MultipleBound
<1> QED BY <1>1, <1>2

\* What the remainder of a sum in divided form is.
LEMMA ModUnique ==
  ASSUME NEW n \in Nat \ {0}, NEW q \in Int, NEW r \in 0..(n - 1)
  PROVE  (n * q + r) % n = r
<1> DEFINE x == n * q + r
<1>1. x \in Int
  OBVIOUS
<1>2. x % n \in 0..(n - 1) /\ x \div n \in Int /\ x = n * (x \div n) + (x % n)
  BY <1>1, DivMod
<1>3. n * q + r = n * (x \div n) + (x % n)
  BY <1>2
<1> HIDE DEF x
<1>4. r = x % n
  BY <1>2, <1>3, DivModUnique
<1> QED BY <1>4 DEF x

\* A number below the modulus is its own remainder.
LEMMA SmallMod ==
  ASSUME NEW n \in Nat \ {0}, NEW r \in 0..(n - 1)
  PROVE  r % n = r
<1>1. n * 0 + r = r /\ 0 \in Int
  OBVIOUS
<1>2. (n * 0 + r) % n = r
  BY <1>1, ModUnique
<1> QED BY <1>1, <1>2

\* Adding a multiple of n does not change the remainder.
LEMMA ModShift ==
  ASSUME NEW n \in Nat \ {0}, NEW q \in Int, NEW x \in Int
  PROVE  (x + n * q) % n = x % n
<1>1. x % n \in 0..(n - 1) /\ x \div n \in Int /\ x = n * (x \div n) + (x % n)
  BY DivMod
<1>2. PICK m \in 0..(n - 1), p \in Int : x % n = m /\ x = n * p + m
  BY <1>1
<1>3. x + n * q = n * (p + q) + m
  BY <1>2
<1>4. (n * (p + q) + m) % n = m
  BY ModUnique, p + q \in Int
<1> QED BY <1>2, <1>3, <1>4

\* Wrapping subtraction of two indices is the distance of their counters.
LEMMA WrappedDistance ==
  ASSUME NEW W \in Nat \ {0}, NEW a \in Int, NEW b \in Int, b <= a, a - b < W
  PROVE  ((a % W) - (b % W)) % W = a - b
<1>1. PICK p \in Int, m \in 0..(W - 1) : a % W = m /\ a = W * p + m
  BY DivMod
<1>2. PICK q \in Int, r \in 0..(W - 1) : b % W = r /\ b = W * q + r
  BY DivMod
<1>3. m - r = (a - b) + W * (q - p)
  BY <1>1, <1>2
<1>4. ((a - b) + W * (q - p)) % W = (a - b) % W
  BY ModShift, q - p \in Int, a - b \in Int
<1>5. (a - b) % W = a - b
  <2>1. (W * 0 + (a - b)) % W = a - b
    BY ModUnique, 0 \in Int, a - b \in 0..(W - 1)
  <2> QED BY <2>1
<1> QED BY <1>1, <1>2, <1>3, <1>4, <1>5

\* Wrapping addition to an index is the index of the sum.
LEMMA WrappedSum ==
  ASSUME NEW W \in Nat \ {0}, NEW a \in Int, NEW k \in Int
  PROVE  ((a % W) + k) % W = (a + k) % W
<1>1. PICK p \in Int, m \in 0..(W - 1) : a % W = m /\ a = W * p + m
  BY DivMod
<1>2. m + k = (a + k) + W * (-p)
  BY <1>1
<1>3. ((a + k) + W * (-p)) % W = (a + k) % W
  BY ModShift, -p \in Int, a + k \in Int
<1> QED BY <1>1, <1>2, <1>3

\* The slot of an index is the slot of its counter when C divides W.
LEMMA WrappedSlot ==
  ASSUME NEW C \in Nat \ {0}, NEW W \in Nat \ {0}, W % C = 0, NEW a \in Int
  PROVE  (a % W) % C = a % C
<1>1. PICK p \in Int, m \in 0..(W - 1) : a % W = m /\ a = W * p + m
  <2>1. a % W \in 0..(W - 1) /\ a \div W \in Int /\ a = W * (a \div W) + (a % W)
    BY DivMod
  <2> QED BY <2>1
<1>2. PICK k \in Int : W = C * k
  BY DivMod
<1>3. PICK j \in Int : j = k * (-p)
  OBVIOUS
<1>4. W * (-p) = C * j
  BY <1>2, <1>3
<1>5. m = a + C * j
  BY <1>1, <1>4
<1>6. (a + C * j) % C = a % C
  BY ModShift
<1> QED BY <1>1, <1>5, <1>6

\* Counters less than C apart have different slots.
LEMMA DistinctSlots ==
  ASSUME NEW C \in Nat \ {0}, NEW i \in Int, NEW j \in Int, i < j, j < i + C
  PROVE  i % C # j % C
<1> SUFFICES ASSUME i % C = j % C PROVE FALSE
  OBVIOUS
<1>1. PICK p \in Int, m \in 0..(C - 1) : i % C = m /\ i = C * p + m
  BY DivMod
<1>2. PICK q \in Int : j = C * q + m
  BY DivMod, <1>1
<1>3. C * (q - p) = j - i
  BY <1>1, <1>2
<1>4. q - p = 0
  <2>1. -C < C * (q - p) /\ C * (q - p) < C
    BY <1>3
  <2> QED BY <2>1, MultipleBound
<1> QED BY <1>3, <1>4

-----------------------------------------------------------------------------
(* Runs of consecutive numbers *)

\* The n numbers from a on.
Counting(a, n) == [i \in 1..n |-> a + i - 1]

\* A run is a sequence of numbers.
LEMMA CountingType ==
  ASSUME NEW a \in Int, NEW n \in Nat
  PROVE  /\ Counting(a, n) \in Seq(Int) /\ Len(Counting(a, n)) = n
         /\ DOMAIN Counting(a, n) = 1..n
         /\ \A i \in 1..n : Counting(a, n)[i] = a + i - 1
BY DEF Counting

\* A sequence is known by its length and its elements.
LEMMA SameElements ==
  ASSUME NEW s \in Seq(Int), NEW a \in Int, NEW n \in Nat,
         Len(s) = n, \A i \in 1..n : s[i] = a + i - 1
  PROVE  s = Counting(a, n)
BY DEF Counting

\* Sending the next number extends the run on the right.
LEMMA CountingAppend ==
  ASSUME NEW a \in Int, NEW n \in Nat
  PROVE  Append(Counting(a, n), a + n) = Counting(a, n + 1)
<1> DEFINE c == Counting(a, n)
           s == Append(c, a + n)
<1>0. c \in Seq(Int) /\ Len(c) = n /\ \A i \in 1..n : c[i] = a + i - 1
  BY CountingType
<1> HIDE DEF c
<1>1. s \in Seq(Int) /\ Len(s) = n + 1 /\ s[n + 1] = a + n /\ \A i \in 1..n : s[i] = c[i]
  BY <1>0, AppendProperties
<1>2. \A i \in 1..(n + 1) : s[i] = a + i - 1
  <2> TAKE i \in 1..(n + 1)
  <2>1. CASE i \in 1..n
    BY <1>0, <1>1, <2>1
  <2>2. CASE i = n + 1
    <3>1. a + n = a + i - 1
      BY <2>2
    <3> QED BY <1>1, <2>2, <3>1
  <2>3. i \in 1..n \/ i = n + 1
    OBVIOUS
  <2> QED BY <2>1, <2>2, <2>3
<1> HIDE DEF s
<1>3. s = Counting(a, n + 1)
  BY <1>1, <1>2, SameElements
<1> QED BY <1>3 DEF s, c

\* The first m numbers of a run, and the rest of it.
LEMMA CountingSplit ==
  ASSUME NEW a \in Int, NEW n \in Nat, NEW m \in 0..n
  PROVE  /\ SubSeq(Counting(a, n), 1, m) = Counting(a, m)
         /\ SubSeq(Counting(a, n), m + 1, n) = Counting(a + m, n - m)
<1> DEFINE c == Counting(a, n)
           s == SubSeq(c, 1, m)
           t == SubSeq(c, m + 1, n)
<1>1. c \in Seq(Int) /\ Len(c) = n /\ \A i \in 1..n : c[i] = a + i - 1
  BY CountingType
<1> HIDE DEF c
<1>2. s \in Seq(Int) /\ Len(s) = m /\ \A i \in 1..m : s[i] = a + i - 1
  BY <1>1
<1>3. t \in Seq(Int) /\ Len(t) = n - m /\ \A i \in 1..(n - m) : t[i] = (a + m) + i - 1
  BY <1>1
<1> HIDE DEF s, t
<1>4. s = Counting(a, m)
  BY <1>2, SameElements
<1>5. t = Counting(a + m, n - m)
  BY <1>3, SameElements
<1> QED BY <1>4, <1>5 DEF s, t, c

\* Two adjacent runs are one run.
LEMMA CountingConcat ==
  ASSUME NEW a \in Int, NEW n \in Nat, NEW m \in Nat
  PROVE  Counting(a, n) \o Counting(a + n, m) = Counting(a, n + m)
<1> DEFINE c == Counting(a, n)
           d == Counting(a + n, m)
           s == c \o d
<1>1. c \in Seq(Int) /\ Len(c) = n /\ \A i \in 1..n : c[i] = a + i - 1
  BY CountingType
<1>2. d \in Seq(Int) /\ Len(d) = m /\ \A i \in 1..m : d[i] = (a + n) + i - 1
  BY CountingType
<1> HIDE DEF c, d
<1>3. /\ s \in Seq(Int) /\ Len(s) = n + m
      /\ \A i \in 1..(n + m) : s[i] = IF i <= n THEN c[i] ELSE d[i - n]
  BY <1>1, <1>2, ConcatProperties
<1>4. \A i \in 1..(n + m) : s[i] = a + i - 1
  BY <1>1, <1>2, <1>3
<1> HIDE DEF s
<1>5. s = Counting(a, n + m)
  BY <1>3, <1>4, SameElements
<1> QED BY <1>5 DEF s, c, d
=============================================================================
