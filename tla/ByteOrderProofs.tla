--------------------------- MODULE ByteOrderProofs ---------------------------
(***************************************************************************)
(* Theorems about ByteOrder: every number survives its way through memory  *)
(* from any build to any other, for every width, kind and even byte base.  *)
(*                                                                         *)
(* What the recursive functions Powers, Number and bswap_slow compute is   *)
(* shown by induction on the set of the numbers for which it holds: such a *)
(* function exists as far as any number (Recurrence), and is then known    *)
(* step by step.                                                           *)
(***************************************************************************)
EXTENDS PortableNumbers, SequenceTheorems, WellFoundedInduction, TLAPS

-----------------------------------------------------------------------------
(* Induction and division *)

LEMMA Induction ==
  ASSUME NEW S, 0 \in S, \A n \in Nat : n \in S => n + 1 \in S
  PROVE  \A n \in Nat : n \in S
<1> DEFINE T == {n \in Nat : n \notin S}
           R == OpToRel(<, Nat)
<1>1. SUFFICES ASSUME T # {} PROVE FALSE
  OBVIOUS
<1>2. IsWellFoundedOn(R, Nat)
  BY NatLessThanWellFounded
<1>3. PICK x \in T : \A y \in T : <<y, x>> \notin R
  <2> HIDE DEF R
  <2> QED
    BY <1>1, <1>2, WFMin
<1>4. \A y \in T : ~(y < x)
  BY <1>3 DEF OpToRel
<1>5. x # 0 /\ x - 1 \in Nat /\ (x - 1) + 1 = x /\ x - 1 < x
  OBVIOUS
<1>6. x - 1 \notin T
  BY <1>4, <1>5
<1> QED
  BY <1>5, <1>6

\* Quotient and remainder are the only ones.
LEMMA Division ==
  ASSUME NEW n \in Nat \ {0}, NEW q \in Int, NEW r \in 0..(n - 1)
  PROVE  (q * n + r) \div n = q /\ (q * n + r) % n = r
BY SMT

LEMMA DivisionOf ==
  ASSUME NEW n \in Nat \ {0}, NEW v \in Int
  PROVE  /\ v \div n \in Int /\ v % n \in 0..(n - 1) /\ v = (v \div n) * n + (v % n)
         /\ v >= 0 => v \div n \in Nat
<1>1. v \div n \in Int /\ v % n \in 0..(n - 1) /\ v = (v \div n) * n + (v % n)
  BY SMT
<1>2. ASSUME v >= 0 PROVE v \div n \in Nat
  BY SMT, <1>2
<1> QED
  BY <1>1, <1>2

\* A product of naturals, and what the provers need to know of products.
LEMMA Products ==
  ASSUME NEW a \in Nat, NEW b \in Nat, NEW c \in Int
  PROVE  /\ a * b \in Nat /\ a * b = b * a /\ (a # 0 /\ b # 0 => a * b # 0)
         /\ a * (b * c) = (a * b) * c /\ a * (b + c) = a * b + a * c /\ (b + c) * a = b * a + c * a
BY SMT

\* Dividing twice is dividing by the product.
LEMMA Twice ==
  ASSUME NEW m \in Nat \ {0}, NEW n \in Nat \ {0}, NEW v \in Int
  PROVE  /\ (v \div m) \div n = v \div (m * n)
         /\ v % (m * n) = ((v \div m) % n) * m + (v % m)
<1> DEFINE q == v \div m
           r == v % m
           p == q \div n
           s == q % n
           k == m * n
<1>0. SUFFICES v \div k = p /\ v % k = s * m + r
  OBVIOUS
<1>1. q \in Int /\ r \in 0..(m - 1) /\ v = q * m + r
  BY DivisionOf
<1> HIDE DEF q, r
<1>2. p \in Int /\ s \in 0..(n - 1) /\ q = p * n + s
  BY <1>1, DivisionOf
<1> HIDE DEF p, s
<1>3. k \in Nat \ {0}
  BY Products
<1>4. s * m + r \in 0..(k - 1)
  <2>1. s * m >= 0 /\ s * m <= (n - 1) * m
    BY <1>2, SMT
  <2>2. (n - 1) * m = k - m
    BY SMT
  <2> HIDE DEF k
  <2>3. s * m \in Int
    BY <1>2
  <2> QED
    BY <1>1, <1>3, <2>1, <2>2, <2>3
<1>5. v = p * k + (s * m + r)
  <2>1. (p * n + s) * m = p * (m * n) + s * m
    BY <1>2, SMT
  <2> QED
    BY <1>1, <1>2, <2>1
<1> HIDE DEF k
<1>6. v \div k = p /\ v % k = s * m + r
  BY <1>2, <1>3, <1>4, <1>5, Division
<1> QED
  BY <1>0, <1>6

-----------------------------------------------------------------------------
(* Functions defined step by step *)

\* f starts with a and adds the next of the numbers c to m times the last one, n times.
Solves(f, a, m, c, n) ==
    f \in [0..n -> Int] /\ f[0] = a /\ \A i \in 1..n : f[i] = c[i] + m * f[i - 1]

LEMMA Recurrence ==
  ASSUME NEW a \in Int, NEW m \in Int, NEW c, \A i \in Nat : c[i] \in Int
  PROVE  \A n \in Nat : \E f : Solves(f, a, m, c, n)
<1> DEFINE S == {n \in Nat : \E f : Solves(f, a, m, c, n)}
<1>1. 0 \in S
  <2> DEFINE g == [i \in 0..0 |-> a]
  <2>1. Solves(g, a, m, c, 0)
    BY DEF Solves
  <2> QED
    BY <2>1
<1>2. ASSUME NEW n \in Nat, n \in S PROVE n + 1 \in S
  <2>1. PICK f : Solves(f, a, m, c, n)
    BY <1>2
  <2> DEFINE e == c[n + 1] + m * f[n]
             g == [i \in 0..(n + 1) |-> IF i = n + 1 THEN e ELSE f[i]]
  <2>2. e \in Int
    <3>1. f[n] \in Int /\ c[n + 1] \in Int
      BY <2>1 DEF Solves
    <3>2. m * f[n] \in Int
      BY <3>1
    <3> QED
      BY <3>1, <3>2
  <2>3. g \in [0..(n + 1) -> Int] /\ g[0] = a
    <3> HIDE DEF e
    <3> QED
      BY <2>1, <2>2 DEF Solves
  <2>4. ASSUME NEW i \in 1..(n + 1) PROVE g[i] = c[i] + m * g[i - 1]
    <3>1. CASE i = n + 1
      <4>1. i - 1 = n /\ g[i - 1] = f[n] /\ g[i] = e
        BY <3>1
      <4> HIDE DEF g
      <4> QED
        BY <3>1, <4>1
    <3>2. CASE i # n + 1
      <4>1. i \in 1..n /\ g[i] = f[i] /\ g[i - 1] = f[i - 1]
        BY <3>2
      <4> HIDE DEF g, e
      <4> QED
        BY <2>1, <4>1 DEF Solves
    <3> QED
      BY <3>1, <3>2
  <2>5. Solves(g, a, m, c, n + 1)
    <3> HIDE DEF g
    <3> QED
      BY <2>3, <2>4 DEF Solves
  <2> QED
    BY <2>5
<1>3. \A n \in Nat : n \in S
  <2> HIDE DEF S
  <2> QED
    BY <1>1, <1>2, Induction
<1> QED
  BY <1>3

\* Two solutions agree as far as both go.
LEMMA OneSolution ==
  ASSUME NEW a \in Int, NEW m \in Int, NEW c, NEW k \in Nat, NEW n \in Nat,
         NEW f, Solves(f, a, m, c, k), NEW g, Solves(g, a, m, c, n),
         NEW j \in Nat, j <= k, j <= n
  PROVE  f[j] = g[j]
<1> DEFINE S == {i \in Nat : i <= k /\ i <= n => f[i] = g[i]}
<1>1. 0 \in S
  BY DEF Solves
<1>2. ASSUME NEW i \in Nat, i \in S PROVE i + 1 \in S
  <2> SUFFICES ASSUME i + 1 <= k, i + 1 <= n PROVE f[i + 1] = g[i + 1]
    OBVIOUS
  <2>1. i + 1 \in 1..k /\ i + 1 \in 1..n /\ (i + 1) - 1 = i /\ f[i] = g[i]
    BY <1>2
  <2> QED
    BY <2>1 DEF Solves
<1>3. \A i \in Nat : i \in S
  <2> HIDE DEF S
  <2> QED
    BY <1>1, <1>2, Induction
<1> QED
  BY <1>3

\* A function satisfies the recursion of Powers: the values the finite solutions agree on.
LEMMA SomePowers ==
  \E p : p = [n \in Nat |-> IF n = 0 THEN 1 ELSE ByteBase * p[n - 1]]
<1> DEFINE zero == [i \in Nat |-> 0]
           Upto(n) == CHOOSE f : Solves(f, 1, ByteBase, zero, n)
           p == [n \in Nat |-> Upto(n)[n]]
           e(n) == IF n = 0 THEN 1 ELSE ByteBase * p[n - 1]
<1>1. ByteBase \in Int /\ 1 \in Int /\ \A i \in Nat : zero[i] = 0 /\ zero[i] \in Int
  BY ByteOrderAssumption
<1> HIDE DEF zero
<1>2. \A n \in Nat : Solves(Upto(n), 1, ByteBase, zero, n)
  <2>1. \A n \in Nat : \E f : Solves(f, 1, ByteBase, zero, n)
    BY <1>1, Recurrence
  <2> QED
    BY <2>1, Zenon
<1> HIDE DEF Upto
<1>3. \A n \in Nat : p[n] = e(n)
  <2> SUFFICES ASSUME NEW n \in Nat PROVE p[n] = e(n)
    BY Zenon
  <2>1. CASE n = 0
    <3>1. Upto(0)[0] = 1
      BY <1>2 DEF Solves
    <3> QED
      BY <2>1, <3>1
  <2>2. CASE n # 0
    <3>1. n - 1 \in Nat /\ n - 1 <= n /\ n - 1 <= n - 1 /\ n \in 1..n /\ n - 1 \in 0..n
      BY <2>2
    <3>2. Upto(n)[n - 1] = Upto(n - 1)[n - 1]
      <4>1. Solves(Upto(n), 1, ByteBase, zero, n) /\ Solves(Upto(n - 1), 1, ByteBase, zero, n - 1)
        BY <1>2, <3>1
      <4> QED
        BY <1>1, <3>1, <4>1, OneSolution
    <3>3. Upto(n)[n] = zero[n] + ByteBase * Upto(n)[n - 1] /\ Upto(n)[n - 1] \in Int
      BY <1>2, <3>1 DEF Solves
    <3>4. ByteBase * Upto(n)[n - 1] \in Int
      BY <1>1, <3>3
    <3>5. Upto(n)[n] = ByteBase * Upto(n)[n - 1]
      BY <1>1, <3>3, <3>4
    <3>6. p[n] = Upto(n)[n] /\ p[n - 1] = Upto(n - 1)[n - 1]
      BY <3>1
    <3> QED
      BY <2>2, <3>2, <3>5, <3>6
  <2> QED
    BY <2>1, <2>2
<1>4. p = [n \in Nat |-> p[n]]
  OBVIOUS
<1> HIDE DEF p
<1> QED
  BY <1>3, <1>4

LEMMA PowersAre ==
  /\ Powers[0] = 1
  /\ \A n \in Nat : Powers[n + 1] = ByteBase * Powers[n]
<1> DEFINE e(n) == IF n = 0 THEN 1 ELSE ByteBase * Powers[n - 1]
<1>1. Powers = [n \in Nat |-> e(n)]
  BY SomePowers, Zenon DEF Powers
<1> HIDE DEF e
<1>2. \A n \in Nat : Powers[n] = e(n)
  BY <1>1
<1>3. \A n \in Nat : n + 1 \in Nat /\ n + 1 # 0 /\ (n + 1) - 1 = n
  OBVIOUS
<1> QED
  BY <1>2, <1>3 DEF e

LEMMA PowerStep ==
  /\ Power(0) = 1
  /\ \A n \in Nat : Power(n + 1) = ByteBase * Power(n)
  /\ \A n \in Nat : Power(n) \in Nat \ {0}
<1>1. Power(0) = 1
  BY PowersAre DEF Power
<1>2. \A n \in Nat : Power(n + 1) = ByteBase * Power(n)
  BY PowersAre DEF Power
<1>3. \A n \in Nat : Power(n) \in Nat \ {0}
  <2> DEFINE S == {n \in Nat : Power(n) \in Nat \ {0}}
  <2>1. 0 \in S
    BY <1>1
  <2>2. ASSUME NEW n \in Nat, n \in S PROVE n + 1 \in S
    <3>1. Power(n) \in Nat \ {0} /\ ByteBase \in Nat \ {0}
      BY <2>2, ByteOrderAssumption
    <3>2. ByteBase * Power(n) \in Nat \ {0}
      BY <3>1, Products
    <3> QED
      BY <1>2, <3>2
  <2>3. \A n \in Nat : n \in S
    <3> HIDE DEF S
    <3> QED
      BY <2>1, <2>2, Induction
  <2> QED
    BY <2>3
<1> QED
  BY <1>1, <1>2, <1>3

LEMMA PowerSum ==
  ASSUME NEW m \in Nat
  PROVE  \A n \in Nat : Power(m + n) = Power(m) * Power(n)
<1> DEFINE S == {n \in Nat : Power(m + n) = Power(m) * Power(n)}
<1>1. 0 \in S
  <2>1. m + 0 = m /\ Power(m) * 1 = Power(m)
    BY PowerStep
  <2> QED
    BY <2>1, PowerStep
<1>2. ASSUME NEW n \in Nat, n \in S PROVE n + 1 \in S
  <2>1. m + n \in Nat /\ m + (n + 1) = (m + n) + 1
    OBVIOUS
  <2>2. Power(m + (n + 1)) = ByteBase * (Power(m) * Power(n)) /\ Power(n + 1) = ByteBase * Power(n)
    BY <1>2, <2>1, PowerStep
  <2>3. ByteBase * (Power(m) * Power(n)) = Power(m) * (ByteBase * Power(n))
    <3>1. ByteBase \in Nat /\ Power(m) \in Nat /\ Power(n) \in Nat
      BY ByteOrderAssumption, PowerStep
    <3> DEFINE x == Power(m)
               y == Power(n)
    <3> HIDE DEF x, y
    <3>2. \A b, c, d \in Nat : b * (c * d) = c * (b * d)
      BY SMT
    <3> QED
      BY <3>1, <3>2
  <2> QED
    BY <2>2, <2>3
<1>3. \A n \in Nat : n \in S
  <2> HIDE DEF S
  <2> QED
    BY <1>1, <1>2, Induction
<1> QED
  BY <1>3

-----------------------------------------------------------------------------
(* A number and its digits *)

\* The numbers of w bytes, and the bytes of one.
Words(w) == 0..(Power(w) - 1)
ByteSeqs(w) == [1..w -> 0..(ByteBase - 1)]

LEMMA ByteSeqLen == ASSUME NEW w \in Nat, NEW d \in ByteSeqs(w) PROVE Len(d) = w /\ d \in Seq(Int)
<1>1. d \in [1..w -> Int]
  BY ByteOrderAssumption DEF ByteSeqs
<1> QED
  BY <1>1

\* Number() adds the digits up from the last to the first.
Horner(f, d, w) == f[w + 1] = 0 /\ \A i \in 1..w : f[i] = d[i] + ByteBase * f[i + 1]

LEMMA NumberIs ==
  ASSUME NEW w \in Nat, NEW d \in ByteSeqs(w)
  PROVE  \E f : Number(d) = f[1] /\ Horner(f, d, w)
<1> DEFINE Step(f) == [i \in Nat |-> IF i > Len(d) THEN 0 ELSE d[i] + ByteBase * f[i + 1]]
           from == CHOOSE f : f = Step(f)
           c == [i \in Nat |-> IF i \in 1..w THEN d[w + 1 - i] ELSE 0]
<1>1. Len(d) = w
  BY ByteSeqLen
<1>2. PICK h : Solves(h, 0, ByteBase, c, w)
  <2>1. \A i \in Nat : c[i] \in Int
    <3> SUFFICES ASSUME NEW i \in Nat PROVE c[i] \in Int
      OBVIOUS
    <3>1. \A j \in 1..w : d[j] \in Int
      BY ByteOrderAssumption DEF ByteSeqs
    <3>2. i \in 1..w => w + 1 - i \in 1..w
      OBVIOUS
    <3> QED
      BY <3>1, <3>2
  <2> HIDE DEF c
  <2>2. 0 \in Int /\ ByteBase \in Int
    BY ByteOrderAssumption
  <2> QED
    BY <2>1, <2>2, Recurrence
<1> DEFINE g == [i \in Nat |-> IF i > w THEN 0 ELSE IF i = 0 THEN d[0] + ByteBase * h[w] ELSE h[w + 1 - i]]
<1>3. g = Step(g)
  <2>1. ASSUME NEW i \in Nat PROVE g[i] = IF i > w THEN 0 ELSE d[i] + ByteBase * g[i + 1]
    <3>1. i + 1 \in Nat /\ h[0] = 0
      BY <1>2 DEF Solves
    <3>2. CASE i > w
      BY <3>2
    <3>3. CASE i = 0
      <4>1. g[i + 1] = h[w]
        <5>1. CASE w = 0
          BY <3>1, <3>3, <5>1
        <5>2. CASE w # 0
          BY <3>1, <3>3, <5>2
        <5> QED
          BY <5>1, <5>2
      <4>2. g[i] = d[0] + ByteBase * h[w] /\ ~(i > w)
        BY <3>3
      <4> HIDE DEF g
      <4> QED
        BY <3>3, <4>1, <4>2
    <3>4. CASE i \in 1..w
      <4>1. w + 1 - i \in 1..w /\ w + 1 - i \in Nat /\ (w + 1 - i) - 1 = w - i /\ w + 1 - (w + 1 - i) = i
        BY <3>4
      <4>2. h[w + 1 - i] = c[w + 1 - i] + ByteBase * h[(w + 1 - i) - 1]
        <5> HIDE DEF c
        <5> QED
          BY <1>2, <4>1 DEF Solves
      <4>3. c[w + 1 - i] = d[i]
        BY <4>1
      <4>4. g[i + 1] = h[w - i]
        <5>1. CASE i = w
          <6>1. i + 1 > w /\ w - i = 0
            BY <5>1
          <6> QED
            BY <3>1, <6>1
        <5>2. CASE i # w
          <6>1. ~(i + 1 > w) /\ i + 1 # 0 /\ w + 1 - (i + 1) = w - i
            BY <3>4, <5>2
          <6> QED
            BY <3>1, <6>1
        <5> QED
          BY <5>1, <5>2
      <4>5. g[i] = h[w + 1 - i] /\ ~(i > w)
        BY <3>4
      <4> HIDE DEF g, c
      <4> QED
        BY <4>1, <4>2, <4>3, <4>4, <4>5
    <3> QED
      BY <3>2, <3>3, <3>4
  <2>2. g = [i \in Nat |-> g[i]]
    OBVIOUS
  <2> HIDE DEF g
  <2> QED
    BY <1>1, <2>1, <2>2
<1>4. from = Step(from)
  <2> HIDE DEF g
  <2> QED
    BY <1>3
<1>5. Number(d) = from[1]
  BY DEF Number
<1>6. Horner(from, d, w)
  <2> HIDE DEF from
  <2> DEFINE e(i) == IF i > Len(d) THEN 0 ELSE d[i] + ByteBase * from[i + 1]
  <2>1. from = [i \in Nat |-> e(i)]
    BY <1>4
  <2> HIDE DEF e
  <2>2. \A i \in Nat : from[i] = e(i)
    BY <2>1
  <2>3. w + 1 \in Nat /\ w + 1 > w /\ \A i \in 1..w : i \in Nat /\ ~(i > w)
    OBVIOUS
  <2> QED
    BY <1>1, <2>2, <2>3 DEF e, Horner
<1> QED
  BY <1>5, <1>6

LEMMA DigitsAre ==
  ASSUME NEW w \in Nat, NEW v \in Int
  PROVE  /\ Digits(v, w) \in ByteSeqs(w)
         /\ \A i \in 1..w : Digits(v, w)[i] = (v \div Power(i - 1)) % ByteBase
<1>1. \A i \in 1..w : Digits(v, w)[i] = (v \div Power(i - 1)) % ByteBase
  BY DEF Digits
<1>2. \A i \in 1..w : (v \div Power(i - 1)) % ByteBase \in 0..(ByteBase - 1)
  <2> SUFFICES ASSUME NEW i \in 1..w PROVE (v \div Power(i - 1)) % ByteBase \in 0..(ByteBase - 1)
    OBVIOUS
  <2>1. i - 1 \in Nat
    OBVIOUS
  <2>2. Power(i - 1) \in Nat \ {0} /\ ByteBase \in Nat \ {0}
    BY <2>1, PowerStep, ByteOrderAssumption
  <2>3. v \div Power(i - 1) \in Int
    BY <2>2, DivisionOf
  <2> QED
    BY <2>2, <2>3, DivisionOf
<1> QED
  BY <1>1, <1>2 DEF Digits, ByteSeqs

\* The digits of a number denote it.
LEMMA NumberOfDigits ==
  ASSUME NEW w \in Nat, NEW v \in Words(w)
  PROVE  Number(Digits(v, w)) = v
<1> DEFINE d == Digits(v, w)
<1>1. v \in Nat /\ v < Power(w) /\ Power(w) \in Nat \ {0}
  BY PowerStep DEF Words
<1>2. d \in ByteSeqs(w) /\ \A i \in 1..w : d[i] = (v \div Power(i - 1)) % ByteBase
  BY <1>1, DigitsAre
<1> HIDE DEF d
<1>3. PICK f : Number(d) = f[1] /\ Horner(f, d, w)
  BY <1>2, NumberIs
<1> DEFINE S == {j \in Nat : j \in 0..w => f[w + 1 - j] = v \div Power(w - j)}
<1>4. 0 \in S
  <2>1. f[w + 1 - 0] = 0 /\ w - 0 = w
    BY <1>3 DEF Horner
  <2>2. v \div Power(w) = 0
    <3>1. 0 * Power(w) + v = v /\ v \in 0..(Power(w) - 1)
      BY <1>1
    <3> QED
      BY <1>1, <3>1, Division
  <2> QED
    BY <2>1, <2>2
<1>5. ASSUME NEW j \in Nat, j \in S PROVE j + 1 \in S
  <2> SUFFICES ASSUME j + 1 \in 0..w PROVE f[w + 1 - (j + 1)] = v \div Power(w - (j + 1))
    OBVIOUS
  <2> DEFINE i == w - j
             P == Power(i - 1)
             q == v \div P
  <2>1. i \in 1..w /\ w + 1 - (j + 1) = i /\ w - (j + 1) = i - 1 /\ w + 1 - j = i + 1 /\ i - 1 \in Nat
        /\ (i - 1) + 1 = i /\ j \in 0..w
    OBVIOUS
  <2> HIDE DEF i
  <2>2. f[i] = d[i] + ByteBase * f[i + 1] /\ d[i] = q % ByteBase
    BY <1>2, <1>3, <2>1 DEF Horner
  <2>3. f[i + 1] = v \div Power(i)
    BY <1>5, <2>1 DEF i
  <2>4. P \in Nat \ {0} /\ ByteBase \in Nat \ {0} /\ Power(i) = ByteBase * P
    BY <2>1, PowerStep, ByteOrderAssumption
  <2>9. v \in Int
    BY <1>1
  <2> HIDE DEF P
  <2>5. v \div Power(i) = q \div ByteBase
    <3>1. (v \div P) \div ByteBase = v \div (P * ByteBase)
      BY <2>9, <2>4, Twice
    <3>2. P * ByteBase = ByteBase * P
      BY <2>4, Products
    <3> QED
      BY <2>4, <3>1, <3>2
  <2>6. q \in Int
    BY <2>9, <2>4, DivisionOf
  <2> HIDE DEF q
  <2>7. /\ q = (q \div ByteBase) * ByteBase + (q % ByteBase) /\ q \div ByteBase \in Int
        /\ q % ByteBase \in Int
    BY <2>4, <2>6, DivisionOf
  <2>8. f[i] = q
    <3>1. \A x, y \in Int : x = y * ByteBase + (x % ByteBase) /\ x % ByteBase \in Int => (x % ByteBase) + ByteBase * y = x
      BY <2>4, SMT
    <3> QED
      BY <2>2, <2>3, <2>5, <2>6, <2>7, <3>1
  <2> QED
    BY <2>1, <2>8 DEF q, P
<1>6. \A j \in Nat : j \in S
  <2> HIDE DEF S
  <2> QED
    BY <1>4, <1>5, Induction
<1>7. f[1] = v
  <2>1. w \in 0..w /\ w + 1 - w = 1 /\ w - w = 0
    OBVIOUS
  <2>2. f[1] = v \div Power(0)
    BY <1>6, <2>1
  <2>3. v \div 1 = v
    BY <1>1
  <2> QED
    BY <2>2, <2>3, PowerStep
<1> QED
  BY <1>3, <1>7 DEF d

LEMMA HornerWords ==
  ASSUME NEW w \in Nat, NEW e \in ByteSeqs(w), NEW f, Horner(f, e, w)
  PROVE  f[1] \in Words(w) /\ \A i \in 1..(w + 1) : f[i] \in Nat
<1>1. \A j \in 0..w : f[w + 1 - j] \in Words(j)
  <2> DEFINE S == {j \in Nat : j \in 0..w => f[w + 1 - j] \in Words(j)}
  <2>1. 0 \in S
    <3>1. w + 1 - 0 = w + 1 /\ 0 \in 0..(1 - 1)
      OBVIOUS
    <3> QED
      BY <3>1, PowerStep DEF Horner, Words
  <2>2. ASSUME NEW j \in Nat, j \in S PROVE j + 1 \in S
    <3> SUFFICES ASSUME j + 1 \in 0..w PROVE f[w + 1 - (j + 1)] \in Words(j + 1)
      OBVIOUS
    <3> DEFINE i == w - j
               P == Power(j)
    <3>1. i \in 1..w /\ w + 1 - (j + 1) = i /\ w + 1 - j = i + 1 /\ j \in 0..w
      OBVIOUS
    <3> HIDE DEF i
    <3>2. f[i] = e[i] + ByteBase * f[i + 1] /\ e[i] \in 0..(ByteBase - 1)
      BY <3>1 DEF Horner, ByteSeqs
    <3>3. P \in Nat \ {0} /\ ByteBase \in Nat \ {0} /\ Power(j + 1) = ByteBase * P
      BY PowerStep, ByteOrderAssumption
    <3>4. f[i + 1] \in 0..(P - 1)
      BY <2>2, <3>1 DEF Words, i
    <3> HIDE DEF P
    <3>5. \A x \in 0..(P - 1), y \in 0..(ByteBase - 1) : y + ByteBase * x \in 0..(ByteBase * P - 1)
      <4> SUFFICES ASSUME NEW x \in 0..(P - 1), NEW y \in 0..(ByteBase - 1)
                   PROVE  y + ByteBase * x \in 0..(ByteBase * P - 1)
        OBVIOUS
      <4>1. ByteBase * x <= ByteBase * (P - 1) /\ ByteBase * x >= 0 /\ ByteBase * x \in Int
        BY <3>3, SMT
      <4>2. ByteBase * (P - 1) = ByteBase * P - ByteBase /\ ByteBase * P \in Int
        BY <3>3, SMT
      <4> QED
        BY <3>3, <4>1, <4>2
    <3>6. f[i] \in 0..(ByteBase * P - 1)
      BY <3>2, <3>4, <3>5
    <3> QED
      BY <3>1, <3>3, <3>6 DEF Words
  <2>3. \A j \in Nat : j \in S
    <3> HIDE DEF S
    <3> QED
      BY <2>1, <2>2, Induction
  <2> QED
    BY <2>3
<1>2. f[1] \in Words(w)
  <2>1. w \in 0..w /\ w + 1 - w = 1
    OBVIOUS
  <2> QED
    BY <1>1, <2>1
<1>3. \A i \in 1..(w + 1) : f[i] \in Nat
  <2> SUFFICES ASSUME NEW i \in 1..(w + 1) PROVE f[i] \in Nat
    OBVIOUS
  <2>1. w + 1 - i \in 0..w /\ w + 1 - (w + 1 - i) = i /\ w + 1 - i \in Nat
    OBVIOUS
  <2>2. f[i] \in Words(w + 1 - i)
    BY <1>1, <2>1
  <2>3. Power(w + 1 - i) \in Nat
    BY <2>1, PowerStep
  <2> QED
    BY <2>2, <2>3 DEF Words
<1> QED
  BY <1>2, <1>3

\* Digits denote a number that has them.
LEMMA DigitsOfNumber ==
  ASSUME NEW w \in Nat, NEW e \in ByteSeqs(w)
  PROVE  Number(e) \in Words(w) /\ Digits(Number(e), w) = e
<1>1. PICK f : Number(e) = f[1] /\ Horner(f, e, w)
  BY NumberIs
<1>3. f[1] \in Words(w)
  BY <1>1, HornerWords
<1>4. \A i \in 1..(w + 1) : f[i] \in Nat
  BY <1>1, HornerWords
<1>5. \A i \in 1..w : f[i] \div ByteBase = f[i + 1] /\ f[i] % ByteBase = e[i]
  <2> SUFFICES ASSUME NEW i \in 1..w PROVE f[i] \div ByteBase = f[i + 1] /\ f[i] % ByteBase = e[i]
    OBVIOUS
  <2>1. /\ f[i] = e[i] + ByteBase * f[i + 1] /\ e[i] \in 0..(ByteBase - 1)
        /\ f[i + 1] \in Nat /\ ByteBase \in Nat \ {0}
    BY <1>1, <1>4, ByteOrderAssumption DEF Horner, ByteSeqs
  <2>2. e[i] + ByteBase * f[i + 1] = f[i + 1] * ByteBase + e[i]
    BY <2>1, Products
  <2>3. f[i] = f[i + 1] * ByteBase + e[i] /\ f[i + 1] \in Int
    BY <2>1, <2>2
  <2> DEFINE q == f[i + 1]
             r == e[i]
  <2> HIDE DEF q, r
  <2>4. (q * ByteBase + r) \div ByteBase = q /\ (q * ByteBase + r) % ByteBase = r
    BY <2>1, <2>3, Division DEF q, r
  <2> QED
    BY <2>3, <2>4 DEF q, r
<1>6. \A k \in 0..w : f[1] \div Power(k) = f[k + 1]
  <2> DEFINE S == {k \in Nat : k \in 0..w => f[1] \div Power(k) = f[k + 1]}
  <2>1. 0 \in S
    <3>1. f[1] \in Nat
      BY <1>4
    <3>2. f[1] \div 1 = f[1] /\ 0 + 1 = 1
      BY <3>1
    <3> QED
      BY <3>2, PowerStep
  <2>2. ASSUME NEW k \in Nat, k \in S PROVE k + 1 \in S
    <3> SUFFICES ASSUME k + 1 \in 0..w PROVE f[1] \div Power(k + 1) = f[(k + 1) + 1]
      OBVIOUS
    <3>1. k \in 0..w /\ k + 1 \in 1..w
      OBVIOUS
    <3>2. f[1] \div Power(k) = f[k + 1]
      BY <2>2, <3>1
    <3>3. f[1] \in Int /\ Power(k) \in Nat \ {0} /\ ByteBase \in Nat \ {0} /\ Power(k + 1) = ByteBase * Power(k)
      BY <1>4, PowerStep, ByteOrderAssumption
    <3>4. (f[1] \div Power(k)) \div ByteBase = f[1] \div (Power(k) * ByteBase)
      BY <3>3, Twice
    <3>5. Power(k) * ByteBase = ByteBase * Power(k)
      BY <3>3, Products
    <3> QED
      BY <1>5, <3>1, <3>2, <3>3, <3>4, <3>5
  <2>3. \A k \in Nat : k \in S
    <3> HIDE DEF S
    <3> QED
      BY <2>1, <2>2, Induction
  <2> QED
    BY <2>3
<1>7. \A i \in 1..w : (f[1] \div Power(i - 1)) % ByteBase = e[i]
  <2> SUFFICES ASSUME NEW i \in 1..w PROVE (f[1] \div Power(i - 1)) % ByteBase = e[i]
    OBVIOUS
  <2>1. i - 1 \in 0..w /\ (i - 1) + 1 = i
    OBVIOUS
  <2> QED
    BY <1>5, <1>6, <2>1
<1>8. f[1] \in Int
  BY <1>4
<1>9. Digits(f[1], w) \in ByteSeqs(w) /\ \A i \in 1..w : Digits(f[1], w)[i] = e[i]
  BY <1>7, <1>8, DigitsAre
<1>10. Digits(f[1], w) = e
  <2> DEFINE d == Digits(f[1], w)
  <2> HIDE DEF d
  <2> QED
    BY <1>9 DEF d, ByteSeqs
<1> QED
  BY <1>1, <1>3, <1>10

-----------------------------------------------------------------------------
(* The swaps *)

LEMMA Mirror ==
  ASSUME NEW w \in Nat, NEW d \in ByteSeqs(w)
  PROVE  /\ Reverse(d) \in ByteSeqs(w) /\ Reverse(Reverse(d)) = d
         /\ \A i \in 1..w : Reverse(d)[i] = d[w + 1 - i]
<1> DEFINE r == Reverse(d)
<1>1. ASSUME NEW x \in ByteSeqs(w)
      PROVE  Reverse(x) \in ByteSeqs(w) /\ \A i \in 1..w : Reverse(x)[i] = x[w + 1 - i]
  <2>1. Reverse(x) = [i \in 1..w |-> x[(w - i) + 1]]
    BY <1>1, ByteSeqLen DEF Reverse
  <2>2. \A i \in 1..w : (w - i) + 1 \in 1..w /\ (w - i) + 1 = w + 1 - i
    OBVIOUS
  <2> QED
    BY <2>1, <2>2 DEF ByteSeqs
<1>2. r \in ByteSeqs(w) /\ \A i \in 1..w : r[i] = d[w + 1 - i]
  BY <1>1
<1> HIDE DEF r
<1>3. Reverse(r) \in ByteSeqs(w) /\ \A i \in 1..w : Reverse(r)[i] = r[w + 1 - i]
  BY <1>1, <1>2
<1>4. \A i \in 1..w : Reverse(r)[i] = d[i]
  <2>1. \A i \in 1..w : w + 1 - i \in 1..w /\ w + 1 - (w + 1 - i) = i
    OBVIOUS
  <2> QED
    BY <1>2, <1>3, <2>1
<1>5. Reverse(r) = d
  <2> DEFINE t == Reverse(r)
  <2> HIDE DEF t
  <2> QED
    BY <1>3, <1>4 DEF t, ByteSeqs
<1> QED
  BY <1>2, <1>5 DEF r

\* The compilers' swap mirrors the bytes.
LEMMA BuiltinMirrors ==
  ASSUME NEW w \in Nat, NEW u \in Words(w)
  PROVE  Builtin(u, w) \in Words(w) /\ Digits(Builtin(u, w), w) = Reverse(Digits(u, w))
<1>1. u \in Int
  BY DEF Words
<1>2. Reverse(Digits(u, w)) \in ByteSeqs(w)
  BY <1>1, DigitsAre, Mirror
<1> QED
  BY <1>2, DigitsOfNumber DEF Builtin

\* The swap by shifts adds up the same number, byte by byte.
LEMMA SlowIsBuiltin ==
  ASSUME NEW w \in Nat, NEW u \in Words(w)
  PROVE  bswap_slow(u, w) = Builtin(u, w)
<1> DEFINE Masked(i) == (u % Power(i + 1)) - (u % Power(i))
           Shifted(i) == IF 2 * i < w THEN Masked(i) * Power(w - 1 - 2 * i)
                                      ELSE Masked(i) \div Power(2 * i + 1 - w)
           Step(f) == [i \in 0..w |-> IF i = 0 THEN 0 ELSE f[i - 1] + Shifted(i - 1)]
           upTo == CHOOSE f : f = Step(f)
           d == Digits(u, w)
           r == Reverse(d)
           c == [i \in Nat |-> IF i \in 1..w THEN Shifted(i - 1) ELSE 0]
<1>1. bswap_slow(u, w) = upTo[w]
  BY DEF bswap_slow
<1>2. u \in Int /\ ByteBase \in Nat \ {0}
  BY ByteOrderAssumption DEF Words
<1>3. d \in ByteSeqs(w) /\ r \in ByteSeqs(w) /\ (\A i \in 1..w : r[i] = d[w + 1 - i])
      /\ \A i \in 1..w : d[i] = (u \div Power(i - 1)) % ByteBase
  BY <1>2, DigitsAre, Mirror
<1>4. Builtin(u, w) = Number(r)
  BY DEF Builtin
<1> HIDE DEF r, d
<1>5. ASSUME NEW i \in 0..(w - 1)
      PROVE  Shifted(i) = d[i + 1] * Power(w - 1 - i) /\ Shifted(i) \in Int
  <2> DEFINE p == Power(i)
             x == d[i + 1]
             k == w - 1 - i
  <2>1. i \in Nat /\ i + 1 \in 1..w /\ (i + 1) - 1 = i /\ k \in Nat
    OBVIOUS
  <2>2. p \in Nat \ {0} /\ Power(i + 1) = ByteBase * p /\ Power(k) \in Nat \ {0}
    BY <2>1, PowerStep
  <2>3. x = (u \div p) % ByteBase /\ x \in Nat
    <3>1. x = (u \div Power((i + 1) - 1)) % ByteBase /\ x \in 0..(ByteBase - 1)
      BY <1>3, <2>1 DEF ByteSeqs
    <3> QED
      BY <1>2, <2>1, <3>1
  <2> HIDE DEF p, x
  <2>4. Masked(i) = x * p
    <3>1. ByteBase * p = p * ByteBase
      BY <1>2, <2>2, Products
    <3>2. u % (p * ByteBase) = ((u \div p) % ByteBase) * p + (u % p)
      BY <1>2, <2>2, Twice
    <3>3. u % p \in Int
      BY <1>2, <2>2, DivisionOf
    <3>4. x * p \in Int
      BY <2>2, <2>3, Products
    <3>5. u % Power(i + 1) = x * p + (u % p)
      BY <2>2, <2>3, <3>1, <3>2
    <3>6. Masked(i) = (u % Power(i + 1)) - (u % p)
      BY DEF p
    <3> QED
      BY <3>3, <3>4, <3>5, <3>6
  <2> HIDE DEF Masked
  <2>5. CASE 2 * i < w
    <3>1. w - 1 - 2 * i \in Nat /\ i + (w - 1 - 2 * i) = k
      BY <2>5
    <3>2. Power(k) = p * Power(w - 1 - 2 * i) /\ Power(w - 1 - 2 * i) \in Nat
      <4> DEFINE n == w - 1 - 2 * i
      <4>1. n \in Nat /\ i + n = k
        BY <3>1
      <4> HIDE DEF n, k
      <4>2. Power(i + n) = Power(i) * Power(n) /\ Power(n) \in Nat
        BY <2>1, <4>1, PowerSum, PowerStep
      <4> QED
        BY <4>1, <4>2 DEF n, p
    <3> DEFINE t == Power(w - 1 - 2 * i)
    <3>3. Shifted(i) = (x * p) * t
      BY <2>4, <2>5
    <3> HIDE DEF t, Shifted, k
    <3>4. x * (p * t) = (x * p) * t /\ x * (p * t) \in Int
      <4>1. p * t \in Nat
        BY <2>2, <3>2, Products DEF t
      <4>2. x * (p * t) \in Nat
        BY <2>3, <4>1, Products
      <4>3. x * (p * t) = (x * p) * t
        BY <2>2, <2>3, <3>2, Products DEF t
      <4> QED
        BY <4>2, <4>3
    <3> QED
      BY <3>2, <3>3, <3>4 DEF t, x, k
  <2>6. CASE ~(2 * i < w)
    <3>1. 2 * i + 1 - w \in Nat /\ (2 * i + 1 - w) + k = i
      BY <2>6
    <3>2. p = Power(2 * i + 1 - w) * Power(k) /\ Power(2 * i + 1 - w) \in Nat \ {0}
      BY <2>1, <3>1, PowerSum, PowerStep DEF p
    <3> DEFINE t == Power(2 * i + 1 - w)
               s == Power(k)
    <3>3. Shifted(i) = (x * p) \div t
      BY <2>4, <2>6
    <3> HIDE DEF t, s, Shifted, k
    <3>4. t \in Nat \ {0} /\ s \in Nat /\ p = t * s
      BY <2>2, <3>2 DEF t, s
    <3>5. x * (t * s) = (x * s) * t /\ x * s \in Int
      BY <2>3, <3>4, SMT
    <3>6. ((x * s) * t + 0) \div t = x * s
      <4>1. 0 \in 0..(t - 1)
        BY <3>4
      <4> DEFINE q == x * s
      <4> HIDE DEF q
      <4>2. (q * t + 0) \div t = q
        BY <3>4, <3>5, <4>1, Division DEF q
      <4> QED
        BY <4>2 DEF q
    <3>7. (x * s) * t \in Int /\ (x * s) * t + 0 = (x * s) * t
      BY <3>4, <3>5, SMT
    <3>8. x * p = (x * s) * t
      BY <3>4, <3>5
    <3>9. Shifted(i) = x * s
      BY <3>3, <3>6, <3>7, <3>8
    <3> QED
      BY <3>5, <3>9 DEF s, x, k
  <2> QED
    BY <2>5, <2>6
<1> HIDE DEF Shifted
<1>6. upTo \in [0..w -> Int] /\ upTo[0] = 0 /\ \A i \in 1..w : upTo[i] = upTo[i - 1] + Shifted(i - 1)
  <2>1. PICK g : Solves(g, 0, 1, c, w)
    <3>1. \A i \in Nat : c[i] \in Int
      <4> SUFFICES ASSUME NEW i \in Nat PROVE c[i] \in Int
        OBVIOUS
      <4>1. i \in 1..w => i - 1 \in 0..(w - 1)
        OBVIOUS
      <4> QED
        BY <1>5, <4>1
    <3> HIDE DEF c
    <3>2. 0 \in Int /\ 1 \in Int
      OBVIOUS
    <3> QED
      BY <3>1, <3>2, Recurrence
  <2>2. \A i \in 1..w : g[i] = g[i - 1] + Shifted(i - 1)
    <3> SUFFICES ASSUME NEW i \in 1..w PROVE g[i] = g[i - 1] + Shifted(i - 1)
      OBVIOUS
    <3>1. c[i] = Shifted(i - 1)
      OBVIOUS
    <3>2. i - 1 \in 0..(w - 1) /\ i - 1 \in 0..w
      OBVIOUS
    <3>3. g[i] = c[i] + 1 * g[i - 1] /\ g[i - 1] \in Int
      <4> HIDE DEF c
      <4> QED
        BY <2>1, <3>2 DEF Solves
    <3> HIDE DEF c
    <3> QED
      BY <1>5, <3>1, <3>2, <3>3
  <2>3. g = Step(g)
    <3>1. g = [i \in 0..w |-> g[i]]
      BY <2>1 DEF Solves
    <3>2. \A i \in 0..w : g[i] = IF i = 0 THEN 0 ELSE g[i - 1] + Shifted(i - 1)
      BY <2>1, <2>2 DEF Solves
    <3> QED
      BY <3>1, <3>2
  <2>4. upTo = Step(upTo)
    BY <2>3
  <2> HIDE DEF upTo
  <2> DEFINE e(i) == IF i = 0 THEN 0 ELSE upTo[i - 1] + Shifted(i - 1)
  <2>5. upTo = [i \in 0..w |-> e(i)]
    BY <2>4
  <2> HIDE DEF e
  <2>6. \A i \in 0..w : upTo[i] = e(i)
    BY <2>5
  <2>7. upTo[0] = 0 /\ \A i \in 1..w : upTo[i] = upTo[i - 1] + Shifted(i - 1)
    <3>1. 0 \in 0..w /\ \A i \in 1..w : i \in 0..w /\ i # 0
      OBVIOUS
    <3> QED
      BY <2>6, <3>1 DEF e
  <2>8. \A i \in 0..w : upTo[i] \in Int
    <3> DEFINE S == {i \in Nat : i \in 0..w => upTo[i] \in Int}
    <3>1. 0 \in S
      BY <2>7
    <3>2. ASSUME NEW i \in Nat, i \in S PROVE i + 1 \in S
      <4> SUFFICES ASSUME i + 1 \in 0..w PROVE upTo[i + 1] \in Int
        OBVIOUS
      <4>1. i + 1 \in 1..w /\ (i + 1) - 1 = i /\ i \in 0..w /\ i \in 0..(w - 1)
        OBVIOUS
      <4> QED
        BY <1>5, <2>7, <3>2, <4>1
    <3>3. \A i \in Nat : i \in S
      <4> HIDE DEF S
      <4> QED
        BY <3>1, <3>2, Induction
    <3> QED
      BY <3>3
  <2> QED
    BY <2>5, <2>7, <2>8
<1> HIDE DEF upTo
<1>7. PICK f : Number(r) = f[1] /\ Horner(f, r, w)
  BY <1>3, NumberIs
<1>8. \A i \in 1..(w + 1) : f[i] \in Nat
  BY <1>3, <1>7, HornerWords
<1>9. \A i \in 0..w : upTo[i] = Power(w - i) * f[w + 1 - i]
  <2> DEFINE S == {i \in Nat : i \in 0..w => upTo[i] = Power(w - i) * f[w + 1 - i]}
  <2>1. 0 \in S
    <3>1. w - 0 = w /\ w + 1 - 0 = w + 1 /\ f[w + 1] = 0 /\ Power(w) * 0 = 0
      BY <1>7, PowerStep DEF Horner
    <3> QED
      BY <1>6, <3>1
  <2>2. ASSUME NEW i \in Nat, i \in S PROVE i + 1 \in S
    <3> SUFFICES ASSUME i + 1 \in 0..w PROVE upTo[i + 1] = Power(w - (i + 1)) * f[w + 1 - (i + 1)]
      OBVIOUS
    <3> DEFINE k == w - 1 - i
               t == Power(k)
               x == d[i + 1]
               y == f[w + 1 - i]
    <3>1. i + 1 \in 1..w /\ i \in 0..w /\ i \in 0..(w - 1) /\ (i + 1) - 1 = i /\ k \in Nat /\ w - (i + 1) = k
          /\ w + 1 - (i + 1) = k + 1 /\ w - i = k + 1 /\ (k + 1) + 1 = w + 1 - i /\ k + 1 \in 1..w
          /\ w + 1 - (k + 1) = i + 1 /\ w + 1 - i \in 1..(w + 1)
      OBVIOUS
    <3> HIDE DEF k
    <3>2. upTo[i + 1] = Power(w - i) * y + x * t
      <4>1. upTo[i + 1] = upTo[i] + Shifted(i)
        BY <1>6, <3>1
      <4>2. Shifted(i) = x * t
        BY <1>5, <3>1 DEF k
      <4>3. upTo[i] = Power(w - i) * y
        BY <2>2, <3>1
      <4> QED
        BY <4>1, <4>2, <4>3
    <3>3. Power(w - i) = ByteBase * t /\ t \in Nat
      BY <3>1, PowerStep
    <3>4. f[k + 1] = x + ByteBase * y
      <4>1. f[k + 1] = r[k + 1] + ByteBase * f[(k + 1) + 1]
        BY <1>7, <3>1 DEF Horner
      <4>2. r[k + 1] = d[i + 1]
        BY <1>3, <3>1
      <4> QED
        BY <3>1, <4>1, <4>2
    <3>5. x \in Nat /\ y \in Nat
      BY <1>3, <1>8, <3>1, ByteOrderAssumption DEF ByteSeqs
    <3> HIDE DEF t, x, y
    <3>6. (ByteBase * t) * y + x * t = t * (x + ByteBase * y)
      <4>1. \A a, b, m, n \in Nat : (a * b) * m + n * b = b * (n + a * m)
        BY SMT
      <4> QED
        BY <1>2, <3>3, <3>5, <4>1
    <3> QED
      BY <3>1, <3>2, <3>3, <3>4, <3>6 DEF t
  <2>3. \A i \in Nat : i \in S
    <3> HIDE DEF S
    <3> QED
      BY <2>1, <2>2, Induction
  <2> QED
    BY <2>3
<1>10. upTo[w] = f[1]
  <2>1. w \in 0..w /\ w - w = 0 /\ w + 1 - w = 1 /\ 1 \in 1..(w + 1)
    OBVIOUS
  <2>2. upTo[w] = Power(0) * f[1] /\ f[1] \in Nat
    BY <1>8, <1>9, <2>1
  <2>3. 1 * f[1] = f[1]
    BY <2>2
  <2> QED
    BY <2>2, <2>3, PowerStep
<1> QED
  BY <1>1, <1>4, <1>7, <1>10

\* Every build's swap mirrors the bytes, and swapping twice is the identity.
LEMMA Swaps ==
  ASSUME NEW w \in Nat, NEW u \in Words(w), NEW host
  PROVE  /\ SWAB(host, u, w) = Builtin(u, w) /\ SWAB(host, u, w) \in Words(w)
         /\ Digits(SWAB(host, u, w), w) = Reverse(Digits(u, w))
         /\ SWAB(host, SWAB(host, u, w), w) = u
<1> DEFINE s == Builtin(u, w)
<1>1. \A x \in Words(w) : SWAB(host, x, w) = Builtin(x, w)
  BY SlowIsBuiltin DEF SWAB
<1>2. s \in Words(w) /\ Digits(s, w) = Reverse(Digits(u, w))
  BY BuiltinMirrors
<1>3. Builtin(s, w) = u
  <2>1. u \in Int
    BY DEF Words
  <2>2. Reverse(Digits(s, w)) = Digits(u, w)
    BY <1>2, <2>1, DigitsAre, Mirror
  <2> HIDE DEF s
  <2> QED
    BY <2>2, NumberOfDigits DEF Builtin
<1> QED
  BY <1>1, <1>2, <1>3

\* A single byte has no order.
LEMMA OneByte ==
  ASSUME NEW u \in Words(1), NEW host, NEW order
  PROVE  hto(host, order, u, 1) = u
<1>1. u \in Int /\ 1 \in Nat
  BY DEF Words
<1>2. Digits(u, 1) \in ByteSeqs(1)
  BY <1>1, DigitsAre
<1> DEFINE d == Digits(u, 1)
           r == Reverse(d)
<1>3. r \in ByteSeqs(1) /\ r[1] = d[1]
  <2>1. 1 \in 1..1 /\ 1 + 1 - 1 = 1
    OBVIOUS
  <2> HIDE DEF d
  <2>2. r \in ByteSeqs(1) /\ r[1] = d[1 + 1 - 1]
    BY <1>2, <2>1, Mirror DEF d
  <2> QED
    BY <2>1, <2>2
<1>4. r = d
  <2> HIDE DEF r, d
  <2> QED
    BY <1>2, <1>3 DEF d, ByteSeqs
<1>5. Builtin(u, 1) = u
  BY <1>1, <1>4, NumberOfDigits DEF Builtin
<1>6. SWAB(host, u, 1) = u
  BY <1>1, <1>5, Swaps
<1> QED
  BY <1>6 DEF hto

-----------------------------------------------------------------------------
(* Casting to the unsigned type and back *)

\* The types of numbers, by width and kind, and the numbers of one.
Types == [w : Nat \ {0}, k : {"signed", "unsigned", "floating"}]
RangeOf(ty) == IF ty.k = "unsigned" THEN Words(ty.w)
               ELSE (-(Power(ty.w) \div 2))..(Power(ty.w) \div 2 - 1)

LEMMA Halves ==
  ASSUME NEW w \in Nat \ {0}
  PROVE  \E h \in Nat \ {0} : Power(w) = 2 * h /\ Power(w) \div 2 = h
<1> DEFINE b == ByteBase \div 2
           p == Power(w - 1)
           h == b * p
<1>1. b \in Nat \ {0} /\ ByteBase = 2 * b
  BY ByteOrderAssumption
<1>2. w - 1 \in Nat /\ (w - 1) + 1 = w
  OBVIOUS
<1>3. p \in Nat \ {0} /\ Power(w) = ByteBase * p
  BY <1>2, PowerStep
<1> HIDE DEF b, p
<1>4. h \in Nat \ {0} /\ (2 * b) * p = 2 * h
  BY <1>1, <1>3, SMT
<1> HIDE DEF h
<1>5. Power(w) = 2 * h
  BY <1>1, <1>3, <1>4
<1>6. Power(w) \div 2 = h
  BY <1>4, <1>5
<1> QED
  BY <1>4, <1>5, <1>6

LEMMA UnsignedInRange ==
  ASSUME NEW w \in Nat, NEW v \in Int
  PROVE  Unsigned(v, w) \in Words(w)
<1>1. Power(w) \in Nat \ {0}
  BY PowerStep
<1> DEFINE p == Power(w)
<1> HIDE DEF p
<1>2. v % p \in 0..(p - 1)
  BY <1>1, DivisionOf DEF p
<1> QED
  BY <1>2 DEF p, Unsigned, Words

LEMMA SignedUnsigned ==
  ASSUME NEW w \in Nat \ {0}
  PROVE  LET I == (-(Power(w) \div 2))..(Power(w) \div 2 - 1)
         IN  /\ \A v \in I : Signed(Unsigned(v, w), w) = v
             /\ \A u \in Words(w) : Signed(u, w) \in I /\ Unsigned(Signed(u, w), w) = u /\ Unsigned(u, w) = u
<1> DEFINE I == (-(Power(w) \div 2))..(Power(w) \div 2 - 1)
<1>2. PICK h \in Nat \ {0} : Power(w) = 2 * h /\ Power(w) \div 2 = h
  BY Halves
<1>3. /\ I = (-h)..(h - 1) /\ Words(w) = 0..(2 * h - 1)
      /\ \A v : Unsigned(v, w) = v % (2 * h)
      /\ \A u : Signed(u, w) = IF u >= h THEN u - 2 * h ELSE u
  BY <1>2 DEF Words, Signed, Unsigned
<1>4. \A r \in 0..(2 * h - 1) : r % (2 * h) = r /\ (r - 2 * h) % (2 * h) = r
  <2> SUFFICES ASSUME NEW r \in 0..(2 * h - 1) PROVE r % (2 * h) = r /\ (r - 2 * h) % (2 * h) = r
    OBVIOUS
  <2>1. PICK n \in Nat \ {0} : n = 2 * h
    BY <1>2
  <2>2. r \in 0..(n - 1)
    BY <2>1
  <2>3. \A q \in Int : (q * n + r) % n = r
    BY <2>1, <2>2, Division
  <2>4. 0 * n + r = r /\ (-1) * n + r = r - n /\ (-1) \in Int /\ 0 \in Int
    BY <2>1
  <2>5. r % n = r
    BY <2>3, <2>4
  <2>6. (r - n) % n = r
    BY <2>3, <2>4
  <2> QED
    BY <2>1, <2>5, <2>6
<1> HIDE DEF I
<1>5. \A v \in I : Signed(Unsigned(v, w), w) = v
  <2> SUFFICES ASSUME NEW v \in (-h)..(h - 1) PROVE Signed(v % (2 * h), w) = v
    BY <1>3
  <2>1. CASE v >= 0
    BY <1>2, <1>3, <1>4, <2>1
  <2>2. CASE v < 0
    <3>1. v + 2 * h \in 0..(2 * h - 1) /\ (v + 2 * h) - 2 * h = v
      BY <1>2, <2>2
    <3>2. v % (2 * h) = v + 2 * h
      BY <1>4, <3>1
    <3> QED
      BY <1>2, <1>3, <2>2, <3>1, <3>2
  <2> QED
    BY <2>1, <2>2
<1>6. \A u \in Words(w) : Signed(u, w) \in I /\ Unsigned(Signed(u, w), w) = u /\ Unsigned(u, w) = u
  <2> SUFFICES ASSUME NEW u \in 0..(2 * h - 1)
               PROVE  Signed(u, w) \in I /\ Unsigned(Signed(u, w), w) = u /\ Unsigned(u, w) = u
    BY <1>3
  <2>1. Unsigned(u, w) = u
    BY <1>3, <1>4
  <2>2. CASE u >= h
    <3>1. Signed(u, w) = u - 2 * h /\ u - 2 * h \in (-h)..(h - 1)
      BY <1>2, <1>3, <2>2
    <3> QED
      BY <1>3, <1>4, <2>1, <3>1
  <2>3. CASE u < h
    <3>1. Signed(u, w) = u /\ u \in (-h)..(h - 1)
      BY <1>2, <1>3, <2>3
    <3> QED
      BY <1>3, <2>1, <3>1
  <2> QED
    BY <1>2, <2>2, <2>3
<1> QED
  BY <1>5, <1>6 DEF I

\* A number is known from its bits.
LEMMA BitsOf ==
  ASSUME NEW ty \in Types
  PROVE  /\ \A v \in RangeOf(ty) : v \in Int /\ Unsigned(v, ty.w) \in Words(ty.w)
         /\ \A p, q \in RangeOf(ty) : Unsigned(p, ty.w) = Unsigned(q, ty.w) => p = q
         /\ \A u \in Words(ty.w) : LET x == IF ty.k = "unsigned" THEN u ELSE Signed(u, ty.w)
                                   IN  x \in RangeOf(ty) /\ Unsigned(x, ty.w) = u
<1>1. ty.w \in Nat \ {0}
  BY DEF Types
<1> DEFINE w == ty.w
           I == (-(Power(w) \div 2))..(Power(w) \div 2 - 1)
<1>2. /\ \A v \in I : Signed(Unsigned(v, w), w) = v
      /\ \A u \in Words(w) : Signed(u, w) \in I /\ Unsigned(Signed(u, w), w) = u /\ Unsigned(u, w) = u
  BY <1>1, SignedUnsigned
<1>3. RangeOf(ty) = IF ty.k = "unsigned" THEN Words(w) ELSE I
  BY DEF RangeOf
<1>4. \A v \in RangeOf(ty) : v \in Int
  BY <1>3 DEF Words
<1> HIDE DEF I, w
<1>5. \A v \in RangeOf(ty) : Unsigned(v, w) \in Words(w)
  BY <1>1, <1>4, UnsignedInRange DEF w
<1>6. \A p, q \in RangeOf(ty) : Unsigned(p, w) = Unsigned(q, w) => p = q
  <2> SUFFICES ASSUME NEW p \in RangeOf(ty), NEW q \in RangeOf(ty), Unsigned(p, w) = Unsigned(q, w)
               PROVE  p = q
    OBVIOUS
  <2>1. CASE ty.k = "unsigned"
    <3>1. p \in Words(w) /\ q \in Words(w)
      BY <1>3, <2>1
    <3> QED
      BY <1>2, <3>1, Zenon
  <2>2. CASE ty.k # "unsigned"
    <3>1. p \in I /\ q \in I
      BY <1>3, <2>2
    <3> QED
      BY <1>2, <3>1, Zenon
  <2> QED
    BY <2>1, <2>2
<1>7. \A u \in Words(w) : LET x == IF ty.k = "unsigned" THEN u ELSE Signed(u, w)
                          IN  x \in RangeOf(ty) /\ Unsigned(x, w) = u
  BY <1>2, <1>3, Zenon
<1> QED
  BY <1>4, <1>5, <1>6, <1>7 DEF w

-----------------------------------------------------------------------------
(* Numbers through memory *)

\* Conversion acts on the unsigned number of the same bits.
LEMMA ConvertBits ==
  ASSUME NEW host, NEW order, NEW ty \in Types, NEW v \in RangeOf(ty)
  PROVE  LET x == hto(host, order, Unsigned(v, ty.w), ty.w)
         IN  /\ x \in Words(ty.w)
             /\ Convert(host, order, v, ty) \in RangeOf(ty)
             /\ Unsigned(Convert(host, order, v, ty), ty.w) = x
<1> DEFINE w == ty.w
           u == Unsigned(v, w)
           x == hto(host, order, u, w)
<1>1. w \in Nat \ {0} /\ u \in Words(w)
  BY BitsOf DEF Types
<1>2. ty.k \in {"signed", "unsigned", "floating"}
  BY DEF Types
<1>3. "signed" # "unsigned" /\ "signed" # "floating" /\ "unsigned" # "floating"
  OBVIOUS
<1>4. ty.k = "unsigned" => u = v
  <2>1. ASSUME ty.k = "unsigned" PROVE v \in Words(w)
    BY <2>1 DEF RangeOf
  <2> QED
    BY <1>1, <2>1, SignedUnsigned
<1>5. ty.k # "unsigned" => Signed(u, w) = v
  <2>1. ASSUME ty.k # "unsigned" PROVE v \in (-(Power(w) \div 2))..(Power(w) \div 2 - 1)
    BY <2>1 DEF RangeOf
  <2> QED
    BY <1>1, <2>1, SignedUnsigned
<1> HIDE DEF u
<1>6. x \in Words(w)
  BY <1>1, Swaps DEF hto
<1>7. w = 1 => x = u
  BY <1>1, OneByte
<1> HIDE DEF w, x
<1>8. Convert(host, order, v, ty) = IF ty.k = "unsigned" THEN x ELSE Signed(x, w)
  <2>1. CASE ty.k = "unsigned"
    <3>1. Convert(host, order, v, ty) = IF w = 1 THEN v ELSE hto(host, order, v, w)
      BY <2>1 DEF Convert, convertUnsigned, w
    <3> QED
      BY <1>4, <1>7, <2>1, <3>1 DEF x
  <2>2. CASE ty.k = "signed"
    <3>1. Convert(host, order, v, ty) = IF w = 1 THEN v ELSE Signed(x, w)
      BY <1>3, <2>2 DEF Convert, convertSigned, w, x, u
    <3> QED
      BY <1>3, <1>5, <1>7, <2>2, <3>1
  <2>3. CASE ty.k = "floating"
    <3>1. Convert(host, order, v, ty) = Signed(x, w)
      BY <1>3, <2>3 DEF Convert, convertFloating, Bits, Float, w, x, u
    <3> QED
      BY <1>3, <2>3, <3>1
  <2> QED
    BY <1>2, <2>1, <2>2, <2>3
<1>9. Convert(host, order, v, ty) \in RangeOf(ty) /\ Unsigned(Convert(host, order, v, ty), w) = x
  BY <1>6, <1>8, BitsOf DEF w
<1> QED
  BY <1>6, <1>9 DEF x, u, w

\* The bytes d of a number in an order of bytes: the least significant first in little endian order.
Ordered(order, d) == IF order = "little" THEN d ELSE Reverse(d)

\* The bytes a build writes are those of the number, in the order asked for, whatever the build.
LEMMA WrittenBytes ==
  ASSUME NEW host \in Builds, NEW order \in {"little", "big"}, NEW ty \in Types, NEW v \in RangeOf(ty)
  PROVE  /\ Digits(Unsigned(v, ty.w), ty.w) \in ByteSeqs(ty.w)
         /\ writeNative(host, Convert(host, order, v, ty), ty) = Ordered(order, Digits(Unsigned(v, ty.w), ty.w))
<1> DEFINE w == ty.w
           u == Unsigned(v, w)
           d == Digits(u, w)
           x == hto(host, order, u, w)
           c == Convert(host, order, v, ty)
<1>1. w \in Nat \ {0} /\ u \in Words(w)
  BY BitsOf DEF Types
<1>2. u \in Int
  BY <1>1 DEF Words
<1>3. Unsigned(c, w) = x
  BY ConvertBits
<1> HIDE DEF c, w, u
<1>4. d \in ByteSeqs(w) /\ Reverse(Reverse(d)) = d
  BY <1>1, <1>2, DigitsAre, Mirror
<1>5. Digits(SWAB(host, u, w), w) = Reverse(d)
  BY <1>1, Swaps
<1>6. host.order \in {"little", "big"} /\ "little" # "big"
  BY DEF Builds
<1>7. writeNative(host, c, ty) = IF host.order = "little" THEN Digits(x, w) ELSE Reverse(Digits(x, w))
  <2> HIDE DEF x
  <2> QED
    BY <1>3 DEF writeNative, w
<1>8. Digits(x, w) = IF host.order = order THEN d ELSE Reverse(d)
  BY <1>5 DEF hto
<1> HIDE DEF d, x
<1>9. writeNative(host, c, ty) = Ordered(order, d)
  BY <1>4, <1>6, <1>7, <1>8 DEF Ordered
<1> QED
  BY <1>4, <1>9 DEF d, c, u, w

\* A build reads the number back from those bytes, wherever they are in memory.
LEMMA ReadBytes ==
  ASSUME NEW host \in Builds, NEW order \in {"little", "big"}, NEW ty \in Types, NEW v \in RangeOf(ty),
         NEW b, NEW off, SubSeq(b, off + 1, off + ty.w) = Ordered(order, Digits(Unsigned(v, ty.w), ty.w))
  PROVE  Convert(host, order, readNative(host, b, off, ty), ty) = v
<1> DEFINE w == ty.w
           u == Unsigned(v, w)
           d == Digits(u, w)
           m == SubSeq(b, off + 1, off + w)
           n == Number(IF host.order = "little" THEN m ELSE Reverse(m))
           x == IF ty.k = "unsigned" THEN n ELSE Signed(n, w)
<1>1. w \in Nat \ {0} /\ u \in Words(w)
  BY BitsOf DEF Types
<1>2. u \in Int
  BY <1>1 DEF Words
<1>3. m = Ordered(order, d)
  OBVIOUS
<1>4. readNative(host, b, off, ty) = x
  BY DEF readNative
<1> HIDE DEF w, u, m
<1>5. d \in ByteSeqs(w) /\ Reverse(Reverse(d)) = d /\ Number(d) = u
  BY <1>1, <1>2, DigitsAre, Mirror, NumberOfDigits
<1>6. /\ SWAB(host, u, w) \in Words(w) /\ SWAB(host, SWAB(host, u, w), w) = u
      /\ SWAB(host, u, w) = Number(Reverse(d))
  BY <1>1, Swaps DEF Builtin
<1> HIDE DEF d
<1>7. host.order \in {"little", "big"} /\ "little" # "big"
  BY DEF Builds
<1>8. n = IF host.order = order THEN u ELSE SWAB(host, u, w)
  <2>1. (IF host.order = "little" THEN m ELSE Reverse(m)) = IF host.order = order THEN d ELSE Reverse(d)
    BY <1>3, <1>5, <1>7 DEF Ordered
  <2> QED
    BY <1>5, <1>6, <2>1
<1> HIDE DEF n
<1>9. n \in Words(w) /\ hto(host, order, n, w) = u
  BY <1>1, <1>6, <1>8 DEF hto
<1>10. x \in RangeOf(ty) /\ Unsigned(x, w) = n
  BY <1>9, BitsOf DEF w
<1> HIDE DEF x
<1>11. Convert(host, order, x, ty) \in RangeOf(ty) /\ Unsigned(Convert(host, order, x, ty), w) = u
  BY <1>9, <1>10, ConvertBits DEF w
<1> DEFINE y == Convert(host, order, x, ty)
<1>12. y = v
  <2> HIDE DEF y
  <2> QED
    BY <1>11, BitsOf DEF w, u, y
<1> QED
  BY <1>4, <1>12

\* A number of any width and kind that one build writes is the number any build reads, in either
\* order, and the bytes of the two orders mirror each other (endian.h, data_view.h).
THEOREM EveryNumberPortable ==
  ASSUME NEW ty \in Types, NEW v \in RangeOf(ty)
  PROVE  Portable(v, ty)
<1> SUFFICES ASSUME NEW w \in Hosts, NEW r \in Hosts
             PROVE  /\ readLE(r, writeLE(w, v, ty), 0, ty) = v
                    /\ readBE(r, writeBE(w, v, ty), 0, ty) = v
                    /\ writeBE(w, v, ty) = Reverse(writeLE(r, v, ty))
  BY DEF Portable
<1> DEFINE n == ty.w
           d == Digits(Unsigned(v, n), n)
           e == Reverse(d)
<1>1. w \in Builds /\ r \in Builds /\ n \in Nat /\ "little" # "big"
  BY ByteOrderAssumption DEF Types
<1>2. d \in ByteSeqs(n) /\ e \in ByteSeqs(n)
  <2>1. d \in ByteSeqs(n)
    BY <1>1, WrittenBytes
  <2> QED
    BY <1>1, <2>1, Mirror
<1>3. writeLE(w, v, ty) = d /\ writeLE(r, v, ty) = d /\ writeBE(w, v, ty) = e
  <2>1. \A h \in {w, r}, o \in {"little", "big"} :
           writeNative(h, Convert(h, o, v, ty), ty) = Ordered(o, d)
    BY <1>1, WrittenBytes
  <2> QED
    BY <1>1, <2>1 DEF writeLE, writeBE, Ordered
<1>4. SubSeq(d, 0 + 1, 0 + n) = d /\ SubSeq(e, 0 + 1, 0 + n) = e
  <2>1. \A x \in ByteSeqs(n) : SubSeq(x, 0 + 1, 0 + n) = x
    <3> SUFFICES ASSUME NEW x \in ByteSeqs(n) PROVE SubSeq(x, 0 + 1, 0 + n) = x
      OBVIOUS
    <3>1. x \in Seq(Int) /\ Len(x) = n /\ 0 + 1 = 1 /\ 0 + n = n
      BY <1>1, ByteSeqLen
    <3> QED
      BY <3>1, SubSeqFull
  <2> HIDE DEF d, e
  <2> QED
    BY <1>2, <2>1
<1>5. ASSUME NEW o \in {"little", "big"}, NEW x, NEW off,
             SubSeq(x, off + 1, off + ty.w) = Ordered(o, Digits(Unsigned(v, ty.w), ty.w))
      PROVE  Convert(r, o, readNative(r, x, off, ty), ty) = v
  BY <1>1, <1>5, ReadBytes
<1>6. readLE(r, writeLE(w, v, ty), 0, ty) = v
  <2>1. SubSeq(d, 0 + 1, 0 + ty.w) = Ordered("little", Digits(Unsigned(v, ty.w), ty.w))
    BY <1>4 DEF Ordered
  <2> HIDE DEF d, e
  <2>2. Convert(r, "little", readNative(r, d, 0, ty), ty) = v
    BY <1>1, <1>5, <2>1
  <2> QED
    BY <1>3, <2>2 DEF readLE
<1>7. readBE(r, writeBE(w, v, ty), 0, ty) = v
  <2>1. SubSeq(e, 0 + 1, 0 + ty.w) = Ordered("big", Digits(Unsigned(v, ty.w), ty.w))
    BY <1>1, <1>4 DEF Ordered
  <2> HIDE DEF e
  <2>2. Convert(r, "big", readNative(r, e, 0, ty), ty) = v
    BY <1>1, <1>5, <2>1
  <2> QED
    BY <1>3, <2>2 DEF readBE
<1>8. writeBE(w, v, ty) = Reverse(writeLE(r, v, ty))
  BY <1>3
<1> QED
  BY <1>6, <1>7, <1>8

\* Every number the code puts into memory, of each of its types, is portable, and the compilers'
\* swaps are the shifts of bswap_slow, for any numbers and any bytes (endian.h).
THEOREM NumbersTravel ==
  ASSUME number \in Int
  PROVE  NumbersPortable
<1> DEFINE n == Pattern
<1>1. n \in Int
  <2>1. Power(4) \in Nat
    BY PowerStep
  <2> DEFINE p == 3 * Power(4) + 1
  <2>2. p \in Int
    BY <2>1
  <2> HIDE DEF p
  <2>3. number * p \in Int
    BY <2>2
  <2> QED
    BY <2>3 DEF Pattern, p
<1> HIDE DEF n
<1>2. ASSUME NEW ty \in {CHAR, INT, UINT, LL, ULL, DOUBLE} PROVE Portable(Cast(n, ty), ty)
  <2>1. ty \in Types
    BY DEF CHAR, INT, UINT, LL, ULL, DOUBLE, Ty, Types
  <2>2. ty.w \in Nat
    BY <2>1 DEF Types
  <2>3. Unsigned(n, ty.w) \in Words(ty.w)
    BY <1>1, <2>2, UnsignedInRange
  <2>4. Cast(n, ty) \in RangeOf(ty)
    BY <2>1, <2>3, BitsOf DEF Cast
  <2> QED
    BY <2>1, <2>4, EveryNumberPortable
<1>3. \A w \in {2, 4, 8} : bswap_slow(Unsigned(n, w), w) = Builtin(Unsigned(n, w), w)
  <2> SUFFICES ASSUME NEW w \in Nat PROVE bswap_slow(Unsigned(n, w), w) = Builtin(Unsigned(n, w), w)
    OBVIOUS
  <2> QED
    BY <1>1, UnsignedInRange, SlowIsBuiltin
<1> QED
  BY <1>2, <1>3 DEF NumbersPortable, n
=============================================================================
