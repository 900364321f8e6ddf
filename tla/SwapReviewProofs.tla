--------------------------- MODULE SwapReviewProofs ----------------------------
(***************************************************************************)
(* What is signed for a swap is that swap: the properties of SwapReview,   *)
(* proved for all swaps, messages and constants.                           *)
(*                                                                         *)
(* The first part is about texts: an amount has one text, and the texts of *)
(* two amounts compare as the amounts do.  The second part is about the    *)
(* printers: which items show that a message is more than a transfer, and  *)
(* that those of a pattern are of its instructions.  The last part is the  *)
(* invariant of the comparison and what follows from it for a signature.   *)
(***************************************************************************)
EXTENDS SwapReview, TransactionReviewProofs

-------------------------------------------------------------------------------
(* The powers of ten. *)

\* The recursion of Power10 is well founded.
LEMMA PowersExist ==
  \E f : f = [n \in Nat |-> IF n = 0 THEN 1 ELSE 10 * f[n - 1]]
  <1> DEFINE P == Nat \ {0}
             Powers(n, g) == /\ g \in [0..n -> P] /\ g[0] = 1
                             /\ \A k \in 1..n : g[k] = 10 * g[k - 1]
  <1>1. \A n \in Nat : \E g : Powers(n, g)
    <2> TAKE n \in Nat
    <2> DEFINE step == [p \in (1..n) \X P |-> 10 * p[2]]
    <2>1. step \in [(1..n) \X P -> P]
      <3>1. ASSUME NEW p \in (1..n) \X P PROVE 10 * p[2] \in P
        <4> PICK q \in P : q = p[2]
          OBVIOUS
        <4> QED
          OBVIOUS
      <3> QED
        BY <3>1
    <2>2. 1 \in P
      OBVIOUS
    <2>3. HasTable(n, P, 1, step)
      <3> HIDE DEF P, step
      <3> QED
        BY <2>1, <2>2, TableExists
    <2>4. PICK g \in [0..n -> P] : Tabulated(n, 1, step, g)
      BY <2>3 DEF HasTable
    <2>5. ASSUME NEW k \in 1..n PROVE g[k] = 10 * g[k - 1]
      <3>1. k - 1 \in 0..n /\ g[k - 1] \in P
        OBVIOUS
      <3>2. g[k] = step[k, g[k - 1]]
        BY <2>4 DEF Tabulated
      <3> QED
        BY <3>1, <3>2
    <2>6. g[0] = 1
      BY <2>4 DEF Tabulated
    <2> QED
      BY <2>5, <2>6
  <1>2. ASSUME NEW n \in Nat, NEW g, Powers(n, g), NEW m \in Nat, NEW h, Powers(m, h), n <= m
        PROVE  g[n] = h[n]
    <2> DEFINE A == {k \in Nat : k <= n => g[k] = h[k]}
    <2>1. 0 \in A
      BY <1>2
    <2>2. ASSUME NEW k \in Nat, k \in A PROVE k + 1 \in A
      <3> SUFFICES ASSUME k + 1 <= n PROVE g[k + 1] = h[k + 1]
        OBVIOUS
      <3>1. k + 1 \in 1..n /\ k + 1 \in 1..m /\ (k + 1) - 1 = k /\ g[k] = h[k]
        BY <1>2, <2>2
      <3> QED
        BY <1>2, <3>1
    <2>3. Nat \subseteq A
      <3> HIDE DEF A
      <3> QED
        BY <2>1, <2>2, Induction
    <2> QED
      BY <2>3
  <1> DEFINE g(n) == CHOOSE g : Powers(n, g)
             f == [n \in Nat |-> g(n)[n]]
  <1>3. \A n \in Nat : Powers(n, g(n))
    BY <1>1
  <1> HIDE DEF g
  <1>4. \A n \in Nat : f[n] = IF n = 0 THEN 1 ELSE 10 * f[n - 1]
    <2> TAKE n \in Nat
    <2>1. CASE n = 0
      BY <1>3, <2>1
    <2>2. CASE n # 0
      <3>1. n - 1 \in Nat /\ n \in 1..n /\ n - 1 <= n
        BY <2>2
      <3>2. g(n)[n] = 10 * g(n)[n - 1]
        BY <1>3, <3>1
      <3>3. g(n - 1)[n - 1] = g(n)[n - 1]
        <4> HIDE DEF Powers
        <4> QED
          BY <1>2, <1>3, <3>1
      <3> QED
        BY <2>2, <3>1, <3>2, <3>3
    <2> QED
      BY <2>1, <2>2
  <1>5. f = [n \in Nat |-> IF n = 0 THEN 1 ELSE 10 * f[n - 1]]
    <2> DEFINE h == [n \in Nat |-> IF n = 0 THEN 1 ELSE 10 * f[n - 1]]
    <2>1. \A n \in Nat : f[n] = h[n]
      <3> HIDE DEF f
      <3> QED
        BY <1>4
    <2>2. DOMAIN f = Nat /\ DOMAIN h = Nat
      OBVIOUS
    <2> QED
      BY <2>1, <2>2
  <1> QED
    BY <1>5

\* What the powers of ten are.
LEMMA Powers ==
  /\ Power10[0] = 1
  /\ \A n \in Nat : Power10[n + 1] = 10 * Power10[n]
  /\ \A n \in Nat : Power10[n] \in Nat \ {0} /\ Power10[n] > n
  <1> DEFINE p == CHOOSE f : f = [n \in Nat |-> IF n = 0 THEN 1 ELSE 10 * f[n - 1]]
  <1>1. p = [n \in Nat |-> IF n = 0 THEN 1 ELSE 10 * p[n - 1]]
    BY PowersExist
  <1>2. Power10 = p
    BY DEF Power10
  <1> HIDE DEF p
  <1>3. \A n \in Nat : p[n] = IF n = 0 THEN 1 ELSE 10 * p[n - 1]
    BY <1>1
  <1>4. p[0] = 1 /\ \A n \in Nat : p[n + 1] = 10 * p[n]
    <2>1. \A n \in Nat : n + 1 \in Nat /\ n + 1 # 0 /\ (n + 1) - 1 = n
      OBVIOUS
    <2> QED
      BY <1>3, <2>1
  <1> DEFINE A == {n \in Nat : p[n] \in Nat \ {0} /\ p[n] > n}
  <1>5. 0 \in A
    BY <1>4
  <1>6. ASSUME NEW n \in Nat, n \in A PROVE n + 1 \in A
    <2>1. p[n + 1] = 10 * p[n] /\ p[n] \in Nat /\ p[n] > n
      BY <1>4, <1>6
    <2> QED
      BY <2>1
  <1>7. Nat \subseteq A
    <2> HIDE DEF A
    <2> QED
      BY <1>5, <1>6, Induction
  <1> QED
    BY <1>2, <1>4, <1>7

\* The power of a sum is the product of the powers.
LEMMA PowerSum ==
  \A m \in Nat, n \in Nat : Power10[m + n] = Power10[m] * Power10[n]
  <1> TAKE m \in Nat
  <1> DEFINE A == {n \in Nat : Power10[m + n] = Power10[m] * Power10[n]}
             p == Power10[m]
  <1>1. 0 \in A
    <2>1. m + 0 = m /\ Power10[0] = 1 /\ p \in Nat
      BY Powers
    <2> HIDE DEF p
    <2>2. p * 1 = p
      BY <2>1
    <2> QED
      BY <2>1, <2>2 DEF p
  <1>2. ASSUME NEW n \in Nat, n \in A PROVE n + 1 \in A
    <2> DEFINE q == Power10[n]
    <2>1. m + n \in Nat /\ (m + n) + 1 = m + (n + 1)
      OBVIOUS
    <2>2. /\ Power10[m + (n + 1)] = 10 * Power10[m + n]
          /\ Power10[n + 1] = 10 * q /\ p \in Nat /\ q \in Nat
      BY Powers, <2>1
    <2>3. Power10[m + n] = p * q
      BY <1>2
    <2> HIDE DEF p, q
    <2>4. 10 * (p * q) = p * (10 * q)
      BY <2>2
    <2>5. Power10[m + (n + 1)] = p * Power10[n + 1]
      BY <2>2, <2>3, <2>4
    <2> QED
      BY <2>5 DEF p
  <1>3. Nat \subseteq A
    <2> HIDE DEF A
    <2> QED
      BY <1>1, <1>2, Induction
  <1> QED
    BY <1>3

\* A greater exponent has a greater power.
LEMMA PowerGrows ==
  \A m \in Nat, n \in Nat : m <= n => Power10[m] <= Power10[n]
  <1> SUFFICES ASSUME NEW m \in Nat, NEW n \in Nat, m <= n PROVE Power10[m] <= Power10[n]
    OBVIOUS
  <1> DEFINE p == Power10[m]
             q == Power10[n - m]
  <1>1. n - m \in Nat /\ m + (n - m) = n
    OBVIOUS
  <1>2. Power10[n] = p * q
    BY <1>1, PowerSum
  <1>3. p \in Nat \ {0} /\ q \in Nat \ {0}
    BY <1>1, Powers
  <1> HIDE DEF p, q
  <1>4. p * 1 <= p * q /\ p * 1 = p
    BY <1>3, ProductMonotone
  <1> QED
    BY <1>2, <1>4 DEF p

\* A set of numbers that is not empty has a least one.
LEMMA MinOfNumbers ==
  ASSUME NEW S \in SUBSET Nat, S # {}
  PROVE  Min(S) \in S /\ \A y \in S : Min(S) <= y
  <1>1. PICK n \in S : \A k \in S : <<k, n>> \notin OpToRel(<, Nat)
    BY NatLessThanWellFounded, WFMin
  <1>2. \A k \in S : n <= k
    <2> TAKE k \in S
    <2>1. k \in Nat /\ n \in Nat
      OBVIOUS
    <2>2. k < n => <<k, n>> \in OpToRel(<, Nat)
      BY <2>1, SMT DEF OpToRel
    <2>3. ~ (k < n)
      BY <1>1, <2>2
    <2> QED
      BY <2>1, <2>3
  <1> QED
    BY <1>2 DEF Min

\* How many digits a number has.
LEMMA DigitsCounted ==
  ASSUME NEW v \in Nat
  PROVE  /\ NumDigits(v) \in Nat \ {0}
         /\ v < Power10[NumDigits(v)]
         /\ NumDigits(v) > 1 => Power10[NumDigits(v) - 1] <= v
  <1> DEFINE S == {n \in 1..(v + 1) : v < Power10[n]}
             m == Min(S)
  <1>1. v + 1 \in S
    <2>1. Power10[v + 1] \in Nat /\ Power10[v + 1] > v + 1
      BY Powers
    <2> QED
      BY <2>1
  <1>2. S \in SUBSET Nat
    OBVIOUS
  <1>3. m \in S /\ \A y \in S : m <= y
    <2> HIDE DEF S
    <2> QED
      BY <1>1, <1>2, MinOfNumbers
  <1>4. m \in 1..(v + 1) /\ v < Power10[m]
    BY <1>3
  <1>5. ASSUME m > 1 PROVE v >= Power10[m - 1]
    <2>1. m - 1 \in 1..(v + 1) /\ m - 1 \in Nat /\ ~ (m <= m - 1)
      BY <1>4, <1>5
    <2>2. m - 1 \notin S
      BY <1>3, <2>1
    <2>3. Power10[m - 1] \in Nat
      BY <2>1, Powers
    <2> QED
      BY <2>1, <2>2, <2>3
  <1> HIDE DEF S, m
  <1> DEFINE Fits(n) == v < Power10[n] /\ (n > 1 => v >= Power10[n - 1])
             c == CHOOSE n \in 1..(v + 1) : Fits(n)
  <1>6. \E n \in 1..(v + 1) : Fits(n)
    BY <1>4, <1>5
  <1>7. c \in 1..(v + 1) /\ Fits(c)
    <2> HIDE DEF Fits
    <2> QED
      BY <1>6
  <1>8. NumDigits(v) = c
    BY DEF NumDigits
  <1> HIDE DEF c
  <1> QED
    BY <1>7, <1>8

-------------------------------------------------------------------------------
(* Quotients. *)

\* The quotient is the only one with a remainder below the divisor.
LEMMA QuotientIs ==
  ASSUME NEW q \in Nat, NEW d \in Nat \ {0}, NEW r \in Nat, r < d
  PROVE  (q * d + r) \div d = q
  <1>1. r \div d = 0
    BY SMT
  <1>2. (q * d + r) \div d = q + r \div d
    BY DivideApart
  <1> QED
    BY <1>1, <1>2

\* A quotient is divided once more.
LEMMA QuotientAgain ==
  ASSUME NEW a \in Nat, NEW d \in Nat \ {0}
  PROVE  a \div (10 * d) = (a \div d) \div 10
  <1> DEFINE q == a \div d
             r == a % d
             t == q \div 10
             u == q % 10
  <1>1. q \in Nat /\ r \in 0..(d - 1) /\ a = q * d + r
    BY Division
  <1>2. t \in Nat /\ u \in 0..9 /\ q = t * 10 + u
    <2> HIDE DEF q
    <2> QED
      BY <1>1
  <1> HIDE DEF q, r, t, u
  <1> DEFINE s == u * d + r
  <1>3. q * d = t * (10 * d) + u * d
    BY <1>1, <1>2
  <1>4. u * d \in Nat /\ u * d <= 9 * d
    BY <1>2, ProductMonotone
  <1> DEFINE x == u * d
  <1>5. s \in Nat /\ s < 10 * d
    <2>1. x \in Nat /\ x <= 9 * d
      BY <1>4
    <2> HIDE DEF x
    <2>2. x + r \in Nat /\ x + r < 10 * d
      BY <1>1, <2>1
    <2> QED
      BY <2>2 DEF x
  <1>6. a = t * (10 * d) + s
    <2> DEFINE y == t * (10 * d)
    <2>1. x \in Nat /\ y \in Nat
      BY <1>2, <1>4
    <2>2. a = (y + x) + r
      BY <1>1, <1>3
    <2> HIDE DEF x, y
    <2>3. a = y + (x + r)
      BY <1>1, <2>1, <2>2
    <2> QED
      BY <2>3 DEF x, y
  <1>7. 10 * d \in Nat \ {0}
    OBVIOUS
  <1>8. (t * (10 * d) + s) \div (10 * d) = t
    <2> DEFINE e == 10 * d
    <2>1. e \in Nat \ {0} /\ s \in Nat /\ s < e
      BY <1>5, <1>7
    <2> HIDE DEF s, e
    <2>2. (t * e + s) \div e = t
      BY <1>2, <2>1, QuotientIs
    <2> QED
      BY <2>2 DEF e
  <1> QED
    BY <1>6, <1>8 DEF q, t

\* A common factor of a number and its divisor.
LEMMA QuotientScaled ==
  ASSUME NEW a \in Nat, NEW d \in Nat \ {0}, NEW c \in Nat \ {0}
  PROVE  (a * c) \div (d * c) = a \div d
  <1> DEFINE q == a \div d
             r == a % d
             e == d * c
             s == r * c
  <1>1. q \in Nat /\ r \in 0..(d - 1) /\ a = q * d + r
    BY Division
  <1> HIDE DEF q, r
  <1>2. a * c = q * e + s
    BY <1>1
  <1>3. e \in Nat \ {0} /\ s \in Nat /\ s < e
    <2>1. s <= (d - 1) * c /\ s \in Nat
      BY <1>1, ProductMonotone
    <2>2. (d - 1) * c = d * c - c /\ d * c \in Nat
      BY SMT
    <2> DEFINE x == d * c
    <2>3. s \in Nat /\ s <= x - c /\ x \in Nat
      BY <2>1, <2>2
    <2> HIDE DEF s, x
    <2>4. s < x /\ x \in Nat \ {0}
      BY <2>3
    <2> QED
      BY <2>3, <2>4 DEF x
  <1> HIDE DEF e, s
  <1>4. (q * e + s) \div e = q
    BY <1>1, <1>3, QuotientIs
  <1> QED
    BY <1>2, <1>4 DEF e, q

-------------------------------------------------------------------------------
(* The digits of a number. *)

\* The digit at a position of n, the most significant one first.
DigitAt(v, n, k) == (v \div Power10[n - k]) % 10

\* Every digit continues the number that the digits before it are.
LEMMA DigitContinues ==
  ASSUME NEW v \in Nat, NEW n \in Nat, NEW k \in 1..n
  PROVE  /\ DigitAt(v, n, k) \in 0..9
         /\ v \div Power10[n - k] \in Nat /\ v \div Power10[n - (k - 1)] \in Nat
         /\ v \div Power10[n - k]
              = 10 * (v \div Power10[n - (k - 1)]) + DigitAt(v, n, k)
  <1> DEFINE d == Power10[n - k]
             q == v \div d
  <1>1. n - k \in Nat /\ (n - k) + 1 = n - (k - 1)
    OBVIOUS
  <1>2. d \in Nat \ {0} /\ Power10[n - (k - 1)] = 10 * d
    BY <1>1, Powers
  <1>3. q \in Nat
    <2> HIDE DEF d
    <2> QED
      BY <1>2, Division
  <1>4. v \div (10 * d) = q \div 10
    <2> HIDE DEF d
    <2> QED
      BY <1>2, QuotientAgain DEF q
  <1>5. DigitAt(v, n, k) = q % 10
    BY DEF DigitAt
  <1> HIDE DEF d, q
  <1>6. q = 10 * (q \div 10) + (q % 10) /\ q % 10 \in 0..9 /\ q \div 10 \in Nat
    BY <1>3
  <1> QED
    BY <1>2, <1>3, <1>4, <1>5, <1>6 DEF d, q

\* Numbers with the same first digits begin with the same number.
LEMMA SameBeginning ==
  ASSUME NEW v \in Nat, NEW w \in Nat, NEW n \in Nat, v < Power10[n], w < Power10[n],
         NEW j \in 0..n, \A k \in 1..j : DigitAt(v, n, k) = DigitAt(w, n, k)
  PROVE  v \div Power10[n - j] = w \div Power10[n - j]
  <1> DEFINE A == {k \in Nat : k <= j => v \div Power10[n - k] = w \div Power10[n - k]}
  <1>1. 0 \in A
    <2> DEFINE d == Power10[n]
    <2>1. d \in Nat \ {0} /\ n - 0 = n
      BY Powers
    <2>2. v < d /\ w < d
      OBVIOUS
    <2> HIDE DEF d
    <2>3. v \div d = 0 /\ w \div d = 0
      BY <2>1, <2>2
    <2> QED
      BY <2>1, <2>3 DEF d
  <1>2. ASSUME NEW k \in Nat, k \in A PROVE k + 1 \in A
    <2> SUFFICES ASSUME k + 1 <= j PROVE v \div Power10[n - (k + 1)] = w \div Power10[n - (k + 1)]
      OBVIOUS
    <2>1. k + 1 \in 1..n /\ k + 1 \in 1..j /\ n - ((k + 1) - 1) = n - k
      OBVIOUS
    <2>2. v \div Power10[n - k] = w \div Power10[n - k]
      BY <1>2
    <2>3. DigitAt(v, n, k + 1) = DigitAt(w, n, k + 1)
      BY <2>1
    <2>4. /\ v \div Power10[n - (k + 1)]
               = 10 * (v \div Power10[n - ((k + 1) - 1)]) + DigitAt(v, n, k + 1)
          /\ w \div Power10[n - (k + 1)]
               = 10 * (w \div Power10[n - ((k + 1) - 1)]) + DigitAt(w, n, k + 1)
      BY <2>1, DigitContinues
    <2> QED
      BY <2>1, <2>2, <2>3, <2>4
  <1>3. Nat \subseteq A
    <2> HIDE DEF A
    <2> QED
      BY <1>1, <1>2, Induction
  <1> QED
    BY <1>3

\* Numbers with the same digits are the same.
LEMMA SameDigits ==
  ASSUME NEW v \in Nat, NEW w \in Nat, NEW n \in Nat, v < Power10[n], w < Power10[n],
         \A k \in 1..n : DigitAt(v, n, k) = DigitAt(w, n, k)
  PROVE  v = w
  <1>1. v \div Power10[n - n] = w \div Power10[n - n]
    <2>1. n \in 0..n
      OBVIOUS
    <2> QED
      BY <2>1, SameBeginning
  <1>2. n - n = 0 /\ Power10[0] = 1
    BY Powers
  <1>3. v \div 1 = v /\ w \div 1 = w
    OBVIOUS
  <1> QED
    BY <1>1, <1>2, <1>3

\* The first digit that differs decides.
LEMMA FirstDigitDecides ==
  ASSUME NEW v \in Nat, NEW w \in Nat, NEW n \in Nat, v < Power10[n], w < Power10[n],
         NEW j \in 1..n, \A k \in 1..(j - 1) : DigitAt(v, n, k) = DigitAt(w, n, k),
         DigitAt(v, n, j) > DigitAt(w, n, j)
  PROVE  v > w
  <1> DEFINE d == Power10[n - j]
             p == v \div d
             q == w \div d
             b == v \div Power10[n - (j - 1)]
             x == DigitAt(v, n, j)
             y == DigitAt(w, n, j)
  <1>1. j - 1 \in 0..n /\ n - j \in Nat
    OBVIOUS
  <1>2. b = w \div Power10[n - (j - 1)]
    BY <1>1, SameBeginning
  <1>3. /\ p = 10 * b + x /\ q = 10 * b + y
        /\ p \in Nat /\ q \in Nat /\ b \in Nat /\ x \in Nat /\ y \in Nat
    <2>1. p = 10 * b + x /\ x \in Nat /\ p \in Nat /\ b \in Nat
      <3>1. x \in 0..9 /\ p \in Nat /\ b \in Nat /\ p = 10 * b + x
        BY DigitContinues
      <3> QED
        BY <3>1
    <2>2. q = 10 * b + y /\ y \in Nat /\ q \in Nat
      <3>1. y \in 0..9 /\ q \in Nat /\ q = 10 * (w \div Power10[n - (j - 1)]) + y
        BY DigitContinues
      <3> HIDE DEF b, q, y
      <3> QED
        BY <1>2, <3>1
    <2> QED
      BY <2>1, <2>2
  <1>4. x > y /\ d \in Nat \ {0}
    BY <1>1, Powers
  <1>5. p > q
    <2> HIDE DEF p, q, b, x, y
    <2> QED
      BY <1>3, <1>4
  <1> HIDE DEF d
  <1>6. v <= w => p <= q
    <2> SUFFICES ASSUME v <= w PROVE p <= q
      OBVIOUS
    <2>1. p * d <= v
      BY <1>4, QuotientTimes
    <2>2. p * d <= w
      <3> DEFINE z == p * d
      <3>1. z \in Nat /\ z <= v
        <4> HIDE DEF p
        <4> QED
          BY <1>3, <1>4, <2>1 DEF p
      <3> HIDE DEF z
      <3>2. z <= w
        BY <3>1
      <3> QED
        BY <3>2 DEF z
    <2> HIDE DEF p
    <2> QED
      BY <1>3, <1>4, <2>2, WithinQuotient
  <1> HIDE DEF p, q
  <1> QED
    BY <1>3, <1>5, <1>6

\* More decimals are more zeros.
LEMMA DigitsScaled ==
  ASSUME NEW v \in Nat, NEW n \in Nat, NEW c \in Nat, NEW k \in 1..(n + c)
  PROVE  DigitAt(v * Power10[c], n + c, k) = IF k <= n THEN DigitAt(v, n, k) ELSE 0
  <1> DEFINE e == Power10[c]
  <1>1. e \in Nat \ {0}
    BY Powers
  <1>2. CASE k <= n
    <2> DEFINE d == Power10[n - k]
    <2>1. n - k \in Nat /\ (n + c) - k = (n - k) + c
      BY <1>2
    <2>2. d \in Nat \ {0} /\ Power10[(n + c) - k] = d * e
      BY <2>1, Powers, PowerSum
    <2> HIDE DEF d, e
    <2>3. (v * e) \div (d * e) = v \div d
      BY <1>1, <2>2, QuotientScaled
    <2> QED
      BY <1>2, <2>2, <2>3 DEF DigitAt, d, e
  <1>3. CASE ~ (k <= n)
    <2> DEFINE m == (n + c) - k
               d == Power10[m]
               f == Power10[c - m - 1]
    <2>1. m \in Nat /\ c - m - 1 \in Nat /\ c = ((c - m - 1) + 1) + m
      BY <1>3
    <2>2. e = (10 * f) * d /\ f \in Nat /\ d \in Nat \ {0}
      <3>1. Power10[((c - m - 1) + 1) + m] = Power10[(c - m - 1) + 1] * Power10[m]
        <4>1. (c - m - 1) + 1 \in Nat
          BY <2>1
        <4> QED
          BY <2>1, <4>1, PowerSum
      <3>2. Power10[(c - m - 1) + 1] = 10 * f
        BY <2>1, Powers
      <3>3. f \in Nat /\ d \in Nat \ {0}
        BY <2>1, Powers
      <3> QED
        BY <2>1, <3>1, <3>2, <3>3
    <2> HIDE DEF d, e, f
    <2> DEFINE g == v * f
    <2>3. g \in Nat
      BY <2>2
    <2>4. v * e = (10 * g) * d
      BY <2>2
    <2> HIDE DEF g
    <2>5. ((10 * g) * d + 0) \div d = 10 * g
      BY <2>2, <2>3, QuotientIs
    <2>6. (10 * g) * d + 0 = (10 * g) * d
      BY <2>2, <2>3
    <2>7. (10 * g) % 10 = 0
      BY <2>3
    <2>8. (v * e) \div d = 10 * g
      BY <2>4, <2>5, <2>6
    <2> QED
      BY <1>3, <2>7, <2>8 DEF DigitAt, d, e
  <1> QED
    BY <1>2, <1>3


-------------------------------------------------------------------------------
(* The texts of amounts. *)

\* The character of a digit.
Char(x) == DigitChars[x + 1]

\* What amounts are written with.
Marks == ToSet(DigitChars) \union {Dot}

\* The digits are told apart from each other and from what is between them.
LEMMA CharsDiffer ==
  /\ Dot \in Marks /\ Dot # Gap /\ Dot # "0" /\ ~ IsDigit(Dot)
  /\ \A x \in 0..9 : /\ Char(x) \in Marks /\ Char(x) # Dot /\ Char(x) # Gap
                     /\ IsDigit(Char(x)) /\ DigitOf(Char(x)) = x
                     /\ Char(x) = "0" <=> x = 0
  /\ \A x, y \in 0..9 : Char(x) = Char(y) => x = y
  <1>0. DOMAIN DigitChars = 1..10
    BY DEF DigitChars
  <1>1. \A n \in 1..10 : /\ DigitChars[n] # Dot /\ DigitChars[n] # Gap
                         /\ DigitChars[n] = "0" <=> n = 1
    <2> DEFINE C == {"0", "1", "2", "3", "4", "5", "6", "7", "8", "9"}
    <2>1. \A n \in 1..10 : DigitChars[n] \in C
      BY DEF DigitChars
    <2>2. Dot \notin C /\ Gap \notin C
      BY Zenon DEF Dot, Gap
    <2>3. \A n \in 1..10 : DigitChars[n] = "0" <=> n = 1
      BY DEF DigitChars
    <2> QED
      BY <2>1, <2>2, <2>3
  <1>2. \A m, n \in 1..10 : DigitChars[m] = DigitChars[n] => m = n
    BY DEF DigitChars
  <1>3. \A x \in 0..9 : x + 1 \in 1..10 /\ (x + 1) - 1 = x
    OBVIOUS
  <1>4. \A n \in 1..10 : DigitChars[n] \in ToSet(DigitChars)
    BY <1>0 DEF ToSet
  <1>5. ASSUME NEW x \in 0..9 PROVE DigitOf(Char(x)) = x
    <2> DEFINE c == Char(x)
               m == CHOOSE n \in 1..10 : DigitChars[n] = c
    <2>1. \E n \in 1..10 : DigitChars[n] = c
      BY <1>3 DEF Char
    <2>2. m \in 1..10 /\ DigitChars[m] = c
      <3> HIDE DEF c
      <3> QED
        BY <2>1
    <2>3. m = x + 1
      <3> HIDE DEF m
      <3> QED
        BY <1>2, <1>3, <2>2 DEF Char
    <2> QED
      BY <1>3, <2>3 DEF DigitOf
  <1>6. ASSUME NEW x \in 0..9
        PROVE  /\ Char(x) \in Marks /\ Char(x) # Dot /\ Char(x) # Gap
               /\ IsDigit(Char(x))
    <2>1. x + 1 \in 1..10
      BY <1>3
    <2>2. DigitChars[x + 1] \in ToSet(DigitChars)
      BY <1>4, <2>1
    <2>3. DigitChars[x + 1] # Dot /\ DigitChars[x + 1] # Gap
      BY <1>1, <2>1
    <2> QED
      BY <2>2, <2>3 DEF Char, IsDigit, Marks
  <1>7. ASSUME NEW x \in 0..9 PROVE Char(x) = "0" <=> x = 0
    BY <1>1, <1>3 DEF Char
  <1>8. ASSUME NEW x \in 0..9, NEW y \in 0..9, Char(x) = Char(y) PROVE x = y
    BY <1>5, <1>8
  <1>9. Dot \in Marks /\ Dot # Gap
    <2>1. Dot # Gap
      BY Zenon DEF Dot, Gap
    <2> QED
      BY <2>1 DEF Marks
  <1>10. ~ IsDigit(Dot)
    BY <1>0, <1>1 DEF IsDigit, ToSet
  <1>11. Dot # "0"
    BY <1>1
  <1> QED
    BY <1>5, <1>6, <1>7, <1>8, <1>9, <1>10, <1>11

\* How many digits are written: those of the value, and one more than there are
\* decimals.
Width(v, decimals) == Max({NumDigits(v), decimals + 1})

\* All the digits are written, and no zero before those of a unit.
LEMMA WidthIs ==
  ASSUME NEW v \in Nat, NEW d \in Nat
  PROVE  /\ Width(v, d) \in Nat /\ Width(v, d) >= d + 1
         /\ v < Power10[Width(v, d)]
         /\ Width(v, d) > d + 1 => Power10[Width(v, d) - 1] <= v
  <1> DEFINE a == NumDigits(v)
             S == {a, d + 1}
             n == Max(S)
  <1>1. a \in Nat \ {0} /\ v < Power10[a] /\ (a > 1 => Power10[a - 1] <= v)
    BY DigitsCounted
  <1> HIDE DEF a
  <1>2. S \in SUBSET (1..(a + d + 1)) /\ S # {} /\ a + d + 1 \in Nat
    BY <1>1
  <1>3. n \in S /\ \A y \in S : y <= n
    <2> HIDE DEF S
    <2> QED
      BY <1>2, MaxOfRange
  <1>4. Width(v, d) = n
    BY DEF Width, a
  <1> HIDE DEF n
  <1>5. n \in Nat /\ n >= a /\ n >= d + 1 /\ (n = a \/ n = d + 1)
    BY <1>1, <1>3
  <1>6. Power10[a] \in Nat /\ Power10[n] \in Nat /\ Power10[a] <= Power10[n]
    BY <1>1, <1>5, Powers, PowerGrows
  <1>7. v < Power10[n]
    BY <1>1, <1>6
  <1> QED
    BY <1>1, <1>4, <1>5, <1>7

\* raw is v with all its n digits and a point before the last d of them.
Laid(raw, v, d, n) ==
  /\ raw \in Seq(Marks) /\ Len(raw) = n + 1
  /\ \A k \in 1..(n - d) : raw[k] = Char(DigitAt(v, n, k))
  /\ raw[(n - d) + 1] = Dot
  /\ \A k \in 1..d : raw[(n - d) + 1 + k] = Char(DigitAt(v, n, (n - d) + k))

\* A value as it is written before zeros are stripped.
LEMMA RawIs ==
  ASSUME NEW v \in Nat, NEW d \in Nat
  PROVE  Laid(Unstripped(v, d), v, d, Width(v, d))
  <1>0. PICK n : n = Width(v, d)
    OBVIOUS
  <1> DEFINE ds == Digits(v, n)
             i == n - d
             a == SubSeq(ds, 1, i)
             b == SubSeq(ds, i + 1, n)
  <1>1. n \in Nat /\ n >= d + 1
    BY <1>0, WidthIs
  <1>2. \A k \in 1..n : DigitAt(v, n, k) \in 0..9
    BY <1>1, DigitContinues
  <1>3. /\ ds \in Seq(Marks) /\ Len(ds) = n
        /\ \A k \in 1..n : ds[k] = Char(DigitAt(v, n, k)) /\ ds[k] \in Marks
    <2>1. ds = [k \in 1..n |-> Char(DigitAt(v, n, k))]
      BY DEF Digits, Char, DigitAt
    <2>2. \A k \in 1..n : Char(DigitAt(v, n, k)) \in Marks
      BY <1>2, CharsDiffer
    <2> QED
      BY <1>1, <2>1, <2>2
  <1>4. i \in 1..n /\ n = i + d
    BY <1>1
  <1> HIDE DEF ds
  <1>5. /\ a \in Seq(Marks) /\ Len(a) = i
        /\ \A k \in 1..i : a[k] = ds[k]
    BY <1>3, <1>4
  <1>6. /\ b \in Seq(Marks) /\ Len(b) = d
        /\ \A k \in 1..d : b[k] = ds[i + k]
    <2>1. i + 1 \in 1..(Len(ds) + 1) /\ n \in i..Len(ds)
      BY <1>3, <1>4
    <2>2. \A k \in (i + 1)..n : ds[k] \in Marks
      BY <1>3, <1>4
    <2> HIDE DEF i
    <2>3. /\ b \in Seq(Marks) /\ Len(b) = n - (i + 1) + 1
          /\ \A k \in 1..(n - (i + 1) + 1) : b[k] = ds[(i + 1) + k - 1]
      BY <1>3, <1>4, <2>1, <2>2, SubSeqProperties
    <2>4. n - (i + 1) + 1 = d /\ \A k \in 1..d : (i + 1) + k - 1 = i + k
      BY <1>4
    <2> QED
      BY <2>3, <2>4
  <1>7. Unstripped(v, d) = a \o <<Dot>> \o b
    BY <1>0 DEF Unstripped, Width, ds
  <1> HIDE DEF a, b, i
  <1> DEFINE u == a \o <<Dot>>
             w == u \o b
  <1>15. Dot \in Marks
    BY DEF Marks
  <1>8. <<Dot>> \in Seq(Marks) /\ Len(<<Dot>>) = 1 /\ <<Dot>>[1] = Dot
    BY <1>15
  <1>9. /\ u \in Seq(Marks) /\ Len(u) = i + 1 /\ u[i + 1] = Dot
        /\ \A k \in 1..i : u[k] = a[k]
    BY <1>4, <1>5, <1>8
  <1> HIDE DEF u
  <1>10. /\ w \in Seq(Marks) /\ Len(w) = i + 1 + d
         /\ \A k \in 1..(i + 1) : w[k] = u[k]
         /\ \A k \in 1..d : w[i + 1 + k] = b[k]
    <2>1. /\ w \in Seq(Marks) /\ Len(w) = Len(u) + Len(b)
          /\ \A k \in 1..(Len(u) + Len(b)) :
               w[k] = IF k <= Len(u) THEN u[k] ELSE b[k - Len(u)]
      BY <1>6, <1>9, ConcatProperties
    <2> HIDE DEF w
    <2>2. ASSUME NEW k \in 1..d PROVE w[i + 1 + k] = b[k]
      <3> DEFINE j == i + 1 + k
      <3>1. j \in 1..(Len(u) + Len(b)) /\ ~ (j <= Len(u)) /\ j - Len(u) = k
        BY <1>4, <1>6, <1>9
      <3> HIDE DEF j
      <3>2. w[j] = b[k]
        BY <2>1, <3>1
      <3> QED
        BY <3>2 DEF j
    <2>3. Len(u) = i + 1 /\ Len(b) = d /\ i \in Nat /\ d \in Nat
      BY <1>4, <1>6, <1>9
    <2>4. Len(w) = i + 1 + d
      BY <2>1, <2>3
    <2>5. ASSUME NEW k \in 1..(i + 1) PROVE w[k] = u[k]
      <3>1. k \in 1..(Len(u) + Len(b)) /\ k <= Len(u)
        BY <2>3
      <3> QED
        BY <2>1, <3>1
    <2> QED
      BY <2>1, <2>2, <2>4, <2>5
  <1> HIDE DEF w
  <1>11. Unstripped(v, d) = w
    BY <1>7 DEF u, w
  <1>12. /\ w[i + 1] = Dot /\ Len(w) = n + 1
         /\ \A k \in 1..i : w[k] = Char(DigitAt(v, n, k))
    BY <1>3, <1>4, <1>5, <1>9, <1>10
  <1>13. \A k \in 1..d : w[i + 1 + k] = Char(DigitAt(v, n, i + k))
    <2> TAKE k \in 1..d
    <2>1. i + k \in 1..n
      BY <1>4
    <2> QED
      BY <1>3, <1>6, <1>10, <2>1
  <1>14. Laid(w, v, d, n)
    BY <1>10, <1>12, <1>13 DEF i, Laid
  <1> QED
    BY <1>0, <1>11, <1>14

\* What is stripped of a text with a point at p: zeros after it, and then the point.
LEMMA StripIs ==
  ASSUME NEW raw \in Seq(Marks), NEW p \in 2..Len(raw), raw[p] = Dot,
         \A k \in 1..Len(raw) : k # p => raw[k] # Dot
  PROVE  \E m \in (p - 1)..Len(raw) :
           /\ m # p /\ Strip(raw) = SubSeq(raw, 1, m)
           /\ \A k \in (m + 1)..Len(raw) : k # p => raw[k] = "0"
  <1> DEFINE S == {n \in 1..Len(raw) : n = 1 \/ raw[n] # "0"}
             kept == Max(S)
             m == IF raw[kept] = Dot THEN kept - 1 ELSE kept
  <1>1. Len(raw) \in Nat /\ p \in S /\ S \in SUBSET (1..Len(raw))
    BY CharsDiffer
  <1>2. kept \in S /\ \A y \in S : y <= kept
    <2> HIDE DEF S
    <2> QED
      BY <1>1, MaxOfRange
  <1>3. Strip(raw) = SubSeq(raw, 1, m)
    BY DEF Strip
  <1> HIDE DEF kept
  <1>4. kept \in p..Len(raw) /\ \A k \in (kept + 1)..Len(raw) : raw[k] = "0"
    BY <1>1, <1>2
  <1> HIDE DEF S
  <1>5. CASE kept = p
    <2>1. m = p - 1
      BY <1>5
    <2> HIDE DEF m
    <2> QED
      BY <1>3, <1>4, <1>5, <2>1
  <1>6. CASE kept # p
    <2>1. m = kept
      BY <1>4, <1>6
    <2> HIDE DEF m
    <2> QED
      BY <1>3, <1>4, <1>6, <2>1
  <1> QED
    BY <1>5, <1>6

\* The numeric text t writes v with d decimals: its digits are those of v in n
\* places, without zeros at the end of the fraction.
Writes(t, v, d, n) ==
  /\ v \in Nat /\ d \in Nat /\ n \in Nat /\ n >= d + 1
  /\ v < Power10[n] /\ (n > d + 1 => Power10[n - 1] <= v)
  /\ t \in Seq(Marks) /\ IntegerLength(t) = n - d /\ n - d <= Len(t)
  /\ \A k \in 1..(n - d) : t[k] = Char(DigitAt(v, n, k))
  /\ Fraction(t) \in Seq(Marks) /\ Len(Fraction(t)) <= d
  /\ \A k \in 1..d : IF k <= Len(Fraction(t))
                     THEN Fraction(t)[k] = Char(DigitAt(v, n, (n - d) + k))
                     ELSE DigitAt(v, n, (n - d) + k) = 0

\* print_token_amount writes a value so, in a form validate_numeric_part takes.
LEMMA AmountWritten ==
  ASSUME NEW v \in Nat, NEW d \in Nat, NEW t, t = Strip(Unstripped(v, d))
  PROVE  /\ Writes(t, v, d, Width(v, d))
         /\ ValidNumeric(t)
         /\ \A k \in 1..Len(t) : t[k] # Gap
  <1>0. PICK n : n = Width(v, d)
    OBVIOUS
  <1> DEFINE i == n - d
             p == i + 1
             raw == Unstripped(v, d)
  <1>1. n \in Nat /\ n >= d + 1 /\ v < Power10[n] /\ (n > d + 1 => Power10[n - 1] <= v)
    BY <1>0, WidthIs
  <1>2. /\ raw \in Seq(Marks) /\ Len(raw) = n + 1 /\ raw[p] = Dot
        /\ \A k \in 1..i : raw[k] = Char(DigitAt(v, n, k))
        /\ \A k \in 1..d : raw[p + k] = Char(DigitAt(v, n, i + k))
    <2>1. Laid(raw, v, d, n)
      BY <1>0, RawIs
    <2> HIDE DEF raw
    <2> QED
      BY <2>1 DEF Laid
  <1> HIDE DEF raw
  <1>3. i \in Nat \ {0} /\ p \in 2..Len(raw) /\ Len(raw) = p + d /\ n = i + d
    <2>1. i \in Nat \ {0} /\ n = i + d
      BY <1>1
    <2>2. Len(raw) = p + d
      BY <1>2, <2>1
    <2> QED
      BY <2>1, <2>2
  <1>4. \A k \in 1..n : DigitAt(v, n, k) \in 0..9
    BY <1>1, DigitContinues
  <1>5. \A k \in 1..Len(raw) : k # p =>
          \E x \in 0..9 : raw[k] = Char(x)
    <2> SUFFICES ASSUME NEW k \in 1..Len(raw), k # p PROVE \E x \in 0..9 : raw[k] = Char(x)
      OBVIOUS
    <2>1. CASE k < p
      <3>1. k \in 1..i /\ k \in 1..n
        BY <1>3, <2>1
      <3> QED
        BY <1>2, <1>4, <3>1
    <2>2. CASE ~ (k < p)
      <3> DEFINE j == k - p
      <3>1. j \in 1..d /\ i + j \in 1..n /\ p + j = k
        BY <1>3, <2>2
      <3> HIDE DEF j
      <3>2. raw[p + j] = Char(DigitAt(v, n, i + j))
        BY <1>2, <3>1
      <3> QED
        BY <1>4, <3>1, <3>2
    <2> QED
      BY <2>1, <2>2
  <1>6. \A k \in 1..Len(raw) : k # p => raw[k] # Dot /\ raw[k] # Gap /\ IsDigit(raw[k])
    BY <1>5, CharsDiffer
  <1> HIDE DEF i, p
  <1>7. PICK m \in (p - 1)..Len(raw) :
          /\ m # p /\ Strip(raw) = SubSeq(raw, 1, m)
          /\ \A k \in (m + 1)..Len(raw) : k # p => raw[k] = "0"
    BY <1>2, <1>3, <1>6, StripIs
  <1>8. t = SubSeq(raw, 1, m)
    BY <1>7 DEF raw
  <1>9. /\ t \in Seq(Marks) /\ Len(t) = m
        /\ \A k \in 1..m : t[k] = raw[k]
    <2>1. \A k \in 1..m : raw[k] \in Marks
      BY <1>2, <1>3, <1>7
    <2>2. m \in Nat /\ m >= 1
      BY <1>3, <1>7
    <2>3. /\ SubSeq(raw, 1, m) \in Seq(Marks) /\ Len(SubSeq(raw, 1, m)) = m
          /\ \A k \in 1..m : SubSeq(raw, 1, m)[k] = raw[1 + k - 1]
      <3>1. m - 1 + 1 = m /\ 1 <= m
        BY <2>2
      <3> QED
        BY <2>1, <2>2, <3>1, SubSeqProperties
    <2> QED
      BY <1>8, <2>2, <2>3
  <1>10. p = i + 1 /\ Dot \in Marks /\ Dot # Gap
    BY CharsDiffer DEF p
  <1>11. Points(t) = IF m < p THEN {} ELSE {p}
    BY <1>2, <1>3, <1>6, <1>7, <1>9 DEF Points
  <1>12. IntegerLength(t) = i
    <2>1. CASE m < p
      <3>1. m = i /\ Points(t) = {}
        BY <1>3, <1>7, <1>10, <1>11, <2>1
      <3> QED
        BY <1>9, <3>1 DEF IntegerLength
    <2>2. CASE ~ (m < p)
      <3>1. Points(t) = {p} /\ {p} \in SUBSET Nat /\ {p} # {}
        BY <1>3, <1>11, <2>2
      <3>2. Min({p}) \in {p}
        BY <3>1, MinOfNumbers
      <3>3. Min({p}) = p /\ p - 1 = i
        BY <1>3, <1>10, <3>2
      <3> QED
        BY <3>1, <3>3 DEF IntegerLength
    <2> QED
      BY <2>1, <2>2
  <1>13. ValidNumeric(t)
    <2>1. t # <<>>
      BY <1>3, <1>7, <1>9
    <2>2. \A k \in 1..Len(t) : t[k] = Dot \/ IsDigit(t[k])
      BY <1>2, <1>3, <1>6, <1>7, <1>9
    <2>3. Cardinality(Points(t)) <= 1
      <3>1. Cardinality({}) = 0 /\ Cardinality({p}) = 1
        BY FS_EmptySet, FS_Singleton
      <3> QED
        BY <1>11, <3>1
    <2>4. {1, Len(t)} \intersect Points(t) = {}
      BY <1>3, <1>7, <1>9, <1>11
    <2> QED
      BY <2>1, <2>2, <2>3, <2>4 DEF ValidNumeric
  <1>14. \A k \in 1..Len(t) : t[k] # Gap
    BY <1>2, <1>3, <1>6, <1>7, <1>9, <1>10
  <1> DEFINE f == Fraction(t)
             l == IF m < p THEN 0 ELSE m - p
  <1>15. /\ f \in Seq(Marks) /\ Len(f) = l
         /\ \A k \in 1..l : f[k] = t[p + k]
    <2>1. f = SubSeq(t, p + 1, m)
      BY <1>3, <1>9, <1>10, <1>12 DEF Fraction
    <2>2. \A k \in (p + 1)..m : t[k] \in Marks
      BY <1>3, <1>7, <1>9
    <2>3. m \in Int /\ p + 1 \in Int
      BY <1>3, <1>7
    <2>4. /\ f \in Seq(Marks) /\ Len(f) = IF p + 1 <= m THEN m - (p + 1) + 1 ELSE 0
          /\ \A k \in 1..(m - (p + 1) + 1) : f[k] = t[(p + 1) + k - 1]
      <3> DEFINE g == SubSeq(t, p + 1, m)
      <3>1. /\ g \in Seq(Marks) /\ Len(g) = IF p + 1 <= m THEN m - (p + 1) + 1 ELSE 0
            /\ \A k \in 1..(m - (p + 1) + 1) : g[k] = t[(p + 1) + k - 1]
        BY <2>2, <2>3, SubSeqProperties
      <3> QED
        BY <2>1, <3>1
    <2> HIDE DEF f
    <2>5. Len(f) = l
      BY <1>3, <1>7, <2>3, <2>4
    <2>6. ASSUME NEW k \in 1..l PROVE f[k] = t[p + k]
      <3>1. k \in 1..(m - (p + 1) + 1) /\ (p + 1) + k - 1 = p + k
        BY <1>3, <2>3
      <3> QED
        BY <2>4, <3>1
    <2> QED
      BY <2>4, <2>5, <2>6
  <1> HIDE DEF f
  <1>16. l \in Nat /\ l <= d
    BY <1>3, <1>7
  <1>17. ASSUME NEW k \in 1..d
         PROVE  IF k <= l THEN f[k] = Char(DigitAt(v, n, i + k)) ELSE DigitAt(v, n, i + k) = 0
    <2> DEFINE j == p + k
    <2>1. raw[j] = Char(DigitAt(v, n, i + k)) /\ DigitAt(v, n, i + k) \in 0..9
      <3>1. i + k \in 1..n
        BY <1>3
      <3> QED
        BY <1>2, <1>4, <3>1
    <2>2. CASE k <= l
      <3>1. j \in 1..m
        BY <1>3, <1>7, <2>2
      <3>2. f[k] = t[j]
        BY <1>15, <1>16, <2>2
      <3> HIDE DEF j
      <3> QED
        BY <1>9, <2>1, <2>2, <3>1, <3>2
    <2>3. CASE ~ (k <= l)
      <3>1. j \in (m + 1)..Len(raw) /\ j # p
        BY <1>3, <1>7, <2>3
      <3> HIDE DEF j
      <3>2. raw[j] = "0"
        BY <1>7, <3>1
      <3> QED
        BY <2>1, <2>3, <3>2, CharsDiffer
    <2> QED
      BY <2>2, <2>3
  <1>18. \A k \in 1..i : t[k] = Char(DigitAt(v, n, k))
    <2> TAKE k \in 1..i
    <2>1. k \in 1..m
      BY <1>3, <1>7, <1>10
    <2> QED
      BY <1>2, <1>9, <2>1
  <1>19. i <= Len(t) /\ i = n - d
    BY <1>3, <1>7, <1>9, <1>10
  <1>20. Writes(t, v, d, n)
    BY <1>1, <1>9, <1>12, <1>15, <1>16, <1>17, <1>18, <1>19 DEF Writes, f
  <1> QED
    BY <1>0, <1>13, <1>14, <1>20

\* The same text is that of the value with more decimals.
LEMMA WrittenScaled ==
  ASSUME NEW t, NEW v, NEW d, NEW n, Writes(t, v, d, n), NEW c \in Nat
  PROVE  Writes(t, v * Power10[c], d + c, n + c)
  <1> DEFINE w == v * Power10[c]
             e == d + c
             m == n + c
             p == Power10[c]
             f == Fraction(t)
  <1>1. /\ v \in Nat /\ d \in Nat /\ n \in Nat /\ n >= d + 1
        /\ v < Power10[n] /\ (n > d + 1 => Power10[n - 1] <= v)
        /\ t \in Seq(Marks) /\ IntegerLength(t) = n - d /\ n - d <= Len(t)
        /\ \A k \in 1..(n - d) : t[k] = Char(DigitAt(v, n, k))
        /\ f \in Seq(Marks) /\ Len(f) <= d
        /\ \A k \in 1..d : IF k <= Len(f)
                           THEN f[k] = Char(DigitAt(v, n, (n - d) + k))
                           ELSE DigitAt(v, n, (n - d) + k) = 0
    BY DEF Writes
  <1> HIDE DEF f
  <1>0. /\ v \in Nat /\ d \in Nat /\ n \in Nat /\ n >= d + 1 /\ m - 1 = (n - 1) + c
        /\ n > d + 1 => Power10[n - 1] <= v
    BY <1>1
  <1>2. p \in Nat \ {0}
    BY Powers
  <1>3. w \in Nat /\ w < Power10[m]
    <2> DEFINE q == Power10[n]
    <2>1. Power10[m] = q * p /\ q \in Nat \ {0}
      BY <1>1, PowerSum, Powers
    <2>2. v < q
      BY <1>1
    <2> HIDE DEF p, q
    <2>3. v * p \in Nat /\ v * p <= (q - 1) * p
      BY <1>1, <1>2, <2>1, <2>2, ProductMonotone
    <2>4. (q - 1) * p = q * p - p /\ q * p \in Nat
      BY <1>2, <2>1
    <2> DEFINE x == v * p
               y == q * p
    <2>5. x \in Nat /\ y \in Nat /\ x <= y - p
      BY <2>3, <2>4
    <2> HIDE DEF x, y
    <2>6. x < y
      BY <1>2, <2>5
    <2> QED
      BY <2>1, <2>5, <2>6 DEF p, x, y
  <1>4. m > e + 1 => Power10[m - 1] <= w
    <2> SUFFICES ASSUME m > e + 1 PROVE Power10[m - 1] <= w
      OBVIOUS
    <2> DEFINE k == n - 1
               q == Power10[k]
    <2>1. k \in Nat /\ q <= v /\ m - 1 = k + c
      BY <1>0
    <2>2. Power10[k + c] = q * p /\ q \in Nat
      <3> HIDE DEF k
      <3>1. Power10[k + c] = Power10[k] * Power10[c]
        BY <2>1, PowerSum
      <3> QED
        BY <2>1, <3>1, Powers
    <2> HIDE DEF p, q
    <2>3. q * p <= v * p
      BY <1>0, <1>2, <2>1, <2>2, ProductMonotone
    <2> QED
      BY <2>1, <2>2, <2>3 DEF p
  <1>5. e \in Nat /\ m \in Nat /\ m >= e + 1 /\ m - e = n - d
    BY <1>1
  <1>6. \A k \in 1..m : DigitAt(w, m, k) = IF k <= n THEN DigitAt(v, n, k) ELSE 0
    BY <1>1, DigitsScaled
  <1> HIDE DEF w, m, e
  <1>7. \A k \in 1..(m - e) : t[k] = Char(DigitAt(w, m, k))
    <2> TAKE k \in 1..(m - e)
    <2>1. k \in 1..m /\ k <= n /\ k \in 1..(n - d)
      BY <1>1, <1>5
    <2> QED
      BY <1>1, <1>6, <2>1
  <1>8. ASSUME NEW k \in 1..e
        PROVE  IF k <= Len(f) THEN f[k] = Char(DigitAt(w, m, (m - e) + k))
                              ELSE DigitAt(w, m, (m - e) + k) = 0
    <2> DEFINE j == (n - d) + k
    <2>1. j \in 1..m /\ (m - e) + k = j /\ (j <= n <=> k <= d)
      BY <1>1, <1>5
    <2>2. DigitAt(w, m, j) = IF k <= d THEN DigitAt(v, n, j) ELSE 0
      <3> HIDE DEF j
      <3> QED
        BY <1>6, <2>1
    <2>3. CASE k <= d
      <3>1. k \in 1..d
        BY <1>1, <2>3
      <3>2. IF k <= Len(f) THEN f[k] = Char(DigitAt(v, n, j)) ELSE DigitAt(v, n, j) = 0
        BY <1>1, <3>1
      <3> HIDE DEF j
      <3> QED
        BY <2>1, <2>2, <2>3, <3>2
    <2>4. CASE ~ (k <= d)
      <3>1. ~ (k <= Len(f))
        BY <1>1, <2>4
      <3> HIDE DEF j
      <3> QED
        BY <2>1, <2>2, <2>4, <3>1
    <2> QED
      BY <2>3, <2>4
  <1>9. Len(f) <= e /\ Len(f) \in Nat
    BY <1>1 DEF e
  <1>10. Writes(t, w, e, m)
    BY <1>1, <1>3, <1>4, <1>5, <1>7, <1>8, <1>9 DEF Writes, f
  <1> QED
    BY <1>10 DEF w, e, m

\* A text is of one value.
LEMMA WrittenOnce ==
  ASSUME NEW t, NEW v, NEW w, NEW d, NEW m, NEW n, Writes(t, v, d, m), Writes(t, w, d, n)
  PROVE  v = w
  <1> DEFINE f == Fraction(t)
  <1>1. m = n
    BY DEF Writes
  <1>2. /\ v \in Nat /\ w \in Nat /\ d \in Nat /\ n \in Nat /\ n >= d + 1
        /\ v < Power10[n] /\ w < Power10[n]
        /\ \A k \in 1..(n - d) : /\ t[k] = Char(DigitAt(v, n, k))
                                 /\ t[k] = Char(DigitAt(w, n, k))
        /\ \A k \in 1..d : IF k <= Len(f)
                           THEN /\ f[k] = Char(DigitAt(v, n, (n - d) + k))
                                /\ f[k] = Char(DigitAt(w, n, (n - d) + k))
                           ELSE /\ DigitAt(v, n, (n - d) + k) = 0
                                /\ DigitAt(w, n, (n - d) + k) = 0
    BY <1>1 DEF Writes
  <1> HIDE DEF f
  <1>3. \A k \in 1..n : DigitAt(v, n, k) \in 0..9 /\ DigitAt(w, n, k) \in 0..9
    BY <1>2, DigitContinues
  <1>4. ASSUME NEW k \in 1..n PROVE DigitAt(v, n, k) = DigitAt(w, n, k)
    <2>1. CASE k <= n - d
      <3>1. k \in 1..(n - d)
        BY <1>2, <2>1
      <3> QED
        BY <1>2, <1>3, <3>1, CharsDiffer
    <2>2. CASE ~ (k <= n - d)
      <3> DEFINE j == k - (n - d)
      <3>1. j \in 1..d /\ (n - d) + j = k
        BY <1>2, <2>2
      <3> HIDE DEF j
      <3>2. \/ Char(DigitAt(v, n, k)) = Char(DigitAt(w, n, k))
            \/ DigitAt(v, n, k) = DigitAt(w, n, k)
        BY <1>2, <3>1
      <3> QED
        BY <1>3, <3>2, CharsDiffer
    <2> QED
      BY <2>1, <2>2
  <1> QED
    BY <1>2, <1>4, SameDigits

\* The first difference of two texts of one length.
LEMMA DifferenceIs ==
  ASSUME NEW s \in Seq(Marks), NEW t \in Seq(Marks), Len(s) = Len(t),
         NEW x, x = FirstDifference(s, t)
  PROVE  \/ x = 0 /\ \A k \in 1..Len(s) : s[k] = t[k]
         \/ /\ x \in 1..Len(s) /\ x # 0 /\ s[x] # t[x]
            /\ \A k \in 1..(x - 1) : s[k] = t[k]
  <1> DEFINE D == {n \in 1..Len(s) : s[n] # t[n]}
  <1>1. x = IF D = {} THEN 0 ELSE Min(D)
    BY DEF FirstDifference
  <1>2. CASE D = {}
    BY <1>1, <1>2
  <1>3. CASE D # {}
    <2>1. D \in SUBSET Nat
      OBVIOUS
    <2>2. x \in D /\ \A y \in D : x <= y
      <3> HIDE DEF D
      <3> QED
        BY <1>1, <1>3, <2>1, MinOfNumbers
    <2>3. x \in 1..Len(s) /\ x # 0 /\ s[x] # t[x]
      BY <2>2
    <2>4. ASSUME NEW k \in 1..(x - 1) PROVE s[k] = t[k]
      <3>1. k \in 1..Len(s) /\ ~ (x <= k)
        BY <2>3
      <3> QED
        BY <2>2, <3>1
    <2> QED
      BY <2>3, <2>4
  <1> QED
    BY <1>2, <1>3

\* A fraction with zeros at its end.
LEMMA PaddedIs ==
  ASSUME NEW s \in Seq(Marks), NEW n \in Nat, Len(s) <= n
  PROVE  /\ Padded(s, n) \in Seq(Marks) /\ Len(Padded(s, n)) = n
         /\ \A k \in 1..n : Padded(s, n)[k] = IF k <= Len(s) THEN s[k] ELSE Char(0)
  <1> DEFINE z == [k \in 1..(n - Len(s)) |-> "0"]
             r == s \o z
  <1>1. 0 \in 0..9 /\ Char(0) = "0" /\ "0" \in Marks
    <2>1. 0 \in 0..9
      OBVIOUS
    <2> QED
      BY <2>1, CharsDiffer
  <1>2. n - Len(s) \in Nat /\ Len(s) \in Nat
    OBVIOUS
  <1>3. /\ z \in Seq(Marks) /\ Len(z) = n - Len(s)
        /\ \A k \in 1..(n - Len(s)) : z[k] = "0"
    BY <1>1, <1>2
  <1> HIDE DEF z
  <1>4. /\ r \in Seq(Marks) /\ Len(r) = Len(s) + Len(z)
        /\ \A k \in 1..(Len(s) + Len(z)) :
             r[k] = IF k <= Len(s) THEN s[k] ELSE z[k - Len(s)]
    BY <1>3, ConcatProperties
  <1> HIDE DEF r
  <1>5. Len(s) + Len(z) = n
    BY <1>2, <1>3
  <1>6. ASSUME NEW k \in 1..n PROVE r[k] = IF k <= Len(s) THEN s[k] ELSE Char(0)
    <2>1. r[k] = IF k <= Len(s) THEN s[k] ELSE z[k - Len(s)]
      BY <1>4, <1>5
    <2>2. CASE k <= Len(s)
      BY <2>1, <2>2
    <2>3. CASE ~ (k <= Len(s))
      <3> DEFINE j == k - Len(s)
      <3>1. j \in 1..(n - Len(s))
        BY <1>2, <2>3
      <3> HIDE DEF j
      <3>2. z[j] = "0"
        BY <1>3, <3>1
      <3> QED
        BY <1>1, <2>1, <2>3, <3>2 DEF j
    <2> QED
      BY <2>2, <2>3
  <1>7. Padded(s, n) = r
    BY DEF Padded, z, r
  <1> QED
    BY <1>4, <1>5, <1>6, <1>7

\* The first digits that differ decide which of two numbers is at least the other.
LEMMA DecidedAt ==
  ASSUME NEW v \in Nat, NEW w \in Nat, NEW n \in Nat, v < Power10[n], w < Power10[n],
         NEW j \in 1..n, \A k \in 1..(j - 1) : DigitAt(v, n, k) = DigitAt(w, n, k),
         NEW a, a = Char(DigitAt(v, n, j)), NEW b, b = Char(DigitAt(w, n, j)), a # b
  PROVE  DigitOf(a) > DigitOf(b) <=> v >= w
  <1> DEFINE x == DigitAt(v, n, j)
             y == DigitAt(w, n, j)
  <1>1. x \in 0..9 /\ y \in 0..9
    BY DigitContinues
  <1>2. DigitOf(a) = x /\ DigitOf(b) = y /\ x # y
    BY <1>1, CharsDiffer
  <1>3. x > y => v > w
    BY FirstDigitDecides
  <1>4. y > x => w > v
    <2>1. \A k \in 1..(j - 1) : DigitAt(w, n, k) = DigitAt(v, n, k)
      OBVIOUS
    <2> QED
      BY <2>1, FirstDigitDecides
  <1> HIDE DEF x, y
  <1> QED
    BY <1>1, <1>2, <1>3, <1>4

\* A longer integer part is of a greater number.
LEMMA LongerIsGreater ==
  ASSUME NEW s, NEW t, NEW v, NEW w, NEW d, NEW m, NEW n,
         Writes(s, v, d, m), Writes(t, w, d, n), m > n
  PROVE  v > w
  <1>1. /\ v \in Nat /\ w \in Nat /\ d \in Nat /\ m \in Nat /\ n \in Nat
        /\ n >= d + 1 /\ w < Power10[n] /\ (m > d + 1 => Power10[m - 1] <= v)
    BY DEF Writes
  <1>2. m - 1 \in Nat /\ n <= m - 1 /\ m > d + 1
    BY <1>1
  <1> DEFINE a == Power10[n]
             b == Power10[m - 1]
  <1>3. a \in Nat /\ b \in Nat /\ a <= b
    BY <1>1, <1>2, Powers, PowerGrows
  <1>4. w < a /\ b <= v
    BY <1>1, <1>2
  <1> HIDE DEF a, b
  <1> QED
    BY <1>1, <1>3, <1>4

\* The numeric parts of amounts with the same decimals are compared as the amounts
\* (the second half of amount_as_string_is_greater_or_equal).
LEMMA NumbersCompared ==
  ASSUME NEW s, NEW t, NEW v, NEW w, NEW d, NEW m, NEW n,
         Writes(s, v, d, m), Writes(t, w, d, n)
  PROVE  NumericAtLeast(s, t) <=> v >= w
  <1> DEFINE i == IntegerLength(s)
             l == IntegerLength(t)
             a == SubSeq(s, 1, i)
             b == SubSeq(t, 1, l)
             f == Fraction(s)
             g == Fraction(t)
             x == FirstDifference(a, b)
  <1>1. /\ v \in Nat /\ d \in Nat /\ m \in Nat /\ m >= d + 1 /\ v < Power10[m]
        /\ s \in Seq(Marks) /\ i = m - d /\ i <= Len(s)
        /\ \A k \in 1..i : s[k] = Char(DigitAt(v, m, k))
        /\ f \in Seq(Marks) /\ Len(f) <= d
        /\ \A k \in 1..d : IF k <= Len(f) THEN f[k] = Char(DigitAt(v, m, i + k))
                                          ELSE DigitAt(v, m, i + k) = 0
    BY DEF Writes
  <1>2. /\ w \in Nat /\ n \in Nat /\ n >= d + 1 /\ w < Power10[n]
        /\ t \in Seq(Marks) /\ l = n - d /\ l <= Len(t)
        /\ \A k \in 1..l : t[k] = Char(DigitAt(w, n, k))
        /\ g \in Seq(Marks) /\ Len(g) <= d
        /\ \A k \in 1..d : IF k <= Len(g) THEN g[k] = Char(DigitAt(w, n, l + k))
                                          ELSE DigitAt(w, n, l + k) = 0
    BY DEF Writes
  <1>3. NumericAtLeast(s, t) <=>
          IF Len(a) # Len(b) THEN Len(a) > Len(b)
          ELSE IF x # 0 THEN DigitOf(a[x]) > DigitOf(b[x])
          ELSE FractionAtLeast(f, g)
    BY DEF NumericAtLeast
  <1> HIDE DEF i, l, f, g
  <1>4. /\ i \in Nat \ {0} /\ a \in Seq(Marks) /\ Len(a) = i
        /\ \A k \in 1..i : a[k] = Char(DigitAt(v, m, k))
    <2>1. i \in Nat \ {0}
      BY <1>1
    <2>2. a \in Seq(Marks) /\ Len(a) = i /\ \A k \in 1..i : a[k] = s[k]
      BY <1>1, <2>1
    <2> HIDE DEF a
    <2> QED
      BY <1>1, <2>1, <2>2
  <1>5. /\ l \in Nat \ {0} /\ b \in Seq(Marks) /\ Len(b) = l
        /\ \A k \in 1..l : b[k] = Char(DigitAt(w, n, k))
    <2>1. l \in Nat \ {0}
      BY <1>1, <1>2
    <2>2. b \in Seq(Marks) /\ Len(b) = l /\ \A k \in 1..l : b[k] = t[k]
      BY <1>2, <2>1
    <2> HIDE DEF b
    <2> QED
      BY <1>2, <2>1, <2>2
  <1> HIDE DEF a, b
  <1>6. CASE m # n
    <2>1. Len(a) # Len(b) /\ (Len(a) > Len(b) <=> m > n)
      BY <1>1, <1>2, <1>4, <1>5, <1>6
    <2>2. m > n => v > w
      BY LongerIsGreater
    <2>3. n > m => w > v
      BY LongerIsGreater
    <2> HIDE DEF x
    <2> QED
      BY <1>1, <1>2, <1>3, <1>6, <2>1, <2>2, <2>3
  <1>7. CASE m = n
    <2>1. i = l /\ Len(a) = Len(b) /\ m = i + d
      BY <1>1, <1>2, <1>4, <1>5, <1>7
    <2>2. \A k \in 1..m : DigitAt(v, m, k) \in 0..9 /\ DigitAt(w, m, k) \in 0..9
      BY <1>1, <1>2, DigitContinues
    <2>3. \/ x = 0 /\ \A k \in 1..i : a[k] = b[k]
          \/ /\ x \in 1..i /\ x # 0 /\ a[x] # b[x]
             /\ \A k \in 1..(x - 1) : a[k] = b[k]
      BY <1>4, <1>5, <2>1, DifferenceIs
    <2> HIDE DEF x
    <2>4. ASSUME NEW k \in 1..i, a[k] = b[k] PROVE DigitAt(v, m, k) = DigitAt(w, m, k)
      <3>1. k \in 1..m /\ k \in 1..l
        BY <1>1, <1>4, <2>1
      <3>2. Char(DigitAt(v, m, k)) = Char(DigitAt(w, m, k))
        BY <1>4, <1>5, <1>7, <2>4, <3>1
      <3> QED
        BY <2>2, <3>1, <3>2, CharsDiffer
    <2>5. CASE x # 0
      <3>1. /\ x \in 1..i /\ x \in 1..l /\ x \in 1..m /\ a[x] # b[x]
            /\ \A k \in 1..(x - 1) : k \in 1..i /\ a[k] = b[k]
        BY <1>1, <1>4, <2>1, <2>3, <2>5
      <3>2. \A k \in 1..(x - 1) : DigitAt(v, m, k) = DigitAt(w, m, k)
        BY <2>4, <3>1
      <3>3. a[x] = Char(DigitAt(v, m, x)) /\ b[x] = Char(DigitAt(w, m, x))
        BY <1>4, <1>5, <1>7, <3>1
      <3>4. DigitOf(a[x]) > DigitOf(b[x]) <=> v >= w
        BY <1>1, <1>2, <1>7, <3>1, <3>2, <3>3, DecidedAt
      <3> QED
        BY <1>3, <2>1, <2>5, <3>4
    <2>6. CASE x = 0
      <3> DEFINE M == {Len(f), Len(g)}
                 e == Max(M)
                 p == Padded(f, e)
                 q == Padded(g, e)
                 y == FirstDifference(p, q)
      <3>1. \A k \in 1..i : DigitAt(v, m, k) = DigitAt(w, m, k)
        BY <2>3, <2>4, <2>6
      <3>2. NumericAtLeast(s, t) <=> y = 0 \/ DigitOf(p[y]) > DigitOf(q[y])
        BY <1>3, <2>1, <2>6 DEF FractionAtLeast
      <3>3. e \in Nat /\ e <= d /\ Len(f) <= e /\ Len(g) <= e
        <4>1. Len(f) \in Nat /\ Len(g) \in Nat /\ M \in SUBSET Nat
          BY <1>1, <1>2
        <4>2. e \in M /\ \A z \in M : e >= z
          <5>1. \E z \in M : \A k \in M : z >= k
            BY <4>1
          <5> HIDE DEF M
          <5> QED
            BY <5>1 DEF Max
        <4> HIDE DEF e
        <4> QED
          BY <1>1, <1>2, <4>1, <4>2
      <3> HIDE DEF M, e
      <3>4. 0 \in 0..9
        OBVIOUS
      <3>5. /\ p \in Seq(Marks) /\ Len(p) = e
            /\ \A k \in 1..e : p[k] = Char(DigitAt(v, m, i + k))
        <4>1. /\ p \in Seq(Marks) /\ Len(p) = e
              /\ \A k \in 1..e : p[k] = IF k <= Len(f) THEN f[k] ELSE Char(0)
          BY <1>1, <3>3, PaddedIs
        <4> HIDE DEF p
        <4>2. ASSUME NEW k \in 1..e PROVE p[k] = Char(DigitAt(v, m, i + k))
          <5>1. k \in 1..d
            BY <1>1, <3>3
          <5> QED
            BY <1>1, <4>1, <5>1
        <4> QED
          BY <4>1, <4>2
      <3>6. /\ q \in Seq(Marks) /\ Len(q) = e
            /\ \A k \in 1..e : q[k] = Char(DigitAt(w, m, i + k))
        <4>1. /\ q \in Seq(Marks) /\ Len(q) = e
              /\ \A k \in 1..e : q[k] = IF k <= Len(g) THEN g[k] ELSE Char(0)
          BY <1>2, <3>3, PaddedIs
        <4> HIDE DEF q
        <4>2. ASSUME NEW k \in 1..e PROVE q[k] = Char(DigitAt(w, m, i + k))
          <5>1. k \in 1..d
            BY <1>1, <3>3
          <5> QED
            BY <1>2, <1>7, <2>1, <4>1, <5>1
        <4> QED
          BY <4>1, <4>2
      <3> HIDE DEF p, q
      <3>7. \/ y = 0 /\ \A k \in 1..e : p[k] = q[k]
            \/ /\ y \in 1..e /\ y # 0 /\ p[y] # q[y]
               /\ \A k \in 1..(y - 1) : p[k] = q[k]
        BY <3>5, <3>6, DifferenceIs
      <3> HIDE DEF y
      <3>8. ASSUME NEW k \in 1..e, p[k] = q[k]
            PROVE  DigitAt(v, m, i + k) = DigitAt(w, m, i + k)
        <4> DEFINE j == i + k
        <4>1. j \in 1..m
          BY <1>1, <1>4, <2>1, <3>3
        <4>2. Char(DigitAt(v, m, j)) = Char(DigitAt(w, m, j))
          BY <3>5, <3>6, <3>8
        <4> HIDE DEF j
        <4>3. DigitAt(v, m, j) = DigitAt(w, m, j)
          BY <2>2, <4>1, <4>2, CharsDiffer
        <4> QED
          BY <4>3 DEF j
      <3>9. CASE y # 0
        <4> DEFINE j == i + y
        <4>1. /\ y \in 1..e /\ j \in 1..m /\ p[y] # q[y]
              /\ \A k \in 1..(y - 1) : k \in 1..e /\ p[k] = q[k]
          BY <1>1, <1>4, <2>1, <3>3, <3>7, <3>9
        <4>2. ASSUME NEW k \in 1..(j - 1) PROVE DigitAt(v, m, k) = DigitAt(w, m, k)
          <5>1. CASE k <= i
            <6>1. k \in 1..i
              BY <1>4, <5>1
            <6> QED
              BY <3>1, <6>1
          <5>2. CASE ~ (k <= i)
            <6> DEFINE z == k - i
            <6>1. z \in 1..(y - 1) /\ i + z = k
              BY <1>4, <3>3, <4>1, <5>2
            <6> HIDE DEF z
            <6>2. DigitAt(v, m, i + z) = DigitAt(w, m, i + z)
              BY <3>8, <4>1, <6>1
            <6> QED
              BY <6>1, <6>2
          <5> QED
            BY <5>1, <5>2
        <4>3. p[y] = Char(DigitAt(v, m, j)) /\ q[y] = Char(DigitAt(w, m, j))
          BY <3>5, <3>6, <4>1
        <4> HIDE DEF j
        <4>4. DigitOf(p[y]) > DigitOf(q[y]) <=> v >= w
          BY <1>1, <1>2, <1>7, <4>1, <4>2, <4>3, DecidedAt
        <4> QED
          BY <3>2, <3>9, <4>4
      <3>10. CASE y = 0
        <4>1. ASSUME NEW k \in 1..m PROVE DigitAt(v, m, k) = DigitAt(w, m, k)
          <5>1. CASE k <= i
            <6>1. k \in 1..i
              BY <1>4, <5>1
            <6> QED
              BY <3>1, <6>1
          <5>2. CASE ~ (k <= i)
            <6> DEFINE z == k - i
            <6>1. z \in 1..d /\ i + z = k
              BY <1>1, <1>4, <2>1, <5>2
            <6> HIDE DEF z
            <6>2. CASE z <= e
              <7>1. z \in 1..e /\ p[z] = q[z]
                BY <1>1, <3>3, <3>7, <3>10, <6>1, <6>2
              <7> QED
                BY <3>8, <6>1, <7>1
            <6>3. CASE ~ (z <= e)
              <7>1. ~ (z <= Len(f)) /\ ~ (z <= Len(g))
                BY <1>1, <1>2, <3>3, <6>1, <6>3
              <7>2. DigitAt(v, m, i + z) = 0 /\ DigitAt(w, n, l + z) = 0
                BY <1>1, <1>2, <6>1, <7>1
              <7> QED
                BY <1>7, <2>1, <6>1, <7>2
            <6> QED
              BY <6>2, <6>3
          <5> QED
            BY <5>1, <5>2
        <4>2. v = w
          BY <1>1, <1>2, <1>7, <4>1, SameDigits
        <4> QED
          BY <1>1, <3>2, <3>10, <4>2
      <3> QED
        BY <3>9, <3>10
    <2> QED
      BY <2>5, <2>6
  <1> QED
    BY <1>6, <1>7

\* The text print_token_amount leaves.
AmountText(value, ticker, decimals) ==
  Strip(Unstripped(value, decimals)) \o <<Gap>> \o ticker

\* The parts of a text around its first space.
LEMMA TextParts ==
  ASSUME NEW t \in Seq(Marks), \A k \in 1..Len(t) : t[k] # Gap,
         NEW S, NEW ticker \in Seq(S), NEW text, text = t \o <<Gap>> \o ticker
  PROVE  /\ NumericPart(text) = t /\ TickerPart(text) = ticker
         /\ HasTicker(text) <=> ticker # <<>>
  <1> DEFINE U == Marks \union S \union {Gap}
             g == <<Gap>>
             s == t \o g
             r == s \o ticker
             n == Len(t) + 1
             l == Len(ticker)
  <1>1. t \in Seq(U) /\ ticker \in Seq(U) /\ g \in Seq(U) /\ Len(g) = 1 /\ g[1] = Gap
    OBVIOUS
  <1> HIDE DEF U, g
  <1>2. n \in Nat \ {0} /\ l \in Nat /\ Len(t) \in Nat
    OBVIOUS
  <1>3. /\ s \in Seq(U) /\ Len(s) = n /\ s[n] = Gap
        /\ \A k \in 1..Len(t) : s[k] = t[k]
    <2>1. /\ s \in Seq(U) /\ Len(s) = Len(t) + Len(g)
          /\ \A k \in 1..(Len(t) + Len(g)) : s[k] = IF k <= Len(t) THEN t[k] ELSE g[k - Len(t)]
      BY <1>1, ConcatProperties
    <2> HIDE DEF s
    <2>2. \A k \in 1..Len(t) : s[k] = t[k]
      BY <1>1, <1>2, <2>1
    <2>3. s[n] = Gap
      <3>1. n \in 1..(Len(t) + Len(g)) /\ ~ (n <= Len(t)) /\ n - Len(t) = 1
        BY <1>1, <1>2
      <3> QED
        BY <1>1, <2>1, <3>1
    <2> QED
      BY <1>1, <2>1, <2>2, <2>3
  <1> HIDE DEF s
  <1>4. /\ r \in Seq(U) /\ Len(r) = n + l
        /\ \A k \in 1..n : r[k] = s[k]
        /\ \A k \in 1..l : r[n + k] = ticker[k]
    <2>1. /\ r \in Seq(U) /\ Len(r) = Len(s) + Len(ticker)
          /\ \A k \in 1..(Len(s) + Len(ticker)) :
               r[k] = IF k <= Len(s) THEN s[k] ELSE ticker[k - Len(s)]
      BY <1>1, <1>3, ConcatProperties
    <2> HIDE DEF r
    <2>2. \A k \in 1..n : r[k] = s[k]
      BY <1>2, <1>3, <2>1
    <2>3. ASSUME NEW k \in 1..l PROVE r[n + k] = ticker[k]
      <3> DEFINE j == n + k
      <3>1. j \in 1..(Len(s) + Len(ticker)) /\ ~ (j <= Len(s)) /\ j - Len(s) = k
        BY <1>2, <1>3
      <3> HIDE DEF j
      <3>2. r[j] = ticker[k]
        BY <2>1, <3>1
      <3> QED
        BY <3>2 DEF j
    <2> QED
      BY <1>3, <2>1, <2>2, <2>3
  <1>5. text = r
    BY DEF r, s, g
  <1> HIDE DEF r
  <1>6. Space(text) = n
    <2> DEFINE P == {k \in 1..Len(r) : r[k] = Gap}
    <2>1. n \in P /\ \A k \in P : n <= k
      <3>1. n \in 1..Len(r) /\ r[n] = Gap
        BY <1>2, <1>3, <1>4
      <3>2. ASSUME NEW k \in 1..Len(r), k < n PROVE r[k] # Gap
        <4>1. k \in 1..Len(t) /\ k \in 1..n
          BY <1>2, <3>2
        <4> QED
          BY <1>3, <1>4, <4>1
      <3> QED
        BY <1>2, <3>1, <3>2
    <2>2. P \in SUBSET Nat /\ P # {}
      BY <2>1
    <2>3. Min(P) \in P /\ \A k \in P : Min(P) <= k
      <3> HIDE DEF P
      <3> QED
        BY <2>2, MinOfNumbers
    <2>4. Min(P) <= n /\ n <= Min(P) /\ Min(P) \in Nat
      <3> HIDE DEF P
      <3> QED
        BY <2>1, <2>2, <2>3
    <2>5. Min(P) = n
      BY <1>2, <2>4
    <2>6. Space(text) = IF P = {} THEN 0 ELSE Min(P)
      BY <1>5 DEF Space
    <2> QED
      BY <2>2, <2>5, <2>6
  <1>7. NumericPart(text) = t
    <2> DEFINE a == SubSeq(r, 1, n - 1)
    <2>1. \A k \in 1..(n - 1) : k \in 1..Len(t) /\ r[k] = t[k] /\ r[k] \in U
      BY <1>1, <1>2, <1>3, <1>4
    <2>2. a \in Seq(U) /\ Len(a) = Len(t) /\ \A k \in 1..Len(t) : a[k] = t[k]
      <3>1. n - 1 \in Int /\ n - 1 = Len(t)
        BY <1>2
      <3>2. /\ a \in Seq(U) /\ Len(a) = IF 1 <= n - 1 THEN n - 1 - 1 + 1 ELSE 0
            /\ \A k \in 1..(n - 1 - 1 + 1) : a[k] = r[1 + k - 1]
        BY <2>1, <3>1, SubSeqProperties
      <3> HIDE DEF a
      <3>3. Len(a) = Len(t)
        BY <1>2, <3>1, <3>2
      <3>4. \A k \in 1..Len(t) : k \in 1..(n - 1 - 1 + 1) /\ 1 + k - 1 = k
        BY <1>2, <3>1
      <3> QED
        BY <2>1, <3>1, <3>2, <3>3, <3>4
    <2> HIDE DEF a
    <2>3. a = t
      BY <1>1, <2>2, SeqEqual
    <2> QED
      BY <1>5, <1>6, <2>3 DEF NumericPart, a
  <1>8. TickerPart(text) = ticker
    <2> DEFINE a == SubSeq(r, n + 1, n + l)
    <2>1. n + 1 \in Int /\ n + l \in Int
      BY <1>2
    <2>2. \A k \in (n + 1)..(n + l) : r[k] \in U
      BY <1>2, <1>4
    <2>3. /\ a \in Seq(U) /\ Len(a) = IF n + 1 <= n + l THEN (n + l) - (n + 1) + 1 ELSE 0
          /\ \A k \in 1..((n + l) - (n + 1) + 1) : a[k] = r[(n + 1) + k - 1]
      BY <2>1, <2>2, SubSeqProperties
    <2> HIDE DEF a
    <2>4. Len(a) = l
      BY <1>2, <2>3
    <2>5. ASSUME NEW k \in 1..l PROVE a[k] = ticker[k]
      <3>1. k \in 1..((n + l) - (n + 1) + 1) /\ (n + 1) + k - 1 = n + k
        BY <1>2
      <3> QED
        BY <1>4, <2>3, <3>1
    <2>6. a = ticker
      BY <1>1, <2>3, <2>4, <2>5, SeqEqual
    <2> QED
      BY <1>4, <1>5, <1>6, <2>6 DEF TickerPart, a
  <1> QED
    BY <1>2, <1>6, <1>7, <1>8 DEF HasTicker

\* What the text of an amount is made of.
LEMMA TextIs ==
  ASSUME NEW v \in Nat, NEW d \in Nat, NEW S, NEW ticker \in Seq(S),
         NEW text, text = AmountText(v, ticker, d)
  PROVE  /\ Writes(NumericPart(text), v, d, Width(v, d))
         /\ ValidNumeric(NumericPart(text))
         /\ TickerPart(text) = ticker
         /\ HasTicker(text) <=> ticker # <<>>
  <1> DEFINE t == Strip(Unstripped(v, d))
  <1>1. /\ Writes(t, v, d, Width(v, d)) /\ ValidNumeric(t)
        /\ \A k \in 1..Len(t) : t[k] # Gap
    BY AmountWritten
  <1>2. t \in Seq(Marks)
    BY <1>1 DEF Writes
  <1>3. text = t \o <<Gap>> \o ticker
    BY DEF AmountText
  <1> HIDE DEF t
  <1>4. /\ NumericPart(text) = t /\ TickerPart(text) = ticker
        /\ HasTicker(text) <=> ticker # <<>>
    BY <1>1, <1>2, <1>3, TextParts
  <1> QED
    BY <1>1, <1>4

\* An amount has one text: coins, and quantities of a coin, that differ are told
\* apart, whatever their decimals are (print_token_amount, as check_swap_amount
\* relies on it).
THEOREM TextsIdentify ==
  ASSUME NEW v \in Nat, NEW d \in Nat, NEW w \in Nat, NEW e \in Nat,
         NEW S, NEW a \in Seq(S), NEW T, NEW b \in Seq(T),
         AmountText(v, a, d) = AmountText(w, b, e)
  PROVE  a = b /\ v * Power10[e] = w * Power10[d]
  <1> DEFINE text == AmountText(v, a, d)
             t == NumericPart(text)
             m == Width(v, d)
             n == Width(w, e)
  <1>1. Writes(t, v, d, m) /\ TickerPart(text) = a
    BY TextIs
  <1>2. Writes(t, w, e, n) /\ TickerPart(text) = b
    BY TextIs
  <1> HIDE DEF text, t, m, n
  <1>3. Writes(t, v * Power10[e], d + e, m + e)
    BY <1>1, WrittenScaled
  <1>4. Writes(t, w * Power10[d], e + d, n + d)
    BY <1>2, WrittenScaled
  <1>5. e + d = d + e
    OBVIOUS
  <1>6. v * Power10[e] = w * Power10[d]
    BY <1>3, <1>4, <1>5, WrittenOnce
  <1> QED
    BY <1>1, <1>2, <1>6

\* The comparison of two texts compares the quantities: for amounts of one coin it
\* says whether the first is at least the second, whatever their decimals are, and
\* of different coins it says no (amount_as_string_is_greater_or_equal, as
\* check_swap_fee relies on it).
THEOREM TextsCompare ==
  ASSUME NEW v \in Nat, NEW d \in Nat, NEW w \in Nat, NEW e \in Nat,
         NEW S, NEW a \in Seq(S), NEW T, NEW b \in Seq(T)
  PROVE  AmountTextAtLeast(AmountText(v, a, d), AmountText(w, b, e)) <=>
           a = b /\ a # <<>> /\ v * Power10[e] >= w * Power10[d]
  <1> DEFINE s == AmountText(v, a, d)
             t == AmountText(w, b, e)
             x == NumericPart(s)
             y == NumericPart(t)
             m == Width(v, d)
             n == Width(w, e)
  <1>1. /\ Writes(x, v, d, m) /\ ValidNumeric(x)
        /\ TickerPart(s) = a /\ (HasTicker(s) <=> a # <<>>)
    BY TextIs
  <1>2. /\ Writes(y, w, e, n) /\ ValidNumeric(y)
        /\ TickerPart(t) = b /\ (HasTicker(t) <=> b # <<>>)
    BY TextIs
  <1>3. AmountTextAtLeast(s, t) <=> a # <<>> /\ a = b /\ NumericAtLeast(x, y)
    <2> HIDE DEF s, t
    <2> QED
      BY <1>1, <1>2 DEF AmountTextAtLeast
  <1> HIDE DEF s, t, x, y, m, n
  <1>4. Writes(x, v * Power10[e], d + e, m + e)
    BY <1>1, WrittenScaled
  <1>5. Writes(y, w * Power10[d], e + d, n + d)
    BY <1>2, WrittenScaled
  <1>6. e + d = d + e
    OBVIOUS
  <1>7. NumericAtLeast(x, y) <=> v * Power10[e] >= w * Power10[d]
    BY <1>4, <1>5, <1>6, NumbersCompared
  <1> QED
    BY <1>3, <1>7 DEF s, t

-------------------------------------------------------------------------------
(* What the items of a pattern are of. *)

\* Every item asked for is of instructions at some of the positions A.
OnlyOf(rs, A) ==
  /\ IsSequence(rs)
  /\ \A n \in DOMAIN rs : rs[n].item.of # {} /\ rs[n].item.of \subseteq A

\* The functions that ask for items of instructions at A ask for no others.
LEMMA OnlyOfParts ==
  ASSUME NEW A
  PROVE  /\ \A i, f : i.at \in A => OnlyOf(Primary(i, f), A) /\ OnlyOf(General(i, f), A)
         /\ OnlyOf(<<>>, A)
         /\ \A i, c : i.at \in A => OnlyOf(Authority(i, c), A)
         /\ \A a, b : OnlyOf(a, A) /\ OnlyOf(b, A) => OnlyOf(a \o b, A)
  <1>1. ASSUME NEW r, r.item.of # {}, r.item.of \subseteq A PROVE OnlyOf(<<r>>, A)
    <2>1. DOMAIN <<r>> = {1} /\ <<r>>[1] = r
      OBVIOUS
    <2> QED
      BY <1>1, <2>1, OneRequest DEF OnlyOf
  <1>2. ASSUME NEW i, NEW f, i.at \in A
        PROVE  OnlyOf(Primary(i, f), A) /\ OnlyOf(General(i, f), A)
    <2>1. \A slot : LET r == Request(slot, Item({i}, f), FALSE)
                    IN r.item.of # {} /\ r.item.of \subseteq A
      BY <1>2 DEF Request, Item
    <2> QED
      BY <1>1, <2>1 DEF Primary, General
  <1>3. OnlyOf(<<>>, A)
    BY NoRequest DEF OnlyOf
  <1>4. ASSUME NEW i, NEW c, i.at \in A PROVE OnlyOf(Authority(i, c), A)
    <2>1. CASE ShowAuthority(i, c)
      BY <1>2, <1>4, <2>1 DEF Authority, When
    <2>2. CASE ~ ShowAuthority(i, c)
      BY <1>3, <2>2 DEF Authority, When
    <2> QED
      BY <2>1, <2>2
  <1>5. ASSUME NEW a, NEW b, OnlyOf(a, A), OnlyOf(b, A) PROVE OnlyOf(a \o b, A)
    <2> DEFINE t == a \o b
    <2>1. IsSequence(t)
      BY <1>5, Concatenated DEF OnlyOf
    <2>2. \A n \in DOMAIN t : \/ \E k \in DOMAIN a : t[n] = a[k]
                              \/ \E k \in DOMAIN b : t[n] = b[k]
      <3>1. PICK S, T : a \in Seq(S) /\ b \in Seq(T)
        BY <1>5 DEF OnlyOf, IsSequence
      <3>2. a \in Seq(S \union T) /\ b \in Seq(S \union T)
        BY <3>1, SeqMonotonic
      <3>3. /\ t \in Seq(S \union T) /\ Len(t) = Len(a) + Len(b)
            /\ Len(a) \in Nat /\ Len(b) \in Nat
            /\ DOMAIN a = 1..Len(a) /\ DOMAIN b = 1..Len(b) /\ DOMAIN t = 1..Len(t)
            /\ \A n \in 1..(Len(a) + Len(b)) : t[n] = IF n <= Len(a) THEN a[n] ELSE b[n - Len(a)]
        BY <3>2, ConcatProperties, LenProperties
      <3> HIDE DEF t
      <3> QED
        BY <3>3
    <2> HIDE DEF t
    <2>3. OnlyOf(t, A)
      BY <1>5, <2>1, <2>2 DEF OnlyOf
    <2> QED
      BY <2>3 DEF t
  <1> QED
    BY <1>2, <1>3, <1>4, <1>5

\* The items of a System instruction are its own.
LEMMA SystemOnlyOf ==
  ASSUME NEW i, NEW c, NEW A, i.at \in A, i.kind \in SystemKinds
  PROVE  OnlyOf(SystemInfo(i, c), A)
  <1>1. CASE i.kind = "SystemTransfer"
    BY <1>1, OnlyOfParts DEF SystemInfo, When, SystemTransfer
  <1>2. CASE i.kind = "SystemAdvanceNonceAccount"
    BY <1>2, OnlyOfParts DEF SystemInfo, SystemAdvanceNonce
  <1>3. CASE i.kind \in {"SystemCreateAccount", "SystemCreateAccountWithSeed"}
    BY <1>3, OnlyOfParts DEF SystemInfo, When, CreateAccount, CreateAccountFields, BaseAndSeed
  <1>4. CASE i.kind = "SystemInitializeNonceAccount"
    BY <1>4, OnlyOfParts DEF SystemInfo, InitializeNonce
  <1>5. CASE i.kind = "SystemWithdrawNonceAccount"
    BY <1>5, OnlyOfParts DEF SystemInfo, SystemWithdrawNonce
  <1>6. CASE i.kind = "SystemAuthorizeNonceAccount"
    BY <1>6, OnlyOfParts DEF SystemInfo, SystemAuthorizeNonce
  <1>7. CASE i.kind = "SystemAssign"
    BY <1>7, OnlyOfParts DEF SystemInfo, SystemAssign
  <1>8. CASE i.kind = "SystemAllocate"
    BY <1>8, OnlyOfParts DEF SystemInfo, SystemAllocate
  <1>9. CASE i.kind = "SystemAllocateWithSeed"
    BY <1>9, OnlyOfParts DEF SystemInfo, When, AllocateWithSeed, BaseAndSeed
  <1> QED
    BY <1>1, <1>2, <1>3, <1>4, <1>5, <1>6, <1>7, <1>8, <1>9 DEF SystemKinds

\* The items of an initialized stake account are its own.
LEMMA StakeInitializeOnlyOf ==
  ASSUME NEW i, NEW c, NEW A, i.at \in A
  PROVE  OnlyOf(StakeInitialize(i, c), A)
  <1> DEFINE rest == IF i.has \intersect {"lockupTime", "lockupEpoch"} # {}
                     THEN When("lockupTime" \in i.has, General(i, "unix_timestamp"))
                            \o When("lockupEpoch" \in i.has, General(i, "epoch"))
                            \o General(i, "custodian")
                     ELSE When(c.expert, General(i, "no_lockup"))
  <1>1. OnlyOf(rest, A)
    <2>1. CASE i.has \intersect {"lockupTime", "lockupEpoch"} # {}
      BY <2>1, OnlyOfParts DEF When
    <2>2. CASE ~ i.has \intersect {"lockupTime", "lockupEpoch"} # {}
      BY <2>2, OnlyOfParts DEF When
    <2> QED
      BY <2>1, <2>2
  <1>2. OnlyOf(StakeAuthorities(i), A)
    BY OnlyOfParts DEF StakeAuthorities
  <1>3. StakeInitialize(i, c) = StakeAuthorities(i) \o rest
    BY DEF StakeInitialize
  <1> HIDE DEF rest
  <1>4. \A a, b : OnlyOf(a, A) /\ OnlyOf(b, A) => OnlyOf(a \o b, A)
    BY OnlyOfParts
  <1> QED
    BY <1>1, <1>2, <1>3, <1>4

\* The items of a Stake instruction are its own.
LEMMA StakeOnlyOf ==
  ASSUME NEW i, NEW c, NEW A, i.at \in A, i.kind \in StakeKinds
  PROVE  OnlyOf(StakeInfo(i, c), A)
  <1>1. CASE i.kind = "StakeDelegate"
    BY <1>1, OnlyOfParts, StakeInitializeOnlyOf DEF StakeInfo, DelegateStake
  <1>2. CASE i.kind = "StakeWithdraw"
    BY <1>2, OnlyOfParts, StakeInitializeOnlyOf DEF StakeInfo, StakeWithdraw
  <1>3. CASE i.kind \in {"StakeAuthorize", "StakeAuthorizeChecked"}
    BY <1>3, OnlyOfParts, StakeInitializeOnlyOf DEF StakeInfo, When, StakeAuthorize
  <1>4. CASE i.kind = "StakeDeactivate"
    BY <1>4, OnlyOfParts, StakeInitializeOnlyOf DEF StakeInfo, StakeDeactivate
  <1>5. CASE i.kind \in {"StakeSetLockup", "StakeSetLockupChecked"}
    BY <1>5, OnlyOfParts, StakeInitializeOnlyOf DEF StakeInfo, When, StakeSetLockup
  <1>6. CASE i.kind = "StakeSplit"
    BY <1>6, OnlyOfParts, StakeInitializeOnlyOf DEF StakeInfo, StakeSplit, StakeSplit1
  <1>7. CASE i.kind = "StakeMerge"
    BY <1>7, OnlyOfParts, StakeInitializeOnlyOf DEF StakeInfo, StakeMerge
  <1>8. CASE i.kind \in {"StakeInitialize", "StakeInitializeChecked"}
    BY <1>8, OnlyOfParts, StakeInitializeOnlyOf DEF StakeInfo
  <1> QED
    BY <1>1, <1>2, <1>3, <1>4, <1>5, <1>6, <1>7, <1>8 DEF StakeKinds

\* The items of a Vote instruction are its own.
LEMMA VoteOnlyOf ==
  ASSUME NEW i, NEW c, NEW A, i.at \in A, i.kind \in VoteKinds
  PROVE  OnlyOf(VoteInfo(i, c), A)
  <1>1. CASE i.kind = "VoteInitialize"
    BY <1>1, OnlyOfParts DEF VoteInfo, VoteInitialize
  <1>2. CASE i.kind = "VoteWithdraw"
    BY <1>2, OnlyOfParts DEF VoteInfo, VoteWithdraw
  <1>3. CASE i.kind \in {"VoteAuthorize", "VoteAuthorizeChecked"}
    BY <1>3, OnlyOfParts DEF VoteInfo, VoteUpdate
  <1>4. CASE i.kind = "VoteUpdateValidatorId"
    BY <1>4, OnlyOfParts DEF VoteInfo, VoteUpdate
  <1>5. CASE i.kind = "VoteUpdateCommission"
    BY <1>5, OnlyOfParts DEF VoteInfo, VoteUpdate
  <1> QED
    BY <1>1, <1>2, <1>3, <1>4, <1>5 DEF VoteKinds

\* The owner and the signers of a token instruction are items of it.
LEMMA SignOnlyOf ==
  ASSUME NEW i, NEW c, NEW A, i.at \in A
  PROVE  OnlyOf(SplTokenSign(i, c), A)
  BY OnlyOfParts DEF SplTokenSign, When

\* The items of a token transfer are its own.
LEMMA TransferOnlyOf ==
  ASSUME NEW i, NEW c, NEW A, i.at \in A
  PROVE  OnlyOf(SplTransfer(i, c), A)
  <1> DEFINE mint == When(c.full \/ "unknownMint" \in i.has, General(i, "mint_account"))
             to == When(c.full \/ ~ c.ata, General(i, "to"))
             account == When(c.full \/ c.ata, General(i, "dest_account"))
             fee == When("fee" \in i.has, General(i, "fee_tokens"))
  <1>1. \A condition, f : OnlyOf(When(condition, General(i, f)), A)
    BY OnlyOfParts DEF When
  <1>2. OnlyOf(mint, A) /\ OnlyOf(to, A) /\ OnlyOf(account, A) /\ OnlyOf(fee, A)
    BY <1>1
  <1>3. SplTransfer(i, c) = Primary(i, "tokens") \o mint \o to \o account \o fee
                              \o SplTokenSign(i, c)
    BY DEF SplTransfer
  <1> HIDE DEF mint, to, account, fee
  <1>4. \A a, b : OnlyOf(a, A) /\ OnlyOf(b, A) => OnlyOf(a \o b, A)
    BY OnlyOfParts
  <1>5. OnlyOf(Primary(i, "tokens"), A) /\ OnlyOf(SplTokenSign(i, c), A)
    BY OnlyOfParts, SignOnlyOf
  <1> QED
    BY <1>2, <1>3, <1>4, <1>5

\* The items of an SPL Token instruction are its own.
LEMMA SplTokenOnlyOf ==
  ASSUME NEW i, NEW c, NEW A, i.at \in A, i.kind \in SplTokenKinds
  PROVE  OnlyOf(SplTokenInfo(i, c), A)
  <1>1. CASE i.kind = "SplInitializeMint"
    BY <1>1, OnlyOfParts, SignOnlyOf, TransferOnlyOf DEF SplTokenInfo, When, SplInitializeMint
  <1>2. CASE i.kind \in {"SplInitializeAccount", "SplInitializeAccount2"}
    BY <1>2, OnlyOfParts, SignOnlyOf, TransferOnlyOf DEF SplTokenInfo, SplInitializeAccount
  <1>3. CASE i.kind = "SplInitializeMultisig"
    BY <1>3, OnlyOfParts, SignOnlyOf, TransferOnlyOf DEF SplTokenInfo, When, RequiredSigners
  <1>4. CASE i.kind = "SplRevoke"
    BY <1>4, OnlyOfParts, SignOnlyOf, TransferOnlyOf DEF SplTokenInfo
  <1>5. CASE i.kind = "SplCloseAccount"
    BY <1>5, OnlyOfParts, SignOnlyOf, TransferOnlyOf DEF SplTokenInfo, SplCloseAccount
  <1>6. CASE i.kind \in {"SplFreezeAccount", "SplThawAccount"}
    BY <1>6, OnlyOfParts, SignOnlyOf, TransferOnlyOf DEF SplTokenInfo, When, SplFreezeOrThaw
  <1>7. CASE i.kind = "SplApproveChecked"
    BY <1>7, OnlyOfParts, SignOnlyOf, TransferOnlyOf DEF SplTokenInfo, SplApprove
  <1>8. CASE i.kind \in {"SplMintToChecked", "SplBurnChecked"}
    BY <1>8, OnlyOfParts, SignOnlyOf, TransferOnlyOf DEF SplTokenInfo, SplMintOrBurn
  <1>9. CASE i.kind = "SplSyncNative"
    BY <1>9, OnlyOfParts, SignOnlyOf, TransferOnlyOf DEF SplTokenInfo
  <1>10. CASE i.kind \in {"SplTransferChecked", "SplTransferCheckedWithFee"}
    BY <1>10, OnlyOfParts, SignOnlyOf, TransferOnlyOf DEF SplTokenInfo
  <1>11. CASE i.kind = "SplSetAuthority"
    BY <1>11, OnlyOfParts, SignOnlyOf, TransferOnlyOf DEF SplTokenInfo, When, SplSetAuthority
  <1> QED
    BY <1>1, <1>2, <1>3, <1>4, <1>5, <1>6, <1>7, <1>8, <1>9, <1>10, <1>11 DEF SplTokenKinds

\* One instruction: its printer gives up, shows an AgenC action, or asks for items
\* of that instruction.
LEMMA InfoOnlyOf ==
  ASSUME NEW i, NEW c, NEW A, i.at \in A
  PROVE  \/ AsksFor(PrintInfo(i, c), "bail")
         \/ Shows(PrintInfo(i, c), i, "action")
         \/ OnlyOf(PrintInfo(i, c), A)
  <1>0. /\ i.kind \in SystemKinds => i.kind \notin StakeKinds \union VoteKinds \union SplTokenKinds
        /\ i.kind \in StakeKinds => i.kind \notin VoteKinds \union SplTokenKinds
        /\ i.kind \in VoteKinds => i.kind \notin SplTokenKinds
        /\ i.kind \in SystemKinds \union StakeKinds \union VoteKinds \union SplTokenKinds =>
             i.kind # "SplAssociatedTokenAccount"
        /\ i.kind \in AgencKinds =>
             i.kind \notin SystemKinds \union StakeKinds \union VoteKinds \union SplTokenKinds
                              \union {"SplAssociatedTokenAccount"}
    BY DEF SystemKinds, StakeKinds, VoteKinds, SplTokenKinds, AgencKinds
  <1>1. CASE i.kind \in SystemKinds
    <2>0. i.kind \notin StakeKinds \union VoteKinds \union SplTokenKinds
                       \union {"SplAssociatedTokenAccount"} \union AgencKinds
      BY <1>0, <1>1
    <2>1. PrintInfo(i, c) = SystemInfo(i, c)
      BY <1>1, <2>0 DEF PrintInfo
    <2> QED
      BY <1>1, <2>1, SystemOnlyOf
  <1>2. CASE i.kind \in StakeKinds
    <2>1. PrintInfo(i, c) = StakeInfo(i, c)
      BY <1>0, <1>2 DEF PrintInfo
    <2> QED
      BY <1>2, <2>1, StakeOnlyOf
  <1>3. CASE i.kind \in VoteKinds
    <2>1. PrintInfo(i, c) = VoteInfo(i, c)
      BY <1>0, <1>3 DEF PrintInfo
    <2> QED
      BY <1>3, <2>1, VoteOnlyOf
  <1>4. CASE i.kind \in SplTokenKinds
    <2>1. PrintInfo(i, c) = SplTokenInfo(i, c)
      BY <1>0, <1>4 DEF PrintInfo
    <2> QED
      BY <1>4, <2>1, SplTokenOnlyOf
  <1>5. CASE i.kind = "SplAssociatedTokenAccount"
    <2>1. OnlyOf(CreateTokenAccount(i), A)
      BY OnlyOfParts DEF CreateTokenAccount
    <2> QED
      BY <1>0, <1>5, <2>1 DEF PrintInfo
  <1>6. CASE i.kind \in AgencKinds
    <2>1. PrintInfo(i, c) = AgencInfo(i)
      BY <1>0, <1>6 DEF PrintInfo
    <2>2. Shows(AgencInfo(i), i, "action")
      BY <1>6, AgencTells
    <2> QED
      BY <2>1, <2>2
  <1>7. CASE i.kind \notin SystemKinds \union StakeKinds \union VoteKinds \union SplTokenKinds
                             \union {"SplAssociatedTokenAccount"} \union AgencKinds
    BY <1>7, BailAsked DEF PrintInfo
  <1> QED
    BY <1>1, <1>2, <1>3, <1>4, <1>5, <1>6, <1>7

-------------------------------------------------------------------------------
(* What is not a transfer of SOL is shown by an item no such transfer has. *)

ForeignFields ==
  {"account", "source", "stake_account", "tokens", "delegate", "action",
   "new_authority", "stake_authority", "vote_authority"}
Foreign(rs, i) == \E f \in ForeignFields : Shows(rs, i, f)

\* A foreign item stays when more is asked for.
LEMMA ForeignOn ==
  ASSUME NEW a, IsSequence(a), NEW b, IsSequence(b), NEW i, Foreign(a, i) \/ Foreign(b, i)
  PROVE  Foreign(a \o b, i)
  BY Concatenated DEF Foreign

\* A System instruction other than a transfer.
LEMMA SystemForeign ==
  ASSUME NEW i, NEW c, i.kind \in SystemKinds, i.kind # "SystemTransfer"
  PROVE  \/ Foreign(SystemInfo(i, c), i)
         \/ i.kind \in CreateKinds /\ Shows(SystemInfo(i, c), i, "lamports")
  <1>1. CASE i.kind = "SystemAdvanceNonceAccount"
    <2>1. Shows(SystemInfo(i, c), i, "account")
      BY <1>1, Requested DEF SystemInfo, SystemAdvanceNonce
    <2> QED
      BY <2>1 DEF Foreign, ForeignFields, CreateKinds
  <1>2. CASE i.kind \in {"SystemCreateAccount",
                     "SystemCreateAccountWithSeed"}
    BY <1>2, Requested
       DEF SystemInfo, When, CreateAccount, CreateAccountFields, BaseAndSeed, CreateKinds
  <1>3. CASE i.kind = "SystemInitializeNonceAccount"
    <2>1. Shows(SystemInfo(i, c), i, "account")
      BY <1>3, Requested DEF SystemInfo, InitializeNonce
    <2> QED
      BY <2>1 DEF Foreign, ForeignFields, CreateKinds
  <1>4. CASE i.kind = "SystemWithdrawNonceAccount"
    <2>1. Shows(SystemInfo(i, c), i, "account")
      BY <1>4, Requested DEF SystemInfo, SystemWithdrawNonce
    <2> QED
      BY <2>1 DEF Foreign, ForeignFields, CreateKinds
  <1>5. CASE i.kind = "SystemAuthorizeNonceAccount"
    <2>1. Shows(SystemInfo(i, c), i, "account")
      BY <1>5, Requested DEF SystemInfo, SystemAuthorizeNonce
    <2> QED
      BY <2>1 DEF Foreign, ForeignFields, CreateKinds
  <1>6. CASE i.kind = "SystemAssign"
    <2>1. Shows(SystemInfo(i, c), i, "account")
      BY <1>6, Requested DEF SystemInfo, SystemAssign
    <2> QED
      BY <2>1 DEF Foreign, ForeignFields, CreateKinds
  <1>7. CASE i.kind = "SystemAllocate"
    <2>1. Shows(SystemInfo(i, c), i, "account")
      BY <1>7, Requested DEF SystemInfo, SystemAllocate
    <2> QED
      BY <2>1 DEF Foreign, ForeignFields, CreateKinds
  <1>8. CASE i.kind = "SystemAllocateWithSeed"
    <2>1. Shows(SystemInfo(i, c), i, "account")
      BY <1>8, Requested DEF SystemInfo, When, AllocateWithSeed, BaseAndSeed
    <2> QED
      BY <2>1 DEF Foreign, ForeignFields, CreateKinds
  <1> QED
    BY <1>1, <1>2, <1>3, <1>4, <1>5, <1>6, <1>7, <1>8 DEF SystemKinds

\* A Stake instruction.
LEMMA StakeForeign ==
  ASSUME NEW i, NEW c, i.kind \in StakeKinds
  PROVE  Foreign(StakeInfo(i, c), i)
  <1>1. CASE i.kind = "StakeDelegate"
    <2>1. Shows(StakeInfo(i, c), i, "stake_account")
      BY <1>1, StakeInitialized, Requested DEF StakeInfo, DelegateStake
    <2> QED
      BY <2>1 DEF Foreign, ForeignFields, CreateKinds
  <1>2. CASE i.kind = "StakeWithdraw"
    <2>1. Shows(StakeInfo(i, c), i, "account")
      BY <1>2, StakeInitialized, Requested DEF StakeInfo, StakeWithdraw
    <2> QED
      BY <2>1 DEF Foreign, ForeignFields, CreateKinds
  <1>3. CASE i.kind \in {"StakeAuthorize",
                     "StakeAuthorizeChecked"}
    <2>1. Shows(StakeInfo(i, c), i, "account")
      BY <1>3, StakeInitialized, Requested DEF StakeInfo, When, StakeAuthorize
    <2> QED
      BY <2>1 DEF Foreign, ForeignFields, CreateKinds
  <1>4. CASE i.kind = "StakeDeactivate"
    <2>1. Shows(StakeInfo(i, c), i, "account")
      BY <1>4, StakeInitialized, Requested DEF StakeInfo, StakeDeactivate
    <2> QED
      BY <2>1 DEF Foreign, ForeignFields, CreateKinds
  <1>5. CASE i.kind \in {"StakeSetLockup",
                     "StakeSetLockupChecked"}
    <2>1. Shows(StakeInfo(i, c), i, "account")
      BY <1>5, StakeInitialized, Requested DEF StakeInfo, When, StakeSetLockup
    <2> QED
      BY <2>1 DEF Foreign, ForeignFields, CreateKinds
  <1>6. CASE i.kind = "StakeSplit"
    <2>1. Shows(StakeInfo(i, c), i, "account")
      BY <1>6, StakeInitialized, Requested DEF StakeInfo, StakeSplit, StakeSplit1
    <2> QED
      BY <2>1 DEF Foreign, ForeignFields, CreateKinds
  <1>7. CASE i.kind = "StakeMerge"
    <2>1. Shows(StakeInfo(i, c), i, "source")
      BY <1>7, StakeInitialized, Requested DEF StakeInfo, StakeMerge
    <2> QED
      BY <2>1 DEF Foreign, ForeignFields, CreateKinds
  <1>8. CASE i.kind \in {"StakeInitialize",
                     "StakeInitializeChecked"}
    <2>1. Shows(StakeInfo(i, c), i, "account")
      BY <1>8, StakeInitialized, Requested DEF StakeInfo
    <2> QED
      BY <2>1 DEF Foreign, ForeignFields, CreateKinds
  <1> QED
    BY <1>1, <1>2, <1>3, <1>4, <1>5, <1>6, <1>7, <1>8 DEF StakeKinds

\* A Vote instruction.
LEMMA VoteForeign ==
  ASSUME NEW i, NEW c, i.kind \in VoteKinds
  PROVE  Foreign(VoteInfo(i, c), i)
  <1>1. CASE i.kind = "VoteInitialize"
    <2>1. Shows(VoteInfo(i, c), i, "account")
      BY <1>1, Requested DEF VoteInfo, VoteInitialize
    <2> QED
      BY <2>1 DEF Foreign, ForeignFields, CreateKinds
  <1>2. CASE i.kind = "VoteWithdraw"
    <2>1. Shows(VoteInfo(i, c), i, "account")
      BY <1>2, Requested DEF VoteInfo, VoteWithdraw
    <2> QED
      BY <2>1 DEF Foreign, ForeignFields, CreateKinds
  <1>3. CASE i.kind \in {"VoteAuthorize",
                     "VoteAuthorizeChecked"}
    <2>1. Shows(VoteInfo(i, c), i, "account")
      BY <1>3, Requested DEF VoteInfo, VoteUpdate
    <2> QED
      BY <2>1 DEF Foreign, ForeignFields, CreateKinds
  <1>4. CASE i.kind = "VoteUpdateValidatorId"
    <2>1. Shows(VoteInfo(i, c), i, "account")
      BY <1>4, Requested DEF VoteInfo, VoteUpdate
    <2> QED
      BY <2>1 DEF Foreign, ForeignFields, CreateKinds
  <1>5. CASE i.kind = "VoteUpdateCommission"
    <2>1. Shows(VoteInfo(i, c), i, "account")
      BY <1>5, Requested DEF VoteInfo, VoteUpdate
    <2> QED
      BY <2>1 DEF Foreign, ForeignFields, CreateKinds
  <1> QED
    BY <1>1, <1>2, <1>3, <1>4, <1>5 DEF VoteKinds

\* The tokens of a transfer, and its fee, are items of it.
LEMMA TransferShows ==
  ASSUME NEW i, NEW c
  PROVE  /\ IsSequence(SplTransfer(i, c)) /\ Shows(SplTransfer(i, c), i, "tokens")
         /\ "fee" \in i.has => Shows(SplTransfer(i, c), i, "fee_tokens")
  <1> DEFINE mint == When(c.full \/ "unknownMint" \in i.has, General(i, "mint_account"))
             to == When(c.full \/ ~ c.ata, General(i, "to"))
             account == When(c.full \/ c.ata, General(i, "dest_account"))
             fee == When("fee" \in i.has, General(i, "fee_tokens"))
  <1>1. \A condition, f : IsSequence(When(condition, General(i, f)))
    BY Requested DEF When
  <1>2. IsSequence(mint) /\ IsSequence(to) /\ IsSequence(account) /\ IsSequence(fee)
    BY <1>1
  <1>3. "fee" \in i.has => Shows(fee, i, "fee_tokens")
    BY Requested DEF When
  <1>4. SplTransfer(i, c) = Primary(i, "tokens") \o mint \o to \o account \o fee
                              \o SplTokenSign(i, c)
    BY DEF SplTransfer
  <1> HIDE DEF mint, to, account, fee
  <1>5. IsSequence(Primary(i, "tokens")) /\ Shows(Primary(i, "tokens"), i, "tokens")
    BY Requested
  <1>6. IsSequence(SplTokenSign(i, c))
    BY TokenSigned
  <1>7. \A a, b : IsSequence(a) /\ IsSequence(b) =>
       /\ IsSequence(a \o b)
       /\ \A j, f : Shows(a \o b, j, f) <=> Shows(a, j, f) \/ Shows(b, j, f)
    BY Requested
  <1> QED
    BY <1>2, <1>3, <1>4, <1>5, <1>6, <1>7

\* An SPL Token instruction.
LEMMA SplTokenForeign ==
  ASSUME NEW i, NEW c, i.kind \in SplTokenKinds
  PROVE  Foreign(SplTokenInfo(i, c), i)
  <1>1. CASE i.kind = "SplInitializeMint"
    <2>1. Shows(SplTokenInfo(i, c), i, "account")
      BY <1>1, TokenSigned, TransferShows, Requested DEF SplTokenInfo, When, SplInitializeMint
    <2> QED
      BY <2>1 DEF Foreign, ForeignFields, CreateKinds
  <1>2. CASE i.kind \in {"SplInitializeAccount",
                     "SplInitializeAccount2"}
    <2>1. Shows(SplTokenInfo(i, c), i, "account")
      BY <1>2, TokenSigned, TransferShows, Requested DEF SplTokenInfo, SplInitializeAccount
    <2> QED
      BY <2>1 DEF Foreign, ForeignFields, CreateKinds
  <1>3. CASE i.kind = "SplInitializeMultisig"
    <2>1. Shows(SplTokenInfo(i, c), i, "account")
      BY <1>3, TokenSigned, TransferShows, Requested DEF SplTokenInfo, When, RequiredSigners
    <2> QED
      BY <2>1 DEF Foreign, ForeignFields, CreateKinds
  <1>4. CASE i.kind = "SplRevoke"
    <2>1. Shows(SplTokenInfo(i, c), i, "account")
      BY <1>4, TokenSigned, TransferShows, Requested DEF SplTokenInfo
    <2> QED
      BY <2>1 DEF Foreign, ForeignFields, CreateKinds
  <1>5. CASE i.kind = "SplCloseAccount"
    <2>1. Shows(SplTokenInfo(i, c), i, "account")
      BY <1>5, TokenSigned, TransferShows, Requested DEF SplTokenInfo, SplCloseAccount
    <2> QED
      BY <2>1 DEF Foreign, ForeignFields, CreateKinds
  <1>6. CASE i.kind \in {"SplFreezeAccount",
                     "SplThawAccount"}
    <2>1. Shows(SplTokenInfo(i, c), i, "account")
      BY <1>6, TokenSigned, TransferShows, Requested DEF SplTokenInfo, When, SplFreezeOrThaw
    <2> QED
      BY <2>1 DEF Foreign, ForeignFields, CreateKinds
  <1>7. CASE i.kind = "SplApproveChecked"
    <2>1. Shows(SplTokenInfo(i, c), i, "delegate")
      BY <1>7, TokenSigned, TransferShows, Requested DEF SplTokenInfo, SplApprove
    <2> QED
      BY <2>1 DEF Foreign, ForeignFields, CreateKinds
  <1>8. CASE i.kind \in {"SplMintToChecked",
                     "SplBurnChecked"}
    <2>1. Shows(SplTokenInfo(i, c), i, "tokens")
      BY <1>8, TokenSigned, TransferShows, Requested DEF SplTokenInfo, SplMintOrBurn
    <2> QED
      BY <2>1 DEF Foreign, ForeignFields, CreateKinds
  <1>9. CASE i.kind = "SplSyncNative"
    <2>1. Shows(SplTokenInfo(i, c), i, "account")
      BY <1>9, TokenSigned, TransferShows, Requested DEF SplTokenInfo
    <2> QED
      BY <2>1 DEF Foreign, ForeignFields, CreateKinds
  <1>10. CASE i.kind \in {"SplTransferChecked",
                     "SplTransferCheckedWithFee"}
    <2>1. Shows(SplTokenInfo(i, c), i, "tokens")
      BY <1>10, TokenSigned, TransferShows, Requested DEF SplTokenInfo
    <2> QED
      BY <2>1 DEF Foreign, ForeignFields, CreateKinds
  <1>11. CASE i.kind = "SplSetAuthority"
    <2>1. Shows(SplTokenInfo(i, c), i, "account")
      BY <1>11, TokenSigned, TransferShows, Requested DEF SplTokenInfo, When, SplSetAuthority
    <2> QED
      BY <2>1 DEF Foreign, ForeignFields, CreateKinds
  <1> QED
    BY <1>1, <1>2, <1>3, <1>4, <1>5, <1>6, <1>7, <1>8, <1>9, <1>10, <1>11 DEF SplTokenKinds

\* Any instruction but a transfer of SOL, and one that creates an account.
LEMMA InfoForeign ==
  ASSUME NEW i, NEW c, i.kind # "SystemTransfer"
  PROVE  \/ AsksFor(PrintInfo(i, c), "bail")
         \/ Foreign(PrintInfo(i, c), i)
         \/ i.kind \in CreateKinds /\ Shows(PrintInfo(i, c), i, "lamports")
  <1>0. /\ i.kind \in SystemKinds => i.kind \notin StakeKinds \union VoteKinds \union SplTokenKinds
        /\ i.kind \in StakeKinds => i.kind \notin VoteKinds \union SplTokenKinds
        /\ i.kind \in VoteKinds => i.kind \notin SplTokenKinds
        /\ i.kind \in SystemKinds \union StakeKinds \union VoteKinds \union SplTokenKinds =>
             i.kind # "SplAssociatedTokenAccount"
        /\ i.kind \in AgencKinds =>
             i.kind \notin SystemKinds \union StakeKinds \union VoteKinds \union SplTokenKinds
                              \union {"SplAssociatedTokenAccount"}
    BY DEF SystemKinds, StakeKinds, VoteKinds, SplTokenKinds, AgencKinds
  <1>1. CASE i.kind \in SystemKinds
    <2>0. i.kind \notin StakeKinds \union VoteKinds \union SplTokenKinds
                       \union {"SplAssociatedTokenAccount"} \union AgencKinds
      BY <1>0, <1>1
    <2>1. PrintInfo(i, c) = SystemInfo(i, c)
      BY <1>1, <2>0 DEF PrintInfo
    <2> QED
      BY <1>1, <2>1, SystemForeign
  <1>2. CASE i.kind \in StakeKinds
    <2>1. PrintInfo(i, c) = StakeInfo(i, c)
      BY <1>0, <1>2 DEF PrintInfo
    <2> QED
      BY <1>2, <2>1, StakeForeign
  <1>3. CASE i.kind \in VoteKinds
    <2>1. PrintInfo(i, c) = VoteInfo(i, c)
      BY <1>0, <1>3 DEF PrintInfo
    <2> QED
      BY <1>3, <2>1, VoteForeign
  <1>4. CASE i.kind \in SplTokenKinds
    <2>1. PrintInfo(i, c) = SplTokenInfo(i, c)
      BY <1>0, <1>4 DEF PrintInfo
    <2> QED
      BY <1>4, <2>1, SplTokenForeign
  <1>5. CASE i.kind = "SplAssociatedTokenAccount"
    <2>1. Shows(CreateTokenAccount(i), i, "account")
      BY Requested DEF CreateTokenAccount
    <2> QED
      BY <1>0, <1>5, <2>1 DEF PrintInfo, Foreign, ForeignFields
  <1>6. CASE i.kind \in AgencKinds
    <2>1. PrintInfo(i, c) = AgencInfo(i)
      BY <1>0, <1>6 DEF PrintInfo
    <2>2. Shows(AgencInfo(i), i, "action")
      BY <1>6, AgencTells
    <2> QED
      BY <2>1, <2>2 DEF Foreign, ForeignFields
  <1>7. CASE i.kind \notin SystemKinds \union StakeKinds \union VoteKinds \union SplTokenKinds
                             \union {"SplAssociatedTokenAccount"} \union AgencKinds
    BY <1>7, BailAsked DEF PrintInfo
  <1> QED
    BY <1>1, <1>2, <1>3, <1>4, <1>5, <1>6, <1>7

-------------------------------------------------------------------------------
(* The patterns. *)

\* The parts of the patterns ask for items of their own instruction.
LEMMA PartsOnlyOf ==
  ASSUME NEW A, NEW i, i.at \in A, NEW c
  PROVE  /\ \A owner : OnlyOf(CreateAccount(i, c, owner), A)
         /\ OnlyOf(DelegateStake(i, c), A)
         /\ OnlyOf(VoteInitialize(i), A)
         /\ OnlyOf(InitializeNonce(i), A)
         /\ OnlyOf(StakeSplit1(i), A)
         /\ OnlyOf(BaseAndSeed(i, c), A)
         /\ OnlyOf(SystemPrefundForSplit(i, c), A)
         /\ OnlyOf(SplInitializeMint(i), A)
         /\ OnlyOf(Primary(i, "account") \o RequiredSigners(i), A)
         /\ OnlyOf(SplInitializeAccount(i), A)
  <1>1. \A a, b : OnlyOf(a, A) /\ OnlyOf(b, A) => OnlyOf(a \o b, A)
    BY OnlyOfParts
  <1>2. /\ \A f : OnlyOf(Primary(i, f), A) /\ OnlyOf(General(i, f), A)
        /\ OnlyOf(Authority(i, c), A)
    BY OnlyOfParts
  <1>3. \A condition, a : OnlyOf(a, A) => OnlyOf(When(condition, a), A)
    BY OnlyOfParts DEF When
  <1>4. OnlyOf(BaseAndSeed(i, c), A)
    BY <1>1, <1>2, <1>3 DEF BaseAndSeed
  <1>5. \A owner : OnlyOf(CreateAccountFields(i, c, owner), A)
    BY <1>1, <1>2, <1>3 DEF CreateAccountFields
  <1>6. \A owner : OnlyOf(CreateAccount(i, c, owner), A)
    BY <1>1, <1>3, <1>4, <1>5 DEF CreateAccount
  <1>7. OnlyOf(SystemPrefundForSplit(i, c), A)
    BY <1>1, <1>2, <1>3 DEF SystemPrefundForSplit
  <1>8. OnlyOf(RequiredSigners(i), A)
    BY <1>2, <1>3 DEF RequiredSigners
  <1>9. OnlyOf(SplInitializeMint(i), A)
    BY <1>1, <1>2, <1>3 DEF SplInitializeMint
  <1> QED
    BY <1>1, <1>2, <1>4, <1>6, <1>7, <1>8, <1>9
    DEF DelegateStake, VoteInitialize, InitializeNonce, StakeSplit1, SplInitializeAccount

\* The patterns that create an account or fund a split.
LEMMA CreatedOnlyOf ==
  ASSUME NEW S, NEW is \in Seq(S), NEW c, NEW A, \A k \in 1..Len(is) : is[k].at \in A
  PROVE  /\ IsCreateStake(KindsOf(is)) => OnlyOf(PrintCreateStake(is, c), A)
         /\ IsCreateOther(KindsOf(is)) => OnlyOf(PrintCreateOther(is, c), A)
         /\ IsSplCreate(KindsOf(is)) => OnlyOf(PrintSplCreate(is, c), A)
         /\ IsCreateWithTransfer(KindsOf(is)) => OnlyOf(SplTransfer(is[2], c), A)
  <1>1. \A a, b : OnlyOf(a, A) /\ OnlyOf(b, A) => OnlyOf(a \o b, A)
    BY OnlyOfParts
  <1>2. Len(KindsOf(is)) = Len(is) /\ Len(is) \in Nat
    BY KindsAre
  <1>3. ASSUME IsCreateStake(KindsOf(is)) PROVE OnlyOf(PrintCreateStake(is, c), A)
    <2>1. 1 \in 1..Len(is) /\ 2 \in 1..Len(is) /\ (Len(is) = 3 => 3 \in 1..Len(is))
      BY <1>2, <1>3 DEF IsCreateStake
    <2>2. is[1].at \in A /\ is[2].at \in A /\ (Len(is) = 3 => is[3].at \in A)
      BY <2>1
    <2> DEFINE primary == Primary(is[1], "to")
               create == CreateAccount(is[1], c, FALSE)
               initialize == StakeInitialize(is[2], c)
               delegate == When(Len(is) = 3, DelegateStake(is[3], c))
    <2>3. OnlyOf(primary, A) /\ OnlyOf(create, A) /\ OnlyOf(initialize, A)
      BY <2>2, OnlyOfParts, PartsOnlyOf, StakeInitializeOnlyOf
    <2>4. OnlyOf(delegate, A)
      BY <2>2, OnlyOfParts, PartsOnlyOf DEF When
    <2>5. PrintCreateStake(is, c) = primary \o create \o initialize \o delegate
      BY DEF PrintCreateStake
    <2> HIDE DEF primary, create, initialize, delegate
    <2> QED
      BY <1>1, <2>3, <2>4, <2>5
  <1>4. ASSUME IsCreateOther(KindsOf(is)) PROVE OnlyOf(PrintCreateOther(is, c), A)
    <2>1. is[1].at \in A /\ is[2].at \in A
      BY <1>2, <1>4 DEF IsCreateOther
    <2> DEFINE primary == Primary(is[1], "to")
               create == CreateAccount(is[1], c, FALSE)
               initialize == IF is[2].kind = "VoteInitialize" THEN VoteInitialize(is[2])
                                                              ELSE InitializeNonce(is[2])
    <2>2. OnlyOf(primary, A) /\ OnlyOf(create, A) /\ OnlyOf(initialize, A)
      BY <2>1, OnlyOfParts, PartsOnlyOf
    <2>3. PrintCreateOther(is, c) = primary \o create \o initialize
      BY DEF PrintCreateOther
    <2> HIDE DEF primary, create, initialize
    <2> QED
      BY <1>1, <2>2, <2>3
  <1>5. ASSUME IsSplCreate(KindsOf(is)) PROVE OnlyOf(PrintSplCreate(is, c), A)
    <2>1. is[1].at \in A /\ is[2].at \in A
      BY <1>2, <1>5 DEF IsSplCreate
    <2> DEFINE initialize == CASE is[2].kind = "SplInitializeMint" -> SplInitializeMint(is[2])
                               [] is[2].kind = "SplInitializeMultisig" ->
                                    Primary(is[2], "account") \o RequiredSigners(is[2])
                               [] OTHER -> SplInitializeAccount(is[2])
               from == When(ShowAuthority(is[1], c), General(is[1], "from"))
               lamports == General(is[1], "lamports")
    <2>2. OnlyOf(initialize, A)
      BY <2>1, PartsOnlyOf
    <2>3. OnlyOf(from, A) /\ OnlyOf(lamports, A)
      BY <2>1, OnlyOfParts DEF When
    <2>4. PrintSplCreate(is, c) = initialize \o from \o lamports
      BY DEF PrintSplCreate
    <2> HIDE DEF initialize, from, lamports
    <2> QED
      BY <1>1, <2>2, <2>3, <2>4
  <1>6. ASSUME IsCreateWithTransfer(KindsOf(is)) PROVE OnlyOf(SplTransfer(is[2], c), A)
    <2>1. is[2].at \in A
      BY <1>2, <1>6 DEF IsCreateWithTransfer
    <2> QED
      BY <2>1, TransferOnlyOf
  <1> QED
    BY <1>3, <1>4, <1>5, <1>6

\* The patterns that change the authorities of an account, or split it.
LEMMA SplitOnlyOf ==
  ASSUME NEW S, NEW is \in Seq(S), NEW c, NEW A, \A k \in 1..Len(is) : is[k].at \in A
  PROVE  /\ IsAuthorizeBoth(KindsOf(is)) =>
              PrintAuthorizeBoth(is, c) = Bail \/ OnlyOf(PrintAuthorizeBoth(is, c), A)
         /\ IsStakeSplit(KindsOf(is)) => OnlyOf(PrintStakeSplit(is, c), A)
         /\ IsStakeSplitWithSeed(KindsOf(is)) => OnlyOf(PrintStakeSplitWithSeed(is, c), A)
  <1>1. \A a, b : OnlyOf(a, A) /\ OnlyOf(b, A) => OnlyOf(a \o b, A)
    BY OnlyOfParts
  <1>2. Len(KindsOf(is)) = Len(is) /\ Len(is) \in Nat
    BY KindsAre
  <1>3. ASSUME IsAuthorizeBoth(KindsOf(is))
        PROVE  PrintAuthorizeBoth(is, c) = Bail \/ OnlyOf(PrintAuthorizeBoth(is, c), A)
    <2>1. is[1].at \in A /\ is[2].at \in A
      BY <1>2, <1>3 DEF IsAuthorizeBoth
    <2> DEFINE primary == Primary(is[1], "account")
               r == Request("general", Item({is[1], is[2]}, "new_authority"), FALSE)
               both == <<r>>
               each == General(is[1], "new_authority") \o General(is[2], "new_authority")
               news == IF "sameAuthority" \in is[2].has THEN both ELSE each
               custodian == When("custodian" \in is[2].has, General(is[2], "custodian"))
               authority == Authority(is[2], c)
    <2>2. OnlyOf(both, A)
      <3>1. r.item.of = {is[1].at, is[2].at}
        BY DEF Request, Item
      <3>2. r.item.of # {} /\ r.item.of \subseteq A
        BY <2>1, <3>1
      <3> HIDE DEF r
      <3>3. IsSequence(<<r>>) /\ DOMAIN <<r>> = {1} /\ <<r>>[1] = r
        BY OneRequest
      <3> QED
        BY <3>2, <3>3 DEF OnlyOf
    <2>3. OnlyOf(each, A) /\ OnlyOf(primary, A)
      BY <1>1, <2>1, OnlyOfParts
    <2>4. OnlyOf(custodian, A) /\ OnlyOf(authority, A)
      BY <2>1, OnlyOfParts DEF When
    <2>5. PrintAuthorizeBoth(is, c) = Bail
            \/ PrintAuthorizeBoth(is, c) = primary \o news \o custodian \o authority
      BY DEF PrintAuthorizeBoth
    <2> HIDE DEF primary, both, each, custodian, authority
    <2>6. OnlyOf(news, A)
      BY <2>2, <2>3
    <2> HIDE DEF news
    <2> QED
      BY <1>1, <2>3, <2>4, <2>5, <2>6
  <1>4. ASSUME IsStakeSplit(KindsOf(is)) \/ IsStakeSplitWithSeed(KindsOf(is))
        PROVE  OnlyOf(PrintStakeSplit(is, c), A) /\ OnlyOf(PrintStakeSplitWithSeed(is, c), A)
    <2>1. Len(KindsOf(is)) \in {2, 3, 4}
      <3> DEFINE ks == KindsOf(is)
      <3> HIDE DEF ks
      <3>1. ks \in {<<"SystemAllocate", "SystemAssign", "StakeSplit">>,
                    <<"SystemCreateAccount", "StakeSplit">>,
                    <<"SystemTransfer", "SystemAllocate", "SystemAssign", "StakeSplit">>,
                    <<"SystemAllocateWithSeed", "StakeSplit">>,
                    <<"SystemCreateAccountWithSeed", "StakeSplit">>,
                    <<"SystemTransfer", "SystemAllocateWithSeed", "StakeSplit">>}
        BY <1>4 DEF ks, IsStakeSplit, IsStakeSplitWithSeed
      <3>2. Len(ks) \in {2, 3, 4}
        BY <3>1
      <3> QED
        BY <3>2 DEF ks
    <2>2. 1 \in 1..Len(is) /\ Len(is) \in 1..Len(is) /\ Len(is) - 1 \in 1..Len(is)
      BY <1>2, <2>1
    <2>3. is[1].at \in A /\ Last(is).at \in A /\ is[Len(is) - 1].at \in A
      BY <2>2 DEF Last
    <2> DEFINE prefund == Prefund(is, c)
               split == StakeSplit1(Last(is))
               authority == Authority(Last(is), c)
               base == BaseAndSeed(is[Len(is) - 1], c)
    <2>4. OnlyOf(split, A) /\ OnlyOf(authority, A) /\ OnlyOf(base, A)
      BY <2>3, OnlyOfParts, PartsOnlyOf
    <2>5. OnlyOf(prefund, A)
      BY <2>3, OnlyOfParts, PartsOnlyOf DEF Prefund, When
    <2>6. /\ PrintStakeSplit(is, c) = prefund \o (split \o authority)
          /\ PrintStakeSplitWithSeed(is, c) = prefund \o split \o base \o authority
      BY DEF PrintStakeSplit, PrintStakeSplitWithSeed, StakeSplit
    <2> HIDE DEF prefund, split, authority, base
    <2> QED
      BY <1>1, <2>4, <2>5, <2>6
  <1> QED
    BY <1>3, <1>4

\* A task that is created with its review shows its action.
LEMMA TaskPatternActs ==
  ASSUME NEW i, NEW j, i.kind = "AgencCreateTask"
  PROVE  CreateTaskWithReview(i, j) = Bail \/ Shows(CreateTaskWithReview(i, j), i, "action")
  <1> DEFINE task == Action(i) \o CreateTaskFields(i)
             window == Fields(j, <<"review_window">>)
  <1>1. IsSequence(task) /\ Shows(task, i, "action")
    BY TaskTells DEF TellsOf
  <1>2. IsSequence(window)
    <2>1. IsSequence(<<"review_window">>)
      BY OneRequest
    <2> QED
      BY <2>1, FieldsShow
  <1>3. CreateTaskWithReview(i, j) = Bail \/ CreateTaskWithReview(i, j) = task \o window
    BY DEF CreateTaskWithReview
  <1> HIDE DEF task, window
  <1> QED
    BY <1>1, <1>2, <1>3, Concatenated

\* Whatever print_transaction recognises, it gives up, shows an AgenC action, or
\* asks for items of the instructions it was given.
LEMMA PatternOnlyOf ==
  ASSUME NEW S, NEW is \in Seq(S), NEW c, NEW A, \A k \in 1..Len(is) : is[k].at \in A
  PROVE  \/ AsksFor(PrintPattern(is, c), "bail")
         \/ \E k \in 1..Len(is) : Shows(PrintPattern(is, c), is[k], "action")
         \/ OnlyOf(PrintPattern(is, c), A)
  <1> DEFINE ks == KindsOf(is)
             Fine(rs) == \/ AsksFor(rs, "bail")
                         \/ \E k \in 1..Len(is) : Shows(rs, is[k], "action")
                         \/ OnlyOf(rs, A)
             a1 == PrintInfo(is[1], c)
             a2 == PrintCreateStake(is, c)
             a3 == PrintCreateOther(is, c)
             a4 == PrintAuthorizeBoth(is, c)
             a5 == PrintStakeSplit(is, c)
             a6 == PrintStakeSplitWithSeed(is, c)
             a7 == PrintSplCreate(is, c)
             a8 == SplTransfer(is[2], c)
             a9 == CreateTaskWithReview(is[1], is[2])
  <1>1. Len(is) = 1 => Fine(a1)
    <2> SUFFICES ASSUME Len(is) = 1 PROVE Fine(a1)
      OBVIOUS
    <2>1. 1 \in 1..Len(is) /\ is[1].at \in A
      OBVIOUS
    <2>2. \/ AsksFor(a1, "bail") \/ Shows(a1, is[1], "action") \/ OnlyOf(a1, A)
      BY <2>1, InfoOnlyOf
    <2> QED
      BY <2>1, <2>2
  <1>2. /\ IsCreateStake(ks) => OnlyOf(a2, A)
        /\ IsCreateOther(ks) => OnlyOf(a3, A)
        /\ IsAuthorizeBoth(ks) => a4 = Bail \/ OnlyOf(a4, A)
        /\ IsStakeSplit(ks) => OnlyOf(a5, A)
        /\ IsStakeSplitWithSeed(ks) => OnlyOf(a6, A)
        /\ IsSplCreate(ks) => OnlyOf(a7, A)
        /\ IsCreateWithTransfer(ks) => OnlyOf(a8, A)
    BY CreatedOnlyOf, SplitOnlyOf
  <1>3. IsCreateTaskWithReview(ks) => Fine(a9)
    <2> SUFFICES ASSUME IsCreateTaskWithReview(ks) PROVE Fine(a9)
      OBVIOUS
    <2>1. Len(is) = 2 /\ is[1].kind = "AgencCreateTask"
      BY KindsAre DEF IsCreateTaskWithReview
    <2>2. a9 = Bail \/ Shows(a9, is[1], "action")
      BY <2>1, TaskPatternActs
    <2> QED
      BY <2>1, <2>2, BailAsked
  <1>4. PrintPattern(is, c) = CASE Len(is) = 1 -> a1
       [] IsCreateStake(ks) -> a2
       [] IsCreateOther(ks) -> a3
       [] IsAuthorizeBoth(ks) -> a4
       [] IsStakeSplit(ks) -> a5
       [] IsStakeSplitWithSeed(ks) -> a6
       [] IsSplCreate(ks) -> a7
       [] IsCreateWithTransfer(ks) -> a8
       [] IsCreateTaskWithReview(ks) -> a9
       [] OTHER -> Bail
    BY DEF PrintPattern
  <1>5. \A rs : rs = Bail \/ OnlyOf(rs, A) => Fine(rs)
    BY BailAsked
  <1>6. Fine(PrintPattern(is, c))
    <2> HIDE DEF a1, a2, a3, a4, a5, a6, a7, a8, a9, ks, Fine
    <2> QED
      BY <1>1, <1>2, <1>3, <1>4, <1>5
  <1> QED
    BY <1>6

\* Some instruction of is has a foreign item.
ForeignIn(rs, is) == \E k \in 1..Len(is) : Foreign(rs, is[k])

\* A stake account that is initialized shows its authorities.
LEMMA StakeInitializeForeign ==
  ASSUME NEW i, NEW c
  PROVE  Foreign(StakeInitialize(i, c), i)
  <1> DEFINE rest == IF i.has \intersect {"lockupTime", "lockupEpoch"} # {}
                     THEN When("lockupTime" \in i.has, General(i, "unix_timestamp"))
                            \o When("lockupEpoch" \in i.has, General(i, "epoch"))
                            \o General(i, "custodian")
                     ELSE When(c.expert, General(i, "no_lockup"))
  <1>1. IsSequence(rest)
    <2>1. \A condition, f : IsSequence(When(condition, General(i, f)))
      BY Requested DEF When
    <2> QED
      BY <2>1, Requested
  <1>2. /\ IsSequence(StakeAuthorities(i))
        /\ \/ Shows(StakeAuthorities(i), i, "stake_authority")
           \/ Shows(StakeAuthorities(i), i, "new_authority")
    BY Requested DEF StakeAuthorities
  <1>3. StakeInitialize(i, c) = StakeAuthorities(i) \o rest
    BY DEF StakeInitialize
  <1> HIDE DEF rest
  <1>4. Foreign(StakeAuthorities(i), i)
    BY <1>2 DEF Foreign, ForeignFields
  <1> QED
    BY <1>1, <1>2, <1>3, <1>4, ForeignOn

\* The patterns that create an account show who gets it.
LEMMA CreatedForeign ==
  ASSUME NEW S, NEW is \in Seq(S), NEW c
  PROVE  /\ IsCreateStake(KindsOf(is)) => ForeignIn(PrintCreateStake(is, c), is)
         /\ IsCreateOther(KindsOf(is)) => ForeignIn(PrintCreateOther(is, c), is)
         /\ IsSplCreate(KindsOf(is)) => ForeignIn(PrintSplCreate(is, c), is)
         /\ IsCreateWithTransfer(KindsOf(is)) => ForeignIn(SplTransfer(is[2], c), is)
  <1>1. \A a, b : IsSequence(a) /\ IsSequence(b) =>
          /\ IsSequence(a \o b)
          /\ \A f : Foreign(a, f) \/ Foreign(b, f) => Foreign(a \o b, f)
    BY Requested, ForeignOn
  <1>2. Len(KindsOf(is)) = Len(is) /\ Len(is) \in Nat
    BY KindsAre
  <1>3. ASSUME IsCreateStake(KindsOf(is)) PROVE ForeignIn(PrintCreateStake(is, c), is)
    <2>1. 2 \in 1..Len(is)
      BY <1>2, <1>3 DEF IsCreateStake
    <2> DEFINE primary == Primary(is[1], "to")
               create == CreateAccount(is[1], c, FALSE)
               initialize == StakeInitialize(is[2], c)
               delegate == When(Len(is) = 3, DelegateStake(is[3], c))
    <2>2. IsSequence(primary) /\ IsSequence(create) /\ IsSequence(initialize)
      BY Requested, AccountCreated, StakeInitialized
    <2>3. IsSequence(delegate)
      BY Requested DEF When, DelegateStake
    <2>4. Foreign(initialize, is[2])
      BY StakeInitializeForeign
    <2>5. PrintCreateStake(is, c) = primary \o create \o initialize \o delegate
      BY DEF PrintCreateStake
    <2> HIDE DEF primary, create, initialize, delegate
    <2>6. Foreign(primary \o create \o initialize \o delegate, is[2])
      BY <1>1, <2>2, <2>3, <2>4
    <2> QED
      BY <2>1, <2>5, <2>6 DEF ForeignIn
  <1>4. ASSUME IsCreateOther(KindsOf(is)) PROVE ForeignIn(PrintCreateOther(is, c), is)
    <2>1. 2 \in 1..Len(is)
      BY <1>2, <1>4 DEF IsCreateOther
    <2> DEFINE primary == Primary(is[1], "to")
               create == CreateAccount(is[1], c, FALSE)
               initialize == IF is[2].kind = "VoteInitialize" THEN VoteInitialize(is[2])
                                                              ELSE InitializeNonce(is[2])
    <2>2. IsSequence(primary) /\ IsSequence(create)
      BY Requested, AccountCreated
    <2>3. IsSequence(initialize) /\ Foreign(initialize, is[2])
      <3>1. /\ Shows(VoteInitialize(is[2]), is[2], "vote_authority")
            /\ Shows(InitializeNonce(is[2]), is[2], "new_authority")
        BY Requested DEF VoteInitialize, InitializeNonce
      <3>2. IsSequence(VoteInitialize(is[2])) /\ IsSequence(InitializeNonce(is[2]))
        BY VoteInitialized
      <3> QED
        BY <3>1, <3>2 DEF Foreign, ForeignFields
    <2>4. PrintCreateOther(is, c) = primary \o create \o initialize
      BY DEF PrintCreateOther
    <2> HIDE DEF primary, create, initialize
    <2>5. Foreign(primary \o create \o initialize, is[2])
      BY <1>1, <2>2, <2>3
    <2> QED
      BY <2>1, <2>4, <2>5 DEF ForeignIn
  <1>5. ASSUME IsSplCreate(KindsOf(is)) PROVE ForeignIn(PrintSplCreate(is, c), is)
    <2>1. /\ 2 \in 1..Len(is)
          /\ is[2].kind \in {"SplInitializeMint", "SplInitializeAccount",
                             "SplInitializeAccount2", "SplInitializeMultisig"}
      BY <1>2, <1>5, KindsAre DEF IsSplCreate
    <2> DEFINE initialize == CASE is[2].kind = "SplInitializeMint" -> SplInitializeMint(is[2])
                               [] is[2].kind = "SplInitializeMultisig" ->
                                    Primary(is[2], "account") \o RequiredSigners(is[2])
                               [] OTHER -> SplInitializeAccount(is[2])
               from == When(ShowAuthority(is[1], c), General(is[1], "from"))
               lamports == General(is[1], "lamports")
    <2>2. initialize = SplTokenInfo(is[2], c)
      BY <2>1 DEF SplTokenInfo
    <2>3. is[2].kind \in SplTokenKinds
      BY <2>1 DEF SplTokenKinds
    <2>4. IsSequence(from) /\ IsSequence(lamports)
      BY Requested DEF When
    <2>5. PrintSplCreate(is, c) = initialize \o from \o lamports
      BY DEF PrintSplCreate
    <2> HIDE DEF initialize, from, lamports
    <2>6. IsSequence(initialize) /\ Foreign(initialize, is[2])
      BY <2>2, <2>3, SplTokenTells, SplTokenForeign DEF TellsOf
    <2>7. Foreign(initialize \o from \o lamports, is[2])
      BY <1>1, <2>4, <2>6
    <2> QED
      BY <2>1, <2>5, <2>7 DEF ForeignIn
  <1>6. ASSUME IsCreateWithTransfer(KindsOf(is)) PROVE ForeignIn(SplTransfer(is[2], c), is)
    <2>1. 2 \in 1..Len(is)
      BY <1>2, <1>6 DEF IsCreateWithTransfer
    <2>2. Shows(SplTransfer(is[2], c), is[2], "tokens")
      BY TransferShows
    <2> QED
      BY <2>1, <2>2 DEF ForeignIn, Foreign, ForeignFields
  <1> QED
    BY <1>3, <1>4, <1>5, <1>6

\* The patterns that change the authorities of an account, or split it, show it.
LEMMA SplitForeign ==
  ASSUME NEW S, NEW is \in Seq(S), NEW c
  PROVE  /\ IsAuthorizeBoth(KindsOf(is)) =>
              PrintAuthorizeBoth(is, c) = Bail \/ ForeignIn(PrintAuthorizeBoth(is, c), is)
         /\ IsStakeSplit(KindsOf(is)) => ForeignIn(PrintStakeSplit(is, c), is)
         /\ IsStakeSplitWithSeed(KindsOf(is)) => ForeignIn(PrintStakeSplitWithSeed(is, c), is)
  <1>1. \A a, b : IsSequence(a) /\ IsSequence(b) =>
          /\ IsSequence(a \o b)
          /\ \A f : Foreign(a, f) \/ Foreign(b, f) => Foreign(a \o b, f)
    BY Requested, ForeignOn
  <1>2. Len(KindsOf(is)) = Len(is) /\ Len(is) \in Nat
    BY KindsAre
  <1>3. ASSUME IsAuthorizeBoth(KindsOf(is))
        PROVE  PrintAuthorizeBoth(is, c) = Bail \/ ForeignIn(PrintAuthorizeBoth(is, c), is)
    <2>1. 1 \in 1..Len(is)
      BY <1>2, <1>3 DEF IsAuthorizeBoth
    <2> DEFINE primary == Primary(is[1], "account")
               r == Request("general", Item({is[1], is[2]}, "new_authority"), FALSE)
               both == <<r>>
               each == General(is[1], "new_authority") \o General(is[2], "new_authority")
               news == IF "sameAuthority" \in is[2].has THEN both ELSE each
               custodian == When("custodian" \in is[2].has, General(is[2], "custodian"))
               authority == Authority(is[2], c)
    <2>2. IsSequence(both)
      BY OneRequest
    <2>3. IsSequence(each) /\ IsSequence(custodian) /\ IsSequence(authority)
      BY Requested DEF When
    <2>4. IsSequence(primary) /\ Foreign(primary, is[1])
      BY Requested DEF Foreign, ForeignFields
    <2>5. PrintAuthorizeBoth(is, c) = Bail
            \/ PrintAuthorizeBoth(is, c) = primary \o news \o custodian \o authority
      BY DEF PrintAuthorizeBoth
    <2> HIDE DEF primary, both, each, custodian, authority
    <2>6. IsSequence(news)
      BY <2>2, <2>3
    <2> HIDE DEF news
    <2>7. Foreign(primary \o news \o custodian \o authority, is[1])
      BY <1>1, <2>3, <2>4, <2>6
    <2> QED
      BY <2>1, <2>5, <2>7 DEF ForeignIn
  <1>4. ASSUME IsStakeSplit(KindsOf(is)) \/ IsStakeSplitWithSeed(KindsOf(is))
        PROVE  /\ ForeignIn(PrintStakeSplit(is, c), is)
               /\ ForeignIn(PrintStakeSplitWithSeed(is, c), is)
    <2>1. Len(KindsOf(is)) \in {2, 3, 4}
      <3> DEFINE ks == KindsOf(is)
      <3> HIDE DEF ks
      <3>1. ks \in {<<"SystemAllocate", "SystemAssign", "StakeSplit">>,
                    <<"SystemCreateAccount", "StakeSplit">>,
                    <<"SystemTransfer", "SystemAllocate", "SystemAssign", "StakeSplit">>,
                    <<"SystemAllocateWithSeed", "StakeSplit">>,
                    <<"SystemCreateAccountWithSeed", "StakeSplit">>,
                    <<"SystemTransfer", "SystemAllocateWithSeed", "StakeSplit">>}
        BY <1>4 DEF ks, IsStakeSplit, IsStakeSplitWithSeed
      <3>2. Len(ks) \in {2, 3, 4}
        BY <3>1
      <3> QED
        BY <3>2 DEF ks
    <2>2. Len(is) \in 1..Len(is) /\ Last(is) = is[Len(is)]
      BY <1>2, <2>1 DEF Last
    <2> DEFINE prefund == Prefund(is, c)
               split == StakeSplit1(Last(is))
               authority == Authority(Last(is), c)
               base == BaseAndSeed(is[Len(is) - 1], c)
    <2>3. IsSequence(split) /\ Foreign(split, Last(is))
      BY Requested DEF StakeSplit1, Foreign, ForeignFields
    <2>4. IsSequence(authority) /\ IsSequence(base) /\ IsSequence(prefund)
      BY Requested, Prefunded DEF BaseAndSeed, When
    <2>5. /\ PrintStakeSplit(is, c) = prefund \o (split \o authority)
          /\ PrintStakeSplitWithSeed(is, c) = prefund \o split \o base \o authority
      BY DEF PrintStakeSplit, PrintStakeSplitWithSeed, StakeSplit
    <2> HIDE DEF prefund, split, authority, base
    <2>6. /\ Foreign(prefund \o (split \o authority), Last(is))
          /\ Foreign(prefund \o split \o base \o authority, Last(is))
      BY <1>1, <2>3, <2>4
    <2> QED
      BY <2>2, <2>5, <2>6 DEF ForeignIn
  <1> QED
    BY <1>3, <1>4

\* Whatever print_transaction recognises, but for a transfer of SOL alone, it gives
\* up, shows a foreign item, or the amount of an account that is created alone.
LEMMA PatternForeign ==
  ASSUME NEW S, NEW is \in Seq(S), NEW c, ~ (Len(is) = 1 /\ is[1].kind = "SystemTransfer")
  PROVE  \/ AsksFor(PrintPattern(is, c), "bail")
         \/ ForeignIn(PrintPattern(is, c), is)
         \/ /\ Len(is) = 1 /\ is[1].kind \in CreateKinds
            /\ Shows(PrintPattern(is, c), is[1], "lamports")
            /\ PrintPattern(is, c) = PrintInfo(is[1], c)
  <1> DEFINE ks == KindsOf(is)
             Fine(rs) == \/ AsksFor(rs, "bail")
                         \/ ForeignIn(rs, is)
                         \/ /\ Len(is) = 1 /\ is[1].kind \in CreateKinds
                            /\ Shows(rs, is[1], "lamports")
                            /\ rs = PrintInfo(is[1], c)
             a1 == PrintInfo(is[1], c)
             a2 == PrintCreateStake(is, c)
             a3 == PrintCreateOther(is, c)
             a4 == PrintAuthorizeBoth(is, c)
             a5 == PrintStakeSplit(is, c)
             a6 == PrintStakeSplitWithSeed(is, c)
             a7 == PrintSplCreate(is, c)
             a8 == SplTransfer(is[2], c)
             a9 == CreateTaskWithReview(is[1], is[2])
  <1>1. Len(is) = 1 => Fine(a1)
    <2> SUFFICES ASSUME Len(is) = 1 PROVE Fine(a1)
      OBVIOUS
    <2>1. 1 \in 1..Len(is) /\ is[1].kind # "SystemTransfer"
      OBVIOUS
    <2>2. \/ AsksFor(a1, "bail") \/ Foreign(a1, is[1])
          \/ (is[1].kind \in CreateKinds /\ Shows(a1, is[1], "lamports"))
      BY <2>1, InfoForeign
    <2> QED
      BY <2>1, <2>2 DEF ForeignIn
  <1>2. /\ IsCreateStake(ks) => ForeignIn(a2, is)
        /\ IsCreateOther(ks) => ForeignIn(a3, is)
        /\ IsAuthorizeBoth(ks) => a4 = Bail \/ ForeignIn(a4, is)
        /\ IsStakeSplit(ks) => ForeignIn(a5, is)
        /\ IsStakeSplitWithSeed(ks) => ForeignIn(a6, is)
        /\ IsSplCreate(ks) => ForeignIn(a7, is)
        /\ IsCreateWithTransfer(ks) => ForeignIn(a8, is)
    BY CreatedForeign, SplitForeign
  <1>3. IsCreateTaskWithReview(ks) => a9 = Bail \/ ForeignIn(a9, is)
    <2> SUFFICES ASSUME IsCreateTaskWithReview(ks) PROVE a9 = Bail \/ ForeignIn(a9, is)
      OBVIOUS
    <2>1. Len(is) = 2 /\ is[1].kind = "AgencCreateTask"
      BY KindsAre DEF IsCreateTaskWithReview
    <2>2. a9 = Bail \/ Shows(a9, is[1], "action")
      BY <2>1, TaskPatternActs
    <2> QED
      BY <2>1, <2>2 DEF ForeignIn, Foreign, ForeignFields
  <1>4. PrintPattern(is, c) = CASE Len(is) = 1 -> a1
       [] IsCreateStake(ks) -> a2
       [] IsCreateOther(ks) -> a3
       [] IsAuthorizeBoth(ks) -> a4
       [] IsStakeSplit(ks) -> a5
       [] IsStakeSplitWithSeed(ks) -> a6
       [] IsSplCreate(ks) -> a7
       [] IsCreateWithTransfer(ks) -> a8
       [] IsCreateTaskWithReview(ks) -> a9
       [] OTHER -> Bail
    BY DEF PrintPattern
  <1>5. \A rs : rs = Bail \/ ForeignIn(rs, is) => Fine(rs)
    BY BailAsked
  <1>6. Fine(PrintPattern(is, c))
    <2> HIDE DEF a1, a2, a3, a4, a5, a6, a7, a8, a9, ks, Fine
    <2> QED
      BY <1>1, <1>2, <1>3, <1>4, <1>5
  <1> QED
    BY <1>6

\* A token transfer is shown alone, or after the creation of its account.
LEMMA TokenPattern ==
  ASSUME NEW S, NEW is \in Seq(S), NEW c, NEW k \in 1..Len(is), is[k].kind \in TransferKinds,
         ~ AsksFor(PrintPattern(is, c), "bail")
  PROVE  /\ k = Len(is)
         /\ Len(is) = 1 \/ (Len(is) = 2 /\ is[1].kind = "SplAssociatedTokenAccount")
         /\ PrintPattern(is, c) = SplTransfer(is[k], c)
  <1> DEFINE ks == KindsOf(is)
  <1>1. Len(ks) = Len(is) /\ Len(is) \in Nat /\ \A n \in 1..Len(is) : ks[n] = is[n].kind
    BY KindsAre
  <1>2. ks[k] \in TransferKinds
    BY <1>1
  <1> HIDE DEF ks
  <1>3. /\ ~ IsCreateStake(ks) /\ ~ IsCreateOther(ks) /\ ~ IsAuthorizeBoth(ks) /\ ~ IsSplCreate(ks)
    <2>1. IsCreateStake(ks) => Len(ks) \in {2, 3}
      BY DEF IsCreateStake
    <2>2. IsCreateOther(ks) \/ IsAuthorizeBoth(ks) \/ IsSplCreate(ks) => Len(ks) = 2
      BY DEF IsCreateOther, IsAuthorizeBoth, IsSplCreate
    <2>3. IsCreateStake(ks) => k \in {1, 2, 3} /\ (k = 3 => Len(ks) = 3)
      BY <1>1, <2>1
    <2>4. IsCreateOther(ks) \/ IsAuthorizeBoth(ks) \/ IsSplCreate(ks) => k \in {1, 2}
      BY <1>1, <2>2
    <2>5. ~ IsCreateStake(ks)
      BY <1>2, <2>3 DEF IsCreateStake, CreateKinds, TransferKinds
    <2>6. ~ IsCreateOther(ks) /\ ~ IsAuthorizeBoth(ks) /\ ~ IsSplCreate(ks)
      BY <1>2, <2>4 DEF IsCreateOther, IsAuthorizeBoth, IsSplCreate, CreateKinds, TransferKinds
    <2> QED
      BY <2>5, <2>6
  <1>4. ~ IsStakeSplit(ks) /\ ~ IsStakeSplitWithSeed(ks) /\ ~ IsCreateTaskWithReview(ks)
    <2> SUFFICES ASSUME IsStakeSplit(ks) \/ IsStakeSplitWithSeed(ks) \/ IsCreateTaskWithReview(ks)
                 PROVE  FALSE
      OBVIOUS
    <2>1. ks \in {<<"SystemAllocate", "SystemAssign", "StakeSplit">>,
                  <<"SystemCreateAccount", "StakeSplit">>,
                  <<"SystemTransfer", "SystemAllocate", "SystemAssign", "StakeSplit">>,
                  <<"SystemAllocateWithSeed", "StakeSplit">>,
                  <<"SystemCreateAccountWithSeed", "StakeSplit">>,
                  <<"SystemTransfer", "SystemAllocateWithSeed", "StakeSplit">>,
                  <<"AgencCreateTask", "AgencConfigureTaskValidation">>}
      BY DEF IsStakeSplit, IsStakeSplitWithSeed, IsCreateTaskWithReview
    <2>2. /\ Len(ks) \in {2, 3, 4} /\ \A n \in 1..Len(ks) : ks[n] \notin TransferKinds
      BY <2>1 DEF TransferKinds
    <2> QED
      BY <1>1, <1>2, <2>2
  <1>5. CASE Len(is) = 1
    <2>1. k = 1
      BY <1>5
    <2>2. PrintPattern(is, c) = PrintInfo(is[1], c)
      <3>1. ~ IsCreateWithTransfer(ks)
        BY <1>1, <1>5 DEF IsCreateWithTransfer
      <3> QED
        BY <1>3, <1>4, <1>5, <3>1 DEF PrintPattern, ks
    <2>3. /\ is[1].kind \in {"SplTransferChecked", "SplTransferCheckedWithFee"}
          /\ is[1].kind \in SplTokenKinds /\ is[1].kind \notin SystemKinds
          /\ is[1].kind \notin StakeKinds /\ is[1].kind \notin VoteKinds
          /\ is[1].kind # "SplAssociatedTokenAccount" /\ is[1].kind \notin AgencKinds
      BY <2>1 DEF TransferKinds, SystemKinds, StakeKinds, VoteKinds, SplTokenKinds, AgencKinds
    <2>4. PrintInfo(is[1], c) = SplTokenInfo(is[1], c)
      BY <2>3 DEF PrintInfo
    <2>5. SplTokenInfo(is[1], c) = SplTransfer(is[1], c)
      BY <2>3 DEF SplTokenInfo
    <2> QED
      BY <1>5, <2>1, <2>2, <2>4, <2>5
  <1>6. CASE Len(is) # 1
    <2> DEFINE a8 == SplTransfer(is[2], c)
    <2>1. PrintPattern(is, c) = IF IsCreateWithTransfer(ks) THEN a8 ELSE Bail
      <3> DEFINE a2 == PrintCreateStake(is, c)
                 a3 == PrintCreateOther(is, c)
                 a4 == PrintAuthorizeBoth(is, c)
                 a5 == PrintStakeSplit(is, c)
                 a6 == PrintStakeSplitWithSeed(is, c)
                 a7 == PrintSplCreate(is, c)
                 a9 == CreateTaskWithReview(is[1], is[2])
                 a1 == PrintInfo(is[1], c)
      <3>1. PrintPattern(is, c) = CASE Len(is) = 1 -> a1
       [] IsCreateStake(ks) -> a2
       [] IsCreateOther(ks) -> a3
       [] IsAuthorizeBoth(ks) -> a4
       [] IsStakeSplit(ks) -> a5
       [] IsStakeSplitWithSeed(ks) -> a6
       [] IsSplCreate(ks) -> a7
       [] IsCreateWithTransfer(ks) -> a8
       [] IsCreateTaskWithReview(ks) -> a9
       [] OTHER -> Bail
        BY DEF PrintPattern, ks
      <3> HIDE DEF a1, a2, a3, a4, a5, a6, a7, a8, a9
      <3> QED
        BY <1>3, <1>4, <1>6, <3>1
    <2>2. IsCreateWithTransfer(ks)
      <3> HIDE DEF a8
      <3> QED
        BY <2>1, BailAsked
    <2>3. /\ Len(is) = 2 /\ ks[1] = "SplAssociatedTokenAccount" /\ k \in {1, 2}
      BY <1>1, <2>2 DEF IsCreateWithTransfer
    <2>4. k = 2 /\ is[1].kind = "SplAssociatedTokenAccount"
      BY <1>1, <1>2, <2>3 DEF TransferKinds
    <2> QED
      BY <2>1, <2>2, <2>3, <2>4
  <1> QED
    BY <1>5, <1>6

-------------------------------------------------------------------------------
(* From the patterns to the whole body. *)

\* All that p asks for is in rs, and the token amounts of rs are those of p.
Within(p, rs) ==
  /\ IsSequence(p) /\ IsSequence(rs)
  /\ \A r : Among(p, r) => Among(rs, r)
  /\ \A r : Among(rs, r) /\ r.item.field = "tokens" => Among(p, r)

\* What is in the part is in the whole.
LEMMA WithinShows ==
  ASSUME NEW p, NEW rs, Within(p, rs)
  PROVE  /\ \A slot : AsksFor(p, slot) => AsksFor(rs, slot)
         /\ \A i, f : Shows(p, i, f) => Shows(rs, i, f)
  BY DEF Within, Among, AsksFor, Shows

\* More that is asked for, before or after, without a token amount among it.
LEMMA WithinMore ==
  ASSUME NEW p, NEW rs, Within(p, rs), NEW e, IsSequence(e),
         \A r : Among(e, r) => r.item.field # "tokens"
  PROVE  Within(p, rs \o e) /\ Within(p, e \o rs)
  <1>1. /\ IsSequence(rs \o e) /\ \A r : Among(rs \o e, r) <=> Among(rs, r) \/ Among(e, r)
        /\ IsSequence(e \o rs) /\ \A r : Among(e \o rs, r) <=> Among(e, r) \/ Among(rs, r)
    BY AmongJoined DEF Within
  <1> DEFINE t == rs \o e
             u == e \o rs
  <1> HIDE DEF t, u
  <1>2. /\ IsSequence(t) /\ \A r : Among(t, r) <=> Among(rs, r) \/ Among(e, r)
        /\ IsSequence(u) /\ \A r : Among(u, r) <=> Among(e, r) \/ Among(rs, r)
    BY <1>1 DEF t, u
  <1>3. Within(p, t) /\ Within(p, u)
    BY <1>2 DEF Within
  <1> QED
    BY <1>3 DEF t, u

\* The items that are no part of a pattern are no token amounts.
LEMMA ExtrasAreOther ==
  ASSUME NEW condition, NEW i, NEW c
  PROVE  LET fee == When(condition, MaxFee)
             warning == When(condition, ExtensionWarning)
             nonce == NoncedTransaction(i, c)
         IN \A e \in {fee, warning, nonce} :
              IsSequence(e) /\ \A r : Among(e, r) => r.item.field # "tokens"
  <1> DEFINE Other(e) == IsSequence(e) /\ \A r : Among(e, r) => r.item.field # "tokens"
  <1>1. ASSUME NEW r, r.item.field # "tokens" PROVE Other(<<r>>)
    <2>1. IsSequence(<<r>>) /\ DOMAIN <<r>> = {1} /\ <<r>>[1] = r
      BY OneRequest
    <2> QED
      BY <1>1, <2>1 DEF Among
  <1>2. ASSUME NEW r, NEW q, r.item.field # "tokens", q.item.field # "tokens"
        PROVE  Other(<<r, q>>)
    <2> DEFINE t == <<r, q>>
    <2>1. t \in Seq({r, q}) /\ DOMAIN t = {1, 2} /\ t[1] = r /\ t[2] = q
      OBVIOUS
    <2> HIDE DEF t
    <2>2. IsSequence(t) /\ \A x : Among(t, x) => x = r \/ x = q
      BY <2>1 DEF Among, IsSequence
    <2> QED
      BY <1>2, <2>2 DEF t
  <1>3. Other(<<>>)
    <2>1. DOMAIN <<>> = {}
      OBVIOUS
    <2> QED
      BY <2>1, NoRequest DEF Among
  <1>5. Other(MaxFee)
    <2> DEFINE r == Request("general", Item({}, "max_fee"), FALSE)
    <2>1. r.item.field # "tokens"
      BY DEF Request, Item
    <2> HIDE DEF r
    <2>2. Other(<<r>>)
      BY <1>1, <2>1
    <2> QED
      BY <2>2 DEF MaxFee, r
  <1>6. Other(ExtensionWarning)
    <2> DEFINE r == Request("general", Item({}, "extension_warning"), FALSE)
               q == Request("general", Item({}, "verify_before_signing"), FALSE)
    <2>1. r.item.field # "tokens" /\ q.item.field # "tokens"
      BY DEF Request, Item
    <2> HIDE DEF r, q
    <2>2. Other(<<r, q>>)
      BY <1>2, <2>1
    <2> QED
      BY <2>2 DEF ExtensionWarning, r, q
  <1>7. Other(NoncedTransaction(i, c))
    <2> DEFINE r == Request("nonce_account", Item({i}, "account"), FALSE)
               q == Request("nonce_authority", Item({i}, "authority"), FALSE)
    <2>1. r.item.field # "tokens" /\ q.item.field # "tokens"
      BY DEF Request, Item
    <2>2. NoncedTransaction(i, c) = <<r, q>> \/ NoncedTransaction(i, c) = <<>>
      BY DEF NoncedTransaction, When
    <2> HIDE DEF r, q
    <2>3. Other(<<r, q>>)
      BY <1>2, <2>1
    <2> QED
      BY <1>3, <2>2, <2>3
  <1> HIDE DEF Other
  <1>8. Other(When(condition, MaxFee)) /\ Other(When(condition, ExtensionWarning))
    BY <1>3, <1>5, <1>6 DEF When
  <1>9. \A e \in {When(condition, MaxFee), When(condition, ExtensionWarning),
                  NoncedTransaction(i, c)} : Other(e)
    BY <1>7, <1>8
  <1> QED
    BY <1>9 DEF Other

\* What is shown of a sequence of instructions: some of them, which were asked for.
ShownOf(is, rs, c, sh) ==
  /\ \A j \in 1..Len(sh) : \E n \in 1..Len(is) : sh[j] = is[n]
  /\ Within(PrintPattern(sh, c), rs)

\* Without a nonce, what is not shown sets the fees.
LEMMA NonceProcessedShown ==
  ASSUME NEW S, NEW is \in Seq(S), NEW c, ~ AsksFor(PrintNonceProcessed(is, c), "bail")
  PROVE  \E sh \in Seq(S) :
           /\ ShownOf(is, PrintNonceProcessed(is, c), c, sh)
           /\ \A n \in 1..Len(is) : \/ is[n].kind \in ComputeBudgetKinds
                                    \/ \E j \in 1..Len(sh) : sh[j] = is[n]
  <1> DEFINE first == LeadingComputeBudget(is)
             budget == SubSeq(is, 1, first)
             sh == SubSeq(is, first + 1, Len(is))
             condition == HasMaxFee(budget) \/ IsCreateWithTransfer(KindsOf(sh))
             fee == When(condition, MaxFee)
             p == PrintPattern(sh, c)
  <1>1. /\ Len(is) \in Nat /\ first \in 0..Len(is)
        /\ \A k \in 1..first : is[k].kind \in ComputeBudgetKinds
    BY LeadingAreBudget
  <1> HIDE DEF first
  <1>2. /\ sh \in Seq(S) /\ Len(sh) = Len(is) - first
        /\ \A k \in 1..(Len(is) - first) : sh[k] = is[k + first]
    BY <1>1, SubSeqProperties
  <1>3. MaxFeeOverflows(budget) => PrintNonceProcessed(is, c) = Bail
    BY DEF PrintNonceProcessed, first
  <1>4. ~ MaxFeeOverflows(budget) => PrintNonceProcessed(is, c) = p \o fee
    BY DEF PrintNonceProcessed, first
  <1> HIDE DEF budget
  <1>5. PrintNonceProcessed(is, c) = p \o fee
    BY <1>3, <1>4, BailAsked
  <1> HIDE DEF sh, condition
  <1>6. IsSequence(p)
    BY <1>2, PatternAnswers DEF Answers
  <1>7. Within(p, p)
    BY <1>6 DEF Within
  <1>8. IsSequence(fee) /\ \A r : Among(fee, r) => r.item.field # "tokens"
    BY ExtrasAreOther
  <1> HIDE DEF p, fee
  <1>9. Within(p, p \o fee)
    BY <1>7, <1>8, WithinMore
  <1>10. \A j \in 1..Len(sh) : \E n \in 1..Len(is) : sh[j] = is[n]
    <2> SUFFICES ASSUME NEW j \in 1..Len(sh) PROVE \E n \in 1..Len(is) : sh[j] = is[n]
      OBVIOUS
    <2>1. j + first \in 1..Len(is) /\ sh[j] = is[j + first]
      BY <1>1, <1>2
    <2> QED
      BY <2>1
  <1>11. ASSUME NEW n \in 1..Len(is)
         PROVE  is[n].kind \in ComputeBudgetKinds \/ \E j \in 1..Len(sh) : sh[j] = is[n]
    <2>1. CASE n <= first
      BY <1>1, <2>1
    <2>2. CASE ~ n <= first
      <3>1. n - first \in 1..Len(sh) /\ (n - first) + first = n
        BY <1>1, <1>2, <2>2
      <3>2. sh[n - first] = is[n]
        BY <1>2, <3>1
      <3> QED
        BY <3>1, <3>2
    <2> QED
      BY <2>1, <2>2
  <1>12. ShownOf(is, PrintNonceProcessed(is, c), c, sh)
    BY <1>5, <1>9, <1>10 DEF ShownOf, p
  <1> QED
    BY <1>2, <1>11, <1>12

\* What is not shown of a transaction sets the fees, or is the nonce that comes first.
LEMMA TransactionShown ==
  ASSUME NEW S, NEW is \in Seq(S), NEW c, ~ AsksFor(PrintTransaction(is, c), "bail")
  PROVE  \E sh \in Seq(S) :
           /\ ShownOf(is, PrintTransaction(is, c), c, sh)
           /\ \A n \in 1..Len(is) : \/ is[n].kind \in ComputeBudgetKinds
                                    \/ n = 1 /\ is[1].kind = "SystemAdvanceNonceAccount"
                                    \/ \E j \in 1..Len(sh) : sh[j] = is[n]
  <1>1. CASE Len(is) > 1 /\ is[1].kind = "SystemAdvanceNonceAccount"
    <2> DEFINE nonce == NoncedTransaction(is[1], c)
               tail == Tail(is)
               rest == PrintNonceProcessed(tail, c)
    <2>1. /\ tail \in Seq(S) /\ Len(tail) = Len(is) - 1 /\ Len(is) \in Nat
          /\ \A k \in 1..(Len(is) - 1) : tail[k] = is[k + 1]
      BY <1>1, HeadTailProperties
    <2>2. IsSequence(nonce) /\ \A r : Among(nonce, r) => r.item.field # "tokens"
      BY ExtrasAreOther
    <2>3. PrintTransaction(is, c) = nonce \o rest
      BY <1>1 DEF PrintTransaction
    <2> HIDE DEF tail
    <2>4. IsSequence(rest)
      BY <2>1, NonceProcessedAnswers DEF Answers
    <2> HIDE DEF nonce
    <2>5. ~ AsksFor(rest, "bail")
      <3> HIDE DEF rest
      <3> QED
        BY <2>2, <2>3, <2>4, Concatenated
    <2>6. PICK sh \in Seq(S) :
            /\ ShownOf(tail, rest, c, sh)
            /\ \A n \in 1..Len(tail) : \/ tail[n].kind \in ComputeBudgetKinds
                                       \/ \E j \in 1..Len(sh) : sh[j] = tail[n]
      BY <2>1, <2>5, NonceProcessedShown
    <2> HIDE DEF rest
    <2>7. Within(PrintPattern(sh, c), nonce \o rest)
      BY <2>2, <2>6, WithinMore DEF ShownOf
    <2>8. ASSUME NEW j \in 1..Len(sh) PROVE \E n \in 1..Len(is) : sh[j] = is[n]
      <3>1. PICK n \in 1..Len(tail) : sh[j] = tail[n]
        BY <2>6 DEF ShownOf
      <3>2. n + 1 \in 1..Len(is) /\ sh[j] = is[n + 1]
        BY <2>1, <3>1
      <3> QED
        BY <3>2
    <2>9. ASSUME NEW n \in 1..Len(is), n # 1
          PROVE  is[n].kind \in ComputeBudgetKinds \/ \E j \in 1..Len(sh) : sh[j] = is[n]
      <3>1. n - 1 \in 1..Len(tail) /\ (n - 1) + 1 = n
        BY <2>1, <2>9
      <3>2. tail[n - 1] = is[n]
        BY <2>1, <3>1
      <3> QED
        BY <2>6, <3>1, <3>2
    <2>10. ShownOf(is, PrintTransaction(is, c), c, sh)
      BY <2>3, <2>7, <2>8 DEF ShownOf
    <2> QED
      BY <1>1, <2>9, <2>10
  <1>2. CASE ~ (Len(is) > 1 /\ is[1].kind = "SystemAdvanceNonceAccount")
    <2>1. PrintTransaction(is, c) = PrintNonceProcessed(is, c)
      BY <1>2 DEF PrintTransaction
    <2> QED
      BY <2>1, NonceProcessedShown
  <1> QED
    BY <1>1, <1>2

\* The first element that is collected is in the first part, if one of it is.
LEMMA FirstCollected ==
  ASSUME NEW S, NEW u \in Seq(S), NEW v \in Seq(S), NEW T,
         NEW k \in 1..Len(u), u[k] \in T
  PROVE  \E j \in 1..Len(u) : InOrder(u \o v, T)[1] = u[j]
  <1>1. InOrder(u \o v, T) = InOrder(u, T) \o InOrder(v, T)
    BY InOrderConcat
  <1> DEFINE R == {u[j] : j \in 1..Len(u)}
  <1>2. u \in Seq(R)
    <2>1. \A j \in 1..Len(u) : u[j] \in R
      OBVIOUS
    <2> HIDE DEF R
    <2> QED
      BY <2>1
  <1> HIDE DEF R
  <1>3. InOrder(u, T) \in Seq(R) /\ InOrder(u, T) \in Seq(S) /\ InOrder(v, T) \in Seq(S)
    BY <1>2, InOrderTyped
  <1>4. \E j \in 1..Len(InOrder(u, T)) : InOrder(u, T)[j] = u[k]
    <2>1. \A s \in Seq(S) : \A U :
            /\ InOrder(s, U) \in Seq(S \intersect U)
            /\ \A i \in 1..Len(s) : s[i] \in U =>
                 \E j \in 1..Len(InOrder(s, U)) : InOrder(s, U)[j] = s[i]
      BY InOrderHolds
    <2> QED
      BY <2>1
  <1>5. \A a, b \in Seq(S) : (\E j \in 1..Len(a) : a[j] = u[k]) =>
          1 \in 1..Len(a) /\ (a \o b)[1] = a[1]
    OBVIOUS
  <1>6. 1 \in 1..Len(InOrder(u, T)) /\ InOrder(u \o v, T)[1] = InOrder(u, T)[1]
    BY <1>1, <1>3, <1>4, <1>5
  <1>7. \A a \in Seq(R) : 1 \in 1..Len(a) => a[1] \in R
    OBVIOUS
  <1>8. InOrder(u \o v, T)[1] \in R
    BY <1>3, <1>6, <1>7
  <1> QED
    BY <1>8 DEF R

\* The first of what is displayed: before it, everything is passed over.
LEMMA FirstDisplayed ==
  ASSUME NEW S, NEW is \in Seq(S), \A n \in 1..Len(is) : is[n].at = n,
         NEW k \in 1..Len(is), NEW n \in 1..Len(is), k < n, is[k].kind \notin IgnoredKinds
  PROVE  Displayed(is)[1] # is[n]
  <1> DEFINE T == {i \in ToSet(is) : i.kind \notin IgnoredKinds}
  <1>1. Len(is) \in Nat /\ k \in Nat /\ k <= Len(is) /\ is[k] \in T
    BY DEF ToSet
  <1>2. Displayed(is) = InOrder(is, T)
    BY DEF Displayed
  <1> HIDE DEF T
  <1>3. PICK u \in Seq(S), v \in Seq(S) :
          /\ Len(u) = k /\ \A j \in 1..k : u[j] = is[j]
          /\ Len(v) = Len(is) - k /\ \A j \in 1..(Len(is) - k) : v[j] = is[j + k]
    <2> DEFINE u == SubSeq(is, 1, k)
               v == SubSeq(is, k + 1, Len(is))
    <2>1. u \in Seq(S) /\ Len(u) = k /\ \A j \in 1..k : u[j] = is[j]
      BY <1>1, SubSeqProperties
    <2>2. v \in Seq(S) /\ Len(v) = Len(is) - k /\ \A j \in 1..(Len(is) - k) : v[j] = is[j + k]
      BY <1>1, SubSeqProperties
    <2> HIDE DEF u, v
    <2> QED
      BY <2>1, <2>2
  <1>4. is = u \o v
    <2>1. PICK w \in Seq(S) : w = u \o v
      BY ConcatProperties
    <2>0. /\ Len(w) = Len(u) + Len(v)
          /\ \A j \in 1..(Len(u) + Len(v)) : w[j] = IF j <= Len(u) THEN u[j] ELSE v[j - Len(u)]
      BY <2>1, ConcatProperties
    <2>2. /\ Len(w) = Len(is)
          /\ \A j \in 1..Len(is) : w[j] = IF j <= k THEN u[j] ELSE v[j - k]
      <3>1. k + (Len(is) - k) = Len(is)
        BY <1>1
      <3> QED
        BY <1>3, <2>0, <3>1
    <2>3. ASSUME NEW j \in 1..Len(is) PROVE w[j] = is[j]
      <3>1. CASE j <= k
        BY <1>1, <1>3, <2>2, <3>1
      <3>2. CASE ~ j <= k
        <4>1. j - k \in 1..(Len(is) - k) /\ (j - k) + k = j
          BY <1>1, <3>2
        <4> QED
          BY <1>3, <2>2, <3>2, <4>1
      <3> QED
        BY <3>1, <3>2
    <2>4. w = is
      BY <1>1, <2>2, <2>3, SeqEqual
    <2> QED
      BY <2>1, <2>4
  <1>5. k \in 1..Len(u) /\ u[k] \in T
    BY <1>1, <1>3
  <1>6. PICK j \in 1..Len(u) : InOrder(u \o v, T)[1] = u[j]
    BY <1>5, FirstCollected
  <1>7. Displayed(is)[1] = is[j] /\ j \in 1..Len(is) /\ j # n
    BY <1>1, <1>2, <1>3, <1>4, <1>6
  <1> QED
    BY <1>7

\* What may come with what is shown: as Accompanies, of any message.
Beside(is, n) ==
  \/ is[n].kind \in ComputeBudgetKinds \union IgnoredKinds
  \/ is[n].kind = "SystemAdvanceNonceAccount" /\ \A k \in 1..(n - 1) : is[k].kind \in IgnoredKinds

\* The whole body: some of its instructions are shown, and the others come with them.
LEMMA BodyShown ==
  ASSUME NEW m, NEW S, m.instructions \in Seq(S),
         \A n \in 1..Len(m.instructions) : m.instructions[n].at = n,
         ~ AsksFor(ProcessMessageBody(m), "bail")
  PROVE  /\ \A n \in 1..Len(m.instructions) : m.instructions[n].kind # "Unknown"
         /\ \E sh \in Seq(S) :
              /\ ShownOf(m.instructions, ProcessMessageBody(m), m.config, sh)
              /\ \A n \in 1..Len(m.instructions) :
                   \/ Beside(m.instructions, n)
                   \/ \E j \in 1..Len(sh) : sh[j] = m.instructions[n]
  <1> DEFINE is == m.instructions
             T == {i \in ToSet(is) : i.kind \notin IgnoredKinds}
             kinds == {is[n].kind : n \in DOMAIN is}
             warning == When("HiddenExtension" \in kinds, ExtensionWarning)
             d == Displayed(is)
             p == PrintTransaction(d, m.config)
  <1>1. is \in Seq(S) /\ DOMAIN is = 1..Len(is) /\ Len(is) \in Nat
    OBVIOUS
  <1>2. "Unknown" \in kinds => ProcessMessageBody(m) = Bail
    BY DEF ProcessMessageBody
  <1>3. ProcessMessageBody(m) = Bail \/ ProcessMessageBody(m) = warning \o p
    BY DEF ProcessMessageBody
  <1>4. "Unknown" \notin kinds /\ ProcessMessageBody(m) = warning \o p
    BY <1>2, <1>3, BailAsked
  <1>5. \A n \in 1..Len(is) : is[n].kind # "Unknown"
    BY <1>1, <1>4
  <1>6. IsSequence(warning) /\ \A r : Among(warning, r) => r.item.field # "tokens"
    BY ExtrasAreOther
  <1> HIDE DEF warning, kinds
  <1>7. /\ d \in Seq(S \intersect T)
        /\ \A k \in 1..Len(is) : is[k] \in T => \E j \in 1..Len(d) : d[j] = is[k]
    <2>1. \A s \in Seq(S) : \A U :
            /\ InOrder(s, U) \in Seq(S \intersect U)
            /\ \A k \in 1..Len(s) : s[k] \in U =>
                 \E j \in 1..Len(InOrder(s, U)) : InOrder(s, U)[j] = s[k]
      BY InOrderHolds
    <2>2. is \in Seq(S) /\ d = InOrder(is, T)
      BY DEF Displayed
    <2> HIDE DEF d, T, is
    <2> QED
      BY <2>1, <2>2
  <1>8. \A j \in 1..Len(d) : \E n \in 1..Len(is) : d[j] = is[n]
    <2>1. \A j \in 1..Len(d) : d[j] \in T
      <3> HIDE DEF d, T, is
      <3> QED
        BY <1>7
    <2> HIDE DEF d
    <2> QED
      BY <2>1 DEF ToSet
  <1>9. \A n \in 1..Len(is) : is[n].kind \notin IgnoredKinds =>
          \E j \in 1..Len(d) : d[j] = is[n]
    <2>1. \A n \in 1..Len(is) : is[n].kind \notin IgnoredKinds => is[n] \in T
      BY DEF ToSet
    <2> HIDE DEF d, T, is
    <2> QED
      BY <1>7, <2>1
  <1>10. d \in Seq(S)
    <2> HIDE DEF d, T, is
    <2> QED
      BY <1>7
  <1>11. IsSequence(p)
    <2> HIDE DEF d
    <2> QED
      BY <1>10, TransactionAnswers DEF Answers
  <1>12. ~ AsksFor(p, "bail")
    <2> HIDE DEF p
    <2> QED
      BY <1>4, <1>6, <1>11, Concatenated
  <1>13. PICK sh \in Seq(S) :
           /\ ShownOf(d, p, m.config, sh)
           /\ \A n \in 1..Len(d) : \/ d[n].kind \in ComputeBudgetKinds
                                   \/ n = 1 /\ d[1].kind = "SystemAdvanceNonceAccount"
                                   \/ \E j \in 1..Len(sh) : sh[j] = d[n]
    <2> HIDE DEF d
    <2> QED
      BY <1>10, <1>12, TransactionShown
  <1>14. \A k, n \in 1..Len(is) : k < n /\ is[k].kind \notin IgnoredKinds => d[1] # is[n]
    <2>1. \A n \in 1..Len(is) : is[n].at = n
      OBVIOUS
    <2> HIDE DEF is
    <2> QED
      BY <1>1, <2>1, FirstDisplayed
  <1> HIDE DEF d, p, T
  <1>15. Within(PrintPattern(sh, m.config), warning \o p)
    BY <1>6, <1>13, WithinMore DEF ShownOf
  <1>16. \A j \in 1..Len(sh) : \E n \in 1..Len(is) : sh[j] = is[n]
    <2> SUFFICES ASSUME NEW j \in 1..Len(sh) PROVE \E n \in 1..Len(is) : sh[j] = is[n]
      OBVIOUS
    <2>1. PICK k \in 1..Len(d) : sh[j] = d[k]
      BY <1>13 DEF ShownOf
    <2> HIDE DEF is
    <2> QED
      BY <1>8, <2>1
  <1>17. ASSUME NEW n \in 1..Len(is)
         PROVE  Beside(is, n) \/ \E j \in 1..Len(sh) : sh[j] = is[n]
    <2>1. CASE is[n].kind \in IgnoredKinds
      BY <2>1 DEF Beside
    <2>2. CASE is[n].kind \notin IgnoredKinds
      <3> HIDE DEF is
      <3>1. PICK k \in 1..Len(d) : d[k] = is[n]
        BY <1>9, <2>2
      <3>2. CASE d[k].kind \in ComputeBudgetKinds
        BY <3>1, <3>2 DEF Beside
      <3>3. CASE k = 1 /\ d[1].kind = "SystemAdvanceNonceAccount"
        <4>1. \A j \in 1..Len(is) : j < n => is[j].kind \in IgnoredKinds
          BY <1>14, <3>1, <3>3
        <4>2. \A j \in 1..(n - 1) : j \in 1..Len(is) /\ j < n
          BY <1>1
        <4> QED
          BY <3>1, <3>3, <4>1, <4>2 DEF Beside
      <3>4. CASE \E j \in 1..Len(sh) : sh[j] = d[k]
        BY <3>1, <3>4
      <3> QED
        BY <1>13, <3>2, <3>3, <3>4
    <2> QED
      BY <2>1, <2>2
  <1>18. ShownOf(is, ProcessMessageBody(m), m.config, sh)
    BY <1>4, <1>15, <1>16 DEF ShownOf
  <1> QED
    BY <1>5, <1>17, <1>18

-------------------------------------------------------------------------------
(* The messages of a swap. *)

\* A message that is printed without giving up: its transfers are those the
\* trusted info speaks of, and some of its instructions are shown.
LEMMA SwapBodyShown ==
  ASSUME NEW m \in Messages, ~ AsksFor(BodyRequests(m), "bail")
  PROVE  /\ Parsed(m) = m.instructions
         /\ \A n \in 1..Len(m.instructions) :
              m.instructions[n].kind \in TransferKinds =>
                MatchesTrusted(m.instructions[n], m.trusted)
         /\ \E sh \in Seq(ToSet(m.instructions)) :
              /\ ShownOf(m.instructions, BodyRequests(m), m.config, sh)
              /\ \A n \in 1..Len(m.instructions) :
                   \/ Beside(m.instructions, n)
                   \/ \E j \in 1..Len(sh) : sh[j] = m.instructions[n]
  <1> DEFINE is == m.instructions
             mm == [m EXCEPT !.instructions = Parsed(m)]
  <1>1. /\ is \in Seq(ToSet(is)) /\ {"instructions", "config"} \subseteq DOMAIN m
        /\ \A n \in DOMAIN is : {"kind", "at"} \subseteq DOMAIN is[n] /\ is[n].at = n
        /\ BodyRequests(m) = ProcessMessageBody(mm)
    BY SwapAssumption DEF SwapBodyRequests
  <1>2. mm.instructions = Parsed(m) /\ mm.config = m.config
    BY <1>1
  <1>3. DOMAIN is = 1..Len(is) /\ Len(is) \in Nat
    BY <1>1
  <1>4. /\ DOMAIN Parsed(m) = 1..Len(is)
        /\ \A n \in 1..Len(is) :
             \/ /\ Parsed(m)[n] = is[n]
                /\ is[n].kind \in TransferKinds => MatchesTrusted(is[n], m.trusted)
             \/ Parsed(m)[n].kind = "Unknown" /\ Parsed(m)[n].at = is[n].at
    <2>1. Parsed(m) = [n \in 1..Len(is) |->
                         IF is[n].kind \in TransferKinds /\ ~ MatchesTrusted(is[n], m.trusted)
                         THEN [is[n] EXCEPT !.kind = "Unknown"] ELSE is[n]]
      BY <1>3 DEF Parsed
    <2> HIDE DEF is
    <2> QED
      BY <1>1, <1>3, <2>1
  <1> HIDE DEF mm
  <1>5. PICK ps : ps = Parsed(m)
    OBVIOUS
  <1>6. /\ DOMAIN ps = 1..Len(is) /\ \A n \in 1..Len(is) : ps[n].at = n
    BY <1>1, <1>3, <1>4, <1>5
  <1>7. PICK S : ps \in Seq(S) /\ Len(ps) = Len(is)
    <2>1. ps = [n \in 1..Len(is) |-> ps[n]]
      BY <1>5 DEF Parsed
    <2>2. Len(is) \in Nat
      BY <1>3
    <2> HIDE DEF is
    <2>3. ps \in Seq({ps[n] : n \in 1..Len(is)}) /\ Len(ps) = Len(is)
      <3> DEFINE R == {ps[n] : n \in 1..Len(is)}
      <3>1. \A n \in 1..Len(is) : ps[n] \in R
        OBVIOUS
      <3> HIDE DEF R
      <3>2. ps \in Seq(R) /\ Len(ps) = Len(is)
        BY <1>6, <2>1, <2>2, <3>1
      <3> QED
        BY <3>2 DEF R
    <2> QED
      BY <2>3
  <1>8. mm.instructions = ps /\ mm.config = m.config /\ ~ AsksFor(ProcessMessageBody(mm), "bail")
    BY <1>1, <1>2, <1>5
  <1>9. /\ \A n \in 1..Len(ps) : ps[n].kind # "Unknown"
        /\ \E sh \in Seq(S) :
             /\ ShownOf(ps, ProcessMessageBody(mm), m.config, sh)
             /\ \A n \in 1..Len(ps) : \/ Beside(ps, n)
                                      \/ \E j \in 1..Len(sh) : sh[j] = ps[n]
    <2>1. /\ mm.instructions \in Seq(S)
          /\ \A n \in 1..Len(mm.instructions) : mm.instructions[n].at = n
      BY <1>6, <1>7, <1>8
    <2>2. /\ \A n \in 1..Len(mm.instructions) : mm.instructions[n].kind # "Unknown"
          /\ \E sh \in Seq(S) :
               /\ ShownOf(mm.instructions, ProcessMessageBody(mm), mm.config, sh)
               /\ \A n \in 1..Len(mm.instructions) :
                    \/ Beside(mm.instructions, n)
                    \/ \E j \in 1..Len(sh) : sh[j] = mm.instructions[n]
      BY <1>8, <2>1, BodyShown
    <2> QED
      BY <1>8, <2>2
  <1>10. \A n \in 1..Len(is) :
           ps[n] = is[n] /\ (is[n].kind \in TransferKinds => MatchesTrusted(is[n], m.trusted))
    BY <1>4, <1>5, <1>7, <1>9
  <1>11. ps = is
    <2>1. is = [n \in 1..Len(is) |-> is[n]]
      BY <1>1, <1>3
    <2>2. ps = [n \in 1..Len(is) |-> ps[n]]
      BY <1>5, <1>3 DEF Parsed
    <2> HIDE DEF is
    <2> QED
      BY <1>10, <2>1, <2>2
  <1>12. PICK sh \in Seq(S) :
           /\ ShownOf(is, BodyRequests(m), m.config, sh)
           /\ \A n \in 1..Len(is) : \/ Beside(is, n)
                                    \/ \E j \in 1..Len(sh) : sh[j] = is[n]
    BY <1>1, <1>9, <1>11
  <1>13. sh \in Seq(ToSet(is))
    <2>1. \A j \in 1..Len(sh) : sh[j] \in ToSet(is)
      <3> SUFFICES ASSUME NEW j \in 1..Len(sh) PROVE sh[j] \in ToSet(is)
        OBVIOUS
      <3>1. PICK n \in 1..Len(is) : sh[j] = is[n]
        BY <1>12 DEF ShownOf
      <3> QED
        BY <1>3, <3>1 DEF ToSet
    <2> HIDE DEF is
    <2> QED
      BY <2>1
  <1> QED
    BY <1>5, <1>10, <1>11, <1>12, <1>13

\* An item of one instruction is of that instruction.
LEMMA InstructionIs ==
  ASSUME NEW m \in Messages, NEW i \in ToSet(m.instructions), NEW item, item.of = {i.at}
  PROVE  InstructionOf(m, item) = i
  <1> DEFINE is == m.instructions
  <1>1. is \in Seq(ToSet(is)) /\ \A n \in DOMAIN is : is[n].at = n
    BY SwapAssumption
  <1>2. \A j \in ToSet(is) : j.at = i.at => j = i
    BY <1>1 DEF ToSet
  <1>3. \A j \in ToSet(is) : j.at \in item.of <=> j = i
    BY <1>2
  <1> QED
    BY <1>3 DEF InstructionOf

\* An item of some instructions is of one of them.
LEMMA InstructionAmong ==
  ASSUME NEW m \in Messages, NEW item, item.of # {},
         NEW B \in SUBSET ToSet(m.instructions), item.of \subseteq {i.at : i \in B}
  PROVE  InstructionOf(m, item) \in B /\ InstructionOf(m, item).at \in item.of
  <1> DEFINE is == m.instructions
  <1>1. is \in Seq(ToSet(is)) /\ \A n \in DOMAIN is : is[n].at = n
    BY SwapAssumption
  <1>2. \A i, j \in ToSet(is) : j.at = i.at => j = i
    BY <1>1 DEF ToSet
  <1>3. PICK i \in B : i.at \in item.of
    OBVIOUS
  <1>4. InstructionOf(m, item) \in ToSet(is) /\ InstructionOf(m, item).at \in item.of
    BY <1>3 DEF InstructionOf
  <1>5. PICK j \in B : j.at = InstructionOf(m, item).at
    BY <1>4
  <1> QED
    BY <1>2, <1>4, <1>5

-------------------------------------------------------------------------------
(* What passes the checks. *)

\* The title "Max fees" is that of the maximum fee.
LEMMA FeeTitle ==
  ASSUME NEW m, NEW item, ItemTitle(m, item) = "Max fees"
  PROVE  item.field = "max_fee"
  BY Zenon DEF ItemTitle

\* The title "Amount" is that of the amount of a transfer or of a withdrawal.
LEMMA AmountTitle ==
  ASSUME NEW m, NEW item, ItemTitle(m, item) = "Amount"
  PROVE  \/ item.field = "tokens" /\ InstructionOf(m, item).kind \in TransferKinds
         \/ /\ item.field = "lamports"
            /\ InstructionOf(m, item).kind \in {"StakeWithdraw", "SystemTransfer"}
  BY Zenon DEF ItemTitle

\* The title "To" is that of where something goes.
LEMMA ToTitle ==
  ASSUME NEW m, NEW item, ItemTitle(m, item) = "To"
  PROVE  item.field \in {"to", "split_account"}
  BY Zenon DEF ItemTitle

\* What an item is, by its field.
LEMMA KindIs ==
  ASSUME NEW m, NEW item
  PROVE  /\ ItemKind(m, item) = "Amount" => item.field \in {"lamports", "max_fee"}
         /\ ItemKind(m, item) = "TokenAmount" => item.field \in {"tokens", "fee_tokens"}
         /\ ItemKind(m, item) \in {"Pubkey", "String"} =>
              item.field \notin {"lamports", "max_fee", "tokens", "fee_tokens"}
         /\ item.field = "action" => ItemKind(m, item) = "String"
         /\ item.field \in {"tokens", "fee_tokens"} => ItemKind(m, item) = "TokenAmount"
         /\ item.field = "lamports" => ItemKind(m, item) = "Amount"
         /\ item.field = "to" /\ InstructionOf(m, item).kind \notin TransferKinds =>
              ItemKind(m, item) = "Pubkey"
  BY Zenon DEF ItemKind

\* What is printed of an item, by what it is.
LEMMA PrintedIs ==
  ASSUME NEW m, NEW item
  PROVE  LET arg == InstructionOf(m, item).arg
         IN /\ item.field = "max_fee" =>
                 ItemPrinted(m, item) = PrintTokenAmount(m.maxFee, SOL, SolDecimals, TextLength)
            /\ item.field = "lamports" =>
                 ItemPrinted(m, item) = PrintTokenAmount(arg.lamports, SOL, SolDecimals, TextLength)
            /\ item.field = "tokens" =>
                 ItemPrinted(m, item)
                   = PrintTokenAmount(arg.tokens, arg.symbol, arg.decimals, TextLength)
            /\ item.field = "to" /\ ItemKind(m, item) = "String" =>
                 ItemPrinted(m, item) = Printed(KeyText(m.trusted.owner))
            /\ item.field = "to" /\ ItemKind(m, item) = "Pubkey" /\ "to" \in DOMAIN arg =>
                 ItemPrinted(m, item) = Printed(KeyText(arg.to))
            /\ item.field \notin {"lamports", "max_fee", "tokens", "fee_tokens"} =>
                 ItemPrinted(m, item).ok
  <1> DEFINE arg == InstructionOf(m, item).arg
  <1>1. item.field = "max_fee" =>
          ItemPrinted(m, item) = PrintTokenAmount(m.maxFee, SOL, SolDecimals, TextLength)
    BY KindIs, Zenon DEF ItemPrinted
  <1>2. item.field = "lamports" =>
          ItemPrinted(m, item) = PrintTokenAmount(arg.lamports, SOL, SolDecimals, TextLength)
    BY KindIs, Zenon DEF ItemPrinted
  <1>3. item.field = "tokens" =>
          ItemPrinted(m, item) = PrintTokenAmount(arg.tokens, arg.symbol, arg.decimals, TextLength)
    BY KindIs, Zenon DEF ItemPrinted
  <1>4. item.field = "to" /\ ItemKind(m, item) = "String" =>
          ItemPrinted(m, item) = Printed(KeyText(m.trusted.owner))
    BY KindIs, Zenon DEF ItemPrinted
  <1>5. item.field = "to" /\ ItemKind(m, item) = "Pubkey" /\ "to" \in DOMAIN arg =>
          ItemPrinted(m, item) = Printed(KeyText(arg["to"]))
    BY KindIs, Zenon DEF ItemPrinted
  <1>6. ASSUME item.field \notin {"lamports", "max_fee", "tokens", "fee_tokens"}
        PROVE  ItemPrinted(m, item).ok
    <2>1. \E text : ItemPrinted(m, item) = Printed(text)
      BY <1>6, Zenon DEF ItemPrinted
    <2> QED
      BY <2>1 DEF Printed
  <1> QED
    BY <1>1, <1>2, <1>3, <1>4, <1>5, <1>6

\* What is printed of an amount is its text.
LEMMA AmountPrinted ==
  ASSUME NEW v, NEW d, NEW ticker, NEW l, PrintTokenAmount(v, ticker, d, l).ok
  PROVE  PrintTokenAmount(v, ticker, d, l).text = AmountText(v, ticker, d)
  BY DEF PrintTokenAmount, Printed, Refused, AmountText

-------------------------------------------------------------------------------
(* What it says of an item that it passed. *)

\* The text is that of the amount of the swap v.
AmountIs(v, text) ==
  LET p == PrintTokenAmount(v.amount, v.ticker, v.decimals, PrintableLength)
  IN p.ok /\ text = p.text

\* The text is of no more than the fee of the swap v.
FeeWithin(v, text) ==
  LET p == PrintTokenAmount(v.fee, SOL, SolDecimals, PrintableLength)
  IN p.ok /\ AmountTextAtLeast(p.text, text)

\* An item of the message m that has been compared with the swap v.
Passes(m, v, item) ==
  LET text == ItemPrinted(m, item).text
      kind == InstructionOf(m, item).kind
  IN /\ ItemPrinted(m, item).ok
     /\ \/ item.field = "max_fee" /\ FeeWithin(v, text)
        \/ /\ v.ticker = SOL /\ item.field = "lamports"
           /\ kind \in {"StakeWithdraw", "SystemTransfer"} /\ AmountIs(v, text)
        \/ /\ v.ticker = SOL /\ item.field \in {"to", "split_account"}
           /\ text = KeyText(v.recipient)
        \/ /\ v.ticker # SOL /\ item.field = "tokens"
           /\ kind \in TransferKinds /\ AmountIs(v, text)
        \/ v.ticker # SOL /\ ItemKind(m, item) = "Pubkey"
        \/ /\ v.ticker # SOL /\ ItemKind(m, item) = "String" /\ item.field = "to"
           /\ m.trusted.owner = v.recipient

\* The parameters of a swap are numbers and a ticker.
ParametersTyped(v) ==
  /\ v.amount \in Nat /\ v.fee \in Nat /\ v.decimals \in Nat
  /\ v.ticker \in Seq(ToSet(v.ticker))

\* The ticker of SOL is a text.
LEMMA SolTyped == SOL \in Seq(ToSet(SOL)) /\ SOL # <<>>
  <1>1. \A a, b, c : <<a, b, c>> \in Seq({a, b, c}) /\ <<a, b, c>> # <<>>
                    /\ DOMAIN <<a, b, c>> = 1..3
                    /\ <<a, b, c>>[1] = a /\ <<a, b, c>>[2] = b /\ <<a, b, c>>[3] = c
    OBVIOUS
  <1>2. \A a, b, c : {a, b, c} \subseteq ToSet(<<a, b, c>>)
    BY <1>1 DEF ToSet
  <1>3. SOL \in Seq({"S", "O", "L"}) /\ SOL # <<>> /\ {"S", "O", "L"} \subseteq ToSet(SOL)
    BY <1>1, <1>2 DEF SOL
  <1> QED
    BY <1>3, SeqMonotonic

\* The parameters Exchange hands over are such.
LEMMA ParametersAreTyped ==
  ASSUME NEW p \in Swaps
  PROVE  ParametersTyped(CopyParameters(p))
  <1>1. Coin(p).decimals \in Nat /\ Coin(p).ticker \in Seq(ToSet(Coin(p).ticker))
    BY SwapAssumption, SolTyped DEF Coin
  <1> QED
    BY <1>1, SwapAssumption DEF CopyParameters, ParametersTyped

\* The title "Amount" is displayed only once the amount has been seen, so that what
\* stays of it cannot pass for an amount again.
AmountTitleSeen ==
  validated.ticker # SOL /\ shown.title = "Amount" => "amount" \in seen

\* An item that could not be printed is refused, whatever it left behind.
LEMMA UnprintedRefused ==
  ASSUME AmountTitleSeen, NEW item, ~ ItemPrinted(message, item).ok,
         item.field \notin {"lamports", "max_fee"},
         NEW s, s.title = shown.title
  PROVE  ~ ItemAccepted(ItemKind(message, item), s)
  <1>1. item.field \in {"tokens", "fee_tokens"}
    BY PrintedIs
  <1>2. ItemKind(message, item) \notin {"Pubkey", "String", "Amount"}
    BY <1>1, KindIs
  <1> QED
    BY <1>2 DEF ItemAccepted, CheckTokenItem, CheckNativeItem, AmountTitleSeen,
                IsTokenTransaction

\* An item that is accepted could be printed.
LEMMA AcceptedPrints ==
  ASSUME AmountTitleSeen, NEW item,
         item.field \in {"lamports", "max_fee"} => ItemPrinted(message, item).ok,
         NEW s,
         \/ /\ ItemPrinted(message, item).ok
            /\ s = [title |-> ItemTitle(message, item),
                    text |-> ItemPrinted(message, item).text]
         \/ ~ ItemPrinted(message, item).ok /\ s.title = shown.title,
         ItemAccepted(ItemKind(message, item), s)
  PROVE  /\ ItemPrinted(message, item).ok
         /\ s = [title |-> ItemTitle(message, item), text |-> ItemPrinted(message, item).text]
  BY UnprintedRefused

\* An item that is accepted passes.
LEMMA AcceptedPasses ==
  ASSUME NEW item, ItemPrinted(message, item).ok, NEW s,
         s = [title |-> ItemTitle(message, item), text |-> ItemPrinted(message, item).text],
         ItemAccepted(ItemKind(message, item), s)
  PROVE  Passes(message, validated, item)
  <1> DEFINE kind == ItemKind(message, item)
             text == ItemPrinted(message, item).text
  <1>1. ItemPrinted(message, item).ok
    OBVIOUS
  <1>2. s.title = ItemTitle(message, item) /\ s.text = text
    BY <1>1
  <1>3. kind = "Amount" /\ s.title = "Max fees" /\ FeeAccepted(s.text) =>
          item.field = "max_fee" /\ FeeWithin(validated, text)
    BY <1>2, FeeTitle DEF FeeAccepted, FeeWithin
  <1>4. AmountAccepted(s.text) => AmountIs(validated, text)
    BY <1>2 DEF AmountAccepted, AmountIs
  <1>5. CASE validated.ticker = SOL
    <2>1. CheckNativeItem(kind, s)
      BY <1>5 DEF ItemAccepted, IsTokenTransaction
    <2>2. CASE kind = "Amount" /\ s.title = "Max fees" /\ FeeAccepted(s.text)
      BY <1>1, <1>3, <2>2 DEF Passes
    <2>3. CASE kind = "Amount" /\ s.title = "Amount" /\ AmountAccepted(s.text)
      BY <1>1, <1>2, <1>4, <1>5, <2>3, AmountTitle, KindIs DEF Passes
    <2>4. CASE kind = "Pubkey" /\ s.title = "To" /\ RecipientAccepted(s.text)
      BY <1>1, <1>2, <1>5, <2>4, ToTitle DEF Passes, RecipientAccepted
    <2> QED
      BY <2>1, <2>2, <2>3, <2>4 DEF CheckNativeItem
  <1>6. CASE validated.ticker # SOL
    <2>1. CheckTokenItem(kind, s)
      BY <1>6 DEF ItemAccepted, IsTokenTransaction
    <2>2. CASE kind = "TokenAmount" /\ s.title = "Amount" /\ AmountAccepted(s.text)
      BY <1>1, <1>2, <1>4, <1>6, <2>2, AmountTitle, KindIs DEF Passes
    <2>3. CASE kind = "Amount" /\ s.title = "Max fees" /\ FeeAccepted(s.text)
      BY <1>1, <1>3, <2>3 DEF Passes
    <2>4. CASE kind = "Pubkey" /\ CheckTokenKey(s)
      BY <1>1, <1>6, <2>4 DEF Passes
    <2>5. CASE kind = "String" /\ s.title = "To" /\ s.text = KeyText(message.trusted.owner)
                 /\ RecipientAccepted(s.text)
      <3>1. item.field = "to"
        <4>1. item.field \in {"to", "split_account"}
          BY <1>2, <2>5, ToTitle
        <4>2. item.field # "split_account"
          BY <2>5, Zenon DEF ItemKind
        <4> QED
          BY <4>1, <4>2
      <3>2. message.trusted.owner = validated.recipient
        BY <2>5 DEF RecipientAccepted, KeyText
      <3> QED
        BY <1>1, <1>6, <2>5, <3>1, <3>2 DEF Passes
    <2> QED
      BY <2>1, <2>2, <2>3, <2>4, <2>5 DEF CheckTokenItem
  <1> QED
    BY <1>5, <1>6

-------------------------------------------------------------------------------
(* What every state of a swap satisfies. *)

\* The review of a swap is a review: what MessageReview's states satisfy.
BaseInv == ReviewInv /\ TypeOK /\ FinalizedInv /\ ReviewedInv /\ OrderInv

\* The swap that has been called for is the one that was copied, before any message.
CalledInv ==
  /\ \/ swap = None /\ validated = None
     \/ swap \in Swaps /\ validated = CopyParameters(swap)
  /\ message # NoMessage => validated # None

\* The stages of a message: it is never reviewed blindly, and the app answers
\* and exits.
StagesInv ==
  /\ stage # "blind"
  /\ stage \in {"printing", "reviewing"} =>
       message \in Messages /\ requests = BodyRequests(message)
  /\ stage # "idle" => message # NoMessage
  /\ verdict # "none" => stage = "exited"
  /\ seen # {} => stage \in {"reviewing", "exited"}

\* The items of the review are what was asked for.
AskedIsShown ==
  /\ \A n \in DOMAIN requests :
       /\ requests[n].slot # "bail"
       /\ \E k \in DOMAIN steps : steps[k] = requests[n].item
  /\ \A k \in DOMAIN steps : \E n \in DOMAIN requests : requests[n].item = steps[k]

\* The items that have been compared passed, and what has been seen is of them.
ComparedItems ==
  /\ \A n \in 1..page : Passes(message, validated, steps[n])
  /\ seen # {} => page > 0
  /\ validated.ticker # SOL =>
       /\ "amount" \in seen =>
            \E n \in 1..page : ItemKind(message, steps[n]) = "TokenAmount"
       /\ "owner" \in seen =>
            \E n \in 1..page : ItemKind(message, steps[n]) = "String"

ComparedInv ==
  stage = "reviewing" \/ verdict = "signed" =>
    ComparedItems /\ (page > 0 => SwapAccepted)

\* What is on display says of an amount of tokens that it has been seen.
ShownInv ==
  /\ stage = "printing" => shown = Blank
  /\ stage = "reviewing" => AmountTitleSeen

SignedInv ==
  verdict = "signed" =>
    /\ message \in Messages /\ requests = BodyRequests(message)
    /\ page = Len(steps) /\ Required \subseteq seen
    /\ AskedIsShown

SwapInv == BaseInv /\ CalledInv /\ StagesInv /\ ShownInv /\ ComparedInv /\ SignedInv

\* It holds before Exchange calls the app.
LEMMA SwapStart == SwapInit => SwapInv
  <1> SUFFICES ASSUME SwapInit PROVE SwapInv
    OBVIOUS
  <1>1. Init /\ swap = None /\ validated = None /\ seen = {} /\ verdict = "none"
    BY DEF SwapInit
  <1>2. message = NoMessage /\ stage = "idle"
    BY <1>1 DEF Init
  <1>3. FinalizedInv /\ ReviewedInv
    BY <1>2 DEF FinalizedInv, ReviewedInv
  <1>4. BaseInv
    BY <1>1, <1>3, ReviewStart, TypedStart, OrderInvStart DEF BaseInv
  <1>5. CalledInv /\ StagesInv /\ ShownInv /\ ComparedInv /\ SignedInv
    BY <1>1, <1>2 DEF CalledInv, StagesInv, ShownInv, ComparedInv, SignedInv
  <1> QED
    BY <1>4, <1>5 DEF SwapInv

\* The comparison of an item: it passes, and the next one is compared, or the
\* app exits.
LEMMA CheckItemIs ==
  ASSUME CheckItem
  PROVE  /\ stage = "reviewing" /\ page < Len(steps) /\ (page = 0 => SwapAccepted)
         /\ UNCHANGED <<message, requests, served, summary, steps, swap, validated>>
         /\ shown' \in DisplayedAt(page)
         /\ \/ /\ ItemAccepted(ItemKind(message, steps[page + 1]), shown')
               /\ page' = page + 1 /\ UNCHANGED <<stage, verdict>>
               /\ seen' = seen \union
                    (IF IsTokenTransaction
                     THEN TokenFlags(ItemKind(message, steps[page + 1]), shown')
                     ELSE NativeFlags(ItemKind(message, steps[page + 1])))
            \/ stage' = "exited" /\ verdict' = "refused" /\ UNCHANGED <<page, seen>>
  <1>1. CASE ItemAccepted(ItemKind(message, steps[page + 1]), shown')
    BY <1>1 DEF CheckItem
  <1>2. CASE ~ ItemAccepted(ItemKind(message, steps[page + 1]), shown')
    BY <1>2 DEF CheckItem
  <1> QED
    BY <1>1, <1>2

\* A step of a swap is a step of the review, but for the items: what decides
\* whether the next one is reached is the comparison and not its display.
LEMMA SwapStepIs ==
  ASSUME BaseInv, [SwapNext]_allVars
  PROVE  \/ [Next]_vars
         \/ page < Len(steps) /\ page' = page + 1
              /\ UNCHANGED <<message, stage, requests, served, summary, steps>>
  <1>1. CASE \E p \in Swaps : Launch(p)
    BY <1>1 DEF Launch
  <1>2. CASE \E m \in Messages : Receive(m)
    BY <1>2 DEF Receive, Next
  <1>3. CASE Prepare
    BY <1>3 DEF Prepare, Next, Work
  <1>4. CASE RefuseMessage
    BY <1>4 DEF RefuseMessage, Next, Work
  <1>5. CASE RefuseSwap
    BY <1>5 DEF RefuseSwap, Next, Work
  <1>6. CASE CheckItem
    <2>1. message \in Messages /\ InSwap(message)
      BY <1>6, CheckItemIs, SwapAssumption DEF BaseInv, ReviewedInv
    <2>2. Decide \/ (page < Len(steps) /\ page' = page + 1
              /\ UNCHANGED <<message, stage, requests, served, summary, steps>>)
      BY <1>6, <2>1, CheckItemIs DEF Decide
    <2> QED
      BY <2>2 DEF Next, Work
  <1>7. CASE Conclude
    BY <1>7 DEF Conclude, Next, Work
  <1>8. CASE Return
    BY <1>8 DEF Return, Next, Work
  <1>9. CASE UNCHANGED allVars
    BY <1>9 DEF allVars
  <1> QED
    BY <1>1, <1>2, <1>3, <1>4, <1>5, <1>6, <1>7, <1>8, <1>9 DEF SwapNext

\* So what the states of a review satisfy is kept.
LEMMA BaseStep == BaseInv /\ [SwapNext]_allVars => BaseInv'
  <1> SUFFICES ASSUME BaseInv, [SwapNext]_allVars PROVE BaseInv'
    OBVIOUS
  <1>1. CASE [Next]_vars
    BY <1>1, ReviewStep, TypedStep, FinalizedStep, ReviewedStep, OrderInvStep DEF BaseInv
  <1>2. CASE page < Len(steps) /\ page' = page + 1
              /\ UNCHANGED <<message, stage, requests, served, summary, steps>>
    <2>1. ReviewInv'
      BY <1>2 DEF BaseInv, ReviewInv, EveryRequestKept, Serving
    <2>2. TypeOK'
      BY <1>2 DEF BaseInv, TypeOK
    <2>3. FinalizedInv' /\ ReviewedInv'
      BY <1>2 DEF BaseInv, FinalizedInv, ReviewedInv
    <2>4. OrderInv'
      BY <1>2 DEF BaseInv, OrderInv, DisplayOrder
    <2> QED
      BY <2>1, <2>2, <2>3, <2>4 DEF BaseInv
  <1> QED
    BY <1>1, <1>2, SwapStepIs

\* The swap is called for once, and before the message.
LEMMA CalledStep == BaseInv /\ StagesInv /\ CalledInv /\ [SwapNext]_allVars => CalledInv'
  <1> SUFFICES ASSUME CalledInv, [SwapNext]_allVars PROVE CalledInv'
    OBVIOUS
  <1>0. \A p \in Swaps : CopyParameters(p) # None
    BY SwapAssumption
  <1>1. CASE \E p \in Swaps : Launch(p)
    BY <1>0, <1>1 DEF Launch, CalledInv, vars
  <1>2. CASE \E m \in Messages : Receive(m)
    BY <1>2 DEF Receive, CalledInv
  <1>3. CASE Prepare
    BY <1>3 DEF Prepare, ServeRequest, Crash, Finalize, CalledInv, swapVars
  <1>4. CASE RefuseMessage
    BY <1>4 DEF RefuseMessage, GiveUp, CalledInv
  <1>5. CASE RefuseSwap \/ Conclude
    BY <1>5 DEF RefuseSwap, Conclude, Decide, CalledInv
  <1>6. CASE CheckItem
    BY <1>6, CheckItemIs DEF CalledInv
  <1>7. CASE Return
    BY <1>7 DEF Return, Restart, CalledInv
  <1>8. CASE UNCHANGED allVars
    BY <1>8 DEF allVars, vars, swapVars, CalledInv
  <1> QED
    BY <1>1, <1>2, <1>3, <1>4, <1>5, <1>6, <1>7, <1>8 DEF SwapNext

\* The stages follow each other, and no message is reviewed blindly in a swap.
LEMMA StagesStep == BaseInv /\ StagesInv /\ [SwapNext]_allVars => StagesInv'
  <1> SUFFICES ASSUME BaseInv, StagesInv, [SwapNext]_allVars PROVE StagesInv'
    OBVIOUS
  <1>0. /\ \A m \in Messages : InSwap(m)
        /\ NoMessage \notin Messages
    BY SwapAssumption, ReviewAssumption
  <1>1. CASE \E p \in Swaps : Launch(p)
    BY <1>1 DEF Launch, StagesInv, vars
  <1>2. CASE \E m \in Messages : Receive(m)
    BY <1>0, <1>2 DEF Receive, HandleSignMessage, StagesInv
  <1>3. CASE Prepare
    <2>1. /\ stage = "printing" /\ message \in Messages /\ message # NoMessage
          /\ UNCHANGED <<message, requests, seen, verdict>>
          /\ stage' \in {"printing", "crashed", "idle", "reviewing"}
      BY <1>0, <1>3 DEF Prepare, ServeRequest, Crash, Finalize, Pending, StagesInv, swapVars
    <2> QED
      BY <2>1 DEF StagesInv
  <1>4. CASE RefuseMessage
    BY <1>0, <1>4 DEF RefuseMessage, GiveUp, StagesInv
  <1>5. CASE RefuseSwap \/ Conclude
    BY <1>0, <1>5 DEF RefuseSwap, Conclude, Decide, StagesInv
  <1>6. CASE CheckItem
    <2>1. verdict = "none"
      BY <1>6, CheckItemIs DEF StagesInv
    <2> QED
      BY <1>6, <2>1, CheckItemIs DEF StagesInv
  <1>7. CASE Return
    BY <1>7 DEF Return, Restart, StagesInv
  <1>8. CASE UNCHANGED allVars
    BY <1>8 DEF allVars, vars, swapVars, StagesInv
  <1> QED
    BY <1>1, <1>2, <1>3, <1>4, <1>5, <1>6, <1>7, <1>8 DEF SwapNext

\* What is chosen of the requests was asked for.
LEMMA ChosenIsAsked ==
  ASSUME NEW rs, IsSequence(rs), NEW slot
  PROVE  /\ IsSequence(Chosen(rs, slot))
         /\ \A x : Among(Chosen(rs, slot), x) => \E n \in DOMAIN rs : rs[n].item = x
  <1> DEFINE T == {r \in Requests : r.slot = slot}
             R == {rs[n] : n \in DOMAIN rs}
             picked == InOrder(rs, T)
  <1>1. rs \in Seq(R)
    <2>1. PICK S : rs \in Seq(S)
      BY DEF IsSequence
    <2>2. DOMAIN rs = 1..Len(rs) /\ Len(rs) \in Nat /\ rs = [n \in 1..Len(rs) |-> rs[n]]
      BY <2>1
    <2>3. \A n \in 1..Len(rs) : rs[n] \in R
      BY <2>2
    <2> HIDE DEF R
    <2> QED
      BY <2>2, <2>3
  <1> HIDE DEF T, R
  <1>2. picked \in Seq(R)
    BY <1>1, InOrderTyped
  <1>3. Chosen(rs, slot) = [n \in DOMAIN picked |-> picked[n].item]
    BY DEF Chosen, T
  <1> HIDE DEF picked
  <1>4. DOMAIN picked = 1..Len(picked) /\ Len(picked) \in Nat
        /\ \A n \in 1..Len(picked) : picked[n] \in R
    BY <1>2
  <1>5. PICK c : c = Chosen(rs, slot)
    OBVIOUS
  <1>6. DOMAIN c = 1..Len(picked) /\ c = [n \in 1..Len(picked) |-> picked[n].item]
    BY <1>3, <1>4, <1>5
  <1>7. c \in Seq({picked[n].item : n \in 1..Len(picked)})
    <2> DEFINE I == {picked[n].item : n \in 1..Len(picked)}
    <2>1. \A n \in 1..Len(picked) : picked[n].item \in I
      OBVIOUS
    <2> HIDE DEF I
    <2>2. c \in Seq(I)
      BY <1>4, <1>6, <2>1
    <2> QED
      BY <2>2 DEF I
  <1>8. ASSUME NEW x, Among(c, x) PROVE \E n \in DOMAIN rs : rs[n].item = x
    <2>1. PICK k \in 1..Len(picked) : picked[k].item = x
      BY <1>6, <1>8 DEF Among
    <2> QED
      BY <1>4, <2>1 DEF R
  <1> QED
    BY <1>5, <1>7, <1>8 DEF IsSequence

\* The items of the review of a swap are what was asked for.
LEMMA ReviewIsAsked ==
  ASSUME BaseInv, StagesInv, stage = "reviewing"
  PROVE  AskedIsShown
  <1>1. message \in Messages /\ requests = BodyRequests(message)
    BY DEF StagesInv
  <1>2. requests \in Seq(Requests) /\ IsSequence(requests)
    BY <1>1, RequestsTyped DEF IsSequence
  <1>3. \A n \in DOMAIN requests : requests[n].slot # "bail"
    BY DEF BaseInv, ReviewedInv, Slots, NamedSlots
  <1>4. \A n \in DOMAIN requests : \E k \in DOMAIN steps : steps[k] = requests[n].item
    BY RequestsAreShown DEF BaseInv
  <1>5. steps = Chosen(requests, "primary") \o Chosen(requests, "general")
                  \o Chosen(requests, "nonce_account")
                  \o Chosen(requests, "nonce_authority")
                  \o Chosen(requests, "fee_payer")
    BY <1>1 DEF BaseInv, OrderInv, DisplayOrder, Chosen
  <1>6. \A x : Among(steps, x) => \E slot : Among(Chosen(requests, slot), x)
    <2>1. \A slot : IsSequence(Chosen(requests, slot))
      BY <1>2, ChosenIsAsked
    <2> DEFINE a == Chosen(requests, "primary")
               b == Chosen(requests, "general")
               c == Chosen(requests, "nonce_account")
               d == Chosen(requests, "nonce_authority")
               e == Chosen(requests, "fee_payer")
    <2>2. IsSequence(a) /\ IsSequence(b) /\ IsSequence(c) /\ IsSequence(d) /\ IsSequence(e)
      BY <2>1
    <2>3. steps = a \o b \o c \o d \o e
      BY <1>5
    <2>4. ASSUME NEW x, Among(a, x) \/ Among(b, x) \/ Among(c, x) \/ Among(d, x) \/ Among(e, x)
          PROVE  \E slot : Among(Chosen(requests, slot), x)
      BY <2>4
    <2> HIDE DEF a, b, c, d, e
    <2>5. \A x : Among(steps, x) =>
            Among(a, x) \/ Among(b, x) \/ Among(c, x) \/ Among(d, x) \/ Among(e, x)
      BY <2>2, <2>3, AmongJoined
    <2> QED
      BY <2>4, <2>5
  <1>7. \A k \in DOMAIN steps : Among(steps, steps[k])
    BY DEF Among
  <1>8. \A k \in DOMAIN steps : \E n \in DOMAIN requests : requests[n].item = steps[k]
    BY <1>2, <1>6, <1>7, ChosenIsAsked
  <1> QED
    BY <1>3, <1>4, <1>8 DEF AskedIsShown

\* What the checks want before they look at the items depends on the message, the
\* swap and the steps only.
LEMMA AcceptedStays ==
  ASSUME UNCHANGED <<message, steps, validated>>
  PROVE  SwapAccepted' <=> SwapAccepted
  <1>1. \A i, f : Shown(i, f)' <=> Shown(i, f)
    BY DEF Shown
  <1>2. PrintedTransfers' = PrintedTransfers
    BY <1>1 DEF PrintedTransfers
  <1>3. /\ Token2022Transfer' <=> Token2022Transfer
        /\ FeeWarning' <=> FeeWarning
        /\ HookWarning' <=> HookWarning
        /\ IsTokenTransaction' <=> IsTokenTransaction
    BY <1>2 DEF Token2022Transfer, FeeWarning, HookWarning, IsTokenTransaction
  <1>4. (message.trusted.derives = Token2022Transfer)'
          <=> message.trusted.derives = Token2022Transfer
    BY <1>2, Zenon DEF Token2022Transfer
  <1> QED
    BY <1>3, <1>4 DEF SwapAccepted

\* What has been compared stays so.
LEMMA ComparedStays ==
  ASSUME ComparedInv, stage = "reviewing",
         UNCHANGED <<message, steps, page, validated, seen>>
  PROVE  ComparedInv'
  <1>1. ComparedItems /\ (page > 0 => SwapAccepted)
    BY DEF ComparedInv
  <1>2. ComparedItems'
    BY <1>1 DEF ComparedItems
  <1>3. (page > 0 => SwapAccepted)'
    BY <1>1, AcceptedStays
  <1> QED
    BY <1>2, <1>3 DEF ComparedInv

\* What an accepted item adds to what has been seen.
LEMMA SeenWith ==
  ASSUME validated.ticker # SOL, NEW kind, NEW s
  PROVE  /\ "amount" \in TokenFlags(kind, s) => kind = "TokenAmount"
         /\ "owner" \in TokenFlags(kind, s) => kind = "String"
  <1>1. \/ kind = "TokenAmount" \/ kind = "String"
        \/ TokenFlags(kind, s) \in {{"create"}, {"mint"}, {"ata"}, {}}
    BY Zenon DEF TokenFlags
  <1>2. kind = "TokenAmount" => TokenFlags(kind, s) = {"amount"}
    BY Zenon DEF TokenFlags
  <1>3. kind = "String" => TokenFlags(kind, s) = {"owner"}
    BY Zenon DEF TokenFlags
  <1> QED
    BY <1>1, <1>2, <1>3

\* The item compared is the one of the next step, and when it is accepted it could be
\* printed.
LEMMA ItemCompared ==
  ASSUME BaseInv, CalledInv, StagesInv, ShownInv, CheckItem,
         ItemAccepted(ItemKind(message, steps[page + 1]), shown')
  PROVE  LET item == steps[page + 1]
         IN /\ ItemPrinted(message, item).ok
            /\ shown' = [title |-> ItemTitle(message, item),
                         text |-> ItemPrinted(message, item).text]
  <1> DEFINE item == steps[page + 1]
  <1>1. stage = "reviewing" /\ page < Len(steps) /\ shown' \in DisplayedAt(page)
    BY CheckItemIs
  <1>2. page \in Nat /\ page + 1 \in DOMAIN steps
    BY <1>1 DEF BaseInv, TypeOK
  <1>3. FindItem(summary, page) = item
    <2>1. /\ summary \in Summaries /\ ~ Unfinished(summary) /\ steps = Finalized(summary)
      BY <1>1 DEF BaseInv, TypeOK, FinalizedInv
    <2>2. FindItem(summary, (page + 1) - 1) = item
      BY <1>2, <2>1, FoundWhereCounted
    <2>3. (page + 1) - 1 = page
      BY <1>2
    <2> QED
      BY <2>2, <2>3
  <1>4. item.field \in {"lamports", "max_fee"} => ItemPrinted(message, item).ok
    <2>1. message \in Messages /\ requests = BodyRequests(message) /\ AskedIsShown
      BY <1>1, ReviewIsAsked DEF StagesInv
    <2>2. PICK n \in DOMAIN BodyRequests(message) : BodyRequests(message)[n].item = item
      BY <1>2, <2>1 DEF AskedIsShown
    <2>3. SolFits(message)
      BY <2>1, SwapAssumption
    <2> QED
      BY <2>2, <2>3 DEF SolFits, SwapDisplays
  <1> HIDE DEF item
  <1>5. \/ /\ ItemPrinted(message, item).ok
           /\ shown' = [title |-> ItemTitle(message, item),
                        text |-> ItemPrinted(message, item).text]
        \/ ~ ItemPrinted(message, item).ok /\ shown'.title = shown.title
    <2>1. CASE ItemPrinted(message, item).ok
      BY <1>1, <1>3, <2>1 DEF DisplayedAt
    <2>2. CASE ~ ItemPrinted(message, item).ok
      <3>1. PICK text : shown' = [title |-> shown.title, text |-> text]
        BY <1>1, <1>3, <2>2 DEF DisplayedAt
      <3> QED
        BY <2>2, <3>1
    <2> QED
      BY <2>1, <2>2
  <1>6. AmountTitleSeen
    BY <1>1 DEF ShownInv
  <1>7. ItemAccepted(ItemKind(message, item), shown')
    BY DEF item
  <1>8. /\ ItemPrinted(message, item).ok
        /\ shown' = [title |-> ItemTitle(message, item),
                     text |-> ItemPrinted(message, item).text]
    BY <1>4, <1>5, <1>6, <1>7, AcceptedPrints
  <1> QED
    BY <1>8 DEF item

\* In a swap of tokens an item accepted under the title "Amount" is an amount of
\* tokens, and counts as one.
LEMMA TitleCounts ==
  ASSUME NEW item, validated.ticker # SOL, NEW s, s.title = ItemTitle(message, item),
         s.title = "Amount", ItemAccepted(ItemKind(message, item), s)
  PROVE  TokenFlags(ItemKind(message, item), s) = {"amount"}
  <1>1. ItemKind(message, item) \in {"TokenAmount", "Amount"}
    BY AmountTitle, KindIs
  <1>2. ItemKind(message, item) = "TokenAmount"
    BY <1>1 DEF ItemAccepted, IsTokenTransaction, CheckTokenItem
  <1> QED
    BY <1>2, Zenon DEF TokenFlags

\* What is on display, step after step.
LEMMA ShownStep ==
  BaseInv /\ CalledInv /\ StagesInv /\ ShownInv /\ [SwapNext]_allVars => ShownInv'
  <1> SUFFICES ASSUME BaseInv, CalledInv, StagesInv, ShownInv, [SwapNext]_allVars
               PROVE  ShownInv'
    OBVIOUS
  <1>0. Blank.title # "Amount"
    BY DEF Blank
  <1>1. CASE \E p \in Swaps : Launch(p)
    <2>1. validated = None /\ UNCHANGED <<stage, shown, seen>> /\ message = NoMessage
      BY <1>1 DEF Launch, vars, CalledInv
    <2>2. stage # "reviewing"
      BY <2>1, ReviewAssumption DEF StagesInv, BaseInv, TypeOK, CalledInv
    <2> QED
      BY <2>1, <2>2 DEF ShownInv
  <1>2. CASE \E m \in Messages : Receive(m)
    BY <1>2 DEF Receive, HandleSignMessage, ShownInv
  <1>3. CASE Prepare
    <2>1. stage = "printing" /\ shown' = shown
      BY <1>3 DEF Prepare, ServeRequest, Crash, Finalize, Pending, swapVars, StagesInv
    <2> QED
      BY <1>0, <2>1 DEF ShownInv, AmountTitleSeen
  <1>4. CASE RefuseMessage
    BY <1>0, <1>4 DEF RefuseMessage, GiveUp, ShownInv, AmountTitleSeen, StagesInv
  <1>5. CASE RefuseSwap \/ Conclude
    <2>1. stage' \notin {"printing", "reviewing"}
      BY <1>5 DEF RefuseSwap, Conclude, Decide, StagesInv
    <2> QED
      BY <2>1 DEF ShownInv
  <1>6. CASE CheckItem
    <2>1. CASE stage' = "exited"
      BY <2>1 DEF ShownInv
    <2>2. CASE /\ ItemAccepted(ItemKind(message, steps[page + 1]), shown')
               /\ page' = page + 1 /\ UNCHANGED <<stage, verdict>>
               /\ seen' = seen \union
                    (IF IsTokenTransaction
                     THEN TokenFlags(ItemKind(message, steps[page + 1]), shown')
                     ELSE NativeFlags(ItemKind(message, steps[page + 1])))
      <3> DEFINE item == steps[page + 1]
      <3>1. stage = "reviewing" /\ validated' = validated
        BY <1>6, CheckItemIs
      <3>2. shown' = [title |-> ItemTitle(message, item),
                      text |-> ItemPrinted(message, item).text]
        BY <1>6, <2>2, ItemCompared
      <3>3. ASSUME validated.ticker # SOL, shown'.title = "Amount"
            PROVE  "amount" \in seen'
        <4>1. shown'.title = ItemTitle(message, item)
          BY <3>2
        <4>2. seen' = seen \union TokenFlags(ItemKind(message, item), shown')
          BY <2>2, <3>3 DEF IsTokenTransaction
        <4>3. ItemAccepted(ItemKind(message, item), shown')
          BY <2>2
        <4> HIDE DEF item
        <4> QED
          BY <3>3, <4>1, <4>2, <4>3, TitleCounts
      <3> QED
        BY <2>2, <3>1, <3>3 DEF ShownInv, AmountTitleSeen
    <2> QED
      BY <1>6, <2>1, <2>2, CheckItemIs
  <1>7. CASE Return
    BY <1>7 DEF Return, Restart, ShownInv
  <1>8. CASE UNCHANGED allVars
    BY <1>8 DEF allVars, vars, swapVars, ShownInv, AmountTitleSeen
  <1> QED
    BY <1>1, <1>2, <1>3, <1>4, <1>5, <1>6, <1>7, <1>8 DEF SwapNext

\* An item that is accepted passes.
LEMMA ItemStep ==
  ASSUME BaseInv, CalledInv, StagesInv, ShownInv, ComparedInv, CheckItem
  PROVE  ComparedInv'
  <1>1. /\ stage = "reviewing" /\ page < Len(steps) /\ (page = 0 => SwapAccepted)
        /\ UNCHANGED <<message, requests, served, summary, steps, swap, validated>>
    BY CheckItemIs
  <1>2. message \in Messages /\ verdict = "none"
    BY <1>1 DEF StagesInv
  <1>3. CASE stage' = "exited" /\ verdict' = "refused" /\ UNCHANGED <<page, seen>>
    BY <1>3 DEF ComparedInv
  <1>4. CASE /\ ItemAccepted(ItemKind(message, steps[page + 1]), shown')
             /\ page' = page + 1 /\ UNCHANGED <<stage, verdict>>
             /\ seen' = seen \union
                  (IF IsTokenTransaction
                   THEN TokenFlags(ItemKind(message, steps[page + 1]), shown')
                   ELSE NativeFlags(ItemKind(message, steps[page + 1])))
    <2> DEFINE item == steps[page + 1]
    <2>1. page \in Nat /\ page + 1 \in DOMAIN steps /\ page' = page + 1
      BY <1>1, <1>4 DEF BaseInv, TypeOK
    <2>2. Passes(message, validated, item)
      <3>1. /\ ItemPrinted(message, item).ok
            /\ shown' = [title |-> ItemTitle(message, item),
                         text |-> ItemPrinted(message, item).text]
        BY <1>4, ItemCompared
      <3>2. ItemAccepted(ItemKind(message, item), shown')
        BY <1>4
      <3> HIDE DEF item
      <3> QED
        BY <3>1, <3>2, AcceptedPasses
    <2>3. ComparedItems /\ (page > 0 => SwapAccepted)
      BY <1>1 DEF ComparedInv
    <2>4. SwapAccepted'
      <3>1. SwapAccepted
        BY <1>1, <2>1, <2>3
      <3> QED
        BY <1>1, <3>1, AcceptedStays
    <2>5. \A n \in 1..(page + 1) : Passes(message, validated, steps[n])
      <3>1. \A n \in 1..page : Passes(message, validated, steps[n])
        BY <2>3 DEF ComparedItems
      <3> QED
        BY <2>1, <2>2, <3>1
    <2>6. ASSUME validated.ticker # SOL
          PROVE  /\ "amount" \in seen' =>
                      \E n \in 1..(page + 1) : ItemKind(message, steps[n]) = "TokenAmount"
                 /\ "owner" \in seen' =>
                      \E n \in 1..(page + 1) : ItemKind(message, steps[n]) = "String"
      <3>1. seen' = seen \union TokenFlags(ItemKind(message, item), shown')
        BY <1>4, <2>6 DEF IsTokenTransaction
      <3>2. page + 1 \in 1..(page + 1) /\ 1..page \subseteq 1..(page + 1)
        BY <2>1
      <3>3. ASSUME "amount" \in seen'
            PROVE  \E n \in 1..(page + 1) : ItemKind(message, steps[n]) = "TokenAmount"
        <4>1. CASE "amount" \in seen
          BY <2>3, <2>6, <3>2, <4>1 DEF ComparedItems
        <4>2. CASE "amount" \in TokenFlags(ItemKind(message, item), shown')
          BY <2>6, <3>2, <4>2, SeenWith
        <4> QED
          BY <3>1, <3>3, <4>1, <4>2
      <3>4. ASSUME "owner" \in seen'
            PROVE  \E n \in 1..(page + 1) : ItemKind(message, steps[n]) = "String"
        <4>1. CASE "owner" \in seen
          BY <2>3, <2>6, <3>2, <4>1 DEF ComparedItems
        <4>2. CASE "owner" \in TokenFlags(ItemKind(message, item), shown')
          BY <2>6, <3>2, <4>2, SeenWith
        <4> QED
          BY <3>1, <3>4, <4>1, <4>2
      <3> QED
        BY <3>3, <3>4
    <2>7. page' > 0
      BY <2>1
    <2>8. ComparedItems'
      BY <1>1, <2>1, <2>5, <2>6, <2>7 DEF ComparedItems
    <2> QED
      BY <2>4, <2>8 DEF ComparedInv
  <1> QED
    BY <1>3, <1>4, CheckItemIs

\* What has been compared, step after step.
LEMMA ComparedStep ==
  BaseInv /\ CalledInv /\ StagesInv /\ ShownInv /\ ComparedInv /\ [SwapNext]_allVars
    => ComparedInv'
  <1> SUFFICES ASSUME BaseInv, CalledInv, StagesInv, ShownInv, ComparedInv,
                      [SwapNext]_allVars
               PROVE  ComparedInv'
    OBVIOUS
  <1>1. CASE \E p \in Swaps : Launch(p)
    <2>1. validated = None /\ UNCHANGED <<stage, verdict>> /\ message = NoMessage
      BY <1>1 DEF Launch, vars, CalledInv
    <2>2. stage # "reviewing" /\ verdict # "signed"
      BY <2>1, ReviewAssumption DEF StagesInv, BaseInv, TypeOK, CalledInv
    <2> QED
      BY <2>1, <2>2 DEF ComparedInv
  <1>2. CASE \E m \in Messages : Receive(m)
    <2>1. stage' = "printing" /\ verdict' = verdict /\ stage = "idle"
      BY <1>2 DEF Receive, HandleSignMessage
    <2> QED
      BY <2>1 DEF ComparedInv, StagesInv
  <1>3. CASE Prepare
    <2>1. verdict' = verdict /\ seen' = seen /\ stage \in {"printing", "blind"}
      BY <1>3 DEF Prepare, ServeRequest, Crash, Finalize, Pending, swapVars
    <2>2. verdict # "signed" /\ seen = {}
      BY <2>1 DEF StagesInv
    <2>3. stage' = "reviewing" => page' = 0
      BY <1>3, <2>1 DEF Prepare, ServeRequest, Crash, Finalize
    <2>4. ASSUME stage' = "reviewing" PROVE ComparedItems' /\ ~ (page' > 0)
      <3>1. 1..page' = {} /\ ~ (page' > 0)
        BY <2>3, <2>4
      <3> QED
        BY <2>1, <2>2, <3>1 DEF ComparedItems
    <2> QED
      BY <2>1, <2>2, <2>4 DEF ComparedInv
  <1>4. CASE RefuseMessage
    BY <1>4 DEF RefuseMessage, GiveUp, StagesInv, ComparedInv
  <1>5. CASE RefuseSwap \/ Conclude
    <2>1. stage = "reviewing" /\ UNCHANGED <<message, steps, page, validated, seen>>
      BY <1>5 DEF RefuseSwap, Conclude, Decide
    <2> QED
      BY <2>1, ComparedStays
  <1>6. CASE CheckItem
    BY <1>6, ItemStep
  <1>7. CASE Return
    BY <1>7 DEF Return, Restart, ComparedInv
  <1>8. CASE UNCHANGED allVars
    <2>1. UNCHANGED <<message, steps, page, validated, seen, stage, verdict>>
      BY <1>8 DEF allVars, vars, swapVars
    <2>2. (ComparedItems /\ (page > 0 => SwapAccepted)) =>
            (ComparedItems /\ (page > 0 => SwapAccepted))'
      BY <2>1, AcceptedStays DEF ComparedItems
    <2> QED
      BY <2>1, <2>2 DEF ComparedInv
  <1> QED
    BY <1>1, <1>2, <1>3, <1>4, <1>5, <1>6, <1>7, <1>8 DEF SwapNext

\* What is signed has been asked for, shown and compared to the last item.
LEMMA SignedStep ==
  BaseInv /\ CalledInv /\ StagesInv /\ SignedInv /\ [SwapNext]_allVars => SignedInv'
  <1> SUFFICES ASSUME BaseInv, CalledInv, StagesInv, SignedInv, [SwapNext]_allVars
               PROVE  SignedInv'
    OBVIOUS
  <1>0. verdict = "signed" => stage = "exited" /\ message \in Messages /\ message # NoMessage
    BY ReviewAssumption DEF StagesInv, SignedInv
  <1>1. CASE \E p \in Swaps : Launch(p)
    BY <1>0, <1>1 DEF Launch, CalledInv, SignedInv
  <1>2. CASE \E m \in Messages : Receive(m)
    BY <1>0, <1>2 DEF Receive, SignedInv
  <1>3. CASE Prepare
    BY <1>0, <1>3 DEF Prepare, ServeRequest, Crash, Finalize, Pending, swapVars, SignedInv
  <1>4. CASE RefuseMessage
    BY <1>4 DEF RefuseMessage, SignedInv
  <1>5. CASE RefuseSwap
    BY <1>5 DEF RefuseSwap, SignedInv
  <1>6. CASE CheckItem
    <2>1. verdict' = "refused" \/ (verdict' = verdict /\ stage = "reviewing")
      BY <1>6, CheckItemIs
    <2> QED
      BY <1>0, <2>1 DEF SignedInv
  <1>7. CASE Conclude
    <2>1. stage = "reviewing" /\ page = Len(steps)
          /\ UNCHANGED <<message, requests, steps, page, validated, seen>>
          /\ (verdict' = "signed" => Required \subseteq seen)
      BY <1>7 DEF Conclude, Decide
    <2>2. message \in Messages /\ requests = BodyRequests(message) /\ AskedIsShown
      BY <2>1, ReviewIsAsked DEF StagesInv
    <2>3. Required' = Required /\ AskedIsShown'
      BY <2>1, <2>2 DEF Required, IsTokenTransaction, AskedIsShown
    <2> QED
      BY <2>1, <2>2, <2>3 DEF SignedInv
  <1>8. CASE Return
    BY <1>8 DEF Return, SignedInv
  <1>9. CASE UNCHANGED allVars
    BY <1>9 DEF allVars, vars, swapVars, SignedInv, Required, IsTokenTransaction, AskedIsShown
  <1> QED
    BY <1>1, <1>2, <1>3, <1>4, <1>5, <1>6, <1>7, <1>8, <1>9 DEF SwapNext

\* The invariant of a swap.
LEMMA SwapMade == SwapSpec => []SwapInv
  <1>1. SwapInv /\ [SwapNext]_allVars => SwapInv'
    BY BaseStep, CalledStep, StagesStep, ShownStep, ComparedStep, SignedStep DEF SwapInv
  <1> QED
    BY SwapStart, <1>1, PTL DEF SwapSpec

-------------------------------------------------------------------------------
(* What is signed. *)

\* A single instruction is printed alone.
LEMMA OnePattern ==
  ASSUME NEW S, NEW is \in Seq(S), NEW c, Len(is) = 1
  PROVE  PrintPattern(is, c) = PrintInfo(is[1], c)
  <1> DEFINE ks == KindsOf(is)
  <1>1. Len(ks) = 1
    BY KindsAre
  <1> HIDE DEF ks
  <1>2. /\ ~ IsCreateStake(ks) /\ ~ IsCreateOther(ks) /\ ~ IsAuthorizeBoth(ks)
        /\ ~ IsSplCreate(ks) /\ ~ IsCreateWithTransfer(ks)
    BY <1>1 DEF IsCreateStake, IsCreateOther, IsAuthorizeBoth, IsSplCreate, IsCreateWithTransfer
  <1>3. ~ IsStakeSplit(ks) /\ ~ IsStakeSplitWithSeed(ks) /\ ~ IsCreateTaskWithReview(ks)
    <2> SUFFICES ASSUME IsStakeSplit(ks) \/ IsStakeSplitWithSeed(ks) \/ IsCreateTaskWithReview(ks)
                 PROVE  FALSE
      OBVIOUS
    <2>1. ks \in {<<"SystemAllocate", "SystemAssign", "StakeSplit">>,
                  <<"SystemCreateAccount", "StakeSplit">>,
                  <<"SystemTransfer", "SystemAllocate", "SystemAssign", "StakeSplit">>,
                  <<"SystemAllocateWithSeed", "StakeSplit">>,
                  <<"SystemCreateAccountWithSeed", "StakeSplit">>,
                  <<"SystemTransfer", "SystemAllocateWithSeed", "StakeSplit">>,
                  <<"AgencCreateTask", "AgencConfigureTaskValidation">>}
      BY DEF IsStakeSplit, IsStakeSplitWithSeed, IsCreateTaskWithReview
    <2>2. Len(ks) \in {2, 3, 4} /\ \A n \in 1..Len(ks) : ks[n] \notin TransferKinds
      BY <2>1 DEF TransferKinds
    <2> QED
      BY <1>1, <2>2
  <1> QED
    BY <1>2, <1>3 DEF PrintPattern, ks

\* An item that passed is not foreign to a swap of SOL, and shows no action and no
\* fee of a transfer in a swap of tokens.
LEMMA PassesNot ==
  ASSUME NEW m, NEW v, NEW item, Passes(m, v, item)
  PROVE  /\ v.ticker = SOL => item.field \notin ForeignFields
         /\ v.ticker # SOL => item.field \notin {"action", "fee_tokens"}
  BY KindIs DEF Passes, ForeignFields

\* What holds when a message is signed: the swap is standard, the message was not
\* given up, and all that it asked for passed.
LEMMA SignedFacts ==
  ASSUME SwapInv, verdict = "signed"
  PROVE  /\ swap \in Swaps /\ validated = CopyParameters(swap) /\ ParametersTyped(validated)
         /\ message \in Messages /\ ~ AsksFor(BodyRequests(message), "bail")
         /\ swap.extraId \in {"absent", "native"} /\ SwapAccepted
         /\ \A k \in DOMAIN steps :
              /\ Passes(message, validated, steps[k])
              /\ \E n \in DOMAIN BodyRequests(message) :
                   BodyRequests(message)[n].item = steps[k]
         /\ \A n \in DOMAIN BodyRequests(message) :
              /\ Passes(message, validated, BodyRequests(message)[n].item)
              /\ \E k \in DOMAIN steps : steps[k] = BodyRequests(message)[n].item
  <1>1. /\ message \in Messages /\ requests = BodyRequests(message) /\ page = Len(steps)
        /\ Required \subseteq seen /\ AskedIsShown
    BY DEF SwapInv, SignedInv
  <1>2. swap \in Swaps /\ validated = CopyParameters(swap)
    BY <1>1, ReviewAssumption DEF SwapInv, CalledInv
  <1>3. seen # {}
    BY <1>1 DEF Required, TokenRequired, NativeRequired
  <1>4. ComparedItems /\ SwapAccepted
    BY <1>3 DEF SwapInv, ComparedInv, ComparedItems
  <1>5. DOMAIN steps = 1..page
    BY <1>1 DEF SwapInv, BaseInv, TypeOK
  <1>6. \A k \in DOMAIN steps : Passes(message, validated, steps[k])
    BY <1>4, <1>5 DEF ComparedItems
  <1>7. swap.extraId \in {"absent", "native"}
    <2>1. SwapMode(swap.extraId) = "standard"
      BY <1>2, <1>4 DEF SwapAccepted, CopyParameters
    <2> QED
      BY <2>1, Zenon DEF SwapMode
  <1>8. \A n \in DOMAIN BodyRequests(message) :
          /\ BodyRequests(message)[n].slot # "bail"
          /\ \E k \in DOMAIN steps : steps[k] = BodyRequests(message)[n].item
    BY <1>1 DEF AskedIsShown
  <1>9. \A n \in DOMAIN BodyRequests(message) :
          Passes(message, validated, BodyRequests(message)[n].item)
    BY <1>6, <1>8
  <1>10. \A k \in DOMAIN steps :
           \E n \in DOMAIN BodyRequests(message) : BodyRequests(message)[n].item = steps[k]
    BY <1>1 DEF AskedIsShown
  <1> QED
    BY <1>1, <1>2, <1>4, <1>6, <1>7, <1>8, <1>9, <1>10, ParametersAreTyped DEF AsksFor

\* The texts of two amounts are the same, so the amounts are.
LEMMA AmountsAgree ==
  ASSUME NEW p \in Swaps, NEW a \in Nat, NEW d \in Nat, NEW S, NEW ticker \in Seq(S),
         PrintTokenAmount(a, ticker, d, TextLength).ok,
         AmountIs(CopyParameters(p), PrintTokenAmount(a, ticker, d, TextLength).text)
  PROVE  ticker = Coin(p).ticker /\ SameQuantity(a, d, p.amount, Coin(p).decimals)
  <1> DEFINE v == CopyParameters(p)
  <1>1. ParametersTyped(v)
    BY ParametersAreTyped
  <1>2. /\ v.amount = p.amount /\ v.ticker = Coin(p).ticker /\ v.decimals = Coin(p).decimals
    BY DEF CopyParameters
  <1>3. AmountText(a, ticker, d) = AmountText(v.amount, v.ticker, v.decimals)
    BY <1>1, AmountPrinted DEF AmountIs, ParametersTyped
  <1>4. ticker = v.ticker /\ a * Power10[v.decimals] = v.amount * Power10[d]
    BY <1>1, <1>3, TextsIdentify DEF ParametersTyped
  <1> HIDE DEF v
  <1> QED
    BY <1>2, <1>4 DEF SameQuantity

\* A maximum fee that passed is within the fee of the swap.
LEMMA FeePasses ==
  ASSUME NEW m \in Messages, NEW p \in Swaps, NEW item, item.field = "max_fee",
         Passes(m, CopyParameters(p), item)
  PROVE  m.maxFee <= p.fee
  <1> DEFINE v == CopyParameters(p)
             q == Power10[SolDecimals]
  <1>1. v.fee = p.fee /\ p.fee \in Nat /\ m.maxFee \in Nat /\ SolDecimals \in Nat
    BY SwapAssumption DEF CopyParameters
  <1> HIDE DEF v
  <1>2. ItemPrinted(m, item) = PrintTokenAmount(m.maxFee, SOL, SolDecimals, TextLength)
    BY PrintedIs
  <1>3. ItemPrinted(m, item).ok /\ FeeWithin(v, ItemPrinted(m, item).text)
    BY KindIs DEF Passes, v
  <1>4. ItemPrinted(m, item).text = AmountText(m.maxFee, SOL, SolDecimals)
    BY <1>1, <1>2, <1>3, SolTyped, AmountPrinted
  <1>5. PrintTokenAmount(v.fee, SOL, SolDecimals, PrintableLength).text
          = AmountText(v.fee, SOL, SolDecimals)
    BY <1>1, <1>3, SolTyped, AmountPrinted DEF FeeWithin
  <1>6. AmountTextAtLeast(AmountText(p.fee, SOL, SolDecimals),
                          AmountText(m.maxFee, SOL, SolDecimals))
    BY <1>1, <1>3, <1>4, <1>5 DEF FeeWithin
  <1>7. p.fee * Power10[SolDecimals] >= m.maxFee * Power10[SolDecimals]
    BY <1>1, <1>6, SolTyped, TextsCompare
  <1>8. q \in Nat \ {0} /\ p.fee * q >= m.maxFee * q
    BY <1>1, <1>7, Powers
  <1> HIDE DEF q
  <1>9. \A x, y, z \in Nat : z # 0 /\ x * z >= y * z => y <= x
    <2> SUFFICES ASSUME NEW x \in Nat, NEW y \in Nat, NEW z \in Nat, z # 0, ~ (y <= x)
                 PROVE  ~ (x * z >= y * z)
      OBVIOUS
    <2>1. PICK w \in Nat : y = x + 1 + w
      <3>1. y - x - 1 \in Nat
        OBVIOUS
      <3> QED
        BY <3>1
    <2>2. y * z = x * z + z + w * z /\ x * z \in Nat /\ w * z \in Nat
      BY <2>1
    <2> QED
      BY <2>2
  <1> QED
    BY <1>1, <1>8, <1>9

\* An item of the one instruction is asked for.
ShowsOwn(rs, i, f) == \E n \in DOMAIN rs : rs[n].item.of = {i.at} /\ rs[n].item.field = f

\* An item shown of an instruction, when all that is asked for is of it.
LEMMA OwnItem ==
  ASSUME NEW p, NEW rs, Within(p, rs), NEW i, NEW f, Shows(p, i, f), OnlyOf(p, {i.at})
  PROVE  ShowsOwn(rs, i, f)
  <1>1. PICK k \in DOMAIN p : i.at \in p[k].item.of /\ p[k].item.field = f
    BY DEF Shows
  <1>2. p[k].item.of = {i.at}
    BY <1>1 DEF OnlyOf
  <1>3. Among(rs, p[k])
    BY DEF Within, Among
  <1> QED
    BY <1>1, <1>2, <1>3 DEF Among, ShowsOwn

\* A transfer of SOL shows its amount and where it goes.
LEMMA SolTransferShows ==
  ASSUME NEW i, NEW c, i.kind = "SystemTransfer"
  PROVE  /\ PrintInfo(i, c) = SystemTransfer(i, c)
         /\ Shows(PrintInfo(i, c), i, "lamports") /\ Shows(PrintInfo(i, c), i, "to")
         /\ OnlyOf(PrintInfo(i, c), {i.at})
  <1>1. /\ i.kind \in SystemKinds /\ i.kind \notin StakeKinds \union VoteKinds \union SplTokenKinds
        /\ i.kind \notin AgencKinds /\ i.kind # "SplAssociatedTokenAccount"
    BY DEF SystemKinds, StakeKinds, VoteKinds, SplTokenKinds, AgencKinds
  <1>2. PrintInfo(i, c) = SystemInfo(i, c)
    BY <1>1 DEF PrintInfo
  <1>3. SystemInfo(i, c) = SystemTransfer(i, c)
    BY DEF SystemInfo
  <1>4. Shows(SystemTransfer(i, c), i, "lamports") /\ Shows(SystemTransfer(i, c), i, "to")
    BY Requested DEF SystemTransfer, When
  <1>5. OnlyOf(SystemInfo(i, c), {i.at})
    BY <1>1, SystemOnlyOf
  <1> QED
    BY <1>2, <1>3, <1>4, <1>5

\* What is shown of a message signed for a swap of SOL is one transfer.
LEMMA NativeShape ==
  ASSUME SwapInv, verdict = "signed", validated.ticker = SOL,
         NEW sh \in Seq(ToSet(message.instructions)),
         ShownOf(message.instructions, BodyRequests(message), message.config, sh)
  PROVE  Len(sh) = 1 /\ sh[1].kind = "SystemTransfer"
  <1> DEFINE rs == BodyRequests(message)
             p == PrintPattern(sh, message.config)
  <1>1. Within(p, rs) /\ message \in Messages /\ ~ AsksFor(rs, "bail")
    BY SignedFacts DEF ShownOf
  <1>2. \A n \in DOMAIN rs : rs[n].item.field \notin ForeignFields
    BY SignedFacts, PassesNot
  <1>3. ~ AsksFor(p, "bail")
    BY <1>1, WithinShows
  <1>4. ~ ForeignIn(p, sh)
    <2> SUFFICES ASSUME NEW k \in 1..Len(sh), NEW f \in ForeignFields, Shows(p, sh[k], f)
                 PROVE  FALSE
      BY DEF ForeignIn, Foreign
    <2>1. Shows(rs, sh[k], f)
      BY <1>1, WithinShows
    <2> QED
      BY <1>2, <2>1 DEF Shows
  <1>5. ASSUME Len(sh) = 1, sh[1].kind \in CreateKinds, Shows(p, sh[1], "lamports"),
               p = PrintInfo(sh[1], message.config)
        PROVE  FALSE
    <2>1. ~ Shows(p, sh[1], "action")
      <3> SUFFICES ASSUME Shows(p, sh[1], "action") PROVE FALSE
        OBVIOUS
      <3>1. Shows(rs, sh[1], "action")
        BY <1>1, WithinShows
      <3> QED
        BY <1>2, <3>1 DEF Shows, ForeignFields
    <2>2. OnlyOf(p, {sh[1].at})
      BY <1>3, <1>5, <2>1, InfoOnlyOf
    <2>3. PICK n \in DOMAIN rs : rs[n].item.of = {sh[1].at} /\ rs[n].item.field = "lamports"
      <3>1. ShowsOwn(rs, sh[1], "lamports")
        BY <1>1, <1>5, <2>2, OwnItem
      <3> QED
        BY <3>1 DEF ShowsOwn
    <2>4. sh[1] \in ToSet(message.instructions)
      <3>1. PICK T : T = ToSet(message.instructions)
        OBVIOUS
      <3>2. sh \in Seq(T) /\ 1 \in 1..Len(sh)
        BY <1>5, <3>1
      <3> QED
        BY <3>1, <3>2, ElementOfSeq
    <2>5. InstructionOf(message, rs[n].item) = sh[1]
      BY <1>1, <2>3, <2>4, InstructionIs
    <2>6. Passes(message, validated, rs[n].item)
      BY SignedFacts
    <2>7. sh[1].kind \in {"StakeWithdraw", "SystemTransfer"}
      BY <2>3, <2>5, <2>6, KindIs DEF Passes
    <2> QED
      BY <1>5, <2>7 DEF CreateKinds
  <1> HIDE DEF rs, p
  <1> QED
    BY <1>3, <1>4, <1>5, PatternForeign DEF p

\* The transfer of a signed swap of SOL, with the items that show its amount and
\* where it goes.
LEMMA NativeTransfer ==
  ASSUME SwapInv, verdict = "signed", validated.ticker = SOL
  PROVE  \E n \in DOMAIN message.instructions :
           LET i == message.instructions[n]
           IN /\ i.kind = "SystemTransfer"
              /\ SameQuantity(i.arg.lamports, SolDecimals, swap.amount, Coin(swap).decimals)
              /\ i.arg.to = swap.recipient
              /\ \A k \in DOMAIN message.instructions \ {n} : Accompanies(k)
              /\ \E r \in DOMAIN BodyRequests(message) :
                   BodyRequests(message)[r].item.field = "lamports"
  <1> DEFINE is == message.instructions
             rs == BodyRequests(message)
             c == message.config
  <1>1. /\ swap \in Swaps /\ validated = CopyParameters(swap)
        /\ message \in Messages /\ ~ AsksFor(rs, "bail")
        /\ \A n \in DOMAIN rs : Passes(message, validated, rs[n].item)
    BY SignedFacts
  <1>2. /\ is \in Seq(ToSet(is)) /\ DOMAIN is = 1..Len(is)
        /\ \A n \in DOMAIN is : is[n].at = n /\ ArgTyped(is[n])
    BY <1>1, SwapAssumption
  <1>3. PICK sh \in Seq(ToSet(is)) :
          /\ ShownOf(is, rs, c, sh)
          /\ \A n \in 1..Len(is) : Beside(is, n) \/ \E j \in 1..Len(sh) : sh[j] = is[n]
    BY <1>1, SwapBodyShown
  <1>4. Len(sh) = 1 /\ sh[1].kind = "SystemTransfer" /\ sh[1] \in ToSet(is)
    BY <1>3, NativeShape
  <1>5. PICK n \in 1..Len(is) : sh[1] = is[n]
    BY <1>3, <1>4 DEF ShownOf
  <1>6. PICK i : i = is[n]
    OBVIOUS
  <1>7. /\ i.kind = "SystemTransfer" /\ i \in ToSet(is) /\ i.at = n
        /\ i.arg.lamports \in Nat /\ "to" \in DOMAIN i.arg
    BY <1>2, <1>4, <1>5, <1>6 DEF ArgTyped
  <1>8. PrintPattern(sh, c) = PrintInfo(i, c)
    BY <1>4, <1>5, <1>6, OnePattern
  <1>9. /\ Within(PrintPattern(sh, c), rs)
        /\ Shows(PrintPattern(sh, c), i, "lamports") /\ Shows(PrintPattern(sh, c), i, "to")
        /\ OnlyOf(PrintPattern(sh, c), {i.at})
    BY <1>3, <1>7, <1>8, SolTransferShows DEF ShownOf
  <1>10. PICK a \in DOMAIN rs : rs[a].item.of = {i.at} /\ rs[a].item.field = "lamports"
    <2>1. ShowsOwn(rs, i, "lamports")
      BY <1>9, OwnItem
    <2> QED
      BY <2>1 DEF ShowsOwn
  <1>11. PICK b \in DOMAIN rs : rs[b].item.of = {i.at} /\ rs[b].item.field = "to"
    <2>1. ShowsOwn(rs, i, "to")
      BY <1>9, OwnItem
    <2> QED
      BY <2>1 DEF ShowsOwn
  <1>12. InstructionOf(message, rs[a].item) = i /\ InstructionOf(message, rs[b].item) = i
    BY <1>1, <1>7, <1>10, <1>11, InstructionIs
  <1>13. SameQuantity(i.arg.lamports, SolDecimals, swap.amount, Coin(swap).decimals)
    <2>1. ItemPrinted(message, rs[a].item)
            = PrintTokenAmount(i.arg.lamports, SOL, SolDecimals, TextLength)
      BY <1>10, <1>12, PrintedIs
    <2>2. /\ ItemPrinted(message, rs[a].item).ok
          /\ AmountIs(validated, ItemPrinted(message, rs[a].item).text)
      BY <1>1, <1>10, KindIs DEF Passes
    <2> QED
      BY <1>1, <1>7, <2>1, <2>2, SwapAssumption, SolTyped, AmountsAgree
  <1>14. i.arg.to = swap.recipient
    <2>1. ItemKind(message, rs[b].item) = "Pubkey"
      BY <1>7, <1>11, <1>12, KindIs DEF TransferKinds
    <2>2. ItemPrinted(message, rs[b].item) = Printed(KeyText(i.arg.to))
      BY <1>7, <1>11, <1>12, <2>1, PrintedIs
    <2>3. ItemPrinted(message, rs[b].item).text = KeyText(validated.recipient)
      BY <1>1, <1>11 DEF Passes
    <2>4. validated.recipient = swap.recipient
      BY <1>1 DEF CopyParameters
    <2> QED
      BY <2>2, <2>3, <2>4 DEF Printed, KeyText
  <1>15. ASSUME NEW k \in DOMAIN is \ {n} PROVE Accompanies(k)
    <2>1. is[k] # is[n]
      BY <1>2, <1>5
    <2>2. Beside(is, k)
      BY <1>2, <1>3, <1>4, <1>5, <2>1
    <2> QED
      BY <2>2 DEF Beside, Accompanies
  <1> QED
    BY <1>2, <1>6, <1>7, <1>10, <1>13, <1>14, <1>15

\* What is signed for a swap of SOL is its transfer (NativeSwapSigned), whatever
\* Exchange asks for, the messages and the patterns their printers recognise.
THEOREM NativeSwapIsSigned == SwapSpec => []NativeSwapSigned
  <1>1. SwapInv => NativeSwapSigned
    <2> SUFFICES ASSUME SwapInv, verdict = "signed", validated.ticker = SOL
                 PROVE  /\ swap.extraId \in {"absent", "native"}
                        /\ \E n \in DOMAIN message.instructions :
                             LET i == message.instructions[n]
                             IN /\ i.kind = "SystemTransfer"
                                /\ SameQuantity(i.arg.lamports, SolDecimals,
                                                swap.amount, Coin(swap).decimals)
                                /\ i.arg.to = swap.recipient
                                /\ \A k \in DOMAIN message.instructions \ {n} : Accompanies(k)
                        /\ \A n \in DOMAIN steps :
                             steps[n].field = "max_fee" => message.maxFee <= swap.fee
      BY DEF NativeSwapSigned
    <2>1. \A n \in DOMAIN steps : steps[n].field = "max_fee" => message.maxFee <= swap.fee
      BY SignedFacts, FeePasses
    <2> QED
      BY <2>1, SignedFacts, NativeTransfer
  <1> QED
    BY SwapMade, <1>1, PTL

\* What is signed could be displayed (UnprintableNotSigned).
THEOREM SignedIsPrintable == SwapSpec => []UnprintableNotSigned
  <1>1. SwapInv => UnprintableNotSigned
    BY SignedFacts DEF UnprintableNotSigned, SwapDisplays, Passes
  <1> QED
    BY SwapMade, <1>1, PTL

\* A token amount that passed is of a transfer, and its text that of the swap.
LEMMA TokensPass ==
  ASSUME NEW m, NEW v, NEW item, Passes(m, v, item), v.ticker # SOL
  PROVE  /\ ItemKind(m, item) = "TokenAmount" =>
              /\ item.field = "tokens" /\ InstructionOf(m, item).kind \in TransferKinds
              /\ ItemPrinted(m, item).ok /\ AmountIs(v, ItemPrinted(m, item).text)
         /\ ItemKind(m, item) = "String" => m.trusted.owner = v.recipient
  <1>1. CASE ItemKind(m, item) = "TokenAmount"
    BY <1>1, KindIs DEF Passes
  <1>2. CASE ItemKind(m, item) = "String"
    BY <1>2, KindIs DEF Passes
  <1> QED
    BY <1>1, <1>2

\* A step of the review shows the token amount, and one the owner of the account.
LEMMA TokenSteps ==
  ASSUME SwapInv, verdict = "signed", validated.ticker # SOL
  PROVE  /\ \E n \in DOMAIN steps : ItemKind(message, steps[n]) = "TokenAmount"
         /\ message.trusted.owner = swap.recipient
  <1>1. "amount" \in seen /\ "owner" \in seen /\ page = Len(steps)
    BY DEF SwapInv, SignedInv, Required, IsTokenTransaction, TokenRequired
  <1>2. DOMAIN steps = 1..page
    BY <1>1 DEF SwapInv, BaseInv, TypeOK
  <1>3. /\ \E n \in DOMAIN steps : ItemKind(message, steps[n]) = "TokenAmount"
        /\ \E n \in DOMAIN steps : ItemKind(message, steps[n]) = "String"
    BY <1>1, <1>2 DEF SwapInv, ComparedInv, ComparedItems
  <1>4. message.trusted.owner = validated.recipient
    BY <1>3, SignedFacts, TokensPass
  <1>5. validated.recipient = swap.recipient
    BY SignedFacts DEF CopyParameters
  <1> QED
    BY <1>3, <1>4, <1>5

\* What is shown of a message signed for a swap of tokens ends with the transfer
\* whose amount is shown.
LEMMA TokenShape ==
  ASSUME SwapInv, verdict = "signed", validated.ticker # SOL,
         NEW sh \in Seq(ToSet(message.instructions)),
         ShownOf(message.instructions, BodyRequests(message), message.config, sh),
         NEW n \in DOMAIN steps, ItemKind(message, steps[n]) = "TokenAmount",
         NEW i, i = InstructionOf(message, steps[n])
  PROVE  /\ i.kind \in TransferKinds /\ i.at \in steps[n].of
         /\ \E k \in 1..Len(sh) :
              /\ sh[k] = i /\ k = Len(sh)
              /\ Len(sh) = 1 \/ (Len(sh) = 2 /\ sh[1].kind = "SplAssociatedTokenAccount")
              /\ PrintPattern(sh, message.config) = SplTransfer(i, message.config)
  <1> DEFINE rs == BodyRequests(message)
             p == PrintPattern(sh, message.config)
             B == {sh[k] : k \in 1..Len(sh)}
             A == {sh[k].at : k \in 1..Len(sh)}
  <1>1. /\ Within(p, rs) /\ message \in Messages /\ ~ AsksFor(rs, "bail")
        /\ Passes(message, validated, steps[n])
        /\ \A r \in DOMAIN rs : Passes(message, validated, rs[r].item)
    BY SignedFacts DEF ShownOf
  <1>2. /\ steps[n].field = "tokens" /\ i.kind \in TransferKinds
    BY <1>1, TokensPass
  <1>3. PICK r \in DOMAIN rs : rs[r].item = steps[n]
    BY SignedFacts
  <1>4. ~ AsksFor(p, "bail")
    BY <1>1, WithinShows
  <1>5. \A k \in 1..Len(sh) : ~ Shows(p, sh[k], "action")
    <2> SUFFICES ASSUME NEW k \in 1..Len(sh), Shows(p, sh[k], "action") PROVE FALSE
      OBVIOUS
    <2>1. Shows(rs, sh[k], "action")
      BY <1>1, WithinShows
    <2>2. PICK q \in DOMAIN rs : rs[q].item.field = "action"
      BY <2>1 DEF Shows
    <2> QED
      BY <1>1, <2>2, PassesNot
  <1>6. OnlyOf(p, A)
    <2>1. \A k \in 1..Len(sh) : sh[k].at \in A
      OBVIOUS
    <2> HIDE DEF A
    <2> QED
      BY <1>4, <1>5, <2>1, PatternOnlyOf
  <1>7. Among(p, rs[r])
    BY <1>1, <1>2, <1>3 DEF Within, Among
  <1>8. steps[n].of # {} /\ steps[n].of \subseteq A
    BY <1>3, <1>6, <1>7 DEF OnlyOf, Among
  <1>9. A = {j.at : j \in B}
    OBVIOUS
  <1>10. B \in SUBSET ToSet(message.instructions)
    <2>1. PICK T : T = ToSet(message.instructions)
      OBVIOUS
    <2>2. sh \in Seq(T)
      BY <2>1
    <2>3. \A k \in 1..Len(sh) : sh[k] \in T
      BY <2>2, ElementOfSeq
    <2> QED
      BY <2>1, <2>3
  <1>11. i \in B /\ i.at \in steps[n].of
    <2>1. steps[n].of # {} /\ steps[n].of \subseteq {j.at : j \in B}
      BY <1>8, <1>9
    <2> HIDE DEF A, B
    <2> QED
      BY <1>1, <1>10, <2>1, InstructionAmong
  <1>12. PICK k \in 1..Len(sh) : sh[k] = i
    BY <1>11
  <1>13. /\ k = Len(sh)
         /\ Len(sh) = 1 \/ (Len(sh) = 2 /\ sh[1].kind = "SplAssociatedTokenAccount")
         /\ p = SplTransfer(sh[k], message.config)
    <2>1. PICK T : T = ToSet(message.instructions)
      OBVIOUS
    <2>2. sh \in Seq(T) /\ sh[k].kind \in TransferKinds
      BY <1>2, <1>12, <2>1
    <2> QED
      BY <1>4, <2>2, TokenPattern
  <1> QED
    BY <1>2, <1>11, <1>12, <1>13

\* A transfer of a signed swap that withholds a fee withholds none of it, and no
\* hook runs.
LEMMA TokenWhole ==
  ASSUME SwapInv, verdict = "signed", validated.ticker # SOL,
         NEW i \in ToSet(message.instructions), i.kind \in TransferKinds, ArgTyped(i),
         Shown(i, "tokens"), "token2022" \in i.has,
         ~ Shows(BodyRequests(message), i, "fee_tokens"),
         "fee" \in i.has => Shows(BodyRequests(message), i, "fee_tokens")
  PROVE  /\ i.kind = "SplTransferCheckedWithFee" /\ i.arg.fee_tokens = 0
         /\ "hook" \notin i.has
  <1>1. Parsed(message) = message.instructions
    BY SignedFacts, SwapBodyShown
  <1>2. i \in PrintedTransfers
    BY <1>1 DEF PrintedTransfers
  <1>3. Token2022Transfer
    BY <1>2 DEF Token2022Transfer
  <1>4. ~ FeeWarning /\ ~ HookWarning
    BY SignedFacts DEF SwapAccepted, IsTokenTransaction
  <1>5. i.kind # "SplTransferChecked" /\ "hook" \notin i.has
    BY <1>2, <1>3, <1>4 DEF FeeWarning, HookWarning
  <1> QED
    BY <1>5 DEF ArgTyped, TransferKinds

\* The transfer of a signed swap of tokens.
LEMMA TokenTransfer ==
  ASSUME SwapInv, verdict = "signed", validated.ticker # SOL
  PROVE  \E n \in DOMAIN message.instructions :
           LET i == message.instructions[n]
           IN /\ i.kind \in TransferKinds
              /\ i.arg.symbol = swap.coin.ticker
              /\ SameQuantity(i.arg.tokens, i.arg.decimals, swap.amount, swap.coin.decimals)
              /\ MatchesTrusted(i, message.trusted)
              /\ message.trusted.owner = swap.recipient
              /\ "token2022" \in i.has =>
                   /\ i.kind = "SplTransferCheckedWithFee"
                   /\ i.arg.fee_tokens = 0
                   /\ "hook" \notin i.has
              /\ \A k \in DOMAIN message.instructions \ {n} :
                   \/ Accompanies(k)
                   \/ message.instructions[k].kind = "SplAssociatedTokenAccount"
  <1> DEFINE is == message.instructions
             rs == BodyRequests(message)
             c == message.config
  <1>1. /\ swap \in Swaps /\ validated = CopyParameters(swap)
        /\ message \in Messages /\ ~ AsksFor(rs, "bail")
        /\ \A n \in DOMAIN rs : Passes(message, validated, rs[n].item)
        /\ \A n \in DOMAIN steps : Passes(message, validated, steps[n])
    BY SignedFacts
  <1>2. /\ is \in Seq(ToSet(is)) /\ DOMAIN is = 1..Len(is)
        /\ \A n \in DOMAIN is : is[n].at = n /\ ArgTyped(is[n])
    BY <1>1, SwapAssumption
  <1>3. PICK sh \in Seq(ToSet(is)) :
          /\ ShownOf(is, rs, c, sh)
          /\ \A n \in 1..Len(is) : Beside(is, n) \/ \E j \in 1..Len(sh) : sh[j] = is[n]
    BY <1>1, SwapBodyShown
  <1>4. PICK s \in DOMAIN steps : ItemKind(message, steps[s]) = "TokenAmount"
    BY TokenSteps
  <1>5. PICK i : i = InstructionOf(message, steps[s])
    OBVIOUS
  <1>6. i.kind \in TransferKinds /\ i.at \in steps[s].of
    BY <1>3, <1>4, <1>5, TokenShape
  <1>7. PICK k \in 1..Len(sh) :
          /\ sh[k] = i /\ k = Len(sh)
          /\ Len(sh) = 1 \/ (Len(sh) = 2 /\ sh[1].kind = "SplAssociatedTokenAccount")
          /\ PrintPattern(sh, c) = SplTransfer(i, c)
    BY <1>3, <1>4, <1>5, TokenShape
  <1>8. PICK n \in 1..Len(is) : sh[k] = is[n]
    BY <1>3, <1>7 DEF ShownOf
  <1>9. i = is[n] /\ n \in DOMAIN is /\ i \in ToSet(is) /\ ArgTyped(i)
    BY <1>2, <1>7, <1>8 DEF ToSet
  <1>10. /\ i.arg.tokens \in Nat /\ i.arg.decimals \in Nat
         /\ i.arg.symbol \in Seq(ToSet(i.arg.symbol))
    BY <1>6, <1>9 DEF ArgTyped
  <1>11. /\ steps[s].field = "tokens" /\ ItemPrinted(message, steps[s]).ok
         /\ AmountIs(validated, ItemPrinted(message, steps[s]).text)
    BY <1>1, <1>4, TokensPass
  <1>12. /\ i.arg.symbol = Coin(swap).ticker
         /\ SameQuantity(i.arg.tokens, i.arg.decimals, swap.amount, Coin(swap).decimals)
    <2>1. ItemPrinted(message, steps[s])
            = PrintTokenAmount(i.arg.tokens, i.arg.symbol, i.arg.decimals, TextLength)
      BY <1>5, <1>11, PrintedIs
    <2> QED
      BY <1>1, <1>10, <1>11, <2>1, AmountsAgree
  <1>13. Coin(swap) = swap.coin
    <2>1. Coin(swap).ticker # SOL
      BY <1>1 DEF CopyParameters
    <2> QED
      BY <2>1 DEF Coin
  <1>14. MatchesTrusted(i, message.trusted)
    BY <1>1, <1>6, <1>9, SwapBodyShown
  <1>15. ASSUME "token2022" \in i.has
         PROVE  /\ i.kind = "SplTransferCheckedWithFee" /\ i.arg.fee_tokens = 0
                /\ "hook" \notin i.has
    <2>1. Shown(i, "tokens")
      BY <1>6, <1>11 DEF Shown
    <2>2. ~ Shows(rs, i, "fee_tokens")
      BY <1>1, PassesNot DEF Shows
    <2>3. "fee" \in i.has => Shows(rs, i, "fee_tokens")
      BY <1>3, <1>7, TransferShows, WithinShows DEF ShownOf
    <2> QED
      BY <1>6, <1>9, <1>15, <2>1, <2>2, <2>3, TokenWhole
  <1>16. ASSUME NEW q \in DOMAIN is \ {n}
         PROVE  Accompanies(q) \/ is[q].kind = "SplAssociatedTokenAccount"
    <2>1. is[q] # is[n]
      BY <1>2
    <2>2. CASE Beside(is, q)
      BY <2>2 DEF Beside, Accompanies
    <2>3. ASSUME NEW j \in 1..Len(sh), sh[j] = is[q] PROVE is[q].kind = "SplAssociatedTokenAccount"
      <3>1. j # k
        BY <1>8, <2>1, <2>3
      <3>2. j = 1 /\ Len(sh) = 2
        BY <1>7, <3>1
      <3> QED
        BY <1>7, <2>3, <3>2
    <2> QED
      BY <1>2, <1>3, <2>2, <2>3
  <1>17. message.trusted.owner = swap.recipient
    BY TokenSteps
  <1> HIDE DEF rs, c
  <1> QED
    BY <1>6, <1>9, <1>12, <1>13, <1>14, <1>15, <1>16, <1>17

\* What is signed for a swap of tokens is its transfer (TokenSwapSigned), whatever
\* Exchange asks for, the messages and what the trusted info says of them.
THEOREM TokenSwapIsSigned == SwapSpec => []TokenSwapSigned
  <1>1. SwapInv => TokenSwapSigned
    <2>1. SwapInv /\ verdict = "signed" =>
            /\ swap.extraId \in {"absent", "native"}
            /\ \A n \in DOMAIN steps :
                 steps[n].field = "max_fee" => message.maxFee <= swap.fee
      BY SignedFacts, FeePasses
    <2> QED
      BY <2>1, TokenTransfer DEF TokenSwapSigned
  <1> QED
    BY SwapMade, <1>1, PTL

\* A step of the review of what is signed shows the amount of the swap.
LEMMA AmountShown ==
  ASSUME SwapInv, verdict = "signed"
  PROVE  \E n \in DOMAIN steps :
           /\ steps[n].field \in {"lamports", "tokens"}
           /\ AmountIs(validated, ItemPrinted(message, steps[n]).text)
  <1>1. CASE validated.ticker = SOL
    <2>1. PICK r \in DOMAIN BodyRequests(message) :
            BodyRequests(message)[r].item.field = "lamports"
      BY <1>1, NativeTransfer
    <2>2. PICK k \in DOMAIN steps : steps[k] = BodyRequests(message)[r].item
      BY SignedFacts
    <2>3. Passes(message, validated, steps[k]) /\ steps[k].field = "lamports"
      BY <2>1, <2>2, SignedFacts
    <2>4. AmountIs(validated, ItemPrinted(message, steps[k]).text)
      BY <1>1, <2>3, KindIs DEF Passes
    <2> QED
      BY <2>3, <2>4
  <1>2. CASE validated.ticker # SOL
    <2>1. PICK k \in DOMAIN steps : ItemKind(message, steps[k]) = "TokenAmount"
      BY <1>2, TokenSteps
    <2> QED
      BY <1>2, <2>1, SignedFacts, TokensPass
  <1> QED
    BY <1>1, <1>2

\* What the user accepted on the screens of Exchange is the text of the amount that
\* is signed (AmountWasDisplayed).
THEOREM SignedWasDisplayed == SwapSpec => []AmountWasDisplayed
  <1>1. SwapInv => AmountWasDisplayed
    <2> SUFFICES ASSUME SwapInv, verdict = "signed"
                 PROVE  \E n \in DOMAIN steps :
                          /\ steps[n].field \in {"lamports", "tokens"}
                          /\ PrintableAmount(swap, swap.amount, FALSE).ok
                          /\ ItemPrinted(message, steps[n]).text
                               = PrintableAmount(swap, swap.amount, FALSE).text
      BY DEF AmountWasDisplayed
    <2>1. validated = CopyParameters(swap)
      BY SignedFacts
    <2>2. PrintableAmount(swap, swap.amount, FALSE)
            = PrintTokenAmount(validated.amount, validated.ticker,
                               validated.decimals, PrintableLength)
      BY <2>1 DEF PrintableAmount, CopyParameters
    <2> QED
      BY <2>2, AmountShown DEF AmountIs
  <1> QED
    BY SwapMade, <1>1, PTL

===============================================================================
