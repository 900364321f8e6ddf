----------------------------- MODULE CommonLemmas -----------------------------
(***************************************************************************)
(* What the proofs about several components need: induction, products,     *)
(* quotients and remainders, sequences, recursive functions, and what a    *)
(* fold collects.                                                          *)
(***************************************************************************)
EXTENDS Selections, SequenceTheorems, WellFoundedInduction, TLAPS

\* Induction over the natural numbers, on the set of those a formula holds for:
\* there is no smallest number outside of it.
LEMMA Induction ==
  ASSUME NEW A, 0 \in A, \A n \in Nat : n \in A => n + 1 \in A
  PROVE  Nat \subseteq A
  <1> SUFFICES ASSUME Nat \ A # {} PROVE FALSE
    OBVIOUS
  <1>1. PICK n \in Nat \ A : \A k \in Nat \ A : <<k, n>> \notin OpToRel(<, Nat)
    BY NatLessThanWellFounded, WFMin
  <1>2. n - 1 \in Nat \ A /\ n - 1 < n
    BY SMT
  <1>3. <<n - 1, n>> \in OpToRel(<, Nat)
    BY <1>2, SMT DEF OpToRel
  <1> QED
    BY <1>1, <1>2, <1>3

-------------------------------------------------------------------------------
(* Arithmetic in words. *)

\* What fits does not wrap.
LEMMA SmallRemainder ==
  ASSUME NEW w \in Nat \ {0}, NEW a \in 0..(w - 1)
  PROVE  a % w = a
  BY SMT

\* What a quotient and a remainder are.
LEMMA Division ==
  ASSUME NEW a \in Nat, NEW d \in Nat \ {0}
  PROVE  /\ a \div d \in Nat /\ a % d \in 0..(d - 1)
         /\ a = (a \div d) * d + (a % d)
  BY SMT

\* Greater factors have a greater product.
LEMMA ProductMonotone ==
  ASSUME NEW a \in Nat, NEW b \in Nat, NEW c \in Nat, NEW d \in Nat,
         a <= c, b <= d
  PROVE  a * b \in Nat /\ a * b <= c * d
  <1>1. a * b <= c * b
    BY SMT
  <1>2. c * b <= c * d
    BY SMT
  <1> QED
    BY <1>1, <1>2, SMT

\* A multiple of the divisor can be divided apart.
LEMMA DivideApart ==
  ASSUME NEW q \in Nat, NEW x \in Nat, NEW d \in Nat \ {0}
  PROVE  (q * d + x) \div d = q + x \div d
  <1> DEFINE y == x \div d
             r == x % d
             s == q + y
  <1>1. y \in Nat /\ r \in 0..(d - 1) /\ x = y * d + r
    BY Division
  <1>2. q * d + x = s * d + r
    BY <1>1, SMT
  <1>3. s \in Nat /\ (s * d + r) \div d = s
    BY <1>1, SMT
  <1> QED
    BY <1>2, <1>3

\* A factor not above the quotient gives a product that fits (the overflow check
\* of calculate_max_fee).
LEMMA CheckedProduct ==
  ASSUME NEW w \in Nat \ {0}, NEW a \in Nat, NEW b \in Nat \ {0},
         a <= (w - 1) \div b
  PROVE  a * b < w
  <1> DEFINE q == (w - 1) \div b
  <1>1. q \in Nat /\ q * b <= w - 1
    BY SMT
  <1>2. a * b <= q * b
    BY <1>1, SMT
  <1> QED
    BY <1>1, <1>2, SMT

\* A greater one gives a product that does not.
LEMMA UncheckedProduct ==
  ASSUME NEW w \in Nat \ {0}, NEW a \in Nat, NEW b \in Nat \ {0},
         a > (w - 1) \div b
  PROVE  a * b >= w
  <1> DEFINE q == (w - 1) \div b
  <1>1. q \in Nat /\ (q + 1) * b > w - 1
    BY SMT
  <1>2. a >= q + 1
    BY <1>1, SMT
  <1>3. a * b >= (q + 1) * b
    BY <1>1, <1>2, SMT
  <1> QED
    BY <1>1, <1>3, SMT

\* The quotient of what fits is at most that of the largest word.
LEMMA QuotientBound ==
  ASSUME NEW w \in Nat \ {0}, NEW a \in 0..(w - 1), NEW d \in Nat \ {0}
  PROVE  a \div d \in Nat /\ a \div d <= (w - 1) \div d
  BY SMT

\* A quotient is rounded down.
LEMMA QuotientTimes ==
  ASSUME NEW a \in Nat, NEW d \in Nat \ {0}
  PROVE  a \div d \in Nat /\ (a \div d) * d <= a
  <1>1. a \div d \in Nat /\ a % d \in Nat /\ a = (a \div d) * d + (a % d)
    BY Division
  <1> QED
    BY <1>1, SMT

\* A number whose multiple is at most p is at most the quotient of p.
LEMMA WithinQuotient ==
  ASSUME NEW a \in Nat, NEW p \in Nat, NEW w \in Nat \ {0}, a * w <= p
  PROVE  a <= p \div w
  <1> DEFINE q == p \div w
  <1>1. q \in Nat /\ p % w \in 0..(w - 1) /\ p = q * w + (p % w)
    BY Division
  <1> HIDE DEF q
  <1> SUFFICES ASSUME a > q PROVE FALSE
    BY <1>1 DEF q
  <1>2. (q + 1) * w <= a * w
    BY <1>1, ProductMonotone
  <1>3. (q + 1) * w = q * w + w /\ q * w \in Nat /\ a * w \in Nat
    BY <1>1, SMT
  <1> DEFINE x == q * w
             y == a * w
             r == p % w
  <1>4. x + w <= y /\ y <= p /\ p = x + r /\ r \in 0..(w - 1) /\ x \in Nat /\ y \in Nat
    BY <1>1, <1>2, <1>3
  <1> HIDE DEF x, y, r
  <1> QED
    BY <1>4

\* A quotient is small when the product is.
LEMMA SmallQuotient ==
  ASSUME NEW p \in Nat, NEW w \in Nat \ {0}, NEW n \in Nat, p < n * w
  PROVE  p \div w < n
  <1> DEFINE q == p \div w
  <1>1. q \in Nat /\ q * w <= p
    BY QuotientTimes
  <1> HIDE DEF q
  <1> SUFFICES ASSUME q >= n PROVE FALSE
    BY <1>1 DEF q
  <1>2. n * w <= q * w
    BY <1>1, ProductMonotone
  <1>3. n * w \in Nat /\ q * w \in Nat
    BY <1>1, SMT
  <1> QED
    BY <1>1, <1>2, <1>3

\* A product of a number with one more digit.
LEMMA MultiplyShifted ==
  ASSUME NEW v \in Nat, NEW b \in Nat, NEW x \in Nat, NEW p \in Nat
  PROVE  (v * b + x) * p = v * (b * p) + x * p
  BY SMT

-------------------------------------------------------------------------------
(* Sequences. *)

\* Two elements.
LEMMA Pair ==
  ASSUME NEW S, NEW a \in S, NEW b \in S
  PROVE  <<a, b>> = <<a>> \o <<b>>
  <1> DEFINE t == <<a>> \o <<b>>
             u == <<a, b>>
  <1>1. <<a>> \in Seq(S) /\ <<b>> \in Seq(S)
    OBVIOUS
  <1>2. t \in Seq(S) /\ Len(t) = 2 /\ t[1] = a /\ t[2] = b
    BY <1>1, ConcatProperties
  <1>3. u \in Seq(S) /\ Len(u) = 2 /\ u[1] = a /\ u[2] = b
    OBVIOUS
  <1> HIDE DEF t, u
  <1>4. \A i \in 1..Len(t) : t[i] = u[i]
    BY <1>2, <1>3
  <1>5. t = u
    BY <1>2, <1>3, <1>4, SeqEqual
  <1> QED
    BY <1>5 DEF t, u

\* One more element of a prefix.
LEMMA SubSeqGrows ==
  ASSUME NEW S, NEW s \in Seq(S), NEW k \in 0..(Len(s) - 1)
  PROVE  /\ SubSeq(s, 1, k) \in Seq(S)
         /\ SubSeq(s, 1, k + 1) = Append(SubSeq(s, 1, k), s[k + 1])
  <1>1. /\ Len(s) \in Nat /\ k + 1 \in 1..Len(s) /\ 1 \in 1..Len(s)
        /\ (k + 1) - 1 = k /\ s[k + 1] \in S
    OBVIOUS
  <1>2. SubSeq(s, 1, k + 1) = SubSeq(s, 1, k) \o <<s[k + 1]>>
    BY <1>1, SubSeqRecursiveSecond
  <1>3. SubSeq(s, 1, k) \in Seq(S)
    <2>1. \A i \in 1..k : s[i] \in S
      BY <1>1
    <2> QED
      BY <1>1, <2>1, SubSeqProperties
  <1> QED
    BY <1>1, <1>2, <1>3, AppendIsConcat

\* A prefix is compared element by element.
LEMMA PrefixIsBytewise ==
  ASSUME NEW S, NEW s \in Seq(S), NEW t \in Seq(S)
  PROVE  IsPrefix(s, t) <=> \A k \in DOMAIN s : k \in DOMAIN t /\ t[k] = s[k]
  <1> DEFINE n == Len(s)
  <1>1. /\ n \in Nat /\ Len(t) \in Nat
        /\ DOMAIN s = 1..n /\ DOMAIN t = 1..Len(t)
    OBVIOUS
  <1>2. n <= Len(t) <=> \A k \in DOMAIN s : k \in DOMAIN t
    BY <1>1
  <1>3. ASSUME n <= Len(t)
        PROVE  SubSeq(s, 1, n) = SubSeq(t, 1, n) <=> \A k \in DOMAIN s : t[k] = s[k]
    <2>1. /\ SubSeq(s, 1, n) \in Seq(S) /\ Len(SubSeq(s, 1, n)) = n
          /\ \A k \in 1..n : SubSeq(s, 1, n)[k] = s[k]
      <3>1. \A k \in 1..n : s[k] \in S
        BY <1>1
      <3> QED
        BY <1>1, <3>1, SubSeqProperties
    <2>2. /\ SubSeq(t, 1, n) \in Seq(S) /\ Len(SubSeq(t, 1, n)) = n
          /\ \A k \in 1..n : SubSeq(t, 1, n)[k] = t[k]
      <3>1. \A k \in 1..n : t[k] \in S
        BY <1>1, <1>3
      <3> QED
        BY <1>1, <1>3, <3>1, SubSeqProperties
    <2> DEFINE u == SubSeq(s, 1, n)
               v == SubSeq(t, 1, n)
    <2> HIDE DEF u, v
    <2>3. u = v <=> \A k \in 1..n : u[k] = v[k]
      <3>1. u \in Seq(S) /\ v \in Seq(S) /\ Len(u) = n /\ Len(v) = n
        BY <2>1, <2>2 DEF u, v
      <3> QED
        BY <3>1, SeqEqual
    <2> QED
      BY <1>1, <2>1, <2>2, <2>3 DEF u, v
  <1> QED
    BY <1>2, <1>3 DEF IsPrefix

-------------------------------------------------------------------------------
(* Recursive functions. *)

\* f is the table of a recursion over a range of numbers.
Tabulated(n, base, step, f) ==
  f[0] = base /\ \A k \in 1..n : f[k] = step[k, f[k - 1]]

HasTable(n, St, base, step) == \E f \in [0..n -> St] : Tabulated(n, base, step, f)

\* Such a recursion is well founded.
LEMMA TableExists ==
  ASSUME NEW n \in Nat, NEW St, NEW base \in St, NEW step \in [(1..n) \X St -> St]
  PROVE  HasTable(n, St, base, step)
  <1> DEFINE A == {k \in Nat : k <= n => HasTable(k, St, base, step)}
  <1>1. 0 \in A
    <2> DEFINE f == [i \in 0..0 |-> base]
    <2>1. f \in [0..0 -> St] /\ f[0] = base /\ \A i \in 1..0 : f[i] = step[i, f[i - 1]]
      OBVIOUS
    <2> HIDE DEF f
    <2>2. Tabulated(0, base, step, f)
      BY <2>1 DEF Tabulated
    <2> QED
      BY <2>1, <2>2 DEF HasTable
  <1>2. ASSUME NEW k \in Nat, k \in A PROVE k + 1 \in A
    <2> SUFFICES ASSUME k + 1 <= n PROVE HasTable(k + 1, St, base, step)
      OBVIOUS
    <2>0. HasTable(k, St, base, step)
      BY <1>2
    <2> PICK f \in [0..k -> St] : Tabulated(k, base, step, f)
      BY <2>0 DEF HasTable
    <2> DEFINE h == [i \in 0..(k + 1) |-> IF i = k + 1 THEN step[k + 1, f[k]] ELSE f[i]]
    <2>1. k + 1 \in 1..n /\ f[k] \in St
      OBVIOUS
    <2>2. step[k + 1, f[k]] \in St
      BY <2>1
    <2>3. \A i \in 0..(k + 1) : i # k + 1 => i \in 0..k
      OBVIOUS
    <2>4. h \in [0..(k + 1) -> St]
      BY <2>2, <2>3
    <2>5. h[0] = base
      <3>1. 0 \in 0..(k + 1) /\ 0 # k + 1
        OBVIOUS
      <3>2. h[0] = f[0]
        BY <3>1
      <3> QED
        BY <3>2 DEF Tabulated
    <2>6. ASSUME NEW i \in 1..(k + 1) PROVE h[i] = step[i, h[i - 1]]
      <3>1. i - 1 \in 0..k /\ i - 1 # k + 1 /\ i \in 0..(k + 1) /\ i - 1 \in 0..(k + 1)
        OBVIOUS
      <3>2. h[i - 1] = f[i - 1]
        BY <3>1
      <3>3. CASE i = k + 1
        <4>1. h[i] = step[k + 1, f[k]] /\ i - 1 = k
          BY <3>1, <3>3
        <4> HIDE DEF h
        <4> QED
          BY <3>2, <3>3, <4>1
      <3>4. CASE i # k + 1
        <4>1. h[i] = f[i] /\ i \in 1..k
          BY <3>1, <3>4
        <4> HIDE DEF h
        <4> QED
          BY <3>2, <4>1 DEF Tabulated
      <3> QED
        BY <3>3, <3>4
    <2> HIDE DEF h
    <2>7. Tabulated(k + 1, base, step, h)
      BY <2>5, <2>6 DEF Tabulated
    <2> QED
      BY <2>4, <2>7 DEF HasTable
  <1>3. Nat \subseteq A
    <2> HIDE DEF A
    <2> QED
      BY <1>1, <1>2, Induction
  <1> QED
    BY <1>3

-------------------------------------------------------------------------------
(* Folds. *)

\* A set of positions that is not empty has a greatest one.
LEMMA MaxOfRange ==
  ASSUME NEW n \in Nat, NEW S \in SUBSET (1..n), S # {}
  PROVE  Max(S) \in S /\ \A y \in S : y <= Max(S)
  <1> DEFINE A == {k \in Nat : \A T \in SUBSET (1..k) : T # {} =>
                     \E x \in T : \A y \in T : x >= y}
  <1>1. 0 \in A
    <2>1. SUBSET (1..0) = {{}}
      OBVIOUS
    <2> QED
      BY <2>1
  <1>2. ASSUME NEW k \in Nat, k \in A PROVE k + 1 \in A
    <2> SUFFICES ASSUME NEW T \in SUBSET (1..(k + 1)), T # {}
                 PROVE  \E x \in T : \A y \in T : x >= y
      OBVIOUS
    <2>1. CASE k + 1 \in T
      BY <2>1
    <2>2. CASE k + 1 \notin T
      <3>1. T \in SUBSET (1..k)
        BY <2>2
      <3> QED
        BY <1>2, <3>1
    <2> QED
      BY <2>1, <2>2
  <1>3. Nat \subseteq A
    <2> HIDE DEF A
    <2> QED
      BY <1>1, <1>2, Induction
  <1>4. \E x \in S : \A y \in S : x >= y
    BY <1>3
  <1>5. Max(S) \in S /\ \A y \in S : Max(S) >= y
    BY <1>4 DEF Max
  <1> QED
    BY <1>5

\* g is the table a fold over positions computes: an entry for each set of them,
\* made from the entry of the set without its greatest position.
Folding(n, base, step, g) ==
  \A S \in SUBSET (1..n) :
    g[S] = IF S = {} THEN base ELSE step[Max(S), g[S \ {Max(S)}]]

Foldable(n, St, base, step) ==
  \E g \in [SUBSET (1..n) -> St] : Folding(n, base, step, g)

\* The recursion of a fold over positions is well founded.
LEMMA FoldingExists ==
  ASSUME NEW n \in Nat, NEW St, NEW base \in St, NEW step \in [(1..n) \X St -> St]
  PROVE  Foldable(n, St, base, step)
  <1> DEFINE A == {k \in Nat : k <= n => Foldable(k, St, base, step)}
  <1>1. 0 \in A
    <2> DEFINE g == [S \in SUBSET (1..0) |-> base]
    <2>1. SUBSET (1..0) = {{}}
      OBVIOUS
    <2>2. g \in [SUBSET (1..0) -> St] /\ \A S \in SUBSET (1..0) : g[S] = base /\ S = {}
      BY <2>1
    <2> HIDE DEF g
    <2>3. Folding(0, base, step, g)
      BY <2>2 DEF Folding
    <2> QED
      BY <2>2, <2>3 DEF Foldable
  <1>2. ASSUME NEW k \in Nat, k \in A PROVE k + 1 \in A
    <2> SUFFICES ASSUME k + 1 <= n
                 PROVE  Foldable(k + 1, St, base, step)
      OBVIOUS
    <2>0. k <= n /\ Foldable(k, St, base, step)
      BY <1>2
    <2> PICK g \in [SUBSET (1..k) -> St] : Folding(k, base, step, g)
      BY <2>0 DEF Foldable
    <2> DEFINE h == [S \in SUBSET (1..(k + 1)) |->
                       IF k + 1 \in S THEN step[k + 1, g[S \ {k + 1}]] ELSE g[S]]
    <2>1. \A S \in SUBSET (1..(k + 1)) : S \ {k + 1} \in SUBSET (1..k)
      OBVIOUS
    <2>2. \A S \in SUBSET (1..(k + 1)) : k + 1 \notin S => S \in SUBSET (1..k)
      OBVIOUS
    <2>3. \A S \in SUBSET (1..(k + 1)) : h[S] \in St
      <3> TAKE S \in SUBSET (1..(k + 1))
      <3>1. CASE k + 1 \in S
        <4>1. g[S \ {k + 1}] \in St /\ k + 1 \in 1..n
          BY <2>1
        <4>2. h[S] = step[k + 1, g[S \ {k + 1}]]
          BY <3>1
        <4> QED
          BY <4>1, <4>2
      <3>2. CASE k + 1 \notin S
        BY <2>2, <3>2
      <3> QED
        BY <3>1, <3>2
    <2>4. ASSUME NEW S \in SUBSET (1..(k + 1))
          PROVE  h[S] = IF S = {} THEN base ELSE step[Max(S), h[S \ {Max(S)}]]
      <3>1. CASE k + 1 \in S
        <4>1. Max(S) = k + 1
          <5>1. k + 1 \in Nat /\ S # {}
            BY <3>1
          <5>2. Max(S) \in S /\ k + 1 <= Max(S)
            BY <3>1, <5>1, MaxOfRange
          <5>3. Max(S) \in 1..(k + 1)
            BY <5>2
          <5> HIDE DEF h
          <5>4. \A m \in 1..(k + 1) : k + 1 <= m => m = k + 1
            OBVIOUS
          <5> QED
            BY <5>2, <5>3, <5>4
        <4>2. h[S \ {k + 1}] = g[S \ {k + 1}]
          BY <2>1
        <4> QED
          BY <3>1, <4>1, <4>2
      <3>2. CASE k + 1 \notin S
        <4>1. S \in SUBSET (1..k) /\ h[S] = g[S]
          BY <2>2, <3>2
        <4>2. S # {} => Max(S) \in S
          BY <4>1, MaxOfRange
        <4>3. S # {} => h[S \ {Max(S)}] = g[S \ {Max(S)}]
          BY <3>2, <4>2
        <4> QED
          BY <4>1, <4>3 DEF Folding
      <3> QED
        BY <3>1, <3>2
    <2> HIDE DEF h
    <2>5. h \in [SUBSET (1..(k + 1)) -> St]
      <3>1. h = [S \in SUBSET (1..(k + 1)) |-> h[S]]
        BY DEF h
      <3> QED
        BY <2>3, <3>1
    <2>6. Folding(k + 1, base, step, h)
      BY <2>4 DEF Folding
    <2> QED
      BY <2>5, <2>6 DEF Foldable
  <1>3. Nat \subseteq A
    <2> HIDE DEF A
    <2> QED
      BY <1>1, <1>2, Induction
  <1> QED
    BY <1>3

\* The table InOrder computes, one entry for each prefix of s.
Collecting(s, T, n, f) ==
  /\ f[0] = <<>>
  /\ \A k \in 1..n : f[k] = IF s[k] \in T THEN Append(f[k - 1], s[k]) ELSE f[k - 1]

\* InOrder returns the last entry of such a table.
LEMMA InOrderTable ==
  ASSUME NEW S, NEW s \in Seq(S), NEW T
  PROVE  \E f \in [0..Len(s) -> Seq(S)] :
           Collecting(s, T, Len(s), f) /\ InOrder(s, T) = f[Len(s)]
  <1> DEFINE n == Len(s)
             step == [p \in (1..n) \X Seq(S) |->
                        IF s[p[1]] \in T THEN Append(p[2], s[p[1]]) ELSE p[2]]
             g == CHOOSE g : g = [U \in SUBSET (1..n) |->
                    IF U = {} THEN <<>>
                    ELSE IF s[Max(U)] \in T THEN Append(g[U \ {Max(U)}], s[Max(U)])
                                            ELSE g[U \ {Max(U)}]]
  <1>1. n \in Nat /\ DOMAIN s = 1..n /\ \A i \in 1..n : s[i] \in S
    OBVIOUS
  <1>2. InOrder(s, T) = g[1..n]
    BY <1>1 DEF InOrder, FoldLeft, MapThenFoldSet
  <1>3. step \in [(1..n) \X Seq(S) -> Seq(S)]
    <2>1. ASSUME NEW p \in (1..n) \X Seq(S)
          PROVE  (IF s[p[1]] \in T THEN Append(p[2], s[p[1]]) ELSE p[2]) \in Seq(S)
      <3>1. p[1] \in 1..n /\ p[2] \in Seq(S)
        OBVIOUS
      <3>2. s[p[1]] \in S
        BY <1>1, <3>1
      <3> QED
        BY <3>1, <3>2, AppendProperties
    <2> QED
      BY <2>1
  <1>4. PICK h \in [SUBSET (1..n) -> Seq(S)] : Folding(n, <<>>, step, h)
    <2> HIDE DEF step, n
    <2>1. <<>> \in Seq(S)
      OBVIOUS
    <2> QED
      BY <1>1, <1>3, <2>1, FoldingExists DEF Foldable
  <1>5. \A U \in SUBSET (1..n) :
          h[U] = IF U = {} THEN <<>>
                 ELSE IF s[Max(U)] \in T THEN Append(h[U \ {Max(U)}], s[Max(U)])
                                         ELSE h[U \ {Max(U)}]
    <2> TAKE U \in SUBSET (1..n)
    <2>1. CASE U = {}
      BY <1>4, <2>1 DEF Folding
    <2>2. CASE U # {}
      <3>1. Max(U) \in 1..n
        BY <1>1, <2>2, MaxOfRange
      <3>2. h[U \ {Max(U)}] \in Seq(S)
        BY <1>4
      <3>3. h[U] = step[Max(U), h[U \ {Max(U)}]]
        <4> HIDE DEF step
        <4> QED
          BY <1>4, <2>2 DEF Folding
      <3> QED
        BY <2>2, <3>1, <3>2, <3>3
    <2> QED
      BY <2>1, <2>2
  <1>6. h = [U \in SUBSET (1..n) |->
               IF U = {} THEN <<>>
               ELSE IF s[Max(U)] \in T THEN Append(h[U \ {Max(U)}], s[Max(U)])
                                       ELSE h[U \ {Max(U)}]]
    BY <1>4, <1>5
  <1>7. g = [U \in SUBSET (1..n) |->
               IF U = {} THEN <<>>
               ELSE IF s[Max(U)] \in T THEN Append(g[U \ {Max(U)}], s[Max(U)])
                                       ELSE g[U \ {Max(U)}]]
    BY <1>6
  <1> HIDE DEF g, step
  <1>8. \A U \in SUBSET (1..n) :
          g[U] = IF U = {} THEN <<>>
                 ELSE IF s[Max(U)] \in T THEN Append(g[U \ {Max(U)}], s[Max(U)])
                                         ELSE g[U \ {Max(U)}]
    BY <1>7
  <1>9. \A k \in 1..n : g[1..k] = IF s[k] \in T THEN Append(g[1..(k - 1)], s[k])
                                                ELSE g[1..(k - 1)]
    <2> TAKE k \in 1..n
    <2>0. k \in Nat /\ 1 <= k /\ k <= n /\ k \in 1..k
      BY <1>1
    <2>1. 1..k \in SUBSET (1..n) /\ 1..k # {} /\ k \in Nat /\ k \in 1..k
      <3>1. \A i \in 1..k : i \in 1..n
        BY <1>1, <2>0
      <3> QED
        BY <2>0, <3>1
    <2>2. Max(1..k) = k
      <3>1. Max(1..k) \in 1..k /\ k <= Max(1..k)
        BY <2>1, MaxOfRange
      <3> QED
        BY <2>1, <3>1
    <2>3. (1..k) \ {k} = 1..(k - 1)
      BY <2>1
    <2> QED
      BY <1>8, <2>1, <2>2, <2>3
  <1> DEFINE f == [k \in 0..n |-> g[1..k]]
  <1>10. f[0] = <<>>
    <2>1. 1..0 = {} /\ 1..0 \in SUBSET (1..n) /\ 0 \in 0..n
      BY <1>1
    <2> QED
      BY <1>8, <2>1
  <1>11. \A k \in 1..n : f[k] = IF s[k] \in T THEN Append(f[k - 1], s[k]) ELSE f[k - 1]
    <2> TAKE k \in 1..n
    <2>1. k \in 0..n /\ k - 1 \in 0..n
      BY <1>1
    <2> QED
      BY <1>9, <2>1
  <1>12. InOrder(s, T) = f[n]
    <2>1. n \in 0..n
      BY <1>1
    <2> QED
      BY <1>2, <2>1
  <1>13. f = [k \in 0..n |-> f[k]]
    OBVIOUS
  <1> HIDE DEF f
  <1>14. \A k \in 0..n : f[k] \in Seq(S)
    <2> DEFINE A == {k \in Nat : k <= n => f[k] \in Seq(S)}
    <2>1. 0 \in A
      <3>1. <<>> \in Seq(S)
        OBVIOUS
      <3> QED
        BY <1>10, <3>1
    <2>2. ASSUME NEW k \in Nat, k \in A PROVE k + 1 \in A
      <3> SUFFICES ASSUME k + 1 <= n PROVE f[k + 1] \in Seq(S)
        OBVIOUS
      <3>1. k + 1 \in 1..n /\ (k + 1) - 1 = k /\ f[k] \in Seq(S)
        BY <1>1, <2>2
      <3>2. f[k + 1] = IF s[k + 1] \in T THEN Append(f[k], s[k + 1]) ELSE f[k]
        BY <1>11, <3>1
      <3>3. s[k + 1] \in S
        BY <1>1, <3>1
      <3> QED
        BY <3>1, <3>2, <3>3, AppendProperties
    <2>3. Nat \subseteq A
      <3> HIDE DEF A
      <3> QED
        BY <2>1, <2>2, Induction
    <2> QED
      BY <1>1, <2>3
  <1>15. f \in [0..n -> Seq(S)]
    BY <1>13, <1>14
  <1>16. Collecting(s, T, n, f)
    BY <1>10, <1>11 DEF Collecting
  <1> QED
    BY <1>12, <1>15, <1>16 DEF n

\* What is collected is of what the sequence is of.
LEMMA InOrderTyped ==
  ASSUME NEW S, NEW s \in Seq(S), NEW T
  PROVE  InOrder(s, T) \in Seq(S)
  BY InOrderTable

\* The tables of a sequence and of a longer one agree.
LEMMA CollectingAgree ==
  ASSUME NEW S, NEW s \in Seq(S), NEW t \in Seq(S), NEW T,
         Len(s) <= Len(t), \A i \in 1..Len(s) : s[i] = t[i],
         NEW f \in [0..Len(s) -> Seq(S)], Collecting(s, T, Len(s), f),
         NEW g \in [0..Len(t) -> Seq(S)], Collecting(t, T, Len(t), g)
  PROVE  f[Len(s)] = g[Len(s)]
  <1> DEFINE A == {k \in Nat : k <= Len(s) => f[k] = g[k]}
  <1>1. Len(s) \in Nat /\ Len(t) \in Nat
    OBVIOUS
  <1>2. 0 \in A
    BY DEF Collecting
  <1>3. ASSUME NEW k \in Nat, k \in A PROVE k + 1 \in A
    <2> SUFFICES ASSUME k + 1 <= Len(s) PROVE f[k + 1] = g[k + 1]
      OBVIOUS
    <2>1. k + 1 \in 1..Len(s) /\ k + 1 \in 1..Len(t) /\ (k + 1) - 1 = k
      BY <1>1
    <2>2. f[k] = g[k] /\ s[k + 1] = t[k + 1]
      BY <1>1, <1>3, <2>1
    <2>3. f[k + 1] = IF s[k + 1] \in T THEN Append(f[k], s[k + 1]) ELSE f[k]
      BY <2>1 DEF Collecting
    <2>4. g[k + 1] = IF t[k + 1] \in T THEN Append(g[k], t[k + 1]) ELSE g[k]
      BY <2>1 DEF Collecting
    <2> QED
      BY <2>2, <2>3, <2>4
  <1>4. Nat \subseteq A
    <2> HIDE DEF A
    <2> QED
      BY <1>2, <1>3, Induction
  <1> QED
    BY <1>1, <1>4

\* Of nothing, nothing.
LEMMA InOrderEmpty ==
  ASSUME NEW T
  PROVE  InOrder(<<>>, T) = <<>>
  <1>1. <<>> \in Seq({}) /\ Len(<<>>) = 0
    OBVIOUS
  <1>2. InOrder(<<>>, T) \in Seq({})
    BY <1>1, InOrderTyped
  <1>3. ASSUME InOrder(<<>>, T) # <<>> PROVE FALSE
    <2>1. Head(InOrder(<<>>, T)) \in {}
      BY <1>2, <1>3, HeadTailProperties
    <2> QED
      BY <2>1
  <1> QED
    BY <1>3

\* One more element is collected or passed over.
LEMMA InOrderAppend ==
  ASSUME NEW S, NEW s \in Seq(S), NEW x \in S, NEW T
  PROVE  InOrder(Append(s, x), T) =
           IF x \in T THEN Append(InOrder(s, T), x) ELSE InOrder(s, T)
  <1> DEFINE t == Append(s, x)
             n == Len(s)
  <1>1. /\ t \in Seq(S) /\ n \in Nat /\ Len(t) = n + 1
        /\ \A i \in 1..n : s[i] = t[i]
        /\ t[n + 1] = x
    OBVIOUS
  <1>2. PICK f \in [0..n -> Seq(S)] : Collecting(s, T, n, f) /\ InOrder(s, T) = f[n]
    BY InOrderTable
  <1> HIDE DEF t
  <1>3. PICK g \in [0..Len(t) -> Seq(S)] :
          Collecting(t, T, Len(t), g) /\ InOrder(t, T) = g[Len(t)]
    BY <1>1, InOrderTable
  <1>4. f[n] = g[n]
    BY <1>1, <1>2, <1>3, CollectingAgree
  <1>5. g[n + 1] = IF t[n + 1] \in T THEN Append(g[n], t[n + 1]) ELSE g[n]
    <2>1. n + 1 \in 1..Len(t) /\ (n + 1) - 1 = n
      BY <1>1
    <2> QED
      BY <1>3, <2>1 DEF Collecting
  <1>6. InOrder(t, T) = IF x \in T THEN Append(InOrder(s, T), x) ELSE InOrder(s, T)
    BY <1>1, <1>2, <1>3, <1>4, <1>5
  <1> QED
    BY <1>6 DEF t

\* Appending to a concatenation.
LEMMA ConcatAppend ==
  ASSUME NEW S, NEW s \in Seq(S), NEW t \in Seq(S), NEW x \in S
  PROVE  s \o Append(t, x) = Append(s \o t, x)
  <1>1. /\ <<x>> \in Seq(S) /\ s \o t \in Seq(S)
        /\ Append(t, x) = t \o <<x>>
    BY AppendIsConcat
  <1>2. Append(s \o t, x) = (s \o t) \o <<x>>
    BY <1>1, AppendIsConcat
  <1>3. s \o (t \o <<x>>) = (s \o t) \o <<x>>
    BY <1>1, ConcatAssociative
  <1> QED
    BY <1>1, <1>2, <1>3

\* Two sequences in a row are collected one after the other.
LEMMA InOrderConcat ==
  ASSUME NEW S, NEW s \in Seq(S), NEW t \in Seq(S), NEW T
  PROVE  InOrder(s \o t, T) = InOrder(s, T) \o InOrder(t, T)
  <1> DEFINE A == {k \in Nat : \A u \in Seq(S) :
                     Len(u) = k => InOrder(s \o u, T) = InOrder(s, T) \o InOrder(u, T)}
  <1>1. 0 \in A
    <2> SUFFICES ASSUME NEW u \in Seq(S), Len(u) = 0
                 PROVE  InOrder(s \o u, T) = InOrder(s, T) \o InOrder(u, T)
      OBVIOUS
    <2>1. u = <<>> /\ s \o u = s /\ InOrder(s, T) \in Seq(S)
      BY InOrderTyped
    <2>2. InOrder(u, T) = <<>>
      BY <2>1, InOrderEmpty
    <2>3. InOrder(s, T) \o <<>> = InOrder(s, T)
      BY <2>1, ConcatEmptySeq
    <2> QED
      BY <2>1, <2>2, <2>3
  <1>2. ASSUME NEW k \in Nat, k \in A PROVE k + 1 \in A
    <2> SUFFICES ASSUME NEW u \in Seq(S), Len(u) = k + 1
                 PROVE  InOrder(s \o u, T) = InOrder(s, T) \o InOrder(u, T)
      OBVIOUS
    <2>1. u # <<>>
      OBVIOUS
    <2>2. PICK v \in Seq(S), x \in S : u = Append(v, x)
      BY <2>1, SequenceEmptyOrAppend
    <2>3. Len(v) = k
      BY <2>2
    <2>4. InOrder(s \o v, T) = InOrder(s, T) \o InOrder(v, T)
      BY <1>2, <2>3
    <2> DEFINE a == InOrder(s, T)
               b == InOrder(v, T)
    <2>5. s \o v \in Seq(S) /\ s \o u = Append(s \o v, x)
      BY <2>2, ConcatAppend
    <2>6. InOrder(s \o u, T) = IF x \in T THEN Append(a \o b, x) ELSE a \o b
      <3>1. PICK w \in Seq(S) : w = s \o v
        BY <2>5
      <3>2. InOrder(Append(w, x), T) = IF x \in T THEN Append(InOrder(w, T), x)
                                                 ELSE InOrder(w, T)
        BY InOrderAppend
      <3> QED
        BY <2>4, <2>5, <3>1, <3>2
    <2>7. InOrder(u, T) = IF x \in T THEN Append(b, x) ELSE b
      BY <2>2, InOrderAppend
    <2>8. a \in Seq(S) /\ b \in Seq(S)
      BY InOrderTyped
    <2> HIDE DEF a, b
    <2>9. a \o Append(b, x) = Append(a \o b, x)
      BY <2>8, ConcatAppend
    <2> QED
      BY <2>6, <2>7, <2>9 DEF a, b
  <1>3. Nat \subseteq A
    <2> HIDE DEF A
    <2> QED
      BY <1>1, <1>2, Induction
  <1>4. Len(t) \in Nat
    OBVIOUS
  <1> QED
    BY <1>3, <1>4

\* Exactly the elements in T are kept.
LEMMA InOrderHolds ==
  ASSUME NEW S, NEW s \in Seq(S), NEW T
  PROVE  /\ InOrder(s, T) \in Seq(S \intersect T)
         /\ \A i \in 1..Len(s) : s[i] \in T =>
              \E j \in 1..Len(InOrder(s, T)) : InOrder(s, T)[j] = s[i]
  <1> DEFINE Good(u) == /\ InOrder(u, T) \in Seq(S \intersect T)
                        /\ \A i \in 1..Len(u) : u[i] \in T =>
                             \E j \in 1..Len(InOrder(u, T)) : InOrder(u, T)[j] = u[i]
             A == {k \in Nat : \A u \in Seq(S) : Len(u) = k => Good(u)}
  <1>1. 0 \in A
    <2> SUFFICES ASSUME NEW u \in Seq(S), Len(u) = 0 PROVE Good(u)
      OBVIOUS
    <2>1. u = <<>>
      OBVIOUS
    <2>2. InOrder(u, T) = <<>>
      BY <2>1, InOrderEmpty
    <2>3. <<>> \in Seq(S \intersect T)
      OBVIOUS
    <2> QED
      BY <2>2, <2>3
  <1>2. ASSUME NEW k \in Nat, k \in A PROVE k + 1 \in A
    <2> SUFFICES ASSUME NEW u \in Seq(S), Len(u) = k + 1 PROVE Good(u)
      OBVIOUS
    <2>0. u # <<>>
      OBVIOUS
    <2>1. PICK v \in Seq(S), x \in S : u = Append(v, x)
      BY <2>0, SequenceEmptyOrAppend
    <2>2. Len(v) = k /\ u[k + 1] = x /\ \A i \in 1..k : u[i] = v[i]
      BY <2>1
    <2>3. Good(v)
      BY <1>2, <2>2
    <2> DEFINE a == InOrder(v, T)
    <2>4. InOrder(u, T) = IF x \in T THEN Append(a, x) ELSE a
      BY <2>1, InOrderAppend
    <2>5. a \in Seq(S \intersect T) /\ Len(a) \in Nat
      BY <2>3
    <2>6. \A i \in 1..k : v[i] \in T => \E j \in 1..Len(a) : a[j] = v[i]
      BY <2>2, <2>3
    <2> HIDE DEF a, Good
    <2>7. CASE x \in T
      <3>1. /\ InOrder(u, T) \in Seq(S \intersect T)
            /\ Len(InOrder(u, T)) = Len(a) + 1
            /\ InOrder(u, T)[Len(a) + 1] = x
            /\ \A j \in 1..Len(a) : InOrder(u, T)[j] = a[j]
        BY <2>4, <2>5, <2>7, AppendProperties
      <3>2. \A i \in 1..Len(u) : u[i] \in T =>
              \E j \in 1..Len(InOrder(u, T)) : InOrder(u, T)[j] = u[i]
        <4> SUFFICES ASSUME NEW i \in 1..Len(u), u[i] \in T
                     PROVE  \E j \in 1..Len(InOrder(u, T)) : InOrder(u, T)[j] = u[i]
          OBVIOUS
        <4>1. CASE i = k + 1
          BY <2>2, <2>5, <3>1, <4>1
        <4>2. CASE i # k + 1
          <5>1. i \in 1..k
            BY <4>2
          <5>2. PICK j \in 1..Len(a) : a[j] = u[i]
            BY <2>2, <2>6, <5>1
          <5>3. j \in 1..Len(InOrder(u, T)) /\ InOrder(u, T)[j] = u[i]
            BY <2>5, <3>1, <5>2
          <5> QED
            BY <5>3
        <4> QED
          BY <4>1, <4>2
      <3> QED
        BY <3>1, <3>2 DEF Good
    <2>8. CASE x \notin T
      <3>1. InOrder(u, T) = a
        BY <2>4, <2>8
      <3>2. \A i \in 1..Len(u) : u[i] \in T => i \in 1..k
        BY <2>2, <2>8
      <3> QED
        BY <2>2, <2>5, <2>6, <3>1, <3>2 DEF Good
    <2> QED
      BY <2>7, <2>8
  <1>3. Nat \subseteq A
    <2> HIDE DEF A
    <2> QED
      BY <1>1, <1>2, Induction
  <1>4. Len(s) \in Nat
    OBVIOUS
  <1>5. Good(s)
    <2> HIDE DEF Good
    <2> QED
      BY <1>3, <1>4
  <1> QED
    BY <1>5

===============================================================================
