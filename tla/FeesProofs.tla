------------------------------ MODULE FeesProofs ------------------------------
(***************************************************************************)
(* The fee that is printed is exact and has not wrapped, for every word    *)
(* size, every transaction and every value of the constants of the fee     *)
(* that leave room for the rent.                                           *)
(***************************************************************************)
EXTENDS Fees, CommonLemmas

\* What the phases after the budget know of the fee.
FeeKnown ==
  /\ phase = "pattern" =>
       fee = IF limit = None /\ price = None THEN 0
             ELSE SignatureFee * transaction.signatures
                    + (IF price = None THEN 0
                       ELSE (price * UnitsFor(transaction, limit)) \div MicroLamports)
  /\ phase = "printed" => fee = ExactFee(transaction, position, limit, price)

\* Before the rent is added, there is room for it.
Room ==
  phase = "pattern" => fee + Rent < WordLimit

BudgetTaken ==
  /\ \A k \in 1..position : transaction.infos[k].kind \in BudgetKinds
  /\ Len(transaction.infos) <= 1 => position = 0
  /\ phase # "budget" => IsBudget(transaction, position)
  /\ IsLast(transaction, "UnitLimit", position, limit)
  /\ IsLast(transaction, "UnitPrice", position, price)

IInv == TypeOK /\ BudgetTaken /\ FeeKnown /\ Room /\ RefusedOnlyForOverflow

-------------------------------------------------------------------------------
(* The steps. *)

LEMMA InitIInv == Init => IInv
  BY FeesAssumption DEF Init, IInv, TypeOK, BudgetTaken, FeeKnown, Room, IsLast,
    RefusedOnlyForOverflow

LEMMA TransactionFacts ==
  ASSUME TypeOK
  PROVE  /\ transaction.infos \in Seq(Infos)
         /\ Len(transaction.infos) \in Nat
         /\ transaction.signatures \in Nat
         /\ SignatureFee * transaction.signatures \in Nat
         /\ Len(transaction.infos) * UnitsPerInstruction \in Nat
         /\ SignatureFee * transaction.signatures + Rent
              < WordLimit - (WordLimit - 1) \div MicroLamports
  <1>1. transaction.signatures \in Nat /\ transaction.infos \in Seq(Infos)
    BY FeesAssumption DEF TypeOK
  <1>2. Len(transaction.infos) \in Nat
    BY <1>1
  <1>3. SignatureFee \in Nat /\ UnitsPerInstruction \in Nat
    BY FeesAssumption
  <1>4. SignatureFee * transaction.signatures \in Nat
    BY <1>1, <1>3, SMT
  <1>5. Len(transaction.infos) * UnitsPerInstruction \in Nat
    BY <1>2, <1>3, SMT
  <1> QED
    BY <1>1, <1>2, <1>4, <1>5, FeesAssumption DEF TypeOK

\* A limit or a price is that of the last instruction of its kind so far.
LEMMA LastExtends ==
  ASSUME NEW t, NEW kind, NEW n \in Nat, NEW value, IsLast(t, kind, n, value)
  PROVE  IsLast(t, kind, n + 1,
                IF t.infos[n + 1].kind = kind THEN t.infos[n + 1].units ELSE value)
  <1>1. CASE t.infos[n + 1].kind = kind
    BY <1>1 DEF IsLast
  <1>2. CASE t.infos[n + 1].kind # kind
    <2>1. CASE \A k \in 1..n : t.infos[k].kind # kind
      <3>1. \A k \in 1..(n + 1) : t.infos[k].kind # kind
        BY <1>2, <2>1
      <3> QED
        BY <1>2, <2>1, <3>1 DEF IsLast
    <2>2. CASE ~ \A k \in 1..n : t.infos[k].kind # kind
      <3>1. PICK k \in 1..n : /\ t.infos[k].kind = kind
                              /\ value = t.infos[k].units
                              /\ \A j \in (k + 1)..n : t.infos[j].kind # kind
        BY <2>2 DEF IsLast
      <3>2. k \in 1..(n + 1) /\ \A j \in (k + 1)..(n + 1) : t.infos[j].kind # kind
        BY <1>2, <3>1
      <3> QED
        BY <1>2, <3>1, <3>2 DEF IsLast
    <2> QED BY <2>1, <2>2
  <1> QED BY <1>1, <1>2

LEMMA TakeBudgetIInv ==
  ASSUME IInv, TakeBudget
  PROVE  IInv'
  <1> DEFINE i == transaction.infos[position + 1]
  <1>1. /\ position \in Nat /\ position + 1 \in 1..Len(transaction.infos)
        /\ Len(transaction.infos) > 1
        /\ i \in Infos /\ i.kind \in BudgetKinds
    BY TransactionFacts DEF IInv, TypeOK, TakeBudget, InBudget
  <1>2. i.units \in 0..(WordLimit - 1)
    BY <1>1 DEF Infos
  <1>3. /\ limit' = IF i.kind = "UnitLimit" THEN i.units ELSE limit
        /\ price' = IF i.kind = "UnitPrice" THEN i.units ELSE price
        /\ position' = position + 1
        /\ phase = "budget"
        /\ UNCHANGED <<transaction, fee, phase>>
    BY DEF TakeBudget
  <1>4. TypeOK'
    BY <1>1, <1>2, <1>3 DEF IInv, TypeOK
  <1>5. IsLast(transaction, "UnitLimit", position', limit')
    BY <1>1, <1>3, LastExtends DEF IInv, BudgetTaken
  <1>6. IsLast(transaction, "UnitPrice", position', price')
    BY <1>1, <1>3, LastExtends DEF IInv, BudgetTaken
  <1>7. \A k \in 1..position' : transaction.infos[k].kind \in BudgetKinds
    BY <1>1, <1>3 DEF IInv, BudgetTaken
  <1>8. BudgetTaken'
    BY <1>1, <1>3, <1>5, <1>6, <1>7 DEF BudgetTaken
  <1> QED
    BY <1>3, <1>4, <1>8 DEF IInv, FeeKnown, Room, RefusedOnlyForOverflow

\* After the loop, position is the end of the budget.
LEMMA BudgetEnds ==
  ASSUME IInv, phase = "budget", ~ InBudget
  PROVE  IsBudget(transaction, position)
  BY TransactionFacts DEF IInv, TypeOK, BudgetTaken, InBudget, IsBudget

LEMMA MaxComputeFacts ==
  ASSUME TypeOK
  PROVE  MaxCompute \in Nat /\ MaxCompute = UnitsFor(transaction, limit)
  <1>1. Len(transaction.infos) * UnitsPerInstruction \in Nat
    BY TransactionFacts
  <1>2. limit # None => limit \in Nat
    BY FeesAssumption DEF TypeOK
  <1> QED
    BY <1>1, <1>2, FeesAssumption DEF MaxCompute, UnitsFor

\* Neither factor of the signatures nor of the compute fee wraps.
LEMMA ComputedExactly ==
  ASSUME TypeOK, ~ ComputeOverflows
  PROVE  /\ ComputeFee = (IF price = None THEN 0
                          ELSE (price * UnitsFor(transaction, limit)) \div MicroLamports)
         /\ ComputeFee \in 0..((WordLimit - 1) \div MicroLamports)
         /\ BaseFee = SignatureFee * transaction.signatures
  <1> DEFINE m == MaxCompute
             q == (WordLimit - 1) \div MicroLamports
             base == SignatureFee * transaction.signatures
  <1>1. m \in Nat /\ m = UnitsFor(transaction, limit)
    BY MaxComputeFacts
  <1>2. WordLimit \in Nat \ {0} /\ MicroLamports \in Nat \ {0} /\ Rent \in Nat
    BY FeesAssumption
  <1>3. q \in Nat /\ q <= WordLimit - 1
    BY <1>2, QuotientBound, SMT
  <1>4. base \in 0..(WordLimit - 1)
    <2>1. base \in Nat /\ base + Rent < WordLimit - q
      BY TransactionFacts
    <2> QED
      BY <1>2, <1>3, <2>1, SMT
  <1>5. BaseFee = base
    BY <1>2, <1>4, SMT DEF BaseFee
  <1>6. CASE price = None
    BY <1>3, <1>5, <1>6 DEF ComputeFee
  <1>7. CASE price # None
    <2>1. price \in Nat
      BY <1>7, <1>2 DEF TypeOK
    <2>2. price * m \in 0..(WordLimit - 1)
      <3>1. CASE m = 0
        BY <1>2, <2>1, <3>1, SMT
      <3>2. CASE m # 0
        <4>1. price <= (WordLimit - 1) \div m
          <5>1. ~ (price > (WordLimit - 1) \div m)
            BY <1>7, <3>2 DEF ComputeOverflows
          <5>2. (WordLimit - 1) \div m \in Nat
            BY <1>1, <1>2, <3>2, SMT
          <5> QED
            BY <2>1, <5>1, <5>2, SMT
        <4>2. price * m < WordLimit
          BY <1>1, <1>2, <2>1, <3>2, <4>1, CheckedProduct
        <4>3. price * m \in Nat
          BY <1>1, <2>1, SMT
        <4> QED
          BY <1>2, <4>2, <4>3, SMT
      <3> QED BY <3>1, <3>2
    <2>3. (price * m) % WordLimit = price * m
      BY <1>2, <2>2, SMT
    <2>4. ComputeFee = (price * m) \div MicroLamports
      BY <1>7, <2>3 DEF ComputeFee
    <2>5. (price * m) \div MicroLamports \in 0..q
      BY <1>2, <1>3, <2>2, QuotientBound, SMT
    <2> QED
      BY <1>1, <1>5, <1>7, <2>4, <2>5
  <1> QED BY <1>6, <1>7

LEMMA RefuseIInv ==
  ASSUME IInv, Refuse
  PROVE  IInv'
  <1> DEFINE m == MaxCompute
  <1>1. IsBudget(transaction, position)
    BY BudgetEnds DEF Refuse
  <1>2. TypeOK
    BY DEF IInv
  <1>3. m \in Nat /\ m = UnitsFor(transaction, limit)
    BY <1>2, MaxComputeFacts
  <1>4. ComputeOverflows
    <2>1. SUFFICES ASSUME ~ ComputeOverflows PROVE FALSE
      OBVIOUS
    <2>2. /\ ComputeFee \in 0..((WordLimit - 1) \div MicroLamports)
          /\ BaseFee = SignatureFee * transaction.signatures
      BY <1>2, <2>1, ComputedExactly
    <2>3. /\ SignatureFee * transaction.signatures \in Nat
          /\ SignatureFee * transaction.signatures + Rent
               < WordLimit - (WordLimit - 1) \div MicroLamports
      BY <1>2, TransactionFacts
    <2>4. BaseFee > WordLimit - 1 - ComputeFee
      BY <2>1 DEF Refuse
    <2>5. /\ WordLimit \in Nat /\ Rent \in Nat
          /\ (WordLimit - 1) \div MicroLamports \in Nat
      BY FeesAssumption, QuotientBound, SMT
    <2> QED
      BY <2>2, <2>3, <2>4, <2>5, SMT
  <1>5. price # None /\ price \in Nat /\ m # 0 /\ price > (WordLimit - 1) \div m
    BY <1>2, <1>4, FeesAssumption DEF ComputeOverflows, TypeOK
  <1>6. price * m >= WordLimit
    BY <1>3, <1>5, UncheckedProduct, FeesAssumption
  <1>7. /\ phase' = "refused" /\ phase = "budget"
        /\ UNCHANGED <<transaction, position, limit, price, fee>>
    BY DEF Refuse
  <1>8. RefusedOnlyForOverflow'
    BY <1>3, <1>5, <1>6, <1>7 DEF RefusedOnlyForOverflow, UnitsFor
  <1> QED
    BY <1>1, <1>7, <1>8 DEF IInv, TypeOK, BudgetTaken, FeeKnown, Room

LEMMA CalculateIInv ==
  ASSUME IInv, Calculate
  PROVE  IInv'
  <1> DEFINE q == (WordLimit - 1) \div MicroLamports
  <1>1. /\ phase = "budget" /\ phase' = "pattern"
        /\ UNCHANGED <<transaction, position, limit, price>>
        /\ fee' = IF HasBudget THEN (BaseFee + ComputeFee) % WordLimit ELSE 0
    BY DEF Calculate
  <1>2. IsBudget(transaction, position)
    BY BudgetEnds DEF Calculate
  <1>3. TypeOK
    BY DEF IInv
  <1>4. WordLimit \in Nat \ {0} /\ MicroLamports \in Nat \ {0} /\ Rent \in Nat
    BY FeesAssumption
  <1>5. q \in Nat /\ q <= WordLimit - 1
    BY <1>4, QuotientBound, SMT
  <1>6. SignatureFee * transaction.signatures \in Nat
        /\ SignatureFee * transaction.signatures + Rent < WordLimit - q
    BY <1>3, TransactionFacts
  <1>7. CASE HasBudget
    <2>1. ~ ComputeOverflows
      BY <1>7 DEF Calculate
    <2>2. /\ ComputeFee = (IF price = None THEN 0
                           ELSE (price * UnitsFor(transaction, limit)) \div MicroLamports)
          /\ ComputeFee \in 0..q
          /\ BaseFee = SignatureFee * transaction.signatures
      BY <1>3, <2>1, ComputedExactly
    <2>3. /\ BaseFee + ComputeFee + Rent < WordLimit
          /\ BaseFee + ComputeFee \in 0..(WordLimit - 1)
      BY <1>4, <1>5, <1>6, <2>2, SMT
    <2>4. fee' = BaseFee + ComputeFee
      <3>1. fee' = (BaseFee + ComputeFee) % WordLimit
        BY <1>1, <1>7, Zenon
      <3> QED
        BY <1>4, <2>3, <3>1, SmallRemainder
    <2>5. TypeOK'
      BY <1>1, <1>3, <2>3, <2>4 DEF TypeOK
    <2>6. FeeKnown'
      BY <1>1, <1>7, <2>2, <2>4 DEF FeeKnown, HasBudget, UnitsFor
    <2>7. Room'
      BY <1>1, <2>3, <2>4 DEF Room
    <2> QED
      BY <1>1, <1>2, <2>5, <2>6, <2>7 DEF IInv, BudgetTaken, RefusedOnlyForOverflow
  <1>8. CASE ~ HasBudget
    <2>1. fee' = 0 /\ limit = None /\ price = None
      BY <1>1, <1>8 DEF HasBudget
    <2>2. Rent < WordLimit
      BY <1>4, <1>5, <1>6, SMT
    <2>3. TypeOK'
      BY <1>1, <1>3, <1>4, <2>1 DEF TypeOK
    <2>4. FeeKnown' /\ Room'
      BY <1>1, <1>4, <2>1, <2>2 DEF FeeKnown, Room
    <2> QED
      BY <1>1, <1>2, <2>3, <2>4 DEF IInv, BudgetTaken, RefusedOnlyForOverflow
  <1> QED BY <1>7, <1>8

LEMMA PrintFeeIInv ==
  ASSUME IInv, PrintFee
  PROVE  IInv'
  <1>1. /\ phase = "pattern" /\ phase' \in {"printed", "refused"}
        /\ UNCHANGED <<transaction, position, limit, price>>
        /\ fee' = IF CreatesTokenAccount THEN (fee + Rent) % WordLimit ELSE fee
    BY DEF PrintFee
  <1>2. /\ WordLimit \in Nat \ {0} /\ Rent \in Nat
        /\ fee \in 0..(WordLimit - 1) /\ fee + Rent < WordLimit
    BY <1>1, FeesAssumption DEF IInv, TypeOK, Room
  <1>3. (fee + Rent) % WordLimit = fee + Rent
    BY <1>2, SMT
  <1>4. fee' = fee + (IF CreatesTokenAccount THEN Rent ELSE 0)
    BY <1>1, <1>2, <1>3
  <1>5. fee' \in 0..(WordLimit - 1)
    BY <1>2, <1>4
  <1>6. TypeOK'
    BY <1>1, <1>5 DEF IInv, TypeOK
  <1>7. fee' = ExactFee(transaction, position, limit, price)
    BY <1>1, <1>4 DEF IInv, FeeKnown, ExactFee, CreatesTokenAccount
  <1>8. FeeKnown' /\ Room'
    BY <1>1, <1>7 DEF FeeKnown, Room
  <1>9. RefusedOnlyForOverflow'
    BY <1>1 DEF PrintFee, RefusedOnlyForOverflow
  <1> QED
    BY <1>1, <1>6, <1>8, <1>9 DEF IInv, BudgetTaken

LEMMA NextIInv == IInv /\ [Next]_vars => IInv'
  <1> SUFFICES ASSUME IInv, [Next]_vars PROVE IInv'
    OBVIOUS
  <1>1. CASE TakeBudget
    BY <1>1, TakeBudgetIInv
  <1>2. CASE Refuse
    BY <1>2, RefuseIInv
  <1>3. CASE Calculate
    BY <1>3, CalculateIInv
  <1>4. CASE PrintFee
    BY <1>4, PrintFeeIInv
  <1>5. CASE UNCHANGED vars
    BY <1>5 DEF vars, IInv, TypeOK, BudgetTaken, FeeKnown, Room,
                RefusedOnlyForOverflow
  <1> QED
    BY <1>1, <1>2, <1>3, <1>4, <1>5 DEF Next

-------------------------------------------------------------------------------

\* The fee on display is the exact one, and no 64 bit product or sum of it has
\* wrapped (calculate_max_fee, print_transaction_nonce_processed).
THEOREM FeeIsAlwaysExact == Spec => []FeeIsExact
  <1>1. IInv => FeeIsExact
    BY DEF IInv, BudgetTaken, FeeKnown, FeeIsExact
  <1> QED
    BY <1>1, InitIInv, NextIInv, PTL DEF Spec

\* A fee that fits into 64 bits is never refused (calculate_max_fee).
THEOREM RefusalIsOverflow == Spec => []RefusedOnlyForOverflow
  <1>1. IInv => RefusedOnlyForOverflow
    BY DEF IInv
  <1> QED
    BY <1>1, InitIInv, NextIInv, PTL DEF Spec

===============================================================================
