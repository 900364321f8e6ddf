--------------------------------- MODULE Fees ---------------------------------
(***************************************************************************)
(* The maximum fee of a transaction: the instructions of the compute       *)
(* budget before all others are set aside (preprocess_compute_budget_...   *)
(* in libsol/transaction_printers.c), the fee is computed from them        *)
(* (libsol/compute_budget_instruction.c), and the rent of a token account  *)
(* is added to it.                                                         *)
(*                                                                         *)
(* A transaction is [infos, signatures]: the instructions registered for   *)
(* display after the nonce, each a kind and, for those of the compute      *)
(* budget, its units; and num_required_signatures.                         *)
(***************************************************************************)
EXTENDS Integers, Sequences

CONSTANTS
  Transactions,
  None,
  WordLimit,            \* the values of uint64_t
  SignatureFee,         \* FEE_LAMPORTS_PER_SIGNATURE
  UnitsPerInstruction,  \* MAX_CU_PER_INSTRUCTION
  UnitsPerTransaction,  \* MAX_CU_PER_TRANSACTION
  MicroLamports,        \* MICRO_LAMPORT_MULTIPLIER
  Rent                  \* of a token account

BudgetKinds == {"UnitLimit", "UnitPrice", "OtherComputeBudget"}
Infos ==
  [kind : BudgetKinds \union {"CreateTokenAccount", "TransferChecked", "Other"},
   units : 0..(WordLimit - 1)]

ASSUME FeesAssumption ==
  /\ None \notin Nat
  /\ WordLimit \in Nat \ {0}
  /\ SignatureFee \in Nat
  /\ UnitsPerInstruction \in Nat
  /\ UnitsPerTransaction \in Nat
  /\ MicroLamports \in Nat \ {0}
  /\ Rent \in Nat
  /\ \A t \in Transactions :
       /\ t.infos \in Seq(Infos)
       /\ t.signatures \in Nat
       \* A message is short: what is counted in it is far below a word.
       /\ SignatureFee * t.signatures + Rent
            < WordLimit - (WordLimit - 1) \div MicroLamports
       /\ Len(t.infos) * UnitsPerInstruction < WordLimit

VARIABLES
  transaction,  \* what is printed
  position,     \* infos points after so many instructions
  limit,        \* change_unit_limit, or None
  price,        \* change_unit_price, or None
  fee,          \* transaction_max_fee
  phase

vars == <<transaction, position, limit, price, fee, phase>>

Init ==
  /\ transaction \in Transactions
  /\ position = 0
  /\ limit = None
  /\ price = None
  /\ fee = 0
  /\ phase = "budget"

\* The loop of preprocess_compute_budget_instructions does something: a
\* transaction of one instruction has no budget.
InBudget ==
  /\ Len(transaction.infos) > 1
  /\ position < Len(transaction.infos)
  /\ transaction.infos[position + 1].kind \in BudgetKinds

\* Mutant: only the first limit counts.
TakeBudgetFirst ==
  /\ phase = "budget"
  /\ InBudget
  /\ LET i == transaction.infos[position + 1]
     IN /\ limit' = IF i.kind = "UnitLimit" /\ limit = None THEN i.units ELSE limit
        /\ price' = IF i.kind = "UnitPrice" THEN i.units ELSE price
  /\ position' = position + 1
  /\ UNCHANGED <<transaction, fee, phase>>

TakeBudget ==
  /\ phase = "budget"
  /\ InBudget
  /\ LET i == transaction.infos[position + 1]
     IN /\ limit' = IF i.kind = "UnitLimit" THEN i.units ELSE limit
        /\ price' = IF i.kind = "UnitPrice" THEN i.units ELSE price
  /\ position' = position + 1
  /\ UNCHANGED <<transaction, fee, phase>>

-------------------------------------------------------------------------------
(* calculate_max_fee. *)

\* The units a transaction may use.
MaxCompute ==
  LET default == Len(transaction.infos) * UnitsPerInstruction
  IN IF limit # None THEN limit
     ELSE IF default < UnitsPerTransaction THEN default ELSE UnitsPerTransaction

\* Mutant: the largest price that fits is refused too.
ComputeOverflowsEarly ==
  /\ price # None
  /\ MaxCompute # 0
  /\ price >= (WordLimit - 1) \div MaxCompute

\* "units > UINT64_MAX / max_compute"
ComputeOverflows ==
  /\ price # None
  /\ MaxCompute # 0
  /\ price > (WordLimit - 1) \div MaxCompute

ComputeFee ==
  IF price = None THEN 0 ELSE ((price * MaxCompute) % WordLimit) \div MicroLamports
BaseFee == (SignatureFee * transaction.signatures) % WordLimit

HasBudget == limit # None \/ price # None

Refuse ==
  /\ phase = "budget"
  /\ ~ InBudget
  /\ HasBudget
  /\ ComputeOverflows \/ BaseFee > WordLimit - 1 - ComputeFee
  /\ phase' = "refused"
  /\ UNCHANGED <<transaction, position, limit, price, fee>>

Calculate ==
  /\ phase = "budget"
  /\ ~ InBudget
  /\ HasBudget => ~ ComputeOverflows /\ BaseFee <= WordLimit - 1 - ComputeFee
  /\ fee' = IF HasBudget THEN (BaseFee + ComputeFee) % WordLimit ELSE 0
  /\ phase' = "pattern"
  /\ UNCHANGED <<transaction, position, limit, price>>

-------------------------------------------------------------------------------

\* The pattern spl_associated_token_account_create_with_transfer.
CreatesTokenAccount ==
  /\ Len(transaction.infos) = position + 2
  /\ transaction.infos[position + 1].kind = "CreateTokenAccount"
  /\ transaction.infos[position + 2].kind = "TransferChecked"

\* What print_transaction_nonce_processed prints after the pattern; nothing is
\* left to print of a transaction of budget alone, and it is refused.
PrintFee ==
  /\ phase = "pattern"
  /\ fee' = IF CreatesTokenAccount THEN (fee + Rent) % WordLimit ELSE fee
  /\ phase' = IF position = Len(transaction.infos) THEN "refused" ELSE "printed"
  /\ UNCHANGED <<transaction, position, limit, price>>

Next == TakeBudget \/ Refuse \/ Calculate \/ PrintFee

Spec == Init /\ [][Next]_vars

-------------------------------------------------------------------------------
(* Properties. *)

TypeOK ==
  /\ transaction \in Transactions
  /\ position \in 0..Len(transaction.infos)
  /\ limit \in (0..(WordLimit - 1)) \union {None}
  /\ price \in (0..(WordLimit - 1)) \union {None}
  /\ fee \in 0..(WordLimit - 1)
  /\ phase \in {"budget", "pattern", "printed", "refused"}

\* The value is that of the last instruction of a kind among the first n.
IsLast(t, kind, n, value) ==
  IF \A k \in 1..n : t.infos[k].kind # kind THEN value = None
  ELSE \E k \in 1..n :
         /\ t.infos[k].kind = kind
         /\ value = t.infos[k].units
         /\ \A j \in (k + 1)..n : t.infos[j].kind # kind

\* The budget ends after n instructions.
IsBudget(t, n) ==
  /\ n \in 0..Len(t.infos)
  /\ \A k \in 1..n : t.infos[k].kind \in BudgetKinds
  /\ Len(t.infos) <= 1 => n = 0
  /\ n < Len(t.infos) /\ Len(t.infos) > 1 => t.infos[n + 1].kind \notin BudgetKinds

\* The units a transaction may use with this limit.
UnitsFor(t, l) ==
  IF l # None THEN l
  ELSE IF Len(t.infos) * UnitsPerInstruction < UnitsPerTransaction
       THEN Len(t.infos) * UnitsPerInstruction ELSE UnitsPerTransaction

\* The exact fee of a transaction with this budget, whatever its size.
ExactFee(t, n, l, p) ==
  (IF l = None /\ p = None THEN 0
   ELSE SignatureFee * t.signatures
          + (IF p = None THEN 0 ELSE (p * UnitsFor(t, l)) \div MicroLamports))
    + (IF /\ Len(t.infos) = n + 2
          /\ t.infos[n + 1].kind = "CreateTokenAccount"
          /\ t.infos[n + 2].kind = "TransferChecked"
       THEN Rent ELSE 0)

\* The fee that is printed is exactly the one the last limit and the last price
\* of the budget allow, with the rent of the account a transfer creates: no
\* product and no sum of 64 bits has wrapped, the unchecked sum with the rent
\* included (calculate_max_fee, print_transaction_nonce_processed).
FeeIsExact ==
  phase = "printed" =>
    /\ IsBudget(transaction, position)
    /\ IsLast(transaction, "UnitLimit", position, limit)
    /\ IsLast(transaction, "UnitPrice", position, price)
    /\ fee = ExactFee(transaction, position, limit, price)

\* A fee is refused only when its product does not fit into 64 bits, or nothing
\* but the budget is there.
RefusedOnlyForOverflow ==
  phase = "refused" =>
    \/ position = Len(transaction.infos)
    \/ price # None /\ price * UnitsFor(transaction, limit) >= WordLimit

===============================================================================
