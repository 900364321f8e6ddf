\* The maximum fee of every budget.
SPECIFICATION Spec
CONSTANTS
  Transactions <- MCTransactions
  None = None
  WordLimit = 40
  SignatureFee = 2
  UnitsPerInstruction = 2
  UnitsPerTransaction = 5
  MicroLamports = 2
  Rent = 3
INVARIANTS
  FeeIsExact
  RefusedOnlyForOverflow
\* A fee is computed once.
CHECK_DEADLOCK FALSE
