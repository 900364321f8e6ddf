------------------------------- MODULE SafeMath -------------------------------
(***************************************************************************)
(* safe_mul_bps_div10000 (libsol/safe_math.c): the product of an amount    *)
(* and a number of basis points, computed from the two halves of the       *)
(* amount in integers of one word.                                         *)
(***************************************************************************)
EXTENDS Integers

CONSTANTS
  Half,      \* the values of half a word, 2^32
  BpsLimit,  \* the numbers of basis points are below it, 2^16
  Whole      \* as many basis points as there are in the whole, 10000

ASSUME SafeMathAssumption ==
  /\ Half \in Nat \ {0}
  /\ BpsLimit \in Nat \ {0}
  /\ Whole \in Nat \ {0}
  \* The products fit into a word.
  /\ BpsLimit + Whole <= Half

WordSize == Half * Half
Words == 0..(WordSize - 1)
BasisPoints == 0..(BpsLimit - 1)

\* Mutant: the remainder of the upper half is dropped.
ScaleDropsRemainder(a, b) ==
  LET low == ((a % Half) * b) % WordSize
      high == ((a \div Half) * b) % WordSize
      upper == ((high \div Whole) * Half) % WordSize
      lower == low \div Whole
  IN IF high \div Whole >= Half \/ lower > WordSize - 1 - upper
     THEN [ok |-> FALSE, value |-> 0]
     ELSE [ok |-> TRUE, value |-> (upper + lower) % WordSize]

\* Mutant: the quotient is rounded to the nearest.
ScaleToNearest(a, b) ==
  LET low == ((a % Half) * b) % WordSize
      high == ((a \div Half) * b) % WordSize
      upper == ((high \div Whole) * Half) % WordSize
      rest == ((((high % Whole) * Half) % WordSize) + low) % WordSize
      lower == ((rest + (Whole \div 2)) % WordSize) \div Whole
  IN IF high \div Whole >= Half \/ lower > WordSize - 1 - upper
     THEN [ok |-> FALSE, value |-> 0]
     ELSE [ok |-> TRUE, value |-> (upper + lower) % WordSize]

Scale(a, b) ==
  LET low == ((a % Half) * b) % WordSize
      high == ((a \div Half) * b) % WordSize
      upper == ((high \div Whole) * Half) % WordSize
      lower == (((((high % Whole) * Half) % WordSize) + low) % WordSize) \div Whole
  IN IF high \div Whole >= Half \/ lower > WordSize - 1 - upper
     THEN [ok |-> FALSE, value |-> 0]
     ELSE [ok |-> TRUE, value |-> (upper + lower) % WordSize]

===============================================================================
