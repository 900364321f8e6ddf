------------------------------ MODULE Selections ------------------------------
(***************************************************************************)
(* What a loop that passes over some elements collects of a sequence.      *)
(***************************************************************************)
EXTENDS Integers, SequencesExt

\* The elements of s that are in T, in their order.
InOrder(s, T) ==
  FoldLeft(LAMBDA kept, x : IF x \in T THEN Append(kept, x) ELSE kept, <<>>, s)
===============================================================================
