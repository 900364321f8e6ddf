-------------------------------- MODULE MCFees --------------------------------
(***************************************************************************)
(* Every transaction of up to four instructions, with units at the limits  *)
(* of a small word.                                                        *)
(***************************************************************************)
EXTENDS Fees, SequencesExt

Info(kind, units) == [kind |-> kind, units |-> units]
Units == {0, 1, 7, WordLimit - 1}
MCInfos ==
  {Info(kind, units) : kind \in {"UnitLimit", "UnitPrice"}, units \in Units}
    \union {Info(kind, 0) : kind \in {"OtherComputeBudget", "CreateTokenAccount",
                                      "TransferChecked", "Other"}}
MCTransactions ==
  [infos : SeqOf(MCInfos, 4) \ {<<>>}, signatures : {1, 2}]

===============================================================================
