------------------------- MODULE MCTransactionReview --------------------------
(***************************************************************************)
(* The messages TLC reviews: every kind of instruction with every trait,   *)
(* every pattern and every pair of kinds, behind nonces, compute budgets   *)
(* and ignored instructions.                                               *)
(***************************************************************************)
EXTENDS TransactionReview

Authorized ==
  (SystemKinds \ {"SystemInitializeNonceAccount", "SystemAssign",
                  "SystemAllocate", "SystemAllocateWithSeed"})
    \union (StakeKinds \ {"StakeInitialize", "StakeInitializeChecked"})
    \union (VoteKinds \ {"VoteInitialize"})
Owned ==
  SplTokenKinds \ {"SplInitializeMint", "SplInitializeAccount",
                   "SplInitializeAccount2", "SplInitializeMultisig",
                   "SplSyncNative"}

If(condition, traits) == IF condition THEN traits ELSE {}

\* The traits the parser can give an instruction of a kind.
Traits(kind) ==
  If(kind \in Authorized \union Owned, {"otherAuthority"})
    \union If(kind \in Owned, {"multisig"})
    \union If(kind \in CreateKinds, {"unknownOwner", "lamports"})
    \union If(kind \in {"StakeInitialize", "StakeInitializeChecked"},
              {"twoAuthorities"})
    \union If(kind \in {"StakeInitialize", "StakeSetLockup",
                        "StakeSetLockupChecked"},
              {"lockupTime", "lockupEpoch", "unprintable"})
    \union If(kind \in {"StakeSetLockup", "StakeSetLockupChecked",
                        "StakeAuthorize", "StakeAuthorizeChecked"}, {"custodian"})
    \union If(kind \in {"StakeAuthorize", "StakeAuthorizeChecked"},
              {"otherCustodian"})
    \union If(kind \in {"StakeAuthorize", "StakeAuthorizeChecked",
                        "VoteAuthorize", "VoteAuthorizeChecked"}, {"withdrawer"})
    \union If(kind \in {"StakeAuthorizeChecked", "VoteAuthorizeChecked"},
              {"sameAuthority"})
    \union If(kind \in {"SplTransferChecked", "SplTransferCheckedWithFee",
                        "SplApproveChecked", "SplMintToChecked",
                        "SplBurnChecked", "AgencCreateTask"}, {"unprintable"})
    \union If(kind \in {"SplTransferChecked", "SplTransferCheckedWithFee"},
              {"unknownMint"})
    \union If(kind = "SplTransferCheckedWithFee", {"fee"})
    \union If(kind = "SplInitializeMint", {"freeze"})
    \union If(kind = "SplInitializeMultisig", {"tooManyRequired"})
    \union If(kind = "SplSetAuthority", {"clear"})
    \union If(kind = "AgencCreateTask", {"reward_mint", "task_type"})
    \union If(kind = "AgencRegisterAgent", {"metadata_uri"})
    \union If(kind = "AgencConfigureTaskValidation",
              {"attestor", "otherTask", "otherMode"})
    \union If(kind = "UnitPrice", {"overflow"})

I(kind, traits) == [kind |-> kind, has |-> traits, at |-> 1]
Plain(kind) == I(kind, {})

\* The positions are those in the whole message.
At(is) == [n \in DOMAIN is |-> [is[n] EXCEPT !.at = n]]

Config(expert, blind) ==
  [expert |-> expert, full |-> FALSE, ata |-> FALSE, blind |-> blind, has |-> {}]
OtherFeePayer(c) == [c EXCEPT !.has = {"otherFeePayer"}]
DashboardConfigs == {Config(TRUE, TRUE), Config(FALSE, TRUE), Config(FALSE, FALSE)}
BlindConfigs == {Config(TRUE, TRUE), Config(FALSE, TRUE)}
SwapConfigs ==
  {[full |-> TRUE, expert |-> expert, ata |-> ata, blind |-> FALSE, has |-> {}]
     : expert, ata \in BOOLEAN}
AtaConfigs ==
  {[full |-> FALSE, expert |-> expert, ata |-> TRUE, blind |-> TRUE, has |-> {}]
     : expert \in BOOLEAN}

Messages1(bodies, configs) ==
  {[instructions |-> At(is), config |-> c] : is \in bodies, c \in configs}

-------------------------------------------------------------------------------
(* Bodies. *)

Singles == UNION {{<<I(k, t)>> : t \in SUBSET Traits(k)} : k \in Kinds}
PairedKinds ==
  CreateKinds
    \union {"SystemTransfer", "SystemAllocate", "SystemAssign",
            "SystemAdvanceNonceAccount", "StakeInitialize", "StakeSplit",
            "StakeDelegate", "StakeAuthorize", "VoteAuthorize", "VoteInitialize",
            "SplInitializeMint", "SplTransferChecked", "AgencCreateTask",
            "SplAssociatedTokenAccount", "UnitLimit", "SplMemo", "Unknown"}
Pairs == {<<Plain(k), Plain(l)>> : k, l \in PairedKinds}

\* None or all of the traits, one of two that exclude each other.
Extremes(kind) ==
  {{}, Traits(kind) \ {"multisig", "clear", "tooManyRequired", "withdrawer",
                       "attestor", "otherTask", "otherMode"}}
Two(k, l) == {<<I(k, s), I(l, t)>> : s \in Extremes(k), t \in Extremes(l)}
Three(k, l, m) == {is \o <<I(m, t)>> : is \in Two(k, l), t \in Extremes(m)}

AuthorizeBoth ==
  UNION {{<<I(k, s), I(k, t)>> :
            s \in {{}, {"withdrawer"}}, t \in SUBSET Traits(k)} :
           k \in {"StakeAuthorize", "StakeAuthorizeChecked", "VoteAuthorize",
                  "VoteAuthorizeChecked"}}
CreateTasks ==
  {<<I("AgencCreateTask", s), I("AgencConfigureTaskValidation", t)>> :
     s \in SUBSET Traits("AgencCreateTask"),
     t \in SUBSET Traits("AgencConfigureTaskValidation")}
Patterns ==
  UNION {Two(k, l) : k \in CreateKinds,
                     l \in {"StakeInitialize", "StakeInitializeChecked",
                            "SystemInitializeNonceAccount", "VoteInitialize",
                            "StakeSplit"}}
    \union UNION {Two("SystemCreateAccount", l) :
                    l \in {"SplInitializeMint", "SplInitializeAccount",
                           "SplInitializeAccount2", "SplInitializeMultisig"}}
    \union UNION {Three(k, "StakeInitialize", "StakeDelegate") : k \in CreateKinds}
    \union Three("SystemAllocate", "SystemAssign", "StakeSplit")
    \union Two("SystemAllocateWithSeed", "StakeSplit")
    \union Three("SystemTransfer", "SystemAllocateWithSeed", "StakeSplit")
    \union {<<I("SystemTransfer", t)>> \o is :
              t \in Extremes("SystemTransfer"),
              is \in Three("SystemAllocate", "SystemAssign", "StakeSplit")}
    \union AuthorizeBoth \union CreateTasks
TokenTransfers ==
  {<<I("SplTransferChecked", t)>> : t \in SUBSET Traits("SplTransferChecked")}
    \union UNION {Two("SplAssociatedTokenAccount", l) :
                    l \in {"SplTransferChecked", "SplTransferCheckedWithFee"}}
    \union {<<I("SystemTransfer", {"otherAuthority"})>>, <<Plain("StakeMerge")>>}

\* Too long, and not patterns though their first instructions are.
Others ==
  {<<Plain("SystemCreateAccount"), Plain("StakeInitialize"), Plain("StakeMerge")>>,
   <<Plain("SystemTransfer"), Plain("SystemAllocate"), Plain("SystemAssign"),
     Plain("StakeMerge")>>,
   [n \in 1..6 |-> Plain("SplMemo")],
   [n \in 1..7 |-> Plain(IF n = 1 THEN "SystemTransfer" ELSE "SplMemo")]}

\* What may come before and after a pattern.
Nonce == <<I("SystemAdvanceNonceAccount", {"otherAuthority"})>>
Limit == <<Plain("UnitLimit")>>
Price == <<Plain("UnitPrice")>>
Hidden == <<Plain("HiddenExtension")>>
Wrapped(is) ==
  {is, Nonce \o Limit \o Price \o is, <<Plain("SplMemo")>> \o is,
   Price \o is \o Hidden}
\* What does not depend on the pattern.
WrappedTransfer ==
  LET is == <<Plain("SystemTransfer")>>
  IN {Nonce \o is, is \o Hidden, is \o Limit, Limit \o Nonce \o is,
      <<I("UnitPrice", {"overflow"})>> \o is \o Hidden,
      <<I("UnitPrice", {"overflow"})>> \o Price \o is,
      <<Plain("OtherComputeBudget")>> \o is, is \o <<Plain("Unknown")>>}
Representatives ==
  UNION {{<<I(k, t)>> : t \in Extremes(k)} : k \in Kinds}

MCMessages ==
  Messages1(Singles \union Pairs \union Others \union WrappedTransfer,
            DashboardConfigs)
    \union Messages1(UNION {Wrapped(is) : is \in Patterns \union Representatives},
                     BlindConfigs)
    \union Messages1(UNION {Wrapped(is) : is \in TokenTransfers},
                     SwapConfigs \union AtaConfigs)

\* Messages that follow each other in every order: printed, refused, given up
\* with items in the summary, too long for it, and in a swap.
MCSequenceMessages ==
  Messages1({<<I("SystemTransfer", {"otherAuthority"})>>, <<Plain("StakeMerge")>>,
             Nonce \o <<Plain("StakeDeactivate")>>, <<Plain("Unknown")>>,
             <<Plain("SystemAssign"), Plain("StakeMerge")>> \o Hidden,
             <<I("AgencCreateTask", Traits("AgencCreateTask")),
               Plain("AgencConfigureTaskValidation")>> \o Hidden},
            DashboardConfigs)
    \union Messages1({<<I("SplTransferChecked", Traits("SplTransferChecked"))>>,
                      <<Plain("Unknown")>>}, SwapConfigs)

\* What follows any other message.
Followers ==
  Messages1({<<Plain("SystemTransfer")>>, <<Plain("Unknown")>>},
            {OtherFeePayer(Config(FALSE, TRUE))})
MCAllMessages == MCMessages \union MCSequenceMessages \union Followers

MCItems == [of : SUBSET (1..MAX_INSTRUCTIONS), field : STRING] \ {NoField}

\* The theorems about a review speak of these messages.
ASSUME ReviewedTransactions == PrintsTransactions

MCInSwap(m) == m.config.full
MCBlindSigningAllowed(m) == m.config.blind

NextMessages ==
  IF message = NoMessage THEN MCAllMessages
  ELSE IF message \in MCSequenceMessages THEN MCSequenceMessages
  ELSE Followers

MCNext ==
  \/ \E m \in NextMessages : HandleSignMessage(m)
  \/ Work

MCSpec == Init /\ [][MCNext]_vars

===============================================================================
