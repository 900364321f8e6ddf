------------------------- MODULE TransactionPrinters --------------------------
(***************************************************************************)
(* What process_message_body (libsol/message.c) asks of the transaction    *)
(* summary for a whole message: which instructions it registers for        *)
(* display, how print_transaction (libsol/transaction_printers.c)          *)
(* recognises patterns of them, and when it gives up.                      *)
(*                                                                         *)
(* A message is [instructions, config]: the sequence of what the parsers   *)
(* made of its instructions, and the PrintConfig.  An instruction no       *)
(* parser accepted has the kind "Unknown", and so has one that makes the   *)
(* parser of the body stop.                                                *)
(***************************************************************************)
EXTENDS TokenPrinters, Selections

MAX_INSTRUCTIONS == 6

SystemKinds ==
  {"SystemTransfer", "SystemAdvanceNonceAccount", "SystemCreateAccount",
   "SystemCreateAccountWithSeed", "SystemInitializeNonceAccount",
   "SystemWithdrawNonceAccount", "SystemAuthorizeNonceAccount", "SystemAssign",
   "SystemAllocate", "SystemAllocateWithSeed"}
StakeKinds ==
  {"StakeDelegate", "StakeInitialize", "StakeInitializeChecked",
   "StakeWithdraw", "StakeAuthorize", "StakeAuthorizeChecked",
   "StakeDeactivate", "StakeSetLockup", "StakeSetLockupChecked", "StakeSplit",
   "StakeMerge"}
VoteKinds ==
  {"VoteInitialize", "VoteWithdraw", "VoteAuthorize", "VoteAuthorizeChecked",
   "VoteUpdateValidatorId", "VoteUpdateCommission"}
SplTokenKinds ==
  {"SplInitializeMint", "SplInitializeAccount", "SplInitializeAccount2",
   "SplInitializeMultisig", "SplRevoke", "SplSetAuthority", "SplCloseAccount",
   "SplFreezeAccount", "SplThawAccount", "SplTransferChecked",
   "SplTransferCheckedWithFee", "SplApproveChecked", "SplMintToChecked",
   "SplBurnChecked", "SplSyncNative"}
AgencKinds ==
  {"AgencRegisterAgent", "AgencCreateTask", "AgencConfigureTaskValidation",
   "AgencSetTaskJobSpec", "AgencClaimTaskWithJobSpec", "AgencSubmitTaskResult",
   "AgencAcceptTaskResult", "AgencRejectTaskResult", "AgencCancelTask",
   "AgencExpireClaim"}
\* The limit and the price of compute units, and the other two.
ComputeBudgetKinds == {"UnitLimit", "UnitPrice", "OtherComputeBudget"}
\* Accepted and not registered for display.  A hidden extension is one of
\* those parse_spl_token_instructions wants the user to be warned of.
IgnoredKinds ==
  {"SerumAssertOwner", "SplMemo", "IgnoredExtension", "HiddenExtension"}
Kinds ==
  SystemKinds \union StakeKinds \union VoteKinds \union SplTokenKinds
    \union AgencKinds \union ComputeBudgetKinds \union IgnoredKinds
    \union {"SplAssociatedTokenAccount", "Unknown"}

KindsOf(is) == [n \in DOMAIN is |-> is[n].kind]

-------------------------------------------------------------------------------
(* One instruction. *)

PrintInfo(i, c) ==
  CASE i.kind \in SystemKinds -> SystemInfo(i, c)
    [] i.kind \in StakeKinds -> StakeInfo(i, c)
    [] i.kind \in VoteKinds -> VoteInfo(i, c)
    [] i.kind \in SplTokenKinds -> SplTokenInfo(i, c)
    [] i.kind = "SplAssociatedTokenAccount" -> CreateTokenAccount(i)
    [] i.kind \in AgencKinds -> AgencInfo(i)
    [] OTHER -> Bail

-------------------------------------------------------------------------------
(* Patterns of instructions. *)

CreateKinds == {"SystemCreateAccount", "SystemCreateAccountWithSeed"}

\* Mutant: only two instructions are compared.
IsCreateStakeFirstTwo(ks) ==
  /\ Len(ks) \in {2, 3}
  /\ ks[1] \in CreateKinds
  /\ ks[2] \in {"StakeInitialize", "StakeInitializeChecked"}

\* create_stake_account_brief, ..._with_seed_and_delegate_brief
IsCreateStake(ks) ==
  /\ Len(ks) \in {2, 3}
  /\ ks[1] \in CreateKinds
  /\ IF Len(ks) = 2
     THEN ks[2] \in {"StakeInitialize", "StakeInitializeChecked"}
     ELSE ks[2] = "StakeInitialize" /\ ks[3] = "StakeDelegate"

\* Mutant: the primary item is left to the printers of the instructions.
PrintCreateStakeUntitled(is, c) ==
  CreateAccount(is[1], c, FALSE) \o StakeInitialize(is[2], c)
    \o When(Len(is) = 3, DelegateStake(is[3], c))

PrintCreateStake(is, c) ==
  Primary(is[1], "to") \o CreateAccount(is[1], c, FALSE)
    \o StakeInitialize(is[2], c)
    \o When(Len(is) = 3, DelegateStake(is[3], c))

\* create_nonce_account_brief, create_vote_account_brief, with and without seed
IsCreateOther(ks) ==
  /\ Len(ks) = 2
  /\ ks[1] \in CreateKinds
  /\ ks[2] \in {"SystemInitializeNonceAccount", "VoteInitialize"}

PrintCreateOther(is, c) ==
  Primary(is[1], "to") \o CreateAccount(is[1], c, FALSE)
    \o IF is[2].kind = "VoteInitialize" THEN VoteInitialize(is[2])
                                        ELSE InitializeNonce(is[2])

\* stake_authorize_both_brief, vote_authorize_both_brief and the checked ones
IsAuthorizeBoth(ks) ==
  /\ Len(ks) = 2
  /\ ks[1] = ks[2]
  /\ ks[1] \in {"StakeAuthorize", "StakeAuthorizeChecked",
                "VoteAuthorize", "VoteAuthorizeChecked"}

\* The new authorities are compared as pointers: they are the same only when
\* both are one account of the header.
PrintAuthorizeBoth(is, c) ==
  LET second == is[2] IN
  IF "withdrawer" \in is[1].has \/ "withdrawer" \notin second.has THEN Bail
  ELSE Primary(is[1], "account")
         \o (IF "sameAuthority" \in second.has
             THEN <<Request("general", Item({is[1], second}, "new_authority"), FALSE)>>
             ELSE General(is[1], "new_authority") \o General(second, "new_authority"))
         \o When("custodian" \in second.has, General(second, "custodian"))
         \o Authority(second, c)

\* stake_split_brief_v1_1, ..._v1_2, ..._v1_3 and those with a seed
IsStakeSplit(ks) ==
  ks \in {<<"SystemAllocate", "SystemAssign", "StakeSplit">>,
          <<"SystemCreateAccount", "StakeSplit">>,
          <<"SystemTransfer", "SystemAllocate", "SystemAssign", "StakeSplit">>}
IsStakeSplitWithSeed(ks) ==
  ks \in {<<"SystemAllocateWithSeed", "StakeSplit">>,
          <<"SystemCreateAccountWithSeed", "StakeSplit">>,
          <<"SystemTransfer", "SystemAllocateWithSeed", "StakeSplit">>}

Prefund(is, c) ==
  When(is[1].kind = "SystemTransfer", SystemPrefundForSplit(is[1], c))
PrintStakeSplit(is, c) == Prefund(is, c) \o StakeSplit(Last(is), c)
PrintStakeSplitWithSeed(is, c) ==
  Prefund(is, c) \o StakeSplit1(Last(is)) \o BaseAndSeed(is[Len(is) - 1], c)
    \o Authority(Last(is), c)

\* spl_token_create_mint_brief, ..._account_brief, ..._multisig_brief
IsSplCreate(ks) ==
  /\ Len(ks) = 2
  /\ ks[1] = "SystemCreateAccount"
  /\ ks[2] \in {"SplInitializeMint", "SplInitializeAccount",
                "SplInitializeAccount2", "SplInitializeMultisig"}

PrintSplCreate(is, c) ==
  (CASE is[2].kind = "SplInitializeMint" -> SplInitializeMint(is[2])
     [] is[2].kind = "SplInitializeMultisig" ->
          Primary(is[2], "account") \o RequiredSigners(is[2])
     [] OTHER -> SplInitializeAccount(is[2]))
    \o When(ShowAuthority(is[1], c), General(is[1], "from"))
    \o General(is[1], "lamports")

\* spl_associated_token_account_create_with_transfer_brief, ..._fee_brief
IsCreateWithTransfer(ks) ==
  /\ Len(ks) = 2
  /\ ks[1] = "SplAssociatedTokenAccount"
  /\ ks[2] \in {"SplTransferChecked", "SplTransferCheckedWithFee"}

IsCreateTaskWithReview(ks) ==
  ks = <<"AgencCreateTask", "AgencConfigureTaskValidation">>

PrintPattern(is, c) ==
  LET ks == KindsOf(is)
  IN CASE Len(is) = 1 -> PrintInfo(is[1], c)
       [] IsCreateStake(ks) -> PrintCreateStake(is, c)
       [] IsCreateOther(ks) -> PrintCreateOther(is, c)
       [] IsAuthorizeBoth(ks) -> PrintAuthorizeBoth(is, c)
       [] IsStakeSplit(ks) -> PrintStakeSplit(is, c)
       [] IsStakeSplitWithSeed(ks) -> PrintStakeSplitWithSeed(is, c)
       [] IsSplCreate(ks) -> PrintSplCreate(is, c)
       [] IsCreateWithTransfer(ks) -> SplTransfer(is[2], c)
       [] IsCreateTaskWithReview(ks) -> CreateTaskWithReview(is[1], is[2])
       [] OTHER -> Bail

-------------------------------------------------------------------------------
(* Whole messages. *)

\* preprocess_compute_budget_instructions: how many of the first instructions
\* are set aside.  The only instruction of a message never is.
LeadingComputeBudget(is) ==
  IF Len(is) <= 1 THEN 0
  ELSE Cardinality({n \in DOMAIN is :
                      \A k \in 1..n : is[k].kind \in ComputeBudgetKinds})

\* calculate_max_fee is called.
HasMaxFee(budget) ==
  \E n \in DOMAIN budget : budget[n].kind \in {"UnitLimit", "UnitPrice"}

\* It fails: of several prices, the last one counts.
MaxFeeOverflows(budget) ==
  LET prices == InOrder(budget, {i \in ToSet(budget) : i.kind = "UnitPrice"})
  IN prices # <<>> /\ "overflow" \in Last(prices).has

\* print_transaction_nonce_processed.  A transaction has a signer, so its fee
\* is not 0; the pattern that creates a token account adds the rent to it.
PrintNonceProcessed(is, c) ==
  LET first == LeadingComputeBudget(is)
      budget == SubSeq(is, 1, first)
      shown == SubSeq(is, first + 1, Len(is))
  IN IF MaxFeeOverflows(budget) THEN Bail
     ELSE PrintPattern(shown, c)
            \o When(HasMaxFee(budget) \/ IsCreateWithTransfer(KindsOf(shown)),
                    MaxFee)

PrintTransaction(is, c) ==
  IF Len(is) > 1 /\ is[1].kind = "SystemAdvanceNonceAccount"
  THEN NoncedTransaction(is[1], c) \o PrintNonceProcessed(Tail(is), c)
  ELSE PrintNonceProcessed(is, c)

\* The instructions registered in display_instruction_info.
Displayed(is) == InOrder(is, {i \in ToSet(is) : i.kind \notin IgnoredKinds})

ProcessMessageBody(m) ==
  LET is == m.instructions
      kinds == {is[n].kind : n \in DOMAIN is}
  IN IF Len(is) \notin 1..MAX_INSTRUCTIONS \/ "Unknown" \in kinds THEN Bail
     ELSE When("HiddenExtension" \in kinds, ExtensionWarning)
            \o PrintTransaction(Displayed(is), m.config)

\* Mutant: the hash is added only with the fee payer.
BlindItemsForExperts(m) ==
  <<Request("primary", Item({}, "unrecognized"), FALSE)>>
    \o When(m.config.expert \/ "otherFeePayer" \in m.config.has,
            <<Request("general", Item({}, "message_hash"), FALSE),
              Request("fee_payer", Item({}, "fee_payer"), TRUE)>>)

\* What handle_sign_message_parse_message adds for a blind review.
BlindItems(m) ==
  <<Request("primary", Item({}, "unrecognized"), FALSE),
    Request("general", Item({}, "message_hash"), FALSE)>>
    \o When(m.config.expert \/ "otherFeePayer" \in m.config.has,
            <<Request("fee_payer", Item({}, "fee_payer"), TRUE)>>)

===============================================================================
