---------------------------- MODULE TokenPrinters -----------------------------
(***************************************************************************)
(* The printers of the token programs and of the AgenC program, in the     *)
(* terms of InstructionPrinters.                                           *)
(***************************************************************************)
EXTENDS Naturals, InstructionPrinters

(* Tokens.  A request whose slot is left unset, as for the owner that is the
   signer, leaves the slot to the next request: it is no request. *)

SplTokenSign(i, c) ==
  IF "multisig" \in i.has
  THEN General(i, "owner") \o General(i, "signers")
  ELSE When(ShowAuthority(i, c), General(i, "owner"))

SplInitializeMint(i) ==
  Primary(i, "account") \o General(i, "mint_authority") \o General(i, "decimals")
    \o When("freeze" \in i.has, General(i, "freeze_authority"))

SplInitializeAccount(i) ==
  Primary(i, "account") \o General(i, "owner") \o General(i, "mint_account")

\* m of n is not displayed when m > n.
RequiredSigners(i) == When("tooManyRequired" \notin i.has, General(i, "m_of_n"))

\* The trusted info exists: the parser of the transfer has checked it.
SplTransfer(i, c) ==
  Primary(i, "tokens")
    \o When(c.full \/ "unknownMint" \in i.has, General(i, "mint_account"))
    \o When(c.full \/ ~ c.ata, General(i, "to"))
    \o When(c.full \/ c.ata, General(i, "dest_account"))
    \o When("fee" \in i.has, General(i, "fee_tokens"))
    \o SplTokenSign(i, c)

SplApprove(i, c) ==
  Primary(i, "delegate") \o General(i, "tokens") \o General(i, "mint_account")
    \o General(i, "token_account") \o SplTokenSign(i, c)

SplSetAuthority(i, c) ==
  Primary(i, "account") \o General(i, "authority_type")
    \o When("clear" \notin i.has, General(i, "new_authority"))
    \o SplTokenSign(i, c)

\* print_spl_token_mint_to_info and print_spl_token_burn_info.
SplMintOrBurn(i, c) ==
  Primary(i, "tokens") \o General(i, "mint_account")
    \o General(i, "token_account") \o SplTokenSign(i, c)

SplCloseAccount(i, c) ==
  Primary(i, "account") \o General(i, "dest_account") \o SplTokenSign(i, c)

\* print_spl_token_freeze_account_info and print_spl_token_thaw_account_info.
SplFreezeOrThaw(i, c) ==
  Primary(i, "account") \o When(c.expert, General(i, "mint_account"))
    \o SplTokenSign(i, c)

SplTokenInfo(i, c) ==
  CASE i.kind = "SplInitializeMint" -> SplInitializeMint(i)
    [] i.kind \in {"SplInitializeAccount", "SplInitializeAccount2"} ->
         SplInitializeAccount(i)
    [] i.kind = "SplInitializeMultisig" ->
         Primary(i, "account") \o RequiredSigners(i)
    [] i.kind = "SplRevoke" -> Primary(i, "account") \o SplTokenSign(i, c)
    [] i.kind = "SplSetAuthority" -> SplSetAuthority(i, c)
    [] i.kind = "SplCloseAccount" -> SplCloseAccount(i, c)
    [] i.kind \in {"SplFreezeAccount", "SplThawAccount"} -> SplFreezeOrThaw(i, c)
    [] i.kind \in {"SplTransferChecked", "SplTransferCheckedWithFee"} ->
         SplTransfer(i, c)
    [] i.kind = "SplApproveChecked" -> SplApprove(i, c)
    [] i.kind \in {"SplMintToChecked", "SplBurnChecked"} -> SplMintOrBurn(i, c)
    [] i.kind = "SplSyncNative" -> Primary(i, "account")

\* print_spl_associated_token_account_create_info.
CreateTokenAccount(i) ==
  Primary(i, "account") \o General(i, "owner") \o General(i, "mint_account")
    \o General(i, "from")

\* print_spl_token_extension_warning.
ExtensionWarning ==
  <<Request("general", Item({}, "extension_warning"), FALSE),
    Request("general", Item({}, "verify_before_signing"), FALSE)>>

\* print_compute_budget_max_fee.
MaxFee == <<Request("general", Item({}, "max_fee"), FALSE)>>

-------------------------------------------------------------------------------
(* AgenC.  Its printers test every slot. *)

Action(i) == <<Request("primary", Item({i}, "action"), TRUE)>>
Fields(i, fields) ==
  [n \in 1..Len(fields) |-> Request("general", Item({i}, fields[n]), TRUE)]

CreateTaskFields(i) ==
  Fields(i, (IF "reward_mint" \in i.has THEN <<"reward", "reward_mint">>
                                        ELSE <<"reward">>)
              \o <<"task", "creator", "description", "deadline", "max_workers">>
              \o When("task_type" \in i.has, <<"task_type">>)
              \o <<"min_reputation", "program_id">>)

\* print_agenc_create_task_with_review_info.  The traits of the second
\* instruction say what of it does not match the first or is not supported.
CreateTaskWithReview(create, configure) ==
  IF configure.has \intersect {"otherTask", "otherMode", "attestor"} # {}
  THEN Bail
  ELSE Action(create) \o CreateTaskFields(create)
         \o Fields(configure, <<"review_window">>)

AgencFields(i) ==
  CASE i.kind = "AgencRegisterAgent" ->
         <<"stake", "agent", "authority", "capabilities", "endpoint">>
           \o When("metadata_uri" \in i.has, <<"metadata_uri">>)
    [] i.kind = "AgencConfigureTaskValidation" ->
         <<"task", "mode", "review_window", "validator_quorum">>
           \o When("attestor" \in i.has, <<"attestor">>)
    [] i.kind = "AgencSetTaskJobSpec" ->
         <<"job_spec_hash", "task", "creator", "job_spec_uri">>
    [] i.kind = "AgencClaimTaskWithJobSpec" ->
         <<"task", "worker", "authority", "claim">>
    [] i.kind = "AgencSubmitTaskResult" ->
         <<"proof_hash", "task", "worker", "submission", "result">>
    [] i.kind = "AgencAcceptTaskResult" ->
         <<"reward", "task", "worker", "worker_authority", "creator", "treasury">>
    [] i.kind = "AgencRejectTaskResult" ->
         <<"rejection_hash", "task", "worker", "worker_authority", "creator",
           "submission">>
    [] i.kind = "AgencCancelTask" ->
         <<"refund", "task", "authority", "escrow", "worker_claims">>
    [] i.kind = "AgencExpireClaim" ->
         <<"task", "claim", "worker", "authority", "rent_recipient",
           "validation", "submission">>

AgencInfo(i) ==
  Action(i) \o IF i.kind = "AgencCreateTask"
               THEN CreateTaskFields(i)
               ELSE Fields(i, AgencFields(i) \o <<"program_id">>)

===============================================================================
