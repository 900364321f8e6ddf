------------------------- MODULE InstructionPrinters --------------------------
(***************************************************************************)
(* What the printer of one instruction asks of the transaction summary     *)
(* (libsol/*_instruction.c): a sequence of requests, each for a slot and   *)
(* an item to write into it.                                               *)
(*                                                                         *)
(* An instruction is its kind, its position in the message and what it     *)
(* "has": the traits that the printers branch on.  An item is the field it *)
(* displays and the instructions whose field that is.  A request is        *)
(* checked when the code tests the slot for NULL before it writes; a "bail"*)
(* is a printer that returns an error.                                     *)
(*                                                                         *)
(* c is the PrintConfig: c.expert is expert_mode, c.full force_full_print  *)
(* and c.ata user_input_is_ata_or_token_account.                           *)
(***************************************************************************)
EXTENDS Sequences

Item(instructions, field) ==
  [of |-> {i.at : i \in instructions}, field |-> field]
Request(slot, item, checked) ==
  [slot |-> slot, item |-> item, checked |-> checked]

NoField == [of |-> {}, field |-> "none"]
Bail == <<Request("bail", NoField, TRUE)>>

\* Most printers write through the pointer they get.
Primary(i, field) == <<Request("primary", Item({i}, field), FALSE)>>
General(i, field) == <<Request("general", Item({i}, field), FALSE)>>
When(condition, requests) == IF condition THEN requests ELSE <<>>

\* print_config_show_authority of the authority, owner or funder of i.
ShowAuthority(i, c) == c.expert \/ "otherAuthority" \in i.has
Authority(i, c) == When(ShowAuthority(i, c), General(i, "authority"))

-------------------------------------------------------------------------------
(* The system program. *)

SystemTransfer(i, c) ==
  Primary(i, "lamports")
    \o When(ShowAuthority(i, c), General(i, "from")) \o General(i, "to")

SystemPrefundForSplit(i, c) ==
  When(c.expert, General(i, "lamports") \o General(i, "from"))

SystemAdvanceNonce(i, c) == Primary(i, "account") \o Authority(i, c)

SystemWithdrawNonce(i, c) ==
  Primary(i, "lamports") \o General(i, "account") \o General(i, "to")
    \o Authority(i, c)

SystemAuthorizeNonce(i, c) ==
  Primary(i, "account") \o General(i, "new_authority") \o Authority(i, c)

SystemAllocate(i) == Primary(i, "account") \o General(i, "space")
SystemAssign(i) == Primary(i, "account") \o General(i, "program_id")

BaseAndSeed(i, c) == When(c.expert, General(i, "base") \o General(i, "seed"))

\* What both kinds of account creation print after the primary item, if any.
CreateAccountFields(i, c, displayOwner) ==
  General(i, "lamports") \o When(ShowAuthority(i, c), General(i, "from"))
    \o When(displayOwner /\ "unknownOwner" \in i.has,
            General(i, "space") \o General(i, "owner"))

\* Mutant: display_owner is not asked.
CreateAccountOwned(i, c, displayOwner) ==
  CreateAccountFields(i, c, TRUE)
    \o When(i.kind = "SystemCreateAccountWithSeed", BaseAndSeed(i, c))

\* print_system_create_account_info, or its variant with a seed.
CreateAccount(i, c, displayOwner) ==
  CreateAccountFields(i, c, displayOwner)
    \o When(i.kind = "SystemCreateAccountWithSeed", BaseAndSeed(i, c))

InitializeNonce(i) == General(i, "new_authority")

AllocateWithSeed(i, c) ==
  Primary(i, "account") \o General(i, "space") \o BaseAndSeed(i, c)

\* The nonce advanced in front of other instructions.
NoncedTransaction(i, c) ==
  When(c.expert,
       <<Request("nonce_account", Item({i}, "account"), FALSE),
         Request("nonce_authority", Item({i}, "authority"), FALSE)>>)

SystemInfo(i, c) ==
  CASE i.kind = "SystemTransfer" -> SystemTransfer(i, c)
    [] i.kind = "SystemAdvanceNonceAccount" -> SystemAdvanceNonce(i, c)
    [] i.kind \in {"SystemCreateAccount", "SystemCreateAccountWithSeed"} ->
         Primary(i, "to") \o CreateAccount(i, c, TRUE)
    [] i.kind = "SystemInitializeNonceAccount" ->
         Primary(i, "account") \o InitializeNonce(i)
    [] i.kind = "SystemWithdrawNonceAccount" -> SystemWithdrawNonce(i, c)
    [] i.kind = "SystemAuthorizeNonceAccount" -> SystemAuthorizeNonce(i, c)
    [] i.kind = "SystemAssign" -> SystemAssign(i)
    [] i.kind = "SystemAllocate" -> SystemAllocate(i)
    [] i.kind = "SystemAllocateWithSeed" -> AllocateWithSeed(i, c)

-------------------------------------------------------------------------------
(* The stake program. *)

DelegateStake(i, c) == Authority(i, c) \o General(i, "vote_account")

StakeWithdraw(i, c) ==
  Primary(i, "lamports") \o General(i, "account") \o General(i, "to")
    \o Authority(i, c)

StakeAuthorize(i, c) ==
  Primary(i, "account") \o General(i, "new_authority") \o Authority(i, c)
    \o When("custodian" \in i.has /\ (c.expert \/ "otherCustodian" \in i.has),
            General(i, "custodian"))

StakeDeactivate(i, c) == Primary(i, "account") \o Authority(i, c)

StakeSetLockup(i, c) ==
  Primary(i, "account")
    \o When("lockupTime" \in i.has, General(i, "unix_timestamp"))
    \o When("lockupEpoch" \in i.has, General(i, "epoch"))
    \o When("custodian" \in i.has, General(i, "custodian"))
    \o Authority(i, c)

StakeMerge(i, c) ==
  Primary(i, "source") \o General(i, "destination") \o Authority(i, c)

StakeAuthorities(i) ==
  IF "twoAuthorities" \in i.has
  THEN General(i, "stake_authority") \o General(i, "withdraw_authority")
  ELSE General(i, "new_authority")

\* print_stake_initialize_info without its primary item.
StakeInitialize(i, c) ==
  StakeAuthorities(i)
    \o IF i.has \intersect {"lockupTime", "lockupEpoch"} # {}
       THEN When("lockupTime" \in i.has, General(i, "unix_timestamp"))
              \o When("lockupEpoch" \in i.has, General(i, "epoch"))
              \o General(i, "custodian")
       ELSE When(c.expert, General(i, "no_lockup"))

StakeSplit1(i) ==
  Primary(i, "lamports") \o General(i, "account") \o General(i, "split_account")
StakeSplit(i, c) == StakeSplit1(i) \o Authority(i, c)

StakeInfo(i, c) ==
  CASE i.kind = "StakeDelegate" ->
         Primary(i, "stake_account") \o DelegateStake(i, c)
    [] i.kind \in {"StakeInitialize", "StakeInitializeChecked"} ->
         Primary(i, "account") \o StakeInitialize(i, c)
    [] i.kind = "StakeWithdraw" -> StakeWithdraw(i, c)
    [] i.kind \in {"StakeAuthorize", "StakeAuthorizeChecked"} ->
         StakeAuthorize(i, c)
    [] i.kind = "StakeDeactivate" -> StakeDeactivate(i, c)
    [] i.kind \in {"StakeSetLockup", "StakeSetLockupChecked"} ->
         StakeSetLockup(i, c)
    [] i.kind = "StakeSplit" -> StakeSplit(i, c)
    [] i.kind = "StakeMerge" -> StakeMerge(i, c)

-------------------------------------------------------------------------------
(* The vote program. *)

VoteWithdraw(i, c) ==
  Primary(i, "lamports") \o General(i, "account") \o General(i, "to")
    \o Authority(i, c)

VoteUpdate(i, c, field) ==
  Primary(i, "account") \o General(i, field) \o Authority(i, c)

VoteInitialize(i) ==
  General(i, "validator_id") \o General(i, "vote_authority")
    \o General(i, "withdraw_authority") \o General(i, "commission")

VoteInfo(i, c) ==
  CASE i.kind = "VoteInitialize" -> Primary(i, "account") \o VoteInitialize(i)
    [] i.kind = "VoteWithdraw" -> VoteWithdraw(i, c)
    [] i.kind \in {"VoteAuthorize", "VoteAuthorizeChecked"} ->
         VoteUpdate(i, c, "new_authority")
    [] i.kind = "VoteUpdateValidatorId" -> VoteUpdate(i, c, "new_validator_id")
    [] i.kind = "VoteUpdateCommission" -> VoteUpdate(i, c, "commission")

===============================================================================
