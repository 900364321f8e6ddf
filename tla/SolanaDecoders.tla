---------------------------- MODULE SolanaDecoders ----------------------------
(***************************************************************************)
(* The layouts of the instructions of Solana's programs, by their tags.    *)
(***************************************************************************)
EXTENDS InstructionLayouts

-------------------------------------------------------------------------------
(* The system program. *)

Lamports == Field("lamports", "u64")
SpaceField == Field("space", "u64")
Seeded == <<Field("base", "key"), Field("seed", "sized_string")>>

SystemTransfer == Layout(<<"from", "to">>, <<Lamports>>)
SystemCreateAccount == Layout(<<"from", "to">>, <<Lamports, SpaceField, Field("owner", "key")>>)
SystemCreateAccountWithSeed ==
  Layout(<<"from", "to">>, Seeded \o <<Lamports, SpaceField, Field("owner", "key")>>)
SystemAdvanceNonce == Layout(<<"account", "", "authority">>, <<>>)
SystemInitializeNonce == Layout(<<"account", "", "">>, <<Field("authority", "key")>>)
SystemWithdrawNonce == Layout(<<"account", "to", "", "", "authority">>, <<Lamports>>)
SystemAuthorizeNonce ==
  Layout(<<"account", "authority">>, <<Field("new_authority", "key")>>)
SystemAllocate == Layout(<<"account">>, <<SpaceField>>)
SystemAssign == Layout(<<"account">>, <<Field("program_id", "key")>>)
SystemAllocateWithSeed ==
  Layout(<<"account", "">>, Seeded \o <<SpaceField, Field("program_id", "key")>>)

\* AssignWithSeed (10) is refused.
SystemLayouts ==
  0 :> SystemCreateAccount @@ 1 :> SystemAssign @@ 2 :> SystemTransfer
    @@ 3 :> SystemCreateAccountWithSeed @@ 4 :> SystemAdvanceNonce
    @@ 5 :> SystemWithdrawNonce @@ 6 :> SystemInitializeNonce
    @@ 7 :> SystemAuthorizeNonce @@ 8 :> SystemAllocate @@ 9 :> SystemAllocateWithSeed

-------------------------------------------------------------------------------
(* The stake program. *)

StakeDelegate ==
  Layout(<<"stake_pubkey", "vote_pubkey", "", "", "", "authorized_pubkey">>, <<>>)
StakeInitialize ==
  Layout(<<"account", "">>,
         <<Field("stake_authority", "key"), Field("withdraw_authority", "key"),
           Field("unix_timestamp", "u64"), Field("epoch", "u64"), Field("custodian", "key")>>)
StakeInitializeChecked ==
  Layout(<<"account", "", "stake_authority", "withdraw_authority">>, <<>>)
StakeWithdraw == Layout(<<"account", "to", "", "", "authority">>, <<Lamports>>)
StakeAuthorize ==
  Trailing(Layout(<<"account", "", "authority">>,
                  <<Field("new_authority", "key"), Field("authorize", "authorize")>>),
           <<"custodian">>)
StakeAuthorizeChecked ==
  Trailing(Layout(<<"account", "", "authority", "new_authority">>,
                  <<Field("authorize", "authorize")>>),
           <<"custodian">>)
StakeDeactivate == Layout(<<"account", "", "authority">>, <<>>)

\* parse_stake_lockupargs.
LockupArgs == <<Optional("unix_timestamp", "u64"), Optional("epoch", "u64")>>
StakeSetLockup ==
  Layout(<<"account", "custodian">>, Append(LockupArgs, Optional("new_custodian", "key")))
StakeSetLockupChecked ==
  Trailing(Layout(<<"account", "custodian">>, LockupArgs), <<"new_custodian">>)
StakeSplit == Layout(<<"account", "split_account", "authority">>, <<Lamports>>)
StakeMerge == Layout(<<"destination", "source", "", "", "authority">>, <<>>)

\* The two that authorize with a seed (8 and 11) are refused.
StakeLayouts ==
  0 :> StakeInitialize @@ 1 :> StakeAuthorize @@ 2 :> StakeDelegate @@ 3 :> StakeSplit
    @@ 4 :> StakeWithdraw @@ 5 :> StakeDeactivate @@ 6 :> StakeSetLockup
    @@ 7 :> StakeMerge @@ 9 :> StakeInitializeChecked @@ 10 :> StakeAuthorizeChecked
    @@ 12 :> StakeSetLockupChecked

-------------------------------------------------------------------------------
(* The vote program. *)

VoteInitialize ==
  Layout(<<"account", "", "">>,
         <<Field("validator_id", "key"), Field("vote_authority", "key"),
           Field("withdraw_authority", "key"), Field("commission", "u8")>>)
VoteWithdraw == Layout(<<"account", "to", "authority">>, <<Lamports>>)
VoteAuthorize ==
  Layout(<<"account", "", "authority">>,
         <<Field("new_authority", "key"), Field("authorize", "authorize")>>)
VoteAuthorizeChecked ==
  Layout(<<"account", "", "authority", "new_authority">>,
         <<Field("authorize", "authorize")>>)
VoteUpdateCommission == Layout(<<"account", "authority">>, <<Field("commission", "u8")>>)

\* The length of the data tells the new format from the old one.
VoteUpdateValidatorId(length) ==
  IF length = 4 THEN {Layout(<<"account", "new_validator_id", "authority">>, <<>>)}
  ELSE IF length = 4 + KeySize
  THEN {Layout(<<"account", "", "authority">>, <<Field("new_validator_id", "key")>>)}
  ELSE {}

\* Votes (2 and 6) are refused.
VoteLayouts(length) ==
  0 :> VoteInitialize @@ 1 :> VoteAuthorize @@ 3 :> VoteWithdraw
    @@ 5 :> VoteUpdateCommission @@ 7 :> VoteAuthorizeChecked
    @@ [kind \in {4 : layout \in VoteUpdateValidatorId(length)} |->
          CHOOSE layout \in VoteUpdateValidatorId(length) : TRUE]

-------------------------------------------------------------------------------
(* The compute budget and the associated token accounts. *)

ComputeBudgetLayouts ==
  1 :> Layout(<<>>, <<Field("bytes", "u32")>>) @@ 2 :> Layout(<<>>, <<Field("units", "u32")>>)
    @@ 3 :> Layout(<<>>, <<Field("units", "u64")>>)
    @@ 4 :> Layout(<<>>, <<Field("units", "u32")>>)

CreateAssociated ==
  Layout(<<"funder", "address", "owner", "mint", "", "">>, <<>>)

\* parse_spl_associated_token_account_instructions: a byte or none.
ParseAssociated(i) ==
  IF i.data \in {<<>>, <<0>>, <<1>>} THEN ParseLayout(0, CreateAssociated, i, <<>>) ELSE Failed

-------------------------------------------------------------------------------
(* The token programs.  The accounts behind those of the layout say who signs. *)

Single(account) == [kind |-> "single", account |-> account, signers |-> 0]
Multi(account, signers) == [kind |-> "multi", account |-> account, signers |-> signers]

\* parse_spl_token_multisigners: what is left, at least one, are the signers.
Multisigners(accounts) ==
  IF Len(accounts) \in 1..MaxSigners THEN Parsed(Len(accounts), <<>>) ELSE Failed

\* parse_spl_token_sign: one account is the owner; if there are more, the first
\* one is a multisig and the others are its signers.
ParseSplTokenSign(accounts) ==
  Then(Take(1, accounts), LAMBDA account, rest :
    IF rest = <<>> THEN Parsed(Single(account[1]), <<>>)
    ELSE Then(Multisigners(rest), LAMBDA signers, none :
           Parsed(Multi(account[1], signers), none)))

\* Mutant: as for the legacy program, the number of accounts decides.
ParseSplToken2022SignByCount(accounts, required) == ParseSplTokenSign(accounts)

\* parse_spl_token2022_sign: an account that signs the message is the owner,
\* another one is a multisig.  Its signers are the next account and those that
\* follow and sign the message.
ParseSplToken2022Sign(accounts, required) ==
  Then(Take(1, accounts), LAMBDA account, r :
    IF account[1] < required THEN Parsed(Single(account[1]), r)
    ELSE Then(Take(1, r), LAMBDA first, rest :
           LET others == {n \in 1..Len(rest) : rest[n] >= required}
               more == IF others = {} THEN Len(rest) ELSE Min(others) - 1
               count == 1 + more
           IN IF count > MaxSigners THEN Failed
              ELSE Parsed(Multi(account[1], count), SubSeq(rest, more + 1, Len(rest)))))

Checked == <<Field("amount", "u64"), Field("decimals", "u8")>>

InitializeMint ==
  Layout(<<"mint_account", "">>,
         <<Field("decimals", "u8"), Field("mint_authority", "key"),
           Optional("freeze_authority", "key")>>)
InitializeAccount == Layout(<<"token_account", "mint_account", "owner", "">>, <<>>)
InitializeAccount2 ==
  Layout(<<"token_account", "mint_account", "">>, <<Field("owner", "key")>>)
InitializeMultisig == Layout(<<"multisig_account", "">>, <<Field("m", "required")>>)
TransferChecked == Layout(<<"src_account", "mint_account", "dest_account">>, Checked)
TransferCheckedWithFee ==
  [TransferChecked EXCEPT !.data = Append(@, Field("transfer_checked_with_fee_amount", "u64"))]
ApproveChecked == Layout(<<"token_account", "mint_account", "delegate">>, Checked)
Revoke == Layout(<<"token_account">>, <<>>)
SetAuthority ==
  Layout(<<"account">>, <<Field("authority_type", "authority_type"),
                          Optional("new_authority", "key")>>)
MintToChecked == Layout(<<"mint_account", "token_account">>, Checked)
BurnChecked == Layout(<<"token_account", "mint_account">>, Checked)
CloseAccount == Layout(<<"token_account", "dest_account">>, <<>>)
FreezeAccount == Layout(<<"token_account", "mint_account">>, <<>>)
ThawAccount == Layout(<<"token_account", "mint_account">>, <<>>)
SyncNative == Layout(<<"token_account">>, <<>>)

\* The transfers, approvals, mints and burns that do not check the decimals (3,
\* 4, 7 and 8) are refused.
SplTokenLayouts ==
  0 :> InitializeMint @@ 1 :> InitializeAccount @@ 2 :> InitializeMultisig
    @@ 5 :> Revoke @@ 6 :> SetAuthority @@ 9 :> CloseAccount @@ 10 :> FreezeAccount
    @@ 11 :> ThawAccount @@ 12 :> TransferChecked @@ 13 :> ApproveChecked
    @@ 14 :> MintToChecked @@ 15 :> BurnChecked @@ 16 :> InitializeAccount2
    @@ 17 :> SyncNative
Unsigned == {0, 1, 16, 17}

TransferFeeExtension == 26
\* Confidential transfers, memo transfers, transfer hooks, confidential fees.
WarnedExtensions == {27, 30, 36, 37}
\* Default states, interest, CPI guard, pointers to metadata and groups.
QuietExtensions == {28, 33, 34, 39, 40, 41}
Ignored(kind, warning) ==
  [Info(kind, NoFields, NoFields) EXCEPT !.ignored = TRUE, !.warning = warning]

\* Who signs, and for a transfer of the new program whether accounts are left: they
\* are those of a transfer hook.  The comparison of a transfer with the trusted
\* info is in TokenAccounts.
ParseSigners(p, is2022, required) ==
  LET transfer == p.value.kind \in {12, TransferFeeExtension}
      sign == IF p.value.kind = 2
              THEN Then(Multisigners(p.value.more), LAMBDA n, none : Parsed(Multi(0, n), none))
              ELSE IF transfer /\ is2022 THEN ParseSplToken2022Sign(p.value.more, required)
              ELSE ParseSplTokenSign(p.value.more)
  IN IF ~ p.ok \/ p.value.kind \in Unsigned THEN p
     ELSE Then(sign, LAMBDA s, more : Parsed([p.value EXCEPT !.sign = s, !.more = more], p.rest))

ParseTransferFee(i, is2022, required, buffer) ==
  Then(Take(1, buffer), LAMBDA tag, rest :
    IF ~ is2022 \/ tag[1] \notin 0..5 THEN Failed
    ELSE IF tag[1] # 1 THEN Parsed(Ignored(TransferFeeExtension, TRUE), rest)
    ELSE ParseSigners(ParseLayout(TransferFeeExtension, TransferCheckedWithFee, i, rest),
                      is2022, required))

\* parse_spl_token_instructions.
ParseSplToken(i, is2022, required) ==
  Then(ParseNumber(1, i.data), LAMBDA kind, rest :
    CASE kind = 1 /\ Len(i.accounts) # 4 -> Failed
      [] kind = TransferFeeExtension -> ParseTransferFee(i, is2022, required, rest)
      [] kind \in WarnedExtensions -> Parsed(Ignored(kind, TRUE), rest)
      [] kind \in QuietExtensions -> Parsed(Ignored(kind, FALSE), rest)
      [] OTHER -> ParseSigners(ParseKind(1, SplTokenLayouts, i), is2022, required))

===============================================================================
