----------------------- MODULE TransactionReviewProofs -----------------------
(***************************************************************************)
(* Theorems about TransactionReview: what the printers ask for is what a   *)
(* user has to see, and what they ask for is what the review displays.     *)
(***************************************************************************)
EXTENDS TransactionReview, MessageReviewProofs, FiniteSetTheorems

-------------------------------------------------------------------------------
(* What is asked for. *)

IsSequence(rs) == \E S : rs \in Seq(S)

\* Some request of rs is for the slot.
AsksFor(rs, slot) == \E n \in DOMAIN rs : rs[n].slot = slot

\* Some request of rs is for the field of the instruction.
Shows(rs, i, field) ==
  \E n \in DOMAIN rs : i.at \in rs[n].item.of /\ rs[n].item.field = field

\* What a sequence of two parts holds is what the parts hold.
LEMMA Concatenated ==
  ASSUME NEW a, IsSequence(a), NEW b, IsSequence(b)
  PROVE  /\ IsSequence(a \o b)
         /\ \A slot : AsksFor(a \o b, slot) <=> AsksFor(a, slot) \/ AsksFor(b, slot)
         /\ \A i, field : Shows(a \o b, i, field) <=> Shows(a, i, field) \/ Shows(b, i, field)
  <1> DEFINE t == a \o b
  <1>0. PICK S : a \in Seq(S) /\ b \in Seq(S)
    <2>1. PICK A, B : a \in Seq(A) /\ b \in Seq(B)
      BY DEF IsSequence
    <2>2. a \in Seq(A \union B) /\ b \in Seq(A \union B)
      BY <2>1, SeqMonotonic
    <2> QED
      BY <2>2
  <1>1. /\ t \in Seq(S) /\ Len(t) = Len(a) + Len(b)
        /\ Len(a) \in Nat /\ Len(b) \in Nat
        /\ \A n \in 1..(Len(a) + Len(b)) : t[n] = IF n <= Len(a) THEN a[n] ELSE b[n - Len(a)]
    BY <1>0, ConcatProperties, LenProperties
  <1>2. DOMAIN a = 1..Len(a) /\ DOMAIN b = 1..Len(b) /\ DOMAIN t = 1..(Len(a) + Len(b))
    BY <1>0, <1>1, LenProperties
  <1> HIDE DEF t
  <1>3. \A n \in DOMAIN a : n \in DOMAIN t /\ t[n] = a[n]
    BY <1>1, <1>2
  <1>4. \A n \in DOMAIN b : n + Len(a) \in DOMAIN t /\ t[n + Len(a)] = b[n]
    BY <1>1, <1>2
  <1>5. \A n \in DOMAIN t : (n \in DOMAIN a /\ t[n] = a[n])
                              \/ (n - Len(a) \in DOMAIN b /\ t[n] = b[n - Len(a)])
    BY <1>1, <1>2
  <1>6. \A slot : AsksFor(t, slot) <=> AsksFor(a, slot) \/ AsksFor(b, slot)
    BY <1>3, <1>4, <1>5 DEF AsksFor
  <1>7. \A i, field : Shows(t, i, field) <=> Shows(a, i, field) \/ Shows(b, i, field)
    BY <1>3, <1>4, <1>5 DEF Shows
  <1>8. IsSequence(t)
    BY <1>1 DEF IsSequence
  <1> QED
    BY <1>6, <1>7, <1>8 DEF t

\* Nothing is asked for when nothing is appended.
LEMMA NoRequest ==
  /\ IsSequence(<<>>)
  /\ \A slot : ~ AsksFor(<<>>, slot)
  /\ \A i, field : ~ Shows(<<>>, i, field)
  BY DEF AsksFor, Shows, IsSequence

\* One request asks for its own slot and shows its own field.
LEMMA OneRequest ==
  ASSUME NEW r
  PROVE  /\ IsSequence(<<r>>)
         /\ \A slot : AsksFor(<<r>>, slot) <=> r.slot = slot
         /\ \A i, field : Shows(<<r>>, i, field) <=> i.at \in r.item.of /\ r.item.field = field
  <1>1. <<r>> \in Seq({r}) /\ DOMAIN <<r>> = {1} /\ <<r>>[1] = r
    OBVIOUS
  <1> QED
    BY <1>1 DEF AsksFor, Shows, IsSequence

\* The functions that ask for an item ask for one of one instruction.
LEMMA RequestOf ==
  ASSUME NEW slot, NEW is, NEW field, NEW checked
  PROVE  /\ Request(slot, Item(is, field), checked).slot = slot
         /\ Request(slot, Item(is, field), checked).item.field = field
         /\ \A i \in is : i.at \in Request(slot, Item(is, field), checked).item.of
  BY DEF Request, Item

\* What each function that asks for items asks for.
LEMMA Requested ==
  /\ \A i, f : /\ IsSequence(Primary(i, f))
               /\ AsksFor(Primary(i, f), "primary")
               /\ Shows(Primary(i, f), i, f)
               /\ IsSequence(General(i, f))
               /\ Shows(General(i, f), i, f)
  /\ IsSequence(<<>>)
  /\ \A i, c : IsSequence(Authority(i, c))
  /\ \A a, b : IsSequence(a) /\ IsSequence(b) =>
       /\ IsSequence(a \o b)
       /\ \A slot : AsksFor(a \o b, slot) <=> AsksFor(a, slot) \/ AsksFor(b, slot)
       /\ \A j, f : Shows(a \o b, j, f) <=> Shows(a, j, f) \/ Shows(b, j, f)
  <1>1. ASSUME NEW i, NEW f
        PROVE  /\ IsSequence(Primary(i, f))
               /\ AsksFor(Primary(i, f), "primary")
               /\ Shows(Primary(i, f), i, f)
               /\ IsSequence(General(i, f))
               /\ Shows(General(i, f), i, f)
    <2>1. i \in {i}
      OBVIOUS
    <2> DEFINE p == Request("primary", Item({i}, f), FALSE)
               g == Request("general", Item({i}, f), FALSE)
    <2>2. /\ p.slot = "primary" /\ p.item.field = f /\ i.at \in p.item.of
          /\ g.item.field = f /\ i.at \in g.item.of
      <3>1. \A slot : LET r == Request(slot, Item({i}, f), FALSE)
                      IN r.slot = slot /\ r.item.field = f /\ i.at \in r.item.of
        BY DEF Request, Item
      <3> QED
        BY <3>1
    <2>3. Primary(i, f) = <<p>> /\ General(i, f) = <<g>>
      BY DEF Primary, General
    <2> HIDE DEF p, g
    <2> QED
      BY <2>2, <2>3, OneRequest
  <1>2. ASSUME NEW i, NEW c PROVE IsSequence(Authority(i, c))
    <2>1. CASE ShowAuthority(i, c)
      BY <1>1, <2>1 DEF Authority, When
    <2>2. CASE ~ ShowAuthority(i, c)
      BY <2>2, NoRequest DEF Authority, When
    <2> QED
      BY <2>1, <2>2
  <1> QED
    BY <1>1, <1>2, NoRequest, Concatenated

Tells(rs, i) ==
  \A alternatives \in Movements(i) \union Grants(i) :
    \E field \in alternatives : Shows(rs, i, field)

TellsOf(rs, i) == IsSequence(rs) /\ AsksFor(rs, "primary") /\ Tells(rs, i)


Covers(i, fields) ==
  \A alternatives \in Movements(i) \union Grants(i) : fields \intersect alternatives # {}

\* The fields a user must see, by what the instruction is and has.
LEMMA Covered ==
  ASSUME NEW i, NEW fields, Covers(i, fields), NEW rs, \A f \in fields : Shows(rs, i, f)
  PROVE  Tells(rs, i)
  BY DEF Covers, Tells

LoudKinds ==
  {"AgencAcceptTaskResult", "AgencConfigureTaskValidation",
   "AgencCreateTask", "AgencExpireClaim", "AgencRegisterAgent",
   "SplApproveChecked", "SplBurnChecked", "SplCloseAccount",
   "SplInitializeAccount", "SplInitializeAccount2", "SplInitializeMint",
   "SplMintToChecked", "SplSetAuthority", "SplTransferChecked",
   "SplTransferCheckedWithFee", "StakeAuthorize", "StakeAuthorizeChecked",
   "StakeDelegate", "StakeInitialize", "StakeInitializeChecked",
   "StakeMerge", "StakeSplit", "StakeWithdraw",
   "SystemAuthorizeNonceAccount", "SystemCreateAccount",
   "SystemCreateAccountWithSeed", "SystemInitializeNonceAccount",
   "SystemTransfer", "SystemWithdrawNonceAccount", "VoteAuthorize",
   "VoteAuthorizeChecked", "VoteInitialize", "VoteWithdraw"}

\* The fields a user must see are among those the summary can name.
LEMMA FieldsWanted ==
  ASSUME NEW i
  PROVE  /\ i.kind \in {"SystemTransfer", "SystemWithdrawNonceAccount",
                   "StakeWithdraw", "VoteWithdraw"} =>
                Covers(i, {"lamports", "to"})
         /\ i.kind \in {"SystemCreateAccount", "SystemCreateAccountWithSeed"} =>
                Covers(i, {"lamports"})
         /\ i.kind \in {"SystemAuthorizeNonceAccount",
                   "SystemInitializeNonceAccount", "StakeAuthorize",
                   "StakeAuthorizeChecked", "VoteAuthorize",
                   "VoteAuthorizeChecked"} =>
                Covers(i, {"new_authority"})
         /\ i.kind \in {"StakeInitialize", "StakeInitializeChecked"} =>
                Covers(i, {"new_authority"})
         /\ i.kind \in {"StakeInitialize", "StakeInitializeChecked"} =>
                Covers(i, {"stake_authority", "withdraw_authority"})
         /\ i.kind \in {"StakeSplit"} =>
                Covers(i, {"lamports", "account", "split_account"})
         /\ i.kind \in {"StakeMerge"} =>
                Covers(i, {"source", "destination"})
         /\ i.kind \in {"StakeDelegate"} =>
                Covers(i, {"vote_account"})
         /\ i.kind \in {"VoteInitialize"} =>
                Covers(i, {"vote_authority", "withdraw_authority"})
         /\ i.kind \in {"SplTransferChecked", "SplTransferCheckedWithFee"} =>
                Covers(i, {"tokens", "to"})
         /\ i.kind \in {"SplTransferChecked", "SplTransferCheckedWithFee"} =>
                Covers(i, {"tokens", "dest_account"})
         /\ i.kind \in {"SplMintToChecked", "SplBurnChecked"} =>
                Covers(i, {"tokens", "mint_account", "token_account"})
         /\ i.kind \in {"SplCloseAccount"} =>
                Covers(i, {"account", "dest_account"})
         /\ i.kind \in {"SplInitializeMint"} =>
                Covers(i, {"mint_authority"})
         /\ i.kind \in {"SplInitializeAccount", "SplInitializeAccount2"} =>
                Covers(i, {"owner"})
         /\ i.kind \in {"SplApproveChecked"} =>
                Covers(i, {"delegate", "tokens"})
         /\ i.kind \in {"AgencRegisterAgent"} =>
                Covers(i, {"stake", "agent"})
         /\ i.kind \in {"AgencCreateTask"} =>
                Covers(i, {"reward", "task", "description", "program_id"})
         /\ i.kind \in {"AgencAcceptTaskResult"} =>
                Covers(i, {"task", "worker", "treasury"})
         /\ i.kind \in {"AgencExpireClaim"} =>
                Covers(i, {"claim", "rent_recipient"})
         /\ i.kind \in {"AgencConfigureTaskValidation"} =>
                Covers(i, {"review_window"})
         /\ i.kind = "SplSetAuthority" =>
                Covers(i, IF "clear" \in i.has THEN {"account", "authority_type"}
                          ELSE {"account", "authority_type", "new_authority"})
         /\ i.kind \notin LoudKinds => Covers(i, {})
  <1>1. ASSUME i.kind \in {"SystemTransfer", "SystemWithdrawNonceAccount",
                     "StakeWithdraw", "VoteWithdraw"}
         PROVE  Covers(i, {"lamports", "to"})
    BY <1>1 DEF Movements, Grants, CreateKinds, Covers, One
  <1>2. ASSUME i.kind \in {"SystemCreateAccount", "SystemCreateAccountWithSeed"}
         PROVE  Covers(i, {"lamports"})
    BY <1>2 DEF Movements, Grants, CreateKinds, Covers, One
  <1>3. ASSUME i.kind \in {"SystemAuthorizeNonceAccount",
                     "SystemInitializeNonceAccount", "StakeAuthorize",
                     "StakeAuthorizeChecked", "VoteAuthorize",
                     "VoteAuthorizeChecked"}
         PROVE  Covers(i, {"new_authority"})
    BY <1>3 DEF Movements, Grants, CreateKinds, Covers, One
  <1>4. ASSUME i.kind \in {"StakeInitialize", "StakeInitializeChecked"}
         PROVE  Covers(i, {"new_authority"})
    BY <1>4 DEF Movements, Grants, CreateKinds, Covers, One
  <1>5. ASSUME i.kind \in {"StakeInitialize", "StakeInitializeChecked"}
         PROVE  Covers(i, {"stake_authority", "withdraw_authority"})
    BY <1>5 DEF Movements, Grants, CreateKinds, Covers, One
  <1>6. ASSUME i.kind \in {"StakeSplit"}
         PROVE  Covers(i, {"lamports", "account", "split_account"})
    BY <1>6 DEF Movements, Grants, CreateKinds, Covers, One
  <1>7. ASSUME i.kind \in {"StakeMerge"}
         PROVE  Covers(i, {"source", "destination"})
    BY <1>7 DEF Movements, Grants, CreateKinds, Covers, One
  <1>8. ASSUME i.kind \in {"StakeDelegate"}
         PROVE  Covers(i, {"vote_account"})
    BY <1>8 DEF Movements, Grants, CreateKinds, Covers, One
  <1>9. ASSUME i.kind \in {"VoteInitialize"}
         PROVE  Covers(i, {"vote_authority", "withdraw_authority"})
    BY <1>9 DEF Movements, Grants, CreateKinds, Covers, One
  <1>10. ASSUME i.kind \in {"SplTransferChecked", "SplTransferCheckedWithFee"}
         PROVE  Covers(i, {"tokens", "to"})
    BY <1>10 DEF Movements, Grants, CreateKinds, Covers, One
  <1>11. ASSUME i.kind \in {"SplTransferChecked", "SplTransferCheckedWithFee"}
         PROVE  Covers(i, {"tokens", "dest_account"})
    BY <1>11 DEF Movements, Grants, CreateKinds, Covers, One
  <1>12. ASSUME i.kind \in {"SplMintToChecked", "SplBurnChecked"}
         PROVE  Covers(i, {"tokens", "mint_account", "token_account"})
    BY <1>12 DEF Movements, Grants, CreateKinds, Covers, One
  <1>13. ASSUME i.kind \in {"SplCloseAccount"}
         PROVE  Covers(i, {"account", "dest_account"})
    BY <1>13 DEF Movements, Grants, CreateKinds, Covers, One
  <1>14. ASSUME i.kind \in {"SplInitializeMint"}
         PROVE  Covers(i, {"mint_authority"})
    BY <1>14 DEF Movements, Grants, CreateKinds, Covers, One
  <1>15. ASSUME i.kind \in {"SplInitializeAccount", "SplInitializeAccount2"}
         PROVE  Covers(i, {"owner"})
    BY <1>15 DEF Movements, Grants, CreateKinds, Covers, One
  <1>16. ASSUME i.kind \in {"SplApproveChecked"}
         PROVE  Covers(i, {"delegate", "tokens"})
    BY <1>16 DEF Movements, Grants, CreateKinds, Covers, One
  <1>17. ASSUME i.kind \in {"AgencRegisterAgent"}
         PROVE  Covers(i, {"stake", "agent"})
    BY <1>17 DEF Movements, Grants, CreateKinds, Covers, One
  <1>18. ASSUME i.kind \in {"AgencCreateTask"}
         PROVE  Covers(i, {"reward", "task", "description", "program_id"})
    BY <1>18 DEF Movements, Grants, CreateKinds, Covers, One
  <1>19. ASSUME i.kind \in {"AgencAcceptTaskResult"}
         PROVE  Covers(i, {"task", "worker", "treasury"})
    BY <1>19 DEF Movements, Grants, CreateKinds, Covers, One
  <1>20. ASSUME i.kind \in {"AgencExpireClaim"}
         PROVE  Covers(i, {"claim", "rent_recipient"})
    BY <1>20 DEF Movements, Grants, CreateKinds, Covers, One
  <1>21. ASSUME i.kind \in {"AgencConfigureTaskValidation"}
         PROVE  Covers(i, {"review_window"})
    BY <1>21 DEF Movements, Grants, CreateKinds, Covers, One
  <1>22. ASSUME i.kind = "SplSetAuthority"
         PROVE  Covers(i, IF "clear" \in i.has THEN {"account", "authority_type"}
                          ELSE {"account", "authority_type", "new_authority"})
    BY <1>22 DEF Movements, Grants, CreateKinds, Covers, One
  <1>23. ASSUME i.kind \notin LoudKinds PROVE Covers(i, {})
    BY <1>23 DEF LoudKinds, Movements, Grants, CreateKinds, Covers, One
  <1> QED
    BY <1>1, <1>2, <1>3, <1>4, <1>5, <1>6, <1>7, <1>8, <1>9, <1>10, <1>11, <1>12,
       <1>13, <1>14, <1>15, <1>16, <1>17, <1>18, <1>19, <1>20, <1>21, <1>22, <1>23

-------------------------------------------------------------------------------
(* The printers of the programs' instructions. *)

\* An instruction told by one part is told by the whole.
LEMMA TellsOn ==
  ASSUME NEW a, IsSequence(a), NEW b, IsSequence(b), NEW i, Tells(a, i) \/ Tells(b, i)
  PROVE  Tells(a \o b, i)
  BY Concatenated DEF Tells

\* StakeInitialize tells the authorities and the lockup, if there is one.
LEMMA StakeInitialized ==
  ASSUME NEW i, NEW c
  PROVE  /\ IsSequence(StakeInitialize(i, c))
         /\ i.kind \in {"StakeInitialize", "StakeInitializeChecked"} =>
              Tells(StakeInitialize(i, c), i)
  <1> DEFINE rest == IF i.has \intersect {"lockupTime", "lockupEpoch"} # {}
                     THEN When("lockupTime" \in i.has, General(i, "unix_timestamp"))
                            \o When("lockupEpoch" \in i.has, General(i, "epoch"))
                            \o General(i, "custodian")
                     ELSE When(c.expert, General(i, "no_lockup"))
  <1>1. IsSequence(rest)
    <2>1. CASE i.has \intersect {"lockupTime", "lockupEpoch"} # {}
      BY <2>1, Requested DEF When
    <2>2. CASE ~ i.has \intersect {"lockupTime", "lockupEpoch"} # {}
      BY <2>2, Requested DEF When
    <2> QED
      BY <2>1, <2>2
  <1>2. IsSequence(StakeAuthorities(i))
    BY Requested DEF StakeAuthorities
  <1>3. ASSUME i.kind \in {"StakeInitialize", "StakeInitializeChecked"}
        PROVE  Tells(StakeAuthorities(i), i)
    <2>1. /\ Covers(i, {"new_authority"})
          /\ Covers(i, {"stake_authority", "withdraw_authority"})
      BY <1>3, FieldsWanted
    <2>2. CASE "twoAuthorities" \in i.has
      BY <2>1, <2>2, Covered, Requested DEF StakeAuthorities
    <2>3. CASE "twoAuthorities" \notin i.has
      BY <2>1, <2>3, Covered, Requested DEF StakeAuthorities
    <2> QED
      BY <2>2, <2>3
  <1>4. StakeInitialize(i, c) = StakeAuthorities(i) \o rest
    BY DEF StakeInitialize
  <1> HIDE DEF rest
  <1> QED
    BY <1>1, <1>2, <1>3, <1>4, Requested, TellsOn

\* Every printer of a System instruction tells it.
LEMMA SystemTells ==
  ASSUME NEW i, NEW c, i.kind \in SystemKinds
  PROVE  TellsOf(SystemInfo(i, c), i)
  <1>1. CASE i.kind = "SystemTransfer"
    <2>1. Covers(i, {"lamports", "to"})
      BY <1>1, FieldsWanted
    <2> QED
      BY <1>1, <2>1, Covered, Requested DEF TellsOf, SystemInfo, When, SystemTransfer
  <1>2. CASE i.kind = "SystemAdvanceNonceAccount"
    <2>1. Covers(i, {})
      BY <1>2, FieldsWanted DEF LoudKinds
    <2> QED
      BY <1>2, <2>1, Covered, Requested DEF TellsOf, SystemInfo, When, SystemAdvanceNonce
  <1>3. CASE i.kind \in {"SystemCreateAccount", "SystemCreateAccountWithSeed"}
    <2>1. Covers(i, {"lamports"})
      BY <1>3, FieldsWanted
    <2> QED
      BY <1>3, <2>1, Covered, Requested
        DEF TellsOf, SystemInfo, When, CreateAccount, CreateAccountFields,
            BaseAndSeed
  <1>4. CASE i.kind = "SystemInitializeNonceAccount"
    <2>1. Covers(i, {"new_authority"})
      BY <1>4, FieldsWanted
    <2> QED
      BY <1>4, <2>1, Covered, Requested DEF TellsOf, SystemInfo, When, InitializeNonce
  <1>5. CASE i.kind = "SystemWithdrawNonceAccount"
    <2>1. Covers(i, {"lamports", "to"})
      BY <1>5, FieldsWanted
    <2> QED
      BY <1>5, <2>1, Covered, Requested DEF TellsOf, SystemInfo, When, SystemWithdrawNonce
  <1>6. CASE i.kind = "SystemAuthorizeNonceAccount"
    <2>1. Covers(i, {"new_authority"})
      BY <1>6, FieldsWanted
    <2> QED
      BY <1>6, <2>1, Covered, Requested
        DEF TellsOf, SystemInfo, When, SystemAuthorizeNonce
  <1>7. CASE i.kind = "SystemAssign"
    <2>1. Covers(i, {})
      BY <1>7, FieldsWanted DEF LoudKinds
    <2> QED
      BY <1>7, <2>1, Covered, Requested DEF TellsOf, SystemInfo, When, SystemAssign
  <1>8. CASE i.kind = "SystemAllocate"
    <2>1. Covers(i, {})
      BY <1>8, FieldsWanted DEF LoudKinds
    <2> QED
      BY <1>8, <2>1, Covered, Requested DEF TellsOf, SystemInfo, When, SystemAllocate
  <1>9. CASE i.kind = "SystemAllocateWithSeed"
    <2>1. Covers(i, {})
      BY <1>9, FieldsWanted DEF LoudKinds
    <2> QED
      BY <1>9, <2>1, Covered, Requested
        DEF TellsOf, SystemInfo, When, AllocateWithSeed, BaseAndSeed
  <1> QED
    BY <1>1, <1>2, <1>3, <1>4, <1>5, <1>6, <1>7, <1>8, <1>9 DEF SystemKinds

\* Every printer of a Stake instruction tells it.
LEMMA StakeTells ==
  ASSUME NEW i, NEW c, i.kind \in StakeKinds
  PROVE  TellsOf(StakeInfo(i, c), i)
  <1>1. CASE i.kind = "StakeDelegate"
    <2>1. Covers(i, {"vote_account"})
      BY <1>1, FieldsWanted
    <2> QED
      BY <1>1, <2>1, Covered, Requested DEF TellsOf, StakeInfo, When, DelegateStake
  <1>2. CASE i.kind = "StakeWithdraw"
    <2>1. Covers(i, {"lamports", "to"})
      BY <1>2, FieldsWanted
    <2> QED
      BY <1>2, <2>1, Covered, Requested DEF TellsOf, StakeInfo, When, StakeWithdraw
  <1>3. CASE i.kind \in {"StakeAuthorize", "StakeAuthorizeChecked"}
    <2>1. Covers(i, {"new_authority"})
      BY <1>3, FieldsWanted
    <2> QED
      BY <1>3, <2>1, Covered, Requested DEF TellsOf, StakeInfo, When, StakeAuthorize
  <1>4. CASE i.kind = "StakeDeactivate"
    <2>1. Covers(i, {})
      BY <1>4, FieldsWanted DEF LoudKinds
    <2> QED
      BY <1>4, <2>1, Covered, Requested DEF TellsOf, StakeInfo, When, StakeDeactivate
  <1>5. CASE i.kind \in {"StakeSetLockup", "StakeSetLockupChecked"}
    <2>1. Covers(i, {})
      BY <1>5, FieldsWanted DEF LoudKinds
    <2> QED
      BY <1>5, <2>1, Covered, Requested DEF TellsOf, StakeInfo, When, StakeSetLockup
  <1>6. CASE i.kind = "StakeSplit"
    <2>1. Covers(i, {"lamports", "account", "split_account"})
      BY <1>6, FieldsWanted
    <2> QED
      BY <1>6, <2>1, Covered, Requested
        DEF TellsOf, StakeInfo, When, StakeSplit, StakeSplit1
  <1>7. CASE i.kind = "StakeMerge"
    <2>1. Covers(i, {"source", "destination"})
      BY <1>7, FieldsWanted
    <2> QED
      BY <1>7, <2>1, Covered, Requested DEF TellsOf, StakeInfo, When, StakeMerge
  <1>8. CASE i.kind \in {"StakeInitialize", "StakeInitializeChecked"}
    <2>1. StakeInfo(i, c) = Primary(i, "account") \o StakeInitialize(i, c)
      BY <1>8 DEF StakeInfo
    <2> QED
      BY <1>8, <2>1, StakeInitialized, TellsOn, Requested DEF TellsOf
  <1> QED
    BY <1>1, <1>2, <1>3, <1>4, <1>5, <1>6, <1>7, <1>8 DEF StakeKinds

\* Every printer of a Vote instruction tells it.
LEMMA VoteTells ==
  ASSUME NEW i, NEW c, i.kind \in VoteKinds
  PROVE  TellsOf(VoteInfo(i, c), i)
  <1>1. CASE i.kind = "VoteInitialize"
    <2>1. Covers(i, {"vote_authority", "withdraw_authority"})
      BY <1>1, FieldsWanted
    <2> QED
      BY <1>1, <2>1, Covered, Requested DEF TellsOf, VoteInfo, When, VoteInitialize
  <1>2. CASE i.kind = "VoteWithdraw"
    <2>1. Covers(i, {"lamports", "to"})
      BY <1>2, FieldsWanted
    <2> QED
      BY <1>2, <2>1, Covered, Requested DEF TellsOf, VoteInfo, When, VoteWithdraw
  <1>3. CASE i.kind \in {"VoteAuthorize", "VoteAuthorizeChecked"}
    <2>1. Covers(i, {"new_authority"})
      BY <1>3, FieldsWanted
    <2> QED
      BY <1>3, <2>1, Covered, Requested DEF TellsOf, VoteInfo, When, VoteUpdate
  <1>4. CASE i.kind = "VoteUpdateValidatorId"
    <2>1. Covers(i, {})
      BY <1>4, FieldsWanted DEF LoudKinds
    <2> QED
      BY <1>4, <2>1, Covered, Requested DEF TellsOf, VoteInfo, When, VoteUpdate
  <1>5. CASE i.kind = "VoteUpdateCommission"
    <2>1. Covers(i, {})
      BY <1>5, FieldsWanted DEF LoudKinds
    <2> QED
      BY <1>5, <2>1, Covered, Requested DEF TellsOf, VoteInfo, When, VoteUpdate
  <1> QED
    BY <1>1, <1>2, <1>3, <1>4, <1>5 DEF VoteKinds

\* The owner or the signers of a token instruction are told.
LEMMA TokenSigned ==
  ASSUME NEW i, NEW c
  PROVE  IsSequence(SplTokenSign(i, c))
  <1>1. CASE "multisig" \in i.has
    BY <1>1, Requested DEF SplTokenSign
  <1>2. CASE ~ "multisig" \in i.has
    BY <1>2, Requested DEF SplTokenSign, When
  <1> QED
    BY <1>1, <1>2

\* A token transfer is told, or the printer gives up.
LEMMA TransferTells ==
  ASSUME NEW i, NEW c,
         i.kind \in {"SplTransferChecked", "SplTransferCheckedWithFee"}
  PROVE  TellsOf(SplTransfer(i, c), i)
  <1>1. Covers(i, {"tokens", "to"}) /\ Covers(i, {"tokens", "dest_account"})
    BY FieldsWanted
  <1> DEFINE head == Primary(i, "tokens")
                       \o When(c.full \/ "unknownMint" \in i.has, General(i, "mint_account"))
             to == When(c.full \/ ~ c.ata, General(i, "to"))
             account == When(c.full \/ c.ata, General(i, "dest_account"))
             rest == When("fee" \in i.has, General(i, "fee_tokens"))
  <1>2. SplTransfer(i, c) = head \o to \o account \o rest \o SplTokenSign(i, c)
    BY DEF SplTransfer
  <1>3. IsSequence(head) /\ AsksFor(head, "primary") /\ Shows(head, i, "tokens")
    BY Requested DEF When
  <1>4. IsSequence(to) /\ IsSequence(account) /\ IsSequence(rest)
    BY Requested DEF When
  <1>5. Shows(to, i, "to") \/ Shows(account, i, "dest_account")
    BY Requested DEF When
  <1> HIDE DEF head, to, account, rest
  <1>6. /\ IsSequence(SplTransfer(i, c)) /\ AsksFor(SplTransfer(i, c), "primary")
        /\ Shows(SplTransfer(i, c), i, "tokens")
        /\ Shows(SplTransfer(i, c), i, "to") \/ Shows(SplTransfer(i, c), i, "dest_account")
    BY <1>2, <1>3, <1>4, <1>5, TokenSigned, Requested
  <1> QED
    BY <1>1, <1>6, Covered DEF TellsOf

\* Every printer of an SPL Token instruction tells it, or gives up.
LEMMA SplTokenTells ==
  ASSUME NEW i, NEW c, i.kind \in SplTokenKinds
  PROVE  TellsOf(SplTokenInfo(i, c), i)
  <1>1. CASE i.kind = "SplInitializeMint"
    <2>1. Covers(i, {"mint_authority"})
      BY <1>1, FieldsWanted
    <2> QED
      BY <1>1, <2>1, Covered, TokenSigned, Requested
        DEF TellsOf, SplTokenInfo, When, SplInitializeMint
  <1>2. CASE i.kind \in {"SplInitializeAccount", "SplInitializeAccount2"}
    <2>1. Covers(i, {"owner"})
      BY <1>2, FieldsWanted
    <2> QED
      BY <1>2, <2>1, Covered, TokenSigned, Requested
        DEF TellsOf, SplTokenInfo, When, SplInitializeAccount
  <1>3. CASE i.kind = "SplInitializeMultisig"
    <2>1. Covers(i, {})
      BY <1>3, FieldsWanted DEF LoudKinds
    <2> QED
      BY <1>3, <2>1, Covered, TokenSigned, Requested
        DEF TellsOf, SplTokenInfo, When, RequiredSigners
  <1>4. CASE i.kind = "SplRevoke"
    <2>1. Covers(i, {})
      BY <1>4, FieldsWanted DEF LoudKinds
    <2> QED
      BY <1>4, <2>1, Covered, TokenSigned, Requested DEF TellsOf, SplTokenInfo, When
  <1>5. CASE i.kind = "SplCloseAccount"
    <2>1. Covers(i, {"account", "dest_account"})
      BY <1>5, FieldsWanted
    <2> QED
      BY <1>5, <2>1, Covered, TokenSigned, Requested
        DEF TellsOf, SplTokenInfo, When, SplCloseAccount
  <1>6. CASE i.kind \in {"SplFreezeAccount", "SplThawAccount"}
    <2>1. Covers(i, {})
      BY <1>6, FieldsWanted DEF LoudKinds
    <2> QED
      BY <1>6, <2>1, Covered, TokenSigned, Requested
        DEF TellsOf, SplTokenInfo, When, SplFreezeOrThaw
  <1>7. CASE i.kind = "SplApproveChecked"
    <2>1. Covers(i, {"delegate", "tokens"})
      BY <1>7, FieldsWanted
    <2> QED
      BY <1>7, <2>1, Covered, TokenSigned, Requested
        DEF TellsOf, SplTokenInfo, When, SplApprove
  <1>8. CASE i.kind \in {"SplMintToChecked", "SplBurnChecked"}
    <2>1. Covers(i, {"tokens", "mint_account", "token_account"})
      BY <1>8, FieldsWanted
    <2> QED
      BY <1>8, <2>1, Covered, TokenSigned, Requested
        DEF TellsOf, SplTokenInfo, When, SplMintOrBurn
  <1>9. CASE i.kind = "SplSyncNative"
    <2>1. Covers(i, {})
      BY <1>9, FieldsWanted DEF LoudKinds
    <2> QED
      BY <1>9, <2>1, Covered, TokenSigned, Requested DEF TellsOf, SplTokenInfo, When
  <1>10. CASE i.kind \in {"SplTransferChecked", "SplTransferCheckedWithFee"}
    BY <1>10, TransferTells DEF SplTokenInfo
  <1>11. CASE i.kind = "SplSetAuthority"
    <2>1. Covers(i, IF "clear" \in i.has THEN {"account", "authority_type"}
                    ELSE {"account", "authority_type", "new_authority"})
      BY <1>11, FieldsWanted
    <2>2. CASE "clear" \in i.has
      BY <1>11, <2>1, <2>2, Covered, TokenSigned, Requested
         DEF TellsOf, SplTokenInfo, When, SplSetAuthority
    <2>3. CASE ~ "clear" \in i.has
      BY <1>11, <2>1, <2>3, Covered, TokenSigned, Requested
         DEF TellsOf, SplTokenInfo, When, SplSetAuthority
    <2> QED
      BY <2>2, <2>3
  <1> QED
    BY <1>1, <1>2, <1>3, <1>4, <1>5, <1>6, <1>7, <1>8, <1>9, <1>10, <1>11
       DEF SplTokenKinds

\* The printer of the associated token account tells it.
LEMMA TokenAccountTells ==
  ASSUME NEW i, i.kind = "SplAssociatedTokenAccount"
  PROVE  TellsOf(CreateTokenAccount(i), i)
  <1>1. Covers(i, {})
    BY FieldsWanted DEF LoudKinds
  <1> QED
    BY <1>1, Covered, Requested DEF TellsOf, CreateTokenAccount

-------------------------------------------------------------------------------
(* The printers of AgenC instructions. *)

\* A field is one of a sequence of them.
Among(fields, f) == \E n \in DOMAIN fields : fields[n] = f

\* What is among the whole is what is among the parts.
LEMMA AmongJoined ==
  \A a, b : IsSequence(a) /\ IsSequence(b) =>
    /\ IsSequence(a \o b)
    /\ \A f : Among(a \o b, f) <=> Among(a, f) \/ Among(b, f)
  <1> SUFFICES ASSUME NEW a, IsSequence(a), NEW b, IsSequence(b)
               PROVE  /\ IsSequence(a \o b)
                      /\ \A f : Among(a \o b, f) <=> Among(a, f) \/ Among(b, f)
    OBVIOUS
  <1> DEFINE t == a \o b
  <1>1. IsSequence(t)
    BY Concatenated
  <1>2. /\ DOMAIN a = 1..Len(a) /\ DOMAIN b = 1..Len(b) /\ DOMAIN t = 1..(Len(a) + Len(b))
        /\ Len(a) \in Nat /\ Len(b) \in Nat
        /\ \A n \in 1..(Len(a) + Len(b)) : t[n] = IF n <= Len(a) THEN a[n] ELSE b[n - Len(a)]
    <2>1. PICK A, B : a \in Seq(A) /\ b \in Seq(B)
      BY DEF IsSequence
    <2>2. a \in Seq(A \union B) /\ b \in Seq(A \union B)
      BY <2>1, SeqMonotonic
    <2> QED
      BY <2>2, ConcatProperties, LenProperties
  <1> HIDE DEF t
  <1>3. \A n \in DOMAIN a : n \in DOMAIN t /\ t[n] = a[n]
    BY <1>2
  <1>4. \A n \in DOMAIN b : n + Len(a) \in DOMAIN t /\ t[n + Len(a)] = b[n]
    BY <1>2
  <1>5. \A n \in DOMAIN t : (n \in DOMAIN a /\ t[n] = a[n])
                              \/ (n - Len(a) \in DOMAIN b /\ t[n] = b[n - Len(a)])
    BY <1>2
  <1>6. \A f : Among(t, f) <=> Among(a, f) \/ Among(b, f)
    BY <1>3, <1>4, <1>5 DEF Among
  <1> QED
    BY <1>1, <1>6 DEF t

\* Every field that is asked for in a row is shown.
LEMMA FieldsShow ==
  ASSUME NEW i, NEW fields, IsSequence(fields)
  PROVE  /\ IsSequence(Fields(i, fields))
         /\ \A f : Among(fields, f) => Shows(Fields(i, fields), i, f)
  <1>0. PICK T : fields \in Seq(T)
    BY DEF IsSequence
  <1> DEFINE R(f) == Request("general", Item({i}, f), TRUE)
             t == Fields(i, fields)
  <1>1. DOMAIN fields = 1..Len(fields) /\ Len(fields) \in Nat
    BY <1>0
  <1>2. t = [n \in 1..Len(fields) |-> R(fields[n])]
    BY DEF Fields
  <1>3. \A f : R(f).item.field = f /\ i.at \in R(f).item.of
    BY DEF Request, Item
  <1> HIDE DEF R
  <1>5. t \in Seq({R(f) : f \in T})
    <2>1. \A n \in 1..Len(fields) : R(fields[n]) \in {R(f) : f \in T}
      BY <1>0
    <2> HIDE DEF t
    <2> QED
      BY <1>1, <1>2, <2>1
  <1> HIDE DEF t
  <1>6. \A f : Among(fields, f) => Shows(t, i, f)
    BY <1>1, <1>2, <1>3 DEF Among, Shows
  <1> QED
    BY <1>5, <1>6 DEF IsSequence, t

\* A field asked for on a condition is the only one or none.
LEMMA OneOrNone ==
  ASSUME NEW condition, NEW r
  PROVE  IsSequence(When(condition, <<r>>))
  <1>1. CASE condition
    BY <1>1, OneRequest DEF When
  <1>2. CASE ~ condition
    BY <1>2, NoRequest DEF When
  <1> QED
    BY <1>1, <1>2

\* The action of an AgenC instruction is its primary item.
LEMMA ActionAsked ==
  ASSUME NEW i
  PROVE  /\ IsSequence(Action(i)) /\ AsksFor(Action(i), "primary")
         /\ Shows(Action(i), i, "action")
  <1>1. LET r == Request("primary", Item({i}, "action"), TRUE)
        IN r.slot = "primary" /\ r.item.field = "action" /\ i.at \in r.item.of
    BY DEF Request, Item
  <1> QED
    BY <1>1, OneRequest DEF Action

\* The action and the fields of an instruction are enough when they have those wanted.
LEMMA FieldsTold ==
  ASSUME NEW i, NEW wanted, Covers(i, wanted), NEW fields, IsSequence(fields),
         \A f \in wanted : Among(fields, f)
  PROVE  /\ IsSequence(Fields(i, fields)) /\ Tells(Fields(i, fields), i)
         /\ TellsOf(Action(i) \o Fields(i, fields), i)
         /\ Shows(Action(i) \o Fields(i, fields), i, "action")
  <1>1. IsSequence(Fields(i, fields)) /\ Tells(Fields(i, fields), i)
    BY FieldsShow, Covered
  <1> QED
    BY <1>1, ActionAsked, TellsOn, Requested DEF TellsOf

\* Every printer of an AgenC task instruction tells it.
LEMMA TaskTells ==
  ASSUME NEW i, i.kind = "AgencCreateTask"
  PROVE  /\ IsSequence(CreateTaskFields(i)) /\ Tells(CreateTaskFields(i), i)
         /\ TellsOf(Action(i) \o CreateTaskFields(i), i)
         /\ Shows(Action(i) \o CreateTaskFields(i), i, "action")
  <1> DEFINE a == IF "reward_mint" \in i.has THEN <<"reward", "reward_mint">>
                                             ELSE <<"reward">>
             b == <<"task", "creator", "description", "deadline", "max_workers">>
             d == When("task_type" \in i.has, <<"task_type">>)
             e == <<"min_reputation", "program_id">>
             t == a \o b \o d \o e
  <1>1. Covers(i, {"reward", "task", "description", "program_id"})
    BY FieldsWanted
  <1>2. IsSequence(a) /\ Among(a, "reward")
    <2>1. IsSequence(<<"reward">>) /\ Among(<<"reward">>, "reward")
      BY OneRequest DEF Among
    <2>2. /\ IsSequence(<<"reward", "reward_mint">>)
          /\ Among(<<"reward", "reward_mint">>, "reward")
      <3> DEFINE x == <<"reward", "reward_mint">>
      <3>1. x \in Seq({"reward", "reward_mint"}) /\ 1 \in DOMAIN x /\ x[1] = "reward"
        OBVIOUS
      <3> HIDE DEF x
      <3>2. IsSequence(x) /\ Among(x, "reward")
        BY <3>1 DEF Among, IsSequence
      <3> QED
        BY <3>2 DEF x
    <2>3. a = <<"reward", "reward_mint">> \/ a = <<"reward">>
      OBVIOUS
    <2> HIDE DEF a
    <2> QED
      BY <2>1, <2>2, <2>3
  <1>3. IsSequence(b) /\ Among(b, "task") /\ Among(b, "description")
    <2>1. b \in Seq({"task", "creator", "description", "deadline", "max_workers"})
      OBVIOUS
    <2>2. 1 \in DOMAIN b /\ b[1] = "task" /\ 3 \in DOMAIN b /\ b[3] = "description"
      OBVIOUS
    <2> HIDE DEF b
    <2> QED
      BY <2>1, <2>2 DEF Among, IsSequence
  <1>4. IsSequence(d)
    BY OneOrNone
  <1>5. IsSequence(e) /\ Among(e, "program_id")
    <2>1. e \in Seq({"min_reputation", "program_id"}) /\ 2 \in DOMAIN e /\ e[2] = "program_id"
      OBVIOUS
    <2> HIDE DEF e
    <2> QED
      BY <2>1 DEF Among, IsSequence
  <1> HIDE DEF a, b, d, e
  <1>6. IsSequence(t) /\ \A f \in {"reward", "task", "description", "program_id"} : Among(t, f)
    BY <1>2, <1>3, <1>4, <1>5, AmongJoined
  <1>7. CreateTaskFields(i) = Fields(i, t)
    BY DEF CreateTaskFields, a, b, d, e
  <1> HIDE DEF t
  <1> QED
    BY <1>1, <1>6, <1>7, FieldsTold

\* The program of an instruction comes last.
LEMMA ProgramLast ==
  ASSUME NEW i, i.kind # "AgencCreateTask", NEW wanted, Covers(i, wanted),
         IsSequence(AgencFields(i)), \A f \in wanted : Among(AgencFields(i), f)
  PROVE  TellsOf(AgencInfo(i), i) /\ Shows(AgencInfo(i), i, "action")
  <1> DEFINE t == AgencFields(i) \o <<"program_id">>
  <1>1. IsSequence(<<"program_id">>)
    BY OneRequest
  <1>2. IsSequence(t) /\ \A f \in wanted : Among(t, f)
    BY <1>1, AmongJoined
  <1> HIDE DEF t
  <1>3. TellsOf(Action(i) \o Fields(i, t), i) /\ Shows(Action(i) \o Fields(i, t), i, "action")
    BY <1>2, FieldsTold
  <1> QED
    BY <1>3 DEF AgencInfo, t

\* Every printer of an AgenC instruction tells it.
LEMMA AgencTells ==
  ASSUME NEW i, i.kind \in AgencKinds
  PROVE  TellsOf(AgencInfo(i), i) /\ Shows(AgencInfo(i), i, "action")
  <1>1. CASE i.kind = "AgencCreateTask"
    BY <1>1, TaskTells DEF AgencInfo
  <1>2. CASE i.kind = "AgencRegisterAgent"
    <2> DEFINE a == <<"stake", "agent", "authority", "capabilities", "endpoint">>
               b == When("metadata_uri" \in i.has, <<"metadata_uri">>)
    <2>1. AgencFields(i) = a \o b
      BY <1>2 DEF AgencFields
    <2>2. a \in Seq({"stake", "agent", "authority", "capabilities", "endpoint"})
      OBVIOUS
    <2>3. 1 \in DOMAIN a /\ a[1] = "stake" /\ 2 \in DOMAIN a /\ a[2] = "agent"
      OBVIOUS
    <2>4. Covers(i, {"stake", "agent"})
      BY <1>2, FieldsWanted
    <2>5. IsSequence(b)
      BY OneOrNone
    <2> HIDE DEF a, b
    <2>6. IsSequence(a) /\ \A f \in {"stake", "agent"} : Among(a, f)
      BY <2>2, <2>3 DEF IsSequence, Among
    <2>7. IsSequence(a \o b) /\ \A f \in {"stake", "agent"} : Among(a \o b, f)
      BY <2>5, <2>6, AmongJoined
    <2>8. IsSequence(AgencFields(i)) /\ \A f \in {"stake", "agent"} : Among(AgencFields(i), f)
      BY <2>1, <2>7
    <2> QED
      BY <1>2, <2>4, <2>8, ProgramLast
  <1>3. CASE i.kind = "AgencConfigureTaskValidation"
    <2> DEFINE a == <<"task", "mode", "review_window", "validator_quorum">>
               b == When("attestor" \in i.has, <<"attestor">>)
    <2>1. AgencFields(i) = a \o b
      BY <1>3 DEF AgencFields
    <2>2. a \in Seq({"task", "mode", "review_window", "validator_quorum"})
      OBVIOUS
    <2>3. 3 \in DOMAIN a /\ a[3] = "review_window"
      OBVIOUS
    <2>4. Covers(i, {"review_window"})
      BY <1>3, FieldsWanted
    <2>5. IsSequence(b)
      BY OneOrNone
    <2> HIDE DEF a, b
    <2>6. IsSequence(a) /\ \A f \in {"review_window"} : Among(a, f)
      BY <2>2, <2>3 DEF IsSequence, Among
    <2>7. IsSequence(a \o b) /\ \A f \in {"review_window"} : Among(a \o b, f)
      BY <2>5, <2>6, AmongJoined
    <2>8. IsSequence(AgencFields(i)) /\ \A f \in {"review_window"} : Among(AgencFields(i), f)
      BY <2>1, <2>7
    <2> QED
      BY <1>3, <2>4, <2>8, ProgramLast
  <1>4. CASE i.kind = "AgencSetTaskJobSpec"
    <2> DEFINE a == <<"job_spec_hash", "task", "creator", "job_spec_uri">>
    <2>1. AgencFields(i) = a
      BY <1>4 DEF AgencFields
    <2>2. a \in Seq({"job_spec_hash", "task", "creator", "job_spec_uri"})
      OBVIOUS
    <2>4. Covers(i, {})
      BY <1>4, FieldsWanted DEF LoudKinds
    <2> HIDE DEF a
    <2>6. IsSequence(a) /\ \A f \in {} : Among(a, f)
      BY <2>2 DEF IsSequence, Among
    <2> QED
      BY <1>4, <2>1, <2>4, <2>6, ProgramLast
  <1>5. CASE i.kind = "AgencClaimTaskWithJobSpec"
    <2> DEFINE a == <<"task", "worker", "authority", "claim">>
    <2>1. AgencFields(i) = a
      BY <1>5 DEF AgencFields
    <2>2. a \in Seq({"task", "worker", "authority", "claim"})
      OBVIOUS
    <2>4. Covers(i, {})
      BY <1>5, FieldsWanted DEF LoudKinds
    <2> HIDE DEF a
    <2>6. IsSequence(a) /\ \A f \in {} : Among(a, f)
      BY <2>2 DEF IsSequence, Among
    <2> QED
      BY <1>5, <2>1, <2>4, <2>6, ProgramLast
  <1>6. CASE i.kind = "AgencSubmitTaskResult"
    <2> DEFINE a == <<"proof_hash", "task", "worker", "submission", "result">>
    <2>1. AgencFields(i) = a
      BY <1>6 DEF AgencFields
    <2>2. a \in Seq({"proof_hash", "task", "worker", "submission", "result"})
      OBVIOUS
    <2>4. Covers(i, {})
      BY <1>6, FieldsWanted DEF LoudKinds
    <2> HIDE DEF a
    <2>6. IsSequence(a) /\ \A f \in {} : Among(a, f)
      BY <2>2 DEF IsSequence, Among
    <2> QED
      BY <1>6, <2>1, <2>4, <2>6, ProgramLast
  <1>7. CASE i.kind = "AgencAcceptTaskResult"
    <2> DEFINE a == <<"reward", "task", "worker", "worker_authority", "creator", "treasury">>
    <2>1. AgencFields(i) = a
      BY <1>7 DEF AgencFields
    <2>2. a \in Seq({"reward", "task", "worker", "worker_authority", "creator", "treasury"})
      OBVIOUS
    <2>3. 2 \in DOMAIN a /\ a[2] = "task" /\ 3 \in DOMAIN a /\ a[3] = "worker" /\ 6 \in DOMAIN a /\ a[6] = "treasury"
      OBVIOUS
    <2>4. Covers(i, {"task", "worker", "treasury"})
      BY <1>7, FieldsWanted
    <2> HIDE DEF a
    <2>6. IsSequence(a) /\ \A f \in {"task", "worker", "treasury"} : Among(a, f)
      BY <2>2, <2>3 DEF IsSequence, Among
    <2> QED
      BY <1>7, <2>1, <2>4, <2>6, ProgramLast
  <1>8. CASE i.kind = "AgencRejectTaskResult"
    <2> DEFINE a == <<"rejection_hash", "task", "worker", "worker_authority", "creator", "submission">>
    <2>1. AgencFields(i) = a
      BY <1>8 DEF AgencFields
    <2>2. a \in Seq({"rejection_hash", "task", "worker", "worker_authority", "creator", "submission"})
      OBVIOUS
    <2>4. Covers(i, {})
      BY <1>8, FieldsWanted DEF LoudKinds
    <2> HIDE DEF a
    <2>6. IsSequence(a) /\ \A f \in {} : Among(a, f)
      BY <2>2 DEF IsSequence, Among
    <2> QED
      BY <1>8, <2>1, <2>4, <2>6, ProgramLast
  <1>9. CASE i.kind = "AgencCancelTask"
    <2> DEFINE a == <<"refund", "task", "authority", "escrow", "worker_claims">>
    <2>1. AgencFields(i) = a
      BY <1>9 DEF AgencFields
    <2>2. a \in Seq({"refund", "task", "authority", "escrow", "worker_claims"})
      OBVIOUS
    <2>4. Covers(i, {})
      BY <1>9, FieldsWanted DEF LoudKinds
    <2> HIDE DEF a
    <2>6. IsSequence(a) /\ \A f \in {} : Among(a, f)
      BY <2>2 DEF IsSequence, Among
    <2> QED
      BY <1>9, <2>1, <2>4, <2>6, ProgramLast
  <1>10. CASE i.kind = "AgencExpireClaim"
    <2> DEFINE a == <<"task", "claim", "worker", "authority", "rent_recipient", "validation", "submission">>
    <2>1. AgencFields(i) = a
      BY <1>10 DEF AgencFields
    <2>2. a \in Seq({"task", "claim", "worker", "authority", "rent_recipient", "validation", "submission"})
      OBVIOUS
    <2>3. 2 \in DOMAIN a /\ a[2] = "claim" /\ 5 \in DOMAIN a /\ a[5] = "rent_recipient"
      OBVIOUS
    <2>4. Covers(i, {"claim", "rent_recipient"})
      BY <1>10, FieldsWanted
    <2> HIDE DEF a
    <2>6. IsSequence(a) /\ \A f \in {"claim", "rent_recipient"} : Among(a, f)
      BY <2>2, <2>3 DEF IsSequence, Among
    <2> QED
      BY <1>10, <2>1, <2>4, <2>6, ProgramLast
  <1> QED
    BY <1>1, <1>2, <1>3, <1>4, <1>5, <1>6, <1>7, <1>8, <1>9, <1>10 DEF AgencKinds

-------------------------------------------------------------------------------
(* One instruction, and the patterns of several. *)

\* The printer gives up, or asks for a primary item and for what i needs.
LEMMA InfoTells ==
  ASSUME NEW i, NEW c
  PROVE  \/ PrintInfo(i, c) = Bail
         \/ TellsOf(PrintInfo(i, c), i)
  <1>0. /\ i.kind \in SystemKinds => i.kind \notin StakeKinds \union VoteKinds \union SplTokenKinds
        /\ i.kind \in SystemKinds => i.kind \notin AgencKinds
        /\ i.kind \in StakeKinds => i.kind \notin VoteKinds \union SplTokenKinds \union AgencKinds
        /\ i.kind \in VoteKinds => i.kind \notin SplTokenKinds \union AgencKinds
        /\ i.kind \in SplTokenKinds => i.kind \notin AgencKinds
        /\ i.kind = "SplAssociatedTokenAccount" =>
             i.kind \notin SystemKinds \union StakeKinds \union VoteKinds \union SplTokenKinds
                              \union AgencKinds
    BY DEF SystemKinds, StakeKinds, VoteKinds, SplTokenKinds, AgencKinds
  <1>1. CASE i.kind \in SystemKinds
    BY <1>0, <1>1, SystemTells DEF PrintInfo
  <1>2. CASE i.kind \in StakeKinds
    BY <1>0, <1>2, StakeTells DEF PrintInfo
  <1>3. CASE i.kind \in VoteKinds
    BY <1>0, <1>3, VoteTells DEF PrintInfo
  <1>4. CASE i.kind \in SplTokenKinds
    BY <1>0, <1>4, SplTokenTells DEF PrintInfo
  <1>5. CASE i.kind = "SplAssociatedTokenAccount"
    BY <1>0, <1>5, TokenAccountTells DEF PrintInfo
  <1>6. CASE i.kind \in AgencKinds
    BY <1>0, <1>6, AgencTells DEF PrintInfo
  <1>7. CASE i.kind \notin SystemKinds \union StakeKinds \union VoteKinds \union SplTokenKinds
                             \union {"SplAssociatedTokenAccount"} \union AgencKinds
    BY <1>7 DEF PrintInfo
  <1> QED
    BY <1>1, <1>2, <1>3, <1>4, <1>5, <1>6, <1>7

\* Giving up is a sequence of requests that says so.
LEMMA BailAsked == IsSequence(Bail) /\ AsksFor(Bail, "bail")
  <1>1. Request("bail", NoField, TRUE).slot = "bail"
    BY DEF Request
  <1> QED
    BY <1>1, OneRequest DEF Bail

\* What NothingHidden wants of i in a pattern that ends with an instruction of kind last.
Told(rs, i, last, c) ==
  IF last = "StakeSplit" /\ (i.kind \in CreateKinds \/ (i.kind = "SystemTransfer" /\ ~ c.expert))
  THEN TRUE
  ELSE IF last = "StakeSplit" /\ i.kind = "SystemTransfer"
  THEN Shows(rs, i, "lamports") /\ Shows(rs, i, "from")
  ELSE Tells(rs, i)

Answers(rs, is, c) ==
  /\ IsSequence(rs)
  /\ \/ AsksFor(rs, "bail")
     \/ /\ AsksFor(rs, "primary")
        /\ \A k \in 1..Len(is) : Told(rs, is[k], is[Len(is)].kind, c)

\* The kinds of a sequence of instructions, one by one.
LEMMA KindsAre ==
  ASSUME NEW S, NEW is \in Seq(S)
  PROVE  /\ Len(KindsOf(is)) = Len(is) /\ Len(is) \in Nat
         /\ \A n \in 1..Len(is) : KindsOf(is)[n] = is[n].kind
  BY DEF KindsOf

\* An instruction with nothing to see is told by anything.
LEMMA QuietTells ==
  ASSUME NEW rs, NEW i, i.kind \notin LoudKinds
  PROVE  Tells(rs, i)
  <1>1. Covers(i, {})
    BY FieldsWanted
  <1> QED
    BY <1>1, Covered

\* What it is to tell all the instructions of a sequence.
LEMMA ToldWhen ==
  ASSUME NEW rs, NEW i, Tells(rs, i), NEW last, NEW c
  PROVE  last # "StakeSplit" \/ i.kind # "SystemTransfer" => Told(rs, i, last, c)
  BY DEF Told

\* One instruction.
LEMMA OneAnswers ==
  ASSUME NEW S, NEW is \in Seq(S), NEW c, Len(is) = 1
  PROVE  Answers(PrintInfo(is[1], c), is, c)
  <1>1. CASE PrintInfo(is[1], c) = Bail
    BY <1>1, BailAsked DEF Answers
  <1>2. CASE TellsOf(PrintInfo(is[1], c), is[1])
    <2>1. Told(PrintInfo(is[1], c), is[1], is[1].kind, c)
      BY <1>2, ToldWhen DEF TellsOf
    <2> QED
      BY <1>2, <2>1 DEF TellsOf, Answers
  <1> QED
    BY <1>1, <1>2, InfoTells

\* A stake or nonce account that is created is told.
LEMMA AccountCreated ==
  ASSUME NEW i, NEW c, NEW owner
  PROVE  /\ IsSequence(CreateAccount(i, c, owner))
         /\ Shows(CreateAccount(i, c, owner), i, "lamports")
         /\ i.kind \in CreateKinds => Tells(CreateAccount(i, c, owner), i)
  <1>1. /\ IsSequence(CreateAccount(i, c, owner))
        /\ Shows(CreateAccount(i, c, owner), i, "lamports")
    BY Requested DEF CreateAccount, CreateAccountFields, BaseAndSeed, When
  <1>2. i.kind \in CreateKinds => Covers(i, {"lamports"})
    BY FieldsWanted DEF CreateKinds
  <1> QED
    BY <1>1, <1>2, Covered

\* A vote account that is initialized is told.
LEMMA VoteInitialized ==
  ASSUME NEW i
  PROVE  /\ IsSequence(VoteInitialize(i)) /\ IsSequence(InitializeNonce(i))
         /\ i.kind = "VoteInitialize" => Tells(VoteInitialize(i), i)
         /\ i.kind = "SystemInitializeNonceAccount" => Tells(InitializeNonce(i), i)
  <1>1. /\ IsSequence(VoteInitialize(i)) /\ IsSequence(InitializeNonce(i))
        /\ \A f \in {"vote_authority", "withdraw_authority"} : Shows(VoteInitialize(i), i, f)
        /\ Shows(InitializeNonce(i), i, "new_authority")
    BY Requested DEF VoteInitialize, InitializeNonce
  <1>2. /\ i.kind = "VoteInitialize" => Covers(i, {"vote_authority", "withdraw_authority"})
        /\ i.kind = "SystemInitializeNonceAccount" => Covers(i, {"new_authority"})
    BY FieldsWanted
  <1> QED
    BY <1>1, <1>2, Covered

\* Creating a stake account, with or without a delegation, is answered.
LEMMA CreateStakeAnswers ==
  ASSUME NEW S, NEW is \in Seq(S), NEW c, IsCreateStake(KindsOf(is))
  PROVE  Answers(PrintCreateStake(is, c), is, c)
  <1>1. /\ Len(is) \in {2, 3} /\ is[1].kind \in CreateKinds
        /\ is[2].kind \in {"StakeInitialize", "StakeInitializeChecked"}
        /\ Len(is) = 3 => is[3].kind = "StakeDelegate"
    BY KindsAre DEF IsCreateStake
  <1> DEFINE primary == Primary(is[1], "to")
             create == CreateAccount(is[1], c, FALSE)
             initialize == StakeInitialize(is[2], c)
             delegate == When(Len(is) = 3, DelegateStake(is[3], c))
             rs == primary \o create \o initialize \o delegate
  <1>2. IsSequence(primary) /\ AsksFor(primary, "primary")
    BY Requested
  <1>3. IsSequence(create) /\ Tells(create, is[1])
    BY <1>1, AccountCreated
  <1>4. IsSequence(initialize) /\ Tells(initialize, is[2])
    BY <1>1, StakeInitialized
  <1>5. IsSequence(delegate) /\ (Len(is) = 3 => Tells(delegate, is[3]))
    <2>1. CASE Len(is) = 3
      <3>1. Covers(is[3], {"vote_account"})
        BY <1>1, <2>1, FieldsWanted
      <3> QED
        BY <2>1, <3>1, Covered, Requested DEF When, DelegateStake
    <2>2. CASE Len(is) # 3
      BY <2>2, Requested DEF When
    <2> QED
      BY <2>1, <2>2
  <1> HIDE DEF primary, create, initialize, delegate
  <1>6. /\ IsSequence(primary \o create) /\ Tells(primary \o create, is[1])
        /\ AsksFor(primary \o create, "primary")
    BY <1>2, <1>3, Requested, TellsOn
  <1>7. /\ IsSequence(rs) /\ AsksFor(rs, "primary")
        /\ Tells(rs, is[1]) /\ Tells(rs, is[2])
        /\ Len(is) = 3 => Tells(rs, is[3])
    <2> DEFINE pc == primary \o create
    <2> HIDE DEF pc
    <2>1. /\ IsSequence(pc \o initialize) /\ AsksFor(pc \o initialize, "primary")
          /\ Tells(pc \o initialize, is[1]) /\ Tells(pc \o initialize, is[2])
      BY <1>4, <1>6, Requested, TellsOn DEF pc
    <2> DEFINE pci == pc \o initialize
    <2> HIDE DEF pci
    <2>2. /\ IsSequence(pci \o delegate) /\ AsksFor(pci \o delegate, "primary")
          /\ Tells(pci \o delegate, is[1]) /\ Tells(pci \o delegate, is[2])
          /\ Len(is) = 3 => Tells(pci \o delegate, is[3])
      BY <1>5, <2>1, Requested, TellsOn DEF pci
    <2> QED
      BY <2>2 DEF pci, pc
  <1> HIDE DEF rs
  <1>8. \A k \in 1..Len(is) : Told(rs, is[k], is[Len(is)].kind, c)
    <2>1. \A k \in 1..Len(is) : Tells(rs, is[k])
      BY <1>1, <1>7
    <2>2. is[Len(is)].kind # "StakeSplit"
      BY <1>1
    <2> QED
      BY <2>1, <2>2 DEF Told
  <1> QED
    BY <1>7, <1>8 DEF Answers, rs, PrintCreateStake, primary, create, initialize, delegate

\* Creating a nonce or a vote account is answered.
LEMMA CreateOtherAnswers ==
  ASSUME NEW S, NEW is \in Seq(S), NEW c, IsCreateOther(KindsOf(is))
  PROVE  Answers(PrintCreateOther(is, c), is, c)
  <1>1. /\ Len(is) = 2 /\ is[1].kind \in CreateKinds
        /\ is[2].kind \in {"SystemInitializeNonceAccount", "VoteInitialize"}
    BY KindsAre DEF IsCreateOther
  <1> DEFINE primary == Primary(is[1], "to")
             create == CreateAccount(is[1], c, FALSE)
             initialize == IF is[2].kind = "VoteInitialize" THEN VoteInitialize(is[2])
                                                            ELSE InitializeNonce(is[2])
             pc == primary \o create
             rs == pc \o initialize
  <1>2. IsSequence(primary) /\ AsksFor(primary, "primary")
    BY Requested
  <1>3. IsSequence(create) /\ Tells(create, is[1])
    BY <1>1, AccountCreated
  <1>4. IsSequence(initialize) /\ Tells(initialize, is[2])
    BY <1>1, VoteInitialized
  <1> HIDE DEF primary, create, initialize
  <1>5. IsSequence(pc) /\ Tells(pc, is[1]) /\ AsksFor(pc, "primary")
    BY <1>2, <1>3, Requested, TellsOn
  <1> HIDE DEF pc
  <1>6. IsSequence(rs) /\ Tells(rs, is[1]) /\ Tells(rs, is[2]) /\ AsksFor(rs, "primary")
    BY <1>4, <1>5, Requested, TellsOn
  <1> HIDE DEF rs
  <1>7. \A k \in 1..Len(is) : Told(rs, is[k], is[Len(is)].kind, c)
    BY <1>1, <1>6 DEF Told
  <1> QED
    BY <1>6, <1>7 DEF Answers, rs, pc, PrintCreateOther, primary, create, initialize

\* Changing both authorities of an account is answered.
LEMMA AuthorizeAnswers ==
  ASSUME NEW S, NEW is \in Seq(S), NEW c, IsAuthorizeBoth(KindsOf(is))
  PROVE  Answers(PrintAuthorizeBoth(is, c), is, c)
  <1>1. /\ Len(is) = 2 /\ is[1].kind = is[2].kind
        /\ is[1].kind \in {"StakeAuthorize", "StakeAuthorizeChecked",
                           "VoteAuthorize", "VoteAuthorizeChecked"}
    BY KindsAre DEF IsAuthorizeBoth
  <1>2. CASE "withdrawer" \in is[1].has \/ "withdrawer" \notin is[2].has
    BY <1>2, BailAsked DEF PrintAuthorizeBoth, Answers
  <1>3. CASE ~ ("withdrawer" \in is[1].has \/ "withdrawer" \notin is[2].has)
    <2> DEFINE primary == Primary(is[1], "account")
               both == <<Request("general", Item({is[1], is[2]}, "new_authority"), FALSE)>>
               news == IF "sameAuthority" \in is[2].has THEN both
                       ELSE General(is[1], "new_authority") \o General(is[2], "new_authority")
               custodian == When("custodian" \in is[2].has, General(is[2], "custodian"))
               authority == Authority(is[2], c)
               rs == primary \o news \o custodian \o authority
    <2>1. IsSequence(primary) /\ AsksFor(primary, "primary")
      BY Requested
    <2>2. /\ IsSequence(both) /\ Shows(both, is[1], "new_authority")
          /\ Shows(both, is[2], "new_authority")
      <3> DEFINE r == Request("general", Item({is[1], is[2]}, "new_authority"), FALSE)
      <3>1. r.item.field = "new_authority" /\ is[1].at \in r.item.of /\ is[2].at \in r.item.of
        BY DEF Request, Item
      <3> HIDE DEF r
      <3> QED
        BY <3>1, OneRequest DEF r
    <2> HIDE DEF both
    <2>3. /\ IsSequence(news) /\ Shows(news, is[1], "new_authority")
          /\ Shows(news, is[2], "new_authority")
      BY <2>2, Requested
    <2>4. IsSequence(custodian) /\ IsSequence(authority)
      BY Requested DEF When
    <2> HIDE DEF primary, news, custodian, authority
    <2>5. /\ IsSequence(rs) /\ AsksFor(rs, "primary")
          /\ Shows(rs, is[1], "new_authority") /\ Shows(rs, is[2], "new_authority")
      BY <2>1, <2>3, <2>4, Requested
    <2>6. PrintAuthorizeBoth(is, c) = rs
      BY <1>3 DEF PrintAuthorizeBoth, primary, news, both, custodian, authority
    <2> HIDE DEF rs
    <2>7. Covers(is[1], {"new_authority"}) /\ Covers(is[2], {"new_authority"})
      BY <1>1, FieldsWanted
    <2>8. Tells(rs, is[1]) /\ Tells(rs, is[2])
      BY <2>5, <2>7, Covered
    <2>9. \A k \in 1..Len(is) : Told(rs, is[k], is[Len(is)].kind, c)
      BY <1>1, <2>8 DEF Told
    <2> QED
      BY <2>5, <2>6, <2>9 DEF Answers
  <1> QED
    BY <1>2, <1>3

\* The transfer that funds a split is told to an expert.
LEMMA Prefunded ==
  ASSUME NEW is, NEW c
  PROVE  /\ IsSequence(Prefund(is, c))
         /\ is[1].kind = "SystemTransfer" /\ c.expert =>
              Shows(Prefund(is, c), is[1], "lamports") /\ Shows(Prefund(is, c), is[1], "from")
  <1>1. CASE is[1].kind = "SystemTransfer" /\ c.expert
    BY <1>1, Requested DEF Prefund, SystemPrefundForSplit, When
  <1>2. CASE ~ (is[1].kind = "SystemTransfer" /\ c.expert)
    BY <1>2, Requested DEF Prefund, SystemPrefundForSplit, When
  <1> QED
    BY <1>1, <1>2

\* The end of a split: the transfer that may come first is told of by the
\* prefund, what prepares the account by nothing, the split by its own fields.
LEMMA SplitAnswers ==
  ASSUME NEW S, NEW is \in Seq(S), NEW c, Len(is) \in {2, 3, 4},
         is[Len(is)].kind = "StakeSplit",
         \A k \in 2..(Len(is) - 1) : is[k].kind \notin LoudKinds,
         is[1].kind \in CreateKinds \union {"SystemTransfer"} \/ is[1].kind \notin LoudKinds,
         NEW rest, IsSequence(rest), AsksFor(rest, "primary"), Tells(rest, is[Len(is)])
  PROVE  Answers(Prefund(is, c) \o rest, is, c)
  <1> DEFINE rs == Prefund(is, c) \o rest
  <1>1. /\ IsSequence(rs) /\ AsksFor(rs, "primary") /\ Tells(rs, is[Len(is)])
        /\ is[1].kind = "SystemTransfer" /\ c.expert =>
             Shows(rs, is[1], "lamports") /\ Shows(rs, is[1], "from")
    BY Prefunded, Requested, TellsOn
  <1> HIDE DEF rs
  <1>2. Told(rs, is[1], "StakeSplit", c)
    <2>1. CASE is[1].kind \in CreateKinds \union {"SystemTransfer"}
      BY <1>1, <2>1 DEF Told
    <2>2. CASE is[1].kind \notin LoudKinds
      BY <2>2, QuietTells DEF Told, LoudKinds
    <2> QED
      BY <2>1, <2>2
  <1>3. ASSUME NEW k \in 2..(Len(is) - 1) PROVE Told(rs, is[k], "StakeSplit", c)
    BY <1>3, QuietTells DEF Told, LoudKinds
  <1>4. Told(rs, is[Len(is)], "StakeSplit", c)
    BY <1>1 DEF Told, CreateKinds
  <1>5. \A k \in 1..Len(is) : k = 1 \/ k = Len(is) \/ k \in 2..(Len(is) - 1)
    OBVIOUS
  <1>6. \A k \in 1..Len(is) : Told(rs, is[k], is[Len(is)].kind, c)
    BY <1>2, <1>3, <1>4, <1>5
  <1> QED
    BY <1>1, <1>6 DEF Answers, rs

\* A split is told by its own fields.
LEMMA SplitTells ==
  ASSUME NEW i, i.kind = "StakeSplit"
  PROVE  IsSequence(StakeSplit1(i)) /\ AsksFor(StakeSplit1(i), "primary") /\ Tells(StakeSplit1(i), i)
  <1>1. Covers(i, {"lamports", "account", "split_account"})
    BY FieldsWanted
  <1> QED
    BY <1>1, Covered, Requested DEF StakeSplit1

\* Splitting a stake account is answered.
LEMMA StakeSplitAnswers ==
  ASSUME NEW S, NEW is \in Seq(S), NEW c,
         IsStakeSplit(KindsOf(is)) \/ IsStakeSplitWithSeed(KindsOf(is))
  PROVE  /\ Answers(PrintStakeSplit(is, c), is, c)
         /\ Answers(PrintStakeSplitWithSeed(is, c), is, c)
  <1> DEFINE ks == KindsOf(is)
  <1>1. /\ Len(ks) = Len(is) /\ Len(is) \in Nat
        /\ \A n \in 1..Len(is) : ks[n] = is[n].kind
    BY KindsAre
  <1>2. \/ /\ Len(ks) = 2 /\ ks[2] = "StakeSplit"
           /\ ks[1] \in {"SystemCreateAccount", "SystemAllocateWithSeed",
                         "SystemCreateAccountWithSeed"}
        \/ /\ Len(ks) = 3 /\ ks[3] = "StakeSplit"
           /\ ks[1] \in {"SystemAllocate", "SystemTransfer"}
           /\ ks[2] \in {"SystemAssign", "SystemAllocateWithSeed"}
        \/ /\ Len(ks) = 4 /\ ks[4] = "StakeSplit" /\ ks[1] = "SystemTransfer"
           /\ ks[2] = "SystemAllocate" /\ ks[3] = "SystemAssign"
    <2> HIDE DEF ks
    <2>1. ks \in {<<"SystemAllocate", "SystemAssign", "StakeSplit">>,
                  <<"SystemCreateAccount", "StakeSplit">>,
                  <<"SystemTransfer", "SystemAllocate", "SystemAssign", "StakeSplit">>,
                  <<"SystemAllocateWithSeed", "StakeSplit">>,
                  <<"SystemCreateAccountWithSeed", "StakeSplit">>,
                  <<"SystemTransfer", "SystemAllocateWithSeed", "StakeSplit">>}
      BY DEF ks, IsStakeSplit, IsStakeSplitWithSeed
    <2> QED
      BY <2>1
  <1> HIDE DEF ks
  <1>3. /\ Len(is) \in {2, 3, 4} /\ is[Len(is)].kind = "StakeSplit"
        /\ \A k \in 2..(Len(is) - 1) : is[k].kind \notin LoudKinds
        /\ is[1].kind \in CreateKinds \union {"SystemTransfer"} \/ is[1].kind \notin LoudKinds
    BY <1>1, <1>2 DEF LoudKinds, CreateKinds
  <1>4. Last(is) = is[Len(is)]
    BY DEF Last
  <1> DEFINE last == is[Len(is)]
             split == StakeSplit1(last)
             authority == Authority(last, c)
             base == BaseAndSeed(is[Len(is) - 1], c)
             brief == split \o authority
             prefund == Prefund(is, c)
  <1>5. IsSequence(split) /\ AsksFor(split, "primary") /\ Tells(split, last)
    BY <1>3, SplitTells
  <1>6. IsSequence(authority) /\ IsSequence(base) /\ IsSequence(prefund)
    BY Requested, Prefunded DEF BaseAndSeed, When
  <1> HIDE DEF split, authority, base
  <1>7. IsSequence(brief) /\ AsksFor(brief, "primary") /\ Tells(brief, last)
    BY <1>5, <1>6, Requested, TellsOn
  <1>8. /\ IsSequence((split \o base) \o authority) /\ AsksFor((split \o base) \o authority, "primary")
        /\ Tells((split \o base) \o authority, last)
    <2> DEFINE t == split \o base
    <2>1. IsSequence(t) /\ AsksFor(t, "primary") /\ Tells(t, last)
      BY <1>5, <1>6, Requested, TellsOn
    <2> HIDE DEF t
    <2>2. IsSequence(t \o authority) /\ AsksFor(t \o authority, "primary") /\ Tells(t \o authority, last)
      BY <1>6, <2>1, Requested, TellsOn
    <2> QED
      BY <2>2 DEF t
  <1> DEFINE seeded == (split \o base) \o authority
  <1> HIDE DEF prefund, brief, seeded
  <1>9. Answers(prefund \o brief, is, c) /\ Answers(prefund \o seeded, is, c)
    BY <1>3, <1>7, <1>8, SplitAnswers DEF prefund, brief, seeded
  <1>10. PrintStakeSplit(is, c) = prefund \o brief
    BY <1>4 DEF PrintStakeSplit, prefund, brief, split, authority, StakeSplit
  <1>11. PrintStakeSplitWithSeed(is, c) = prefund \o seeded
    <2>1. PrintStakeSplitWithSeed(is, c) = ((prefund \o split) \o base) \o authority
      BY <1>4 DEF PrintStakeSplitWithSeed, prefund, split, base, authority
    <2>2. ((prefund \o split) \o base) \o authority = prefund \o ((split \o base) \o authority)
      <3>1. PICK T : prefund \in Seq(T) /\ split \in Seq(T) /\ base \in Seq(T) /\ authority \in Seq(T)
        <4>1. PICK A, B, D, E : /\ prefund \in Seq(A) /\ split \in Seq(B)
                                /\ base \in Seq(D) /\ authority \in Seq(E)
          BY <1>5, <1>6 DEF IsSequence, prefund
        <4> DEFINE T == A \union B \union D \union E
        <4>2. prefund \in Seq(T) /\ split \in Seq(T) /\ base \in Seq(T) /\ authority \in Seq(T)
          BY <4>1, SeqMonotonic
        <4> QED
          BY <4>2
      <3>2. /\ (prefund \o split) \o base = prefund \o (split \o base)
            /\ split \o base \in Seq(T)
        BY <3>1, ConcatAssociative, ConcatProperties
      <3>3. (prefund \o (split \o base)) \o authority = prefund \o ((split \o base) \o authority)
        BY <3>1, <3>2, ConcatAssociative
      <3> QED
        BY <3>2, <3>3
    <2> QED
      BY <2>1, <2>2 DEF seeded
  <1> QED
    BY <1>9, <1>10, <1>11

\* Creating a token mint, account or multisig is answered.
LEMMA SplCreateAnswers ==
  ASSUME NEW S, NEW is \in Seq(S), NEW c, IsSplCreate(KindsOf(is))
  PROVE  Answers(PrintSplCreate(is, c), is, c)
  <1>1. /\ Len(is) = 2 /\ is[1].kind = "SystemCreateAccount"
        /\ is[2].kind \in {"SplInitializeMint", "SplInitializeAccount",
                           "SplInitializeAccount2", "SplInitializeMultisig"}
    BY KindsAre DEF IsSplCreate
  <1> DEFINE initialize == CASE is[2].kind = "SplInitializeMint" -> SplInitializeMint(is[2])
                             [] is[2].kind = "SplInitializeMultisig" ->
                                  Primary(is[2], "account") \o RequiredSigners(is[2])
                             [] OTHER -> SplInitializeAccount(is[2])
             from == When(ShowAuthority(is[1], c), General(is[1], "from"))
             lamports == General(is[1], "lamports")
             rs == (initialize \o from) \o lamports
  <1>2. TellsOf(initialize, is[2])
    <2>1. initialize = SplTokenInfo(is[2], c)
      BY <1>1 DEF SplTokenInfo
    <2>2. is[2].kind \in SplTokenKinds
      BY <1>1 DEF SplTokenKinds
    <2> HIDE DEF initialize
    <2>3. TellsOf(SplTokenInfo(is[2], c), is[2])
      BY <2>2, SplTokenTells
    <2> QED
      BY <2>1, <2>3
  <1>3. IsSequence(from) /\ IsSequence(lamports) /\ Shows(lamports, is[1], "lamports")
    BY Requested DEF When
  <1> HIDE DEF initialize, from, lamports
  <1>4. /\ IsSequence(rs) /\ AsksFor(rs, "primary") /\ Shows(rs, is[1], "lamports")
        /\ Tells(rs, is[2])
    <2> DEFINE t == initialize \o from
    <2>1. IsSequence(t) /\ AsksFor(t, "primary") /\ Tells(t, is[2])
      BY <1>2, <1>3, Requested, TellsOn DEF TellsOf
    <2> HIDE DEF t
    <2>2. /\ IsSequence(t \o lamports) /\ AsksFor(t \o lamports, "primary")
          /\ Shows(t \o lamports, is[1], "lamports") /\ Tells(t \o lamports, is[2])
      BY <1>3, <2>1, Requested, TellsOn
    <2> QED
      BY <2>2 DEF t
  <1>5. PrintSplCreate(is, c) = rs
    BY DEF PrintSplCreate, initialize, from, lamports
  <1> HIDE DEF rs
  <1>6. Tells(rs, is[1])
    <2>1. Covers(is[1], {"lamports"})
      BY <1>1, FieldsWanted
    <2> QED
      BY <1>4, <2>1, Covered
  <1>7. \A k \in 1..Len(is) : Told(rs, is[k], is[Len(is)].kind, c)
    BY <1>1, <1>4, <1>6 DEF Told
  <1> QED
    BY <1>4, <1>5, <1>7 DEF Answers

\* Creating a token account before a transfer to it is answered.
LEMMA CreateWithTransferAnswers ==
  ASSUME NEW S, NEW is \in Seq(S), NEW c, IsCreateWithTransfer(KindsOf(is))
  PROVE  Answers(SplTransfer(is[2], c), is, c)
  <1>1. /\ Len(is) = 2 /\ is[1].kind = "SplAssociatedTokenAccount"
        /\ is[2].kind \in {"SplTransferChecked", "SplTransferCheckedWithFee"}
    BY KindsAre DEF IsCreateWithTransfer
  <1>2. TellsOf(SplTransfer(is[2], c), is[2])
    BY <1>1, TransferTells
  <1>3. Tells(SplTransfer(is[2], c), is[1])
    BY <1>1, QuietTells DEF LoudKinds
  <1>4. \A k \in 1..Len(is) : Told(SplTransfer(is[2], c), is[k], is[Len(is)].kind, c)
    BY <1>1, <1>2, <1>3 DEF Told, TellsOf
  <1> QED
    BY <1>2, <1>4 DEF Answers, TellsOf

\* Creating a task before other AgenC instructions is answered.
LEMMA CreateTaskAnswers ==
  ASSUME NEW S, NEW is \in Seq(S), NEW c, IsCreateTaskWithReview(KindsOf(is))
  PROVE  Answers(CreateTaskWithReview(is[1], is[2]), is, c)
  <1>1. /\ Len(is) = 2 /\ is[1].kind = "AgencCreateTask"
        /\ is[2].kind = "AgencConfigureTaskValidation"
    BY KindsAre DEF IsCreateTaskWithReview
  <1>2. CASE is[2].has \intersect {"otherTask", "otherMode", "attestor"} # {}
    BY <1>2, BailAsked DEF CreateTaskWithReview, Answers
  <1>3. CASE ~ is[2].has \intersect {"otherTask", "otherMode", "attestor"} # {}
    <2> DEFINE task == Action(is[1]) \o CreateTaskFields(is[1])
               window == Fields(is[2], <<"review_window">>)
               rs == task \o window
    <2>1. TellsOf(task, is[1])
      BY <1>1, TaskTells
    <2>2. IsSequence(window) /\ Tells(window, is[2])
      <3>1. Covers(is[2], {"review_window"})
        BY <1>1, FieldsWanted
      <3>2. IsSequence(<<"review_window">>) /\ Among(<<"review_window">>, "review_window")
        BY OneRequest DEF Among
      <3> QED
        BY <3>1, <3>2, FieldsTold
    <2> HIDE DEF task, window
    <2>3. IsSequence(rs) /\ AsksFor(rs, "primary") /\ Tells(rs, is[1]) /\ Tells(rs, is[2])
      BY <2>1, <2>2, Requested, TellsOn DEF TellsOf
    <2>4. CreateTaskWithReview(is[1], is[2]) = rs
      BY <1>3 DEF CreateTaskWithReview, task, window
    <2> HIDE DEF rs
    <2>5. \A k \in 1..Len(is) : Told(rs, is[k], is[Len(is)].kind, c)
      BY <1>1, <2>3 DEF Told
    <2> QED
      BY <2>3, <2>4, <2>5 DEF Answers
  <1> QED
    BY <1>2, <1>3

-------------------------------------------------------------------------------
(* Transactions. *)

\* print_transaction answers every pattern: it gives up or tells the instructions.
LEMMA PatternAnswers ==
  ASSUME NEW S, NEW is \in Seq(S), NEW c
  PROVE  Answers(PrintPattern(is, c), is, c)
  <1> DEFINE ks == KindsOf(is)
             a1 == PrintInfo(is[1], c)
             a2 == PrintCreateStake(is, c)
             a3 == PrintCreateOther(is, c)
             a4 == PrintAuthorizeBoth(is, c)
             a5 == PrintStakeSplit(is, c)
             a6 == PrintStakeSplitWithSeed(is, c)
             a7 == PrintSplCreate(is, c)
             a8 == SplTransfer(is[2], c)
             a9 == CreateTaskWithReview(is[1], is[2])
  <1>1. /\ Len(is) = 1 => Answers(a1, is, c)
        /\ IsCreateStake(ks) => Answers(a2, is, c)
        /\ IsCreateOther(ks) => Answers(a3, is, c)
        /\ IsAuthorizeBoth(ks) => Answers(a4, is, c)
        /\ IsStakeSplit(ks) => Answers(a5, is, c)
        /\ IsStakeSplitWithSeed(ks) => Answers(a6, is, c)
        /\ IsSplCreate(ks) => Answers(a7, is, c)
        /\ IsCreateWithTransfer(ks) => Answers(a8, is, c)
        /\ IsCreateTaskWithReview(ks) => Answers(a9, is, c)
        /\ Answers(Bail, is, c)
    BY OneAnswers, CreateStakeAnswers, CreateOtherAnswers, AuthorizeAnswers,
       StakeSplitAnswers,
       SplCreateAnswers, CreateWithTransferAnswers, CreateTaskAnswers, BailAsked DEF Answers
  <1>2. PrintPattern(is, c) = CASE Len(is) = 1 -> a1
       [] IsCreateStake(ks) -> a2
       [] IsCreateOther(ks) -> a3
       [] IsAuthorizeBoth(ks) -> a4
       [] IsStakeSplit(ks) -> a5
       [] IsStakeSplitWithSeed(ks) -> a6
       [] IsSplCreate(ks) -> a7
       [] IsCreateWithTransfer(ks) -> a8
       [] IsCreateTaskWithReview(ks) -> a9
       [] OTHER -> Bail
    BY DEF PrintPattern
  <1> HIDE DEF a1, a2, a3, a4, a5, a6, a7, a8, a9, ks
  <1> QED
    BY <1>1, <1>2

\* The compute budget instructions set aside are the first ones.
LEMMA LeadingAreBudget ==
  ASSUME NEW S, NEW is \in Seq(S)
  PROVE  /\ LeadingComputeBudget(is) \in 0..Len(is)
         /\ \A k \in 1..LeadingComputeBudget(is) : is[k].kind \in ComputeBudgetKinds
         /\ Len(is) = 1 => LeadingComputeBudget(is) = 0
  <1> DEFINE Good(n) == \A k \in 1..n : is[k].kind \in ComputeBudgetKinds
             A == {j \in Nat : \E m \in 0..j : {n \in 1..j : Good(n)} = 1..m}
  <1>1. Len(is) \in Nat /\ DOMAIN is = 1..Len(is)
    OBVIOUS
  <1> HIDE DEF Good
  <1>2. 0 \in A
    OBVIOUS
  <1>3. ASSUME NEW j \in Nat, j \in A PROVE j + 1 \in A
    <2>1. PICK m \in 0..j : {n \in 1..j : Good(n)} = 1..m
      BY <1>3
    <2>2. CASE Good(j + 1)
      <3>1. {n \in 1..(j + 1) : Good(n)} = 1..(j + 1)
        BY <2>2 DEF Good
      <3> QED
        BY <3>1
    <2>3. CASE ~ Good(j + 1)
      <3>1. {n \in 1..(j + 1) : Good(n)} = {n \in 1..j : Good(n)}
        BY <2>3
      <3> QED
        BY <2>1, <3>1
    <2> QED
      BY <2>2, <2>3
  <1>4. Nat \subseteq A
    <2> HIDE DEF A
    <2> QED
      BY <1>2, <1>3, Induction
  <1>5. PICK m \in 0..Len(is) : {n \in 1..Len(is) : Good(n)} = 1..m
    BY <1>1, <1>4
  <1>6. Cardinality(1..m) = m
    BY FS_Interval
  <1>7. LeadingComputeBudget(is) = IF Len(is) <= 1 THEN 0 ELSE m
    BY <1>1, <1>5, <1>6 DEF LeadingComputeBudget, Good
  <1>8. \A k \in 1..m : is[k].kind \in ComputeBudgetKinds
    <2>1. m \in Nat /\ (m \in 1..m \/ m = 0)
      BY <1>1
    <2>2. m # 0 => Good(m)
      BY <1>5, <2>1
    <2> QED
      BY <2>1, <2>2 DEF Good
  <1> QED
    BY <1>1, <1>7, <1>8

\* What is told stays told when more is asked for.
LEMMA AnswersOn ==
  ASSUME NEW a, NEW b, NEW is, NEW c, IsSequence(a), IsSequence(b),
         Answers(a, is, c) \/ Answers(b, is, c)
  PROVE  Answers(a \o b, is, c)
  <1> DEFINE t == a \o b
  <1>1. /\ IsSequence(t)
        /\ \A slot : AsksFor(a, slot) \/ AsksFor(b, slot) => AsksFor(t, slot)
        /\ \A i, f : Shows(a, i, f) \/ Shows(b, i, f) => Shows(t, i, f)
        /\ \A i : Tells(a, i) \/ Tells(b, i) => Tells(t, i)
    BY Requested, TellsOn
  <1> HIDE DEF t
  <1>2. \A i, last : Told(a, i, last, c) \/ Told(b, i, last, c) => Told(t, i, last, c)
    BY <1>1 DEF Told
  <1>3. Answers(t, is, c)
    BY <1>1, <1>2 DEF Answers
  <1> QED
    BY <1>3 DEF t

\* What no user has to see may come first.
LEMMA AnswersMore ==
  ASSUME NEW S, NEW is \in Seq(S), NEW first \in 0..Len(is),
         \A k \in 1..first : is[k].kind \notin LoudKinds,
         NEW rs, NEW c, Answers(rs, SubSeq(is, first + 1, Len(is)), c)
  PROVE  Answers(rs, is, c)
  <1> DEFINE shown == SubSeq(is, first + 1, Len(is))
  <1>1. Len(is) \in Nat /\ first \in Nat
    OBVIOUS
  <1>2. /\ Len(shown) = Len(is) - first
        /\ \A k \in 1..(Len(is) - first) : shown[k] = is[k + first]
    BY <1>1, SubSeqProperties
  <1> HIDE DEF shown
  <1>3. ASSUME NEW k \in 1..first PROVE Told(rs, is[k], is[Len(is)].kind, c)
    <2>1. is[k].kind \notin CreateKinds \union {"SystemTransfer"}
      BY DEF LoudKinds, CreateKinds
    <2> QED
      BY <2>1, QuietTells DEF Told
  <1>4. CASE AsksFor(rs, "bail")
    BY <1>4 DEF Answers
  <1>5. CASE /\ AsksFor(rs, "primary")
             /\ \A k \in 1..Len(shown) : Told(rs, shown[k], shown[Len(shown)].kind, c)
    <2>1. ASSUME NEW k \in (first + 1)..Len(is) PROVE Told(rs, is[k], is[Len(is)].kind, c)
      <3>1. /\ k - first \in 1..Len(shown) /\ shown[k - first] = is[k]
            /\ shown[Len(shown)] = is[Len(is)]
        BY <1>1, <1>2
      <3> QED
        BY <1>5, <3>1
    <2>2. \A k \in 1..Len(is) : k \in 1..first \/ k \in (first + 1)..Len(is)
      BY <1>1
    <2> QED
      BY <1>3, <1>5, <2>1, <2>2 DEF Answers
  <1> QED
    BY <1>4, <1>5 DEF Answers, shown

\* A transaction with a nonce is answered with the nonce account asked for first.
LEMMA NonceProcessedAnswers ==
  ASSUME NEW S, NEW is \in Seq(S), NEW c
  PROVE  Answers(PrintNonceProcessed(is, c), is, c)
  <1> DEFINE first == LeadingComputeBudget(is)
             budget == SubSeq(is, 1, first)
             shown == SubSeq(is, first + 1, Len(is))
             fee == When(HasMaxFee(budget) \/ IsCreateWithTransfer(KindsOf(shown)), MaxFee)
             rs == PrintPattern(shown, c) \o fee
  <1>1. first \in 0..Len(is) /\ \A k \in 1..first : is[k].kind \notin LoudKinds
    BY LeadingAreBudget DEF ComputeBudgetKinds, LoudKinds
  <1>2. shown \in Seq(S)
    BY <1>1, SubSeqProperties
  <1>3. IsSequence(fee)
    BY OneOrNone DEF MaxFee
  <1>4. Answers(PrintPattern(shown, c), shown, c)
    BY <1>2, PatternAnswers
  <1>5. Answers(rs, shown, c)
    <2> DEFINE p == PrintPattern(shown, c)
    <2>1. Answers(p, shown, c) /\ IsSequence(p)
      BY <1>4 DEF Answers
    <2> HIDE DEF p, fee, shown
    <2>2. Answers(p \o fee, shown, c)
      BY <1>3, <2>1, AnswersOn
    <2> QED
      BY <2>2 DEF p
  <1>6. Answers(rs, is, c)
    <2> HIDE DEF rs, first
    <2> QED
      BY <1>1, <1>5, AnswersMore
  <1>7. PrintNonceProcessed(is, c) = IF MaxFeeOverflows(budget) THEN Bail ELSE rs
    BY DEF PrintNonceProcessed
  <1>8. Answers(Bail, is, c)
    BY BailAsked DEF Answers
  <1> HIDE DEF rs, budget
  <1> QED
    BY <1>6, <1>7, <1>8

\* A transaction is answered whatever its instructions are.
LEMMA TransactionAnswers ==
  ASSUME NEW S, NEW is \in Seq(S), NEW c
  PROVE  Answers(PrintTransaction(is, c), is, c)
  <1>1. CASE Len(is) > 1 /\ is[1].kind = "SystemAdvanceNonceAccount"
    <2> DEFINE nonce == NoncedTransaction(is[1], c)
               rest == PrintNonceProcessed(Tail(is), c)
    <2>1. IsSequence(nonce)
      <3>1. \A r, q : IsSequence(<<r, q>>)
        <4>1. \A r, q : <<r, q>> \in Seq({r, q})
          OBVIOUS
        <4> QED
          BY <4>1 DEF IsSequence
      <3> QED
        BY <3>1, NoRequest DEF NoncedTransaction, When
    <2>2. is # <<>> /\ Tail(is) \in Seq(S) /\ Tail(is) = SubSeq(is, 2, Len(is))
      BY <1>1, HeadTailProperties, TailIsSubSeq
    <2>3. Answers(rest, Tail(is), c) /\ IsSequence(rest)
      BY <2>2, NonceProcessedAnswers DEF Answers
    <2> HIDE DEF nonce, rest
    <2>4. Answers(nonce \o rest, Tail(is), c)
      BY <2>1, <2>3, AnswersOn
    <2>5. Answers(nonce \o rest, is, c)
      <3>1. 1 \in 0..Len(is) /\ \A k \in 1..1 : is[k].kind \notin LoudKinds
        BY <1>1 DEF LoudKinds
      <3> DEFINE t == nonce \o rest
      <3>2. Answers(t, SubSeq(is, 1 + 1, Len(is)), c)
        <4>1. 1 + 1 = 2
          OBVIOUS
        <4> QED
          BY <2>2, <2>4, <4>1
      <3> HIDE DEF t
      <3>3. Answers(t, is, c)
        BY <3>1, <3>2, AnswersMore
      <3> QED
        BY <3>3 DEF t
    <2> QED
      BY <1>1, <2>5 DEF PrintTransaction, nonce, rest
  <1>2. CASE ~ (Len(is) > 1 /\ is[1].kind = "SystemAdvanceNonceAccount")
    BY <1>2, NonceProcessedAnswers DEF PrintTransaction
  <1> QED
    BY <1>1, <1>2

\* The whole body gives up, or asks for a primary item and for what the user has
\* to see of every instruction.
LEMMA BodyAnswers ==
  ASSUME NEW m, NEW S, m.instructions \in Seq(S)
  PROVE  /\ IsSequence(ProcessMessageBody(m))
         /\ \/ AsksFor(ProcessMessageBody(m), "bail")
            \/ /\ AsksFor(ProcessMessageBody(m), "primary")
               /\ \A i \in ToSet(m.instructions) :
                    Told(ProcessMessageBody(m), i, Last(Displayed(m.instructions)).kind, m.config)
  <1> DEFINE is == m.instructions
             shown == Displayed(is)
             T == {i \in ToSet(is) : i.kind \notin IgnoredKinds}
             warning == When("HiddenExtension" \in {is[n].kind : n \in DOMAIN is}, ExtensionWarning)
             rs == warning \o PrintTransaction(shown, m.config)
  <1>1. /\ shown \in Seq(S \intersect T)
        /\ \A k \in 1..Len(is) : is[k] \in T =>
             \E j \in 1..Len(shown) : shown[j] = is[k]
    <2>1. \A s \in Seq(S) : \A U :
            /\ InOrder(s, U) \in Seq(S \intersect U)
            /\ \A k \in 1..Len(s) : s[k] \in U =>
                 \E j \in 1..Len(InOrder(s, U)) : InOrder(s, U)[j] = s[k]
      BY InOrderHolds
    <2>2. is \in Seq(S) /\ shown = InOrder(is, T)
      BY DEF Displayed
    <2> HIDE DEF shown, T, is
    <2> QED
      BY <2>1, <2>2
  <1>2. IsSequence(warning)
    <2>1. \A r, q : IsSequence(<<r, q>>)
      <3>1. \A r, q : <<r, q>> \in Seq({r, q})
        OBVIOUS
      <3> QED
        BY <3>1 DEF IsSequence
    <2> QED
      BY <2>1, NoRequest DEF ExtensionWarning, When
  <1>3. Answers(rs, shown, m.config)
    <2> DEFINE p == PrintTransaction(shown, m.config)
    <2>1. Answers(p, shown, m.config) /\ IsSequence(p)
      BY <1>1, TransactionAnswers DEF Answers
    <2> HIDE DEF p, warning, shown
    <2>2. Answers(warning \o p, shown, m.config)
      BY <1>2, <2>1, AnswersOn
    <2> QED
      BY <2>2 DEF p
  <1>4. ASSUME NEW i \in ToSet(is), ~ AsksFor(rs, "bail")
        PROVE  Told(rs, i, Last(shown).kind, m.config)
    <2>1. CASE i.kind \in IgnoredKinds
      <3>1. i.kind \notin LoudKinds /\ i.kind \notin CreateKinds \union {"SystemTransfer"}
        BY <2>1 DEF IgnoredKinds, LoudKinds, CreateKinds
      <3>2. Tells(rs, i)
        BY <3>1, QuietTells
      <3> QED
        BY <3>1, <3>2 DEF Told
    <2>2. CASE i.kind \notin IgnoredKinds
      <3>1. PICK k \in 1..Len(is) : is[k] = i
        BY DEF ToSet
      <3>2. PICK j \in 1..Len(shown) : shown[j] = i
        BY <1>1, <2>2, <3>1
      <3> HIDE DEF rs, shown
      <3> QED
        BY <1>3, <1>4, <3>2 DEF Answers, Last
    <2> QED
      BY <2>1, <2>2
  <1>5. \/ ProcessMessageBody(m) = Bail
        \/ ProcessMessageBody(m) = rs
    BY DEF ProcessMessageBody
  <1>6. IsSequence(rs) /\ (AsksFor(rs, "bail") \/ AsksFor(rs, "primary"))
    BY <1>3 DEF Answers
  <1> HIDE DEF rs
  <1> QED
    BY <1>4, <1>5, <1>6, BailAsked

-------------------------------------------------------------------------------
(* What a review displays. *)

\* What is reviewed was asked for, either by the printers, which did not give up,
\* or for a blind review.
ReviewedInv ==
  stage = "reviewing" =>
    /\ message \in Messages
    /\ requests \in {BodyRequests(message), BlindRequests(message)}
    /\ \A n \in DOMAIN requests : requests[n].slot \in Slots

\* A review begins when all that was asked for is served.
LEMMA ReviewedStep == ReviewInv /\ ReviewedInv /\ [Next]_vars => ReviewedInv'
  <1> SUFFICES ASSUME ReviewInv, ReviewedInv, [Next]_vars PROVE ReviewedInv'
    OBVIOUS
  <1>1. CASE \E m \in Messages : HandleSignMessage(m)
    BY <1>1 DEF HandleSignMessage, ReviewedInv
  <1>2. CASE ServeRequest \/ Crash
    BY <1>2 DEF ServeRequest, Crash, Pending, ReviewedInv
  <1>3. CASE GiveUp
    BY <1>3 DEF GiveUp, ReviewedInv
  <1>4. CASE Finalize
    <2>1. Serving /\ served = Len(requests) /\ UNCHANGED <<message, requests>>
      BY <1>4 DEF Finalize, ReviewInv
    <2>2. requests \in Seq(Requests) /\ message \in Messages
      BY <2>1, RequestsTyped DEF Serving
    <2>3. \A n \in DOMAIN requests : requests[n].slot \in Slots
      BY <2>1, <2>2 DEF Serving
    <2> QED
      BY <2>1, <2>2, <2>3 DEF Serving, ReviewedInv
  <1>5. CASE DisplayItem \/ DisplayFails \/ Decide \/ Restart
    BY <1>5 DEF DisplayItem, DisplayFails, Decide, Restart, ReviewedInv
  <1>6. CASE UNCHANGED vars
    BY <1>6 DEF vars, ReviewedInv
  <1> QED
    BY <1>1, <1>2, <1>3, <1>4, <1>5, <1>6 DEF Next, Work

\* Where the elements of two sequences in a row are.
LEMMA JoinedAt ==
  ASSUME NEW S
  PROVE  \A u, v \in Seq(S) :
           /\ u \o v \in Seq(S) /\ Len(u \o v) = Len(u) + Len(v)
           /\ \A n \in 1..Len(u) : (u \o v)[n] = u[n]
           /\ \A n \in 1..Len(v) : (u \o v)[Len(u) + n] = v[n]
  OBVIOUS

\* An item that is in the summary is counted.
LEMMA HeldIsListed ==
  ASSUME NEW s \in Summaries, NEW slot \in Slots, NEW item \in Items, Holds(s, slot, item)
  PROVE  \E n \in DOMAIN Finalized(s) : Finalized(s)[n] = item
  <1> DEFINE t == <<s.named["primary"]>> \o GeneralItems(s)
                    \o <<s.named["nonce_account"], s.named["nonce_authority"],
                         s.named["fee_payer"]>>
  <1>1. /\ GeneralItems(s) \in Seq(Written) /\ Len(GeneralItems(s)) = NumGeneralItems
        /\ \A i \in GeneralSlots : GeneralItems(s)[i] = s.general[i]
        /\ \A name \in NamedSlots : s.named[name] \in Written
    BY SummaryAssumption DEF Summaries, GeneralItems, GeneralSlots, Written
  <1>2. /\ t \in Seq(Written) /\ Len(t) = NumGeneralItems + 4
        /\ t[1] = s.named["primary"]
        /\ \A i \in GeneralSlots : t[i + 1] = s.general[i]
        /\ t[NumGeneralItems + 2] = s.named["nonce_account"]
        /\ t[NumGeneralItems + 3] = s.named["nonce_authority"]
        /\ t[NumGeneralItems + 4] = s.named["fee_payer"]
    <2> DEFINE g == GeneralItems(s)
               h == <<s.named["primary"]>>
               e == <<s.named["nonce_account"], s.named["nonce_authority"],
                      s.named["fee_payer"]>>
    <2>0. \A u, v \in Seq(Written) :
            /\ u \o v \in Seq(Written) /\ Len(u \o v) = Len(u) + Len(v)
            /\ \A n \in 1..Len(u) : (u \o v)[n] = u[n]
            /\ \A n \in 1..Len(v) : (u \o v)[Len(u) + n] = v[n]
      BY JoinedAt
    <2>1. /\ h \in Seq(Written) /\ Len(h) = 1 /\ h[1] = s.named["primary"]
          /\ e \in Seq(Written) /\ Len(e) = 3 /\ e[1] = s.named["nonce_account"]
          /\ e[2] = s.named["nonce_authority"] /\ e[3] = s.named["fee_payer"]
      BY <1>1 DEF NamedSlots
    <2>2. NumGeneralItems \in Nat
      BY SummaryAssumption
    <2>3. g \in Seq(Written) /\ Len(g) = NumGeneralItems
          /\ \A i \in 1..NumGeneralItems : g[i] = s.general[i]
      BY <1>1 DEF GeneralSlots
    <2> HIDE DEF g, h, e
    <2> DEFINE a == h \o g
    <2>4. /\ a \in Seq(Written) /\ Len(a) = NumGeneralItems + 1
          /\ a[1] = h[1] /\ \A i \in 1..NumGeneralItems : a[i + 1] = g[i]
      <3>1. /\ h \o g \in Seq(Written) /\ Len(h \o g) = Len(h) + Len(g)
            /\ \A n \in 1..Len(h) : (h \o g)[n] = h[n]
            /\ \A n \in 1..Len(g) : (h \o g)[Len(h) + n] = g[n]
        BY <2>0, <2>1, <2>3, Zenon
      <3> HIDE DEF a
      <3>2. /\ a \in Seq(Written) /\ Len(a) = 1 + NumGeneralItems /\ a[1] = h[1]
            /\ \A n \in 1..NumGeneralItems : a[1 + n] = g[n]
        BY <2>1, <2>3, <3>1 DEF a
      <3>3. \A n \in 1..NumGeneralItems : a[n + 1] = a[1 + n]
        BY <2>2
      <3> QED
        BY <2>2, <3>2, <3>3
    <2> HIDE DEF a
    <2>5. /\ a \o e \in Seq(Written) /\ Len(a \o e) = NumGeneralItems + 4
          /\ \A i \in 1..(NumGeneralItems + 1) : (a \o e)[i] = a[i]
          /\ (a \o e)[NumGeneralItems + 2] = e[1]
          /\ (a \o e)[NumGeneralItems + 3] = e[2]
          /\ (a \o e)[NumGeneralItems + 4] = e[3]
      <3>1. /\ a \o e \in Seq(Written) /\ Len(a \o e) = Len(a) + Len(e)
            /\ \A n \in 1..Len(a) : (a \o e)[n] = a[n]
            /\ \A n \in 1..Len(e) : (a \o e)[Len(a) + n] = e[n]
        BY <2>0, <2>1, <2>4, Zenon
      <3>2. /\ (a \o e)[(NumGeneralItems + 1) + 1] = e[1]
            /\ (a \o e)[(NumGeneralItems + 1) + 2] = e[2]
            /\ (a \o e)[(NumGeneralItems + 1) + 3] = e[3]
        BY <2>1, <2>4, <3>1
      <3>3. /\ (NumGeneralItems + 1) + 1 = NumGeneralItems + 2
            /\ (NumGeneralItems + 1) + 2 = NumGeneralItems + 3
            /\ (NumGeneralItems + 1) + 3 = NumGeneralItems + 4
        BY <2>2
      <3>4. Len(a \o e) = NumGeneralItems + 4
        BY <2>1, <2>4, <3>1, <3>3
      <3> QED
        BY <2>4, <3>1, <3>2, <3>3, <3>4
    <2> DEFINE ae == a \o e
    <2> HIDE DEF ae
    <2>6. /\ ae \in Seq(Written) /\ Len(ae) = NumGeneralItems + 4
          /\ ae[1] = s.named["primary"]
          /\ \A i \in GeneralSlots : ae[i + 1] = s.general[i]
          /\ ae[NumGeneralItems + 2] = s.named["nonce_account"]
          /\ ae[NumGeneralItems + 3] = s.named["nonce_authority"]
          /\ ae[NumGeneralItems + 4] = s.named["fee_payer"]
      BY <2>1, <2>2, <2>3, <2>4, <2>5 DEF GeneralSlots, ae
    <2> QED
      BY <2>6 DEF ae, a, h, g, e
  <1> HIDE DEF t
  <1>3. \E k \in 1..Len(t) : t[k] = item
    BY <1>2, SummaryAssumption DEF Holds, Slots, NamedSlots, GeneralSlots
  <1>4. /\ InOrder(t, Items) \in Seq(Written \intersect Items)
        /\ \E j \in 1..Len(InOrder(t, Items)) : InOrder(t, Items)[j] = item
    <2>1. t \in Seq(Written)
      BY <1>2
    <2>2. /\ InOrder(t, Items) \in Seq(Written \intersect Items)
          /\ \A k \in 1..Len(t) : t[k] \in Items =>
               \E j \in 1..Len(InOrder(t, Items)) : InOrder(t, Items)[j] = t[k]
      BY <2>1, InOrderHolds
    <2> QED
      BY <1>3, <2>2
  <1>5. Finalized(s) = InOrder(t, Items)
    BY DEF Finalized, Used, t
  <1> QED
    BY <1>4, <1>5

\* Every item that was asked for is on display.
LEMMA RequestsAreShown ==
  ASSUME ReviewInv, FinalizedInv, ReviewedInv, stage = "reviewing"
  PROVE  \A n \in DOMAIN requests :
           /\ requests[n].item \in Items
           /\ \E k \in DOMAIN steps : steps[k] = requests[n].item
  <1> SUFFICES ASSUME NEW n \in DOMAIN requests
               PROVE  /\ requests[n].item \in Items
                      /\ \E k \in DOMAIN steps : steps[k] = requests[n].item
    OBVIOUS
  <1>1. requests \in Seq(Requests) /\ requests[n].slot \in Slots
    BY RequestsTyped DEF ReviewedInv
  <1>2. requests[n] \in Requests
    BY <1>1
  <1>3. requests[n].item \in Items
    BY <1>1, <1>2 DEF Requests, Slots, NamedSlots
  <1>4. Holds(summary, requests[n].slot, requests[n].item) /\ summary \in Summaries
    BY DEF ReviewInv, EveryRequestKept
  <1> QED
    BY <1>1, <1>3, <1>4, HeldIsListed DEF FinalizedInv

\* The invariants of the review hold together.
LEMMA ReviewMade == Spec => [](ReviewInv /\ TypeOK /\ FinalizedInv /\ ReviewedInv)
  <1>1. Init => ReviewedInv
    BY DEF Init, ReviewedInv
  <1> QED
    BY SummaryMade, <1>1, ReviewedStep, PTL DEF Spec

\* What moves funds or grants authority is not missing from a clear review, whatever
\* the instructions of the message, their traits and the settings (NothingHidden).
THEOREM NothingIsHidden ==
  ASSUME PrintsTransactions
  PROVE  Spec => []NothingHidden
  <1>1. ReviewInv /\ FinalizedInv /\ ReviewedInv => NothingHidden
    <2> SUFFICES ASSUME ReviewInv, FinalizedInv, ReviewedInv, ClearReview,
                        NEW i \in ToSet(message.instructions)
                 PROVE  IF PreparesSplit(i, message) THEN TRUE
                        ELSE IF PrefundsSplit(i, message)
                        THEN Shown(i, "lamports") /\ Shown(i, "from")
                        ELSE \A alternatives \in Movements(i) \union Grants(i) :
                               \E field \in alternatives : Shown(i, field)
      BY DEF NothingHidden
    <2>1. /\ stage = "reviewing" /\ message \in Messages
          /\ requests = ProcessMessageBody(message)
          /\ \A n \in DOMAIN requests : requests[n].slot \in Slots
      BY DEF ClearReview, BlindReview, ReviewedInv, PrintsTransactions
    <2>2. message.instructions \in Seq(ToSet(message.instructions))
      BY <2>1 DEF PrintsTransactions
    <2>3. ~ AsksFor(requests, "bail")
      BY <2>1 DEF AsksFor, Slots, NamedSlots
    <2>4. Told(requests, i, Last(Displayed(message.instructions)).kind, message.config)
      BY <2>1, <2>2, <2>3, BodyAnswers
    <2>5. \A f : Shows(requests, i, f) => Shown(i, f)
      BY <2>1, RequestsAreShown DEF Shows, Shown
    <2> QED
      BY <2>4, <2>5 DEF Told, Tells, PreparesSplit, PrefundsSplit
  <1> QED
    BY ReviewMade, <1>1, PTL

\* A blind review asks first for its title, then for the hash.
LEMMA BlindAsks ==
  ASSUME NEW m
  PROVE  /\ IsSequence(BlindItems(m))
         /\ 1 \in DOMAIN BlindItems(m)
         /\ BlindItems(m)[1].slot = "primary" /\ BlindItems(m)[1].item.field = "unrecognized"
         /\ 2 \in DOMAIN BlindItems(m)
         /\ BlindItems(m)[2].item.field = "message_hash"
  <1> DEFINE p == Request("primary", Item({}, "unrecognized"), FALSE)
             h == Request("general", Item({}, "message_hash"), FALSE)
             f == Request("fee_payer", Item({}, "fee_payer"), TRUE)
             rest == When(m.config.expert \/ "otherFeePayer" \in m.config.has, <<f>>)
  <1>1. p.slot = "primary" /\ p.item.field = "unrecognized" /\ h.item.field = "message_hash"
    BY DEF Request, Item
  <1>2. BlindItems(m) = <<p, h>> \o rest
    BY DEF BlindItems
  <1>3. rest = <<f>> \/ rest = <<>>
    BY DEF When
  <1> HIDE DEF p, h, f, rest
  <1>4. <<p, h>> \in Seq({p, h, f}) /\ rest \in Seq({p, h, f})
    <2>1. \A x, y, z : /\ <<x, y>> \in Seq({x, y, z}) /\ <<z>> \in Seq({x, y, z})
                       /\ <<>> \in Seq({x, y, z})
      OBVIOUS
    <2> QED
      BY <1>3, <2>1
  <1>5. /\ <<p, h>> \o rest \in Seq({p, h, f})
        /\ 1 \in DOMAIN (<<p, h>> \o rest) /\ (<<p, h>> \o rest)[1] = p
        /\ 2 \in DOMAIN (<<p, h>> \o rest) /\ (<<p, h>> \o rest)[2] = h
    BY <1>4
  <1> QED
    BY <1>1, <1>2, <1>5 DEF IsSequence

\* A blind review says that it is one and shows the hash, whatever the printers left
\* in the summary before they gave up (BlindReviewShowsHash).
THEOREM BlindReviewIsOne ==
  ASSUME PrintsTransactions
  PROVE  Spec => []BlindReviewShowsHash
  <1>1. ReviewInv /\ FinalizedInv /\ ReviewedInv => BlindReviewShowsHash
    <2> SUFFICES ASSUME ReviewInv, FinalizedInv, ReviewedInv, BlindReview
                 PROVE  /\ Head(steps).field = "unrecognized"
                        /\ \E n \in DOMAIN steps : steps[n].field = "message_hash"
      BY DEF BlindReviewShowsHash
    <2>1. /\ stage = "reviewing" /\ message \in Messages
          /\ requests = BlindItems(message)
      BY DEF BlindReview, ReviewedInv, PrintsTransactions
    <2>2. /\ 1 \in DOMAIN requests /\ requests[1].slot = "primary"
          /\ requests[1].item.field = "unrecognized"
          /\ 2 \in DOMAIN requests /\ requests[2].item.field = "message_hash"
      BY <2>1, BlindAsks
    <2>3. \E n \in DOMAIN steps : steps[n].field = "message_hash"
      BY <2>1, <2>2, RequestsAreShown
    <2>4. /\ summary \in Summaries /\ steps = Finalized(summary)
          /\ requests[1].item \in Items
          /\ summary.named["primary"] = requests[1].item
      BY <2>1, <2>2, RequestsAreShown DEF ReviewInv, FinalizedInv, EveryRequestKept, Holds
    <2>5. Head(steps) = summary.named["primary"]
      <3>1. FindItem(summary, 0) = summary.named["primary"]
        BY DEF FindItem
      <3>2. DisplayMatchesFinalize
        BY <2>1, <2>4, FoundWhereCounted DEF DisplayMatchesFinalize, FinalizedInv
      <3>3. steps \in Seq(Items) /\ steps # <<>>
        BY <2>3, <2>4, FinalizedTyped
      <3>4. FindItem(summary, 1 - 1) = steps[1]
        BY <2>1, <3>2, <3>3 DEF DisplayMatchesFinalize
      <3> QED
        BY <3>1, <3>3, <3>4
    <2> QED
      BY <2>2, <2>3, <2>4, <2>5
  <1> QED
    BY ReviewMade, <1>1, PTL

\* Every body gives up or asks for a primary item, and the blind review asks for
\* one: handle_sign_message_ui never reports that finalisation failed
\* (FinalizeSucceeds).
THEOREM TransactionsHavePrimary ==
  ASSUME PrintsTransactions
  PROVE  Spec => []FinalizeSucceeds
  <1>1. AsksPrimary
    <2> SUFFICES ASSUME NEW m \in Messages
                 PROVE  /\ \E n \in DOMAIN BodyRequests(m) :
                              BodyRequests(m)[n].slot \in {"primary", "bail"}
                        /\ \E n \in DOMAIN BlindRequests(m) :
                              BlindRequests(m)[n].slot = "primary"
      BY DEF AsksPrimary
    <2>1. /\ m.instructions \in Seq(ToSet(m.instructions))
          /\ BodyRequests(m) = ProcessMessageBody(m) /\ BlindRequests(m) = BlindItems(m)
      BY DEF PrintsTransactions
    <2>2. AsksFor(BodyRequests(m), "bail") \/ AsksFor(BodyRequests(m), "primary")
      BY <2>1, BodyAnswers
    <2> QED
      BY <2>1, <2>2, BlindAsks DEF AsksFor
  <1> QED
    BY <1>1, PrimaryIsSet

-------------------------------------------------------------------------------
(* The slots are enough: how many requests each printer makes. *)

\* How many of the requests rs are for a slot.
Count(rs, slot) == Len(InOrder(rs, {r \in Requests : r.slot = slot}))
Primaries(rs) == Count(rs, "primary")
Generals(rs) == Count(rs, "general")

\* The requests of a printer are for the primary and the general slots.
Plain(rs) == IsSequence(rs) /\ \A n \in DOMAIN rs : rs[n].slot \in {"primary", "general"}

\* The count of two parts is the sum of their counts.
LEMMA CountJoined ==
  ASSUME NEW slot
  PROVE  /\ Count(<<>>, slot) = 0
         /\ \A r : Count(<<r>>, slot) \in {0, 1} /\ (r.slot # slot => Count(<<r>>, slot) = 0)
         /\ \A r \in Requests : r.slot = slot => Count(<<r>>, slot) = 1
         /\ \A a : IsSequence(a) => Count(a, slot) \in Nat
         /\ \A a, b : IsSequence(a) /\ IsSequence(b) =>
              Count(a \o b, slot) = Count(a, slot) + Count(b, slot)
  <1> DEFINE T == {r \in Requests : r.slot = slot}
  <1>1. \A a : Count(a, slot) = Len(InOrder(a, T))
    BY DEF Count
  <1> HIDE DEF T
  <1>2. InOrder(<<>>, T) = <<>>
    BY InOrderEmpty
  <1>3. ASSUME NEW r PROVE InOrder(<<r>>, T) = IF r \in T THEN <<r>> ELSE <<>>
    <2>1. <<r>> = Append(<<>>, r) /\ <<>> \in Seq({r}) /\ r \in {r}
      OBVIOUS
    <2>2. InOrder(Append(<<>>, r), T) = IF r \in T THEN Append(InOrder(<<>>, T), r)
                                                  ELSE InOrder(<<>>, T)
      BY <2>1, InOrderAppend
    <2> QED
      BY <1>2, <2>1, <2>2
  <1>4. ASSUME NEW a, IsSequence(a) PROVE Len(InOrder(a, T)) \in Nat
    <2>1. PICK S : a \in Seq(S)
      BY <1>4 DEF IsSequence
    <2>2. InOrder(a, T) \in Seq(S)
      BY <2>1, InOrderTyped
    <2> QED
      BY <2>2
  <1>5. ASSUME NEW a, NEW b, IsSequence(a), IsSequence(b)
        PROVE  Len(InOrder(a \o b, T)) = Len(InOrder(a, T)) + Len(InOrder(b, T))
    <2>1. PICK A, B : a \in Seq(A) /\ b \in Seq(B)
      BY <1>5 DEF IsSequence
    <2> DEFINE S == A \union B
    <2>2. a \in Seq(S) /\ b \in Seq(S)
      BY <2>1, SeqMonotonic
    <2> HIDE DEF S
    <2>3. InOrder(a \o b, T) = InOrder(a, T) \o InOrder(b, T)
      BY <2>2, InOrderConcat
    <2>4. InOrder(a, T) \in Seq(S) /\ InOrder(b, T) \in Seq(S)
      BY <2>2, InOrderTyped
    <2> QED
      BY <2>3, <2>4, ConcatProperties
  <1>6. \A r : r \in T <=> r \in Requests /\ r.slot = slot
    BY DEF T
  <1>7. Len(<<>>) = 0 /\ \A r : Len(<<r>>) = 1
    OBVIOUS
  <1>8. \A r : /\ Count(<<r>>, slot) \in {0, 1} /\ (r.slot # slot => Count(<<r>>, slot) = 0)
               /\ r \in Requests /\ r.slot = slot => Count(<<r>>, slot) = 1
    <2> SUFFICES ASSUME NEW r
                 PROVE  /\ Count(<<r>>, slot) \in {0, 1} /\ (r.slot # slot => Count(<<r>>, slot) = 0)
                        /\ r \in Requests /\ r.slot = slot => Count(<<r>>, slot) = 1
      OBVIOUS
    <2>1. InOrder(<<r>>, T) = IF r \in T THEN <<r>> ELSE <<>>
      BY <1>3
    <2>2. Count(<<r>>, slot) = IF r \in T THEN 1 ELSE 0
      BY <1>1, <1>7, <2>1
    <2> QED
      BY <1>6, <2>2
  <1>9. Count(<<>>, slot) = 0
    BY <1>1, <1>2, <1>7
  <1>10. \A a : IsSequence(a) => Count(a, slot) \in Nat
    BY <1>1, <1>4
  <1>11. \A a, b : IsSequence(a) /\ IsSequence(b) =>
              Count(a \o b, slot) = Count(a, slot) + Count(b, slot)
    BY <1>1, <1>5
  <1> QED
    BY <1>8, <1>9, <1>10, <1>11

\* Requests for primary and general slots stay so when they are joined.
LEMMA PlainJoined ==
  /\ Plain(<<>>)
  /\ \A r : r.slot \in {"primary", "general"} => Plain(<<r>>)
  /\ \A a, b : Plain(a) /\ Plain(b) => Plain(a \o b)
  <1>1. Plain(<<>>)
    BY NoRequest DEF Plain
  <1>2. ASSUME NEW r, r.slot \in {"primary", "general"} PROVE Plain(<<r>>)
    <2>1. DOMAIN <<r>> = {1} /\ <<r>>[1] = r
      OBVIOUS
    <2> QED
      BY <1>2, <2>1, OneRequest DEF Plain
  <1>3. ASSUME NEW a, NEW b, Plain(a), Plain(b) PROVE Plain(a \o b)
    <2>1. IsSequence(a \o b)
      BY <1>3, Concatenated DEF Plain
    <2>2. \A slot : AsksFor(a \o b, slot) <=> AsksFor(a, slot) \/ AsksFor(b, slot)
      BY <1>3, Concatenated DEF Plain
    <2> QED
      BY <1>3, <2>1, <2>2 DEF Plain, AsksFor
  <1> QED
    BY <1>1, <1>2, <1>3

\* What one request, and requests in a row, ask for.
LEMMA Counted ==
  /\ \A i, f : /\ Plain(Primary(i, f)) /\ Primaries(Primary(i, f)) \in {0, 1}
               /\ Generals(Primary(i, f)) = 0
               /\ Plain(General(i, f)) /\ Primaries(General(i, f)) = 0
               /\ Generals(General(i, f)) \in {0, 1}
  /\ \A condition, a : Plain(a) =>
       /\ Plain(When(condition, a))
       /\ Primaries(When(condition, a)) <= Primaries(a)
       /\ Generals(When(condition, a)) <= Generals(a)
  /\ \A condition, i, f :
       /\ Plain(When(condition, General(i, f)))
       /\ Primaries(When(condition, General(i, f))) = 0
       /\ Generals(When(condition, General(i, f))) \in {0, 1}
  /\ \A i, c : /\ Plain(Authority(i, c)) /\ Primaries(Authority(i, c)) = 0
               /\ Generals(Authority(i, c)) \in {0, 1}
  /\ \A a, b : Plain(a) /\ Plain(b) =>
       /\ Plain(a \o b)
       /\ Primaries(a \o b) = Primaries(a) + Primaries(b)
       /\ Generals(a \o b) = Generals(a) + Generals(b)
  /\ \A a : Plain(a) => Primaries(a) \in Nat /\ Generals(a) \in Nat
  <1>1. ASSUME NEW i, NEW f
        PROVE  /\ Plain(Primary(i, f)) /\ Primaries(Primary(i, f)) \in {0, 1}
               /\ Generals(Primary(i, f)) = 0
               /\ Plain(General(i, f)) /\ Primaries(General(i, f)) = 0
               /\ Generals(General(i, f)) \in {0, 1}
    <2> DEFINE p == Request("primary", Item({i}, f), FALSE)
               g == Request("general", Item({i}, f), FALSE)
    <2>1. p.slot = "primary" /\ g.slot = "general"
      BY DEF Request
    <2>2. Primary(i, f) = <<p>> /\ General(i, f) = <<g>>
      BY DEF Primary, General
    <2> HIDE DEF p, g
    <2>3. "primary" # "general"
      OBVIOUS
    <2>4. \A r : /\ Count(<<r>>, "primary") \in {0, 1} /\ Count(<<r>>, "general") \in {0, 1}
                 /\ r.slot # "primary" => Count(<<r>>, "primary") = 0
                 /\ r.slot # "general" => Count(<<r>>, "general") = 0
      BY CountJoined
    <2> QED
      BY <2>1, <2>2, <2>3, <2>4, PlainJoined DEF Primaries, Generals
  <1>2. \A a : Plain(a) => Primaries(a) \in Nat /\ Generals(a) \in Nat
    BY CountJoined DEF Plain, Primaries, Generals
  <1>3. \A a, b : Plain(a) /\ Plain(b) =>
          /\ Plain(a \o b)
          /\ Primaries(a \o b) = Primaries(a) + Primaries(b)
          /\ Generals(a \o b) = Generals(a) + Generals(b)
    <2>1. \A a : Plain(a) => IsSequence(a)
      BY DEF Plain
    <2> QED
      BY <2>1, CountJoined, PlainJoined DEF Primaries, Generals
  <1>4. ASSUME NEW condition, NEW a, Plain(a)
        PROVE  /\ Plain(When(condition, a))
               /\ Primaries(When(condition, a)) <= Primaries(a)
               /\ Generals(When(condition, a)) <= Generals(a)
    <2>1. CASE condition
      <3>1. When(condition, a) = a
        BY <2>1 DEF When
      <3> QED
        BY <1>2, <1>4, <3>1
    <2>2. CASE ~ condition
      <3>1. When(condition, a) = <<>>
        BY <2>2 DEF When
      <3>2. Primaries(<<>>) = 0 /\ Generals(<<>>) = 0 /\ Plain(<<>>)
        BY CountJoined, PlainJoined DEF Primaries, Generals
      <3> QED
        BY <1>2, <1>4, <3>1, <3>2
    <2> QED
      BY <2>1, <2>2
  <1>5. ASSUME NEW i, NEW c
        PROVE  /\ Plain(Authority(i, c)) /\ Primaries(Authority(i, c)) = 0
               /\ Generals(Authority(i, c)) \in {0, 1}
    BY <1>1, <1>2, <1>4 DEF Authority
  <1>6. ASSUME NEW condition, NEW i, NEW f
        PROVE  /\ Plain(When(condition, General(i, f)))
               /\ Primaries(When(condition, General(i, f))) = 0
               /\ Generals(When(condition, General(i, f))) \in {0, 1}
    BY <1>1, <1>2, <1>4
  <1> QED
    BY <1>1, <1>2, <1>3, <1>4, <1>5, <1>6

\* The counts of two parts add up.
LEMMA Summed ==
  \A a, b : Plain(a) /\ Plain(b) =>
    /\ Plain(a \o b)
    /\ Primaries(a \o b) = Primaries(a) + Primaries(b)
    /\ Generals(a \o b) = Generals(a) + Generals(b)
  BY Counted

\* What a pattern of instructions may ask for: NUM_GENERAL_ITEMS is 11.
Small(rs) == Plain(rs) /\ Primaries(rs) <= 1 /\ Generals(rs) <= 11

\* Creating an account takes six general slots at most.
LEMMA CreateSmall ==
  ASSUME NEW i, NEW c, NEW owner
  PROVE  /\ Plain(CreateAccount(i, c, owner)) /\ Primaries(CreateAccount(i, c, owner)) = 0
         /\ Generals(CreateAccount(i, c, owner)) \in 0..6
  <1>1. /\ Plain(BaseAndSeed(i, c)) /\ Primaries(BaseAndSeed(i, c)) = 0
        /\ Generals(BaseAndSeed(i, c)) \in 0..2
    BY Counted DEF BaseAndSeed
  <1> DEFINE space == When(owner /\ "unknownOwner" \in i.has,
                           General(i, "space") \o General(i, "owner"))
             seed == When(i.kind = "SystemCreateAccountWithSeed", BaseAndSeed(i, c))
  <1>2. Plain(space) /\ Primaries(space) = 0 /\ Generals(space) \in 0..2
    BY Counted
  <1>3. Plain(seed) /\ Primaries(seed) = 0 /\ Generals(seed) \in 0..2
    BY <1>1, Counted
  <1>4. CreateAccount(i, c, owner) =
          (General(i, "lamports") \o When(ShowAuthority(i, c), General(i, "from")) \o space)
             \o seed
    BY DEF CreateAccount, CreateAccountFields
  <1> DEFINE amount == General(i, "lamports")
             from == When(ShowAuthority(i, c), General(i, "from"))
             front == amount \o from \o space
  <1>5. /\ Plain(amount) /\ Primaries(amount) = 0 /\ Generals(amount) \in 0..1
        /\ Plain(from) /\ Primaries(from) = 0 /\ Generals(from) \in 0..1
    BY Counted
  <1>6. CreateAccount(i, c, owner) = front \o seed
    BY <1>4
  <1> HIDE DEF space, seed, amount, from
  <1>7. Plain(front) /\ Primaries(front) = 0 /\ Generals(front) \in 0..4
    BY <1>2, <1>5, Summed
  <1> HIDE DEF front
  <1> QED
    BY <1>3, <1>6, <1>7, Summed

\* A System instruction fits the slots.
LEMMA SystemInfoSmall ==
  ASSUME NEW i, NEW c, i.kind \in SystemKinds
  PROVE  Small(SystemInfo(i, c))
  <1>1. CASE i.kind = "SystemTransfer"
    BY <1>1, CreateSmall, Counted DEF Small, SystemInfo, SystemTransfer
  <1>2. CASE i.kind = "SystemAdvanceNonceAccount"
    BY <1>2, CreateSmall, Counted DEF Small, SystemInfo, SystemAdvanceNonce
  <1>3. CASE i.kind \in {"SystemCreateAccount", "SystemCreateAccountWithSeed"}
    <2> DEFINE p == Primary(i, "to")
               a == CreateAccount(i, c, TRUE)
    <2>1. Plain(p) /\ Primaries(p) \in 0..1 /\ Generals(p) = 0
      BY Counted
    <2>2. Plain(a) /\ Primaries(a) = 0 /\ Generals(a) \in 0..6
      BY CreateSmall, Zenon
    <2>3. SystemInfo(i, c) = p \o a
      BY <1>3 DEF SystemInfo
    <2> HIDE DEF p, a
    <2> QED
      BY <2>1, <2>2, <2>3, Summed DEF Small
  <1>4. CASE i.kind = "SystemInitializeNonceAccount"
    BY <1>4, CreateSmall, Counted DEF Small, SystemInfo, InitializeNonce
  <1>5. CASE i.kind = "SystemWithdrawNonceAccount"
    BY <1>5, CreateSmall, Counted DEF Small, SystemInfo, SystemWithdrawNonce
  <1>6. CASE i.kind = "SystemAuthorizeNonceAccount"
    BY <1>6, CreateSmall, Counted DEF Small, SystemInfo, SystemAuthorizeNonce
  <1>7. CASE i.kind = "SystemAssign"
    BY <1>7, CreateSmall, Counted DEF Small, SystemInfo, SystemAssign
  <1>8. CASE i.kind = "SystemAllocate"
    BY <1>8, CreateSmall, Counted DEF Small, SystemInfo, SystemAllocate
  <1>9. CASE i.kind = "SystemAllocateWithSeed"
    BY <1>9, CreateSmall, Counted DEF Small, SystemInfo, AllocateWithSeed, BaseAndSeed
  <1> QED
    BY <1>1, <1>2, <1>3, <1>4, <1>5, <1>6, <1>7, <1>8, <1>9 DEF SystemKinds

\* StakeInitialize takes five general slots at most.
LEMMA InitializeSmall ==
  ASSUME NEW i, NEW c
  PROVE  /\ Plain(StakeInitialize(i, c)) /\ Primaries(StakeInitialize(i, c)) = 0
         /\ Generals(StakeInitialize(i, c)) \in 0..5
  <1>1. /\ Plain(StakeAuthorities(i)) /\ Primaries(StakeAuthorities(i)) = 0
        /\ Generals(StakeAuthorities(i)) \in 0..2
    BY Counted DEF StakeAuthorities
  <1> DEFINE lockup == When("lockupTime" \in i.has, General(i, "unix_timestamp"))
                         \o When("lockupEpoch" \in i.has, General(i, "epoch"))
                         \o General(i, "custodian")
             none == When(c.expert, General(i, "no_lockup"))
  <1>2. Plain(lockup) /\ Primaries(lockup) = 0 /\ Generals(lockup) \in 0..3
    BY Counted
  <1>3. Plain(none) /\ Primaries(none) = 0 /\ Generals(none) \in 0..1
    BY Counted
  <1>4. StakeInitialize(i, c) = StakeAuthorities(i) \o lockup
        \/ StakeInitialize(i, c) = StakeAuthorities(i) \o none
    BY DEF StakeInitialize
  <1> HIDE DEF lockup, none
  <1>5. CASE StakeInitialize(i, c) = StakeAuthorities(i) \o lockup
    BY <1>1, <1>2, <1>5, Counted
  <1>6. CASE StakeInitialize(i, c) = StakeAuthorities(i) \o none
    BY <1>1, <1>3, <1>6, Counted
  <1> QED
    BY <1>4, <1>5, <1>6

\* A Stake instruction fits the slots.
LEMMA StakeInfoSmall ==
  ASSUME NEW i, NEW c, i.kind \in StakeKinds
  PROVE  Small(StakeInfo(i, c))
  <1>1. CASE i.kind = "StakeDelegate"
    BY <1>1, InitializeSmall, Counted DEF Small, StakeInfo, DelegateStake
  <1>2. CASE i.kind = "StakeWithdraw"
    BY <1>2, InitializeSmall, Counted DEF Small, StakeInfo, StakeWithdraw
  <1>3. CASE i.kind \in {"StakeAuthorize", "StakeAuthorizeChecked"}
    BY <1>3, InitializeSmall, Counted DEF Small, StakeInfo, StakeAuthorize
  <1>4. CASE i.kind = "StakeDeactivate"
    BY <1>4, InitializeSmall, Counted DEF Small, StakeInfo, StakeDeactivate
  <1>5. CASE i.kind \in {"StakeSetLockup", "StakeSetLockupChecked"}
    <2> DEFINE p == Primary(i, "account")
               a == When("lockupTime" \in i.has, General(i, "unix_timestamp"))
               b == When("lockupEpoch" \in i.has, General(i, "epoch"))
               d == When("custodian" \in i.has, General(i, "custodian"))
               front == p \o a \o b \o d
               signer == Authority(i, c)
    <2>1. /\ Plain(p) /\ Primaries(p) \in 0..1 /\ Generals(p) = 0
          /\ Plain(a) /\ Primaries(a) = 0 /\ Generals(a) \in 0..1
          /\ Plain(b) /\ Primaries(b) = 0 /\ Generals(b) \in 0..1
          /\ Plain(d) /\ Primaries(d) = 0 /\ Generals(d) \in 0..1
          /\ Plain(signer) /\ Primaries(signer) = 0 /\ Generals(signer) \in 0..1
      BY Counted
    <2>2. StakeInfo(i, c) = front \o signer
      BY <1>5 DEF StakeInfo, StakeSetLockup
    <2> HIDE DEF p, a, b, d, signer
    <2>3. Plain(front) /\ Primaries(front) \in 0..1 /\ Generals(front) \in 0..3
      BY <2>1, Summed
    <2> HIDE DEF front
    <2> QED
      BY <2>1, <2>2, <2>3, Summed DEF Small
  <1>6. CASE i.kind = "StakeSplit"
    BY <1>6, InitializeSmall, Counted DEF Small, StakeInfo, StakeSplit, StakeSplit1
  <1>7. CASE i.kind = "StakeMerge"
    BY <1>7, InitializeSmall, Counted DEF Small, StakeInfo, StakeMerge
  <1>8. CASE i.kind \in {"StakeInitialize", "StakeInitializeChecked"}
    BY <1>8, InitializeSmall, Counted DEF Small, StakeInfo
  <1> QED
    BY <1>1, <1>2, <1>3, <1>4, <1>5, <1>6, <1>7, <1>8 DEF StakeKinds

\* A Vote instruction fits the slots.
LEMMA VoteInfoSmall ==
  ASSUME NEW i, NEW c, i.kind \in VoteKinds
  PROVE  Small(VoteInfo(i, c))
  <1>1. CASE i.kind = "VoteInitialize"
    BY <1>1, Counted DEF Small, VoteInfo, VoteInitialize
  <1>2. CASE i.kind = "VoteWithdraw"
    BY <1>2, Counted DEF Small, VoteInfo, VoteWithdraw
  <1>3. CASE i.kind \in {"VoteAuthorize", "VoteAuthorizeChecked"}
    BY <1>3, Counted DEF Small, VoteInfo, VoteUpdate
  <1>4. CASE i.kind = "VoteUpdateValidatorId"
    BY <1>4, Counted DEF Small, VoteInfo, VoteUpdate
  <1>5. CASE i.kind = "VoteUpdateCommission"
    BY <1>5, Counted DEF Small, VoteInfo, VoteUpdate
  <1> QED
    BY <1>1, <1>2, <1>3, <1>4, <1>5 DEF VoteKinds

\* The owner or the signers of a token instruction take two general slots.
LEMMA SignSmall ==
  ASSUME NEW i, NEW c
  PROVE  /\ Plain(SplTokenSign(i, c)) /\ Primaries(SplTokenSign(i, c)) = 0
         /\ Generals(SplTokenSign(i, c)) \in 0..2
  BY Counted DEF SplTokenSign

\* They fit after the items of any token instruction.
LEMMA ThenSigned ==
  ASSUME NEW a, Plain(a), Primaries(a) \in 0..1, Generals(a) \in 0..9, NEW i, NEW c
  PROVE  Small(a \o SplTokenSign(i, c))
  BY SignSmall, Summed DEF Small

\* A token transfer fits the slots.
LEMMA TransferSmall ==
  ASSUME NEW i, NEW c
  PROVE  Small(SplTransfer(i, c))
  <1> DEFINE head == Primary(i, "tokens")
                       \o When(c.full \/ "unknownMint" \in i.has, General(i, "mint_account"))
             to == When(c.full \/ ~ c.ata, General(i, "to"))
             account == When(c.full \/ c.ata, General(i, "dest_account"))
             rest == When("fee" \in i.has, General(i, "fee_tokens"))
             front == head \o to \o account \o rest
  <1>1. SplTransfer(i, c) = front \o SplTokenSign(i, c)
    BY DEF SplTransfer
  <1>2. Plain(head) /\ Primaries(head) \in 0..1 /\ Generals(head) \in 0..1
    BY Counted
  <1>3. /\ Plain(to) /\ Primaries(to) = 0 /\ Generals(to) \in 0..1
        /\ Plain(account) /\ Primaries(account) = 0 /\ Generals(account) \in 0..1
        /\ Plain(rest) /\ Primaries(rest) = 0 /\ Generals(rest) \in 0..1
    BY Counted
  <1> HIDE DEF head, to, account, rest
  <1>4. Plain(front) /\ Primaries(front) \in 0..1 /\ Generals(front) \in 0..4
    BY <1>2, <1>3, Summed
  <1> HIDE DEF front
  <1> QED
    BY <1>1, <1>4, ThenSigned

\* An SPL Token instruction fits the slots.
LEMMA SplTokenInfoSmall ==
  ASSUME NEW i, NEW c, i.kind \in SplTokenKinds
  PROVE  Small(SplTokenInfo(i, c))
  <1>1. CASE i.kind = "SplInitializeMint"
    BY <1>1, SignSmall, TransferSmall, Counted DEF Small, SplTokenInfo, SplInitializeMint
  <1>2. CASE i.kind \in {"SplInitializeAccount", "SplInitializeAccount2"}
    BY <1>2, SignSmall, TransferSmall, Counted
      DEF Small, SplTokenInfo, SplInitializeAccount
  <1>3. CASE i.kind = "SplInitializeMultisig"
    BY <1>3, SignSmall, TransferSmall, Counted DEF Small, SplTokenInfo, RequiredSigners
  <1>4. CASE i.kind = "SplRevoke"
    BY <1>4, SignSmall, TransferSmall, Counted DEF Small, SplTokenInfo
  <1>5. CASE i.kind = "SplSetAuthority"
    <2> DEFINE front == Primary(i, "account") \o General(i, "authority_type")
                         \o When("clear" \notin i.has, General(i, "new_authority"))
    <2>1. Plain(front) /\ Primaries(front) \in 0..1 /\ Generals(front) \in 0..2
      BY Counted
    <2>2. SplTokenInfo(i, c) = front \o SplTokenSign(i, c)
      BY <1>5 DEF SplTokenInfo, SplSetAuthority
    <2> HIDE DEF front
    <2> QED
      BY <2>1, <2>2, ThenSigned
  <1>6. CASE i.kind = "SplCloseAccount"
    BY <1>6, SignSmall, TransferSmall, Counted DEF Small, SplTokenInfo, SplCloseAccount
  <1>7. CASE i.kind \in {"SplFreezeAccount", "SplThawAccount"}
    BY <1>7, SignSmall, TransferSmall, Counted DEF Small, SplTokenInfo, SplFreezeOrThaw
  <1>8. CASE i.kind \in {"SplTransferChecked", "SplTransferCheckedWithFee"}
    BY <1>8, SignSmall, TransferSmall, Counted DEF Small, SplTokenInfo
  <1>9. CASE i.kind = "SplApproveChecked"
    <2> DEFINE front == Primary(i, "delegate") \o General(i, "tokens")
                         \o General(i, "mint_account") \o General(i, "token_account")
    <2>1. Plain(front) /\ Primaries(front) \in 0..1 /\ Generals(front) \in 0..3
      BY Counted
    <2>2. SplTokenInfo(i, c) = front \o SplTokenSign(i, c)
      BY <1>9 DEF SplTokenInfo, SplApprove
    <2> HIDE DEF front
    <2> QED
      BY <2>1, <2>2, ThenSigned
  <1>10. CASE i.kind \in {"SplMintToChecked", "SplBurnChecked"}
    BY <1>10, SignSmall, TransferSmall, Counted DEF Small, SplTokenInfo, SplMintOrBurn
  <1>11. CASE i.kind = "SplSyncNative"
    BY <1>11, SignSmall, TransferSmall, Counted DEF Small, SplTokenInfo
  <1> QED
    BY <1>1, <1>2, <1>3, <1>4, <1>5, <1>6, <1>7, <1>8, <1>9, <1>10, <1>11
      DEF SplTokenKinds

\* What is collected of a sequence is no longer than it.
LEMMA InOrderShorter ==
  ASSUME NEW S, NEW s \in Seq(S), NEW T
  PROVE  Len(InOrder(s, T)) <= Len(s)
  <1> DEFINE A == {k \in Nat : \A u \in Seq(S) : Len(u) = k => Len(InOrder(u, T)) <= k}
  <1>1. 0 \in A
    <2> SUFFICES ASSUME NEW u \in Seq(S), Len(u) = 0 PROVE Len(InOrder(u, T)) <= 0
      OBVIOUS
    <2>1. u = <<>> /\ Len(<<>>) = 0
      OBVIOUS
    <2> QED
      BY <2>1, InOrderEmpty
  <1>2. ASSUME NEW k \in Nat, k \in A PROVE k + 1 \in A
    <2> SUFFICES ASSUME NEW u \in Seq(S), Len(u) = k + 1
                 PROVE  Len(InOrder(u, T)) <= k + 1
      OBVIOUS
    <2>1. u # <<>>
      OBVIOUS
    <2>2. PICK v \in Seq(S), x \in S : u = Append(v, x)
      BY <2>1, SequenceEmptyOrAppend
    <2>3. Len(v) = k
      BY <2>2
    <2>4. Len(InOrder(v, T)) <= k
      BY <1>2, <2>3
    <2>5. InOrder(u, T) = IF x \in T THEN Append(InOrder(v, T), x) ELSE InOrder(v, T)
      BY <2>2, InOrderAppend
    <2>6. InOrder(v, T) \in Seq(S)
      BY InOrderTyped
    <2> DEFINE w == InOrder(v, T)
    <2> HIDE DEF w
    <2>7. w \in Seq(S) /\ Len(w) <= k /\ InOrder(u, T) \in {Append(w, x), w}
      BY <2>4, <2>5, <2>6 DEF w
    <2>8. Len(Append(w, x)) = Len(w) + 1 /\ Len(w) \in Nat
      BY <2>7
    <2> QED
      BY <2>7, <2>8
  <1>3. Nat \subseteq A
    <2> HIDE DEF A
    <2> QED
      BY <1>1, <1>2, Induction
  <1>4. Len(s) \in Nat
    OBVIOUS
  <1> QED
    BY <1>3, <1>4

\* A sequence of at most k fields.
Short(fields, k) == IsSequence(fields) /\ Len(fields) \in 0..k

\* The lengths of the tuples of fields that are written out.
LEMMA Tuples ==
  /\ Short(<<>>, 0)
  /\ \A a : Short(<<a>>, 1)
  /\ \A a, b : Short(<<a, b>>, 2)
  /\ \A a, b, c, d : Short(<<a, b, c, d>>, 4)
  /\ \A a, b, c, d, e : Short(<<a, b, c, d, e>>, 5)
  /\ \A a, b, c, d, e, f : Short(<<a, b, c, d, e, f>>, 6)
  /\ \A a, b, c, d, e, f, g : Short(<<a, b, c, d, e, f, g>>, 7)
  <1>1. Short(<<>>, 0)
    BY NoRequest DEF Short
  <1>2. ASSUME NEW a PROVE Short(<<a>>, 1)
    <2> DEFINE x == <<a>>
    <2>1. x \in Seq({a}) /\ Len(x) = 1
      OBVIOUS
    <2> HIDE DEF x
    <2>2. Short(x, 1)
      BY <2>1 DEF Short, IsSequence
    <2> QED
      BY <2>2 DEF x
  <1>3. ASSUME NEW a, NEW b PROVE Short(<<a, b>>, 2)
    <2> DEFINE x == <<a, b>>
    <2>1. x \in Seq({a, b}) /\ Len(x) = 2
      OBVIOUS
    <2> HIDE DEF x
    <2>2. Short(x, 2)
      BY <2>1 DEF Short, IsSequence
    <2> QED
      BY <2>2 DEF x
  <1>4. ASSUME NEW a, NEW b, NEW c, NEW d PROVE Short(<<a, b, c, d>>, 4)
    <2> DEFINE x == <<a, b, c, d>>
    <2>1. x \in Seq({a, b, c, d}) /\ Len(x) = 4
      OBVIOUS
    <2> HIDE DEF x
    <2>2. Short(x, 4)
      BY <2>1 DEF Short, IsSequence
    <2> QED
      BY <2>2 DEF x
  <1>5. ASSUME NEW a, NEW b, NEW c, NEW d, NEW e PROVE Short(<<a, b, c, d, e>>, 5)
    <2> DEFINE x == <<a, b, c, d, e>>
    <2>1. x \in Seq({a, b, c, d, e}) /\ Len(x) = 5
      OBVIOUS
    <2> HIDE DEF x
    <2>2. Short(x, 5)
      BY <2>1 DEF Short, IsSequence
    <2> QED
      BY <2>2 DEF x
  <1>6. ASSUME NEW a, NEW b, NEW c, NEW d, NEW e, NEW f PROVE Short(<<a, b, c, d, e, f>>, 6)
    <2> DEFINE x == <<a, b, c, d, e, f>>
    <2>1. x \in Seq({a, b, c, d, e, f}) /\ Len(x) = 6
      OBVIOUS
    <2> HIDE DEF x
    <2>2. Short(x, 6)
      BY <2>1 DEF Short, IsSequence
    <2> QED
      BY <2>2 DEF x
  <1>7. ASSUME NEW a, NEW b, NEW c, NEW d, NEW e, NEW f, NEW g PROVE Short(<<a, b, c, d, e, f, g>>, 7)
    <2> DEFINE x == <<a, b, c, d, e, f, g>>
    <2>1. x \in Seq({a, b, c, d, e, f, g}) /\ Len(x) = 7
      OBVIOUS
    <2> HIDE DEF x
    <2>2. Short(x, 7)
      BY <2>1 DEF Short, IsSequence
    <2> QED
      BY <2>2 DEF x
  <1> QED
    BY <1>1, <1>2, <1>3, <1>4, <1>5, <1>6, <1>7

\* The lengths of two parts add up.
LEMMA ShortJoined ==
  \A a, b : \A m, n \in Nat : Short(a, m) /\ Short(b, n) => Short(a \o b, m + n)
  <1> SUFFICES ASSUME NEW a, NEW b, NEW m \in Nat, NEW n \in Nat, Short(a, m), Short(b, n)
               PROVE  Short(a \o b, m + n)
    OBVIOUS
  <1>1. PICK A, B : a \in Seq(A) /\ b \in Seq(B)
    BY DEF Short, IsSequence
  <1>2. a \in Seq(A \union B) /\ b \in Seq(A \union B)
    BY <1>1, SeqMonotonic
  <1>3. Len(a \o b) = Len(a) + Len(b) /\ Len(a) \in 0..m /\ Len(b) \in 0..n
    BY <1>2, ConcatProperties DEF Short
  <1>4. IsSequence(a \o b)
    BY Concatenated DEF Short
  <1> DEFINE l == Len(a \o b)
  <1> HIDE DEF l
  <1>5. l \in 0..(m + n)
    BY <1>3 DEF l
  <1> QED
    BY <1>4, <1>5 DEF Short, l

\* A field asked for on a condition is one at most.
LEMMA ShortWhen ==
  ASSUME NEW condition, NEW f
  PROVE  Short(When(condition, <<f>>), 1)
  <1>1. CASE condition
    BY <1>1, Tuples DEF When
  <1>2. CASE ~ condition
    <2>1. When(condition, <<f>>) = <<>>
      BY <1>2 DEF When
    <2> QED
      BY <2>1, Tuples DEF Short
  <1> QED
    BY <1>1, <1>2

\* The fields of AgenC take a general slot each.
LEMMA FieldsCounted ==
  ASSUME NEW i, NEW k \in Nat, NEW fields, Short(fields, k)
  PROVE  /\ Plain(Fields(i, fields)) /\ Primaries(Fields(i, fields)) = 0
         /\ Generals(Fields(i, fields)) \in 0..k
  <1>0. PICK T : fields \in Seq(T)
    BY DEF Short, IsSequence
  <1> DEFINE R(f) == Request("general", Item({i}, f), TRUE)
             U == {R(f) : f \in T}
             t == Fields(i, fields)
  <1>1. DOMAIN fields = 1..Len(fields) /\ Len(fields) \in 0..k
    BY <1>0 DEF Short
  <1>2. t = [n \in 1..Len(fields) |-> R(fields[n])]
    BY DEF Fields
  <1>3. \A f : R(f).slot = "general"
    BY DEF Request
  <1> HIDE DEF R
  <1>4. t \in Seq(U) /\ Len(t) = Len(fields)
    <2>1. \A n \in 1..Len(fields) : R(fields[n]) \in U
      BY <1>0
    <2> HIDE DEF t
    <2> QED
      BY <1>1, <1>2, <2>1
  <1>5. \A r \in U : r.slot = "general"
    BY <1>3
  <1> HIDE DEF t, U
  <1>6. \A n \in DOMAIN t : t[n].slot = "general"
    BY <1>4, <1>5
  <1>7. Plain(t)
    BY <1>4, <1>6 DEF Plain, IsSequence
  <1> DEFINE P == {r \in Requests : r.slot = "primary"}
             G == {r \in Requests : r.slot = "general"}
  <1>8. U \intersect P = {}
    BY <1>5
  <1>9. Primaries(t) = Len(InOrder(t, P)) /\ Generals(t) = Len(InOrder(t, G))
    BY DEF Primaries, Generals, Count
  <1> HIDE DEF P, G
  <1>10. Primaries(t) = 0
    <2>1. InOrder(t, P) \in Seq(U \intersect P)
      BY <1>4, InOrderHolds
    <2>2. \A s \in Seq({}) : Len(s) = 0
      OBVIOUS
    <2> QED
      BY <1>8, <1>9, <2>1, <2>2
  <1>11. Generals(t) <= Len(fields)
    BY <1>4, <1>9, InOrderShorter
  <1>12. Generals(t) \in Nat
    BY <1>7, Counted
  <1> QED
    BY <1>1, <1>7, <1>10, <1>11, <1>12 DEF t

\* The action of an AgenC instruction takes the primary slot only.
LEMMA ActionCounted ==
  ASSUME NEW i
  PROVE  /\ Plain(Action(i)) /\ Primaries(Action(i)) \in 0..1
         /\ Generals(Action(i)) = 0
  <1> DEFINE p == Request("primary", Item({i}, "action"), TRUE)
  <1>1. p.slot = "primary" /\ Action(i) = <<p>>
    BY DEF Request, Action
  <1> HIDE DEF p
  <1>2. "primary" # "general"
    OBVIOUS
  <1>3. \A r : Count(<<r>>, "primary") \in {0, 1}
    BY CountJoined
  <1>4. \A r : r.slot # "general" => Count(<<r>>, "general") = 0
    BY CountJoined
  <1>5. Plain(<<p>>)
    BY <1>1, PlainJoined
  <1> QED
    BY <1>1, <1>2, <1>3, <1>4, <1>5 DEF Primaries, Generals

\* The fields of a task take ten general slots at most.
LEMMA TaskFieldsCounted ==
  ASSUME NEW i
  PROVE  /\ Plain(CreateTaskFields(i)) /\ Primaries(CreateTaskFields(i)) = 0
         /\ Generals(CreateTaskFields(i)) \in 0..10
  <1> DEFINE a == IF "reward_mint" \in i.has THEN <<"reward", "reward_mint">>
                                             ELSE <<"reward">>
             b == <<"task", "creator", "description", "deadline", "max_workers">>
             d == When("task_type" \in i.has, <<"task_type">>)
             e == <<"min_reputation", "program_id">>
             t == a \o b \o d \o e
  <1>1. Short(a, 2)
    BY Tuples DEF Short
  <1>2. Short(b, 5) /\ Short(d, 1) /\ Short(e, 2)
    BY Tuples, ShortWhen
  <1>3. CreateTaskFields(i) = Fields(i, t)
    BY DEF CreateTaskFields
  <1> HIDE DEF a, b, d, e
  <1>4. Short(a \o b, 2 + 5)
    BY <1>1, <1>2, ShortJoined
  <1>5. Short(a \o b, 7)
    BY <1>4
  <1>6. Short((a \o b) \o d, 7 + 1)
    BY <1>2, <1>5, ShortJoined
  <1>7. Short((a \o b) \o d, 8)
    BY <1>6
  <1>8. Short(((a \o b) \o d) \o e, 8 + 2)
    BY <1>2, <1>7, ShortJoined
  <1>9. Short(t, 10)
    BY <1>8
  <1> HIDE DEF t
  <1> QED
    BY <1>3, <1>9, FieldsCounted

\* The fields of any other AgenC instruction are seven at most.
LEMMA AgencShort ==
  ASSUME NEW i, i.kind \in AgencKinds \ {"AgencCreateTask"}
  PROVE  Short(AgencFields(i), 7)
  <1>1. CASE i.kind = "AgencRegisterAgent"
    <2> DEFINE a == <<"stake", "agent", "authority", "capabilities", "endpoint">>
               b == When("metadata_uri" \in i.has, <<"metadata_uri">>)
    <2>1. Short(a, 5) /\ Short(b, 1)
      BY Tuples, ShortWhen
    <2>2. AgencFields(i) = a \o b
      BY <1>1 DEF AgencFields
    <2> HIDE DEF a, b
    <2>3. Short(a \o b, 5 + 1)
      BY <2>1, ShortJoined
    <2> QED
      BY <2>2, <2>3 DEF Short
  <1>2. CASE i.kind = "AgencConfigureTaskValidation"
    <2> DEFINE a == <<"task", "mode", "review_window", "validator_quorum">>
               b == When("attestor" \in i.has, <<"attestor">>)
    <2>1. Short(a, 4) /\ Short(b, 1)
      BY Tuples, ShortWhen
    <2>2. AgencFields(i) = a \o b
      BY <1>2 DEF AgencFields
    <2> HIDE DEF a, b
    <2>3. Short(a \o b, 4 + 1)
      BY <2>1, ShortJoined
    <2> QED
      BY <2>2, <2>3 DEF Short
  <1>3. CASE i.kind = "AgencSetTaskJobSpec"
    BY <1>3, Tuples DEF AgencFields, Short
  <1>4. CASE i.kind = "AgencClaimTaskWithJobSpec"
    BY <1>4, Tuples DEF AgencFields, Short
  <1>5. CASE i.kind = "AgencSubmitTaskResult"
    BY <1>5, Tuples DEF AgencFields, Short
  <1>6. CASE i.kind = "AgencAcceptTaskResult"
    BY <1>6, Tuples DEF AgencFields, Short
  <1>7. CASE i.kind = "AgencRejectTaskResult"
    BY <1>7, Tuples DEF AgencFields, Short
  <1>8. CASE i.kind = "AgencCancelTask"
    BY <1>8, Tuples DEF AgencFields, Short
  <1>9. CASE i.kind = "AgencExpireClaim"
    BY <1>9, Tuples DEF AgencFields, Short
  <1> QED
    BY <1>1, <1>2, <1>3, <1>4, <1>5, <1>6, <1>7, <1>8, <1>9 DEF AgencKinds

\* An AgenC instruction fits the slots.
LEMMA AgencSmall ==
  ASSUME NEW i, i.kind \in AgencKinds
  PROVE  Small(AgencInfo(i))
  <1>1. CASE i.kind = "AgencCreateTask"
    <2>1. AgencInfo(i) = Action(i) \o CreateTaskFields(i)
      BY <1>1 DEF AgencInfo
    <2> QED
      BY <2>1, ActionCounted, TaskFieldsCounted, Summed DEF Small
  <1>2. CASE i.kind # "AgencCreateTask"
    <2> DEFINE t == AgencFields(i) \o <<"program_id">>
    <2>1. AgencInfo(i) = Action(i) \o Fields(i, t)
      BY <1>2 DEF AgencInfo
    <2>2. Short(AgencFields(i), 7) /\ Short(<<"program_id">>, 1)
      BY <1>2, AgencShort, Tuples
    <2>3. Short(t, 7 + 1)
      BY <2>2, ShortJoined
    <2>4. Short(t, 8)
      BY <2>3
    <2> HIDE DEF t
    <2>5. /\ Plain(Fields(i, t)) /\ Primaries(Fields(i, t)) = 0
          /\ Generals(Fields(i, t)) \in 0..8
      BY <2>4, FieldsCounted
    <2> QED
      BY <2>1, <2>5, ActionCounted, Summed DEF Small
  <1> QED
    BY <1>1, <1>2

-------------------------------------------------------------------------------
(* How many a pattern makes. *)

\* A printer gives up or asks for what fits.
Fitting(rs) == rs = Bail \/ Small(rs)

\* The creation of an associated token account fits the slots.
LEMMA TokenAccountSmall ==
  ASSUME NEW i
  PROVE  Small(CreateTokenAccount(i))
  BY Counted DEF Small, CreateTokenAccount

\* An instruction that is alone gives up or fits the slots.
LEMMA InfoFits ==
  ASSUME NEW i, NEW c
  PROVE  Fitting(PrintInfo(i, c))
  <1>0. /\ i.kind \in SystemKinds => i.kind \notin StakeKinds \union VoteKinds \union SplTokenKinds
        /\ i.kind \in SystemKinds => i.kind \notin AgencKinds
        /\ i.kind \in StakeKinds => i.kind \notin VoteKinds \union SplTokenKinds \union AgencKinds
        /\ i.kind \in VoteKinds => i.kind \notin SplTokenKinds \union AgencKinds
        /\ i.kind \in SplTokenKinds => i.kind \notin AgencKinds
        /\ i.kind = "SplAssociatedTokenAccount" =>
             i.kind \notin SystemKinds \union StakeKinds \union VoteKinds \union SplTokenKinds
                              \union AgencKinds
    BY DEF SystemKinds, StakeKinds, VoteKinds, SplTokenKinds, AgencKinds
  <1>1. CASE i.kind \in SystemKinds
    BY <1>0, <1>1, SystemInfoSmall DEF PrintInfo, Fitting
  <1>2. CASE i.kind \in StakeKinds
    BY <1>0, <1>2, StakeInfoSmall DEF PrintInfo, Fitting
  <1>3. CASE i.kind \in VoteKinds
    BY <1>0, <1>3, VoteInfoSmall DEF PrintInfo, Fitting
  <1>4. CASE i.kind \in SplTokenKinds
    BY <1>0, <1>4, SplTokenInfoSmall DEF PrintInfo, Fitting
  <1>5. CASE i.kind = "SplAssociatedTokenAccount"
    BY <1>0, <1>5, TokenAccountSmall DEF PrintInfo, Fitting
  <1>6. CASE i.kind \in AgencKinds
    BY <1>0, <1>6, AgencSmall DEF PrintInfo, Fitting
  <1>7. CASE i.kind \notin SystemKinds \union StakeKinds \union VoteKinds \union SplTokenKinds
                             \union {"SplAssociatedTokenAccount"} \union AgencKinds
    BY <1>7 DEF PrintInfo, Fitting
  <1> QED
    BY <1>1, <1>2, <1>3, <1>4, <1>5, <1>6, <1>7

\* Without its owner an account that is created has four items.
LEMMA BriefCounted ==
  ASSUME NEW i, NEW c
  PROVE  /\ Plain(CreateAccount(i, c, FALSE)) /\ Primaries(CreateAccount(i, c, FALSE)) = 0
         /\ Generals(CreateAccount(i, c, FALSE)) \in 0..4
  <1> DEFINE amount == General(i, "lamports")
             from == When(ShowAuthority(i, c), General(i, "from"))
             space == When(FALSE /\ "unknownOwner" \in i.has,
                           General(i, "space") \o General(i, "owner"))
             seed == When(i.kind = "SystemCreateAccountWithSeed", BaseAndSeed(i, c))
             front == amount \o from \o space
             created == CreateAccount(i, c, FALSE)
  <1>1. created = front \o seed
    BY DEF CreateAccount, CreateAccountFields
  <1>2. space = <<>>
    BY DEF When
  <1>3. Plain(<<>>) /\ Primaries(<<>>) = 0 /\ Generals(<<>>) = 0
    BY CountJoined, PlainJoined DEF Primaries, Generals
  <1>4. /\ Plain(amount) /\ Primaries(amount) = 0 /\ Generals(amount) \in 0..1
        /\ Plain(from) /\ Primaries(from) = 0 /\ Generals(from) \in 0..1
    BY Counted
  <1>5. /\ Plain(BaseAndSeed(i, c)) /\ Primaries(BaseAndSeed(i, c)) = 0
        /\ Generals(BaseAndSeed(i, c)) \in 0..2
    BY Counted DEF BaseAndSeed
  <1>6. Plain(seed) /\ Primaries(seed) = 0 /\ Generals(seed) \in 0..2
    BY <1>5, Counted
  <1> HIDE DEF amount, from, space, seed
  <1>7. Plain(front) /\ Primaries(front) = 0 /\ Generals(front) \in 0..2
    BY <1>2, <1>3, <1>4, Summed
  <1> HIDE DEF front, created
  <1>8. Plain(created) /\ Primaries(created) = 0 /\ Generals(created) \in 0..4
    BY <1>1, <1>6, <1>7, Summed
  <1> QED
    BY <1>8 DEF created

\* The worst case of transaction_summary.h: a stake account created with a seed, a
\* lockup and a delegation, for an expert.
LEMMA CreateStakeSmall ==
  ASSUME NEW is, NEW c
  PROVE  Small(PrintCreateStake(is, c))
  <1> DEFINE p == Primary(is[1], "to")
             a == CreateAccount(is[1], c, FALSE)
             b == StakeInitialize(is[2], c)
             d == When(Len(is) = 3, DelegateStake(is[3], c))
             front == p \o a
             middle == front \o b
  <1>1. PrintCreateStake(is, c) = middle \o d
    BY DEF PrintCreateStake
  <1>2. Plain(p) /\ Primaries(p) \in 0..1 /\ Generals(p) = 0
    BY Counted
  <1>3. Plain(a) /\ Primaries(a) = 0 /\ Generals(a) \in 0..4
    BY BriefCounted
  <1>4. Plain(b) /\ Primaries(b) = 0 /\ Generals(b) \in 0..5
    BY InitializeSmall
  <1>5. /\ Plain(DelegateStake(is[3], c)) /\ Primaries(DelegateStake(is[3], c)) = 0
        /\ Generals(DelegateStake(is[3], c)) \in 0..2
    BY Counted DEF DelegateStake
  <1>6. Plain(d) /\ Primaries(d) = 0 /\ Generals(d) \in 0..2
    BY <1>5, Counted
  <1> HIDE DEF p, a, b, d
  <1>7. Plain(front) /\ Primaries(front) \in 0..1 /\ Generals(front) \in 0..4
    BY <1>2, <1>3, Summed
  <1> HIDE DEF front
  <1>8. Plain(middle) /\ Primaries(middle) \in 0..1 /\ Generals(middle) \in 0..9
    BY <1>4, <1>7, Summed
  <1> HIDE DEF middle
  <1> QED
    BY <1>1, <1>6, <1>8, Summed DEF Small

\* Creating a nonce or a vote account fits the slots.
LEMMA CreateOtherSmall ==
  ASSUME NEW is, NEW c
  PROVE  Small(PrintCreateOther(is, c))
  <1> DEFINE p == Primary(is[1], "to")
             a == CreateAccount(is[1], c, FALSE)
             b == IF is[2].kind = "VoteInitialize" THEN VoteInitialize(is[2])
                                                   ELSE InitializeNonce(is[2])
             front == p \o a
  <1>1. PrintCreateOther(is, c) = front \o b
    BY DEF PrintCreateOther
  <1>2. Plain(p) /\ Primaries(p) \in 0..1 /\ Generals(p) = 0
    BY Counted
  <1>3. Plain(a) /\ Primaries(a) = 0 /\ Generals(a) \in 0..4
    BY BriefCounted
  <1>4. Plain(b) /\ Primaries(b) = 0 /\ Generals(b) \in 0..4
    <2>1. /\ Plain(VoteInitialize(is[2])) /\ Primaries(VoteInitialize(is[2])) = 0
          /\ Generals(VoteInitialize(is[2])) \in 0..4
      BY Counted DEF VoteInitialize
    <2>2. /\ Plain(InitializeNonce(is[2])) /\ Primaries(InitializeNonce(is[2])) = 0
          /\ Generals(InitializeNonce(is[2])) \in 0..4
      BY Counted DEF InitializeNonce
    <2> QED
      BY <2>1, <2>2
  <1> HIDE DEF p, a, b
  <1>5. Plain(front) /\ Primaries(front) \in 0..1 /\ Generals(front) \in 0..4
    BY <1>2, <1>3, Summed
  <1> HIDE DEF front
  <1> QED
    BY <1>1, <1>4, <1>5, Summed DEF Small

\* Changing both authorities gives up or fits the slots.
LEMMA AuthorizeFits ==
  ASSUME NEW is, NEW c
  PROVE  Fitting(PrintAuthorizeBoth(is, c))
  <1> DEFINE p == Primary(is[1], "account")
             r == Request("general", Item({is[1], is[2]}, "new_authority"), FALSE)
             a == IF "sameAuthority" \in is[2].has THEN <<r>>
                  ELSE General(is[1], "new_authority") \o General(is[2], "new_authority")
             b == When("custodian" \in is[2].has, General(is[2], "custodian"))
             d == Authority(is[2], c)
             front == p \o a \o b
  <1>1. PrintAuthorizeBoth(is, c) = Bail \/ PrintAuthorizeBoth(is, c) = front \o d
    BY DEF PrintAuthorizeBoth
  <1>2. /\ Plain(p) /\ Primaries(p) \in 0..1 /\ Generals(p) = 0
        /\ Plain(b) /\ Primaries(b) = 0 /\ Generals(b) \in 0..1
        /\ Plain(d) /\ Primaries(d) = 0 /\ Generals(d) \in 0..1
    BY Counted
  <1>3. Plain(a) /\ Primaries(a) = 0 /\ Generals(a) \in 0..2
    <2>1. r.slot = "general" /\ "general" # "primary"
      BY DEF Request
    <2> DEFINE x == General(is[1], "new_authority") \o General(is[2], "new_authority")
    <2>2. a = <<r>> \/ a = x
      OBVIOUS
    <2> HIDE DEF r, a
    <2>3. Plain(<<r>>) /\ Primaries(<<r>>) = 0 /\ Generals(<<r>>) \in {0, 1}
      <3>1. Count(<<r>>, "general") \in {0, 1}
        BY CountJoined
      <3>2. Count(<<r>>, "primary") = 0
        BY <2>1, CountJoined
      <3> QED
        BY <2>1, <3>1, <3>2, PlainJoined DEF Primaries, Generals
    <2>4. Plain(x) /\ Primaries(x) = 0 /\ Generals(x) \in 0..2
      BY Counted
    <2> HIDE DEF x
    <2> QED
      BY <2>2, <2>3, <2>4
  <1> HIDE DEF p, a, b, d
  <1>4. Plain(front) /\ Primaries(front) \in 0..1 /\ Generals(front) \in 0..3
    BY <1>2, <1>3, Summed
  <1> HIDE DEF front
  <1>5. Small(front \o d)
    BY <1>2, <1>4, Summed DEF Small
  <1> QED
    BY <1>1, <1>5 DEF Fitting

\* Splitting a stake account, funded or not, fits the slots.
LEMMA StakeSplitSmall ==
  ASSUME NEW is, NEW c
  PROVE  Small(PrintStakeSplit(is, c)) /\ Small(PrintStakeSplitWithSeed(is, c))
  <1> DEFINE i == Last(is)
             s == is[Len(is) - 1]
             f == Prefund(is, c)
             split == StakeSplit1(i)
             seed == BaseAndSeed(s, c)
             signer == Authority(i, c)
  <1>1. /\ PrintStakeSplit(is, c) = f \o (split \o signer)
        /\ PrintStakeSplitWithSeed(is, c) = ((f \o split) \o seed) \o signer
    BY DEF PrintStakeSplit, PrintStakeSplitWithSeed, StakeSplit
  <1>2. Plain(f) /\ Primaries(f) = 0 /\ Generals(f) \in 0..2
    <2>1. /\ Plain(SystemPrefundForSplit(is[1], c)) /\ Primaries(SystemPrefundForSplit(is[1], c)) = 0
          /\ Generals(SystemPrefundForSplit(is[1], c)) \in 0..2
      BY Counted DEF SystemPrefundForSplit
    <2> QED
      BY <2>1, Counted DEF Prefund
  <1>3. Plain(split) /\ Primaries(split) \in 0..1 /\ Generals(split) \in 0..2
    BY Counted DEF StakeSplit1
  <1>4. Plain(seed) /\ Primaries(seed) = 0 /\ Generals(seed) \in 0..2
    BY Counted DEF BaseAndSeed
  <1>5. Plain(signer) /\ Primaries(signer) = 0 /\ Generals(signer) \in 0..1
    BY Counted
  <1> HIDE DEF f, split, seed, signer
  <1> DEFINE x == split \o signer
             y == f \o split
             z == y \o seed
  <1>6. Plain(x) /\ Primaries(x) \in 0..1 /\ Generals(x) \in 0..3
    BY <1>3, <1>5, Summed
  <1>7. Plain(y) /\ Primaries(y) \in 0..1 /\ Generals(y) \in 0..4
    BY <1>2, <1>3, Summed
  <1>8. PrintStakeSplit(is, c) = f \o x /\ PrintStakeSplitWithSeed(is, c) = z \o signer
    BY <1>1
  <1> HIDE DEF x, y
  <1>9. Plain(z) /\ Primaries(z) \in 0..1 /\ Generals(z) \in 0..6
    BY <1>4, <1>7, Summed
  <1> HIDE DEF z
  <1>10. Small(f \o x)
    BY <1>2, <1>6, Summed DEF Small
  <1>11. Small(z \o signer)
    BY <1>5, <1>9, Summed DEF Small
  <1> QED
    BY <1>8, <1>10, <1>11

\* Creating a token mint, account or multisig fits the slots.
LEMMA SplCreateSmall ==
  ASSUME NEW is, NEW c
  PROVE  Small(PrintSplCreate(is, c))
  <1> DEFINE i == is[2]
             mint == SplInitializeMint(i)
             multisig == Primary(i, "account") \o RequiredSigners(i)
             account == SplInitializeAccount(i)
             a == CASE i.kind = "SplInitializeMint" -> mint
                    [] i.kind = "SplInitializeMultisig" -> multisig
                    [] OTHER -> account
             b == When(ShowAuthority(is[1], c), General(is[1], "from"))
             d == General(is[1], "lamports")
  <1>1. PrintSplCreate(is, c) = (a \o b) \o d
    BY DEF PrintSplCreate
  <1>2. a = mint \/ a = multisig \/ a = account
    <2> HIDE DEF mint, multisig, account
    <2>1. CASE i.kind = "SplInitializeMint"
      BY <2>1
    <2>2. CASE i.kind = "SplInitializeMultisig"
      BY <2>2
    <2>3. CASE i.kind # "SplInitializeMint" /\ i.kind # "SplInitializeMultisig"
      BY <2>3
    <2> QED
      BY <2>1, <2>2, <2>3
  <1>3. Plain(mint) /\ Primaries(mint) \in 0..1 /\ Generals(mint) \in 0..3
    BY Counted DEF SplInitializeMint
  <1>4. Plain(multisig) /\ Primaries(multisig) \in 0..1 /\ Generals(multisig) \in 0..1
    BY Counted DEF RequiredSigners
  <1>5. Plain(account) /\ Primaries(account) \in 0..1 /\ Generals(account) \in 0..2
    BY Counted DEF SplInitializeAccount
  <1>6. /\ Plain(b) /\ Primaries(b) = 0 /\ Generals(b) \in 0..1
        /\ Plain(d) /\ Primaries(d) = 0 /\ Generals(d) \in 0..1
    BY Counted
  <1> HIDE DEF mint, multisig, account, a, b, d
  <1>7. Plain(a) /\ Primaries(a) \in 0..1 /\ Generals(a) \in 0..3
    BY <1>2, <1>3, <1>4, <1>5
  <1> DEFINE front == a \o b
  <1>8. Plain(front) /\ Primaries(front) \in 0..1 /\ Generals(front) \in 0..4
    BY <1>6, <1>7, Summed
  <1>9. PrintSplCreate(is, c) = front \o d
    BY <1>1
  <1> HIDE DEF front
  <1> QED
    BY <1>6, <1>8, <1>9, Summed DEF Small

\* The other one: a task in a mint with a type, and its review, use every slot.
LEMMA CreateTaskFits ==
  ASSUME NEW create, NEW configure
  PROVE  Fitting(CreateTaskWithReview(create, configure))
  <1> DEFINE p == Action(create)
             a == CreateTaskFields(create)
             window == <<"review_window">>
             b == Fields(configure, window)
             front == p \o a
  <1>1. \/ CreateTaskWithReview(create, configure) = Bail
        \/ CreateTaskWithReview(create, configure) = front \o b
    BY DEF CreateTaskWithReview
  <1>2. /\ Plain(p) /\ Primaries(p) \in 0..1 /\ Generals(p) = 0
        /\ Plain(a) /\ Primaries(a) = 0 /\ Generals(a) \in 0..10
    BY ActionCounted, TaskFieldsCounted
  <1>3. Short(window, 1)
    BY Tuples
  <1> HIDE DEF p, a, window
  <1>4. Plain(b) /\ Primaries(b) = 0 /\ Generals(b) \in 0..1
    BY <1>3, FieldsCounted
  <1> HIDE DEF b
  <1>5. Plain(front) /\ Primaries(front) \in 0..1 /\ Generals(front) \in 0..10
    BY <1>2, Summed
  <1> HIDE DEF front
  <1>6. Small(front \o b)
    BY <1>4, <1>5, Summed DEF Small
  <1> QED
    BY <1>1, <1>6 DEF Fitting

\* Every pattern fits the slots.
LEMMA PatternFits ==
  ASSUME NEW is, NEW c
  PROVE  Fitting(PrintPattern(is, c))
  <1> DEFINE ks == KindsOf(is)
             a1 == PrintInfo(is[1], c)
             a2 == PrintCreateStake(is, c)
             a3 == PrintCreateOther(is, c)
             a4 == PrintAuthorizeBoth(is, c)
             a5 == PrintStakeSplit(is, c)
             a6 == PrintStakeSplitWithSeed(is, c)
             a7 == PrintSplCreate(is, c)
             a8 == SplTransfer(is[2], c)
             a9 == CreateTaskWithReview(is[1], is[2])
  <1>1. /\ Fitting(a1) /\ Fitting(a2) /\ Fitting(a3) /\ Fitting(a4) /\ Fitting(a5)
        /\ Fitting(a6) /\ Fitting(a7) /\ Fitting(a8) /\ Fitting(a9) /\ Fitting(Bail)
    BY InfoFits, CreateStakeSmall, CreateOtherSmall, AuthorizeFits, StakeSplitSmall,
       SplCreateSmall, TransferSmall, CreateTaskFits DEF Fitting
  <1>2. PrintPattern(is, c) = CASE Len(is) = 1 -> a1
       [] IsCreateStake(ks) -> a2
       [] IsCreateOther(ks) -> a3
       [] IsAuthorizeBoth(ks) -> a4
       [] IsStakeSplit(ks) -> a5
       [] IsStakeSplitWithSeed(ks) -> a6
       [] IsSplCreate(ks) -> a7
       [] IsCreateWithTransfer(ks) -> a8
       [] IsCreateTaskWithReview(ks) -> a9
       [] OTHER -> Bail
    BY DEF PrintPattern
  <1> HIDE DEF a1, a2, a3, a4, a5, a6, a7, a8, a9, ks
  <1> QED
    BY <1>1, <1>2

-------------------------------------------------------------------------------
(* How many a transaction makes, and the slots they find. *)

\* What is asked for is not part of a pattern.
Extras(rs) ==
  \E n \in DOMAIN rs : rs[n].item.field \in {"max_fee", "extension_warning"}

\* There is a slot for each of the requests rs, and the printers give up before
\* they use one that a blind review needs.
RequestsFit(rs) ==
  /\ \A slot \in NamedSlots : Count(rs, slot) <= 1
  /\ Count(rs, "general") <= NumGeneralItems
  /\ \A n \in DOMAIN rs : rs[n].slot = "bail" =>
       \A k \in 1..(n - 1) : rs[k].slot \notin {"primary", "general"}

\* A slot that is not asked for is not counted.
LEMMA NoneCounted ==
  ASSUME NEW rs, IsSequence(rs), NEW slot, \A n \in DOMAIN rs : rs[n].slot # slot
  PROVE  Count(rs, slot) = 0
  <1>0. PICK S : rs \in Seq(S)
    BY DEF IsSequence
  <1> DEFINE U == {r \in S : r.slot # slot}
             T == {r \in Requests : r.slot = slot}
  <1>1. rs \in Seq(U)
    <2>1. rs \in [1..Len(rs) -> S] /\ Len(rs) \in Nat
      BY <1>0
    <2>2. \A n \in 1..Len(rs) : rs[n] \in U
      BY <2>1
    <2> QED
      BY <2>1, <2>2
  <1>2. U \intersect T = {}
    OBVIOUS
  <1>3. Count(rs, slot) = Len(InOrder(rs, T))
    BY DEF Count
  <1> HIDE DEF U, T
  <1>4. InOrder(rs, T) \in Seq(U \intersect T)
    BY <1>1, InOrderHolds
  <1>5. \A s \in Seq({}) : Len(s) = 0
    OBVIOUS
  <1> QED
    BY <1>2, <1>3, <1>4, <1>5

\* What is appended stays, and what is appended to nothing is all there is.
LEMMA Around ==
  /\ \A a : IsSequence(a) => a \o <<>> = a /\ <<>> \o a = a
  /\ \A a, b : IsSequence(a) /\ IsSequence(b) => (Extras(a) \/ Extras(b) => Extras(a \o b))
  <1>1. ASSUME NEW a, IsSequence(a) PROVE a \o <<>> = a /\ <<>> \o a = a
    <2>1. PICK S : a \in Seq(S)
      BY <1>1 DEF IsSequence
    <2> QED
      BY <2>1, ConcatEmptySeq
  <1>2. ASSUME NEW a, NEW b, IsSequence(a), IsSequence(b), Extras(a) \/ Extras(b)
        PROVE  Extras(a \o b)
    <2>1. PICK A, B : a \in Seq(A) /\ b \in Seq(B)
      BY <1>2 DEF IsSequence
    <2> DEFINE S == A \union B
               t == a \o b
    <2>2. a \in Seq(S) /\ b \in Seq(S)
      BY <2>1, SeqMonotonic
    <2> HIDE DEF S
    <2>3. /\ t \in Seq(S) /\ Len(t) = Len(a) + Len(b) /\ Len(a) \in Nat /\ Len(b) \in Nat
          /\ \A n \in 1..Len(a) : t[n] = a[n]
          /\ \A n \in 1..Len(b) : t[Len(a) + n] = b[n]
      BY <2>2, JoinedAt, LenProperties
    <2>4. DOMAIN a = 1..Len(a) /\ DOMAIN b = 1..Len(b) /\ DOMAIN t = 1..(Len(a) + Len(b))
      BY <2>2, <2>3, LenProperties
    <2> HIDE DEF t
    <2>5. ASSUME NEW n \in DOMAIN a PROVE n \in DOMAIN t /\ t[n] = a[n]
      BY <2>3, <2>4
    <2>6. ASSUME NEW n \in DOMAIN b PROVE Len(a) + n \in DOMAIN t /\ t[Len(a) + n] = b[n]
      BY <2>3, <2>4
    <2>7. Extras(t)
      BY <1>2, <2>5, <2>6 DEF Extras
    <2> QED
      BY <2>7 DEF t
  <1> QED
    BY <1>1, <1>2

\* The maximum fee and the warning are not part of any pattern.
LEMMA ExtrasAsked ==
  /\ IsSequence(MaxFee) /\ Extras(MaxFee)
  /\ IsSequence(ExtensionWarning) /\ Extras(ExtensionWarning)
  <1>1. IsSequence(MaxFee) /\ Extras(MaxFee)
    <2> DEFINE r == Request("general", Item({}, "max_fee"), FALSE)
    <2>1. MaxFee = <<r>> /\ r.item.field = "max_fee"
      BY DEF MaxFee, Request, Item
    <2> HIDE DEF r
    <2>2. <<r>> \in Seq({r}) /\ 1 \in DOMAIN <<r>> /\ <<r>>[1] = r
      OBVIOUS
    <2> QED
      BY <2>1, <2>2 DEF IsSequence, Extras
  <1>2. IsSequence(ExtensionWarning) /\ Extras(ExtensionWarning)
    <2> DEFINE r == Request("general", Item({}, "extension_warning"), FALSE)
               s == Request("general", Item({}, "verify_before_signing"), FALSE)
               x == <<r, s>>
    <2>1. ExtensionWarning = x /\ r.item.field = "extension_warning"
      BY DEF ExtensionWarning, Request, Item
    <2> HIDE DEF r, s
    <2>2. x \in Seq({r, s}) /\ 1 \in DOMAIN x /\ x[1] = r
      OBVIOUS
    <2> HIDE DEF x
    <2> QED
      BY <2>1, <2>2 DEF IsSequence, Extras
  <1> QED
    BY <1>1, <1>2

\* What fits, and giving up, is a sequence of requests.
LEMMA FittingTyped ==
  ASSUME NEW rs, Fitting(rs)
  PROVE  IsSequence(rs)
  BY BailAsked DEF Fitting, Small, Plain

\* Without a maximum fee what is asked for is a pattern.
LEMMA NonceProcessedFits ==
  ASSUME NEW is, NEW c
  PROVE  /\ IsSequence(PrintNonceProcessed(is, c))
         /\ Fitting(PrintNonceProcessed(is, c)) \/ Extras(PrintNonceProcessed(is, c))
  <1> DEFINE first == LeadingComputeBudget(is)
             budget == SubSeq(is, 1, first)
             shown == SubSeq(is, first + 1, Len(is))
             p == PrintPattern(shown, c)
             fee == When(HasMaxFee(budget) \/ IsCreateWithTransfer(KindsOf(shown)), MaxFee)
  <1>1. PrintNonceProcessed(is, c) = IF MaxFeeOverflows(budget) THEN Bail ELSE p \o fee
    BY DEF PrintNonceProcessed
  <1>2. fee = MaxFee \/ fee = <<>>
    BY DEF When
  <1>3. Fitting(p) /\ Fitting(Bail)
    BY PatternFits DEF Fitting
  <1> HIDE DEF first, budget, shown, p, fee
  <1>4. CASE PrintNonceProcessed(is, c) = Bail
    BY <1>3, <1>4, FittingTyped
  <1>5. CASE PrintNonceProcessed(is, c) = p \o fee
    <2>1. IsSequence(p)
      BY <1>3, FittingTyped
    <2>2. CASE fee = <<>>
      BY <1>3, <1>5, <2>1, <2>2, Around
    <2>3. CASE fee = MaxFee
      <3>1. IsSequence(p \o MaxFee) /\ Extras(p \o MaxFee)
        BY <2>1, Around, ExtrasAsked, Concatenated
      <3> QED
        BY <1>5, <2>3, <3>1
    <2> QED
      BY <1>2, <2>2, <2>3
  <1> QED
    BY <1>1, <1>4, <1>5

\* What is asked for a nonce is for its own slots.
LEMMA NonceAsked ==
  ASSUME NEW i, NEW c
  PROVE  \/ NoncedTransaction(i, c) = <<>>
         \/ \E a, b : /\ NoncedTransaction(i, c) = <<a, b>>
                      /\ a.slot = "nonce_account" /\ b.slot = "nonce_authority"
  <1> DEFINE a == Request("nonce_account", Item({i}, "account"), FALSE)
             b == Request("nonce_authority", Item({i}, "authority"), FALSE)
  <1>1. a.slot = "nonce_account" /\ b.slot = "nonce_authority"
    BY DEF Request
  <1>2. NoncedTransaction(i, c) = <<a, b>> \/ NoncedTransaction(i, c) = <<>>
    BY DEF NoncedTransaction, When
  <1> HIDE DEF a, b
  <1> QED
    BY <1>1, <1>2

\* A pattern fits.
LEMMA FittingFits ==
  ASSUME NumGeneralItems >= 11, NEW q, Fitting(q)
  PROVE  RequestsFit(q)
  <1>1. CASE q = Bail
    <2> DEFINE r == Request("bail", NoField, TRUE)
    <2>1. Bail = <<r>> /\ r.slot = "bail"
      BY DEF Bail, Request
    <2> HIDE DEF r
    <2>2. DOMAIN <<r>> = {1} /\ <<r>>[1] = r /\ IsSequence(<<r>>)
      BY OneRequest
    <2>3. \A slot \in Slots : r.slot # slot
      BY <2>1 DEF Slots, NamedSlots
    <2>4. \A slot \in Slots : Count(<<r>>, slot) = 0
      BY <2>2, <2>3, NoneCounted
    <2>5. \A k \in 1..(1 - 1) : FALSE
      OBVIOUS
    <2>6. \A n \in DOMAIN <<r>> : \A k \in 1..(n - 1) : FALSE
      BY <2>2, <2>5
    <2> QED
      BY <1>1, <2>1, <2>4, <2>6, SummaryAssumption DEF RequestsFit, Slots
  <1>2. CASE Small(q)
    <2>1. Plain(q) /\ Count(q, "primary") <= 1 /\ Count(q, "general") <= 11
      BY <1>2 DEF Small, Primaries, Generals
    <2>2. IsSequence(q) /\ \A n \in DOMAIN q : q[n].slot \in {"primary", "general"}
      BY <2>1 DEF Plain
    <2>3. \A slot \in NamedSlots \ {"primary"} : Count(q, slot) = 0
      <3>1. \A slot \in NamedSlots \ {"primary"} : slot # "primary" /\ slot # "general"
        BY DEF NamedSlots
      <3> QED
        BY <2>2, <3>1, NoneCounted
    <2>4. \A slot \in NamedSlots : Count(q, slot) <= 1
      BY <2>1, <2>3
    <2>5. \A n \in DOMAIN q : q[n].slot # "bail"
      BY <2>2
    <2>6. Count(q, "general") \in Nat
      BY <2>2, CountJoined
    <2>7. Count(q, "general") <= NumGeneralItems
      BY <2>1, <2>6, SummaryAssumption
    <2> QED
      BY <2>4, <2>5, <2>7 DEF RequestsFit
  <1> QED
    BY <1>1, <1>2 DEF Fitting

\* So it does after a nonce.
LEMMA NoncedFits ==
  ASSUME NumGeneralItems >= 11, NEW q, Fitting(q), NEW a, NEW b,
         a.slot = "nonce_account", b.slot = "nonce_authority"
  PROVE  RequestsFit(<<a, b>> \o q)
  <1> DEFINE x == <<a, b>>
             t == x \o q
  <1>1. x \in Seq({a, b}) /\ Len(x) = 2 /\ x[1] = a /\ x[2] = b
    OBVIOUS
  <1>2. x = <<a>> \o <<b>>
    <2>1. a \in {a, b} /\ b \in {a, b}
      OBVIOUS
    <2> QED
      BY <2>1, Pair
  <1> HIDE DEF x
  <1>3. IsSequence(x) /\ IsSequence(q) /\ IsSequence(<<a>>) /\ IsSequence(<<b>>)
    BY <1>1, FittingTyped, OneRequest DEF IsSequence
  <1>4. PICK S : x \in Seq(S) /\ q \in Seq(S)
    <2>1. PICK A, B : x \in Seq(A) /\ q \in Seq(B)
      BY <1>3 DEF IsSequence
    <2>2. x \in Seq(A \union B) /\ q \in Seq(A \union B)
      BY <2>1, SeqMonotonic
    <2> QED
      BY <2>2
  <1>5. /\ t \in Seq(S) /\ Len(t) = 2 + Len(q) /\ Len(q) \in Nat
        /\ \A n \in 1..2 : t[n] = x[n]
        /\ \A n \in 1..Len(q) : t[2 + n] = q[n]
    <2>1. /\ t \in Seq(S) /\ Len(t) = Len(x) + Len(q)
          /\ \A n \in 1..Len(x) : t[n] = x[n]
          /\ \A n \in 1..Len(q) : t[Len(x) + n] = q[n]
      BY <1>4, JoinedAt
    <2>2. Len(q) \in Nat /\ Len(x) = 2
      BY <1>1, <1>4
    <2> HIDE DEF t
    <2> QED
      BY <2>1, <2>2
  <1>6. DOMAIN t = 1..(2 + Len(q)) /\ DOMAIN q = 1..Len(q)
    BY <1>4, <1>5, LenProperties
  <1>7. ASSUME NEW slot
        PROVE  /\ slot \notin {"nonce_account", "nonce_authority"} =>
                    Count(t, slot) = Count(q, slot)
               /\ Count(q, slot) = 0 => Count(t, slot) <= 1
    <2> DEFINE ct == Count(t, slot)
               cx == Count(x, slot)
               cq == Count(q, slot)
               ca == Count(<<a>>, slot)
               cb == Count(<<b>>, slot)
    <2>1. ct = cx + cq /\ cx = ca + cb /\ cq \in Nat
      BY <1>2, <1>3, CountJoined
    <2>2. \A r : Count(<<r>>, slot) \in {0, 1} /\ (r.slot # slot => Count(<<r>>, slot) = 0)
      BY CountJoined
    <2>3. /\ ca \in {0, 1} /\ (slot # "nonce_account" => ca = 0)
          /\ cb \in {0, 1} /\ (slot # "nonce_authority" => cb = 0)
      BY <2>2
    <2> HIDE DEF ct, cx, cq, ca, cb
    <2>4. "nonce_account" # "nonce_authority"
      OBVIOUS
    <2>5. /\ slot \notin {"nonce_account", "nonce_authority"} => ct = cq
          /\ cq = 0 => ct <= 1
      BY <2>1, <2>3, <2>4
    <2> QED
      BY <2>5 DEF ct, cq
  <1> HIDE DEF t
  <1>8. RequestsFit(q)
    BY FittingFits
  <1>9. Count(t, "general") <= NumGeneralItems
    <2>1. Count(t, "general") = Count(q, "general")
      BY <1>7
    <2> QED
      BY <1>8, <2>1 DEF RequestsFit
  <1>10. ASSUME NEW slot \in NamedSlots PROVE Count(t, slot) <= 1
    <2>1. CASE slot \notin {"nonce_account", "nonce_authority"}
      <3>1. Count(t, slot) = Count(q, slot) /\ Count(q, slot) <= 1
        BY <1>7, <1>8, <2>1 DEF RequestsFit
      <3> QED
        BY <3>1
    <2>2. CASE slot \in {"nonce_account", "nonce_authority"}
      <3>1. Count(q, slot) = 0
        <4>1. \A n \in DOMAIN q : q[n].slot \in {"bail", "primary", "general"}
          <5>1. \A n \in DOMAIN Bail : Bail[n].slot = "bail"
            BY DEF Bail, Request
          <5> QED
            BY <5>1 DEF Fitting, Small, Plain
        <4> QED
          BY <1>3, <2>2, <4>1, NoneCounted
      <3> QED
        BY <1>7, <3>1
    <2> QED
      BY <2>1, <2>2
  <1>11. ASSUME NEW n \in DOMAIN t, t[n].slot = "bail", NEW k \in 1..(n - 1)
         PROVE  t[k].slot \notin {"primary", "general"}
    <2>1. CASE q = Bail
      <3>1. Len(q) = 1
        BY <2>1 DEF Bail
      <3>2. k \in 1..2
        BY <1>6, <3>1
      <3> QED
        BY <1>1, <1>5, <3>2
    <2>2. CASE Small(q)
      <3>1. \A m \in 1..Len(q) : q[m].slot \in {"primary", "general"}
        BY <1>6, <2>2 DEF Small, Plain
      <3>2. \A m \in 1..Len(q) : q[m].slot # "bail"
        BY <3>1
      <3>3. CASE n \in 1..2
        <4>1. t[n] = a \/ t[n] = b
          BY <1>1, <1>5, <3>3
        <4> QED
          BY <1>11, <4>1
      <3>4. CASE n \notin 1..2
        <4>1. n - 2 \in 1..Len(q) /\ 2 + (n - 2) = n
          BY <1>5, <1>6, <3>4
        <4>2. t[n] = q[n - 2]
          BY <1>5, <4>1
        <4> QED
          BY <1>11, <3>2, <4>1, <4>2
      <3> QED
        BY <3>3, <3>4
    <2> QED
      BY <2>1, <2>2 DEF Fitting
  <1>12. RequestsFit(t)
    BY <1>9, <1>10, <1>11 DEF RequestsFit
  <1> QED
    BY <1>12 DEF t, x

\* What is asked for a message fits the slots, if nothing is added to a pattern.
LEMMA BodyFits ==
  ASSUME NumGeneralItems >= 11, NEW m
  PROVE  RequestsFit(ProcessMessageBody(m)) \/ Extras(ProcessMessageBody(m))
  <1> DEFINE kinds == {m.instructions[n].kind : n \in DOMAIN m.instructions}
             is == Displayed(m.instructions)
             warning == When("HiddenExtension" \in kinds, ExtensionWarning)
             body == PrintTransaction(is, m.config)
  <1>1. \/ ProcessMessageBody(m) = Bail
        \/ ProcessMessageBody(m) = warning \o body
    BY DEF ProcessMessageBody
  <1>2. warning = <<>> \/ warning = ExtensionWarning
    BY DEF When
  <1>3. IsSequence(body) /\ (RequestsFit(body) \/ Extras(body))
    <2> DEFINE q == PrintNonceProcessed(is, m.config)
               n == NoncedTransaction(is[1], m.config)
               p == PrintNonceProcessed(Tail(is), m.config)
    <2>1. body = q \/ body = n \o p
      BY DEF PrintTransaction
    <2>2. IsSequence(q) /\ (Fitting(q) \/ Extras(q))
      BY NonceProcessedFits
    <2>3. IsSequence(p) /\ (Fitting(p) \/ Extras(p))
      BY NonceProcessedFits
    <2>4. n = <<>> \/ \E a, b : n = <<a, b>> /\ a.slot = "nonce_account"
                                           /\ b.slot = "nonce_authority"
      BY NonceAsked
    <2> HIDE DEF q, n, p, body
    <2>5. CASE body = q
      BY <2>2, <2>5, FittingFits
    <2>6. CASE body = n \o p /\ n = <<>>
      BY <2>3, <2>6, FittingFits, Around
    <2>7. CASE body = n \o p /\ n # <<>>
      <3>1. PICK a, b : n = <<a, b>> /\ a.slot = "nonce_account" /\ b.slot = "nonce_authority"
        BY <2>4, <2>7
      <3>2. IsSequence(n)
        <4> DEFINE x == <<a, b>>
        <4>1. x \in Seq({a, b})
          OBVIOUS
        <4> HIDE DEF x
        <4>2. IsSequence(x)
          BY <4>1 DEF IsSequence
        <4> QED
          BY <3>1, <4>2 DEF x
      <3>3. IsSequence(body)
        BY <2>3, <2>7, <3>2, Concatenated
      <3>4. Extras(p) => Extras(body)
        BY <2>3, <2>7, <3>2, Around
      <3>5. Fitting(p) => RequestsFit(body)
        BY <2>7, <3>1, NoncedFits
      <3> QED
        BY <2>3, <3>3, <3>4, <3>5
    <2> QED
      BY <2>1, <2>5, <2>6, <2>7
  <1> HIDE DEF warning, body
  <1>4. CASE ProcessMessageBody(m) = Bail
    BY <1>4, FittingFits DEF Fitting
  <1>5. CASE ProcessMessageBody(m) = warning \o body
    <2>1. CASE warning = <<>>
      BY <1>3, <1>5, <2>1, Around
    <2>2. CASE warning = ExtensionWarning
      BY <1>3, <1>5, <2>2, ExtrasAsked, Around
    <2> QED
      BY <1>2, <2>1, <2>2
  <1> QED
    BY <1>1, <1>4, <1>5

\* What is counted of a slot is what is chosen for it.
LEMMA ChosenCounted ==
  ASSUME NEW rs \in Seq(Requests), NEW slot \in Slots
  PROVE  Len(Chosen(rs, slot)) = Count(rs, slot) /\ Count(rs, slot) \in Nat
  <1> DEFINE picked == InOrder(rs, {r \in Requests : r.slot = slot})
  <1>1. picked \in Seq(Requests)
    BY InOrderTyped
  <1>2. Chosen(rs, slot) = [n \in DOMAIN picked |-> picked[n].item] /\ Count(rs, slot) = Len(picked)
    BY DEF Chosen, Count
  <1>3. Chosen(rs, slot) \in Seq(Items)
    BY ChosenTyped
  <1> HIDE DEF picked
  <1>4. DOMAIN Chosen(rs, slot) = 1..Len(picked) /\ Len(picked) \in Nat
    BY <1>1, <1>2
  <1> QED
    BY <1>2, <1>3, <1>4

\* A slot that was not asked for is free, and so are the general slots after
\* those asked for.
LEMMA FreeUnasked ==
  ASSUME NEW s \in Summaries, NEW rs \in Seq(Requests), OrderOf(s, rs)
  PROVE  /\ \A slot \in NamedSlots : Count(rs, slot) = 0 => SlotFree(s, slot)
         /\ Count(rs, "general") < NumGeneralItems => SlotFree(s, "general")
  <1>1. ASSUME NEW slot \in NamedSlots, Count(rs, slot) = 0 PROVE SlotFree(s, slot)
    <2>1. slot \in Slots /\ slot # "general"
      BY DEF Slots, NamedSlots
    <2>2. Chosen(rs, slot) \in Seq(Items) /\ Len(Chosen(rs, slot)) = 0
      BY <1>1, <2>1, ChosenTyped, ChosenCounted
    <2>3. Chosen(rs, slot) = <<>>
      BY <2>2
    <2>4. Used(<<s.named[slot]>>) = <<>>
      BY <2>3 DEF OrderOf
    <2>5. s.named[slot] \in Written
      BY DEF Summaries, Written
    <2> DEFINE x == s.named[slot]
    <2> HIDE DEF x
    <2>6. x \in Written /\ Used(<<x>>) = <<>>
      BY <2>4, <2>5 DEF x
    <2>7. <<x>> # <<>>
      OBVIOUS
    <2>8. x = NoItem
      BY <2>6, <2>7, UsedOne
    <2> QED
      BY <2>1, <2>8 DEF SlotFree, x
  <1>2. ASSUME Count(rs, "general") < NumGeneralItems PROVE SlotFree(s, "general")
    <2> DEFINE n == Count(rs, "general") + 1
    <2>1. "general" \in Slots
      BY DEF Slots
    <2>2. Len(Chosen(rs, "general")) = n - 1 /\ n \in 1..NumGeneralItems
      BY <1>2, <2>1, ChosenCounted, SummaryAssumption
    <2> HIDE DEF n
    <2>3. n \in GeneralSlots /\ ~ n <= n - 1
      BY <2>2, SummaryAssumption DEF GeneralSlots
    <2>4. s.general[n] = NoItem
      BY <2>2, <2>3 DEF OrderOf
    <2> QED
      BY <2>3, <2>4 DEF SlotFree, UnusedGeneral
  <1> QED
    BY <1>1, <1>2

\* Of requests that fit, the next one finds a slot.
LEMMA FreeWhenFit ==
  ASSUME NEW s \in Summaries, NEW rs \in Seq(Requests), NEW k \in 0..(Len(rs) - 1),
         OrderOf(s, SubSeq(rs, 1, k)), RequestsFit(rs), rs[k + 1].slot \in Slots
  PROVE  SlotFree(s, rs[k + 1].slot)
  <1> DEFINE done == SubSeq(rs, 1, k)
             r == rs[k + 1]
             rest == SubSeq(rs, k + 2, Len(rs))
             next == SubSeq(rs, 1, k + 1)
             slot == rs[k + 1].slot
  <1>1. /\ done \in Seq(Requests) /\ next = Append(done, r)
        /\ Len(rs) \in Nat /\ k + 1 \in 1..Len(rs) /\ r \in Requests
    BY SubSeqGrows
  <1>2. rest \in Seq(Requests)
    <2>1. k + 2 \in Int /\ Len(rs) \in Int /\ \A i \in (k + 2)..Len(rs) : rs[i] \in Requests
      BY <1>1
    <2> QED
      BY <2>1, SubSeqProperties
  <1>3. rs = next \o rest
    <2>1. next \o rest = SubSeq(rs, 1, Len(rs))
      <3>1. /\ (k + 1) + 1 = k + 2 /\ 1 \in 1..(Len(rs) + 1)
            /\ k + 1 \in (1 - 1)..Len(rs) /\ Len(rs) \in (k + 1)..Len(rs)
        BY <1>1
      <3>2. PICK m : m = k + 1
        OBVIOUS
      <3>3. m \in (1 - 1)..Len(rs) /\ Len(rs) \in m..Len(rs)
        BY <3>1, <3>2
      <3>4. SubSeq(rs, 1, m) \o SubSeq(rs, m + 1, Len(rs)) = SubSeq(rs, 1, Len(rs))
        BY <3>1, <3>3, ConcatAdjacentSubSeq, Zenon
      <3>5. next = SubSeq(rs, 1, m) /\ rest = SubSeq(rs, m + 1, Len(rs))
        BY <3>1, <3>2
      <3> QED
        BY <3>4, <3>5
    <2> QED
      BY <2>1, SubSeqFull
  <1>4. next = done \o <<r>> /\ next \in Seq(Requests)
    BY <1>1, AppendIsConcat
  <1> HIDE DEF done, r, rest, next
  <1>5. <<r>> \in Seq(Requests)
    BY <1>1
  <1>6. /\ Count(rs, slot) = Count(next, slot) + Count(rest, slot)
        /\ Count(next, slot) = Count(done, slot) + Count(<<r>>, slot)
    <2>1. IsSequence(done) /\ IsSequence(<<r>>) /\ IsSequence(next) /\ IsSequence(rest)
      BY <1>1, <1>2, <1>4, <1>5 DEF IsSequence
    <2>2. Count(done \o <<r>>, slot) = Count(done, slot) + Count(<<r>>, slot)
      BY <2>1, CountJoined, Zenon
    <2>3. Count(next \o rest, slot) = Count(next, slot) + Count(rest, slot)
      BY <2>1, CountJoined, Zenon
    <2> QED
      BY <1>3, <1>4, <2>2, <2>3, Zenon
  <1>7. Count(<<r>>, slot) = 1
    <2>1. r \in Requests /\ r.slot = slot
      BY <1>1 DEF r
    <2> QED
      BY <2>1, CountJoined
  <1>8. Count(done, slot) \in Nat /\ Count(rest, slot) \in Nat
    BY <1>1, <1>2, CountJoined DEF IsSequence
  <1> DEFINE cd == Count(done, slot)
             ct == Count(rest, slot)
             cr == Count(rs, slot)
             c1 == Count(<<r>>, slot)
             cn == Count(next, slot)
  <1>9. slot \in NamedSlots \/ slot = "general"
    BY DEF Slots
  <1>10. (slot \in NamedSlots => cr <= 1) /\ (slot = "general" => cr <= NumGeneralItems)
    BY DEF RequestsFit
  <1>11. cr = cn + ct /\ cn = cd + c1 /\ c1 = 1 /\ cd \in Nat /\ ct \in Nat
    BY <1>6, <1>7, <1>8
  <1>12. OrderOf(s, done)
    BY DEF done
  <1> HIDE DEF cd, ct, cr, c1, cn
  <1>13. (slot \in NamedSlots => cd = 0) /\ (slot = "general" => cd < NumGeneralItems)
    BY <1>10, <1>11, SummaryAssumption
  <1>14. CASE slot \in NamedSlots
    <2>1. Count(done, slot) = 0
      BY <1>13, <1>14 DEF cd
    <2> QED
      BY <1>1, <1>12, <1>14, <2>1, FreeUnasked
  <1>15. CASE slot = "general"
    <2>1. Count(done, "general") < NumGeneralItems
      BY <1>13, <1>15 DEF cd
    <2>2. SlotFree(s, "general")
      BY <1>1, <1>12, <2>1, FreeUnasked
    <2> QED
      BY <1>15, <2>2
  <1> QED
    BY <1>9, <1>14, <1>15

\* When the printers give up at requests that fit, a blind review has its slots.
LEMMA FreeBeforeBail ==
  ASSUME NumGeneralItems >= 11,
         NEW s \in Summaries, NEW rs \in Seq(Requests), NEW k \in 0..(Len(rs) - 1),
         OrderOf(s, SubSeq(rs, 1, k)), RequestsFit(rs), rs[k + 1].slot = "bail"
  PROVE  SlotFree(s, "primary") /\ SlotFree(s, "general")
  <1> DEFINE done == SubSeq(rs, 1, k)
  <1>1. k + 1 \in DOMAIN rs /\ (k + 1) - 1 = k /\ 1..k \subseteq DOMAIN rs
    OBVIOUS
  <1>2. \A i \in 1..k : rs[i].slot \notin {"primary", "general"}
    BY <1>1 DEF RequestsFit
  <1>3. done \in Seq(Requests) /\ Len(done) = k /\ \A i \in 1..k : done[i] = rs[i]
    <2>1. done \in Seq(Requests)
      BY SubSeqGrows
    <2>2. Len(done) = k /\ \A i \in 1..k : done[i] = rs[i]
      OBVIOUS
    <2> QED
      BY <2>1, <2>2
  <1>4. OrderOf(s, done)
    OBVIOUS
  <1> HIDE DEF done
  <1>5. \A i \in DOMAIN done : done[i].slot \notin {"primary", "general"}
    BY <1>2, <1>3
  <1>6. IsSequence(done)
    BY <1>3 DEF IsSequence
  <1>7. Count(done, "primary") = 0 /\ Count(done, "general") = 0
    BY <1>5, <1>6, NoneCounted
  <1>8. "primary" \in NamedSlots /\ 0 < NumGeneralItems
    BY SummaryAssumption DEF NamedSlots
  <1> QED
    BY <1>3, <1>4, <1>7, <1>8, FreeUnasked

\* What a blind review asks for: the fee payer is the last and may be refused.
LEMMA BlindNeeds ==
  ASSUME NEW m
  PROVE  /\ DOMAIN BlindItems(m) \subseteq 1..3
         /\ BlindItems(m)[1].slot = "primary" /\ BlindItems(m)[2].slot = "general"
         /\ 3 \in DOMAIN BlindItems(m) => BlindItems(m)[3].checked
  <1> DEFINE p == Request("primary", Item({}, "unrecognized"), FALSE)
             h == Request("general", Item({}, "message_hash"), FALSE)
             f == Request("fee_payer", Item({}, "fee_payer"), TRUE)
  <1>1. p.slot = "primary" /\ h.slot = "general" /\ f.checked
    BY DEF Request
  <1>2. BlindItems(m) = <<p, h>> \o <<f>> \/ BlindItems(m) = <<p, h>> \o <<>>
    BY DEF BlindItems, When
  <1> HIDE DEF p, h, f
  <1> DEFINE x == <<p, h>> \o <<f>>
             y == <<p, h>> \o <<>>
  <1>3. DOMAIN x = 1..3 /\ x[1] = p /\ x[2] = h /\ x[3] = f
    OBVIOUS
  <1>4. DOMAIN y = 1..2 /\ y[1] = p /\ y[2] = h
    OBVIOUS
  <1> HIDE DEF x, y
  <1>5. CASE BlindItems(m) = x
    BY <1>1, <1>3, <1>5
  <1>6. CASE BlindItems(m) = y
    BY <1>1, <1>4, <1>6
  <1> QED
    BY <1>2, <1>5, <1>6 DEF x, y

\* If what was asked for fits the slots then a blind review finds its slots, and
\* nothing crashes the app.
SlotsInv ==
  /\ stage = "blind" /\ RequestsFit(BodyRequests(message)) =>
       /\ served = 0 => SlotFree(summary, "primary")
       /\ served <= 1 => SlotFree(summary, "general")
  /\ stage = "crashed" =>
       message \in Messages /\ ~ RequestsFit(BodyRequests(message))

\* Every step keeps SlotsInv: one step per action of the review.
LEMMA SlotsStep ==
  ASSUME PrintsTransactions, NumGeneralItems >= 11
  PROVE  ReviewInv /\ OrderInv /\ SlotsInv /\ [Next]_vars => SlotsInv'
  <1> SUFFICES ASSUME ReviewInv, OrderInv, SlotsInv, [Next]_vars PROVE SlotsInv'
    OBVIOUS
  <1>1. CASE \E m \in Messages : HandleSignMessage(m)
    BY <1>1 DEF HandleSignMessage, SlotsInv
  <1>2. CASE ServeRequest
    <2>1. /\ Serving /\ Current.slot \in Slots /\ Current.item \in Items
          /\ SlotFree(summary, Current.slot)
          /\ summary \in Summaries /\ served \in Nat
      BY <1>2, ServedSlotFree DEF ReviewInv, Serving
    <2>2. /\ summary' = SetItem(summary, Current.slot, Current.item)
          /\ served' = served + 1 /\ UNCHANGED <<message, stage, requests>>
          /\ stage \in {"printing", "blind"}
      BY <1>2, <2>1 DEF ServeRequest, Pending
    <2>3. CASE stage = "printing"
      BY <2>2, <2>3 DEF SlotsInv
    <2>4. CASE stage = "blind" /\ served # 0
      BY <2>1, <2>2, <2>4 DEF SlotsInv
    <2>5. CASE stage = "blind" /\ served = 0
      <3>1. Current.slot = "primary"
        BY <2>1, <2>5, BlindNeeds DEF Serving, Current, PrintsTransactions
      <3>2. SlotFree(summary, "general") => SlotFree(summary', "general")
        BY <2>2, <3>1 DEF SetItem, SlotFree, UnusedGeneral
      <3>3. RequestsFit(BodyRequests(message)) => SlotFree(summary', "general")
        BY <2>5, <3>2 DEF SlotsInv
      <3> QED
        BY <2>2, <2>5, <3>3 DEF SlotsInv
    <2> QED
      BY <2>2, <2>3, <2>4, <2>5
  <1>3. ASSUME Pending, stage = "printing"
        PROVE  /\ requests \in Seq(Requests) /\ served \in 0..(Len(requests) - 1)
               /\ message \in Messages /\ requests = BodyRequests(message)
               /\ summary \in Summaries /\ OrderOf(summary, SubSeq(requests, 1, served))
               /\ Current = requests[served + 1]
               /\ Current.slot \in Slots \union {"bail"}
    <2>1. Serving /\ served < Len(requests) /\ summary \in Summaries
      BY <1>3 DEF ReviewInv, Pending
    <2>2. requests \in Seq(Requests) /\ message \in Messages /\ requests = BodyRequests(message)
      BY <1>3, <2>1, RequestsTyped DEF Serving
    <2>3. served \in 0..(Len(requests) - 1) /\ requests[served + 1] \in Requests
      BY <2>1, <2>2 DEF Serving
    <2>4. Current.slot \in Slots \union {"bail"}
      BY <2>3 DEF Current, Requests
    <2> QED
      BY <1>3, <2>1, <2>2, <2>3, <2>4 DEF OrderInv, Current
  <1>4. CASE GiveUp
    <2>1. /\ Pending /\ stage = "printing" /\ UNCHANGED <<message, summary>> /\ served' = 0
          /\ Current.slot # "bail" => ~ SlotFree(summary, Current.slot)
          /\ stage' # "crashed"
      BY <1>4 DEF GiveUp
    <2>2. RequestsFit(requests) => SlotFree(summary, "primary") /\ SlotFree(summary, "general")
      <3> SUFFICES ASSUME RequestsFit(requests)
                   PROVE  SlotFree(summary, "primary") /\ SlotFree(summary, "general")
        OBVIOUS
      <3>1. Current.slot = "bail"
        BY <1>3, <2>1, FreeWhenFit
      <3> QED
        BY <1>3, <2>1, <3>1, FreeBeforeBail
    <2>3. requests = BodyRequests(message)
      BY <1>3, <2>1
    <2> QED
      BY <2>1, <2>2, <2>3 DEF SlotsInv
  <1>5. CASE Crash
    <2>1. /\ Pending /\ Current.slot # "bail" /\ ~ Current.checked
          /\ ~ SlotFree(summary, Current.slot)
          /\ stage' = "crashed" /\ UNCHANGED message /\ stage \in {"printing", "blind"}
      BY <1>5 DEF Crash, Pending
    <2>2. message \in Messages
      BY <2>1 DEF ReviewInv, Serving
    <2>3. ~ RequestsFit(BodyRequests(message))
      <3> SUFFICES ASSUME RequestsFit(BodyRequests(message)) PROVE FALSE
        OBVIOUS
      <3>1. CASE stage = "printing"
        <4>1. Current.slot \in Slots /\ requests = BodyRequests(message)
          BY <1>3, <2>1, <3>1
        <4> QED
          BY <1>3, <2>1, <3>1, <4>1, FreeWhenFit
      <3>2. CASE stage = "blind"
        <4>1. requests = BlindItems(message) /\ served \in 0..Len(requests) /\ served < Len(requests)
          BY <2>1, <2>2, <3>2 DEF ReviewInv, Serving, Pending, PrintsTransactions
        <4>2. requests \in Seq(Requests)
          BY <2>2, <4>1, RequestsTyped DEF PrintsTransactions
        <4>3. served + 1 \in DOMAIN requests
          BY <4>1, <4>2
        <4>4. served + 1 \in 1..3
          BY <4>1, <4>3, BlindNeeds
        <4>5. served \in 0..2
          BY <4>1, <4>2, <4>4
        <4>6. CASE served = 0
          <5>1. Current.slot = "primary" /\ SlotFree(summary, "primary")
            BY <3>2, <4>1, <4>6, BlindNeeds DEF SlotsInv, Current
          <5> QED
            BY <2>1, <5>1
        <4>7. CASE served = 1
          <5>1. Current.slot = "general" /\ SlotFree(summary, "general")
            BY <3>2, <4>1, <4>7, BlindNeeds DEF SlotsInv, Current
          <5> QED
            BY <2>1, <5>1
        <4>8. CASE served = 2
          <5>1. Current.checked
            BY <4>1, <4>3, <4>8, BlindNeeds DEF Current
          <5> QED
            BY <2>1, <5>1
        <4> QED
          BY <4>5, <4>6, <4>7, <4>8
      <3> QED
        BY <2>1, <3>1, <3>2
    <2> QED
      BY <2>1, <2>2, <2>3 DEF SlotsInv
  <1>6. CASE Finalize \/ DisplayItem \/ DisplayFails \/ Decide \/ Restart
    BY <1>6 DEF Finalize, DisplayItem, DisplayFails, Decide, Restart, SlotsInv
  <1>7. CASE UNCHANGED vars
    BY <1>7 DEF vars, SlotsInv
  <1> QED
    BY <1>1, <1>2, <1>4, <1>5, <1>6, <1>7 DEF Next, Work

\* NUM_GENERAL_ITEMS is enough for every pattern of instructions, whatever their
\* traits and the settings: only the maximum fee and the warning about extensions,
\* which are not part of a pattern, make the app write through NULL
\* (OverflowOnlyWithExtras).
THEOREM SlotsSuffice ==
  ASSUME PrintsTransactions, NumGeneralItems >= 11
  PROVE  Spec => []OverflowOnlyWithExtras
  <1>1. Init => SlotsInv
    BY DEF Init, SlotsInv
  <1>2. SlotsInv => OverflowOnlyWithExtras
    <2> SUFFICES ASSUME SlotsInv, stage = "crashed"
                 PROVE  \E n \in DOMAIN BodyRequests(message) :
                          BodyRequests(message)[n].item.field \in
                            {"max_fee", "extension_warning"}
      BY DEF OverflowOnlyWithExtras
    <2>1. message \in Messages /\ ~ RequestsFit(BodyRequests(message))
      BY DEF SlotsInv
    <2>2. BodyRequests(message) = ProcessMessageBody(message)
      BY <2>1 DEF PrintsTransactions
    <2>3. Extras(BodyRequests(message))
      BY <2>1, <2>2, BodyFits
    <2> QED
      BY <2>3 DEF Extras
  <1>3. ReviewInv /\ [Next]_vars => ReviewInv'
    BY ReviewStep
  <1> QED
    BY ReviewStart, <1>3, OrderInvStart, OrderInvStep, <1>1, SlotsStep, <1>2, PTL DEF Spec

===============================================================================
