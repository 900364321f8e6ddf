-------------------------- MODULE TransactionReview ---------------------------
(***************************************************************************)
(* MessageReview of the messages TransactionPrinters prints, and what can  *)
(* be said of the result.                                                  *)
(***************************************************************************)
EXTENDS MessageReview, TransactionPrinters

\* transaction_summary_update_display_for_item: dates must be of this calendar and
\* token amounts short enough for the text buffer; nothing else fails.
ValueDisplays(m, item) ==
  ~ /\ item.field \in {"unix_timestamp", "deadline", "tokens", "fee_tokens"}
    /\ \E i \in ToSet(m.instructions) :
         i.at \in item.of /\ "unprintable" \in i.has

\* The messages are transactions, and what is asked of the summary for them is
\* what the printers ask for; what the theorems about a review start from.
PrintsTransactions ==
  \A m \in Messages :
    /\ m.instructions \in Seq(ToSet(m.instructions))
    /\ BodyRequests(m) = ProcessMessageBody(m)
    /\ BlindRequests(m) = BlindItems(m)

BlindReview == stage = "reviewing" /\ requests = BlindRequests(message)
ClearReview == stage = "reviewing" /\ ~ BlindReview

\* The field of an instruction is on display.
Shown(i, field) ==
  \E n \in DOMAIN steps : i.at \in steps[n].of /\ steps[n].field = field

-------------------------------------------------------------------------------
(* What a user has to see of an instruction: how much, to whom, and who gets
   authority over what.  One field of each set. *)

One(fields) == {{f} : f \in fields}

Movements(i) ==
  CASE i.kind \in {"SystemTransfer", "SystemWithdrawNonceAccount",
                   "StakeWithdraw", "VoteWithdraw"} -> One({"lamports", "to"})
    [] i.kind \in CreateKinds -> One({"lamports"})
    [] i.kind = "StakeSplit" -> One({"lamports", "account", "split_account"})
    [] i.kind = "StakeMerge" -> One({"source", "destination"})
    [] i.kind = "StakeDelegate" -> One({"vote_account"})
    [] i.kind \in {"SplTransferChecked", "SplTransferCheckedWithFee"} ->
         One({"tokens"}) \union {{"to", "dest_account"}}
    [] i.kind \in {"SplMintToChecked", "SplBurnChecked"} ->
         One({"tokens", "mint_account", "token_account"})
    [] i.kind = "SplCloseAccount" -> One({"account", "dest_account"})
    [] i.kind = "AgencRegisterAgent" -> One({"stake", "agent"})
    [] i.kind = "AgencCreateTask" ->
         One({"reward", "task", "description", "program_id"})
    [] i.kind = "AgencAcceptTaskResult" -> One({"task", "worker", "treasury"})
    [] i.kind = "AgencExpireClaim" -> One({"claim", "rent_recipient"})
    [] OTHER -> {}

Grants(i) ==
  CASE i.kind \in {"SystemAuthorizeNonceAccount", "SystemInitializeNonceAccount",
                   "StakeAuthorize", "StakeAuthorizeChecked", "VoteAuthorize",
                   "VoteAuthorizeChecked"} -> One({"new_authority"})
    [] i.kind \in {"StakeInitialize", "StakeInitializeChecked"} ->
         {{"new_authority", "stake_authority"},
          {"new_authority", "withdraw_authority"}}
    [] i.kind = "VoteInitialize" ->
         One({"vote_authority", "withdraw_authority"})
    [] i.kind = "SplInitializeMint" -> One({"mint_authority"})
    [] i.kind \in {"SplInitializeAccount", "SplInitializeAccount2"} ->
         One({"owner"})
    [] i.kind = "SplApproveChecked" -> One({"delegate", "tokens"})
    [] i.kind = "SplSetAuthority" ->
         One({"account", "authority_type"})
           \union (IF "clear" \in i.has THEN {} ELSE One({"new_authority"}))
    [] i.kind = "AgencConfigureTaskValidation" -> One({"review_window"})
    [] OTHER -> {}

\* What a split is prepared with is not displayed: the account it creates, and
\* the funds it moves outside of expert mode.
PreparesSplit(i, m) ==
  /\ Last(Displayed(m.instructions)).kind = "StakeSplit"
  /\ \/ i.kind \in CreateKinds
     \/ i.kind = "SystemTransfer" /\ ~ m.config.expert
PrefundsSplit(i, m) ==
  /\ Last(Displayed(m.instructions)).kind = "StakeSplit"
  /\ i.kind = "SystemTransfer"

\* Nothing that moves funds or grants authority is missing from a clear review,
\* whatever pattern of instructions print_transaction recognised; of the funds
\* a split is prepared with, expert mode displays the amount and the sender.
NothingHidden ==
  ClearReview =>
    \A i \in ToSet(message.instructions) :
      IF PreparesSplit(i, message) THEN TRUE
      ELSE IF PrefundsSplit(i, message) THEN Shown(i, "lamports") /\ Shown(i, "from")
      ELSE \A alternatives \in Movements(i) \union Grants(i) :
             \E field \in alternatives : Shown(i, field)

\* A blind review says that it is one, and shows the hash of what is signed,
\* whatever the printers left in the summary before they gave up.
BlindReviewShowsHash ==
  BlindReview =>
    /\ Head(steps).field = "unrecognized"
    /\ \E n \in DOMAIN steps : steps[n].field = "message_hash"

\* The slots are enough for every pattern of instructions: only the maximum
\* fee and the warning about extensions, which are not part of any pattern, can
\* find the summary full and crash the app.
OverflowOnlyWithExtras ==
  stage = "crashed" =>
    \E n \in DOMAIN BodyRequests(message) :
      BodyRequests(message)[n].item.field \in {"max_fee", "extension_warning"}

-------------------------------------------------------------------------------
(* What the comments of the code say. *)

\* transaction_summary.h:22-30, the "Worst case" NUM_GENERAL_ITEMS is computed
\* from: there is always a general slot for an item that needs one.
GeneralItemsFit ==
  Pending /\ Current.slot = "general" => SlotFree(summary, "general")

\* sign_message_nbgl.c:64-68: that an item cannot be displayed "should never
\* happen as items were validated during finalization".
ReviewedItemsDisplay ==
  stage = "reviewing" /\ page < Len(steps) => ItemDisplays

\* transaction_printers.c:742-744: the account created before a split is
\* "issued with zero lamports in this case", so it is not displayed.
UnshownCreateIsFree ==
  ClearReview =>
    \A i \in ToSet(message.instructions) :
      i.kind \in CreateKinds /\ "lamports" \in i.has => Shown(i, "lamports")

===============================================================================
