------------------------------ MODULE SwapReview ------------------------------
(***************************************************************************)
(* A standard swap: the Exchange app hands over what the user has accepted *)
(* on its screens (src/swap/), then one message is signed without a screen *)
(* if its review, item after item, is that swap (check_swap_validity in    *)
(* src/handle_sign_message.c).                                             *)
(*                                                                         *)
(* A message is that of TransactionReview with what its fields hold: every *)
(* instruction has an "arg", and the message has the maximum fee computed  *)
(* from its compute budget and the trusted info received before it.  Keys  *)
(* are strings, and the text of a key stands for its base 58.              *)
(***************************************************************************)
EXTENDS TransactionReview, Amounts

CONSTANTS
  SolDecimals,      \* SOL_DECIMALS
  TextLength,       \* TEXT_BUFFER_LENGTH
  PrintableLength,  \* MAX_PRINTABLE_AMOUNT_SIZE
  Swaps,            \* what Exchange calls the app with
  Leftovers,        \* what a printer that fails leaves in the text buffer
  None

SOL == <<"S", "O", "L">>

VARIABLES
  swap,       \* the parameters of the call
  validated,  \* G_swap_validated
  shown,      \* G_transaction_summary_title and text
  seen,       \* amount_ok, mint_ok and the other flags that have been set
  verdict     \* the reply to the message

swapVars == <<swap, validated, shown, seen, verdict>>
allVars == <<vars, swapVars>>

Blank == [title |-> "", text |-> <<>>]

SwapInit ==
  /\ Init
  /\ swap = None
  /\ validated = None
  /\ shown = Blank
  /\ seen = {}
  /\ verdict = "none"

-------------------------------------------------------------------------------
(* The calls of Exchange. *)

\* The coin configuration; without one the swap is of SOL.
Coin(p) ==
  IF p.coin = None THEN [ticker |-> SOL, decimals |-> SolDecimals] ELSE p.coin

\* swap_handle_get_printable_amount: the text Exchange displays.
PrintableAmount(p, amount, isFee) ==
  LET coin == IF isFee THEN [ticker |-> SOL, decimals |-> SolDecimals] ELSE Coin(p)
  IN PrintTokenAmount(amount, coin.ticker, coin.decimals, PrintableLength)

SwapMode(extraId) ==
  CASE extraId \in {"absent", "native"} -> "standard"
    [] extraId = "template" -> "crosschain"
    [] OTHER -> "error"

\* Mutant: the decimals of SOL are kept for a token.
CopyParametersOfSol(p) ==
  [mode |-> SwapMode(p.extraId), ticker |-> Coin(p).ticker,
   decimals |-> SolDecimals, amount |-> p.amount, fee |-> p.fee,
   recipient |-> p.recipient]

\* swap_copy_transaction_parameters.
CopyParameters(p) ==
  [mode |-> SwapMode(p.extraId), ticker |-> Coin(p).ticker,
   decimals |-> Coin(p).decimals, amount |-> p.amount, fee |-> p.fee,
   recipient |-> p.recipient]

-------------------------------------------------------------------------------
(* What the items display. *)

KeyText(key) == <<key>>

\* check_ata_against_trusted_info: the transfer is to the associated account
\* of the trusted owner and mint.
MatchesTrusted(i, trusted) ==
  /\ trusted.received
  /\ i.arg.mint_account = trusted.mint
  /\ i.arg.dest_account = trusted.token
  /\ trusted.derives = ("token2022" \in i.has)

TransferKinds == {"SplTransferChecked", "SplTransferCheckedWithFee"}

\* The parser refuses a transfer to anything else.
Parsed(m) ==
  [n \in DOMAIN m.instructions |->
     LET i == m.instructions[n]
     IN IF i.kind \in TransferKinds /\ ~ MatchesTrusted(i, m.trusted)
        THEN [i EXCEPT !.kind = "Unknown"] ELSE i]

SwapBodyRequests(m) == ProcessMessageBody([m EXCEPT !.instructions = Parsed(m)])

\* The instruction an item is of; only "New authorities" is of two.
InstructionOf(m, item) ==
  CHOOSE i \in ToSet(m.instructions) : i.at \in item.of

\* SummaryItemKind_t.  The items of AgenC come after its action, which no swap
\* gets past.
ItemKind(m, item) ==
  CASE item.field \in {"lamports", "max_fee"} -> "Amount"
    [] item.field \in {"tokens", "fee_tokens"} -> "TokenAmount"
    [] item.field \in {"action", "authority_type", "no_lockup", "m_of_n",
                       "extension_warning", "verify_before_signing"} -> "String"
    [] item.field = "to" /\ InstructionOf(m, item).kind \in TransferKinds -> "String"
    [] item.field \in {"space", "epoch", "decimals", "signers", "commission", "seed",
                       "unix_timestamp"} -> "Other"
    [] OTHER -> "Pubkey"

CreatesSplAccount(m) ==
  "SystemCreateAccount" \in {i.kind : i \in ToSet(m.instructions)}

\* The titles the checks know of.  The items of AgenC have none of them.
ItemTitle(m, item) ==
  LET kind == InstructionOf(m, item).kind
      field == item.field
  IN CASE field = "max_fee" -> "Max fees"
       [] field \in {"extension_warning", "verify_before_signing", "message_hash"} ->
            "other"
       [] \/ field = "tokens" /\ kind \in TransferKinds
          \/ field = "lamports" /\ kind = "StakeWithdraw"
          \/ field = "lamports" /\ kind = "SystemTransfer"
               /\ item = summary.named["primary"] -> "Amount"
       [] \/ field = "to" /\ kind \in {"SystemTransfer", "SystemWithdrawNonceAccount",
                                       "StakeWithdraw", "VoteWithdraw"} \union TransferKinds
          \/ field = "split_account" -> "To"
       [] field = "mint_account" -> "Token address"
       [] \/ field = "dest_account" /\ kind \in TransferKinds
          \/ field = "token_account" /\ kind = "SplMintToChecked" -> "To (token account)"
       [] field = "token_account" -> "From (token account)"
       [] field = "account"
            /\ \/ kind = "SplAssociatedTokenAccount"
               \/ kind \in {"SplInitializeAccount", "SplInitializeAccount2"}
                    /\ CreatesSplAccount(m) -> "Create token account"
       [] field = "owner"
            /\ \/ kind = "SplAssociatedTokenAccount"
               \/ kind \in {"SplInitializeAccount", "SplInitializeAccount2"}
                    /\ CreatesSplAccount(m) -> "For"
       [] field = "from"
            /\ \/ kind = "SplAssociatedTokenAccount"
               \/ kind = "SystemCreateAccount" /\ CreatesSplAccount(m)
                    /\ steps[1].field = "account" -> "Funded by"
       [] OTHER -> "other"

\* What is printed of an item, with whether that succeeds.
ItemPrinted(m, item) ==
  LET arg == InstructionOf(m, item).arg
  IN CASE item.field = "max_fee" ->
            PrintTokenAmount(m.maxFee, SOL, SolDecimals, TextLength)
       [] item.field = "lamports" ->
            PrintTokenAmount(arg.lamports, SOL, SolDecimals, TextLength)
       [] item.field = "tokens" ->
            PrintTokenAmount(arg.tokens, arg.symbol, arg.decimals, TextLength)
       [] item.field = "fee_tokens" ->
            PrintTokenAmount(arg.fee_tokens, arg.symbol, arg.decimals, TextLength)
       \* get_transfer_to_address
       [] ItemKind(m, item) = "String" /\ item.field = "to" ->
            Printed(KeyText(m.trusted.owner))
       [] ItemKind(m, item) = "Pubkey" /\ item.field \in DOMAIN arg ->
            Printed(KeyText(arg[item.field]))
       [] OTHER -> Printed(<<"something">>)

SwapDisplays(m, item) == ItemPrinted(m, item).ok

\* transaction_summary_display_item.  When the value cannot be printed the
\* title of the item before stays, and the text is what it happens to be.
DisplayedAt(n) ==
  LET item == FindItem(summary, n)
      p == ItemPrinted(message, item)
  IN IF p.ok THEN {[title |-> ItemTitle(message, item), text |-> p.text]}
             ELSE {[title |-> shown.title, text |-> text] : text \in Leftovers}

-------------------------------------------------------------------------------
(* The comparison with the swap. *)

IsTokenTransaction == validated.ticker # SOL

\* check_swap_amount.
AmountAccepted(text) ==
  LET p == PrintTokenAmount(validated.amount, validated.ticker,
                            validated.decimals, PrintableLength)
  IN p.ok /\ text = p.text

\* check_swap_fee.
FeeAccepted(text) ==
  LET p == PrintTokenAmount(validated.fee, SOL, SolDecimals, PrintableLength)
  IN p.ok /\ AmountTextAtLeast(p.text, text)

\* check_swap_recipient.
RecipientAccepted(text) == text = KeyText(validated.recipient)

\* Mutant: the titles that are not known are passed over, as for tokens.
CheckNativeItemTitled(kind, s) ==
  \/ kind = "Amount" /\ s.title = "Max fees" /\ FeeAccepted(s.text)
  \/ kind = "Amount" /\ s.title = "Amount" /\ AmountAccepted(s.text)
  \/ kind = "Pubkey" /\ (s.title = "To" => RecipientAccepted(s.text))

\* The switch of check_swap_validity_native.
CheckNativeItem(kind, s) ==
  \/ kind = "Amount" /\ s.title = "Max fees" /\ FeeAccepted(s.text)
  \/ kind = "Amount" /\ s.title = "Amount" /\ AmountAccepted(s.text)
  \/ kind = "Pubkey" /\ s.title = "To" /\ RecipientAccepted(s.text)

\* A fee sets amount_ok as well.
NativeFlags(kind) ==
  CASE kind = "Amount" -> {"amount"}
    [] kind = "Pubkey" -> {"recipient"}
    [] OTHER -> {}

NativeRequired == {"amount", "recipient"}

\* The keys of check_swap_validity_token, by their title.
CheckTokenKey(s) ==
  CASE s.title = "Create token account" -> s.text = KeyText(message.trusted.token)
    [] s.title \in {"For", "Funded by"} -> "create" \in seen
    [] s.title = "Token address" -> s.text = KeyText(message.trusted.mint)
    [] s.title = "To (token account)" -> s.text = KeyText(message.trusted.token)
    [] OTHER -> TRUE

\* Mutant: token amounts under other titles are passed over.
CheckTokenItemTitled(kind, s) ==
  \/ /\ kind = "TokenAmount"
     /\ s.title = "Amount" => AmountAccepted(s.text) /\ "amount" \notin seen
  \/ kind = "Amount" /\ s.title = "Max fees" /\ FeeAccepted(s.text)
  \/ kind = "Pubkey" /\ CheckTokenKey(s)
  \/ kind = "String" /\ s.title = "To" /\ s.text = KeyText(message.trusted.owner)
       /\ RecipientAccepted(s.text)

\* Mutant: the owner of the account is not compared with the recipient.
CheckTokenItemAnyOwner(kind, s) ==
  \/ kind = "TokenAmount" /\ s.title = "Amount" /\ AmountAccepted(s.text)
       /\ "amount" \notin seen
  \/ kind = "Amount" /\ s.title = "Max fees" /\ FeeAccepted(s.text)
  \/ kind = "Pubkey" /\ CheckTokenKey(s)
  \/ kind = "String" /\ s.title = "To" /\ s.text = KeyText(message.trusted.owner)

\* The switch of check_swap_validity_token.
CheckTokenItem(kind, s) ==
  \/ kind = "TokenAmount" /\ s.title = "Amount" /\ AmountAccepted(s.text)
       /\ "amount" \notin seen
  \/ kind = "Amount" /\ s.title = "Max fees" /\ FeeAccepted(s.text)
  \/ kind = "Pubkey" /\ CheckTokenKey(s)
  \/ kind = "String" /\ s.title = "To" /\ s.text = KeyText(message.trusted.owner)
       /\ RecipientAccepted(s.text)

TokenFlags(kind, s) ==
  CASE kind = "TokenAmount" -> {"amount"}
    [] kind = "String" -> {"owner"}
    [] kind = "Pubkey" /\ s.title = "Create token account" -> {"create"}
    [] kind = "Pubkey" /\ s.title = "Token address" -> {"mint"}
    [] kind = "Pubkey" /\ s.title = "To (token account)" -> {"ata"}
    [] OTHER -> {}

TokenRequired == {"amount", "mint", "ata", "owner"}

\* The transfer whose printer set the token warnings.
PrintedTransfers ==
  {i \in ToSet(Parsed(message)) :
     i.kind \in TransferKinds /\ Shown(i, "tokens")}
Token2022Transfer == \E i \in PrintedTransfers : "token2022" \in i.has
FeeWarning ==
  Token2022Transfer /\ \E i \in PrintedTransfers : i.kind = "SplTransferChecked"
HookWarning == Token2022Transfer /\ \E i \in PrintedTransfers : "hook" \in i.has

\* What check_swap_validity wants before it looks at the items.
SwapAccepted ==
  /\ validated.mode = "standard"
  /\ IF IsTokenTransaction
     THEN /\ ~ FeeWarning
          /\ ~ HookWarning
          /\ message.trusted.received
          /\ message.trusted.derives = Token2022Transfer
     ELSE Len(steps) \in {2, 3}

ItemAccepted(kind, s) ==
  IF IsTokenTransaction THEN CheckTokenItem(kind, s) ELSE CheckNativeItem(kind, s)
Required == IF IsTokenTransaction THEN TokenRequired ELSE NativeRequired

-------------------------------------------------------------------------------
(* Steps. *)

\* Exchange launches the app to sign.
Launch(p) ==
  /\ validated = None
  /\ swap' = p
  /\ validated' = CopyParameters(p)
  /\ UNCHANGED <<vars, shown, seen, verdict>>

Receive(m) ==
  /\ validated # None
  /\ message = NoMessage
  /\ HandleSignMessage(m)
  /\ shown' = Blank
  /\ UNCHANGED <<swap, validated, seen, verdict>>

Prepare ==
  /\ ServeRequest \/ Crash \/ Finalize
  /\ UNCHANGED swapVars

\* A message that cannot be printed is refused, and the app returns.
RefuseMessage ==
  /\ GiveUp
  /\ verdict' = "refused"
  /\ UNCHANGED <<swap, validated, shown, seen>>

RefuseSwap ==
  /\ stage = "reviewing"
  /\ page = 0
  /\ ~ SwapAccepted
  /\ Decide
  /\ verdict' = "refused"
  /\ UNCHANGED <<swap, validated, shown, seen>>

CheckItem ==
  /\ stage = "reviewing"
  /\ page = 0 => SwapAccepted
  /\ page < Len(steps)
  /\ shown' \in DisplayedAt(page)
  /\ LET kind == ItemKind(message, steps[page + 1])
     IN IF ItemAccepted(kind, shown')
        THEN /\ page' = page + 1
             /\ seen' = seen \union (IF IsTokenTransaction THEN TokenFlags(kind, shown')
                                                           ELSE NativeFlags(kind))
             /\ UNCHANGED <<stage, verdict>>
        ELSE /\ stage' = "exited"
             /\ verdict' = "refused"
             /\ UNCHANGED <<page, seen>>
  /\ UNCHANGED <<message, requests, served, summary, steps, swap, validated>>

\* All the items have passed; swap_finalize signs, and the app returns.
Conclude ==
  /\ stage = "reviewing"
  /\ page = Len(steps)
  /\ Decide
  /\ verdict' = IF Required \subseteq seen THEN "signed" ELSE "refused"
  /\ UNCHANGED <<swap, validated, shown, seen>>

\* Exchange goes on, until it calls the app for another swap.
Return ==
  /\ Restart
  /\ swap' = None
  /\ validated' = None
  /\ shown' = Blank
  /\ seen' = {}
  /\ verdict' = "none"

SwapNext ==
  \/ \E p \in Swaps : Launch(p)
  \/ \E m \in Messages : Receive(m)
  \/ Prepare
  \/ RefuseMessage
  \/ RefuseSwap
  \/ CheckItem
  \/ Conclude
  \/ Return

SwapSpec == SwapInit /\ [][SwapNext]_allVars

-------------------------------------------------------------------------------
(* What Exchange calls the app with, and what the messages are. *)

\* The buffer has room for an amount of SOL, which is a word: only amounts of
\* tokens, with their decimals and symbol, may be too long for it.
SolFits(m) ==
  \A n \in DOMAIN BodyRequests(m) :
    LET item == BodyRequests(m)[n].item
    IN item.field \in {"lamports", "max_fee"} => SwapDisplays(m, item)

\* What the parsers read of an instruction the checks let through.  The fee of a
\* transfer is an item when it is not zero.
ArgTyped(i) ==
  /\ i.kind = "SystemTransfer" => "to" \in DOMAIN i.arg /\ i.arg.lamports \in Nat
  /\ i.kind \in TransferKinds =>
       /\ i.arg.tokens \in Nat /\ i.arg.decimals \in Nat
       /\ i.arg.symbol \in Seq(ToSet(i.arg.symbol))
  /\ i.kind = "SplTransferCheckedWithFee" /\ i.arg.fee_tokens # 0 => "fee" \in i.has

ASSUME SwapAssumption ==
  /\ SolDecimals \in Nat
  /\ None \notin Swaps
  /\ \A p \in Swaps :
       /\ CopyParameters(p) # None
       /\ p.amount \in Nat /\ p.fee \in Nat
       /\ p.coin # None => /\ p.coin.ticker \in Seq(ToSet(p.coin.ticker))
                          /\ p.coin.decimals \in Nat
  /\ \A m \in Messages :
       /\ BodyRequests(m) = SwapBodyRequests(m)
       /\ InSwap(m)
       /\ m.maxFee \in Nat /\ SolFits(m)
       /\ {"instructions", "config"} \subseteq DOMAIN m
       /\ m.instructions \in Seq(ToSet(m.instructions))
       /\ \A n \in DOMAIN m.instructions :
            LET i == m.instructions[n]
            IN {"kind", "at"} \subseteq DOMAIN i /\ i.at = n /\ ArgTyped(i)

-------------------------------------------------------------------------------
(* Properties. *)

\* What is signed besides the transfer of the swap: what sets the fees, what is
\* not displayed, and the nonce that replaces the blockhash.
Accompanies(n) ==
  LET i == message.instructions[n]
  IN \/ i.kind \in ComputeBudgetKinds \union IgnoredKinds
     \/ i.kind = "SystemAdvanceNonceAccount"
          /\ \A k \in 1..(n - 1) : message.instructions[k].kind \in IgnoredKinds

\* Two amounts of coins with decimals are the same.
SameQuantity(a, decimalsA, b, decimalsB) ==
  a * Power10[decimalsB] = b * Power10[decimalsA]

\* A message signed for a swap of SOL moves the amount of the swap to its
\* recipient, and nothing else: every other instruction only accompanies that
\* transfer, and the maximum fee, when it is computed, is within the fee of the
\* swap (check_swap_validity_native, check_swap_amount, check_swap_fee).
NativeSwapSigned ==
  verdict = "signed" /\ validated.ticker = SOL =>
    /\ swap.extraId \in {"absent", "native"}
    /\ \E n \in DOMAIN message.instructions :
         LET i == message.instructions[n]
         IN /\ i.kind = "SystemTransfer"
            /\ SameQuantity(i.arg.lamports, SolDecimals,
                            swap.amount, Coin(swap).decimals)
            /\ i.arg.to = swap.recipient
            /\ \A k \in DOMAIN message.instructions \ {n} : Accompanies(k)
    /\ \A n \in DOMAIN steps :
         steps[n].field = "max_fee" => message.maxFee <= swap.fee

\* A message signed for a swap of tokens has one transfer, of the amount of the
\* swap, in the token Exchange named, to the associated account of its recipient;
\* what is sent arrives whole, no fee is withheld and no hook runs; at most the
\* creation of an account comes with it (check_swap_validity_token).
TokenSwapSigned ==
  verdict = "signed" /\ validated.ticker # SOL =>
    /\ swap.extraId \in {"absent", "native"}
    /\ \E n \in DOMAIN message.instructions :
         LET i == message.instructions[n]
         IN /\ i.kind \in TransferKinds
            /\ i.arg.symbol = swap.coin.ticker
            /\ SameQuantity(i.arg.tokens, i.arg.decimals,
                            swap.amount, swap.coin.decimals)
            /\ MatchesTrusted(i, message.trusted)
            /\ message.trusted.owner = swap.recipient
            /\ "token2022" \in i.has =>
                 /\ i.kind = "SplTransferCheckedWithFee"
                 /\ i.arg.fee_tokens = 0
                 /\ "hook" \notin i.has
            /\ \A k \in DOMAIN message.instructions \ {n} :
                 \/ Accompanies(k)
                 \/ message.instructions[k].kind = "SplAssociatedTokenAccount"
    /\ \A n \in DOMAIN steps :
         steps[n].field = "max_fee" => message.maxFee <= swap.fee

\* What the user accepted is what is signed: the text Exchange displayed for the
\* amount is the text of the amount that is signed
\* (swap_handle_get_printable_amount, swap_copy_transaction_parameters).
AmountWasDisplayed ==
  verdict = "signed" =>
    \E n \in DOMAIN steps :
      /\ steps[n].field \in {"lamports", "tokens"}
      /\ PrintableAmount(swap, swap.amount, FALSE).ok
      /\ ItemPrinted(message, steps[n]).text
           = PrintableAmount(swap, swap.amount, FALSE).text

\* What is signed could be displayed: no item that transaction_summary_display_item
\* fails on passes the checks, though its result is ignored and the title of the
\* item before stays.
UnprintableNotSigned ==
  verdict = "signed" => \A n \in DOMAIN steps : SwapDisplays(message, steps[n])

===============================================================================
