# TLA+ specifications of the Ledger Solana app (AgenC Flex edition)

This directory models the embedded app under `src/` (device code) and `libsol/`
(transaction library): the state it keeps while a host talks to it, the screens
the user decides on, and the conditions under which a signature leaves the
device. TLC checks the models on small instances; TLAPS proves the central
properties for all values of the constants.

Paths below are relative to the root of the repository.

## 1. The system

One thread runs the app. `app_main` (`src/main_application.c`) reads an APDU,
reassembles the command in the global `G_command`, and when the command is
complete runs its handler to the end. A handler either answers the host or
leaves a screen behind whose callback will answer. Nothing preempts a handler;
the only code that runs between two commands is a screen callback, called by
the SDK from inside the wait for the next APDU. All coupling between components
is through globals: `G_command`, the transaction summary, `G_preview_state`,
the trusted and dynamic token info, the saved descriptors, `G_swap_validated`
and the settings in `N_storage`.

| Component | State it keeps | Operations | What is hard about it | What makes it correct |
|---|---|---|---|---|
| Command reassembly (`src/apdu.c`) | `G_command` | `apdu_handle_message` | chunks in any order, of any command; buffer limit; payloads that look absent | a command in the buffer is one uninterrupted run of chunks, and fits |
| Main loop (`src/main_application.c`, `src/main.c`) | running or not, storage initialised, what the host is owed | start from the dashboard or from Exchange, dispatch, reply, exit | start order (switches read before the storage is initialised), exits in the middle of a command, power loss | one answer per command |
| Transaction signing (`src/handle_sign_message.c`) | transaction summary, review flags | sign, blind sign, refuse, finalise a swap | the decision comes long after the checks; five ways out | every signature was displayed, approved and is of the bytes displayed |
| Previews (`src/handle_sign_message_preview.c`) | `G_preview_state` | approve a preview, redeem it with a delayed signature, forget it | an approval for a later command; other commands and failures between | an approval is redeemed at most once, by the next command, for the same message and path |
| Offchain messages (`src/handle_sign_offchain_message.c`, `libsol/string_utils.c`) | the summary | sign, refuse | blind signing of non-ASCII text; the text is found in the buffer by a second computation | blind review only under the setting; the text on the screen is the text signed |
| Screens and menu (`src/ui/`) | screen, `G_switches` | approve, reject, continue past a warning, confirm an address, toggle a setting, quit | cached switches; the spinner that waits for the host | each callback answers once; the switches show the storage |
| Public keys (`src/handle_get_pubkey.c`) | none | derive, confirm | two modes, one of which answers from a callback | one answer per command |
| Challenge and trusted name (`src/handle_get_challenge.c`, `src/handle_provide_trusted_info.c`) | the challenge, `g_trusted_info` | get, provide, reset | freshness across failures and restarts | an answer to a challenge is accepted once |
| Dynamic token info (`src/handle_provide_dynamic_descriptor.c`, `src/dynamic_token_info.c`) | `g_dynamic_token_info` | provide, reset, look up | stays when a signature fails before its review | the token displayed is the token signed |
| Instruction descriptors (`src/handle_provide_instruction_descriptor.c`) | `G_saved_descriptors` | receive, save, validate | bounded slots, one series, swap only | exist only in a swap; series and bound respected |
| Swap validation (`src/handle_sign_message.c`, `src/swap/`) | `G_swap_validated` | compare the transaction with the swap | no display: the app signs alone | the one signature of a swap is what the Exchange app asked for |
| Exchange library calls (`src/swap/handle_*.c`) | none | check address, printable amount, copy parameters | formatting, bounds | the address and amount shown by Exchange are the ones compared later |
| Message parser (`libsol/parser.c`, `libsol/message.c`) | cursor over the message | header, instructions, body | compact lengths, patterns of instructions | nothing is read beyond the message; every instruction is shown or refused |
| Transaction summary and printers (`libsol/transaction_summary.c`, `libsol/transaction_printers.c`) | item slots | request an item, finalise, display | a fixed number of slots | no item is lost; what is displayed is what was requested, in order |
| Instruction decoders (`libsol/*_instruction.c`, `libsol/instruction.c`) | none | parse, print | optional accounts and fields; which accounts sign; data that must end | accounts and fields are those of the bytes; the items of an instruction fit the slots |
| Formatting and arithmetic (`libsol/printer.c`, `libsol/rfc3339.c`, `libsol/safe_math.c`, `libsol/compute_budget_instruction.c`) | none | amounts, strings, keys, dates, fees | 64-bit overflow, truncation, comparison of texts | equals a reference definition or refuses |
| Tokens and associated accounts (`libsol/token_info.c`, `src/ed25519_helpers.c`, `src/trusted_info.c`) | none | look up a symbol or a mint, find the nonce of an account | two tables, two directions; any nonce off the curve | a symbol means one mint; an account has one owner |

The contents of the token table, the vendored SPL declarations
(`libsol/include/spl`), cryptography and the SDK (NBGL, transport, key derivation, PKI) are outside the models. The SDK
is modelled only by how this code uses it.

## 2. The modules

| Module | What it is |
|---|---|
| `Payloads` | the world of payloads: units, paths, and the verdicts of the parsers as parameters |
| `Apdu` | `apdu_handle_message` as an operator on `G_command` |
| `ApduStream` | `G_command` under a stream of APDUs |
| `SolanaApp` | the app: main loop, handlers, screens, storage, restarts |
| `SigningConsent` | abstract: what the app promises about signatures |
| `SolanaConsent` | the refinement mapping from `SolanaApp` to `SigningConsent` |
| `TransactionSummary` | the item slots: request, write, finalise, find by index |
| `MessageReview` | one message after the other: printers ask for slots, succeed, give up or crash; the review displays the items |
| `InstructionPrinters` | what the printer of one instruction asks of the summary: system, stake, vote and AgenC programs |
| `TokenPrinters` | the same for the SPL token programs |
| `TransactionPrinters` | the body of a message: which instructions are displayed, the patterns, nonce, compute budget, blind review |
| `TransactionReview` | `MessageReview` of what `TransactionPrinters` asks, and its properties |
| `Amounts` | amounts as texts, and the comparison of two such texts |
| `SwapReview` | a standard swap on top of `TransactionReview`: the parameters of Exchange, the checks of every displayed item, the decision |
| `SafeMath` | amounts scaled by basis points |
| `TokenAccounts` | symbols and mints, associated token accounts and their nonces, the trusted info |
| `InstructionDescriptors` | a crosschain swap: descriptors arrive, then every instruction of a message is checked by its own |
| `Fees` | the compute budget of a message, the maximum fee and the rent |
| `Texts`, `Dates` | the other printers of values: numbers, strings, keys, times |
| `Parser` | the parser of bytes |
| `InstructionLayouts` | what a parser of an instruction reads: accounts by position, fields by type |
| `SolanaDecoders` | the layouts of the instructions of Solana's programs, and who signs a token instruction |
| `InstructionDecoders` | the AgenC program, the hash in a task result, the choice of a decoder |
| `OffchainMessages` | the offchain message handler from bytes to review |
| `ExchangeCalls` | the check of an address for Exchange |
| `Selections` | what a loop that passes over some elements collects of a sequence |
| `ApduStreamProofs`, `SolanaAppProofs`, `MessageReviewProofs`, `TransactionReviewProofs`, `SwapReviewProofs`, `FeesProofs`, `InstructionDescriptorsProofs` | theorems |
| `CommonLemmas` | lemmas on quotients, sequences, folds and selections the others cite |
| `MCApduStream`, `MCSolanaApp`, `MCTransactionReview`, `MCSwapReview`, `MCInstructionDescriptors`, `MCFees`, `MCCalls`, `MCInstructions` | the small worlds TLC uses |

There are five developments:

- `SolanaConsent` EXTENDS `SolanaApp` EXTENDS `Apdu` EXTENDS `Payloads`: the
  app, for any verdict of the parsers and printers.
- `TransactionReview` EXTENDS `MessageReview` (which EXTENDS
  `TransactionSummary`) and `TransactionPrinters` (which EXTENDS
  `TokenPrinters` EXTENDS `InstructionPrinters`): those verdicts and the items
  behind them, for any message. `SwapReview` EXTENDS it with `Amounts`: the same
  messages when Exchange has called the app.
- `InstructionDescriptors` EXTENDS `SafeMath` and `TokenAccounts`: the swaps
  that display nothing.
- `Fees`: the arithmetic of the maximum fee.
- The functions without a state: `Texts` and `Dates` over `Amounts`,
  `InstructionDecoders` over `SolanaDecoders` over `InstructionLayouts` over
  `Parser`, `OffchainMessages`, `ExchangeCalls`, `TokenAccounts`. `MCCalls`
  brings them together: a behaviour is one call of one of them, with every
  argument of a set.

The proof modules extend the module they are about and TLAPS; `SwapReviewProofs` also
`TransactionReviewProofs`, whose lemmas on printers and patterns it continues.

### How state and actions correspond to the code

| Variable of `SolanaApp` | In the code |
|---|---|
| `mode` | whether `app_main` runs and `G_called_from_swap` |
| `cmd` | `G_command` (buffer, state, path, flags, `is_sign_message_preview`) |
| `dispatching` | between the return of `apdu_handle_message` on a complete command and its handler |
| `owed`, `response` | `io_send_*` not called yet for a command; sent but unread |
| `screen` | the page or review given to NBGL |
| `switches` | `G_switches[].initState` |
| `summary` | what the items of `G_transaction_summary` point into: they are pointers into `G_command`, the trusted info and the token info |
| `preview` | `*G_preview_state` (hash, length, path), NULL is `NoPreview` |
| `challenge`, `trusted`, `token`, `descriptors` | `challenge`, `*g_trusted_info`, `*g_dynamic_token_info`, `*G_saved_descriptors` |
| `swap` | `G_swap_validated` |
| `storage` | `N_storage` |

There is one action per way through a handler, so a refusal and a success of
the same command are separate actions with complementary guards:
`RefuseHeader`, `ReviewMessage`, `ReviewBlindMessage`, `RefuseBlindMessage`,
`PreviewInSwap`, `RefuseSummaryInSwap`, `RefuseInSwap` and `swap_finalize` are
together the handler of the signing commands. Boolean arguments (`derived`,
`signed`, `allocated`) are the outcome of an SDK call that may fail.

| Variable of `MessageReview` | In the code |
|---|---|
| `message` | the parsed message of the last command with its `PrintConfig` |
| `stage` | where `handle_sign_message_parse_message` is: printing, adding the items of a blind review, reviewing; or the app has crashed or exited |
| `requests`, `served` | the calls of `transaction_summary_*_item` the printers make for this message, and how many were made |
| `summary` | `G_transaction_summary` |
| `steps` | `summary_step_kinds[0 .. num_summary_steps - 1]` |
| `page` | the index `get_review_pair` asks for next |

A printer in `InstructionPrinters` or `TokenPrinters` is a sequence of requests:
the slot, the item that is written there, and whether the code tests the pointer
it got. Only `MessageReview` says what a request does: an item in a free slot; a
printer that gives up, at an explicit error (`"bail"`) or at a tested NULL; a
write through an untested NULL (`Crash`). So the order in which the code asks,
and where it stops, is kept.

| Variable of `SwapReview` | In the code |
|---|---|
| `swap` | the `create_transaction_parameters_t` Exchange passes |
| `validated` | `G_swap_validated` |
| `shown` | `G_transaction_summary_title` and `G_transaction_summary_text`, which keep what was displayed last |
| `seen` | the flags of `check_swap_validity_native` and `check_swap_validity_token` that are set |
| `verdict` | the answer to the message |

| Variable of `InstructionDescriptors` | In the code |
|---|---|
| `swap`, `token` | `G_swap_validated`, `g_dynamic_token_info` |
| `saved` | `G_saved_descriptors` with its count and `read`, the counter of `get_next_descriptor` |
| `message`, `at` | the message in `process_message_body_with_descriptor` and its loop counter |
| `verdict` | signed, or the exit after `send_swap_error_simple` |
| `received` | history: what was accepted, in the order of reception |

| Variable of `Fees` | In the code |
|---|---|
| `transaction` | the instructions registered for display and the number of signatures |
| `position` | how far `preprocess_compute_budget_instructions` moved `infos` |
| `limit`, `price` | `change_unit_limit` and `change_unit_price` of `ComputeBudgetFeeInfo` |
| `fee`, `phase` | `transaction_max_fee`; which of the two functions runs |

A parser of the decoders is a layout: the accounts in the order of the calls of
`instruction_accounts_iterator_next` (`""` where the result is discarded), those
behind them that may be missing, and the fields in the order they are read. The
AgenC parsers take accounts by index and count them exactly. `ParseLayout`
executes a layout, so one definition holds the failure of every `BAIL_IF` in it.

### Abstractions

- A payload is a sequence of units. What a parser says of it is a CONSTANT
  operator of `Payloads`, so the proofs hold whatever the parsers decide. The
  SHA-512 kept of a preview is the message itself with the blockhash zeroed:
  hashes are taken to be collision free.
- Answers are an acknowledgement, an error or a signature; status words are
  left out. Every error of `apdu_handle_message` has the same effect
  (`G_command` cleared, error sent), so error codes are one verdict.
- An exit by an exception of the SDK, an I/O error and a power loss are the
  action `PowerOff`, possible in every state.
- The transport is half duplex, as the SDK makes it: the host sends a command
  after it has read the answer to the previous one.
- `G_swap_response_ready` is not a variable: it is true only inside the step
  that ends the app.
- An instruction is its kind, its position and the traits its printer branches
  on ("the authority is not the fee payer", "has a lockup date", "has a fee",
  ...). Its accounts and data are left out, and an item is the field it displays
  of which instructions. Titles, the transaction type and the token warnings
  (which are in `SolanaApp`) are left out.
- An instruction no parser accepts, and one whose body parser stops, are both
  of the kind `"Unknown"`: either way `process_message_body` fails before it
  prints.
- A write through NULL is taken to stop the app.
- Layout, wording and logging are left out; of the titles `SwapReview` has those
  the swap check reads.
- The text of a key stands for its base 58 in `SwapReview`. That the texts of
  two keys differ is `KeyTextIdentifies`, of `Texts`.
- A TLV whose tags are malformed is one verdict, in `SolanaApp` and
  `InstructionDescriptors`; what its fields say is modelled.
- The hash an associated account comes from, the curve and the table of tokens
  are parameters: `Derive`, `OnCurve`, `Registry`.
- A word has fewer values than 2^64 where a run computes with all of them
  (`Half`, `WordLimit`, `Width`, `ByteValues` and `AmountBytes`, `Radix` and
  `Base`); the proofs are for any. Keys, hashes and task results have fewer
  bytes, AgenC discriminators one, and of the eight bytes of a string's length
  the lower ones count. The value of a field is its bytes.
- With descriptors a versioned message is always refused, since the number of
  its address tables is left in the body (`message.c:255`): `rest` stands for
  that and for any other bytes left.
- The loop that prints the accounts of an instruction (`message.c:47`) counts in
  a byte. Where printing is compiled in it does not end for 256 accounts; a call
  that does not end is one that has no result, which the properties of results
  allow.

## 3. What is checked

| Run | Question | Result |
|---|---|---|
| `apdu_stream` | Can the chunks of two commands, or of a refused one, mix in `G_command`? | `PayloadIsOneRun` holds over every sequence of four APDUs out of 15 (54 241 states) |
| `app_dashboard` | Everything host and user can do from the dashboard, with power loss at any time | seven invariants and `PreviewForNextCommandOnly` hold (340 265 states) |
| `app_consent` | Is every signature one the user or the swap agreed to, across restarts with and without a swap, and is every command answered? | `SolanaApp` refines `SigningConsent`; `GuardsUnreachable`; under fairness `CommandAnswered` (125 385 states) |
| `review_items` | Is what the printers of a message ask for what the review displays, does it hide nothing, and is nothing left over for the next message? | eight invariants hold for about 5 200 messages (113 662 states) |
| `swap` | Is what is signed in a standard swap, without a screen, what the user accepted in Exchange? | four invariants hold for every message against six calls of Exchange (33 215 states) |
| `descriptors` | Is what is signed in a crosschain swap what its descriptors say? | four invariants hold (116 581 states) |
| `fees` | Is the maximum fee exact? | two invariants hold for every budget of up to four instructions (220 904 states) |
| `calls` | Do the functions without a state compute what they are to? | ten invariants hold (214 404 states) |
| `review_overflow`, `review_unprintable`, `review_funded_split`, `calls_signers` | Are four statements of the repository true? | no: see Findings |

### Properties

- `TypeOK`: the state is well formed. It includes that a payload leaves room
  for the final zero `apdu_handle_message` writes behind it.
- `PayloadIsOneRun`: a command in the buffer is the last run of APDUs received:
  a first chunk and its extensions, whole, with their path and flags.
- `AnsweredOnce`: an answer is owed exactly while a handler is to run or a
  screen is to be decided; never both, never none.
- `SummaryStillTrue`: while a review is on the screen, the bytes and path that
  would be signed are those the summary was made from, and so are the infos it
  displays. A host that could slip a chunk, or a new token info, under a review
  would break it.
- `PreviewUnderSpinner`, `PreviewForNextCommandOnly`: an approved preview waits
  under the spinner, where the user has nothing to press, and only for the
  command that follows.
- `TrustedInfoUsedUp`: the challenge an accepted name answers is gone.
- `SwitchesShowSettings`: a toggle on the settings page flips the stored value.
- `BlindReviewAllowed`: a blind review is displayed only while the setting
  allows it and only for what cannot be clear signed.
- `GuardsUnreachable`: the states that the "should never happen" guards of the
  signing handlers test for cannot happen.
- `SignsOnlyWithConsent`: the refinement of `SigningConsent`.
- `CommandAnswered`: every command is eventually answered, or the app ends.

Of the items of a message:

- `EveryRequestKept`: what a printer wrote is still there when the review
  begins. It fails as soon as a slot is given out twice.
- `DisplayOrder`: the steps of a clear review are exactly the items asked for,
  in the order of `transaction_summary.h`; an item left over from another
  message would be one too many.
- `DisplayMatchesFinalize`: `transaction_summary_finalize` and
  `transaction_summary_find_item` enumerate the items separately and agree.
- `FinalizeSucceeds`: a message whose printing succeeded has a primary item.
- `NothingHidden`: in a clear review every instruction that moves funds or
  grants authority shows how much, to whom or what authority. `Movements` and
  `Grants` of `TransactionReview` state that independently of the printers. The
  instructions that prepare a split are the exception the code makes.
- `BlindReviewShowsHash`: a blind review says so first and shows the hash,
  whatever a printer left in the summary before it gave up.
- `OverflowOnlyWithExtras`: the eleven general slots are enough for every
  pattern; only a maximum fee or an extension warning on top can be too much.

Of the swaps:

- `NativeSwapSigned`, `TokenSwapSigned`: the code walks the items of the review
  in any order and remembers by flags what it has seen. Stated of the message
  and not of its items: the accepted amount goes to the accepted recipient (for a
  token: from the accepted mint, to the associated account of the trusted owner),
  no other instruction moves anything, nothing is withheld, no hook runs, and a
  fee that is displayed is within the accepted one.
- `AmountWasDisplayed`: the text Exchange displayed, made in another call from
  the raw parameters, is the text of the amount that is signed.
- `UnprintableNotSigned`: an item that cannot be printed leaves the title of the
  item before it, and of its own text what the printer wrote before it failed over
  what was there; the result of `transaction_summary_display_item` is ignored. What
  the buffer then holds is any of `Leftovers`; in the run these include the very
  texts the checks wait for. Still nothing of the kind passes.
- `OneSeries`: descriptors accepted are signed, of the template of the swap, of
  one chain, and no more than there are slots.
- `SignedAsDescribed`, `RefusedForCause`: a signed message is, instruction by
  instruction, what the descriptor received at that place says (`AsDescribed` is
  declarative: which bytes are the amount, whose account is which), and a message
  that is what they say is refused only if a cap overflows or nothing is left to
  read.
- `FeesWithinCap`: a capped amount is within its basis points, as a fraction of
  the swap's amount without any rounding.
- `FeeIsExact`, `RefusedOnlyForOverflow`: the fee is the exact one, of the last
  limit and price in the budget, plus the rent, and is refused only where 64 bits
  do not hold it.

Of the functions without a state:

- `TextMeansAmount`: printed amounts of one token have the same text exactly when
  they are equal, whatever their decimals, and their comparison as texts is the
  order of the amounts. The swap checks rest on it.
- `AnyOrderIsNumeric`: of texts of any form, well formed or not, the comparison
  accepts those that denote amounts in the right order, and no others. Only
  padding with zeros, which no printer produces, is excluded.
- `TextWholeOrRefused`: no printer writes beyond its buffer; values are displayed
  exactly, or cut with a mark, or refused when they do not fit.
- `KeyTextIdentifies`: different keys of one length have different texts, and
  Exchange is told that an address is ours for the text of the key of a permitted
  path only.
- `DatesAreCalendar`: every day of 700 years, both ends of the range among them,
  is displayed as its date. The reference counts days by year and month.
- `TickerMeansMint`: the lookups by ticker and by mint agree.
- `AccountHasOneOwner`: an account that passes for the trusted owner's is no other
  owner's, mint's or program's, and the account the token programs use passes.
- `ParsersInvertEncodings`: parsers and decoders invert the encodings of the
  Solana SDK and of borsh, refuse what is cut off anywhere and what has too few
  accounts, and accept bytes behind only where the code does.
- `DecodedAsDocumented`: for every shape of accounts documented in
  `libsol/include/spl/token.h`, the owner or the multisig, the number of signers
  and the presence of hook accounts are those of the instruction; a task result
  displays the hash of an artifact exactly when its text encodes one.
- `OffchainShownAsSigned`: an offchain message is reviewed exactly when its
  header may be signed with our key and its text is printable (or is UTF-8 under
  the setting), and the text on the screen, or the hash, is that of what is signed.

### Findings

Each is a run that checks what a comment says and finds a counterexample.

- `review_overflow` (`GeneralItemsFit`): the "worst case" that
  `transaction_summary.h:22-30` sizes the general slots by, an account created
  with a seed, initialised and delegated, fills all eleven in expert mode. With a
  compute unit price in front, `print_compute_budget_max_fee` asks for a twelfth
  and writes through the NULL it gets.
- `review_unprintable` (`ReviewedItemsDisplay`): `sign_message_nbgl.c:64-68` says
  that the values were validated by finalisation. They are not: a lockup date
  beyond the calendar is noticed while it is displayed, and the app exits.
- `review_funded_split` (`UnshownCreateIsFree`): `transaction_printers.c:742-744`
  leaves out the account created for a split because it gets zero lamports. The
  amount is not tested.

- `calls_signers` (`SignersCounted`): `token.h:163-164` bounds the signers of a
  multisig by eleven, and `instruction_test.c:294` asserts that an iterator has as
  many accounts left as the instruction. `InstructionAccountsIterator` keeps the
  number in a `uint8_t` (`instruction.h:75`), so an instruction with 257 signers is
  decoded as one with a single signer instead of being refused.

Observed while modelling, without a run of their own:

- `transaction_summary.h:14-20` calls the fee payer required for finalisation; it
  is not tested (`transaction_summary.c:341`) and, in a clear review, not set.
- An associated account of a nonce that is not the canonical one is accepted
  (`ed25519_helpers.c:125-145`); `AccountHasOneOwner` says what still holds.
- Days are truncated to 32 bits before the range is tested (`rfc3339.c:72`), so
  times far beyond the calendar may be displayed as dates within it;
  `rfc3339_test.c:13-15` tests the limit only.
- The item "Other signers" of an offchain message shows the number of all signers
  (`handle_sign_offchain_message.c:50-54`).
- Without a compute budget the rent of a token account is displayed alone as the
  maximum fee (`transaction_printers.c:765`), without the fee of the signatures.
- Of a task result with an artifact, bytes behind the first zero of its text are
  not displayed (`agenc_instruction.c:146`).

### Bounds

| Bound | Value | Why it is enough |
|---|---|---|
| `MaxMessageLength` | 4 units | room for a transaction of two units, one with trailing data, and one that is a unit too long |
| `MaxChallenge` | 3 (2 where the challenge is not the subject) | challenges beyond the bound are all alike: the host holds no answer to them; three let a name be provided, refused and provided again |
| `MaxDescriptors` | 2 | one series filled, a third refused, a wrong series refused |
| `Paths` | 2 | the path of a preview and another one |
| `MaxApdus` (`ApduStream`) | 4 | first chunk, refused or foreign chunk, two more |
| `Apdus` | the sets of `MCSolanaApp` and `MCApduStream` | one APDU per way through a handler |
| `NumGeneralItems` | 11 | the value of the code: the overflow depends on it |
| `MAX_INSTRUCTIONS` | 6 | the value of the code; a message of seven instructions is among them |
| messages of `MCTransactionReview` | about 5 200 | each kind alone with every set of traits; all pairs of 21 kinds; each pattern with none and with all traits (`AuthorizeBoth` and `CreateTasks` with every set), alone, behind nonce and compute budget, behind an ignored instruction, and with price and hidden extension; token transfers in a swap |
| `Followers` | 2 messages | a transfer, which is displayed, and an unparsable message, which gives up: whatever the first message leaves behind meets both |
| messages and calls of `MCSwapReview` | see there | every transfer with each of its fields wrong, alone and with what may accompany it; every kind alone; items of two instructions that look like those of a transfer; SOL and tokens with fewer, the same and too many decimals, so that texts agree where amounts do not |
| `ByteValues`, `AmountBytes` | 8, 2 | every size, offset, direction and byte order of an amount, with data shorter and longer; the product of a cap overflows |
| messages of `MCInstructionDescriptors` | up to 2 instructions | an order of two is the shortest in which descriptors could be swapped, skipped or read twice |
| `WordLimit` (`Fees`) | 40 | products and sums beyond a word with prices and limits at 0, 1 and the largest |
| `Width`, `Radix`, `Base` | 8, 5, 3 | every integer of a byte; keys of up to four digits, with leading zeros |
| `LastNonce` (`calls`) | 2 | mints whose canonical nonce is the last, the one below and 0 |
| `KeySize`, `HashSize`, `ResultSize` | 2, 2, 5 | two bytes tell orders apart; a base64url text of 16 bits leaves two bits over, as one of 256 bits does; a result has room for the text and one byte |
| `MaxSigners` | 11 | the value of the code; 0 to 12 signers, 200, and 257 which a byte does not hold |
| samples of `MCInstructions` | one per layout | all accounts and all bytes of fields are distinct, so a swap of two is seen; every set of optional fields and accounts |

`CHECK_DEADLOCK FALSE` is in `apdu_stream`, where the host stops after `MaxApdus`;
in `descriptors`, where the app ends with the swap; in `fees`, where a fee is
computed once; and in `calls` and `calls_signers`, where a behaviour is one call.
All other runs check for deadlock.

The consent run leaves the pubkey and display settings untoggled: they are not
read by anything that leads to a signature.

### Fairness

`app_consent` runs `FairSpec`. `Fairness` is weak fairness of `Handler` (the main loop runs the handler it is
in: there is nothing else to run), of `UserDecision` (a user decides a review
that stays on the screen) and of `HostRead` (the host reads an answer it waits
for). Nothing obliges the host to send or the user to open a menu, so these have
none. `PowerOff` is always possible, and ends what is owed. Without the
assumption on the user the property is false, as it should be: a review may stay
on the screen for ever.

## 4. What is proved

`ApduStreamProofs` proves `PayloadsAreOneRun == Spec => []PayloadIsOneRun`, for any
APDUs, units of payload and length of the buffer. Its invariant is `StreamInv`: the
log holds APDUs, the command is typed and its payload is one run. The type is what
makes it inductive: `Continues` compares instruction and P1 of the
command with those of the chunk, so the run that is in the buffer and the chunk
belong together (`ExtendedRun`), or the run starts again (`StartedRun`). That the
payload of a longer run is the old one with the chunk appended is an induction
along the fold that concatenates.

`SolanaAppProofs` proves `Spec => []Inv` (`Invariance`) and from it a theorem
for each invariant the runs check, the action property
`PreviewForNextCommandOnly`, and `SignaturesHaveConsent == Spec =>
SignsOnlyWithConsent`, the refinement.

The inductive invariant `Inv` is the conjunction of the invariants above and of
`LifeCycle`. None of them is inductive alone:

- `SummaryStillTrue` needs `AnsweredOnce`: no APDU is received while a review is
  on the screen because its command is still owed an answer.
- `AnsweredOnce` needs `LifeCycle`: only a complete command is dispatched, and
  in `"off"` nothing is pending.
- `PreviewUnderSpinner` needs `AnsweredOnce` and the `preview` flag of `cmd`,
  which `LifeCycle` shows false for every command that is not a preview yet.
- `GuardsUnreachable` needs both: a preview flag seen in a swap would be left
  over from another command.
- `SwitchesShowSettings` needs the last conjunct of `LifeCycle`: the switches
  are read before the storage is initialised, which is harmless only because
  an uninitialised storage already reads as the default settings.
- `BlindReviewAllowed` needs `SummaryStillTrue`'s companions: neither the
  setting nor the context of the verdict changes under a review.

There is one lemma per conjunct (`AnswerStep`, `SummaryStep`, ...), each with
one step per group of actions. The refinement maps every action to one action of
`SigningConsent`: `ReviewMessage` to `Ask`, `Approve` to `Agree`,
`ApprovePreview` to `AgreeToPreview`, `DelayedSign` to `Redeem`, `swap_finalize`
to `SignSwap`, a handler that drops a preview to `Withdraw`, exits to `End`. The
abstract request is read from the summary and the concrete signature is made
from `G_command`; `SummaryStillTrue` closes the gap.

`MessageReviewProofs` proves `RequestsAreKept == Spec => []EveryRequestKept` for
any messages, printers and number of slots. Its invariant `ReviewInv` says, while
requests are served (`Serving`), that those served so far are held by the
summary. What makes it more than an induction over the requests is the blind
review: it ignores that the fee payer is already set (`ServeRequest` serves a
checked request without writing), so the item would be lost if an earlier
printer had set the fee payer. `Serving` therefore also says that the fee payer is
unset until the last request of a blind review (`ServedSlotFree`).
`SetItemHolds` and `SetItemKeeps` are the two facts about slots it rests on: a
free slot takes the item, and no other slot changes. It assumes
`SummaryAssumption` and `ReviewAssumption`: requests are requests, the printers of
a body never ask for the fee payer, and a blind review asks for it last.

The other theorems of `MessageReviewProofs` rest on `ReviewInv` too.
`FoundAsFinalized` (`DisplayMatchesFinalize`) compares the two loops over the slots:
`FindItem` is shown to be the element of `Finalized` at the index, by induction over
the general slots, once the primary one is set; `FinalizedInv` says that the summary
has not changed since it was finalised. `OrderIsKept` (`DisplayOrder`) needs
`OrderInv`: after each request the summary holds, in a slot with a name, what was
asked for it, and in the first general slots what was asked for these, in the order
of the requests (`OrderOf`). `PrimaryIsSet` (`FinalizeSucceeds`) assumes `AsksPrimary`,
which the next module proves of the printers. `ReviewTyped` is the type invariant.

`TransactionReviewProofs` is about the review of what `TransactionPrinters` asks.
Its theorems assume `PrintsTransactions`: messages are sequences of instructions,
and what is asked for them is what the printers ask for. TLC evaluates it for the
messages of the runs (`ReviewedTransactions`); of the kinds, traits and settings
nothing is assumed.

- `NothingIsHidden` (`NothingHidden`). `Tells` says that requests show every field
  of an instruction that moves funds or grants authority. One lemma per program says
  that the printer of an instruction tells it (`SystemTells`, `StakeTells`,
  `VoteTells`, `SplTokenTells`, `AgencTells`, ...); one per pattern of
  `print_transaction` that its printer gives up or tells all instructions of the
  pattern (`CreateStakeAnswers`, `StakeSplitAnswers`, ...); `TransactionAnswers` that
  neither the nonce, nor the compute budget, nor the instructions that are passed
  over change this. `Told` has the exceptions of the property: what funds a split.
  From the requests to the steps of the review: `ReviewInv`, `OrderInv` and
  `ReviewedInv`, that a review begins only when every request is served.
- `BlindReviewIsOne` (`BlindReviewShowsHash`): the same for the requests of a blind
  review, after whatever the printers left in the summary.
- `TransactionsHavePrimary` (`FinalizeSucceeds`): `AsksPrimary` holds of the printers.
- `SlotsSuffice` (`OverflowOnlyWithExtras`), for `NumGeneralItems >= 11`, the value of
  `NUM_GENERAL_ITEMS`. `Small` bounds what a printer asks for: one primary item and
  eleven general ones; `Fitting` allows it to give up. Each printer has its bound
  and the patterns add them up (`PatternFits`). Two of them reach eleven: a stake
  account created with a seed, a lockup and a delegation, displayed to an expert
  (`CreateStakeSmall`), and a task in a mint with a type and its review
  (`CreateTaskFits`). The maximum fee and the warning of an extension are not in any
  pattern (`Extras`): with them a transaction may ask for more, and
  `review_overflow` shows that it does. The invariant `SlotsInv` says that requests
  that fit (`RequestsFit`) leave a blind review the slots it needs, and that only
  others crash the app: `OrderInv` gives the slots in use, the count of the
  remaining requests those to come.

`SwapReviewProofs` proves the four properties of a standard swap: `NativeSwapIsSigned`
(`NativeSwapSigned`), `TokenSwapIsSigned` (`TokenSwapSigned`), `SignedWasDisplayed`
(`AmountWasDisplayed`) and `SignedIsPrintable` (`UnprintableNotSigned`), for any calls
of Exchange, messages, patterns, decimals, lengths of the buffers and leftovers. It has
three parts.

- Texts. `print_token_amount` is a sequence of digits, and the checks compare these
  sequences. `Writes(text, v, d, m)` says that a text is that of the number v over
  10^d written with m digits; it does not change when v and 10^d are both multiplied
  (`WrittenScaled`), so two amounts with different decimals can be written with the
  same. `TextsIdentify`: the same text is the same quantity of the same ticker, since
  a number has one text (`WrittenOnce`). `TextsCompare`:
  `amount_as_string_is_greater_or_equal`, which goes by the length of the whole part,
  then digit by digit, then by the padded fraction, is the comparison of the quantities.
  Powers, quotients, digits and stripped zeros have their lemmas, by induction on
  lengths.
- Printers. That nothing else is in the message does not follow from items that pass
  but from the patterns: for every instruction other than a transfer of SOL its
  printer shows an item whose field no transfer has (`ForeignFields`; one lemma per
  program, `SystemForeign`, `StakeForeign`, ..., and one per pattern,
  `CreatedForeign`, `SplitForeign`), and the native check accepts none of these. For
  tokens, the pattern that shows a transfer is the transfer, alone or after the creation
  of an associated account (`TokenPattern`). Items of a pattern are of its instructions
  only (`OnlyOf`), so that an item tells what its instruction says
  (`InstructionIs`). What `print_transaction` does not show only accompanies
  (`BodyShown`, `SwapBodyShown`).
- The loop over the items. `SwapInv` is the invariant of the review (`BaseInv`: that of
  `MessageReviewProofs`, so that what is displayed is what was asked for) and:
  `CalledInv`, that the parameters in use are the copy of those of the call;
  `StagesInv`, that a swap is never reviewed blindly; `ComparedInv`, that each item
  before the current one passed (`Passes`, which speaks of the item and no longer of
  what is on display) and where the flags come from; `ShownInv`; `SignedInv`, that what
  is signed was compared to the last item. `ShownInv` is needed because of items
  that cannot be printed: such an amount of tokens is compared under the title of the
  item before, with any text. In a swap of tokens the title `Amount` is on display
  only once `amount_ok` is set, and then a second amount is refused; in a swap of
  SOL amounts of tokens are refused by their kind.

`SwapAssumption` is what these theorems assume of the constants. Of a call: amount,
fee and decimals are numbers, the ticker a text (`swap_str_to_u64`,
`swap_parse_config`). Of a message: its requests are those of its body; its instructions
are at their positions and have the fields their parsers read (`ArgTyped`); the fee of a
token transfer is an item when it is not zero, as `print_spl_token_transfer_info`
has it; and an amount of SOL fits the buffer (`SolFits`), which has 45 bytes where
a 64-bit number with nine decimals takes 26 at most. Whether the run of TLC has such
messages is evaluated there.

`FeesProofs` proves `FeeIsAlwaysExact` and `RefusalIsOverflow`. `FeeIsExact` speaks
of the end only; the invariant carries what holds on the way. `BudgetTaken`: the
limit and price kept are the last ones of the instructions passed. `FeeKnown`: the
fee is exact before and after the rent. `Room`: before the rent is added, which the
code does not check, there is room for it. `Room` follows from the order of the
checks of `calculate_max_fee`, whose quotient by 10^6 stays far below a word.

`InstructionDescriptorsProofs` first proves `DescriptorsAreOneSeries` and `FeesAreCapped`,
for any swaps, descriptors, tokens and messages. `FeesWithinCap` is about the end of
a message, so the invariant says that what is saved is what was received
(`SavedAsReceived`), that as many descriptors are read as instructions are checked
(`ReadAsChecked`), and that every instruction up to there passed the check of the
descriptor at its place (`AmountsChecked`); `CapsAreRead` is that a cap comes with
an amount. The step from the check to the cap is `ScaleIsFloor`. `OneSeries` needs
`OneChain`: the chain of the series is that of its first descriptor.

`SignedMessagesAreDescribed` (`SignedAsDescribed`) and `DescribedMessagesAreSigned`
(`RefusedForCause`) are the two directions of one equivalence, `MatchingIsDescribed`:
the checks of an instruction are what its descriptor says, but for a cap that
overflows. Its parts, each for all inputs:

- the amount. `ReadAmountIsMeant`: reading bytes from the most significant one on,
  by shifts, gives the sum of what each byte counts for at its place, whatever the
  order and the end the offset is counted from, and fails just when the bytes are
  not in the data or are too many. The shifts do not wrap because a number of k
  bytes is below the place value of the next (`ReadingExact`); the two sums are
  compared byte by byte (`ReadIsMeant`): with n bytes read, what is read counts for
  the n most significant places. `DescribedChecks` and `ChecksAreDescribed` add the
  comparison with the cap, by `ScaleIsFloor`;
- the discriminator (`PrefixIsBytewise`);
- the accounts (`AccountsAgree`), once there is one mint only: the first entry of the
  registry with the ticker is the only one, and a provided token takes its place
  (`MintIsOne`).

The same module proves `ScaleIsFloor`: for every word of two halves and every
number of basis points, `safe_mul_bps_div10000` is the floor of the exact product
divided by 10000, or refuses when a word does not hold it. It rests on the
decomposition of an amount into halves (`Halves`, `UpperHalf`): the upper product
is exact, its remainder and the lower product never exceed a word.

`DescribedInv` adds to the invariant that the token is the one provided last until
the verdict, that every saved descriptor has a discriminator, and that the
instructions before the next one are described (`DescribedSoFar`).

`CommonLemmas` has the facts about quotients, remainders and products that the
provers do not find alone, and those about sequences: that a fold over a sequence
is what its recursive function computes, that a recursion over a range of numbers has
a table (`TableExists`), and that what `InOrder` collects of a
sequence is collected element by element. Loops of the code over a sequence
are folds in the model, and their properties are inductions. No prover takes the
library's theorem of induction, which has an operator for a parameter; `Induction`
states it with a set: a set of numbers with 0, and with the successor of each
number in it, has them all. A proof defines the set of the lengths for which the
claim holds and shows that it has 0 and successors.

`PayloadAssumption` says that the buffer has room for the final zero, that special
values are not ordinary ones and that the infos carried by a payload are infos;
`ApduAssumption` that an APDU is an APDU; `AppAssumption` that settings are settings
and there is at least one descriptor slot. `SafeMathAssumption` relates the
sizes of a word, of basis points and of the whole; `FeesAssumption` says that a
message is so short that its signatures and units are far below a word;
`DescriptorsAssumption` that amounts are words, that descriptors and messages have the
types of their fields (`instruction_descriptor_t`, `Instruction`), and that a word has
`AmountBytes` bytes; `RegistryAssumption` that no two entries of `TOKEN_REGISTRY` have the
same symbol, which is so of the table. TLC
evaluates all of them in the runs.

Only model-checked:

- `CommandAnswered`: liveness under fairness is out of the prover's reach.
- Every property of `calls` and `calls_signers`: what functions compute on digits and
  bytes, most defined by recursion over them; TLC
  compares them with reference definitions over all small inputs. Of
  `TextMeansAmount` the theorems `TextsIdentify` and `TextsCompare` are the general form
  of what it says about two amounts.

## 5. What is not modelled

- The composition of `SolanaApp` with the modules its parameters stand for: the
  verdicts on a message (`TransactionPrinters`, `SwapReview`,
  `InstructionDescriptors`) and on an offchain message (`OffchainMessages`). It
  proves that the right verdict is asked at the right time, for any verdicts; the
  others say what the verdicts are.
- The path from the bytes of an instruction to the traits its printer branches on.
  `InstructionDecoders` has the accounts and fields, `InstructionPrinters` the
  traits; that a trait is a comparison of two of those accounts or fields is in the
  comments of the printers only.
- Comparisons between the accounts of different instructions: the patterns of
  `print_transaction` compare kinds, so that the account created is the one
  initialised is nothing the code checks either; it is listed as a hazard.
- The tags of the TLVs of trusted names, dynamic tokens and descriptors, with their
  PKI and signatures: the handlers of the tags belong to the SDK's TLV library,
  their verdict is a parameter.
- Cryptography, NBGL's own state, the contents of the token table.
- The `Signing` spinner may stay after a delayed signature that has no preview: the
  handler answers without changing the screen. No document says otherwise, so it is
  listed as a hazard without a property.

## 6. Plan

Done: reassembly, the app and its consent refinement, the summary and the printers
of every instruction, both kinds of swap, the maximum fee, the decoders of every
instruction, the printers of values, tokens and accounts, offchain messages, the
address check, and the proofs named above.

Next:

1. The composition of section 5: `BodyProcessed`, `SummaryFinalizes` and `SwapAccepts`
   of `SolanaApp` instantiated by the modules that define them.
2. The traits of `InstructionPrinters` computed from the accounts and fields of
   `InstructionDecoders`.
3. The tags of the TLVs, as sets of tags received.

Theorems still worth proving: that a text of a key identifies it
(`KeyTextIdentifies`), along the lines of `TextsIdentify`.
