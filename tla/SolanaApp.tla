------------------------------ MODULE SolanaApp ------------------------------
(***************************************************************************)
(* The app on the device: the main loop, its command handlers, the screens *)
(* and their callbacks.  One thread runs it: a handler is never preempted, *)
(* and between two commands the only code that runs is a screen callback.  *)
(*                                                                         *)
(* The transport is half duplex: the host sends a command, waits for its   *)
(* one answer, reads it, and may then send the next command.               *)
(*                                                                         *)
(* An answer is an acknowledgement, an error or a signature; the model     *)
(* says which handler produces which, not its status word.                 *)
(***************************************************************************)
EXTENDS Apdu

CONSTANTS
  Settings,        \* subset of SettingNames the user may toggle
  Swaps,           \* swaps the Exchange app may start this app for
  NoSwap,          \* not started by Exchange
  MaxDescriptors,  \* MAX_DISCRIMINATOR_NUMBER
  MaxChallenge     \* the host holds answers to challenges below this one

SettingNames == {"allow_blind_sign", "pubkey_display", "display_mode"}

ASSUME AppAssumption ==
  /\ Settings \subseteq SettingNames
  /\ NoSwap \notin Swaps
  /\ MaxDescriptors \in Nat \ {0}
  /\ MaxChallenge \in Nat

VARIABLES
  mode,          \* "off", or how the app was started
  cmd,           \* G_command
  dispatching,   \* cmd is complete and its handler has not run yet
  owed,          \* commands received minus answers sent
  response,      \* the answer the host has not read yet
  screen,        \* what NBGL displays
  switches,      \* G_switches[].initState
  summary,       \* G_transaction_summary and the review globals
  preview,       \* *G_preview_state
  challenge,     \* how often the challenge was rolled
  trusted,       \* *g_trusted_info
  token,         \* *g_dynamic_token_info
  descriptors,   \* *G_saved_descriptors
  swap,          \* G_swap_validated
  storage        \* N_storage: settings and initialized

\* What the host provided for the next transaction.
provided == <<trusted, token, descriptors>>
session == <<mode, swap, challenge>>
vars == <<mode, cmd, dispatching, owed, response, screen, switches, summary,
          preview, challenge, trusted, token, descriptors, swap, storage>>

-------------------------------------------------------------------------------
(* Values. *)

SettingValues == [SettingNames -> BOOLEAN]
DefaultSettings == [s \in SettingNames |-> FALSE]

ReviewScreens == {"warning", "review", "blindReview"}
\* Screens whose callback answers the host.
PendingScreens == ReviewScreens \union {"address"}
Screens == PendingScreens \union
  {"off", "none", "home", "spinner", "status", "blindError"}

\* What the review on the screen is about.
Summaries == [path : Paths \union {NoPath}, message : Messages,
              trusted : Infos \union {NoInfo}, token : Infos \union {NoInfo}]
NoSummary == [path |-> NoPath, message |-> << >>,
              trusted |-> NoInfo, token |-> NoInfo]

\* The trusted info, with the challenge it answers.
TrustedInfos == [info : Infos \union {NoInfo}, challenge : 0..MaxChallenge]
NoTrusted == [info |-> NoInfo, challenge |-> 0]

\* The fingerprint of a message: all but its blockhash.
Previews == [path : Paths \union {NoPath},
             hash : Seq(Units \union {ZeroHash}), length : Nat]
NoPreview == [path |-> NoPath, hash |-> << >>, length |-> 0]
Fingerprint(path, m) ==
  [path |-> path, hash |-> ZeroedBlockhash(m), length |-> Len(m)]

Storages == [settings : SettingValues, initialized : BOOLEAN]

Answers == [kind : {"none", "ok", "error", "signature"},
            path : Paths \union {NoPath}, message : Messages]
Answer(kind) == [kind |-> kind, path |-> NoPath, message |-> << >>]
NoResponse == Answer("none")

\* set_result_sign_message signs what is in G_command.
Signature == [kind |-> "signature", path |-> cmd.path, message |-> cmd.message]

\* What process_message_body and check_swap_validity read beside the message.
Context ==
  [ata |-> cmd.ata, expert |-> storage.settings["display_mode"],
   fullPrint |-> mode = "swap", trusted |-> trusted.info, token |-> token]

-------------------------------------------------------------------------------
(* Answers, screens and the end of the app. *)

\* io_send_sw / io_send_response_pointer.
Reply(answer) == response' = answer /\ owed' = owed - 1
ReplyError == Reply(Answer("error"))
ReplyOk == Reply(Answer("ok"))
NoReply == UNCHANGED <<response, owed>>
\* The answer to a command the user or the swap agreed to sign.
ReplySignature(signed) == IF signed THEN Reply(Signature) ELSE ReplyError

\* ui_main_menu reads the switches from the storage.
ui_idle == screen' = "home" /\ switches' = storage.settings
ShowScreen(s) == screen' = s /\ UNCHANGED switches
SameScreen == UNCHANGED <<screen, switches>>

clear_preview_state == preview' = NoPreview
reset_trusted_info == trusted' = NoTrusted
reset_dynamic_token_info == token' = NoInfo

\* RAM is gone; what was sent is still delivered unless the device lost power.
ExitApp ==
  /\ mode' = "off" /\ ShowScreen("off")
  /\ cmd' = ClearedCommand /\ dispatching' = FALSE
  /\ summary' = NoSummary /\ clear_preview_state
  /\ reset_trusted_info /\ reset_dynamic_token_info /\ descriptors' = << >>
  /\ swap' = NoSwap
  /\ UNCHANGED <<challenge, storage>>

\* A fresh random number: no answer the host holds answers it.  Rolls from
\* MaxChallenge on are all alike, the host holds no answer to any of them.
roll_challenge ==
  challenge' = IF challenge < MaxChallenge THEN challenge + 1 ELSE challenge

\* The host may send a command.
Idle == mode # "off" /\ ~dispatching /\ owed = 0 /\ response = NoResponse

\* The handler of one of these instructions runs.  All handlers end with the
\* preview cleared: handle_apdu does it for all but the delayed one, whose
\* wrapper does it itself.
Handling(instructions) ==
  /\ dispatching /\ cmd.ins \in instructions
  /\ dispatching' = FALSE
  /\ clear_preview_state

-------------------------------------------------------------------------------
(* The main loop: main_application.c. *)

\* io_recv_command returned zero bytes.
EmptyApdu ==
  /\ Idle
  /\ response' = Answer("error")
  /\ SameScreen
  /\ UNCHANGED <<cmd, dispatching, owed, summary, preview, provided, session,
                 storage>>

\* One APDU.  An error, or a chunk with more to come, is answered at once.
ReceiveApdu(a) ==
  /\ Idle
  /\ cmd' = ReceivedCommand(cmd, a)
  /\ IF cmd'.state = "Complete"
     THEN dispatching' = TRUE /\ owed' = owed + 1 /\ UNCHANGED response
     ELSE /\ dispatching' = FALSE
          /\ response' = Answer(IF ApduAccepted(cmd, a) THEN "ok" ELSE "error")
          /\ UNCHANGED owed
  /\ SameScreen
  /\ UNCHANGED <<summary, preview, provided, session, storage>>

\* The host reads the answer.
HostRead ==
  /\ response # NoResponse
  /\ response' = NoResponse
  /\ SameScreen
  /\ UNCHANGED <<cmd, dispatching, owed, summary, preview, provided, session,
                 storage>>

\* Mutant: an early return that skips clear_preview_state.
GetAppConfigurationKeepsPreview ==
  /\ dispatching /\ dispatching' = FALSE
  /\ cmd.ins \in {"DeprecatedGetAppConfiguration", "GetAppConfiguration"}
  /\ ReplyOk /\ SameScreen
  /\ UNCHANGED <<cmd, summary, preview, provided, session, storage>>

GetAppConfiguration ==
  /\ Handling({"DeprecatedGetAppConfiguration", "GetAppConfiguration"})
  /\ ReplyOk /\ SameScreen
  /\ UNCHANGED <<cmd, summary, provided, session, storage>>

GetChallenge ==
  /\ Handling({"GetChallenge"})
  /\ ReplyOk /\ SameScreen
  /\ UNCHANGED <<cmd, summary, provided, session, storage>>

\* derived: the key derivation of the OS succeeded.
GetPubkey(derived) ==
  /\ Handling({"DeprecatedGetPubkey", "GetPubkey"})
  /\ \/ ~derived /\ ReplyError /\ SameScreen
     \/ derived /\ cmd.nonConfirm /\ ReplyOk /\ SameScreen
     \/ derived /\ ~cmd.nonConfirm /\ NoReply /\ ShowScreen("address")
  /\ UNCHANGED <<cmd, summary, provided, session, storage>>

-------------------------------------------------------------------------------
(* Signing a transaction: handle_sign_message.c. *)

SigningInstructions ==
  {"DeprecatedSignMessage", "SignMessage", "SignMessagePreview"}

\* The command is for the signing handler: a preview is refused in a swap.
HandlingSign ==
  /\ Handling(SigningInstructions)
  /\ ~(mode = "swap" /\ cmd.ins = "SignMessagePreview")
  /\ cmd' = IF cmd.ins = "SignMessagePreview" THEN [cmd EXCEPT !.preview = TRUE]
            ELSE cmd

PreviewInSwap ==
  /\ Handling({"SignMessagePreview"}) /\ mode = "swap"
  /\ ReplyError /\ SameScreen
  /\ UNCHANGED <<cmd, summary, provided, session, storage>>

\* The checks before the summary is reset.
Signable ==
  /\ HeaderParses(cmd.message)
  /\ IsSigner(cmd.path, cmd.message)
  /\ ~cmd.nonConfirm

RefuseHeader ==
  /\ HandlingSign /\ ~Signable
  /\ ReplyError /\ SameScreen
  /\ UNCHANGED <<summary, provided, session, storage>>

\* handle_sign_message_ui from the dashboard: the review of the summary.
handle_sign_message_ui(s) ==
  /\ IF SummaryFinalizes(cmd.message, Context)
     THEN /\ summary' = [path |-> cmd.path, message |-> cmd.message,
                         trusted |-> trusted.info, token |-> token]
          /\ ShowScreen(s) /\ NoReply
     ELSE summary' = NoSummary /\ SameScreen /\ ReplyError
  /\ UNCHANGED <<provided, session, storage>>

SignFromDashboard == HandlingSign /\ Signable /\ mode = "dashboard"

ReviewMessage ==
  /\ SignFromDashboard
  /\ BodyProcessed(cmd.message, Context)
  /\ handle_sign_message_ui(IF TokenWarning(cmd.message, Context)
                            THEN "warning" ELSE "review")

\* Mutant: the setting is not asked.
ReviewBlindMessageAlways ==
  /\ SignFromDashboard
  /\ ~BodyProcessed(cmd.message, Context)
  /\ handle_sign_message_ui("blindReview")

ReviewBlindMessage ==
  /\ SignFromDashboard
  /\ ~BodyProcessed(cmd.message, Context)
  /\ storage.settings["allow_blind_sign"]
  /\ handle_sign_message_ui("blindReview")

RefuseBlindMessage ==
  /\ SignFromDashboard
  /\ ~BodyProcessed(cmd.message, Context)
  /\ ~storage.settings["allow_blind_sign"]
  /\ summary' = NoSummary
  /\ ShowScreen("blindError") /\ ReplyError
  /\ UNCHANGED <<provided, session, storage>>

\* In a swap nothing is displayed: the message is compared with the swap.
SignInSwap ==
  /\ dispatching /\ cmd.ins \in SigningInstructions \ {"SignMessagePreview"}
  /\ mode = "swap" /\ Signable

\* process_message_body accepts it, yet its items cannot be finalized.
SummaryFailsInSwap ==
  /\ descriptors = << >>
  /\ BodyProcessed(cmd.message, Context)
  /\ ~SummaryFinalizes(cmd.message, Context)

\* The message is what the user agreed to in the Exchange app.
SwapPermits(m, context, received, s) ==
  IF received # << >> THEN DescriptorsAccept(m, context, received)
  ELSE BodyProcessed(m, context) /\ SwapAccepts(m, context, s)

RefuseSummaryInSwap ==
  /\ SignInSwap /\ SummaryFailsInSwap
  /\ HandlingSign
  /\ summary' = NoSummary
  /\ SameScreen /\ ReplyError
  /\ UNCHANGED <<provided, session, storage>>

RefuseInSwap ==
  /\ SignInSwap /\ ~SummaryFailsInSwap
  /\ ~SwapPermits(cmd.message, Context, descriptors, swap)
  /\ ReplyError /\ ExitApp

\* swap_finalize: signs, answers and returns to Exchange.
swap_finalize(signed) ==
  /\ SignInSwap /\ ~SummaryFailsInSwap
  /\ SwapPermits(cmd.message, Context, descriptors, swap)
  /\ ReplySignature(signed) /\ ExitApp

-------------------------------------------------------------------------------
(* Offchain messages: handle_sign_offchain_message.c. *)

OffchainSignable == ~cmd.nonConfirm /\ OffchainValid(cmd.path, cmd.message)

\* A message that is not ASCII can only be signed blindly.
OffchainBlindRefused ==
  ~IsAscii(cmd.message) /\ ~storage.settings["allow_blind_sign"]

SignOffchainMessage ==
  /\ Handling({"SignOffchainMessage"})
  /\ \/ /\ ~OffchainSignable
        /\ ReplyError /\ SameScreen /\ UNCHANGED summary
     \/ /\ OffchainSignable /\ OffchainBlindRefused
        /\ ReplyError /\ ShowScreen("blindError") /\ UNCHANGED summary
     \/ /\ OffchainSignable /\ ~OffchainBlindRefused
        /\ summary' = [NoSummary EXCEPT !.path = cmd.path,
                                        !.message = cmd.message]
        /\ ShowScreen(IF IsAscii(cmd.message) THEN "review" ELSE "blindReview")
        /\ NoReply
  /\ UNCHANGED <<cmd, provided, session, storage>>

-------------------------------------------------------------------------------
(* Delayed signing: handle_sign_message_preview.c. *)

\* Mutant: the derivation path is not compared.
MatchesPreviewOfAnyPath ==
  /\ Len(cmd.message) = preview.length
  /\ HeaderParses(cmd.message)
  /\ ZeroedBlockhash(cmd.message) = preview.hash

\* verify_delayed_message_matches_preview.
MatchesPreview ==
  /\ Len(cmd.message) = preview.length
  /\ cmd.path = preview.path
  /\ HeaderParses(cmd.message)
  /\ ZeroedBlockhash(cmd.message) = preview.hash

\* An answer without a screen: whatever was displayed stays.
DelayedWithoutPreview ==
  /\ Handling({"SignMessageDelayed"}) /\ preview = NoPreview
  /\ ReplyError /\ SameScreen
  /\ UNCHANGED <<cmd, summary, provided, session, storage>>

DelayedMismatch ==
  /\ Handling({"SignMessageDelayed"}) /\ preview # NoPreview
  /\ ~MatchesPreview
  /\ ReplyError /\ ShowScreen("status")
  /\ UNCHANGED <<cmd, summary, provided, session, storage>>

DelayedSign(signed) ==
  /\ Handling({"SignMessageDelayed"}) /\ preview # NoPreview
  /\ MatchesPreview
  /\ ReplySignature(signed) /\ ShowScreen("status")
  /\ UNCHANGED <<cmd, summary, provided, session, storage>>

-------------------------------------------------------------------------------
(* What the host provides ahead of a transaction. *)

\* Mutant: the challenge is rolled on failure only.
ProvideInfoKeepsChallenge(allocated) ==
  /\ Handling({"ProvideInfo"})
  /\ IF /\ allocated \/ trusted # NoTrusted
        /\ TrustedNameValid(cmd.message)
        /\ TrustedNameChallenge(cmd.message) = challenge
        /\ challenge < MaxChallenge
     THEN /\ trusted' = [info |-> TrustedNameInfo(cmd.message),
                         challenge |-> challenge]
          /\ ReplyOk /\ UNCHANGED challenge
     ELSE reset_trusted_info /\ ReplyError /\ roll_challenge
  /\ SameScreen
  /\ UNCHANGED <<cmd, summary, token, descriptors, mode, swap, storage>>

\* The challenge is rolled whatever happens, "to prevent brute-force guesses".
\* allocated: there was memory for the structure, needed once.
ProvideInfo(allocated) ==
  /\ Handling({"ProvideInfo"})
  /\ roll_challenge
  /\ IF /\ allocated \/ trusted # NoTrusted
        /\ TrustedNameValid(cmd.message)
        /\ TrustedNameChallenge(cmd.message) = challenge
        /\ challenge < MaxChallenge
     THEN /\ trusted' = [info |-> TrustedNameInfo(cmd.message),
                         challenge |-> challenge]
          /\ ReplyOk
     ELSE reset_trusted_info /\ ReplyError
  /\ SameScreen
  /\ UNCHANGED <<cmd, summary, token, descriptors, mode, swap, storage>>

ProvideDynamicDescriptor(allocated) ==
  /\ Handling({"ProvideDynamicDescriptor"})
  /\ IF /\ allocated \/ token # NoInfo
        /\ DynamicTokenValid(cmd.message)
     THEN token' = DynamicTokenInfo(cmd.message) /\ ReplyOk
     ELSE reset_dynamic_token_info /\ ReplyError
  /\ SameScreen
  /\ UNCHANGED <<cmd, summary, trusted, descriptors, session, storage>>

\* save_instruction_descriptor: there is room and it is of the same series.
CanSaveDescriptor(d) ==
  /\ Len(descriptors) < MaxDescriptors
  /\ descriptors # << >> => SameSeries(d, Head(descriptors))

DescriptorOutsideSwap ==
  /\ Handling({"ProvideInstructionDescriptor"}) /\ mode = "dashboard"
  /\ ReplyError /\ SameScreen
  /\ UNCHANGED <<cmd, summary, provided, session, storage>>

\* Mutant: outside of a swap there is nothing to validate it against.
SaveDescriptorAnywhere ==
  LET d == DescriptorOf(cmd.message)
  IN  /\ Handling({"ProvideInstructionDescriptor"})
      /\ mode = "swap" => DescriptorValid(cmd.message, swap)
      /\ CanSaveDescriptor(d)
      /\ descriptors' = Append(descriptors, d)
      /\ ReplyOk /\ SameScreen
      /\ UNCHANGED <<cmd, summary, trusted, token, session, storage>>

SaveDescriptor ==
  LET d == DescriptorOf(cmd.message)
  IN  /\ Handling({"ProvideInstructionDescriptor"}) /\ mode = "swap"
      /\ DescriptorValid(cmd.message, swap) /\ CanSaveDescriptor(d)
      /\ descriptors' = Append(descriptors, d)
      /\ ReplyOk /\ SameScreen
      /\ UNCHANGED <<cmd, summary, trusted, token, session, storage>>

\* Any failure in a swap ends the app.
RefuseDescriptor(allocated) ==
  /\ dispatching /\ cmd.ins = "ProvideInstructionDescriptor" /\ mode = "swap"
  /\ \/ ~DescriptorValid(cmd.message, swap)
     \/ ~CanSaveDescriptor(DescriptorOf(cmd.message))
     \/ ~allocated /\ descriptors = << >>
  /\ ReplyError /\ ExitApp

-------------------------------------------------------------------------------
(* The user: sign_message_nbgl.c, get_pubkey_nbgl.c, menu_nbgl.c. *)

\* Mutant: the dynamic token info is freed with the warning.
ContinuePastWarningForgets ==
  /\ screen = "warning"
  /\ ShowScreen("review")
  /\ reset_dynamic_token_info
  /\ UNCHANGED <<cmd, dispatching, owed, response, summary, preview, trusted,
                 descriptors, session, storage>>

\* on_token_warning_choice: continue anyway.
ContinuePastWarning ==
  /\ screen = "warning"
  /\ ShowScreen("review")
  /\ UNCHANGED <<cmd, dispatching, owed, response, summary, preview, provided,
                 session, storage>>

\* review_choice, and the free of what was provided for this transaction.
Choose(screens) ==
  /\ screen \in screens
  /\ reset_trusted_info /\ reset_dynamic_token_info
  /\ UNCHANGED <<cmd, dispatching, summary, descriptors, session, storage>>

\* Mutant: no answer when the user rejects.
RejectSilently ==
  /\ Choose(ReviewScreens)
  /\ NoReply /\ ShowScreen("status")
  /\ UNCHANGED preview

Reject ==
  /\ Choose(ReviewScreens)
  /\ ReplyError /\ ShowScreen("status")
  /\ UNCHANGED preview

Approve(signed) ==
  /\ Choose({"review", "blindReview"}) /\ ~cmd.preview
  /\ ReplySignature(signed) /\ ShowScreen("status")
  /\ UNCHANGED preview

\* Mutant: a status page, which goes back home by itself, for the spinner.
ApprovePreviewToStatus(allocated) ==
  /\ Choose({"review", "blindReview"}) /\ cmd.preview
  /\ ShowScreen("status")
  /\ IF allocated /\ HeaderParses(cmd.message)
     THEN preview' = Fingerprint(cmd.path, cmd.message) /\ ReplyOk
     ELSE clear_preview_state /\ ReplyError

\* store_preview_fingerprint instead of a signature.
ApprovePreview(allocated) ==
  /\ Choose({"review", "blindReview"}) /\ cmd.preview
  /\ IF allocated /\ HeaderParses(cmd.message)
     THEN /\ preview' = Fingerprint(cmd.path, cmd.message)
          /\ ReplyOk /\ ShowScreen("spinner")
     ELSE clear_preview_state /\ ReplyError /\ ShowScreen("status")

\* Mutant: no answer when the user rejects the address.
ConfirmAddressOnly(confirm) ==
  /\ screen = "address"
  /\ IF confirm THEN ReplyOk ELSE NoReply
  /\ ShowScreen("status")
  /\ UNCHANGED <<cmd, dispatching, summary, preview, provided, session, storage>>

\* review_choice of get_pubkey_nbgl.c.
ConfirmAddress(confirm) ==
  /\ screen = "address"
  /\ IF confirm THEN ReplyOk ELSE ReplyError
  /\ ShowScreen("status")
  /\ UNCHANGED <<cmd, dispatching, summary, preview, provided, session, storage>>

\* A status page goes back to the home screen, a blind signing error to the
\* home screen or to its settings page.
BackHome ==
  /\ screen \in {"status", "blindError"}
  /\ ui_idle
  /\ UNCHANGED <<cmd, dispatching, owed, response, summary, preview, provided,
                 session, storage>>

\* Mutant: the switch on the screen is not updated.
ToggleStorageOnly(s) ==
  /\ screen = "home"
  /\ storage' = [storage EXCEPT
                   !.settings = [storage.settings EXCEPT ![s] = ~switches[s]]]
  /\ UNCHANGED <<cmd, dispatching, owed, response, screen, switches, summary,
                 preview, provided, session>>

\* settings_controls_callback: the opposite of what the switch shows.
Toggle(s) ==
  /\ screen = "home"
  /\ switches' = [switches EXCEPT ![s] = ~switches[s]]
  /\ storage' = [storage EXCEPT
                   !.settings = [storage.settings EXCEPT ![s] = ~switches[s]]]
  /\ UNCHANGED <<cmd, dispatching, owed, response, screen, summary, preview,
                 provided, session>>

\* Quit on the home screen.
Quit ==
  /\ screen = "home"
  /\ ExitApp
  /\ UNCHANGED <<owed, response>>

\* The device loses power or its host, at any time.
PowerOff ==
  /\ mode # "off"
  /\ ExitApp
  /\ response' = NoResponse /\ owed' = 0

-------------------------------------------------------------------------------
(* The start: app_main. *)

\* nv_app_state_init.
nv_app_state_init ==
  storage' = IF storage.initialized THEN storage
             ELSE [settings |-> DefaultSettings, initialized |-> TRUE]

Start(m) ==
  /\ mode = "off" /\ response = NoResponse
  /\ mode' = m
  /\ roll_challenge
  /\ nv_app_state_init
  /\ UNCHANGED <<cmd, dispatching, owed, response, summary, preview, provided>>

\* The switches of the first home screen are read before the storage is
\* initialized.
StartFromDashboard ==
  /\ Start("dashboard")
  /\ swap' = NoSwap
  /\ ui_idle

StartFromExchange(s) ==
  /\ Start("swap")
  /\ swap' = s
  /\ ShowScreen("none")

-------------------------------------------------------------------------------
(* The specification. *)

\* A device on which the app was just installed: its storage is all zeros.
Init ==
  /\ mode = "off" /\ screen = "off"
  /\ cmd = ClearedCommand /\ dispatching = FALSE
  /\ owed = 0 /\ response = NoResponse
  /\ switches = DefaultSettings
  /\ summary = NoSummary /\ preview = NoPreview
  /\ challenge = 0
  /\ trusted = NoTrusted /\ token = NoInfo /\ descriptors = << >>
  /\ swap = NoSwap
  /\ storage = [settings |-> DefaultSettings, initialized |-> FALSE]

SignHandler ==
  \/ PreviewInSwap \/ RefuseHeader
  \/ ReviewMessage \/ ReviewBlindMessage \/ RefuseBlindMessage
  \/ RefuseSummaryInSwap \/ RefuseInSwap
  \/ SignOffchainMessage
  \/ DelayedWithoutPreview \/ DelayedMismatch
  \/ \E signed \in BOOLEAN : swap_finalize(signed) \/ DelayedSign(signed)

ProvideHandler ==
  \/ \E allocated \in BOOLEAN :
       \/ ProvideInfo(allocated)
       \/ ProvideDynamicDescriptor(allocated)
       \/ RefuseDescriptor(allocated)
  \/ DescriptorOutsideSwap \/ SaveDescriptor

\* handle_apdu's switch.
Handler ==
  \/ GetAppConfiguration \/ GetChallenge
  \/ \E derived \in BOOLEAN : GetPubkey(derived)
  \/ SignHandler \/ ProvideHandler

\* The callbacks that answer the host.
UserDecision ==
  \/ ContinuePastWarning \/ Reject
  \/ \E ok \in BOOLEAN : Approve(ok) \/ ApprovePreview(ok) \/ ConfirmAddress(ok)

\* The menu; no callback runs between a command and its handler.
UserElse ==
  ~dispatching /\ (BackHome \/ Quit \/ \E s \in Settings : Toggle(s))

Receive == EmptyApdu \/ \E a \in Apdus : ReceiveApdu(a)

StartApp == StartFromDashboard \/ \E s \in Swaps : StartFromExchange(s)

Next ==
  Receive \/ Handler \/ UserDecision \/ UserElse \/ HostRead \/ StartApp
    \/ PowerOff

Spec == Init /\ [][Next]_vars

\* The main loop runs the handler it is in; the user decides a review that is
\* on the screen and the host reads its answers.  Neither the host nor the
\* user has to start anything.
Fairness == WF_vars(Handler) /\ WF_vars(UserDecision) /\ WF_vars(HostRead)

FairSpec == Spec /\ Fairness

-------------------------------------------------------------------------------
(* Correctness. *)

ControlTypes ==
  /\ mode \in {"off", "dashboard", "swap"}
  /\ owed \in 0..1
  /\ screen \in Screens
  /\ challenge \in 0..MaxChallenge
  /\ swap \in Swaps \union {NoSwap}

MessageTypes ==
  /\ cmd \in Commands /\ dispatching \in BOOLEAN
  /\ response \in Answers
  /\ summary \in Summaries
  /\ preview \in Previews

ProvidedTypes ==
  /\ trusted \in TrustedInfos
  /\ token \in Infos \union {NoInfo}
  /\ descriptors \in Seq(Descriptors) /\ Len(descriptors) <= MaxDescriptors

SettingTypes ==
  /\ switches \in SettingValues
  /\ storage \in Storages

\* The state is well formed.  That a message is in Messages says that the
\* final zero apdu_handle_message writes after it is inside the buffer.
TypeOK == ControlTypes /\ MessageTypes /\ ProvidedTypes /\ SettingTypes

\* Every command gets exactly one answer: it is owed one exactly while its
\* handler has not run or a screen waits for the user's decision about it,
\* and no answer is pending then.  A handler that both shows a review and
\* replies, or a callback that answers twice, breaks it.
AnsweredOnce ==
  /\ owed = 1 <=> dispatching \/ screen \in PendingScreens
  /\ dispatching => screen \notin PendingScreens
  /\ owed = 1 => response = NoResponse

\* While a review is on the screen, the command to be signed is still the one
\* the summary was made from, with the token info that was displayed: G_command
\* and the summary are separate globals, and the signature is made from the
\* first long after the second was filled.
SummaryStillTrue ==
  screen \in ReviewScreens =>
    /\ cmd.state = "Complete"
    /\ cmd.message = summary.message /\ cmd.path = summary.path
    /\ cmd.ins # "SignOffchainMessage" =>
         summary.trusted = trusted.info /\ summary.token = token

\* A preview waits for its delayed signature only under the "Signing" spinner:
\* no screen the user can act on is displayed meanwhile.
PreviewUnderSpinner == preview # NoPreview => screen = "spinner"

\* What the "should never happen" guards of handle_sign_message.c and
\* handle_sign_message_preview.c rely on: descriptors exist only in a swap,
\* previews only outside of one.
GuardsUnreachable ==
  /\ descriptors # << >> => mode = "swap"
  /\ preview # NoPreview \/ (screen \in ReviewScreens /\ cmd.preview) =>
       mode = "dashboard"

\* An accepted trusted info answers a challenge that is no longer valid: the
\* same signed answer cannot be provided twice, in this session or a later one.
TrustedInfoUsedUp == trusted # NoTrusted => trusted.challenge < challenge

\* The switches on the home screen show the settings in the storage, so a
\* toggle writes the opposite of what is stored.
SwitchesShowSettings == screen = "home" => switches = storage.settings

\* A blind review needs the setting at the moment it is displayed and while it
\* is decided, and is never shown for a message that could be clear signed.
BlindReviewAllowed ==
  screen = "blindReview" =>
    /\ storage.settings["allow_blind_sign"]
    /\ IF cmd.ins = "SignOffchainMessage" THEN ~IsAscii(cmd.message)
       ELSE ~BodyProcessed(cmd.message, Context)

\* The app is either off with nothing in RAM or started one of two ways, and
\* only a complete command is handed to a handler, which has not run before.
LifeCycle ==
  /\ mode = "off" <=> screen = "off"
  /\ mode = "swap" <=> swap # NoSwap
  /\ dispatching => mode # "off" /\ cmd.state = "Complete"
  /\ dispatching \/ cmd.state = "InProgress" => ~cmd.preview
  /\ IF mode = "off" /\ ~storage.initialized
     THEN storage.settings = DefaultSettings ELSE storage.initialized

\* The inductive invariant: what makes the invariants above hold together.
Inv ==
  /\ TypeOK
  /\ LifeCycle
  /\ AnsweredOnce
  /\ SummaryStillTrue
  /\ PreviewUnderSpinner
  /\ GuardsUnreachable
  /\ TrustedInfoUsedUp
  /\ SwitchesShowSettings
  /\ BlindReviewAllowed

\* A command that ran leaves no preview behind: the delayed signature must be
\* the next command after its preview, whatever became of that command.
PreviewForNextCommandOnly ==
  [][dispatching /\ ~dispatching' => preview' = NoPreview]_vars

\* The app answers every command it received, or stops.
CommandAnswered == owed = 1 ~> owed = 0
===============================================================================
