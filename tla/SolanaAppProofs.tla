--------------------------- MODULE SolanaAppProofs ---------------------------
(***************************************************************************)
(* Theorems about SolanaApp: its invariants, and that it implements        *)
(* SigningConsent under the refinement mapping of SolanaConsent.           *)
(***************************************************************************)
EXTENDS SolanaConsent, TLAPS

-------------------------------------------------------------------------------
(* Payloads. *)

\* A payload is a sequence of units that fits the command buffer.
LEMMA MessageDef ==
  \A m : m \in Messages <=> m \in Seq(Units) /\ Len(m) < MaxMessageLength
<1>1. ASSUME NEW m \in Messages
      PROVE  m \in Seq(Units) /\ Len(m) < MaxMessageLength
  <2>1. PICK n \in 0..(MaxMessageLength - 1) : m \in [1..n -> Units]
    BY DEF Messages
  <2>2. m \in Seq(Units) /\ Len(m) = n
    BY <2>1, PayloadAssumption
  <2> QED BY <2>2, PayloadAssumption
<1>2. ASSUME NEW m \in Seq(Units), Len(m) < MaxMessageLength
      PROVE  m \in Messages
  <2>1. Len(m) \in 0..(MaxMessageLength - 1) /\ m \in [1..Len(m) -> Units]
    BY <1>2, PayloadAssumption
  <2> QED BY <2>1 DEF Messages
<1> QED BY <1>1, <1>2

\* apdu_handle_message appends inside the buffer.
LEMMA AppendFits ==
  ASSUME NEW m \in Messages, NEW d \in Seq(Units),
         Len(m) + Len(d) < MaxMessageLength
  PROVE  m \o d \in Messages
<1>1. m \in Seq(Units) /\ m \o d \in Seq(Units)
  BY MessageDef
<1>2. Len(m \o d) = Len(m) + Len(d)
  BY <1>1
<1> QED BY <1>1, <1>2, MessageDef

\* The cleared command buffer holds a message.
LEMMA EmptyMessage == << >> \in Messages
<1>1. << >> \in Seq(Units) /\ Len(<< >>) = 0
  OBVIOUS
<1>2. 0 < MaxMessageLength
  BY PayloadAssumption
<1> QED BY <1>1, <1>2, MessageDef

\* The zeroed message is one unit for one unit of the message.
LEMMA ZeroedType ==
  ASSUME NEW m \in Messages
  PROVE  ZeroedBlockhash(m) \in Seq(Units \union {ZeroHash})
<1>1. m \in Seq(Units)
  BY MessageDef
<1> QED BY <1>1 DEF ZeroedBlockhash

\* The command apdu_handle_message leaves is well formed.
LEMMA ReceivedCommandType ==
  ASSUME NEW c \in Commands, NEW a \in ApduHeader
  PROVE  ReceivedCommand(c, a) \in Commands
<1>1. ClearedCommand \in Commands
  BY EmptyMessage DEF ClearedCommand, Commands
<1>2. StartedCommand(a) \in Commands
  BY EmptyMessage DEF ClearedCommand, StartedCommand, Commands, ApduHeader
<1>3. BaseCommand(c, a) \in Commands
  BY <1>2 DEF BaseCommand, Commands, ApduHeader
<1>4. ASSUME ApduAccepted(c, a)
      PROVE  ApduCommand(c, a) \in Commands
  <2>1. CASE instruction_without_payload(a.ins)
    BY <2>1, <1>2 DEF ApduCommand, Commands
  <2>2. CASE ~instruction_without_payload(a.ins)
    <3>1. BaseCommand(c, a).message \in Messages /\ a.data \in Seq(Units)
      BY <1>3 DEF Commands, ApduHeader
    <3>2. BaseCommand(c, a).message \o a.data \in Messages
      BY <3>1, <2>2, <1>4, AppendFits DEF ApduAccepted
    <3>3. AppendedCommand(c, a) \in Commands
      BY <3>2, <1>3 DEF AppendedCommand, Commands, ApduHeader
    <3> QED BY <3>3, <2>2 DEF ApduCommand
  <2> QED BY <2>1, <2>2
<1> QED BY <1>1, <1>4 DEF ReceivedCommand

\* A first chunk starts a command of its own: no preview flag survives into a
\* command that is not finished.
LEMMA ReceivedCommandFresh ==
  ASSUME NEW c \in Commands, NEW a \in ApduHeader,
         c.state = "InProgress" => ~c.preview,
         ReceivedCommand(c, a).state # "Uninitialized"
  PROVE  ~ReceivedCommand(c, a).preview
<1>1. ApduAccepted(c, a)
  BY DEF ReceivedCommand, ClearedCommand
<1>2. ~StartedCommand(a).preview
  BY DEF StartedCommand, ClearedCommand
<1>3. CASE instruction_without_payload(a.ins)
  BY <1>1, <1>2, <1>3 DEF ReceivedCommand, ApduCommand, StartedCommand,
     ClearedCommand
<1>4. CASE ~instruction_without_payload(a.ins)
  <2>1. ~BaseCommand(c, a).preview
    BY <1>1, <1>2, <1>4 DEF ApduAccepted, Continues, BaseCommand,
       StartedCommand, ClearedCommand, Commands
  <2>2. BaseCommand(c, a) \in [state : {"Uninitialized", "InProgress", "Complete"},
          ins : Instructions \union {"None"}, nonConfirm : BOOLEAN,
          path : Paths \union {NoPath}, message : Messages,
          ata : BOOLEAN, preview : BOOLEAN]
    BY EmptyMessage DEF BaseCommand, StartedCommand, ClearedCommand, Commands,
       ApduHeader
  <2> QED
    BY <1>1, <1>4, <2>1, <2>2 DEF ReceivedCommand, ApduCommand, AppendedCommand
<1> QED BY <1>3, <1>4

\* The preview flag is all the signing handler changes of its command.
SigningStep ==
  /\ Handling(SigningInstructions)
  /\ cmd' \in Commands
  /\ cmd'.state = cmd.state /\ cmd'.ins = cmd.ins
  /\ cmd'.path = cmd.path /\ cmd'.message = cmd.message
  /\ cmd'.ata = cmd.ata
  /\ cmd.preview \/ cmd'.preview =>
       cmd.preview \/ (mode # "swap" /\ cmd.ins = "SignMessagePreview")

\* The signing handler leaves the command as it is but for the preview flag.
LEMMA HandlingSignKeeps == TypeOK /\ HandlingSign => SigningStep
BY DEF TypeOK, MessageTypes, HandlingSign, Commands, SigningStep

\* The values of the empty state and of the answers are well formed.
LEMMA ValueTypes ==
  /\ ClearedCommand \in Commands /\ ClearedCommand.state = "Uninitialized"
  /\ NoResponse \in Answers /\ Answer("ok") \in Answers
  /\ Answer("error") \in Answers
  /\ NoSummary \in Summaries /\ NoTrusted \in TrustedInfos
  /\ NoPreview \in Previews
  /\ << >> \in Seq(Descriptors) /\ Len(<< >>) <= MaxDescriptors
  /\ DefaultSettings \in SettingValues
BY EmptyMessage, AppAssumption DEF ClearedCommand, Commands, Answers, Answer,
   NoResponse, Summaries, NoSummary, TrustedInfos, NoTrusted, Previews,
   NoPreview, DefaultSettings, SettingValues

\* What the steps make of a well formed state is well formed.
LEMMA DerivedTypes ==
  ASSUME TypeOK
  PROVE  /\ Signature \in Answers
         /\ Fingerprint(cmd.path, cmd.message) \in Previews
         /\ [path |-> cmd.path, message |-> cmd.message,
             trusted |-> trusted.info, token |-> token] \in Summaries
         /\ [NoSummary EXCEPT !.path = cmd.path, !.message = cmd.message]
              \in Summaries
         /\ \A a \in Apdus : ReceivedCommand(cmd, a) \in Commands
<1>1. Signature \in Answers
  BY DEF TypeOK, MessageTypes, Signature, Answers, Commands
<1>2. Fingerprint(cmd.path, cmd.message) \in Previews
  <2>1. cmd.message \in Messages /\ cmd.path \in Paths \union {NoPath}
    BY DEF TypeOK, MessageTypes, Commands
  <2>2. Len(cmd.message) \in Nat
    BY <2>1, MessageDef
  <2> QED BY <2>1, <2>2, ZeroedType DEF Fingerprint, Previews
<1>3. /\ [path |-> cmd.path, message |-> cmd.message,
          trusted |-> trusted.info, token |-> token] \in Summaries
      /\ [NoSummary EXCEPT !.path = cmd.path, !.message = cmd.message]
           \in Summaries
  BY DEF TypeOK, MessageTypes, ProvidedTypes, Commands, TrustedInfos,
     Summaries, NoSummary
<1>4. \A a \in Apdus : ReceivedCommand(cmd, a) \in Commands
  BY ReceivedCommandType, ApduAssumption DEF TypeOK, MessageTypes
<1> QED BY <1>1, <1>2, <1>3, <1>4

\* The user's switches and the storage they write stay well formed.
LEMMA ToggleTypes ==
  ASSUME TypeOK, NEW s \in Settings, Toggle(s)
  PROVE  SettingTypes'
<1>1. s \in SettingNames
  BY AppAssumption
<1>2. switches' \in SettingValues
  BY <1>1 DEF Toggle, TypeOK, SettingTypes, SettingValues
<1>3. [storage.settings EXCEPT ![s] = ~switches[s]] \in SettingValues
  BY <1>1 DEF TypeOK, SettingTypes, SettingValues, Storages
<1> QED
  BY <1>2, <1>3 DEF Toggle, TypeOK, SettingTypes, Storages

\* So does what the start of the app writes.
LEMMA StartTypes ==
  ASSUME TypeOK, StartApp
  PROVE  SettingTypes'
<1>1. storage' \in Storages
  <2>1. nv_app_state_init
    BY DEF StartApp, StartFromDashboard, StartFromExchange, Start
  <2>2. [settings |-> DefaultSettings, initialized |-> TRUE] \in Storages
    BY ValueTypes DEF Storages
  <2>3. \/ storage' = storage
        \/ storage' = [settings |-> DefaultSettings, initialized |-> TRUE]
    BY <2>1 DEF nv_app_state_init
  <2> QED BY <2>2, <2>3 DEF TypeOK, SettingTypes
<1>2. switches' \in SettingValues
  BY DEF StartApp, StartFromDashboard, StartFromExchange, ui_idle, ShowScreen,
     Storages, TypeOK, SettingTypes
<1> QED BY <1>1, <1>2 DEF SettingTypes

\* A descriptor is saved only where there is room for it.
LEMMA SaveTypes ==
  ASSUME TypeOK, SaveDescriptor
  PROVE  ProvidedTypes'
<1> DEFINE d == DescriptorOf(cmd.message)
<1>1. d \in Descriptors
  BY PayloadAssumption DEF TypeOK, MessageTypes, Commands
<1>2. /\ Append(descriptors, d) \in Seq(Descriptors)
      /\ Len(Append(descriptors, d)) = Len(descriptors) + 1
  BY <1>1 DEF TypeOK, ProvidedTypes
<1>3. Len(descriptors) < MaxDescriptors
  BY DEF SaveDescriptor, CanSaveDescriptor
<1>4. Len(descriptors) \in Nat
  BY DEF TypeOK, ProvidedTypes
<1> QED
  BY <1>2, <1>3, <1>4, AppAssumption DEF SaveDescriptor, TypeOK, ProvidedTypes

-------------------------------------------------------------------------------
\* Every step keeps one owed answer per command: a handler or a callback that
\* answers leaves no screen that would answer again.
LEMMA AnswerStep == Inv /\ [Next]_vars => AnsweredOnce'
<1> SUFFICES ASSUME Inv, [Next]_vars PROVE AnsweredOnce'
  OBVIOUS
<1>a. HandlingSign => SigningStep
  BY HandlingSignKeeps DEF Inv
<1> USE DEF
      Inv, TypeOK, ControlTypes, MessageTypes, ProvidedTypes, SettingTypes,
      LifeCycle, AnsweredOnce, PendingScreens, ReviewScreens, Reply, ReplyOk,
      ReplyError, ReplySignature, NoReply, SameScreen, ShowScreen, Answer,
      NoResponse, Signature, ExitApp, Handling
<1>1. CASE Receive
  BY <1>1 DEF Receive, EmptyApdu, ReceiveApdu, Idle
<1>2. CASE GetAppConfiguration \/ GetChallenge
           \/ \E derived \in BOOLEAN : GetPubkey(derived)
  BY <1>2 DEF GetAppConfiguration, GetChallenge, GetPubkey
<1>3. CASE PreviewInSwap \/ SignOffchainMessage \/ DelayedWithoutPreview
           \/ DelayedMismatch \/ \E ok \in BOOLEAN : DelayedSign(ok)
  BY <1>3 DEF PreviewInSwap, SignOffchainMessage, DelayedWithoutPreview,
     DelayedMismatch, DelayedSign
<1>4. CASE RefuseHeader \/ RefuseSummaryInSwap
  BY <1>4, <1>a DEF RefuseHeader, RefuseSummaryInSwap, SignInSwap,
     SigningStep
<1>5. CASE ReviewMessage \/ ReviewBlindMessage \/ RefuseBlindMessage
  BY <1>5, <1>a DEF ReviewMessage, ReviewBlindMessage, RefuseBlindMessage,
     SignFromDashboard, handle_sign_message_ui, SigningStep
<1>6. CASE RefuseInSwap \/ \E ok \in BOOLEAN : swap_finalize(ok)
  BY <1>6 DEF RefuseInSwap, swap_finalize, SignInSwap
<1>7. CASE ProvideHandler
  BY <1>7 DEF ProvideHandler, ProvideInfo, ProvideDynamicDescriptor,
     RefuseDescriptor, DescriptorOutsideSwap, SaveDescriptor
<1>8. CASE UserDecision
  BY <1>8 DEF UserDecision, ContinuePastWarning, Reject, Approve,
     ApprovePreview, ConfirmAddress, Choose
<1>9. CASE UserElse
  BY <1>9 DEF UserElse, BackHome, Quit, Toggle, ui_idle
<1>10. CASE HostRead \/ PowerOff
  BY <1>10 DEF HostRead, PowerOff
<1>11. CASE StartApp
  BY <1>11 DEF StartApp, StartFromDashboard, StartFromExchange, Start,
     ui_idle
<1>12. CASE UNCHANGED vars
  BY <1>12 DEF vars
<1> QED
  BY <1>1, <1>2, <1>3, <1>4, <1>5, <1>6, <1>7, <1>8, <1>9, <1>10, <1>11, <1>12
     DEF Next, Handler, SignHandler

\* Every step keeps the life cycle of the app and of its command.
LEMMA LifeCycleStep == Inv /\ [Next]_vars => LifeCycle'
<1> SUFFICES ASSUME Inv, [Next]_vars PROVE LifeCycle'
  OBVIOUS
<1>a. HandlingSign => SigningStep
  BY HandlingSignKeeps DEF Inv
<1> USE DEF
      Inv, TypeOK, ControlTypes, MessageTypes, ProvidedTypes, SettingTypes,
      LifeCycle, AnsweredOnce, PendingScreens, ReviewScreens, Reply, ReplyOk,
      ReplyError, ReplySignature, NoReply, SameScreen, ShowScreen, Answer,
      NoResponse, Signature, ExitApp, Handling, session, provided,
      clear_preview_state, reset_trusted_info, reset_dynamic_token_info,
      ClearedCommand, Commands, Storages
<1>1. CASE Receive
  BY <1>1, ReceivedCommandFresh, ReceivedCommandType, ApduAssumption DEF
     Receive, EmptyApdu, ReceiveApdu, Idle
<1>2. CASE GetAppConfiguration \/ GetChallenge
           \/ \E derived \in BOOLEAN : GetPubkey(derived)
  BY <1>2 DEF GetAppConfiguration, GetChallenge, GetPubkey
<1>3. CASE PreviewInSwap \/ SignOffchainMessage \/ DelayedWithoutPreview
           \/ DelayedMismatch \/ \E ok \in BOOLEAN : DelayedSign(ok)
  BY <1>3 DEF PreviewInSwap, SignOffchainMessage, DelayedWithoutPreview,
     DelayedMismatch, DelayedSign
<1>4. CASE RefuseHeader \/ RefuseSummaryInSwap
  BY <1>4, <1>a DEF RefuseHeader, RefuseSummaryInSwap, SignInSwap,
     SigningStep
<1>5. CASE ReviewMessage \/ ReviewBlindMessage \/ RefuseBlindMessage
  BY <1>5, <1>a DEF ReviewMessage, ReviewBlindMessage, RefuseBlindMessage,
     SignFromDashboard, handle_sign_message_ui, SigningStep
<1>6. CASE RefuseInSwap \/ \E ok \in BOOLEAN : swap_finalize(ok)
  BY <1>6 DEF RefuseInSwap, swap_finalize, SignInSwap
<1>7. CASE ProvideHandler
  BY <1>7 DEF ProvideHandler, ProvideInfo, ProvideDynamicDescriptor,
     RefuseDescriptor, DescriptorOutsideSwap, SaveDescriptor
<1>8. CASE UserDecision
  BY <1>8 DEF UserDecision, ContinuePastWarning, Reject, Approve,
     ApprovePreview, ConfirmAddress, Choose
<1>9. CASE UserElse
  BY <1>9 DEF UserElse, BackHome, Quit, Toggle, ui_idle, SettingValues
<1>10. CASE HostRead \/ PowerOff
  BY <1>10 DEF HostRead, PowerOff
<1>11. CASE StartApp
  BY <1>11, AppAssumption DEF StartApp, StartFromDashboard,
     StartFromExchange, Start, ui_idle, nv_app_state_init, DefaultSettings,
     SettingValues, SettingNames
<1>12. CASE UNCHANGED vars
  BY <1>12 DEF vars
<1> QED
  BY <1>1, <1>2, <1>3, <1>4, <1>5, <1>6, <1>7, <1>8, <1>9, <1>10, <1>11, <1>12
     DEF Next, Handler, SignHandler

\* No step changes the command or the token info under a review: handlers
\* need a command of their own, and there is none while an answer is owed.
LEMMA SummaryStep == Inv /\ [Next]_vars => SummaryStillTrue'
<1> SUFFICES ASSUME Inv, [Next]_vars PROVE SummaryStillTrue'
  OBVIOUS
<1>a. HandlingSign => SigningStep
  BY HandlingSignKeeps DEF Inv
<1> USE DEF
      Inv, TypeOK, ControlTypes, MessageTypes, ProvidedTypes, SettingTypes,
      LifeCycle, AnsweredOnce, PendingScreens, ReviewScreens, Reply, ReplyOk,
      ReplyError, ReplySignature, NoReply, SameScreen, ShowScreen, Answer,
      NoResponse, Signature, ExitApp, Handling, session, provided,
      clear_preview_state, reset_trusted_info, reset_dynamic_token_info,
      SummaryStillTrue, NoSummary, SigningInstructions
<1>1. CASE Receive
  BY <1>1 DEF Receive, EmptyApdu, ReceiveApdu, Idle
<1>2. CASE GetAppConfiguration \/ GetChallenge
           \/ \E derived \in BOOLEAN : GetPubkey(derived)
  BY <1>2 DEF GetAppConfiguration, GetChallenge, GetPubkey
<1>3. CASE PreviewInSwap \/ SignOffchainMessage \/ DelayedWithoutPreview
           \/ DelayedMismatch \/ \E ok \in BOOLEAN : DelayedSign(ok)
  BY <1>3 DEF PreviewInSwap, SignOffchainMessage, DelayedWithoutPreview,
     DelayedMismatch, DelayedSign
<1>4. CASE RefuseHeader \/ RefuseSummaryInSwap
  BY <1>4, <1>a DEF RefuseHeader, RefuseSummaryInSwap, SignInSwap,
     SigningStep
<1>5. CASE ReviewMessage \/ ReviewBlindMessage \/ RefuseBlindMessage
  BY <1>5, <1>a DEF ReviewMessage, ReviewBlindMessage, RefuseBlindMessage,
     SignFromDashboard, handle_sign_message_ui, SigningStep
<1>6. CASE RefuseInSwap \/ \E ok \in BOOLEAN : swap_finalize(ok)
  BY <1>6 DEF RefuseInSwap, swap_finalize, SignInSwap
<1>7. CASE ProvideHandler
  BY <1>7 DEF ProvideHandler, ProvideInfo, ProvideDynamicDescriptor,
     RefuseDescriptor, DescriptorOutsideSwap, SaveDescriptor
<1>8. CASE UserDecision
  BY <1>8 DEF UserDecision, ContinuePastWarning, Reject, Approve,
     ApprovePreview, ConfirmAddress, Choose
<1>9. CASE UserElse
  BY <1>9 DEF UserElse, BackHome, Quit, Toggle, ui_idle
<1>10. CASE HostRead \/ PowerOff
  BY <1>10 DEF HostRead, PowerOff
<1>11. CASE StartApp
  BY <1>11 DEF StartApp, StartFromDashboard, StartFromExchange, Start,
     ui_idle
<1>12. CASE UNCHANGED vars
  BY <1>12 DEF vars
<1> QED
  BY <1>1, <1>2, <1>3, <1>4, <1>5, <1>6, <1>7, <1>8, <1>9, <1>10, <1>11, <1>12
     DEF Next, Handler, SignHandler

\* Every step that leaves the spinner drops the preview.
LEMMA PreviewStep == Inv /\ [Next]_vars => PreviewUnderSpinner'
<1> SUFFICES ASSUME Inv, [Next]_vars PROVE PreviewUnderSpinner'
  OBVIOUS
<1>a. HandlingSign => SigningStep
  BY HandlingSignKeeps DEF Inv
<1> USE DEF
      Inv, TypeOK, ControlTypes, MessageTypes, ProvidedTypes, SettingTypes,
      LifeCycle, AnsweredOnce, PendingScreens, ReviewScreens, Reply, ReplyOk,
      ReplyError, ReplySignature, NoReply, SameScreen, ShowScreen, Answer,
      NoResponse, Signature, ExitApp, Handling, session, provided,
      clear_preview_state, reset_trusted_info, reset_dynamic_token_info,
      PreviewUnderSpinner
<1>1. CASE Receive
  BY <1>1 DEF Receive, EmptyApdu, ReceiveApdu, Idle
<1>2. CASE GetAppConfiguration \/ GetChallenge
           \/ \E derived \in BOOLEAN : GetPubkey(derived)
  BY <1>2 DEF GetAppConfiguration, GetChallenge, GetPubkey
<1>3. CASE PreviewInSwap \/ SignOffchainMessage \/ DelayedWithoutPreview
           \/ DelayedMismatch \/ \E ok \in BOOLEAN : DelayedSign(ok)
  BY <1>3 DEF PreviewInSwap, SignOffchainMessage, DelayedWithoutPreview,
     DelayedMismatch, DelayedSign
<1>4. CASE RefuseHeader \/ RefuseSummaryInSwap
  BY <1>4, <1>a DEF RefuseHeader, RefuseSummaryInSwap, SignInSwap,
     SigningStep
<1>5. CASE ReviewMessage \/ ReviewBlindMessage \/ RefuseBlindMessage
  BY <1>5, <1>a DEF ReviewMessage, ReviewBlindMessage, RefuseBlindMessage,
     SignFromDashboard, handle_sign_message_ui, SigningStep
<1>6. CASE RefuseInSwap \/ \E ok \in BOOLEAN : swap_finalize(ok)
  BY <1>6 DEF RefuseInSwap, swap_finalize, SignInSwap
<1>7. CASE ProvideHandler
  BY <1>7 DEF ProvideHandler, ProvideInfo, ProvideDynamicDescriptor,
     RefuseDescriptor, DescriptorOutsideSwap, SaveDescriptor
<1>8. CASE UserDecision
  BY <1>8 DEF UserDecision, ContinuePastWarning, Reject, Approve,
     ApprovePreview, ConfirmAddress, Choose
<1>9. CASE UserElse
  BY <1>9 DEF UserElse, BackHome, Quit, Toggle, ui_idle
<1>10. CASE HostRead \/ PowerOff
  BY <1>10 DEF HostRead, PowerOff
<1>11. CASE StartApp
  BY <1>11 DEF StartApp, StartFromDashboard, StartFromExchange, Start,
     ui_idle
<1>12. CASE UNCHANGED vars
  BY <1>12 DEF vars
<1> QED
  BY <1>1, <1>2, <1>3, <1>4, <1>5, <1>6, <1>7, <1>8, <1>9, <1>10, <1>11, <1>12
     DEF Next, Handler, SignHandler

\* Descriptors and previews stay on their side of the swap boundary.
LEMMA GuardsStep == Inv /\ [Next]_vars => GuardsUnreachable'
<1> SUFFICES ASSUME Inv, [Next]_vars PROVE GuardsUnreachable'
  OBVIOUS
<1>a. HandlingSign => SigningStep
  BY HandlingSignKeeps DEF Inv
<1> USE DEF
      Inv, TypeOK, ControlTypes, MessageTypes, ProvidedTypes, SettingTypes,
      LifeCycle, AnsweredOnce, PendingScreens, ReviewScreens, Reply, ReplyOk,
      ReplyError, ReplySignature, NoReply, SameScreen, ShowScreen, Answer,
      NoResponse, Signature, ExitApp, Handling, session, provided,
      clear_preview_state, reset_trusted_info, reset_dynamic_token_info,
      GuardsUnreachable, PreviewUnderSpinner, Commands, SigningInstructions
<1>1. CASE Receive
  BY <1>1 DEF Receive, EmptyApdu, ReceiveApdu, Idle
<1>2. CASE GetAppConfiguration \/ GetChallenge
           \/ \E derived \in BOOLEAN : GetPubkey(derived)
  BY <1>2 DEF GetAppConfiguration, GetChallenge, GetPubkey
<1>3. CASE PreviewInSwap \/ SignOffchainMessage \/ DelayedWithoutPreview
           \/ DelayedMismatch \/ \E ok \in BOOLEAN : DelayedSign(ok)
  BY <1>3 DEF PreviewInSwap, SignOffchainMessage, DelayedWithoutPreview,
     DelayedMismatch, DelayedSign
<1>4. CASE RefuseHeader \/ RefuseSummaryInSwap
  BY <1>4, <1>a DEF RefuseHeader, RefuseSummaryInSwap, SignInSwap,
     SigningStep
<1>5. CASE ReviewMessage \/ ReviewBlindMessage \/ RefuseBlindMessage
  BY <1>5, <1>a DEF ReviewMessage, ReviewBlindMessage, RefuseBlindMessage,
     SignFromDashboard, handle_sign_message_ui, SigningStep
<1>6. CASE RefuseInSwap \/ \E ok \in BOOLEAN : swap_finalize(ok)
  BY <1>6 DEF RefuseInSwap, swap_finalize, SignInSwap
<1>7. CASE ProvideHandler
  BY <1>7 DEF ProvideHandler, ProvideInfo, ProvideDynamicDescriptor,
     RefuseDescriptor, DescriptorOutsideSwap, SaveDescriptor
<1>8. CASE UserDecision
  BY <1>8 DEF UserDecision, ContinuePastWarning, Reject, Approve,
     ApprovePreview, ConfirmAddress, Choose
<1>9. CASE UserElse
  BY <1>9 DEF UserElse, BackHome, Quit, Toggle, ui_idle
<1>10. CASE HostRead \/ PowerOff
  BY <1>10 DEF HostRead, PowerOff
<1>11. CASE StartApp
  BY <1>11 DEF StartApp, StartFromDashboard, StartFromExchange, Start,
     ui_idle
<1>12. CASE UNCHANGED vars
  BY <1>12 DEF vars
<1> QED
  BY <1>1, <1>2, <1>3, <1>4, <1>5, <1>6, <1>7, <1>8, <1>9, <1>10, <1>11, <1>12
     DEF Next, Handler, SignHandler

\* The challenge is rolled in the step that accepts an answer to it.
LEMMA TrustedStep == Inv /\ [Next]_vars => TrustedInfoUsedUp'
<1> SUFFICES ASSUME Inv, [Next]_vars PROVE TrustedInfoUsedUp'
  OBVIOUS
<1>a. HandlingSign => SigningStep
  BY HandlingSignKeeps DEF Inv
<1> USE DEF
      Inv, TypeOK, ControlTypes, MessageTypes, ProvidedTypes, SettingTypes,
      LifeCycle, AnsweredOnce, PendingScreens, ReviewScreens, Reply, ReplyOk,
      ReplyError, ReplySignature, NoReply, SameScreen, ShowScreen, Answer,
      NoResponse, Signature, ExitApp, Handling, session, provided,
      clear_preview_state, reset_trusted_info, reset_dynamic_token_info,
      TrustedInfoUsedUp, roll_challenge, NoTrusted, TrustedInfos
<1>1. CASE Receive
  BY <1>1 DEF Receive, EmptyApdu, ReceiveApdu, Idle
<1>2. CASE GetAppConfiguration \/ GetChallenge
           \/ \E derived \in BOOLEAN : GetPubkey(derived)
  BY <1>2 DEF GetAppConfiguration, GetChallenge, GetPubkey
<1>3. CASE PreviewInSwap \/ SignOffchainMessage \/ DelayedWithoutPreview
           \/ DelayedMismatch \/ \E ok \in BOOLEAN : DelayedSign(ok)
  BY <1>3 DEF PreviewInSwap, SignOffchainMessage, DelayedWithoutPreview,
     DelayedMismatch, DelayedSign
<1>4. CASE RefuseHeader \/ RefuseSummaryInSwap
  BY <1>4, <1>a DEF RefuseHeader, RefuseSummaryInSwap, SignInSwap,
     SigningStep
<1>5. CASE ReviewMessage \/ ReviewBlindMessage \/ RefuseBlindMessage
  BY <1>5, <1>a DEF ReviewMessage, ReviewBlindMessage, RefuseBlindMessage,
     SignFromDashboard, handle_sign_message_ui, SigningStep
<1>6. CASE RefuseInSwap \/ \E ok \in BOOLEAN : swap_finalize(ok)
  BY <1>6 DEF RefuseInSwap, swap_finalize, SignInSwap
<1>7. CASE ProvideHandler
  BY <1>7 DEF ProvideHandler, ProvideInfo, ProvideDynamicDescriptor,
     RefuseDescriptor, DescriptorOutsideSwap, SaveDescriptor
<1>8. CASE UserDecision
  BY <1>8 DEF UserDecision, ContinuePastWarning, Reject, Approve,
     ApprovePreview, ConfirmAddress, Choose
<1>9. CASE UserElse
  BY <1>9 DEF UserElse, BackHome, Quit, Toggle, ui_idle
<1>10. CASE HostRead \/ PowerOff
  BY <1>10 DEF HostRead, PowerOff
<1>11. CASE StartApp
  BY <1>11 DEF StartApp, StartFromDashboard, StartFromExchange, Start,
     ui_idle
<1>12. CASE UNCHANGED vars
  BY <1>12 DEF vars
<1> QED
  BY <1>1, <1>2, <1>3, <1>4, <1>5, <1>6, <1>7, <1>8, <1>9, <1>10, <1>11, <1>12
     DEF Next, Handler, SignHandler

\* Every step that shows the home screen or writes a setting does both alike.
LEMMA SwitchesStep == Inv /\ [Next]_vars => SwitchesShowSettings'
<1> SUFFICES ASSUME Inv, [Next]_vars PROVE SwitchesShowSettings'
  OBVIOUS
<1>a. HandlingSign => SigningStep
  BY HandlingSignKeeps DEF Inv
<1> USE DEF
      Inv, TypeOK, ControlTypes, MessageTypes, ProvidedTypes, SettingTypes,
      LifeCycle, AnsweredOnce, PendingScreens, ReviewScreens, Reply, ReplyOk,
      ReplyError, ReplySignature, NoReply, SameScreen, ShowScreen, Answer,
      NoResponse, Signature, ExitApp, Handling, session, provided,
      clear_preview_state, reset_trusted_info, reset_dynamic_token_info,
      SwitchesShowSettings, SettingValues, Storages
<1>1. CASE Receive
  BY <1>1 DEF Receive, EmptyApdu, ReceiveApdu, Idle
<1>2. CASE GetAppConfiguration \/ GetChallenge
           \/ \E derived \in BOOLEAN : GetPubkey(derived)
  BY <1>2 DEF GetAppConfiguration, GetChallenge, GetPubkey
<1>3. CASE PreviewInSwap \/ SignOffchainMessage \/ DelayedWithoutPreview
           \/ DelayedMismatch \/ \E ok \in BOOLEAN : DelayedSign(ok)
  BY <1>3 DEF PreviewInSwap, SignOffchainMessage, DelayedWithoutPreview,
     DelayedMismatch, DelayedSign
<1>4. CASE RefuseHeader \/ RefuseSummaryInSwap
  BY <1>4, <1>a DEF RefuseHeader, RefuseSummaryInSwap, SignInSwap,
     SigningStep
<1>5. CASE ReviewMessage \/ ReviewBlindMessage \/ RefuseBlindMessage
  BY <1>5, <1>a DEF ReviewMessage, ReviewBlindMessage, RefuseBlindMessage,
     SignFromDashboard, handle_sign_message_ui, SigningStep
<1>6. CASE RefuseInSwap \/ \E ok \in BOOLEAN : swap_finalize(ok)
  BY <1>6 DEF RefuseInSwap, swap_finalize, SignInSwap
<1>7. CASE ProvideHandler
  BY <1>7 DEF ProvideHandler, ProvideInfo, ProvideDynamicDescriptor,
     RefuseDescriptor, DescriptorOutsideSwap, SaveDescriptor
<1>8. CASE UserDecision
  BY <1>8 DEF UserDecision, ContinuePastWarning, Reject, Approve,
     ApprovePreview, ConfirmAddress, Choose
<1>9. CASE UserElse
  BY <1>9 DEF UserElse, BackHome, Quit, Toggle, ui_idle
<1>10. CASE HostRead \/ PowerOff
  BY <1>10 DEF HostRead, PowerOff
<1>11. CASE StartApp
  BY <1>11 DEF StartApp, StartFromDashboard, StartFromExchange, Start,
     ui_idle, nv_app_state_init
<1>12. CASE UNCHANGED vars
  BY <1>12 DEF vars
<1> QED
  BY <1>1, <1>2, <1>3, <1>4, <1>5, <1>6, <1>7, <1>8, <1>9, <1>10, <1>11, <1>12
     DEF Next, Handler, SignHandler

\* Nothing a blind review depends on changes while it is on the screen.
LEMMA BlindStep == Inv /\ [Next]_vars => BlindReviewAllowed'
<1> SUFFICES ASSUME Inv, [Next]_vars PROVE BlindReviewAllowed'
  OBVIOUS
<1>a. HandlingSign => SigningStep
  BY HandlingSignKeeps DEF Inv
<1> USE DEF
      Inv, TypeOK, ControlTypes, MessageTypes, ProvidedTypes, SettingTypes,
      LifeCycle, AnsweredOnce, PendingScreens, ReviewScreens, Reply, ReplyOk,
      ReplyError, ReplySignature, NoReply, SameScreen, ShowScreen, Answer,
      NoResponse, Signature, ExitApp, Handling, session, provided,
      clear_preview_state, reset_trusted_info, reset_dynamic_token_info,
      BlindReviewAllowed, Context, SigningInstructions
<1>1. CASE Receive
  BY <1>1 DEF Receive, EmptyApdu, ReceiveApdu, Idle
<1>2. CASE GetAppConfiguration \/ GetChallenge
           \/ \E derived \in BOOLEAN : GetPubkey(derived)
  BY <1>2 DEF GetAppConfiguration, GetChallenge, GetPubkey
<1>3. CASE PreviewInSwap \/ SignOffchainMessage \/ DelayedWithoutPreview
           \/ DelayedMismatch \/ \E ok \in BOOLEAN : DelayedSign(ok)
  BY <1>3 DEF PreviewInSwap, SignOffchainMessage, DelayedWithoutPreview,
     DelayedMismatch, DelayedSign, OffchainBlindRefused
<1>4. CASE RefuseHeader \/ RefuseSummaryInSwap
  BY <1>4, <1>a DEF RefuseHeader, RefuseSummaryInSwap, SignInSwap,
     SigningStep
<1>5. CASE ReviewMessage \/ ReviewBlindMessage \/ RefuseBlindMessage
  BY <1>5, <1>a DEF ReviewMessage, ReviewBlindMessage, RefuseBlindMessage,
     SignFromDashboard, handle_sign_message_ui, SigningStep
<1>6. CASE RefuseInSwap \/ \E ok \in BOOLEAN : swap_finalize(ok)
  BY <1>6 DEF RefuseInSwap, swap_finalize, SignInSwap
<1>7. CASE ProvideHandler
  BY <1>7 DEF ProvideHandler, ProvideInfo, ProvideDynamicDescriptor,
     RefuseDescriptor, DescriptorOutsideSwap, SaveDescriptor
<1>8. CASE UserDecision
  BY <1>8 DEF UserDecision, ContinuePastWarning, Reject, Approve,
     ApprovePreview, ConfirmAddress, Choose
<1>9. CASE UserElse
  BY <1>9 DEF UserElse, BackHome, Quit, Toggle, ui_idle
<1>10. CASE HostRead \/ PowerOff
  BY <1>10 DEF HostRead, PowerOff
<1>11. CASE StartApp
  BY <1>11 DEF StartApp, StartFromDashboard, StartFromExchange, Start,
     ui_idle
<1>12. CASE UNCHANGED vars
  BY <1>12 DEF vars
<1> QED
  BY <1>1, <1>2, <1>3, <1>4, <1>5, <1>6, <1>7, <1>8, <1>9, <1>10, <1>11, <1>12
     DEF Next, Handler, SignHandler

\* The scalar state of the app stays well formed.
LEMMA ControlStep == Inv /\ [Next]_vars => ControlTypes'
<1> SUFFICES ASSUME Inv, [Next]_vars PROVE ControlTypes'
  OBVIOUS
<1>a. HandlingSign => SigningStep
  BY HandlingSignKeeps DEF Inv
<1> USE DEF
      Inv, TypeOK, ControlTypes, LifeCycle, AnsweredOnce, Reply, ReplyOk,
      ReplyError, ReplySignature, NoReply, SameScreen, ShowScreen, ExitApp,
      Handling, session, provided, clear_preview_state, reset_trusted_info,
      reset_dynamic_token_info, Screens, PendingScreens, ReviewScreens,
      roll_challenge
<1>1. CASE Receive
  BY <1>1 DEF Receive, EmptyApdu, ReceiveApdu, Idle
<1>2. CASE GetAppConfiguration \/ GetChallenge
           \/ \E derived \in BOOLEAN : GetPubkey(derived)
  BY <1>2 DEF GetAppConfiguration, GetChallenge, GetPubkey
<1>3. CASE PreviewInSwap \/ SignOffchainMessage \/ DelayedWithoutPreview
           \/ DelayedMismatch \/ \E ok \in BOOLEAN : DelayedSign(ok)
  BY <1>3 DEF PreviewInSwap, SignOffchainMessage, DelayedWithoutPreview,
     DelayedMismatch, DelayedSign
<1>4. CASE RefuseHeader \/ RefuseSummaryInSwap
  BY <1>4, AppAssumption, <1>a DEF RefuseHeader, RefuseSummaryInSwap,
     SignInSwap, SigningStep
<1>5. CASE ReviewMessage \/ ReviewBlindMessage \/ RefuseBlindMessage
  BY <1>5, AppAssumption, <1>a DEF ReviewMessage, ReviewBlindMessage,
     RefuseBlindMessage, SignFromDashboard, handle_sign_message_ui, SigningStep
<1>6. CASE RefuseInSwap \/ \E ok \in BOOLEAN : swap_finalize(ok)
  BY <1>6 DEF RefuseInSwap, swap_finalize, SignInSwap
<1>7. CASE ProvideHandler
  BY <1>7, AppAssumption DEF ProvideHandler, ProvideInfo,
     ProvideDynamicDescriptor, RefuseDescriptor, DescriptorOutsideSwap,
     SaveDescriptor
<1>8. CASE UserDecision
  BY <1>8, AppAssumption DEF UserDecision, ContinuePastWarning, Reject,
     Approve, ApprovePreview, ConfirmAddress, Choose
<1>9. CASE UserElse
  BY <1>9 DEF UserElse, BackHome, Quit, Toggle, ui_idle
<1>10. CASE HostRead \/ PowerOff
  BY <1>10, AppAssumption DEF HostRead, PowerOff
<1>11. CASE StartApp
  BY <1>11, AppAssumption DEF StartApp, StartFromDashboard,
     StartFromExchange, Start, ui_idle
<1>12. CASE UNCHANGED vars
  BY <1>12 DEF vars
<1> QED
  BY <1>1, <1>2, <1>3, <1>4, <1>5, <1>6, <1>7, <1>8, <1>9, <1>10, <1>11, <1>12
     DEF Next, Handler, SignHandler

\* Commands, answers, the summary and the preview stay well formed.
LEMMA MessageStep == Inv /\ [Next]_vars => MessageTypes'
<1> SUFFICES ASSUME Inv, [Next]_vars PROVE MessageTypes'
  OBVIOUS
<1>a. HandlingSign => SigningStep
  BY HandlingSignKeeps DEF Inv
<1>b. /\ Signature \in Answers
      /\ Fingerprint(cmd.path, cmd.message) \in Previews
      /\ [path |-> cmd.path, message |-> cmd.message,
          trusted |-> trusted.info, token |-> token] \in Summaries
      /\ [NoSummary EXCEPT !.path = cmd.path, !.message = cmd.message]
           \in Summaries
      /\ \A a \in Apdus : ReceivedCommand(cmd, a) \in Commands
  BY DerivedTypes DEF Inv
<1> USE DEF
      Inv, TypeOK, MessageTypes, AnsweredOnce, Reply, ReplyOk, ReplyError,
      ReplySignature, NoReply, SameScreen, ShowScreen, ExitApp, Handling,
      session, provided, clear_preview_state, reset_trusted_info,
      reset_dynamic_token_info
<1>1. CASE Receive
  BY <1>1, ValueTypes, <1>b DEF Receive, EmptyApdu, ReceiveApdu, Idle
<1>2. CASE GetAppConfiguration \/ GetChallenge
           \/ \E derived \in BOOLEAN : GetPubkey(derived)
  BY <1>2, ValueTypes, <1>b DEF GetAppConfiguration, GetChallenge, GetPubkey
<1>3. CASE PreviewInSwap \/ SignOffchainMessage \/ DelayedWithoutPreview
           \/ DelayedMismatch \/ \E ok \in BOOLEAN : DelayedSign(ok)
  BY <1>3, ValueTypes, <1>b DEF PreviewInSwap, SignOffchainMessage,
     DelayedWithoutPreview, DelayedMismatch, DelayedSign
<1>4. CASE RefuseHeader \/ RefuseSummaryInSwap
  BY <1>4, ValueTypes, <1>b, <1>a DEF RefuseHeader, RefuseSummaryInSwap,
     SignInSwap, SigningStep
<1>5. CASE ReviewMessage \/ ReviewBlindMessage \/ RefuseBlindMessage
  BY <1>5, ValueTypes, <1>b, <1>a DEF ReviewMessage, ReviewBlindMessage,
     RefuseBlindMessage, SignFromDashboard, handle_sign_message_ui, SigningStep
<1>6. CASE RefuseInSwap \/ \E ok \in BOOLEAN : swap_finalize(ok)
  BY <1>6, ValueTypes, <1>b DEF RefuseInSwap, swap_finalize, SignInSwap
<1>7. CASE ProvideHandler
  BY <1>7, ValueTypes, <1>b DEF ProvideHandler, ProvideInfo,
     ProvideDynamicDescriptor, RefuseDescriptor, DescriptorOutsideSwap,
     SaveDescriptor
<1>8. CASE UserDecision
  BY <1>8, ValueTypes, <1>b DEF UserDecision, ContinuePastWarning, Reject,
     Approve, ApprovePreview, ConfirmAddress, Choose
<1>9. CASE UserElse
  BY <1>9, ValueTypes, <1>b DEF UserElse, BackHome, Quit, Toggle, ui_idle
<1>10. CASE HostRead \/ PowerOff
  BY <1>10, ValueTypes, <1>b DEF HostRead, PowerOff
<1>11. CASE StartApp
  BY <1>11, ValueTypes, <1>b DEF StartApp, StartFromDashboard,
     StartFromExchange, Start, ui_idle
<1>12. CASE UNCHANGED vars
  BY <1>12 DEF vars
<1> QED
  BY <1>1, <1>2, <1>3, <1>4, <1>5, <1>6, <1>7, <1>8, <1>9, <1>10, <1>11, <1>12
     DEF Next, Handler, SignHandler

\* What the host provides stays well formed and within its bounds.
LEMMA ProvidedStep == Inv /\ [Next]_vars => ProvidedTypes'
<1> SUFFICES ASSUME Inv, [Next]_vars PROVE ProvidedTypes'
  OBVIOUS
<1>a. HandlingSign => SigningStep
  BY HandlingSignKeeps DEF Inv
<1>c. SaveDescriptor => ProvidedTypes'
  BY SaveTypes DEF Inv
<1> USE DEF
      Inv, TypeOK, ControlTypes, MessageTypes, ProvidedTypes, AnsweredOnce,
      Reply, ReplyOk, ReplyError, ReplySignature, NoReply, SameScreen,
      ShowScreen, ExitApp, Handling, session, provided, clear_preview_state,
      reset_trusted_info, reset_dynamic_token_info
<1>1. CASE Receive
  BY <1>1, ValueTypes DEF Receive, EmptyApdu, ReceiveApdu, Idle
<1>2. CASE GetAppConfiguration \/ GetChallenge
           \/ \E derived \in BOOLEAN : GetPubkey(derived)
  BY <1>2, ValueTypes DEF GetAppConfiguration, GetChallenge, GetPubkey
<1>3. CASE PreviewInSwap \/ SignOffchainMessage \/ DelayedWithoutPreview
           \/ DelayedMismatch \/ \E ok \in BOOLEAN : DelayedSign(ok)
  BY <1>3, ValueTypes DEF PreviewInSwap, SignOffchainMessage,
     DelayedWithoutPreview, DelayedMismatch, DelayedSign
<1>4. CASE RefuseHeader \/ RefuseSummaryInSwap
  BY <1>4, ValueTypes, <1>a DEF RefuseHeader, RefuseSummaryInSwap,
     SignInSwap, SigningStep
<1>5. CASE ReviewMessage \/ ReviewBlindMessage \/ RefuseBlindMessage
  BY <1>5, ValueTypes, <1>a DEF ReviewMessage, ReviewBlindMessage,
     RefuseBlindMessage, SignFromDashboard, handle_sign_message_ui, SigningStep
<1>6. CASE RefuseInSwap \/ \E ok \in BOOLEAN : swap_finalize(ok)
  BY <1>6, ValueTypes DEF RefuseInSwap, swap_finalize, SignInSwap
<1>7. CASE ProvideHandler
  <2>1. CASE SaveDescriptor
    BY <1>c, <2>1
  <2>2. CASE DescriptorOutsideSwap
    BY <2>2 DEF DescriptorOutsideSwap
  <2>3. ASSUME NEW allocated \in BOOLEAN, ProvideInfo(allocated)
        PROVE  ProvidedTypes'
    BY <2>3, PayloadAssumption, ValueTypes DEF ProvideInfo, TrustedInfos,
       Commands
  <2>4. ASSUME NEW allocated \in BOOLEAN, ProvideDynamicDescriptor(allocated)
        PROVE  ProvidedTypes'
    BY <2>4, PayloadAssumption DEF ProvideDynamicDescriptor, Commands
  <2>5. ASSUME NEW allocated \in BOOLEAN, RefuseDescriptor(allocated)
        PROVE  ProvidedTypes'
    BY <2>5, ValueTypes DEF RefuseDescriptor
  <2> QED BY <1>7, <2>1, <2>2, <2>3, <2>4, <2>5 DEF ProvideHandler
<1>8. CASE UserDecision
  BY <1>8, ValueTypes DEF UserDecision, ContinuePastWarning, Reject, Approve,
     ApprovePreview, ConfirmAddress, Choose
<1>9. CASE UserElse
  BY <1>9, ValueTypes DEF UserElse, BackHome, Quit, Toggle, ui_idle
<1>10. CASE HostRead \/ PowerOff
  BY <1>10, ValueTypes DEF HostRead, PowerOff
<1>11. CASE StartApp
  BY <1>11, ValueTypes DEF StartApp, StartFromDashboard, StartFromExchange,
     Start, ui_idle
<1>12. CASE UNCHANGED vars
  BY <1>12 DEF vars
<1> QED
  BY <1>1, <1>2, <1>3, <1>4, <1>5, <1>6, <1>7, <1>8, <1>9, <1>10, <1>11, <1>12
     DEF Next, Handler, SignHandler

\* The settings and their switches stay well formed.
LEMMA SettingStep == Inv /\ [Next]_vars => SettingTypes'
<1> SUFFICES ASSUME Inv, [Next]_vars PROVE SettingTypes'
  OBVIOUS
<1>a. HandlingSign => SigningStep
  BY HandlingSignKeeps DEF Inv
<1>c. /\ \A s \in Settings : Toggle(s) => SettingTypes'
      /\ StartApp => SettingTypes'
  BY ToggleTypes, StartTypes DEF Inv
<1> USE DEF
      Inv, TypeOK, SettingTypes, AnsweredOnce, Reply, ReplyOk, ReplyError,
      ReplySignature, NoReply, SameScreen, ShowScreen, ExitApp, Handling,
      session, provided, clear_preview_state, reset_trusted_info,
      reset_dynamic_token_info
<1>1. CASE Receive
  BY <1>1, ValueTypes DEF Receive, EmptyApdu, ReceiveApdu, Idle
<1>2. CASE GetAppConfiguration \/ GetChallenge
           \/ \E derived \in BOOLEAN : GetPubkey(derived)
  BY <1>2, ValueTypes DEF GetAppConfiguration, GetChallenge, GetPubkey
<1>3. CASE PreviewInSwap \/ SignOffchainMessage \/ DelayedWithoutPreview
           \/ DelayedMismatch \/ \E ok \in BOOLEAN : DelayedSign(ok)
  BY <1>3, ValueTypes DEF PreviewInSwap, SignOffchainMessage,
     DelayedWithoutPreview, DelayedMismatch, DelayedSign
<1>4. CASE RefuseHeader \/ RefuseSummaryInSwap
  BY <1>4, ValueTypes, <1>a DEF RefuseHeader, RefuseSummaryInSwap,
     SignInSwap, SigningStep
<1>5. CASE ReviewMessage \/ ReviewBlindMessage \/ RefuseBlindMessage
  BY <1>5, ValueTypes, <1>a DEF ReviewMessage, ReviewBlindMessage,
     RefuseBlindMessage, SignFromDashboard, handle_sign_message_ui, SigningStep
<1>6. CASE RefuseInSwap \/ \E ok \in BOOLEAN : swap_finalize(ok)
  BY <1>6, ValueTypes DEF RefuseInSwap, swap_finalize, SignInSwap
<1>7. CASE ProvideHandler
  BY <1>7, ValueTypes DEF ProvideHandler, ProvideInfo,
     ProvideDynamicDescriptor, RefuseDescriptor, DescriptorOutsideSwap,
     SaveDescriptor
<1>8. CASE UserDecision
  BY <1>8, ValueTypes DEF UserDecision, ContinuePastWarning, Reject, Approve,
     ApprovePreview, ConfirmAddress, Choose
<1>9. CASE UserElse
  <2>1. CASE BackHome
    BY <2>1 DEF BackHome, ui_idle, Storages
  <2>2. CASE Quit
    BY <2>2 DEF Quit
  <2>3. CASE \E s \in Settings : Toggle(s)
    BY <1>c, <2>3
  <2> QED BY <1>9, <2>1, <2>2, <2>3 DEF UserElse
<1>10. CASE HostRead \/ PowerOff
  BY <1>10, ValueTypes DEF HostRead, PowerOff
<1>11. CASE StartApp
  BY <1>c, <1>11
<1>12. CASE UNCHANGED vars
  BY <1>12 DEF vars
<1> QED
  BY <1>1, <1>2, <1>3, <1>4, <1>5, <1>6, <1>7, <1>8, <1>9, <1>10, <1>11, <1>12
     DEF Next, Handler, SignHandler

-------------------------------------------------------------------------------
(* The theorems. *)

\* A device with the app just installed satisfies the invariant.
LEMMA InvInit == Init => Inv
<1> SUFFICES ASSUME Init PROVE Inv
  OBVIOUS
<1>1. ControlTypes
  BY AppAssumption DEF Init, ControlTypes, Screens
<1>2. MessageTypes /\ ProvidedTypes
  BY ValueTypes DEF Init, MessageTypes, ProvidedTypes
<1>3. SettingTypes
  BY ValueTypes DEF Init, SettingTypes, Storages
<1>4. LifeCycle
  BY DEF Init, LifeCycle, ClearedCommand
<1>5. AnsweredOnce /\ SummaryStillTrue /\ PreviewUnderSpinner /\ GuardsUnreachable
        /\ TrustedInfoUsedUp /\ SwitchesShowSettings /\ BlindReviewAllowed
  BY DEF Init, AnsweredOnce, SummaryStillTrue, PreviewUnderSpinner,
     GuardsUnreachable, TrustedInfoUsedUp, SwitchesShowSettings,
     BlindReviewAllowed, PendingScreens, ReviewScreens
<1> QED BY <1>1, <1>2, <1>3, <1>4, <1>5 DEF Inv, TypeOK

\* Inv is preserved by every step of the app, of the user and of the host.
LEMMA InvStep == Inv /\ [Next]_vars => Inv'
BY AnswerStep, LifeCycleStep, SummaryStep, PreviewStep, GuardsStep, TrustedStep,
   SwitchesStep, BlindStep, ControlStep, MessageStep, ProvidedStep, SettingStep
   DEF Inv, TypeOK

\* Inv holds in every state the app can reach.
THEOREM Invariance == Spec => []Inv
<1>1. Init => Inv
  BY InvInit
<1>2. Inv /\ [Next]_vars => Inv'
  BY InvStep
<1> QED BY <1>1, <1>2, PTL DEF Spec

\* The state stays well formed; in particular no command outgrows its buffer
\* and no more descriptors are saved than there are slots.
THEOREM TypeCorrectness == Spec => []TypeOK
<1>1. Inv => TypeOK
  BY DEF Inv
<1> QED BY <1>1, Invariance, PTL

\* Every command is answered once, by its handler or by the screen it opened.
THEOREM OneAnswerPerCommand == Spec => []AnsweredOnce
<1>1. Inv => AnsweredOnce
  BY DEF Inv
<1> QED BY <1>1, Invariance, PTL

\* What a review displays is what approving it signs.
THEOREM SummaryCorrectness == Spec => []SummaryStillTrue
<1>1. Inv => SummaryStillTrue
  BY DEF Inv
<1> QED BY <1>1, Invariance, PTL

\* A preview waits for its delayed signature only under the spinner.
THEOREM PreviewUnderSpinnerOnly == Spec => []PreviewUnderSpinner
<1>1. Inv => PreviewUnderSpinner
  BY DEF Inv
<1> QED BY <1>1, Invariance, PTL

\* The states the defensive guards of the signing handlers test for cannot be
\* reached.
THEOREM GuardsAreUnreachable == Spec => []GuardsUnreachable
<1>1. Inv => GuardsUnreachable
  BY DEF Inv
<1> QED BY <1>1, Invariance, PTL

\* The challenge a trusted info answered is never valid again.
THEOREM NoTrustedInfoReplay == Spec => []TrustedInfoUsedUp
<1>1. Inv => TrustedInfoUsedUp
  BY DEF Inv
<1> QED BY <1>1, Invariance, PTL

\* The settings page shows what is stored.
THEOREM SettingsShown == Spec => []SwitchesShowSettings
<1>1. Inv => SwitchesShowSettings
  BY DEF Inv
<1> QED BY <1>1, Invariance, PTL

\* A blind review is displayed only while the setting allows it.
THEOREM BlindSigningNeedsSetting == Spec => []BlindReviewAllowed
<1>1. Inv => BlindReviewAllowed
  BY DEF Inv
<1> QED BY <1>1, Invariance, PTL

\* A delayed signature has to be the next command after its preview: whatever
\* command runs, and however it ends, no preview is left.
THEOREM PreviewIsForNextCommand == Spec => PreviewForNextCommandOnly
<1> DEFINE Step == dispatching /\ ~dispatching' => preview' = NoPreview
<1>1. ASSUME Inv, [Next]_vars
      PROVE  Step
  <2> SUFFICES ASSUME dispatching, ~dispatching'
               PROVE  preview' = NoPreview
    OBVIOUS
  <2>a. HandlingSign => SigningStep
    BY <1>1, HandlingSignKeeps DEF Inv
  <2>b. owed = 1 /\ screen \notin PendingScreens
    BY <1>1 DEF Inv, TypeOK, ControlTypes, AnsweredOnce
  <2> USE DEF Handling, ExitApp, clear_preview_state
  <2>1. CASE Handler
    <3>1. CASE GetAppConfiguration \/ GetChallenge
               \/ \E derived \in BOOLEAN : GetPubkey(derived)
      BY <3>1 DEF GetAppConfiguration, GetChallenge, GetPubkey
    <3>2. CASE SignHandler
      BY <3>2, <2>a DEF SignHandler, PreviewInSwap, RefuseHeader, ReviewMessage,
         ReviewBlindMessage, RefuseBlindMessage, RefuseSummaryInSwap,
         RefuseInSwap, SignOffchainMessage, DelayedWithoutPreview,
         DelayedMismatch, DelayedSign, swap_finalize, SignFromDashboard,
         SigningStep
    <3>3. CASE ProvideHandler
      BY <3>3 DEF ProvideHandler, ProvideInfo, ProvideDynamicDescriptor,
         RefuseDescriptor, DescriptorOutsideSwap, SaveDescriptor
    <3> QED BY <2>1, <3>1, <3>2, <3>3 DEF Handler
  <2>2. CASE Receive
    BY <2>2 DEF Receive, EmptyApdu, ReceiveApdu, Idle
  <2>3. CASE UserDecision
    BY <2>3, <2>b DEF UserDecision, ContinuePastWarning, Reject, Approve,
       ApprovePreview, ConfirmAddress, Choose, PendingScreens, ReviewScreens
  <2>4. CASE UserElse \/ HostRead \/ StartApp \/ UNCHANGED vars
    BY <2>4, <1>1 DEF UserElse, HostRead, StartApp, StartFromDashboard,
       StartFromExchange, Start, vars
  <2>5. CASE PowerOff
    BY <2>5 DEF PowerOff
  <2> QED BY <1>1, <2>1, <2>2, <2>3, <2>4, <2>5 DEF Next
<1>2. Inv /\ [Next]_vars => [Step]_vars
  BY <1>1
<1> QED BY <1>2, Invariance, PTL DEF Spec, PreviewForNextCommandOnly

-------------------------------------------------------------------------------
(* SolanaApp implements SigningConsent: the initial state maps to an       *)
(* initial state, and every step to a step of SigningConsent.              *)

\* While a command is handled nothing is displayed for consent, and while a
\* command is handled or decided no signature waits to be read.
LEMMA NothingPending ==
  Inv => /\ dispatching => asked = {}
         /\ owed = 1 => signed = {}
BY DEF Inv, AnsweredOnce, PendingScreens, asked, signed, NoResponse, Answer

\* A handler that opens no review and signs nothing withdraws the grant.
LEMMA HandlerWithdraws ==
  /\ Inv /\ dispatching
  /\ preview' = NoPreview /\ swap' = swap
  /\ screen' \notin ReviewScreens
  /\ response'.kind # "signature"
  => Consent!Withdraw
<1> SUFFICES ASSUME Inv, dispatching, preview' = NoPreview, swap' = swap,
                    screen' \notin ReviewScreens,
                    response'.kind # "signature"
             PROVE  Consent!Withdraw
  OBVIOUS
<1>1. asked = {} /\ signed = {}
  BY NothingPending DEF Inv, AnsweredOnce
<1>2. asked' = {} /\ signed' = {}
  BY DEF asked, signed
<1> QED BY <1>1, <1>2 DEF Consent!Withdraw

\* A handler that opens a review asks for consent to its summary.
LEMMA HandlerAsks ==
  /\ Inv /\ dispatching
  /\ preview' = NoPreview /\ swap' = swap
  /\ screen' \in ReviewScreens
  /\ UNCHANGED response
  => Consent!Ask
<1> SUFFICES ASSUME Inv, dispatching, preview' = NoPreview, swap' = swap,
                    screen' \in ReviewScreens, UNCHANGED response
             PROVE  Consent!Ask
  OBVIOUS
<1>1. asked = {} /\ signed = {}
  BY NothingPending DEF Inv, AnsweredOnce
<1>2. asked' # {} /\ signed' = signed
  BY DEF asked, signed
<1> QED BY <1>1, <1>2 DEF Consent!Ask

\* What neither opens nor closes a review and makes no signature changes
\* nothing that matters for consent.
LEMMA NothingHeard ==
  /\ UNCHANGED <<preview, swap>>
  /\ asked' = asked /\ signed' = signed
  => Consent!Hear
BY DEF Consent!Hear

\* The app ends: in the dashboard, in a swap, or because of an error.
LEMMA ExitEnds ==
  /\ ExitApp
  /\ signed' \in {signed, {}}
  => Consent!End
<1> SUFFICES ASSUME ExitApp, signed' \in {signed, {}} PROVE Consent!End
  OBVIOUS
<1>1. asked' = {}
  BY DEF ExitApp, ShowScreen, ReviewScreens, asked
<1> QED BY <1>1 DEF ExitApp, clear_preview_state, Consent!End

\* A command received or an answer read.
LEMMA ReceiveConsent == Inv /\ (Receive \/ HostRead) => Consent!Next
<1> SUFFICES ASSUME Inv, Receive \/ HostRead PROVE Consent!Next
  OBVIOUS
<1>1. CASE Receive
  <2>1. /\ response = NoResponse /\ owed = 0
        /\ UNCHANGED <<preview, swap, screen, summary>>
        /\ response' = response \/ response' \in {Answer("ok"), Answer("error")}
    BY <1>1 DEF Receive, EmptyApdu, ReceiveApdu, Idle, SameScreen, session
  <2>2. screen \notin ReviewScreens
    BY <2>1 DEF Inv, AnsweredOnce, PendingScreens
  <2>3. asked' = asked /\ signed' = signed
    BY <2>1, <2>2 DEF asked, signed, NoResponse, Answer
  <2> QED BY <2>1, <2>3, NothingHeard DEF Consent!Next
<1>2. CASE HostRead
  <2>1. /\ UNCHANGED <<preview, swap, screen, summary, cmd>>
        /\ response' = NoResponse
    BY <1>2 DEF HostRead, SameScreen, session
  <2>2. asked' = asked /\ signed' = {}
    BY <2>1 DEF asked, signed, NoResponse, Answer
  <2>3. CASE signed = {}
    BY <2>1, <2>2, <2>3, NothingHeard DEF Consent!Next
  <2>4. CASE signed # {}
    BY <2>1, <2>2, <2>4 DEF Consent!Next, Consent!Deliver
  <2> QED BY <2>3, <2>4
<1> QED BY <1>1, <1>2

\* The handlers that concern no signature.
LEMMA OtherHandlerConsent ==
  Inv /\ (\/ GetAppConfiguration \/ GetChallenge
          \/ \E derived \in BOOLEAN : GetPubkey(derived)
          \/ ProvideHandler)
  => Consent!Next
<1> SUFFICES ASSUME Inv,
                    \/ GetAppConfiguration \/ GetChallenge
                    \/ \E derived \in BOOLEAN : GetPubkey(derived)
                    \/ ProvideHandler
             PROVE  Consent!Next
  OBVIOUS
<1>1. CASE \E allocated \in BOOLEAN : RefuseDescriptor(allocated)
  <2>1. ExitApp /\ signed' = {}
    BY <1>1 DEF RefuseDescriptor, ReplyError, Reply, Answer, signed
  <2> QED BY <2>1, ExitEnds DEF Consent!Next
<1>2. CASE ~\E allocated \in BOOLEAN : RefuseDescriptor(allocated)
  <2>1. dispatching => screen \notin ReviewScreens
    BY DEF Inv, AnsweredOnce, PendingScreens
  <2>2. response.kind # "signature" \/ owed # 1
    BY DEF Inv, AnsweredOnce, NoResponse, Answer
  <2>3. dispatching => owed = 1
    BY DEF Inv, AnsweredOnce
  <2>4. /\ dispatching /\ preview' = NoPreview /\ swap' = swap
        /\ screen' \in {screen, "address"}
        /\ response' = response \/ response' \in {Answer("ok"), Answer("error")}
    BY <1>2 DEF GetAppConfiguration, GetChallenge, GetPubkey, ProvideHandler,
       ProvideInfo, ProvideDynamicDescriptor, DescriptorOutsideSwap,
       SaveDescriptor, Handling, clear_preview_state, SameScreen, ShowScreen,
       NoReply, ReplyOk, ReplyError, Reply, session
  <2>5. screen' \notin ReviewScreens
    BY <2>1, <2>4 DEF ReviewScreens
  <2>6. response'.kind # "signature"
    BY <2>2, <2>3, <2>4 DEF Answer
  <2> QED BY <2>4, <2>5, <2>6, HandlerWithdraws DEF Consent!Next
<1> QED BY <1>1, <1>2

\* A delayed signature redeems the preview it matches.
LEMMA DelayedRedeems == Inv /\ DelayedSign(TRUE) => Consent!Redeem
<1> SUFFICES ASSUME Inv, DelayedSign(TRUE) PROVE Consent!Redeem
  OBVIOUS
<1>1. /\ dispatching /\ preview # NoPreview /\ MatchesPreview
      /\ response' = Signature
      /\ preview' = NoPreview /\ swap' = swap /\ screen' = "status"
  BY DEF DelayedSign, Handling, clear_preview_state, ReplySignature, Reply,
     ShowScreen, session
<1>2. asked = {} /\ signed = {}
  BY <1>1, NothingPending DEF Inv, AnsweredOnce
<1>3. asked' = {} /\ signed' = {[path |-> cmd.path, message |-> cmd.message]}
  BY <1>1 DEF asked, signed, Signature, ReviewScreens
<1>4. swap = NoSwap
  BY <1>1 DEF Inv, GuardsUnreachable, LifeCycle
<1>5. preview \in Previews
  BY DEF Inv, TypeOK, MessageTypes
<1>6. Fingerprint(cmd.path, cmd.message) = preview
  BY <1>1, <1>5 DEF MatchesPreview, Fingerprint, Previews
<1> QED BY <1>1, <1>2, <1>3, <1>4, <1>6 DEF Consent!Redeem

\* A signature in a swap is permitted by the swap, and ends the app.
LEMMA SwapSigns == Inv /\ swap_finalize(TRUE) => Consent!SignSwap
<1> SUFFICES ASSUME Inv, swap_finalize(TRUE) PROVE Consent!SignSwap
  OBVIOUS
<1>1. /\ dispatching /\ mode = "swap"
      /\ SwapPermits(cmd.message, Context, descriptors, swap)
      /\ response' = Signature
      /\ preview' = NoPreview /\ swap' = NoSwap /\ screen' = "off"
  BY DEF swap_finalize, SignInSwap, ReplySignature, Reply, ExitApp, ShowScreen,
     clear_preview_state
<1>2. asked = {} /\ signed = {}
  BY <1>1, NothingPending DEF Inv, AnsweredOnce
<1>3. asked' = {} /\ signed' = {[path |-> cmd.path, message |-> cmd.message]}
  BY <1>1 DEF asked, signed, Signature, ReviewScreens
<1>4. swap # NoSwap
  BY <1>1 DEF Inv, LifeCycle
<1>5. MandatePermits(cmd.message, evidence, swap)
  BY <1>1 DEF MandatePermits, evidence
<1> QED BY <1>1, <1>2, <1>3, <1>4, <1>5 DEF Consent!SignSwap

\* The handlers that sign or ask to.
LEMMA SignHandlerConsent == Inv /\ SignHandler => Consent!Next
<1> SUFFICES ASSUME Inv, SignHandler PROVE Consent!Next
  OBVIOUS
<1>1. response = NoResponse \/ ~dispatching
  BY DEF Inv, AnsweredOnce
<1>2. dispatching => screen \notin ReviewScreens
  BY DEF Inv, AnsweredOnce, PendingScreens
<1>3. CASE \/ PreviewInSwap \/ RefuseHeader \/ RefuseBlindMessage
           \/ RefuseSummaryInSwap \/ DelayedWithoutPreview \/ DelayedMismatch
           \/ DelayedSign(FALSE)
  <2>1. /\ dispatching /\ preview' = NoPreview /\ swap' = swap
        /\ screen' \in {screen, "blindError", "status"}
        /\ response' = Answer("error")
    BY <1>3 DEF PreviewInSwap, RefuseHeader, RefuseBlindMessage,
       RefuseSummaryInSwap, DelayedWithoutPreview, DelayedMismatch, DelayedSign,
       SignFromDashboard, HandlingSign, Handling, clear_preview_state,
       SameScreen, ShowScreen, ReplySignature, ReplyError, Reply, session
  <2>2. screen' \notin ReviewScreens /\ response'.kind # "signature"
    BY <1>2, <2>1 DEF ReviewScreens, Answer
  <2> QED BY <2>1, <2>2, HandlerWithdraws DEF Consent!Next
<1>4. CASE ReviewMessage \/ ReviewBlindMessage \/ SignOffchainMessage
  <2>1. /\ dispatching /\ preview' = NoPreview /\ swap' = swap
        /\ \/ /\ screen' \in {screen, "blindError"}
              /\ response' = Answer("error")
           \/ /\ screen' \in ReviewScreens
              /\ UNCHANGED response
    BY <1>4 DEF ReviewMessage, ReviewBlindMessage, SignOffchainMessage,
       handle_sign_message_ui, SignFromDashboard, HandlingSign, Handling,
       clear_preview_state, SameScreen, ShowScreen, ReplyError, Reply, NoReply,
       session, ReviewScreens
  <2>2. CASE screen' \in ReviewScreens /\ UNCHANGED response
    BY <2>1, <2>2, HandlerAsks DEF Consent!Next
  <2>3. CASE screen' \in {screen, "blindError"} /\ response' = Answer("error")
    <3>1. screen' \notin ReviewScreens /\ response'.kind # "signature"
      BY <1>2, <2>1, <2>3 DEF ReviewScreens, Answer
    <3> QED BY <2>1, <3>1, HandlerWithdraws DEF Consent!Next
  <2> QED BY <2>1, <2>2, <2>3
<1>5. CASE RefuseInSwap \/ swap_finalize(FALSE)
  <2>1. ExitApp /\ signed' = {}
    BY <1>5 DEF RefuseInSwap, swap_finalize, ReplySignature, ReplyError, Reply,
       Answer, signed
  <2> QED BY <2>1, ExitEnds DEF Consent!Next
<1>6. CASE DelayedSign(TRUE)
  BY <1>6, DelayedRedeems DEF Consent!Next
<1>7. CASE swap_finalize(TRUE)
  BY <1>7, SwapSigns DEF Consent!Next
<1> QED BY <1>3, <1>4, <1>5, <1>6, <1>7 DEF SignHandler

\* What the user decides about the review on the screen: the signature is of
\* the summary displayed, because the command still is.
LEMMA UserConsent == Inv /\ UserDecision => Consent!Next
<1> SUFFICES ASSUME Inv, UserDecision PROVE Consent!Next
  OBVIOUS
<1>1. screen \in PendingScreens => signed = {}
  BY NothingPending DEF Inv, AnsweredOnce
<1>2. screen # "spinner" => preview = NoPreview
  BY DEF Inv, PreviewUnderSpinner
<1>3. screen \in ReviewScreens =>
        asked = {[path |-> cmd.path, message |-> cmd.message,
                  preview |-> cmd.preview]}
  BY DEF asked, Inv, SummaryStillTrue
<1>4. CASE ContinuePastWarning
  <2>1. /\ screen = "warning" /\ screen' = "review"
        /\ UNCHANGED <<preview, swap, summary, cmd, response>>
    BY <1>4 DEF ContinuePastWarning, ShowScreen, session
  <2>2. asked' = asked /\ signed' = signed
    BY <2>1 DEF asked, signed, ReviewScreens
  <2> QED BY <2>1, <2>2, NothingHeard DEF Consent!Next
<1>5. CASE Reject \/ Approve(FALSE)
  <2>1. /\ screen \in ReviewScreens /\ screen' = "status"
        /\ UNCHANGED <<preview, swap>>
        /\ response' = Answer("error")
    BY <1>5 DEF Reject, Approve, Choose, ReplySignature, ReplyError, Reply,
       ShowScreen, session, ReviewScreens
  <2>2. asked # {} /\ asked' = {} /\ signed' = {}
    BY <1>3, <2>1 DEF asked, signed, ReviewScreens, Answer
  <2>3. signed = {} /\ preview = NoPreview
    BY <1>1, <1>2, <2>1 DEF PendingScreens, ReviewScreens
  <2> QED BY <2>1, <2>2, <2>3 DEF Consent!Decline, Consent!Next
<1>6. CASE Approve(TRUE)
  <2>1. /\ screen \in ReviewScreens /\ screen' = "status" /\ ~cmd.preview
        /\ UNCHANGED <<preview, swap>>
        /\ response' = Signature
    BY <1>6 DEF Approve, Choose, ReplySignature, Reply, ShowScreen, session,
       ReviewScreens
  <2>2. /\ asked' = {}
        /\ signed' = {[path |-> cmd.path, message |-> cmd.message]}
    BY <2>1 DEF asked, signed, ReviewScreens, Signature
  <2>3. PICK r \in asked : r = [path |-> cmd.path, message |-> cmd.message,
                                preview |-> cmd.preview]
    BY <1>3, <2>1
  <2> QED BY <2>1, <2>2, <2>3 DEF Consent!Agree, Consent!Next
<1>7. CASE \E allocated \in BOOLEAN : ApprovePreview(allocated)
  <2>1. /\ screen \in {"review", "blindReview"} /\ cmd.preview
        /\ swap' = swap
        /\ \/ /\ preview' = Fingerprint(cmd.path, cmd.message)
              /\ response' = Answer("ok") /\ screen' = "spinner"
           \/ /\ preview' = NoPreview
              /\ response' = Answer("error") /\ screen' = "status"
    BY <1>7 DEF ApprovePreview, Choose, ReplyOk, ReplyError, Reply, ShowScreen,
       clear_preview_state, session
  <2>2. screen \in ReviewScreens /\ screen' \notin ReviewScreens
    BY <2>1 DEF ReviewScreens
  <2>8. asked # {} /\ signed = {}
    BY <1>1, <1>3, <2>2 DEF PendingScreens
  <2>9. asked' = {} /\ signed' = {}
    BY <2>1, <2>2 DEF asked, signed, Answer
  <2>3. swap = NoSwap
    BY <2>1 DEF Inv, GuardsUnreachable, LifeCycle, ReviewScreens
  <2>4. PICK r \in asked : r = [path |-> cmd.path, message |-> cmd.message,
                                preview |-> cmd.preview]
    BY <1>3, <2>1 DEF ReviewScreens
  <2>5. CASE preview' = Fingerprint(cmd.path, cmd.message)
    BY <2>1, <2>8, <2>9, <2>3, <2>4, <2>5
       DEF Consent!AgreeToPreview, Consent!Next
  <2>6. CASE preview' = NoPreview
    BY <2>1, <2>8, <2>9, <2>6 DEF Consent!Decline, Consent!Next
  <2> QED BY <2>1, <2>5, <2>6
<1>8. CASE \E confirm \in BOOLEAN : ConfirmAddress(confirm)
  <2>1. /\ screen = "address" /\ screen' = "status"
        /\ UNCHANGED <<preview, swap>>
        /\ response' \in {Answer("ok"), Answer("error")}
    BY <1>8 DEF ConfirmAddress, ReplyOk, ReplyError, Reply, ShowScreen, session
  <2>2. asked' = {} /\ asked = {} /\ signed' = {} /\ signed = {}
    BY <1>1, <2>1 DEF asked, signed, ReviewScreens, PendingScreens, Answer
  <2> QED BY <2>1, <2>2, NothingHeard DEF Consent!Next
<1> QED BY <1>4, <1>5, <1>6, <1>7, <1>8 DEF UserDecision

\* The menu, the start and the end of the app.
LEMMA SessionConsent ==
  Inv /\ (UserElse \/ StartApp \/ PowerOff) => Consent!Next
<1> SUFFICES ASSUME Inv, UserElse \/ StartApp \/ PowerOff PROVE Consent!Next
  OBVIOUS
<1>1. CASE BackHome \/ \E s \in Settings : Toggle(s)
  <2>1. /\ screen \notin ReviewScreens /\ screen' \notin ReviewScreens
        /\ UNCHANGED <<preview, swap, response>>
    BY <1>1 DEF BackHome, Toggle, ui_idle, session, ReviewScreens
  <2>2. asked' = asked /\ signed' = signed
    BY <2>1 DEF asked, signed
  <2> QED BY <2>1, <2>2, NothingHeard DEF Consent!Next
<1>2. CASE Quit
  <2>1. ExitApp /\ signed' = signed
    BY <1>2 DEF Quit, signed
  <2> QED BY <2>1, ExitEnds DEF Consent!Next
<1>3. CASE PowerOff
  <2>1. ExitApp /\ signed' = {}
    BY <1>3 DEF PowerOff, signed, NoResponse, Answer
  <2> QED BY <2>1, ExitEnds DEF Consent!Next
<1>4. CASE StartApp
  <2>1. /\ mode = "off" /\ response = NoResponse
        /\ UNCHANGED <<response, preview>>
        /\ screen' \in {"home", "none"}
        /\ \/ swap' = NoSwap
           \/ \E s \in Swaps : swap' = s
    BY <1>4 DEF StartApp, StartFromDashboard, StartFromExchange, Start, ui_idle,
       ShowScreen
  <2>2. swap = NoSwap /\ screen = "off"
    BY <2>1 DEF Inv, LifeCycle, TypeOK, ControlTypes
  <2>3. asked = {} /\ asked' = {} /\ signed' = signed
    BY <2>1, <2>2 DEF asked, signed, ReviewScreens
  <2>4. preview = NoPreview
    BY <2>2 DEF Inv, PreviewUnderSpinner
  <2>5. CASE swap' = NoSwap
    BY <2>1, <2>2, <2>3, <2>5, NothingHeard DEF Consent!Next
  <2>6. CASE \E s \in Swaps : swap' = s
    BY <2>1, <2>2, <2>3, <2>4, <2>6, AppAssumption
       DEF Consent!StartSwap, Consent!Next
  <2> QED BY <2>1, <2>5, <2>6
<1> QED BY <1>1, <1>2, <1>3, <1>4 DEF UserElse

\* Every step maps to a step of the consent specification, or to a stutter.
LEMMA ConsentStep == Inv /\ [Next]_vars => [Consent!Next]_(Consent!vars)
<1> SUFFICES ASSUME Inv, [Next]_vars PROVE [Consent!Next]_(Consent!vars)
  OBVIOUS
<1>1. CASE Next
  <2>1. Receive \/ HostRead => Consent!Next
    BY ReceiveConsent
  <2>2. SignHandler => Consent!Next
    BY SignHandlerConsent
  <2>3. UserDecision => Consent!Next
    BY UserConsent
  <2>4. UserElse \/ StartApp \/ PowerOff => Consent!Next
    BY SessionConsent
  <2>5. Handler /\ ~SignHandler => Consent!Next
    BY OtherHandlerConsent DEF Handler
  <2> QED BY <1>1, <2>1, <2>2, <2>3, <2>4, <2>5 DEF Next, Handler
<1>2. CASE UNCHANGED vars
  BY <1>2 DEF vars, Consent!vars, asked, signed, evidence, Context
<1> QED BY <1>1, <1>2

\* The app starts with nothing displayed, granted, mandated or signed.
LEMMA ConsentInit == Init => Consent!Init
BY DEF Init, Consent!Init, asked, signed, ReviewScreens, NoResponse, Answer

\* Every signature the app makes is one the user consented to: displayed and
\* approved, redeemed once from an approved preview, or permitted by the swap
\* whose app ends with it.  The command G_command holds when the signature is
\* made is the one the summary was displayed for.
THEOREM SignaturesHaveConsent == Spec => SignsOnlyWithConsent
<1>1. Spec => []Inv
  BY Invariance
<1> QED BY <1>1, ConsentInit, ConsentStep, PTL
        DEF Spec, SignsOnlyWithConsent, Consent!Spec

===============================================================================
