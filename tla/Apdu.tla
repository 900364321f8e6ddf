--------------------------------- MODULE Apdu ---------------------------------
(***************************************************************************)
(* Reassembly of a command from the APDUs of the host: src/apdu.c.         *)
(*                                                                         *)
(* apdu_handle_message reads one APDU into G_command.  Every error path    *)
(* ends the same way (the caller clears G_command and replies the error    *)
(* code), so error codes are one verdict here.                             *)
(***************************************************************************)
EXTENDS Payloads

CONSTANT Apdus  \* the APDUs the host may send

DeprecatedInstructions ==
  {"DeprecatedGetAppConfiguration", "DeprecatedGetPubkey",
   "DeprecatedSignMessage"}

ModernInstructions ==
  {"GetAppConfiguration", "GetPubkey", "SignMessage", "SignOffchainMessage",
   "SignMessagePreview", "SignMessageDelayed", "GetChallenge", "ProvideInfo",
   "ProvideDynamicDescriptor", "ProvideInstructionDescriptor"}

Instructions == DeprecatedInstructions \union ModernInstructions

(***************************************************************************)
(* wellFormed is FALSE for every APDU that parse_apdu_header refuses and   *)
(* for a deprecated sign chunk whose u16 length prefix is wrong.           *)
(***************************************************************************)
ApduHeader ==
  [ins : Instructions, wellFormed : BOOLEAN, nonConfirm : BOOLEAN,
   extend : BOOLEAN, more : BOOLEAN, ata : BOOLEAN,
   path : Paths \union {NoPath}, data : Seq(Units)]

ASSUME ApduAssumption == \A a \in Apdus : a \in ApduHeader

Commands ==
  [state : {"Uninitialized", "InProgress", "Complete"},
   ins : Instructions \union {"None"}, nonConfirm : BOOLEAN,
   path : Paths \union {NoPath}, message : Messages,
   ata : BOOLEAN, preview : BOOLEAN]

ClearedCommand ==
  [state |-> "Uninitialized", ins |-> "None", nonConfirm |-> FALSE,
   path |-> NoPath, message |-> << >>, ata |-> FALSE, preview |-> FALSE]

split_allowed_for_instruction(ins) ==
  ins \in {"DeprecatedSignMessage", "SignMessage", "SignOffchainMessage",
           "SignMessagePreview", "SignMessageDelayed", "ProvideInfo",
           "ProvideDynamicDescriptor"}

instruction_with_derivation_path_in_first_apdu(ins) ==
  ins \notin {"ProvideInfo", "ProvideDynamicDescriptor",
              "ProvideInstructionDescriptor"}

instruction_without_payload(ins) ==
  ins \in {"DeprecatedGetAppConfiguration", "GetAppConfiguration",
           "GetChallenge"}

instruction_with_only_derivation_path_in_payload(ins) ==
  ins \in {"DeprecatedGetPubkey", "GetPubkey"}

\* A chunk starts a command unless it asks to extend one and may.
FirstChunk(a) == ~a.extend \/ ~split_allowed_for_instruction(a.ins)

StartedCommand(a) ==
  [ClearedCommand EXCEPT !.state = "InProgress", !.ins = a.ins,
                         !.nonConfirm = a.nonConfirm]

\* The command in progress may be extended by chunk a.
Continues(c, a) ==
  /\ c.state = "InProgress"
  /\ c.ins = a.ins
  /\ c.nonConfirm = a.nonConfirm

\* The command the data of the chunk is appended to, path included.
BaseCommand(c, a) ==
  IF ~FirstChunk(a) THEN c
  ELSE IF instruction_with_derivation_path_in_first_apdu(a.ins)
       THEN [StartedCommand(a) EXCEPT !.path = a.path]
       ELSE StartedCommand(a)

\* header.data is non-NULL: what remains after the path or the u16 prefix of
\* a deprecated sign chunk may be empty, it is still a pointer.
DataPresent(a) ==
  \/ a.data # << >>
  \/ FirstChunk(a) /\ instruction_with_derivation_path_in_first_apdu(a.ins)
  \/ a.ins = "DeprecatedSignMessage"

AppendedCommand(c, a) ==
  LET base == BaseCommand(c, a)
  IN  [base EXCEPT !.message = base.message \o a.data,
                   !.state = IF a.more THEN "InProgress" ELSE "Complete",
                   !.ata = IF a.more THEN base.ata ELSE a.ata]

\* Mutant: no room is left for the final zero.
ApduAcceptedWithoutZero(c, a) ==
  /\ a.wellFormed
  /\ \/ instruction_without_payload(a.ins)
     \/ /\ FirstChunk(a) \/ Continues(c, a)
        /\ instruction_with_derivation_path_in_first_apdu(a.ins) =>
             BaseCommand(c, a).path # NoPath
        /\ \/ DataPresent(a)
           \/ instruction_with_only_derivation_path_in_payload(a.ins)
        /\ Len(BaseCommand(c, a).message) + Len(a.data) <= MaxMessageLength

\* apdu_handle_message returns zero.
ApduAccepted(c, a) ==
  /\ a.wellFormed
  /\ \/ instruction_without_payload(a.ins)
     \/ /\ FirstChunk(a) \/ Continues(c, a)
        /\ instruction_with_derivation_path_in_first_apdu(a.ins) =>
             BaseCommand(c, a).path # NoPath
        /\ \/ DataPresent(a)
           \/ instruction_with_only_derivation_path_in_payload(a.ins)
        /\ Len(BaseCommand(c, a).message) + Len(a.data) < MaxMessageLength

\* The value of G_command after an accepted APDU.
ApduCommand(c, a) ==
  IF instruction_without_payload(a.ins)
  THEN [StartedCommand(a) EXCEPT !.state = "Complete"]
  ELSE AppendedCommand(c, a)

\* Mutant: a refused chunk leaves what was received before it.
ReceivedCommandKept(c, a) == IF ApduAccepted(c, a) THEN ApduCommand(c, a) ELSE c

\* G_command after handle_apdu has read the APDU: it clears it on an error.
ReceivedCommand(c, a) ==
  IF ApduAccepted(c, a) THEN ApduCommand(c, a) ELSE ClearedCommand
===============================================================================
