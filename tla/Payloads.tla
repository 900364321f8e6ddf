------------------------------- MODULE Payloads -------------------------------
(***************************************************************************)
(* What the parsers of the app say of a payload.  A payload is a sequence  *)
(* of units: a unit stands for the smallest run of bytes the properties    *)
(* need to tell apart (the body of a transaction, its blockhash, a signed  *)
(* TLV block).  The state machines of the app only branch on the verdicts  *)
(* below, so they are parameters here; a model gives them a definition.    *)
(***************************************************************************)
EXTENDS Naturals, Sequences

CONSTANTS
  Units,                    \* the units a payload is made of
  MaxMessageLength,         \* MAX_MESSAGE_LENGTH, in units
  ZeroHash,                 \* the unit that stands for an all-zero blockhash
  Paths,                    \* derivation paths read_derivation_path accepts
  NoPath,                   \* no path, or one read_derivation_path refuses
  Infos,                    \* trusted names and tokens that can be vouched for
  NoInfo,                   \* no trusted info / no dynamic token info
  Descriptors               \* instruction descriptors

CONSTANTS
  HeaderParses(_),          \* parse_message_header accepts the message
  BlockhashAt(_),           \* where its blockhash is
  IsSigner(_, _),           \* scan_header_for_signer: path, message
  BodyProcessed(_, _),      \* process_message_body: message, context
  SummaryFinalizes(_, _),   \* transaction_summary_finalize: message, context
  TokenWarning(_, _),       \* a fee or hook warning is raised for it
  OffchainValid(_, _),      \* the checks of handle_sign_offchain_message
  IsAscii(_),               \* is_data_ascii of an offchain message
  TrustedNameValid(_),      \* a correctly signed trusted name TLV
  TrustedNameChallenge(_),  \* the challenge it answers
  TrustedNameInfo(_),       \* the owner / token / mint it vouches for
  DynamicTokenValid(_),     \* a correctly signed dynamic token TLV
  DynamicTokenInfo(_),      \* the mint / ticker it vouches for
  DescriptorValid(_, _),    \* a signed descriptor of the swap's template
  DescriptorOf(_),          \* the instruction descriptor it carries
  SameSeries(_, _),         \* two descriptors of one chain and template
  DescriptorsAccept(_, _, _), \* process_message_body_with_descriptor
  SwapAccepts(_, _, _)      \* check_swap_validity: message, context, swap

\* What the command buffer can hold: one byte is left for a final zero.
Messages == UNION {[1..n -> Units] : n \in 0..(MaxMessageLength - 1)}

ASSUME PayloadAssumption ==
  /\ MaxMessageLength \in Nat \ {0}
  /\ NoPath \notin Paths
  /\ ZeroHash \notin Units
  /\ NoInfo \notin Infos
  /\ \A m \in Messages :
       /\ TrustedNameInfo(m) \in Infos
       /\ DynamicTokenInfo(m) \in Infos
       /\ DescriptorOf(m) \in Descriptors

(***************************************************************************)
(* The message with its blockhash region read as zeros.  The code keeps    *)
(* the SHA-512 of it, which stands for it one to one.                      *)
(***************************************************************************)
ZeroedBlockhash(m) ==
  [i \in DOMAIN m |-> IF i = BlockhashAt(m) THEN ZeroHash ELSE m[i]]
===============================================================================
