------------------------- MODULE InstructionDecoders --------------------------
(***************************************************************************)
(* From an instruction and the header of its message to the info that is   *)
(* printed: the AgenC program (libsol/agenc_instruction.c), and the choice *)
(* of the decoder by the program (libsol/instruction.c, libsol/message.c). *)
(*                                                                         *)
(* A discriminator has one byte instead of eight: the number of its kind   *)
(* in the order of parse_agenc_instructions.                               *)
(***************************************************************************)
EXTENDS SolanaDecoders

CONSTANTS
  ProgramKeys,     \* the ids of the programs, by name
  ArtifactPrefix,  \* AGENC_ARTIFACT_RESULT_PREFIX
  Alphabet         \* of base64url

-------------------------------------------------------------------------------
(* The hash of an artifact in the data of a result. *)

\* AGENC_ARTIFACT_RESULT_B64_SIZE: a character for every six bits.
B64Size == (8 * HashSize + 5) \div 6

\* base64url_value of a character of the alphabet.
Base64Value(c) == (CHOOSE n \in DOMAIN Alphabet : Alphabet[n] = c) - 1

\* The accumulator takes six bits of a character and gives eight to the output.
DecodeBase64(text) ==
  FoldLeft(LAMBDA s, c :
             LET bits == s.bits + 6
                 value == 64 * s.accumulator + Base64Value(c)
             IN IF bits < 8 THEN [s EXCEPT !.bits = bits, !.accumulator = value]
                ELSE [bits |-> bits - 8, accumulator |-> value % 2^(bits - 8),
                      output |-> Append(s.output, value \div 2^(bits - 8))],
           [bits |-> 0, accumulator |-> 0, output |-> <<>>], text)

\* The text of a result ends at its first zero.
ResultText(result) ==
  LET zeros == {n \in DOMAIN result : result[n] = 0}
  IN IF zeros = {} THEN result ELSE SubSeq(result, 1, Min(zeros) - 1)

\* decode_artifact_result_hash: none or one hash.
DecodeArtifactResultHash(result) ==
  LET text == ResultText(result)
      encoded == SubSeq(text, Len(ArtifactPrefix) + 1, Len(text))
      decoded == DecodeBase64(encoded)
  IN IF /\ IsPrefix(ArtifactPrefix, result)
        /\ Len(encoded) = B64Size
        /\ ToSet(encoded) \subseteq ToSet(Alphabet)
        /\ Len(decoded.output) = HashSize /\ decoded.accumulator = 0
     THEN <<decoded.output>> ELSE <<>>

-------------------------------------------------------------------------------
(* The AgenC program.  The number of accounts is exact. *)

\* Accounts that are not read.
Unread(n) == [k \in 1..n |-> ""]

RegisterAgent ==
  Layout(<<"agent", "protocol_config", "authority", "system_program">>,
         <<Field("agent_id", "hash"), Field("capabilities", "u64"),
           Field("endpoint", "borsh_string"), Optional("metadata_uri", "borsh_string"),
           Field("stake_amount", "u64")>>)
CreateTask ==
  Layout(<<"task", "escrow", "protocol_config", "creator_agent", "authority_rate_limit",
           "authority", "creator", "system_program">> \o Unread(5),
         <<Field("task_id", "hash"), Field("required_capabilities", "u64"),
           Field("description", "description"), Field("reward_amount", "u64"),
           Field("max_workers", "u8"), Field("deadline", "u64"), Field("task_type", "u8"),
           Optional("constraint_hash", "hash"), Field("min_reputation", "u16"),
           Optional("reward_mint", "key")>>)
ConfigureTaskValidation ==
  Layout(<<"task", "task_validation_config", "task_attestor_config", "protocol_config",
           "hire_record", "creator", "system_program">>,
         <<Field("mode", "u8"), Field("review_window_secs", "u64"),
           Field("validator_quorum", "u8"), Optional("attestor", "key")>>)
SetTaskJobSpec ==
  Layout(<<"protocol_config", "task", "moderation_config", "task_moderation",
           "moderation_attestor", "moderation_block", "task_job_spec", "creator",
           "system_program">>,
         <<Field("job_spec_hash", "hash"), Field("job_spec_uri", "borsh_string")>>)
ClaimTaskWithJobSpec ==
  Layout(<<"task", "task_job_spec", "hire_record", "legacy_listing", "moderation_block",
           "claim", "protocol_config", "worker", "authority", "system_program">>, <<>>)
SubmitTaskResult ==
  Layout(<<"task", "claim", "task_validation_config", "task_submission",
           "protocol_config", "worker", "authority", "system_program">>,
         <<Field("proof_hash", "hash"), Optional("result_data", "result")>>)
AcceptTaskResult ==
  Layout(<<"task", "claim", "escrow", "task_validation_config", "task_submission",
           "worker", "protocol_config", "treasury", "creator", "worker_authority",
           "hire_record", "operator", "referrer", "creator_completion_bond",
           "worker_completion_bond">> \o Unread(5) \o <<"system_program">>, <<>>)
RejectTaskResult ==
  Layout(<<"task", "claim", "task_validation_config", "task_submission", "worker",
           "protocol_config", "creator", "worker_authority", "agent_stats",
           "system_program", "worker_completion_bond">>,
         <<Field("rejection_hash", "hash")>>)
\* With the three accounts of a worker or without them.
CancelTask ==
  Trailing(Layout(<<"task", "escrow", "authority", "protocol_config", "system_program">>
                    \o Unread(10), <<>>),
           Unread(3))
ExpireClaim ==
  Layout(<<"authority", "task", "escrow", "claim", "worker", "protocol_config",
           "task_validation_config", "task_submission", "rent_recipient",
           "worker_completion_bond", "bond_creator", "agent_stats", "treasury",
           "system_program">>, <<>>)

AgencLayouts ==
  <<RegisterAgent, CreateTask, ConfigureTaskValidation, SetTaskJobSpec,
    ClaimTaskWithJobSpec, SubmitTaskResult, AcceptTaskResult, RejectTaskResult,
    CancelTask, ExpireClaim>>

AccountCounts(layout) ==
  {Len(layout.accounts), Len(layout.accounts) + Len(layout.trailing)}

\* parse_agenc_instructions: the data is read to its end.
ParseAgenc(i, pubkeys) ==
  Then(ParseKind(1, AgencLayouts, i), LAMBDA info, rest :
    IF /\ Len(i.accounts) \in AccountCounts(AgencLayouts[info.kind])
       /\ pubkeys[info.accounts["system_program"] + 1] = ProgramKeys.System
       /\ rest = <<>>
    THEN Parsed(info, rest) ELSE Failed)

\* The hash a submitted result displays, none or one.
ArtifactHash(info) ==
  LET result == info.data["result_data"]
  IN IF result = <<>> THEN <<>> ELSE DecodeArtifactResultHash(result[1])

-------------------------------------------------------------------------------
(* The choice of a decoder. *)

\* instruction_validate.
InstructionValid(i, header) ==
  \A n \in {i.program_id_index} \union ToSet(i.accounts) : n < header.counts.pubkeys_length

\* instruction_program_id.
ProgramId(i, header) ==
  LET key == header.pubkeys[i.program_id_index + 1]
      names == {name \in DOMAIN ProgramKeys : ProgramKeys[name] = key}
  IN IF names = {} THEN "Unknown" ELSE CHOOSE name \in names : TRUE

\* An instruction in process_message_body.  One that is not valid, of an unknown
\* program or refused by its decoder stops the message.  The loop that prints the
\* accounts is left out; where printing is compiled in it does not end for 256
\* accounts or more, and such an instruction has no outcome.
ParseInfo(i, header) ==
  LET program == ProgramId(i, header)
      required == header.counts.num_required_signatures
  IN CASE ~ InstructionValid(i, header) -> Failed
       [] program = "System" -> ParseKind(4, SystemLayouts, i)
       [] program = "Stake" -> ParseKind(4, StakeLayouts, i)
       [] program = "Vote" -> ParseKind(4, VoteLayouts(Len(i.data)), i)
       [] program = "SplToken" -> ParseSplToken(i, FALSE, required)
       [] program = "SplToken2022" -> ParseSplToken(i, TRUE, required)
       [] program = "SplAssociatedTokenAccount" -> ParseAssociated(i)
       [] program = "ComputeBudget" -> ParseKind(1, ComputeBudgetLayouts, i)
       [] program \in {"AgencArtifact", "AgencMainnetPreset"} -> ParseAgenc(i, header.pubkeys)
       [] program \in {"SplMemo", "SerumAssertOwner"} ->
            Parsed([Info(0, NoFields, NoFields) EXCEPT !.ignored = TRUE], i.data)
       [] OTHER -> Failed

===============================================================================
