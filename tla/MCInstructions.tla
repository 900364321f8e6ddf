---------------------------- MODULE MCInstructions ----------------------------
(***************************************************************************)
(* Instructions to decode: every layout with distinct accounts and fields, *)
(* the ways the accounts of token instructions say who signs, as the       *)
(* documentation of the token programs has them (libsol/include/spl/       *)
(* token.h), and results of tasks.                                         *)
(***************************************************************************)
EXTENDS InstructionDecoders

\* Keys 0 and 1 sign the message.  The programs come last.
PlainKeys == [n \in 1..22 |-> <<8, n>>]
Programs ==
  <<"System", "Stake", "Vote", "SplToken", "SplToken2022", "SplAssociatedTokenAccount",
    "ComputeBudget", "AgencArtifact", "AgencMainnetPreset", "SplMemo", "SerumAssertOwner">>
MCProgramKeys ==
  [name \in ToSet(Programs) |-> <<9, CHOOSE n \in DOMAIN Programs : Programs[n] = name>>]
IndexOf(name) == Len(PlainKeys) - 1 + MCProgramKeys[name][2]

MCAlphabet == [n \in 1..26 |-> 64 + n] \o [n \in 1..26 |-> 96 + n]
                \o [n \in 1..10 |-> 47 + n] \o <<45, 95>>
MCArtifactPrefix == <<58>>

Header ==
  [counts |-> [num_required_signatures |-> 2,
               pubkeys_length |-> Len(PlainKeys) + Len(Programs)],
   pubkeys |-> PlainKeys \o [n \in DOMAIN Programs |-> <<9, n>>]]

InstructionOf(program, accounts, data) ==
  [program_id_index |-> IF program = "Unknown" THEN 3 ELSE IndexOf(program),
   accounts |-> accounts, data |-> data]

-------------------------------------------------------------------------------
(* Every layout.  The encodings are those of bincode and borsh. *)

Tag(size, kind) == [n \in 1..size |-> IF n = 1 THEN kind ELSE 0]

\* The bytes of the n-th field.
Sample(type, n) ==
  CASE type = "authorize" -> <<1, 0, 0, 0>>
    [] type = "authority_type" -> <<3>>
    [] type = "required" -> <<2>>
    [] type = "description" -> [k \in 1..(2 * HashSize) |-> IF k > HashSize THEN 0 ELSE n + k]
    [] type \in {"sized_string", "borsh_string"} -> [k \in 1..n |-> 60 + k]
    [] OTHER -> [k \in 1..SizeOf[type] |-> 16 * n + k]
EncodedField(type, bytes) ==
  CASE type = "sized_string" -> Tag(8, Len(bytes)) \o bytes
    [] type = "borsh_string" -> Tag(4, Len(bytes)) \o bytes
    [] OTHER -> bytes
EncodedOptional(f, n, present) ==
  IF ~ f.optional THEN EncodedField(f.type, Sample(f.type, n))
  ELSE IF f.name \in present THEN <<1>> \o EncodedField(f.type, Sample(f.type, n)) ELSE <<0>>
EncodedData(layout, present) ==
  FlattenSeq([n \in DOMAIN layout.data |-> EncodedOptional(layout.data[n], n, present)])
ValueOfField(layout, name, present) ==
  LET n == CHOOSE n \in DOMAIN layout.data : layout.data[n].name = name
      f == layout.data[n]
  IN IF ~ f.optional THEN Sample(f.type, n)
     ELSE IF name \in present THEN <<Sample(f.type, n)>> ELSE <<>>
FieldValues(layout, present) ==
  [name \in {layout.data[n].name : n \in DOMAIN layout.data} |->
     ValueOfField(layout, name, present)]

DistinctAccounts(roles) ==
  [n \in DOMAIN roles |-> IF roles[n] = "system_program" THEN IndexOf("System") ELSE n - 1]

Entries(program, size, layouts) ==
  {[program |-> program, tag |-> Tag(size, kind), layout |-> layouts[kind], owners |-> <<>>] :
     kind \in DOMAIN layouts}
AgencPrograms == {"AgencArtifact", "AgencMainnetPreset"}
NewFormat == 4
OldFormat == 4 + KeySize
AllEntries ==
  Entries("System", 4, SystemLayouts) \union Entries("Stake", 4, StakeLayouts)
    \union Entries("Vote", 4, VoteLayouts(NewFormat))
    \union Entries("Vote", 4, VoteLayouts(OldFormat))
    \union Entries("ComputeBudget", 1, ComputeBudgetLayouts)
    \union {[program |-> "SplAssociatedTokenAccount", tag |-> tag,
             layout |-> CreateAssociated, owners |-> <<>>] : tag \in {<<>>, <<0>>, <<1>>}}
    \union UNION {Entries(program, 1, AgencLayouts) : program \in AgencPrograms}
    \union {[e EXCEPT !.owners = IF e.tag[1] \in Unsigned THEN <<>> ELSE <<0>>] :
              e \in UNION {Entries(program, 1, SplTokenLayouts) :
                             program \in {"SplToken", "SplToken2022"}}}

OptionalFields(layout) ==
  {layout.data[n].name : n \in {n \in DOMAIN layout.data : layout.data[n].optional}}
Roles(e, whole) == e.layout.accounts \o (IF whole THEN e.layout.trailing ELSE <<>>)
SentInstruction(e, present, whole) ==
  InstructionOf(e.program, DistinctAccounts(Roles(e, whole)) \o e.owners,
                e.tag \o EncodedData(e.layout, present))

LayoutCalls ==
  UNION {[f : {"parse_layout"}, e : {e}, present : SUBSET OptionalFields(e.layout),
          whole : BOOLEAN] : e \in AllEntries}

\* Data that has to end where the layout ends.
ExactData(e) ==
  \/ e.program \in AgencPrograms \union {"SplAssociatedTokenAccount"}
  \/ e.program = "Vote" /\ e.tag[1] = 4

\* What is refused of an AgenC instruction: accounts more or less, another system
\* program, words behind the digest of a description.
Spoiled(i) ==
  {[i EXCEPT !.accounts = Append(@, 7)], [i EXCEPT !.accounts = Front(@)]}
    \union {[i EXCEPT !.accounts[n] = 7] :
              n \in {n \in DOMAIN i.accounts : i.accounts[n] = IndexOf("System")}}
    \union (IF i.data[1] # 2 THEN {}
            ELSE {[i EXCEPT !.data[1 + HashSize + 8 + n] = 1] :
                    n \in (HashSize + 1)..(2 * HashSize)})

-------------------------------------------------------------------------------
(* Who signs. *)

\* The accounts before the owner of a documented instruction (token.h).
DocumentedAccounts ==
  5 :> 1 @@ 6 :> 1 @@ 9 :> 2 @@ 10 :> 2 @@ 11 :> 2 @@ 12 :> 3 @@ 13 :> 3 @@ 14 :> 2
    @@ 15 :> 2 @@ 26 :> 3
TokenData(kind) ==
  CASE kind = 6 -> <<6, 0, 0>>
    [] kind = 26 -> <<26, 1>> \o EncodedData(TransferCheckedWithFee, {})
    [] kind \in {12, 13, 14, 15} -> <<kind>> \o EncodedData(TransferChecked, {})
    [] OTHER -> <<kind>>

\* The owner is a signer, or a multisig with signers behind it; only transfers of
\* Token-2022 have accounts of a hook behind that.
Owner == 0
Multisig == 5
HookAccount == 6
SignerCalls ==
  {c \in [f : {"parse_signers"}, kind : DOMAIN DocumentedAccounts, is2022 : BOOLEAN,
          signers : (0..12) \union {200, 257}, hook : 0..2] :
     /\ c.hook > 0 \/ c.kind = 26 => c.is2022
     /\ c.hook > 0 => c.kind \in {12, 26}}
DocumentedInstruction(c) ==
  InstructionOf(IF c.is2022 THEN "SplToken2022" ELSE "SplToken",
                [n \in 1..DocumentedAccounts[c.kind] |-> 9 + n]
                  \o (IF c.signers = 0 THEN <<Owner>>
                      ELSE <<Multisig>> \o [n \in 1..c.signers |-> n % 2])
                  \o [n \in 1..c.hook |-> HookAccount],
                TokenData(c.kind))

-------------------------------------------------------------------------------
(* Results of tasks, every one of five bytes. *)

ResultBytes == {0, 58, 65, 66, 95, 43}
ArtifactCalls == [f : {"decode_artifact_result_hash"}, result : [1..ResultSize -> ResultBytes]]
Submission(result) ==
  InstructionOf("AgencArtifact", DistinctAccounts(SubmitTaskResult.accounts),
                <<6>> \o [n \in 1..HashSize |-> n] \o <<1>> \o result)

\* The encoding of a hash of two bytes.
Base64(hash) ==
  LET bits == 4 * (256 * hash[1] + hash[2])
  IN <<MCAlphabet[(bits \div 4096) + 1], MCAlphabet[((bits \div 64) % 64) + 1],
       MCAlphabet[(bits % 64) + 1]>>
IsArtifact(result) ==
  /\ result[1] = 58 /\ result[5] = 0
  /\ \A n \in 2..4 : result[n] \in ToSet(MCAlphabet)
  /\ (CHOOSE n \in DOMAIN MCAlphabet : MCAlphabet[n] = result[4]) % 4 = 1

===============================================================================
