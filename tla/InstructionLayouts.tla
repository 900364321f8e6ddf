-------------------------- MODULE InstructionLayouts --------------------------
(***************************************************************************)
(* What one parser of an instruction reads (libsol/instruction.c and the   *)
(* parse_*_instructions of libsol/).  An instruction is what               *)
(* parse_instruction returns.                                              *)
(*                                                                         *)
(* A layout names, as the code does, the accounts in their order, "" where *)
(* one is skipped, those that may be missing, and the fields of the data.  *)
(* The info has been zeroed, so an account that is missing is NULL: it is  *)
(* not among the accounts read.                                            *)
(***************************************************************************)
EXTENDS Parser, SequencesExt

CONSTANTS
  ResultSize,   \* AGENC_RESULT_DATA_SIZE
  MaxSigners    \* Token_MAX_SIGNERS

-------------------------------------------------------------------------------
(* Fields. *)

Field(name, type) == [name |-> name, type |-> type, optional |-> FALSE]
Optional(name, type) == [name |-> name, type |-> type, optional |-> TRUE]

SizeOf ==
  [u8 |-> 1, u16 |-> 2, u32 |-> 4, u64 |-> 8, key |-> KeySize, hash |-> HashSize,
   authorize |-> 4, authority_type |-> 1, required |-> 1,
   description |-> 2 * HashSize, result |-> ResultSize]

\* parse_stake_authorize, parse_vote_authorize: one of two authorities.
IsAuthorize(bytes) == bytes \in {<<0, 0, 0, 0>>, <<1, 0, 0, 0>>}

\* parse_token_authority_type.
IsAuthorityType(bytes) == bytes[1] \in 0..3

\* What is tested of a field when it has been read.
Legal(type, bytes) ==
  /\ type = "authorize" => IsAuthorize(bytes)
  /\ type = "authority_type" => IsAuthorityType(bytes)
  /\ type = "required" => bytes[1] <= MaxSigners
  \* The digest of a description is followed by zeros only.
  /\ type = "description" => \A n \in (HashSize + 1)..(2 * HashSize) : bytes[n] = 0

\* parse_borsh_string: bytes behind four bytes of length.
ParseBorshString(buffer) ==
  Then(Take(4, buffer), LAMBDA size, rest : Take(Little(size), rest))

\* The value of a field is its bytes.
ParseType(type, buffer) ==
  IF type = "sized_string" THEN ParseSizedString(buffer)
  ELSE IF type = "borsh_string" THEN ParseBorshString(buffer)
  ELSE Then(Take(SizeOf[type], buffer), LAMBDA bytes, rest :
         IF Legal(type, bytes) THEN Parsed(bytes, rest) ELSE Failed)

\* That of an optional one is in a sequence of its own.
ParseField(field, buffer) ==
  IF ~ field.optional THEN ParseType(field.type, buffer)
  ELSE Then(ParseOption(buffer), LAMBDA option, r :
         IF option = 0 THEN Parsed(<<>>, r)
         ELSE Then(ParseType(field.type, r), LAMBDA bytes, rest :
                Parsed(<<bytes>>, rest)))

NoFields == [name \in {} |-> <<>>]
ParseFields(fields, buffer) ==
  FoldLeft(LAMBDA p, field :
             IF ~ p.ok THEN Failed
             ELSE Then(ParseField(field, p.rest), LAMBDA value, rest :
                    Parsed(p.value @@ (field.name :> value), rest)),
           Parsed(NoFields, buffer), fields)

-------------------------------------------------------------------------------
(* Layouts. *)

Layout(accounts, data) == [accounts |-> accounts, trailing |-> <<>>, data |-> data]
Trailing(layout, roles) == [layout EXCEPT !.trailing = roles]

\* What an iterator visits: it counts the accounts in a byte.
Iterated(accounts) == SubSeq(accounts, 1, Len(accounts) % 256)

\* The calls of instruction_accounts_iterator_next, and what is left to iterate.
ReadAccounts(layout, indices) ==
  LET accounts == Iterated(indices)
      roles == layout.accounts \o layout.trailing
      last == IF Len(accounts) < Len(roles) THEN Len(accounts) ELSE Len(roles)
      read == {n \in 1..last : roles[n] # ""}
  IN IF Len(accounts) < Len(layout.accounts) THEN Failed
     ELSE Parsed([role \in {roles[n] : n \in read} |->
                    accounts[CHOOSE n \in read : roles[n] = role]],
                 SubSeq(accounts, last + 1, Len(accounts)))

\* What a parser returns: kind, accounts and data, and whether the instruction
\* is not displayed.
Info(kind, accounts, data) ==
  [kind |-> kind, accounts |-> accounts, data |-> data, sign |-> "none", more |-> <<>>,
   ignored |-> FALSE, warning |-> FALSE]

ParseLayout(kind, layout, i, buffer) ==
  Then(ReadAccounts(layout, i.accounts), LAMBDA accounts, more :
    Then(ParseFields(layout.data, buffer), LAMBDA data, rest :
      Parsed([Info(kind, accounts, data) EXCEPT !.more = more], rest)))

\* parse_*_instruction_kind and the switch behind it.
ParseKind(size, layouts, i) ==
  Then(ParseNumber(size, i.data), LAMBDA kind, rest :
    IF kind \in DOMAIN layouts THEN ParseLayout(kind, layouts[kind], i, rest) ELSE Failed)

===============================================================================
