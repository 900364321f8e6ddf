-------------------------------- MODULE Parser --------------------------------
(***************************************************************************)
(* The parser of bytes (libsol/parser.c, libsol/instruction.c is built on  *)
(* it).  A buffer is a sequence of bytes.  A parser returns [ok, value,    *)
(* rest]: whether it returns 0, what it read, and what is left.            *)
(*                                                                         *)
(* Keys and hashes are shorter than in the code; their lengths are         *)
(* parameters.                                                             *)
(***************************************************************************)
EXTENDS Integers, Sequences

CONSTANTS
  KeySize,   \* PUBKEY_SIZE
  HashSize   \* HASH_SIZE

ASSUME ParserAssumption == KeySize \in Nat \ {0} /\ HashSize \in Nat \ {0}

Parsed(value, rest) == [ok |-> TRUE, value |-> value, rest |-> rest]
Failed == [ok |-> FALSE, value |-> <<>>, rest |-> <<>>]

\* BAIL_IF: what follows is parsed from the rest.
Then(p, Next1(_, _)) == IF p.ok THEN Next1(p.value, p.rest) ELSE Failed

\* check_buffer_length and advance: the next n bytes.  parse_hash is one.
Take(n, buffer) ==
  IF Len(buffer) < n THEN Failed
  ELSE Parsed(SubSeq(buffer, 1, n), SubSeq(buffer, n + 1, Len(buffer)))

\* The number that bytes are, the least significant one first.
Little(bytes) ==
  LET value[n \in 0..Len(bytes)] ==
        IF n = 0 THEN 0 ELSE value[n - 1] + bytes[n] * 256 ^ (n - 1)
  IN value[Len(bytes)]

\* parse_u8, parse_u16, parse_u32: a number of n bytes.
ParseNumber(n, buffer) ==
  Then(Take(n, buffer), LAMBDA bytes, rest : Parsed(Little(bytes), rest))

Low(byte) == byte % 128
Continues(byte) == byte >= 128

\* Mutant: the second byte is taken for eight bits.
ParseLengthOfBytes(buffer) ==
  Then(Take(1, buffer), LAMBDA a, r :
    IF ~ Continues(a[1]) THEN Parsed(Low(a[1]), r)
    ELSE Then(Take(1, r), LAMBDA b, s :
      IF ~ Continues(b[1]) THEN Parsed(Low(a[1]) + Low(b[1]) * 256, s)
      ELSE Then(Take(1, s), LAMBDA c, t :
        Parsed(Low(a[1]) + Low(b[1]) * 128 + Low(c[1]) * 16384, t))))

\* parse_length: seven bits of each byte, of three bytes at most.
ParseLength(buffer) ==
  Then(Take(1, buffer), LAMBDA a, r :
    IF ~ Continues(a[1]) THEN Parsed(Low(a[1]), r)
    ELSE Then(Take(1, r), LAMBDA b, s :
      IF ~ Continues(b[1]) THEN Parsed(Low(a[1]) + Low(b[1]) * 128, s)
      ELSE Then(Take(1, s), LAMBDA c, t :
        Parsed(Low(a[1]) + Low(b[1]) * 128 + Low(c[1]) * 16384, t))))

\* parse_option: OptionNone or OptionSome.
ParseOption(buffer) ==
  Then(Take(1, buffer), LAMBDA byte, rest :
    IF byte[1] \in {0, 1} THEN Parsed(byte[1], rest) ELSE Failed)

\* parse_data: bytes behind their parse_length.
ParseData(buffer) ==
  Then(ParseLength(buffer), LAMBDA n, rest : Take(n, rest))

\* parse_sized_string: bytes behind eight bytes of length, on a machine whose
\* SIZE_MAX has four.
ParseSizedString(buffer) ==
  Then(Take(8, buffer), LAMBDA size, rest :
    IF \E n \in 5..8 : size[n] # 0 THEN Failed
    ELSE Take(Little(SubSeq(size, 1, 4)), rest))

\* parse_pubkeys_with_len: n keys.
ParseKeys(n, buffer) ==
  Then(Take(n * KeySize, buffer), LAMBDA bytes, rest :
    Parsed([k \in 1..n |-> SubSeq(bytes, (k - 1) * KeySize + 1, k * KeySize)], rest))

-------------------------------------------------------------------------------
(* The header of a message and its instructions. *)

\* parse_version looks at the first byte, and takes it only if it is a version.
ParseVersion(buffer) ==
  Then(Take(1, buffer), LAMBDA byte, rest :
    IF Continues(byte[1]) THEN Parsed([versioned |-> TRUE, version |-> Low(byte[1])], rest)
    ELSE Parsed([versioned |-> FALSE, version |-> 0], buffer))

ParsePubkeysHeader(buffer) ==
  Then(Take(3, buffer), LAMBDA counts, r :
    Then(ParseLength(r), LAMBDA n, rest :
      IF n > 65535 THEN Failed
      ELSE Parsed([num_required_signatures |-> counts[1],
                   num_readonly_signed_accounts |-> counts[2],
                   num_readonly_unsigned_accounts |-> counts[3],
                   pubkeys_length |-> n], rest)))

\* The counts are of disjoint parts of the keys.
CountsAgree(h) ==
  /\ h.num_required_signatures <= h.pubkeys_length
  /\ h.num_readonly_signed_accounts <= h.num_required_signatures
  /\ h.num_readonly_unsigned_accounts <= h.pubkeys_length - h.num_required_signatures

ParseMessageHeader(buffer) ==
  Then(ParseVersion(buffer), LAMBDA v, r1 :
    Then(ParsePubkeysHeader(r1), LAMBDA h, r2 :
      IF ~ CountsAgree(h) THEN Failed
      ELSE Then(ParseKeys(h.pubkeys_length, r2), LAMBDA keys, r3 :
        Then(Take(HashSize, r3), LAMBDA hash, r4 :
          Then(ParseLength(r4), LAMBDA n, rest :
            Parsed([version |-> v, counts |-> h, pubkeys |-> keys,
                    blockhash |-> hash, instructions_length |-> n], rest))))))

ParseInstruction(buffer) ==
  Then(Take(1, buffer), LAMBDA program, r1 :
    Then(ParseData(r1), LAMBDA accounts, r2 :
      Then(ParseData(r2), LAMBDA data, rest :
        Parsed([program_id_index |-> program[1], accounts |-> accounts,
                data |-> data], rest))))

===============================================================================
