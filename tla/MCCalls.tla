------------------------------- MODULE MCCalls --------------------------------
(***************************************************************************)
(* The functions without a state applied to every value of small sets, and *)
(* compared with what they are to compute: the printers of values, the     *)
(* lookups of tokens and accounts, the parser of bytes, the decoders of    *)
(* instructions and the handler of offchain messages.  A step is one call. *)
(***************************************************************************)
EXTENDS ExchangeCalls, Dates, TokenAccounts, OffchainMessages, MCInstructions

CONSTANTS o1, o2, MintA, MintB, MintC

VARIABLES
  call,    \* the function called and its arguments
  result   \* what it returned

vars == <<call, result>>

NotReturned == [ok |-> FALSE, pending |-> TRUE]

SequencesOf(S, n) == UNION {[1..k -> S] : k \in 0..n}

-------------------------------------------------------------------------------
(* Values and their texts. *)

Values == {0, 1, 2, 9, 10, 11, 19, 20, 99, 100, 101, 110, 200, 1000, 1010, 2000}
Tickers == {<<"S", "O", "L">>, <<"S">>}
AmountArgs == [value : Values, decimals : 0..3, ticker : Tickers]
OutLengths == 2..10
Ample == 20

Numerics == SequencesOf({"0", "1", "9", "."}, 3)
TickerEndings == {<<>>, <<" ">>, <<" ", "S">>, <<" ", "T">>}
AmountTexts ==
  {n \o <<" ", "S">> : n \in Numerics}
    \union {n \o s : n \in {<<"1">>, <<"1", ".", "0">>}, s \in TickerEndings}

Strings == SequencesOf({"a", "b", "zero"}, 5)
Keys == SequencesOf(0..(Radix - 1), 4) \ {<<>>}

\* The years whose days are tried: a whole cycle of the calendar, and the ends.
Years == (0..420) \union (9700..10010)
YearDays(y) ==
  {[wraps |-> 0, day |-> n] :
     n \in (IF y = 0 THEN 0 ELSE DaysBefore(y) + 1)..DaysBefore(y + 1)}

TextCalls ==
  [f : {"same_amount"}, a : AmountArgs, b : AmountArgs]
    \union [f : {"print_token_amount"}, a : AmountArgs, out : OutLengths]
    \union [f : {"compare"}, a : AmountTexts, b : AmountTexts]
    \union [f : {"print_u64"}, n : 0..MaxUnsigned, out : OutLengths]
    \union [f : {"print_i64"}, n : (-2^(Width - 1))..(2^(Width - 1) - 1),
            out : 3..10]
    \union [f : {"print_string", "print_sized_string"}, s : Strings, out : 1..5]
    \union [f : {"print_summary"}, s : {s \in Strings : ~ Contains(s, "zero")},
            out : 2..5, left : {1}, right : {1}]
    \union [f : {"encode_base58"}, key : Keys, out : OutLengths]
    \union [f : {"dates"}, year : Years]
    \union [f : {"rfc3339_format"}, wraps : 0..2,
            day : {0, 1, 719163, 3652059, 3652060, 16000000},
            second : {0, 59, 60, 3599, 3600, 43199, 86399}]

\* The paths of an address: one with a key of its own, one whose key begins
\* with a zero, and what is refused.
MCPublicKeyOf(path) ==
  IF path[Len(path)] = <<0, 0, 0, 0>> THEN <<0, 1>> ELSE <<1>>
Account(n) == Purpose \o CoinType \o <<n, 0, 0, 0>>
PathData ==
  {<<3>> \o Account(0), <<3>> \o Account(1), <<3>> \o Account(1) \o <<9>>,
   <<2>> \o Account(0), <<4>> \o Account(0), <<1>> \o Purpose, <<0>>, <<>>,
   <<3>> \o CoinType \o Purpose \o <<0, 0, 0, 0>>, Null}
AddressCalls ==
  [f : {"swap_handle_check_address"},
   params : [parameters : PathData, extraId : {Null, <<>>, <<"1">>},
             address : {Null} \union {EncodeBase58(k, Ample).text :
                                        k \in SequencesOf({0, 1}, 3) \ {<<>>}}]]

-------------------------------------------------------------------------------
(* Tokens and accounts. *)

Owners == {o1, o2}
Mints == {MintA, MintB, MintC}

\* A hash without collisions.
MCDerive(owner, mint, nonce, is2022) == <<owner, mint, nonce, is2022>>

\* The canonical nonce of an owner depends on the mint: MintA's is the last
\* nonce, MintB's the one below it, MintC's is 0.
MCOnCurve(address) ==
  /\ address \notin Owners
  /\ \/ address[2] = MintB /\ address[3] = LastNonce
     \/ address[2] = MintC /\ address[3] > 0

MCRegistry == << [mint |-> MintA, symbol |-> "A"], [mint |-> MintB, symbol |-> "B"] >>
Infos ==
  {Nothing} \union [mint : Mints, is2022 : BOOLEAN,
                    ticker : {"A", "B", "C", UnknownSymbol}]

Addresses ==
  {Derive(o, m, n, k) : o \in Owners, m \in Mints, n \in Nonces, k \in BOOLEAN}
    \union Owners
Trusted == {Nothing} \union [owner : Owners, mint : {MintA, MintC}, token : Addresses]

TokenCalls ==
  [f : {"get_token_mint_address"}, info : Infos,
   ticker : {"A", "B", "C", UnknownSymbol}]
    \union [f : {"check_ata_against_trusted_info"}, trusted : Trusted,
            mint : {MintA, MintC}, is2022 : BOOLEAN]

-------------------------------------------------------------------------------
(* Bytes.  The encodings are those of the Solana SDK. *)

Compact(n) ==
  IF n < 128 THEN <<n>>
  ELSE IF n < 16384 THEN <<128 + (n % 128), n \div 128>>
  ELSE <<128 + (n % 128), 128 + ((n \div 128) % 128), n \div 16384>>
WithLength(bytes) == Compact(Len(bytes)) \o bytes
SizedString(bytes) == <<Len(bytes), 0, 0, 0, 0, 0, 0, 0>> \o bytes

K1 == <<1, 1>>
K2 == <<1, 2>>
K3 == <<2, 0>>
Hash == <<7, 8>>

Versions == {[versioned |-> FALSE, version |-> 0], [versioned |-> TRUE, version |-> 0],
             [versioned |-> TRUE, version |-> 1]}
Counts ==
  [num_required_signatures : 0..2, num_readonly_signed_accounts : 0..2,
   num_readonly_unsigned_accounts : 0..2, pubkeys_length : 0..3]
HeaderOf(v, h, n) ==
  [version |-> v, counts |-> h, blockhash |-> Hash, instructions_length |-> n,
   pubkeys |-> SubSeq(<<K1, K2, K3>>, 1, h.pubkeys_length)]
Headers == {HeaderOf(v, h, n) : v \in Versions, h \in Counts, n \in {0, 127, 128, 16384}}
EncodedHeader(h) ==
  (IF h.version.versioned THEN <<128 + h.version.version>> ELSE <<>>)
    \o <<h.counts.num_required_signatures, h.counts.num_readonly_signed_accounts,
         h.counts.num_readonly_unsigned_accounts>>
    \o Compact(h.counts.pubkeys_length) \o FlattenSeq(h.pubkeys)
    \o h.blockhash \o Compact(h.instructions_length)

Data == SequencesOf({0, 255}, 2) \union {[n \in 1..130 |-> n % 3]}
Instructions == [program_id_index : {0, 200}, accounts : Data, data : Data]
EncodedInstruction(i) ==
  <<i.program_id_index>> \o WithLength(i.accounts) \o WithLength(i.data)

\* What is encoded.
ParserCalls ==
  [f : {"parse_length"},
   n : (0..400) \union (16200..16500) \union ((2^21 - 300)..(2^21 - 1))]
    \union [f : {"parse_option"}, option : {0, 1}]
    \union [f : {"parse_sized_string"}, string : Data]
    \union [f : {"parse_message_header"}, header : Headers]
    \union [f : {"parse_instruction"}, instruction : Instructions]
ParserNames ==
  {"parse_length", "parse_option", "parse_sized_string", "parse_message_header",
   "parse_instruction"}

Encoded(c) ==
  CASE c.f = "parse_length" -> Compact(c.n)
    [] c.f = "parse_option" -> <<c.option>>
    [] c.f = "parse_sized_string" -> SizedString(c.string)
    [] c.f = "parse_message_header" -> EncodedHeader(c.header)
    [] c.f = "parse_instruction" -> EncodedInstruction(c.instruction)
Value(c) ==
  CASE c.f = "parse_length" -> c.n
    [] c.f = "parse_option" -> c.option
    [] c.f = "parse_sized_string" -> c.string
    [] c.f = "parse_message_header" -> c.header
    [] c.f = "parse_instruction" -> c.instruction

Parse(f, bytes) ==
  CASE f = "parse_length" -> ParseLength(bytes)
    [] f = "parse_option" -> ParseOption(bytes)
    [] f = "parse_sized_string" -> ParseSizedString(bytes)
    [] f = "parse_message_header" -> ParseMessageHeader(bytes)
    [] f = "parse_instruction" -> ParseInstruction(bytes)
Behind == <<1, 128>>

-------------------------------------------------------------------------------
(* Offchain messages. *)

MCSigningDomain == <<255, 1>>
Ordinary == {<<65>>, <<10, 65>>, <<127>>, <<>>, <<65, 0>>, <<195, 169>>, <<195>>}

\* The bytes at the limits of the forms of a character.
Leads ==
  {0, 65, 127, 128, 191, 192, 193, 194, 223, 224, 225, 236, 237, 238, 239, 240, 241,
   243, 244, 245, 247, 248, 255}
Followed == {65, 128, 143, 144, 159, 160, 189, 190, 191, 192, 195}
Utf8Texts == {<<a>> \o s : a \in Leads, s \in SequencesOf(Followed, 3)}

OffchainOf(version, domain, format, signers, length, text, c) ==
  [f |-> "handle_sign_offchain_message", version |-> version, domain |-> domain,
   format |-> format, signers |-> signers, length |-> length, text |-> text, c |-> c]
Config(non_confirm, expert, blind) ==
  [non_confirm |-> non_confirm, expert |-> expert, blind |-> blind]

OffchainCalls ==
  {OffchainOf(version, domain, format, signers, length, text, c) :
     version \in 0..2, domain \in {<<0, 0>>, <<0, 5>>}, format \in 0..2,
     signers \in SequencesOf({K1, K2, K3}, 2), length \in 0..2, text \in Ordinary,
     c \in {Config(FALSE, TRUE, TRUE), Config(FALSE, FALSE, TRUE),
            Config(FALSE, TRUE, FALSE), Config(TRUE, FALSE, TRUE)}}
    \union {OffchainOf(1, <<0, 0>>, 0, <<K1>>, Len(text), text, Config(FALSE, FALSE, TRUE)) :
              text \in Utf8Texts}

EncodedMessage(m) ==
  SigningDomain \o <<m.version>>
    \o (IF m.version = 0 THEN m.domain \o <<m.format>> ELSE <<>>)
    \o <<Len(m.signers)>> \o FlattenSeq(m.signers) \o <<m.length, 0>> \o m.text

-------------------------------------------------------------------------------

Calls == TextCalls \union AddressCalls \union TokenCalls \union ParserCalls
           \union LayoutCalls \union SignerCalls \union ArtifactCalls \union OffchainCalls

Init == call \in Calls /\ result = NotReturned

Return(f, value) ==
  /\ call.f = f
  /\ result = NotReturned
  /\ result' = value
  /\ UNCHANGED call

\* An instruction, and what else than it is accepted: data or accounts that are cut
\* off, data behind, one thing spoiled.
ParseSent(e, present, whole) ==
  LET i == SentInstruction(e, present, whole)
      Accepted(j) == ParseInfo(j, Header).ok
  IN [ok |-> TRUE, info |-> ParseInfo(i, Header),
      cut |-> {n \in 0..(Len(i.data) - 1) :
                 Accepted([i EXCEPT !.data = SubSeq(@, 1, n)])},
      few |-> {n \in 0..(Len(e.layout.accounts) + Len(e.owners) - 1) :
                 Accepted([i EXCEPT !.accounts = SubSeq(@, 1, n)])},
      behind |-> Accepted([i EXCEPT !.data = @ \o Behind \o Behind]),
      spoiled |-> IF e.program \in AgencPrograms THEN {j \in Spoiled(i) : Accepted(j)} ELSE {},
      elsewhere |-> Accepted([i EXCEPT !.program_id_index = 3])
                      \/ Accepted([i EXCEPT !.program_id_index = Len(Header.pubkeys)])]

Text(a) == PrintTokenAmount(a.value, a.ticker, a.decimals, Ample).text

Next ==
  \/ Return("same_amount",
            [ok |-> TRUE, same |-> Text(call.a) = Text(call.b),
             atLeast |-> AmountTextAtLeast(Text(call.a), Text(call.b))])
  \/ Return("print_token_amount",
            PrintTokenAmount(call.a.value, call.a.ticker, call.a.decimals, call.out))
  \/ Return("compare", [ok |-> AmountTextAtLeast(call.a, call.b)])
  \/ Return("print_u64", PrintU64(call.n, call.out))
  \/ Return("print_i64", PrintI64(call.n, call.out))
  \/ Return("print_string", PrintString(call.s, call.out))
  \/ Return("print_sized_string", PrintSizedString(call.s, call.out))
  \/ Return("print_summary", PrintSummary(call.s, call.out, call.left, call.right))
  \/ Return("encode_base58", EncodeBase58(call.key, call.out))
  \/ Return("dates",
            [ok |-> TRUE, dates |-> {<<n.day, RdnToYmd(TruncatedDays(n))>> :
                                       n \in YearDays(call.year)}])
  \/ Return("rfc3339_format",
            FormatTime([wraps |-> call.wraps, day |-> call.day], call.second))
  \/ Return("swap_handle_check_address", [ok |-> CheckAddress(call.params)])
  \/ Return("get_token_mint_address",
            [ok |-> TRUE, token |-> TokenMint(call.info, call.ticker)])
  \/ Return("check_ata_against_trusted_info",
            [ok |-> /\ call.trusted # Nothing
                    /\ CheckAtaAgainstTrustedInfo(call.trusted, call.mint,
                                                  call.trusted.token, call.is2022)])
  \/ \E f \in ParserNames :
       Return(f, [ok |-> TRUE, whole |-> Parse(f, Encoded(call) \o Behind),
                  cut |-> {n \in 0..(Len(Encoded(call)) - 1) :
                             Parse(f, SubSeq(Encoded(call), 1, n)).ok}])
  \/ Return("parse_layout", ParseSent(call.e, call.present, call.whole))
  \/ Return("parse_signers", ParseInfo(DocumentedInstruction(call), Header))
  \/ Return("decode_artifact_result_hash",
            [ok |-> TRUE, hash |-> ArtifactHash(ParseInfo(Submission(call.result), Header).value)])
  \/ Return("handle_sign_offchain_message",
            HandleSignOffchainMessage(EncodedMessage(call), K1, call.c))

Spec == Init /\ [][Next]_vars

Returned(f) == call.f = f /\ result # NotReturned

-------------------------------------------------------------------------------
(* What the texts mean. *)

SameAmount(a, b) ==
  a.ticker = b.ticker /\ a.value * 10^b.decimals = b.value * 10^a.decimals
AtLeast(a, b) ==
  a.ticker = b.ticker /\ a.value * 10^b.decimals >= b.value * 10^a.decimals

ValueOf(digits, base) == FoldLeft(LAMBDA v, d : v * base + d, 0, digits)
DecimalValue(text) == ValueOf([n \in 1..Len(text) |-> DigitOf(text[n])], 10)

\* Two printed amounts (print_token_amount) have the same text exactly when they
\* are the same amount of the same token, whatever their decimals, and
\* amount_as_string_is_greater_or_equal is the order of the amounts of one token:
\* what check_swap_amount and check_swap_fee rely on.
TextMeansAmount ==
  Returned("same_amount") =>
    /\ result.same <=> SameAmount(call.a, call.b)
    /\ result.atLeast <=> AtLeast(call.a, call.b)

\* The amounts a text denotes, none or one: digits, perhaps with a point among
\* them, up to a space at n, and a ticker; p is the end of the integer part.
Denoted(text) ==
  LET Integer(p) == SubSeq(text, 1, p)
      Fractional(n, p) == SubSeq(text, p + 2, n - 1)
      Reads(n, p) ==
        /\ text[n] = " " /\ n < Len(text) /\ p < n /\ p > 0
        /\ \/ p = n - 1
           \/ text[p + 1] = "." /\ Fractional(n, p) # <<>>
        /\ \A k \in 1..(n - 1) : k = p + 1 \/ IsDigit(text[k])
  IN {[value |-> DecimalValue(Integer(q[2]) \o Fractional(q[1], q[2])),
       decimals |-> Len(Fractional(q[1], q[2])),
       ticker |-> SubSeq(text, q[1] + 1, Len(text))] :
        q \in {q \in (1..Len(text)) \X (0..Len(text)) : Reads(q[1], q[2])}}

\* The code takes the longer integer part for the larger number.
Padding(text) == Len(text) > 1 /\ text[1] = "0" /\ IsDigit(text[2])

\* Of two texts of any form whose integer parts are not padded with zeros, the
\* comparison accepts exactly those that denote amounts of one token, the first
\* one at least the second: nothing malformed passes
\* (amount_as_string_is_greater_or_equal, validate_numeric_part).
AnyOrderIsNumeric ==
  Returned("compare") /\ ~ Padding(call.a) /\ ~ Padding(call.b) =>
    (result.ok <=> \E a \in Denoted(call.a), b \in Denoted(call.b) : AtLeast(a, b))

\* No printer writes beyond its buffer, its final zero included.  A number is
\* displayed exactly, the smallest negative one included, and is refused only when
\* its text does not fit; a string is displayed whole or with the mark of its
\* truncation, unless a zero byte of a sized string ends it; a summary keeps both
\* ends.
TextWholeOrRefused ==
  /\ result # NotReturned /\ "out" \in DOMAIN call => result.size <= call.out
  /\ Returned("print_u64") =>
       IF result.ok THEN DecimalValue(result.text) = call.n
                    ELSE call.n >= 10^(call.out - 1)
  /\ Returned("print_i64") =>
       IF ~ result.ok THEN call.n >= 10^(call.out - 1) \/ -call.n >= 10^(call.out - 2)
       ELSE IF call.n < 0
       THEN Head(result.text) = "-" /\ DecimalValue(Tail(result.text)) = -call.n
       ELSE DecimalValue(result.text) = call.n
  /\ Returned("print_string") \/ Returned("print_sized_string") =>
       \/ result.text = call.s
       \/ ~ result.ok /\ (call.out > 1 => result.text # <<>> /\ Last(result.text) = "~")
       \/ Contains(call.s, "zero")
  /\ Returned("print_summary") /\ result.ok =>
       \/ result.text = call.s
       \/ /\ Head(result.text) = Head(call.s)
          /\ Last(result.text) = Last(call.s)
          /\ Contains(result.text, ".")

\* A key is determined by its text: the value is kept, one leading digit for
\* every leading zero byte (encode_base58), so that comparing texts is comparing
\* keys of the same length.  Exchange is told that an address is ours exactly
\* when it is the text of the key of a path below 44'/501', and of no other key
\* (swap_handle_check_address).
KeyTextIdentifies ==
  /\ Returned("encode_base58") =>
       LET text == EncodeBase58(call.key, Ample).text
       IN /\ result.ok => result.text = text
          /\ result.ok <=> Len(text) < call.out
          /\ ValueOf(text, Base) = ValueOf(call.key, Radix)
          /\ LeadingZeros(text) = LeadingZeros(call.key)
          /\ Divisions(call.key).start = Len(call.key)
  /\ Returned("swap_handle_check_address") =>
       (result.ok <=>
          /\ call.params.extraId = <<>>
          /\ \/ /\ call.params.parameters = <<3>> \o Account(0)
                /\ call.params.address = <<0, 1>>
             \/ /\ call.params.parameters \in
                     {<<3>> \o Account(1), <<3>> \o Account(1) \o <<9>>, <<2>> \o Account(0)}
                /\ call.params.address = <<1>>)

\* Every day of the years 1 to 9999 is displayed as its date, and the days of
\* later years are refused (rdn_to_ymd); the clock is the time of the day
\* (rfc3339_format).
DatesAreCalendar ==
  /\ Returned("dates") =>
       IF call.year > 9999 THEN \A p \in result.dates : ~ p[2].ok
       ELSE /\ \A p \in result.dates :
                 /\ p[2].ok
                 /\ p[2].year = call.year
                 /\ p[2].month \in 1..12
                 /\ p[2].day \in 1..DaysIn(call.year, p[2].month)
                 /\ DayNumber(call.year, p[2].month, p[2].day) = p[1]
            /\ call.year > 0 =>
                 Cardinality(result.dates) = IF IsLeap(call.year) THEN 366 ELSE 365
  /\ Returned("rfc3339_format") =>
       LET Pair(n) == 10 * result.clock[n] + result.clock[n + 1]
       IN /\ Pair(1) \in 0..23 /\ Pair(3) \in 0..59 /\ Pair(5) \in 0..59
          /\ 3600 * Pair(1) + 60 * Pair(3) + Pair(5) = call.second

-------------------------------------------------------------------------------
(* What the lookups mean. *)

\* The symbol displayed for a transfer and the mint a descriptor's swap is
\* checked against come from two lookups, through the provided token and the
\* hardcoded ones (dynamic_token_info.c:39 and 65).  The mint of a ticker is
\* displayed under that ticker, unless the provided token is that mint and has
\* another ticker; the ticker of the provided token is never another token.
TickerMeansMint ==
  Returned("get_token_mint_address") /\ result.token # Nothing =>
    LET info == call.info
        token == result.token
        provided == info # Nothing /\ info.mint = token.mint
                      /\ info.is2022 = token.is2022
    IN /\ TokenSymbol(info, token.mint, token.is2022) = call.ticker \/ provided
       /\ info # Nothing /\ info.ticker = call.ticker => provided

\* The account the token programs use: the derivation at the last nonce that is
\* off the curve.
Canonical(owner, mint, is2022) ==
  LET offCurve == {n \in Nonces : ~ OnCurve(Derive(owner, mint, n, is2022))}
  IN Derive(owner, mint, Max(offCurve), is2022)

\* An account that passes as the trusted owner's (trusted_info.c:5) is off the
\* curve and is no other owner's, of no other mint and of no other program; and
\* the account the token programs use for that owner is not refused, whatever
\* its nonce (ed25519_helpers.c:128).
AccountHasOneOwner ==
  Returned("check_ata_against_trusted_info") /\ call.trusted # Nothing =>
    /\ result.ok =>
         /\ ~ OnCurve(call.trusted.token)
         /\ \A o \in Owners, m \in Mints, k \in BOOLEAN :
              (\E n \in Nonces : Derive(o, m, n, k) = call.trusted.token)
                => <<o, m, k>> = <<call.trusted.owner, call.mint, call.is2022>>
    /\ /\ call.trusted.mint = call.mint
       /\ call.trusted.token = Canonical(call.trusted.owner, call.mint, call.is2022)
       => result.ok

-------------------------------------------------------------------------------
(* What the bytes mean. *)

\* The parsers invert the encodings, take no byte of what follows, and refuse
\* what is cut off anywhere; a header is refused exactly when it does not divide
\* its accounts into signers and others, read-only or not (parser.c).  So do the
\* decoders of instructions, with their accounts, except that the first four bytes
\* of a vote instruction and the absence of the one byte of an associated account
\* are older formats.  Nothing may follow where the code says so, and of an AgenC
\* instruction every account is counted (agenc_instruction.c:449).
ParsersInvertEncodings ==
  /\ call.f \in ParserNames /\ result # NotReturned =>
       /\ result.cut = {}
       /\ IF call.f = "parse_message_header" /\ ~ CountsAgree(call.header.counts)
          THEN ~ result.whole.ok
          ELSE result.whole = Parsed(Value(call), Behind)
  /\ Returned("parse_layout") =>
       LET e == call.e
           roles == Roles(e, call.whole)
           sent == SentInstruction(e, call.present, call.whole)
       IN /\ result.info.ok
          /\ result.info.rest = <<>>
          /\ result.info.value.data = FieldValues(e.layout, call.present)
          /\ \A n \in DOMAIN roles :
               roles[n] # "" => result.info.value.accounts[roles[n]] = sent.accounts[n]
          /\ DOMAIN result.info.value.accounts = ToSet(roles) \ {""}
          /\ result.cut = CASE e.tag = <<4, 0, 0, 0>> /\ e.program = "Vote" /\ Len(sent.data) > 4 -> {4}
                            [] e.program = "SplAssociatedTokenAccount" /\ Len(sent.data) = 1 -> {0}
                            [] OTHER -> {}
          /\ result.few = {} /\ result.spoiled = {} /\ ~ result.elsewhere
          /\ result.behind = ~ ExactData(e)

\* What is displayed of an instruction is what its bytes say.  Of a token
\* instruction in one of the shapes of token.h that is the account of the owner or
\* of the multisig, how many accounts sign for it, and whether a transfer has
\* accounts of a hook (spl_token_instruction.c:163); more than eleven signers are
\* refused, as long as a byte counts the accounts.  The hash of an artifact is displayed for
\* exactly the texts that encode one, and is the one encoded
\* (agenc_instruction.c:141).
DecodedAsDocumented ==
  /\ Returned("parse_signers") /\ call.signers < 256 =>
       IF call.signers > 11 THEN ~ result.ok
       ELSE /\ result.ok
            /\ result.value.sign = IF call.signers = 0 THEN Single(Owner)
                                   ELSE Multi(Multisig, call.signers)
            /\ Len(result.value.more) = call.hook
  /\ Returned("decode_artifact_result_hash") =>
       /\ result.hash # <<>> <=> IsArtifact(call.result)
       /\ \A n \in DOMAIN result.hash :
            SubSeq(call.result, 1, 4) = <<58>> \o Base64(result.hash[n])

\* The number of signers displayed is the number there is: more than the eleven of
\* token.h:163 are refused (spl_token_instruction.c:120).
SignersCounted ==
  Returned("parse_signers") /\ result.ok => result.value.sign.signers = call.signers

\* The bytes of a character of Unicode.
Utf8(c) ==
  CASE c < 128 -> <<c>>
    [] c \in 128..2047 -> <<192 + (c \div 64), 128 + (c % 64)>>
    [] c \in 2048..65535 -> <<224 + (c \div 4096), 128 + ((c \div 64) % 64), 128 + (c % 64)>>
    [] OTHER -> <<240 + (c \div 262144), 128 + ((c \div 4096) % 64),
                  128 + ((c \div 64) % 64), 128 + (c % 64)>>

\* The character that bytes are, if they are one.
Character(bytes) ==
  LET Tail6(n) == bytes[n] % 64
  IN CASE Len(bytes) = 1 -> bytes[1] % 128
       [] Len(bytes) = 2 -> (bytes[1] % 32) * 64 + Tail6(2)
       [] Len(bytes) = 3 -> (bytes[1] % 16) * 4096 + Tail6(2) * 64 + Tail6(3)
       [] OTHER -> (bytes[1] % 8) * 262144 + Tail6(2) * 4096 + Tail6(3) * 64 + Tail6(4)

\* Surrogates are no characters, and two others are excluded on purpose.
IsCharacter(bytes) ==
  LET c == Character(bytes)
  IN /\ c <= 1114111 /\ c \notin 55296..57343 /\ c \notin {65534, 65535}
     /\ Utf8(c) = bytes

IsText(bytes) ==
  LET from[n \in 1..(Len(bytes) + 1)] ==
        \/ n > Len(bytes)
        \/ \E k \in n..Min({n + 3, Len(bytes)}) :
             IsCharacter(SubSeq(bytes, n, k)) /\ from[k + 1]
  IN from[1]

Printable(text) == \A n \in DOMAIN text : text[n] \in (32..126) \union {10}

\* A header that may be signed with our key for this text.
Signable(m) ==
  /\ Len(EncodedMessage(m)) <= MaxOffchainLength
  /\ m.version \in {0, 1}
  /\ m.text # <<>> /\ m.length = Len(m.text)
  /\ K1 \in ToSet(m.signers)
  /\ IF m.version = 0 THEN m.format = 1 \/ (m.format = 0 /\ Printable(m.text))
     ELSE m.signers \in {<<K1>>, <<K1, K2>>, <<K1, K3>>}

\* A message is reviewed exactly when its header may be signed with our key and
\* its text is printable, or is UTF-8 and blind signing is enabled; the text the
\* screen reads from the buffer is the text that is signed, although its place
\* is computed a second time and it ends at a zero; otherwise its hash is shown
\* (handle_sign_offchain_message.c:108).
OffchainShownAsSigned ==
  Returned("handle_sign_offchain_message") =>
    /\ result.sw = "Review" <=>
         /\ ~ call.c.non_confirm
         /\ Signable(call)
         /\ Printable(call.text) \/ (IsText(call.text) /\ call.c.blind)
    /\ result.sw = "Review" =>
         IF Printable(call.text) THEN ~ result.blind /\ result.text = call.text
         ELSE /\ result.blind
              /\ \E n \in DOMAIN result.items :
                   result.items[n].title = "Hash" /\ result.items[n].value = call.text

===============================================================================
