--------------------------- MODULE OffchainMessages ---------------------------
(***************************************************************************)
(* handle_sign_offchain_message: from the bytes of a message to its        *)
(* review.  SolanaApp has the same handler with the verdicts of this       *)
(* module as parameters, between the other commands.                       *)
(*                                                                         *)
(* The header is parsed (libsol/parser.c), and the length of the header is *)
(* computed a second time (libsol/include/sol/parser.h) to find the text   *)
(* the screen is given, which is a pointer into the buffer of the command: *)
(* the screen reads up to the first zero.                                  *)
(***************************************************************************)
EXTENDS Parser, SequencesExt

CONSTANTS
  SigningDomain,     \* offchain_message_signing_domain
  DomainSize,        \* OFFCHAIN_MESSAGE_APPLICATION_DOMAIN_LENGTH
  MaxOffchainLength  \* MAX_OFFCHAIN_MESSAGE_LENGTH

\* memcmp(a, b) < 0.
Below(a, b) ==
  \E n \in DOMAIN a : a[n] < b[n] /\ \A k \in 1..(n - 1) : a[k] = b[k]
Ascending(keys) == \A n \in 2..Len(keys) : Below(keys[n - 1], keys[n])

\* The part of a header only version 0 has.
ParseFormat(version, buffer) ==
  IF version # 0 THEN Parsed([domain |-> <<>>, format |-> 0], buffer)
  ELSE Then(Take(DomainSize, buffer), LAMBDA domain, r :
    Then(Take(1, r), LAMBDA format, rest :
      Parsed([domain |-> domain, format |-> format[1]], rest)))

ParseOffchainMessageHeader(buffer) ==
  Then(Take(Len(SigningDomain), buffer), LAMBDA signing, r1 :
    IF signing # SigningDomain THEN Failed
    ELSE Then(Take(1, r1), LAMBDA version, r2 :
      Then(ParseFormat(version[1], r2), LAMBDA f, r3 :
        Then(Take(1, r3), LAMBDA count, r4 :
          Then(ParseKeys(count[1], r4), LAMBDA signers, r5 :
            IF version[1] >= 1 /\ ~ Ascending(signers) THEN Failed
            ELSE Then(ParseNumber(2, r5), LAMBDA length, rest :
              Parsed([version |-> version[1], domain |-> f.domain, format |-> f.format,
                      signers |-> signers, length |-> length], rest)))))))

\* Mutant: the format is forgotten.
OffchainMessageHeaderLengthOfDomain(h) ==
  Len(SigningDomain) + 1 + 1 + KeySize * Len(h.signers) + 2
    + (IF h.version = 0 THEN DomainSize ELSE 0)

OffchainMessageHeaderLength(h) ==
  Len(SigningDomain) + 1 + 1 + KeySize * Len(h.signers) + 2
    + (IF h.version = 0 THEN DomainSize + 1 ELSE 0)

-------------------------------------------------------------------------------
(* is_data_ascii and is_data_utf8. *)

LineFeed == 10
IsDataAscii(data) ==
  \A n \in DOMAIN data : data[n] \in 32..126 \/ data[n] = LineFeed

Continuation == 128..191

\* How many bytes the character at position i has; 0 when it is none.
CharacterAt(data, i) ==
  LET a == data[i]
      Continued(k) ==
        i + k <= Len(data) /\ \A j \in 1..k : data[i + j] \in Continuation
      b == data[i + 1]
  IN CASE a < 128 -> 1
       [] a \in 192..223 -> IF Continued(1) /\ a \notin {192, 193} THEN 2 ELSE 0
       [] a \in 224..239 ->
            IF /\ Continued(2)
               /\ ~ (a = 224 /\ b \in 128..159)
               /\ ~ (a = 237 /\ b \in 160..191)
               /\ ~ (a = 239 /\ b = 191 /\ data[i + 2] \in {190, 191})
            THEN 3 ELSE 0
       [] a \in 240..247 ->
            IF /\ Continued(3)
               /\ ~ (a = 240 /\ b \in 128..143)
               /\ ~ (a = 244 /\ b > 143)
               /\ a <= 244
            THEN 4 ELSE 0
       [] OTHER -> 0

\* The position of the scan after every character, and beyond the data at its
\* end; 0 once it has failed.
IsDataUtf8(data) ==
  LET scan[n \in 0..Len(data)] ==
        IF n = 0 THEN 1
        ELSE LET i == scan[n - 1]
                 size == CharacterAt(data, i)
             IN IF i = 0 \/ i > Len(data) THEN i
                ELSE IF size = 0 THEN 0 ELSE i + size
  IN scan[Len(data)] > Len(data)

-------------------------------------------------------------------------------
(* The handler.  c has the settings and non_confirm; key is the public key *)
(* of the derivation path.  A review has its items, what the screen shows  *)
(* as the text, and the bytes a signature is of.                           *)

Reply(sw) == [sw |-> sw, items |-> <<>>, text |-> <<>>, blind |-> FALSE]

Item(title, value) == <<[title |-> title, value |-> value]>>
When(condition, items) == IF condition THEN items ELSE <<>>

\* prepare_primary_items and ui_application_domain; a hash is what it is of.
ReviewItems(h, key, text, c) ==
  IF c.expert
  THEN Item("Signer", key)
         \o When(Len(h.signers) > 1, Item("Other signers", Len(h.signers)))
         \o When(h.version = 0,
                 Item("Application",
                      IF \A n \in DOMAIN h.domain : h.domain[n] = 0
                      THEN "not provided" ELSE h.domain))
         \o Item("Version", h.version)
         \o When(h.version = 0, Item("Format", h.format))
         \o Item("Size", h.length)
         \o Item("Hash", text)
  ELSE When(~ IsDataAscii(text), Item("Hash", text))

\* The screen's string starts behind the header and ends at a zero: the buffer
\* has one behind the message.
TextShown(message, h) ==
  LET from == SubSeq(message, OffchainMessageHeaderLength(h) + 1, Len(message))
      end == SelectInSeq(from, LAMBDA byte : byte = 0)
  IN IF end = 0 THEN from ELSE SubSeq(from, 1, end - 1)

HeaderValid(h, text) ==
  /\ h.version <= 1
  /\ h.length # 0
  /\ h.length = Len(text)
  /\ h.signers # <<>>
  /\ h.version = 0 => h.format <= 1

FormatValid(h, text) ==
  /\ IsDataAscii(text) \/ IsDataUtf8(text)
  /\ h.version = 0 /\ ~ IsDataAscii(text) => h.format # 0

HandleSignOffchainMessage(message, key, c) ==
  LET p == ParseOffchainMessageHeader(message)
      h == p.value
      text == p.rest
      isAscii == IsDataAscii(text)
  IN IF c.non_confirm THEN Reply("NotSupported")
     ELSE IF Len(message) > MaxOffchainLength THEN Reply("InvalidMessageSize")
     ELSE IF ~ p.ok \/ ~ HeaderValid(h, text) \/ key \notin ToSet(h.signers)
     THEN Reply("InvalidMessageHeader")
     ELSE IF ~ FormatValid(h, text) THEN Reply("InvalidMessageFormat")
     ELSE IF ~ isAscii /\ ~ c.blind THEN Reply("NotSupported")
     ELSE [sw |-> "Review",
           items |-> ReviewItems(h, key, text, c),
           text |-> IF isAscii THEN TextShown(message, h) ELSE <<>>,
           blind |-> ~ isAscii]

===============================================================================
