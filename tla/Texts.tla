-------------------------------- MODULE Texts ---------------------------------
(***************************************************************************)
(* The other printers of libsol/printer.c: numbers, strings and keys.  The *)
(* conventions are those of Amounts.                                       *)
(*                                                                         *)
(* The widths are parameters, so that every value of a small width can be  *)
(* tried: numbers have Width bits for 64, and a key is a sequence of       *)
(* digits of base Radix, for bytes, printed in base Base, for base 58.     *)
(***************************************************************************)
EXTENDS Amounts

CONSTANTS
  Width,   \* of integers
  Radix,   \* of the bytes of a key
  Base     \* of the alphabet it is printed in

ASSUME TextsAssumption ==
  /\ Width \in 2..30
  /\ Radix \in Nat \ {0, 1}
  /\ Base \in 2..Radix

MaxUnsigned == 2^Width - 1

\* print_u64, into at least two bytes.
PrintU64(value, outLength) ==
  LET n == NumDigits(value)
  IN IF n >= outLength THEN Refused(outLength) ELSE Printed(Digits(value, n))

\* Mutant: the magnitude of a negative number is its complement.
PrintI64Complement(value, outLength) ==
  LET unsigned == value % 2^Width
  IN IF value >= 0 THEN PrintU64(unsigned, outLength)
     ELSE LET p == PrintU64(MaxUnsigned - unsigned, outLength - 1)
          IN [p EXCEPT !.text = IF p.ok THEN <<"-">> \o p.text ELSE <<>>,
                       !.size = @ + 1]

\* A negative number is a sign and the magnitude (u64 ^ 0xff..ff) + 1.
PrintI64(value, outLength) ==
  LET unsigned == value % 2^Width
  IN IF value >= 0 THEN PrintU64(unsigned, outLength)
     ELSE LET p == PrintU64(((MaxUnsigned - unsigned) + 1) % 2^Width, outLength - 1)
          IN [p EXCEPT !.text = IF p.ok THEN <<"-">> \o p.text ELSE <<>>,
                       !.size = @ + 1]

\* The text of a buffer ends at its first zero byte.
UpToZero(bytes) ==
  LET zeros == {n \in 1..Len(bytes) : bytes[n] = "zero"}
  IN IF zeros = {} THEN bytes ELSE SubSeq(bytes, 1, Min(zeros) - 1)

\* The beginning that fits, its last character replaced by a tilde.
Truncated(text, outLength) ==
  IF outLength = 1 THEN <<>> ELSE SubSeq(text, 1, outLength - 2) \o <<"~">>

\* print_string: the text that fits, and whether it was all of it.  The buffer
\* is filled to its end.
PrintString(text, outLength) ==
  IF Len(text) >= outLength
  THEN [ok |-> FALSE, text |-> Truncated(text, outLength), size |-> outLength]
  ELSE [ok |-> TRUE, text |-> text, size |-> outLength]

\* print_sized_string: the bytes need not be text, and may hold a zero.
PrintSizedString(bytes, outLength) ==
  IF Len(bytes) < outLength
  THEN [ok |-> TRUE, text |-> UpToZero(bytes), size |-> Len(bytes) + 1]
  ELSE [ok |-> FALSE, text |-> UpToZero(Truncated(bytes, outLength)),
        size |-> outLength]

\* print_summary: the two ends of a text that does not fit.
PrintSummary(text, outLength, left, right) ==
  IF outLength <= left + right + 2 THEN Refused(0)
  ELSE IF Len(text) + 1 > outLength
  THEN Printed(SubSeq(text, 1, left) \o <<".", ".">>
                 \o SubSeq(text, Len(text) - right + 1, Len(text)))
  ELSE PrintString(text, outLength)

-------------------------------------------------------------------------------
(* encode_base58.  A key and its text are sequences of digits here. *)

LeadingZeros(s) ==
  LET first == SelectInSeq(s, LAMBDA d : d # 0)
  IN IF first = 0 THEN Len(s) ELSE first - 1
WithoutLeadingZeros(s) == SubSeq(s, LeadingZeros(s) + 1, Len(s))
Zeros(n) == [k \in 1..n |-> 0]

\* One long division of the digits after the first start ones.
DivideFrom(digits, start) ==
  LET remainder[k \in start..Len(digits)] ==
        IF k = start THEN 0
                     ELSE (remainder[k - 1] * Radix + digits[k]) % Base
  IN [quotient |-> [k \in 1..Len(digits) |->
                      IF k <= start THEN digits[k]
                      ELSE (remainder[k - 1] * Radix + digits[k]) \div Base],
      remainder |-> remainder[Len(digits)]]

\* The divisions, until nothing is left to divide.  Each one yields a digit of
\* the text from its end, and drops the first digit that has become zero.
Divisions(key) ==
  LET run[k \in 0..(2 * Len(key))] ==
        IF k = 0 THEN [digits |-> key, start |-> LeadingZeros(key), text |-> <<>>]
        ELSE LET before == run[k - 1]
                 d == DivideFrom(before.digits, before.start)
             IN IF before.start = Len(key) THEN before
                ELSE [digits |-> d.quotient,
                      start |-> IF d.quotient[before.start + 1] = 0
                                THEN before.start + 1 ELSE before.start,
                      text |-> <<d.remainder>> \o before.text]
  IN run[2 * Len(key)]

\* Mutant: the leading zeros of the key are not restored.
EncodeBase58Unpadded(key, outLength) ==
  LET text == WithoutLeadingZeros(Divisions(key).text)
  IN IF outLength < Len(text) + 1 THEN Refused(0) ELSE Printed(text)

EncodeBase58(key, outLength) ==
  LET text == Zeros(LeadingZeros(key)) \o WithoutLeadingZeros(Divisions(key).text)
  IN IF outLength < Len(text) + 1 THEN Refused(0) ELSE Printed(text)

===============================================================================
