------------------------------- MODULE Amounts --------------------------------
(***************************************************************************)
(* How values become text (libsol/printer.c), and how a swap compares the  *)
(* texts of two amounts.  A text is a sequence of one-character strings    *)
(* without its final zero; an out buffer is known by its length.           *)
(*                                                                         *)
(* A printer returns [ok, text, size]: whether it returns 0, what it       *)
(* leaves in the buffer and how many bytes of it have been written, the    *)
(* final zero included.                                                    *)
(***************************************************************************)
EXTENDS Integers, SequencesExt, FiniteSetsExt

Printed(text) == [ok |-> TRUE, text |-> text, size |-> Len(text) + 1]
Refused(size) == [ok |-> FALSE, text |-> <<>>, size |-> size]

Dot == "."
Gap == " "

DigitChars == <<"0", "1", "2", "3", "4", "5", "6", "7", "8", "9">>
IsDigit(c) == c \in ToSet(DigitChars)
DigitOf(c) == (CHOOSE n \in 1..10 : DigitChars[n] = c) - 1

\* The powers of ten.
Power10[n \in Nat] == IF n = 0 THEN 1 ELSE 10 * Power10[n - 1]

\* The last n decimal digits of a value, the most significant one first.
Digits(value, n) ==
  [k \in 1..n |-> DigitChars[((value \div Power10[n - k]) % 10) + 1]]
NumDigits(value) ==
  CHOOSE n \in 1..(value + 1) :
    value < Power10[n] /\ (n > 1 => value >= Power10[n - 1])

-------------------------------------------------------------------------------
(* print_token_amount. *)

\* All digits with the point: at least one before it and as many as there are
\* decimals after it.
Unstripped(value, decimals) ==
  LET n == Max({NumDigits(value), decimals + 1})
      ds == Digits(value, n)
  IN SubSeq(ds, 1, n - decimals) \o <<Dot>> \o SubSeq(ds, n - decimals + 1, n)

\* Mutant: zeros are stripped from whole numbers too.
StripZeros(text) ==
  LET kept == {n \in 1..Len(text) : n = 1 \/ text[n] \notin {"0", Dot}}
  IN SubSeq(text, 1, Max(kept))

\* Trailing zeros, then a trailing point.
Strip(text) ==
  LET kept == Max({n \in 1..Len(text) : n = 1 \/ text[n] # "0"})
  IN SubSeq(text, 1, IF text[kept] = Dot THEN kept - 1 ELSE kept)

\* The buffer, of at least two bytes, must have room for the unstripped digits,
\* and then for the text.
PrintTokenAmount(value, ticker, decimals, outLength) ==
  LET raw == Unstripped(value, decimals)
      text == Strip(raw) \o <<Gap>> \o ticker
  IN IF Len(raw) >= outLength THEN Refused(outLength)
     ELSE IF Len(text) + 1 > outLength THEN Refused(Len(raw))
     ELSE [Printed(text) EXCEPT !.size = Max({Len(raw), Len(text) + 1})]

-------------------------------------------------------------------------------
(* amount_as_string_is_greater_or_equal. *)

\* The position of the first space; 0 is NULL.
Space(text) ==
  LET spaces == {n \in 1..Len(text) : text[n] = Gap}
  IN IF spaces = {} THEN 0 ELSE Min(spaces)

NumericPart(text) == SubSeq(text, 1, Space(text) - 1)
TickerPart(text) == SubSeq(text, Space(text) + 1, Len(text))
HasTicker(text) == Space(text) # 0 /\ TickerPart(text) # <<>>

Points(numeric) == {n \in 1..Len(numeric) : numeric[n] = Dot}

\* Mutant: the point may be the last character.
ValidNumericTrailing(numeric) ==
  /\ numeric # <<>>
  /\ \A n \in 1..Len(numeric) : numeric[n] = Dot \/ IsDigit(numeric[n])
  /\ Cardinality(Points(numeric)) <= 1
  /\ 1 \notin Points(numeric)

\* validate_numeric_part does not return -1.
ValidNumeric(numeric) ==
  /\ numeric # <<>>
  /\ \A n \in 1..Len(numeric) : numeric[n] = Dot \/ IsDigit(numeric[n])
  /\ Cardinality(Points(numeric)) <= 1
  /\ {1, Len(numeric)} \intersect Points(numeric) = {}

\* How many digits are before the point, what validate_numeric_part returns.
IntegerLength(numeric) ==
  IF Points(numeric) = {} THEN Len(numeric) ELSE Min(Points(numeric)) - 1

Fraction(numeric) ==
  SubSeq(numeric, IntegerLength(numeric) + 2, Len(numeric))

\* The first position where two sequences differ decides; 0 when none does.
FirstDifference(s, t) ==
  LET different == {n \in 1..Len(s) : s[n] # t[n]}
  IN IF different = {} THEN 0 ELSE Min(different)

Padded(s, n) == s \o [k \in 1..(n - Len(s)) |-> "0"]

FractionAtLeast(a, b) ==
  LET n == Max({Len(a), Len(b)})
      s == Padded(a, n)
      t == Padded(b, n)
      d == FirstDifference(s, t)
  IN d = 0 \/ DigitOf(s[d]) > DigitOf(t[d])

NumericAtLeast(a, b) ==
  LET s == SubSeq(a, 1, IntegerLength(a))
      t == SubSeq(b, 1, IntegerLength(b))
      d == FirstDifference(s, t)
  IN IF Len(s) # Len(t) THEN Len(s) > Len(t)
     ELSE IF d # 0 THEN DigitOf(s[d]) > DigitOf(t[d])
     ELSE FractionAtLeast(Fraction(a), Fraction(b))

AmountTextAtLeast(a, b) ==
  /\ HasTicker(a) /\ HasTicker(b)
  /\ TickerPart(a) = TickerPart(b)
  /\ ValidNumeric(NumericPart(a)) /\ ValidNumeric(NumericPart(b))
  /\ NumericAtLeast(NumericPart(a), NumericPart(b))

===============================================================================
