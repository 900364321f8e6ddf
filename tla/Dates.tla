-------------------------------- MODULE Dates ---------------------------------
(***************************************************************************)
(* How a timestamp is displayed (libsol/rfc3339.c): rfc3339_format and     *)
(* rdn_to_ymd, which computes the date of a day number, 1 being the first  *)
(* of January of the year 1.                                               *)
(*                                                                         *)
(* TLC's integers have 32 bits.  A number of days has 64 bits in the code, *)
(* and is [wraps, day] here: day + wraps * 2^32.  A time is a day and the  *)
(* second of the day.                                                      *)
(***************************************************************************)
EXTENDS Integers, Sequences

DayOffset == <<306, 337, 0, 31, 61, 92, 122, 153, 184, 214, 245, 275>>

\* Mutant: days are counted from January, not from March.
RdnToYmdUnshifted(rdn) ==
  LET z == rdn + 306
      h == 100 * z - 25
      a == h \div 3652425
      b == a - a \div 4
      y == (100 * b + h) \div 36525
      d == b + z - (1461 * y) \div 4
      m == (535 * d + 48950) \div 16384
      wrapped == m > 12
  IN [ok |-> y <= 9999, year |-> y, month |-> IF wrapped THEN m - 12 ELSE m,
      day |-> d - DayOffset[IF wrapped THEN m - 12 ELSE m]]

\* rdn_to_ymd of a day number below 2^24, for which nothing wraps.
RdnToYmd(rdn) ==
  LET z == rdn + 306
      h == 100 * z - 25
      a == h \div 3652425
      b == a - a \div 4
      y == (100 * b + h) \div 36525
      d == b + z - (1461 * y) \div 4
      m == (535 * d + 48950) \div 16384
      year == IF m > 12 THEN y + 1 ELSE y
      month == IF m > 12 THEN m - 12 ELSE m
      ok == year <= 9999 /\ month <= 12 /\ d <= 31 + DayOffset[month]
  IN [ok |-> ok, year |-> year, month |-> month,
      day |-> IF ok THEN d - DayOffset[month] ELSE 0]

\* "rdn = sec / 86400" keeps the low 32 bits of the number of days.
TruncatedDays(days) == days.day

\* The two digits of a field.
TwoDigits(value) == <<value \div 10, value % 10>>

\* The fields of the clock, digit by digit from the last one.
Clock(second) ==
  LET s1 == second \div 10
      m0 == s1 \div 6
      m1 == m0 \div 10
      h0 == m1 \div 6
      h1 == h0 \div 10
  IN <<h1 % 10, h0 % 10, m1 % 6, m0 % 10, s1 % 6, second % 10>>

\* rfc3339_format into a buffer that has room.
FormatTime(days, second) ==
  LET date == RdnToYmd(TruncatedDays(days))
  IN [ok |-> date.ok, date |-> date, clock |-> Clock(second)]

-------------------------------------------------------------------------------
(* The calendar. *)

IsLeap(y) == y % 4 = 0 /\ (y % 100 # 0 \/ y % 400 = 0)
DaysIn(y, m) ==
  CASE m \in {4, 6, 9, 11} -> 30
    [] m = 2 -> IF IsLeap(y) THEN 29 ELSE 28
    [] OTHER -> 31

\* The number of the last day of December before a year.
DaysBefore(y) ==
  LET n == y - 1 IN 365 * n + n \div 4 - n \div 100 + n \div 400
DayNumber(y, m, d) ==
  LET before[k \in 1..m] == IF k = 1 THEN 0 ELSE before[k - 1] + DaysIn(y, k - 1)
  IN DaysBefore(y) + before[m] + d

===============================================================================
