--------------------------- MODULE CardExpiration ---------------------------
(***************************************************************************)
(* CardExpirationProcessor: the date that a month and two digits of a year *)
(* mean, and whether it has passed.  "now" is the year and the month of    *)
(* the device's calendar.                                                  *)
(***************************************************************************)
EXTENDS Integers

validateMonth(month) == month \in 1 .. 12

(* Faulty: a year is always in the current century.                        *)
expandInCentury(year, now) == (now.year \div 100) * 100 + year

expandTwoDigitsYearToFour(year, now) ==
  LET current == now.year \div 100
      century == IF now.year % 100 > 80 /\ year < 20 THEN current + 1
                 ELSE IF now.year % 100 < 20 /\ year > 80 THEN current - 1
                 ELSE current
  IN  century * 100 + year

expired(month, fullYear, now) ==
  \/ fullYear < now.year
  \/ fullYear = now.year /\ month < now.month

(* A card expiration, or null.                                             *)
processCardExpiration(month, year, now) ==
  LET fullYear == expandTwoDigitsYearToFour(year, now)
  IN  validateMonth(month) /\ ~expired(month, fullYear, now)
=============================================================================
