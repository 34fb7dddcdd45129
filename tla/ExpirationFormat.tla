-------------------------- MODULE ExpirationFormat --------------------------
(***************************************************************************)
(* CardExpirationFormatTextWatcher: what becomes of the text of an         *)
(* expiration after a change that has left the text s (see NumberFormat).  *)
(***************************************************************************)
EXTENDS NumberFormat

DELIMITER_INDEX == 2
TOTAL_MAX_DIGITS == 4
TOTAL_MAX_SYMBOLS == 5

ExpirationCorrect(s, start, inserted) ==
  /\ Len(s) <= TOTAL_MAX_SYMBOLS
  /\ ~(Len(s) = 2 /\ inserted > 0)
  /\ ~(inserted = 0 /\ start = Len(s) /\ Len(s) \in {2, 3})
  /\ \A i \in DOMAIN s : i - 1 = DELIMITER_INDEX <=> s[i] = Delimiter
  /\ s # <<>> => s[1] \in {0, 1}

(* A month that begins with neither 0 nor 1 gets a 0, also where there is  *)
(* none.  What is then the fifth digit is dropped.                         *)
ExpirationBuilt(s, start, inserted) ==
  LET typed == Digits(s)
      zero == IF typed = <<>> \/ Head(typed) > 1 THEN <<0>> ELSE <<>>
      d == SubSeq(zero \o typed, 1,
                  IF Len(zero \o typed) < TOTAL_MAX_DIGITS THEN Len(zero \o typed)
                  ELSE TOTAL_MAX_DIGITS)
      skipped == inserted = 0 /\ start = Len(s) /\ start \in {2, 3}
      text == IF Len(d) < 2 \/ skipped THEN d
              ELSE SubSeq(d, 1, 2) \o <<Delimiter>> \o SubSeq(d, 3, Len(d))
  IN  IF Len(text) = 2 /\ start = 2 /\ inserted = 0 THEN Front(text) ELSE text

(* afterTextChanged; the framework places the cursor.                      *)
ExpirationChanged(s, start, inserted) ==
  IF ExpirationCorrect(s, start, inserted) THEN s ELSE ExpirationBuilt(s, start, inserted)
=============================================================================
