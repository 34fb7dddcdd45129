---------------------------- MODULE NumberFormat ----------------------------
(***************************************************************************)
(* CardNumberFormatTextWatcher: what becomes of the text of a number, and  *)
(* of its cursor, after a change that has left the text s.  The change     *)
(* replaced what followed the first "start" symbols by "inserted" new      *)
(* ones.                                                                   *)
(***************************************************************************)
EXTENDS CardNumbers

Delimiter == 10

Digits(s) ==
  LET upTo[n \in 0 .. Len(s)] ==
        IF n = 0 THEN <<>>
        ELSE IF s[n] = Delimiter THEN upTo[n - 1] ELSE Append(upTo[n - 1], s[n])
  IN  upTo[Len(s)]

getDelimiterPositions(brand) ==
  IF brand \in {"AMEX", "DINERS_CLUB"} THEN {4, 11} ELSE {4, 9, 14}

LengthMax(brand) == numberLength(brand) + Cardinality(getDelimiterPositions(brand))

(* The symbols of s are where the delimiters divide them.                  *)
Divided(s, brand) ==
  \A i \in DOMAIN s : i - 1 \in getDelimiterPositions(brand) <=> s[i] = Delimiter

(* Faulty: the last digit of a group stays when the delimiter after it is  *)
(* deleted.                                                                *)
isInputCorrectKeeping(s, start, inserted, brand) ==
  /\ Len(s) <= LengthMax(brand)
  /\ ~(Len(s) \in getDelimiterPositions(brand) /\ inserted > 0)
  /\ Divided(s, brand)

isInputCorrect(s, start, inserted, brand) ==
  LET P == getDelimiterPositions(brand)
  IN  /\ Len(s) <= LengthMax(brand)
      /\ ~(Len(s) \in P /\ inserted > 0)
      /\ ~(inserted = 0 /\ start = Len(s) /\ {Len(s), Len(s) - 1} \cap P # {})
      /\ Divided(s, brand)

(* Faulty: no digit is dropped.                                            *)
buildCorrectStringUnlimited(s, start, inserted, brand) ==
  LET P == getDelimiterPositions(brand)
      d == Digits(s)
      upTo[i \in 0 .. Len(d)] ==
        IF i = 0 THEN <<>>
        ELSE LET u == Append(upTo[i - 1], d[i])
             IN  IF Len(u) \in P THEN Append(u, Delimiter) ELSE u
  IN  upTo[Len(d)]

(* A delimiter follows each group of digits, also the last one; not when   *)
(* that delimiter, or the digit after it, has just been deleted.           *)
buildCorrectString(s, start, inserted, brand) ==
  LET P == getDelimiterPositions(brand)
      max == numberLength(brand)
      d == SubSeq(Digits(s), 1, IF Len(Digits(s)) < max THEN Len(Digits(s)) ELSE max)
      Skipped(n) == inserted = 0 /\ start \in {n, n + 1} \cap {Len(s), Len(s) + 1}
      upTo[i \in 0 .. Len(d)] ==
        IF i = 0 THEN <<>>
        ELSE LET u == Append(upTo[i - 1], d[i])
             IN  IF Len(u) \in P /\ i < max /\ ~Skipped(Len(u)) THEN Append(u, Delimiter)
                 ELSE u
      text == upTo[Len(d)]
  IN  IF Len(text) \in P /\ start = Len(text) /\ inserted = 0 THEN Front(text) ELSE text

(* Faulty: a delimiter that is put before the cursor does not move it.      *)
getAdjustedCursorPositionUnmoved(s, text, cursor, brand) ==
  IF cursor = Len(s) THEN Len(text) ELSE cursor

getAdjustedCursorPosition(s, text, cursor, brand) ==
  LET before == Cardinality({i \in 1 .. cursor : s[i] = Delimiter})
      now == Cardinality({p \in getDelimiterPositions(brand) : p < cursor})
  IN  IF cursor = Len(s) THEN Len(text)
      ELSE IF now > before THEN cursor + (now - before) ELSE cursor

(* afterTextChanged.                                                       *)
NumberChanged(s, start, inserted, cursor, brand) ==
  IF isInputCorrect(s, start, inserted, brand) THEN [text |-> s, cursor |-> cursor]
  ELSE LET text == buildCorrectString(s, start, inserted, brand)
       IN  [text |-> text, cursor |-> getAdjustedCursorPosition(s, text, cursor, brand)]
=============================================================================
