--------------------------- MODULE CardFormField ----------------------------
(***************************************************************************)
(* A text field of the card form that formats what is typed: the number or *)
(* the expiration, each with its text watcher.  Every change of the text,  *)
(* the watcher's own included, first reaches the view model, whose brand   *)
(* is the one the watcher of the number uses.                              *)
(*                                                                         *)
(* When the screen is created again its watcher is a new one that knows no *)
(* brand until the fragment starts, and the text is restored before that.  *)
(***************************************************************************)
EXTENDS ExpirationFormat, CardExpiration

CONSTANTS
  Kinds,    (* the fields: among "number" and "expiration"                  *)
  Pieces,   (* bound: field -> what is put into it at once                  *)
  Keys,     (* bound: field -> the digits that are typed one at a time      *)
  Dates,    (* field -> the years and months it may be                      *)
  MaxEdits  (* bound: changes of the text                                   *)

ASSUME FieldAssumption ==
  /\ Kinds \subseteq {"number", "expiration"}
  /\ DOMAIN Pieces = Kinds /\ \A k \in Kinds : Pieces[k] \subseteq Seq(Digit)
  /\ Keys \in [Kinds -> SUBSET Digit]
  /\ MaxEdits \in Nat
ASSUME DatesAssumption ==
  \A k \in Kinds : \A date \in Dates[k] :
    date \in [year: Nat, month: 1 .. 12] /\ date.year >= 100

VARIABLES
  kind,
  now,
  text,     (* digits and delimiters                                        *)
  cursor,   (* the symbols before it                                        *)
  brand,    (* the brand of CardNumberFormatTextWatcher                     *)
  restored, (* the text has been restored and not changed since             *)
  edits,
  meant     (* history: the digits, and how many are before the cursor,     *)
            (* that the user means the text to have                         *)

vars == <<kind, now, text, cursor, brand, restored, edits, meant>>

Init ==
  /\ kind \in Kinds
  /\ now \in Dates[kind]
  /\ text = <<>>
  /\ cursor = 0
  /\ brand = "UNKNOWN"
  /\ restored = FALSE
  /\ edits = 0
  /\ meant = [digits |-> <<>>, ahead |-> 0]

-----------------------------------------------------------------------------
(* The listeners of a change that has left the text s and the cursor c.    *)

(* Faulty: the watcher formats with the brand of the text before.          *)
ChangedWithOldBrand(s, start, inserted, c) ==
  LET field == NumberChanged(s, start, inserted, c, brand)
  IN  IF kind = "number"
      THEN /\ text' = field.text
           /\ cursor' = field.cursor
           /\ brand' = detectWithDigits(Digits(field.text))
      ELSE /\ text' = ExpirationChanged(s, start, inserted)
           /\ cursor' \in 0 .. Len(text')
           /\ brand' = brand

Changed(s, start, inserted, c) ==
  LET field == NumberChanged(s, start, inserted, c, detectWithDigits(Digits(s)))
  IN  IF kind = "number"
      THEN /\ text' = field.text
           /\ cursor' = field.cursor
           /\ brand' = detectWithDigits(Digits(field.text))
      ELSE /\ text' = ExpirationChanged(s, start, inserted)
           /\ cursor' \in 0 .. Len(text')
           /\ brand' = brand

(* No such selection: setSelection throws, and the program is over.        *)
Crashed == cursor > Len(text)

Ahead(s, c) == Len(Digits(SubSeq(s, 1, c)))

(* A change by the user that is meant to leave these digits.               *)
Edit(s, start, inserted, c, digits, ahead) ==
  /\ ~Crashed
  /\ edits < MaxEdits
  /\ edits' = edits + 1
  /\ Changed(s, start, inserted, c)
  /\ restored' = FALSE
  /\ meant' = [digits |-> digits, ahead |-> ahead]
  /\ UNCHANGED <<kind, now>>

(* A digit is typed.                                                       *)
Typed(p, d) ==
  LET s == InsertAt(text, p + 1, d)
  IN  Edit(s, p, 1, p + 1, Digits(s), Ahead(s, p + 1))

(* The symbol after s, a delimiter, comes and goes with the digit before.  *)
EndsGroup(s) ==
  IF kind = "number" THEN Len(s) \in getDelimiterPositions(detectWithDigits(Digits(s)))
  ELSE Len(s) = DELIMITER_INDEX

(* A symbol is deleted.  With the delimiter at the end, the digit before   *)
(* it is meant.                                                            *)
Deleted(p) ==
  LET s == RemoveAt(text, p + 1)
      digits == IF p = Len(s) /\ text[p + 1] = Delimiter /\ EndsGroup(s)
                THEN Front(Digits(s)) ELSE Digits(s)
      ahead == Ahead(s, p)
  IN  Edit(s, p, 0, p, digits, IF ahead > Len(digits) THEN Len(digits) ELSE ahead)

(* Digits are pasted into an empty field.                                  *)
Pasted(s) ==
  /\ text = <<>>
  /\ Edit(s, 0, Len(s), Len(s), s, Len(s))

(* The card scanner sets the text.                                         *)
Scanned(s) ==
  /\ kind = "number"
  /\ Edit(s, 0, Len(s), 0, s, 0)

(* The screen is created again; the cursor is restored after the text.     *)
Restored ==
  /\ ~Crashed
  /\ text # <<>>
  /\ ~restored
  /\ restored' = TRUE
  /\ IF kind = "number"
     THEN text' = NumberChanged(text, 0, Len(text), 0, "UNKNOWN").text
     ELSE text' = ExpirationChanged(text, 0, Len(text))
  /\ cursor' = IF cursor <= Len(text') THEN cursor ELSE 0
  /\ brand' = IF kind = "number" THEN detectWithDigits(Digits(text')) ELSE brand
  /\ UNCHANGED <<kind, now, edits, meant>>

Next ==
  \/ \E p \in 0 .. Len(text), d \in Keys[kind] : Typed(p, d)
  \/ \E p \in 0 .. Len(text) - 1 : Deleted(p)
  \/ \E s \in Pieces[kind] : Pasted(s)
  \/ \E s \in Pieces[kind] : Scanned(s)
  \/ Restored

Spec == Init /\ [][Next]_vars

-----------------------------------------------------------------------------
(* How the expiration is judged (CardExpirationInputTransformer).  As the  *)
(* watcher leaves it, a text has its delimiter after two digits.           *)

Two(i) == 10 * text[i] + text[i + 1]

ExpirationError ==
  IF Len(text) = 0 THEN "missing"
  ELSE IF Len(text) < 3 THEN "unfinished"
  ELSE IF ~validateMonth(Two(1)) THEN "wrong"
  ELSE IF Len(text) < 5 THEN "unfinished"
  ELSE IF ~processCardExpiration(Two(1), Two(4), now) THEN "wrong"
  ELSE "none"

-----------------------------------------------------------------------------
(* What the text and the cursor are.                                       *)
TypeOK ==
  /\ kind \in Kinds
  /\ now \in Dates[kind]
  /\ text \in Seq(Digit \cup {Delimiter})
  /\ Len(text) <= 19
  /\ cursor \in Nat
  /\ brand \in Brand \cup {"UNKNOWN"}
  /\ restored \in BOOLEAN
  /\ edits \in 0 .. MaxEdits
  /\ meant.digits \in Seq(Digit)
  /\ meant.ahead \in Nat

(* The text always fits its own digits: those of a number are divided, and *)
(* limited, as the brand they tell has it, even when the change is what    *)
(* makes another brand of them; those of an expiration are a month that    *)
(* can begin so and a year (isInputCorrect, buildCorrectString).  A number *)
(* that has been restored has the digits of its brand, but is divided as   *)
(* one of no brand until it is changed (PayjpCardFormFragment.setUpUI).    *)
Formatted ==
  IF kind = "number"
  THEN LET layout == IF restored THEN "UNKNOWN" ELSE brand
       IN  /\ brand = detectWithDigits(Digits(text))
           /\ Divided(text, layout)
           /\ Len(text) <= LengthMax(layout)
           /\ Len(Digits(text)) <= numberLength(brand)
  ELSE /\ Len(text) <= TOTAL_MAX_SYMBOLS
       /\ \A i \in DOMAIN text : i = 3 <=> text[i] = Delimiter
       /\ text # <<>> => text[1] \in {0, 1}

(* Formatting never loses, repeats or moves a digit: the text has the      *)
(* digits that are meant, up to the limit, also once it is restored; an    *)
(* expiration at most has a 0 before them (createDigitArray).              *)
DigitsKept ==
  LET kept(m) == IF kind = "number"
                 THEN SubSeq(m, 1, IF Len(m) < numberLength(detectWithDigits(m))
                                   THEN Len(m) ELSE numberLength(detectWithDigits(m)))
                 ELSE SubSeq(m, 1, IF Len(m) < TOTAL_MAX_DIGITS
                                   THEN Len(m) ELSE TOTAL_MAX_DIGITS)
  IN  \/ Digits(text) = kept(meant.digits)
      \/ kind = "expiration" /\ Digits(text) = kept(<<0>> \o meant.digits)

(* A change by hand of a text that is divided as its brand has it, a       *)
(* restored one too, leaves the cursor in the text, behind the same digit  *)
(* as before it was formatted or at the end (getAdjustedCursorPosition).   *)
CursorKept ==
  [][kind = "number" /\ Divided(text, brand) /\ ~restored'
       => /\ ~Crashed'
          /\ \/ Ahead(text', cursor') = meant'.ahead
             \/ meant'.ahead > Len(Digits(text')) /\ cursor' = Len(text')]_vars

(* A number that is accepted is accepted no more once one of its digits is *)
(* mistyped or two neighbours, other than 0 and 9, are swapped, as long as *)
(* it is a number of that brand (isLuhnValid).                             *)
MistypedIsRejected ==
  LET digits == Digits(text)
  IN  kind = "number" /\ NumberAccepted(digits) =>
        /\ \A i \in DOMAIN digits, d \in Digit :
             d # digits[i] => ~NumberAccepted([digits EXCEPT ![i] = d])
        /\ \A i \in 1 .. Len(digits) - 1 :
             LET a == digits[i]
                 b == digits[i + 1]
             IN  a # b /\ {a, b} # {0, 9}
                   => ~NumberAccepted([digits EXCEPT ![i] = b, ![i + 1] = a])

(* A finished expiration that is meant to be less than twenty years away   *)
(* is accepted just when it is a month that has not passed, across the end *)
(* of a century too (expandTwoDigitsYearToFour).                           *)
ExpirationJudged ==
  kind = "expiration" /\ Len(text) = 5 =>
    \A k \in -19 .. 19 :
      (now.year + k) % 100 = Two(4)
        => (ExpirationError = "none"
              <=> Two(1) \in 1 .. 12 /\ (k > 0 \/ (k = 0 /\ Two(1) >= now.month)))
=============================================================================
