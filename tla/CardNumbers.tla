---------------------------- MODULE CardNumbers -----------------------------
(***************************************************************************)
(* The number of a card: the brand its first digits tell (CardBrand,       *)
(* CardBrandDetector), and whether it can be the number of a card          *)
(* (CardNumberValidator, CardNumberInputTransformer).                      *)
(***************************************************************************)
EXTENDS Integers, FiniteSets, SequencesExt

Digit == 0 .. 9

(* No digits of one brand begin with those of another.                     *)
Leading ==
  [VISA        |-> {<<4>>},
   MASTER_CARD |-> {<<5, d>> : d \in 1 .. 5} \cup {<<2, d>> : d \in 2 .. 7},
   JCB         |-> {<<3, 5, 2, d>> : d \in 8 .. 9} \cup {<<3, 5, d>> : d \in 3 .. 8},
   AMEX        |-> {<<3, 4>>, <<3, 7>>},
   DINERS_CLUB |-> {<<3, 0, d>> : d \in 0 .. 5} \cup {<<3, 6>>, <<3, 8>>},
   DISCOVER    |-> {<<6, 0, 1, 1>>, <<6, 5>>}]

Brand == DOMAIN Leading

LedBy(digits, brand) == \E lead \in Leading[brand] : IsPrefix(lead, digits)

detectWithDigits(digits) ==
  LET detected == {brand \in Brand : LedBy(digits, brand)}
  IN  IF detected = {} THEN "UNKNOWN" ELSE CHOOSE brand \in detected : TRUE

numberLength(brand) ==
  IF brand = "DINERS_CLUB" THEN 14 ELSE IF brand = "AMEX" THEN 15 ELSE 16

(* Faulty: what is left of a doubled digit above nine is not summed up.    *)
isLuhnValidTruncated(digits) ==
  LET sum[n \in 0 .. Len(digits)] ==
        IF n = 0 THEN 0
        ELSE LET d == digits[Len(digits) + 1 - n]
             IN  sum[n - 1] + IF n % 2 = 1 THEN d ELSE (2 * d) % 10
  IN  sum[Len(digits)] % 10 = 0

Doubled(d) == IF 2 * d > 9 THEN 2 * d - 9 ELSE 2 * d

(* From the last digit to the first one, every other digit is doubled.     *)
isLuhnValid(digits) ==
  LET sum[n \in 0 .. Len(digits)] ==
        IF n = 0 THEN 0
        ELSE LET d == digits[Len(digits) + 1 - n]
             IN  sum[n - 1] + IF n % 2 = 1 THEN d ELSE Doubled(d)
  IN  sum[Len(digits)] % 10 = 0

(* The number is one that a card can have.                                 *)
NumberAccepted(digits) ==
  LET brand == detectWithDigits(digits)
  IN  brand # "UNKNOWN" /\ Len(digits) = numberLength(brand) /\ isLuhnValid(digits)
=============================================================================
