--------------------------- MODULE MCCardFormInput ---------------------------
(***************************************************************************)
(* CardFormInput for TLC: an accepted brand of each length of the CVC, one *)
(* that is not accepted and an unknown one; a phone number that is valid   *)
(* in one of two countries.                                                *)
(***************************************************************************)
EXTENDS CardFormInput

MCTyped ==
  [number |-> {NoNumber, [brand |-> "VISA", digits |-> "right"],
               [brand |-> "AMEX", digits |-> "right"], [brand |-> "JCB", digits |-> "right"],
               [brand |-> "UNKNOWN", digits |-> "short"]},
   expiration |-> {"past", "right"},
   cvc |-> {NoDigits, 3, 4},
   holderName |-> {"right"},
   email |-> {"none", "right"},
   phone |-> {"none", "p1"}]

MCPhonesOf == [c \in Country |-> IF c = "JP" THEN {"p1"} ELSE {}]
=============================================================================
