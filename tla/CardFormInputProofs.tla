------------------------- MODULE CardFormInputProofs -------------------------
(***************************************************************************)
(* Proofs about CardFormInput: a form is valid exactly if it is complete,  *)
(* whatever is typed in whatever order and whenever the accepted brands    *)
(* come.                                                                   *)
(***************************************************************************)
EXTENDS CardFormInput, TLAPS

(* The transformers return errors.                                         *)
LEMMA TransformedType ==
  /\ DOMAIN Transformed = Field
  /\ \A f \in Field : Transformed[f] \in Error
<1>1. \A x : Told(x) \in Error
  BY DEF Told, Error
<1>2. NumberError \in Error /\ CvcError \in Error /\ PhoneError \in Error
  BY DEF NumberError, CvcError, PhoneError, Error
<1> QED
  BY <1>1, <1>2 DEF Transformed, Field

(* The types of what a judgement changes.                                  *)
LEMMA TransformType ==
  ASSUME TypeOK, NEW F \in SUBSET Field, NEW now \in BOOLEAN, Transform(F, now)
  PROVE  /\ error' \in [Field -> Error] /\ shown' \subseteq Field
         /\ unjudged' \in BOOLEAN
<1>1. (DOMAIN Transformed = Field /\ \A f \in Field : Transformed[f] \in Error)'
  BY TransformedType, PTL
<1>2. \A f \in Field : Transformed'[f] \in Error
  BY <1>1
<1> QED
  BY <1>2 DEF Transform, TypeOK

(* How a field is judged by what was typed.                                *)
Judged(f) ==
  /\ f = "number" =>
       (valid("number") <=> /\ input.number.digits = "right" /\ brand \in Brand
                            /\ brand \in AcceptedBrands \/ unjudged)
  /\ f = "expiration" => (valid("expiration") <=> input.expiration = "right")
  /\ f = "cvc" => (valid("cvc") <=> input.cvc = cvcLength)
  /\ f = "holderName" => (valid("holderName") <=> input.holderName = "right")
  /\ f = "email" => error["email"] = (IF input.email = "right" THEN "none" ELSE "missing")
  /\ f = "phone" => error["phone"] = PhoneError

(* Which errors are shown: all those that do not wait, and only errors.    *)
Shown(f) ==
  /\ error[f] = "wrong" => f \in shown
  /\ f \in shown => ~valid(f)

(* Only what the form asks for is typed.                                   *)
Extra ==
  /\ input.email # "none" => "email" \in extra
  /\ input.phone # "none" => "phone" \in extra

InputInv ==
  /\ TypeOK
  /\ \A f \in Field : Judged(f) /\ Shown(f)
  /\ Extra
  /\ AllErrorsShown
  /\ fetches <= starts

(* A field that is transformed is judged by what was typed.                *)
LEMMA TransformJudges ==
  TypeOK => \A f \in Field :
    error[f] = Transformed[f] /\ (f = "number" => unjudged = ~known) => Judged(f)
<1> SUFFICES ASSUME TypeOK, NEW f \in Field, error[f] = Transformed[f],
                    f = "number" => unjudged = ~known
             PROVE  Judged(f)
  OBVIOUS
<1>0. input \in Input
  BY DEF TypeOK
<1>1. CASE f = "number"
  <2>1. error[f] = NumberError
    BY <1>1 DEF Transformed
  <2>2. input.number \in Number \cup {NoNumber}
    BY <1>0 DEF Input
  <2>3. CASE input.number = NoNumber
    BY <1>1, <2>1, <2>3 DEF NumberError, NoNumber, Judged, valid
  <2>4. CASE input.number \in Number /\ input.number # NoNumber
    <3>1. /\ input.number.digits \in {"short", "long", "wrong", "right"}
          /\ brand \in Brand \cup {"UNKNOWN"}
      BY <2>4 DEF Number, brand
    <3>2. "UNKNOWN" \notin Brand
      BY DEF Brand
    <3>3. NumberError = "none" <=>
            ~Rejected /\ input.number.digits = "right" /\ brand # "UNKNOWN"
      BY <2>4, <3>1 DEF NumberError
    <3> QED
      BY <1>1, <2>1, <3>1, <3>2, <3>3 DEF Judged, valid, Rejected, TypeOK
  <2> QED
    BY <2>2, <2>3, <2>4
<1>2. CASE f \in {"expiration", "holderName"}
  BY <1>2 DEF Transformed, Told, Judged, valid
<1>3. CASE f = "cvc"
  <2>1. error[f] = CvcError /\ input.cvc \in NoDigits .. 5 /\ cvcLength \in {3, 4}
    BY <1>0, <1>3 DEF Transformed, Input, cvcLength
  <2>2. CvcError = "none" <=> input.cvc = cvcLength
    BY <2>1 DEF CvcError, NoDigits
  <2> QED
    BY <1>3, <2>1, <2>2 DEF Judged, valid
<1>4. CASE f = "email"
  <2>1. error[f] = Told(input.email) /\ input.email \in {"none", "right"}
    BY <1>0, <1>4 DEF Transformed, Input
  <2> QED
    BY <1>4, <2>1 DEF Told, Judged
<1>5. CASE f = "phone"
  BY <1>5 DEF Transformed, Judged
<1> QED
  BY <1>1, <1>2, <1>3, <1>4, <1>5 DEF Field

(* A form begins with fields that are judged.                              *)
LEMMA InputInitial == Init => InputInv
<1> SUFFICES ASSUME Init PROVE InputInv
  OBVIOUS
<1>1. PICK e \in {"none", "right"}, p \in Phone \cup {"none"} :
        /\ e # "none" => "email" \in extra
        /\ p # "none" => "phone" \in extra
        /\ input = [number |-> NoNumber, expiration |-> "none", cvc |-> 0,
                    holderName |-> "none", email |-> e, phone |-> p]
  BY DEF Init
<1>2. input \in Input
  BY <1>1 DEF Input, NoDigits
<1>3. error \in [Field -> Error]
  BY TransformedType DEF Init, Transformed, Field
<1>4. TypeOK
  <2>1. extra \subseteq {"email", "phone"} /\ fetches \in 0 .. MaxStarts
        /\ starts \in 0 .. MaxStarts
    BY ExtrasAssumption, StartsAssumption DEF Init
  <2>2. currentPrimaryElement \in DOMAIN Before
    BY DEF Init, Before
  <2>3. shown \subseteq Field
    BY DEF Init
  <2> QED
    BY <1>2, <1>3, <2>1, <2>2, <2>3 DEF Init, TypeOK
<1>5. ASSUME NEW f \in Field PROVE Judged(f) /\ Shown(f)
  <2>1. CASE f = "number"
    <3>1. input.number = NoNumber
      BY <1>1
    <3>2. ~valid("number") /\ input.number.digits # "right"
      BY <3>1 DEF Init, Transformed, NumberError, NoNumber, valid
    <3> QED
      BY <1>3, <2>1, <3>2 DEF Judged, Shown, Init, Lazy, Error, valid
  <2>2. CASE f # "number"
    <3>1. Judged(f)
      BY <1>4, <2>2, TransformJudges DEF Init
    <3>2. Shown(f)
      BY <1>3 DEF Init, Shown, Lazy, Error, valid
    <3> QED
      BY <3>1, <3>2
  <2> QED
    BY <2>1, <2>2
<1>6. Extra
  BY <1>1 DEF Extra
<1> QED
  BY <1>4, <1>5, <1>6 DEF InputInv, AllErrorsShown, Init

(* The fields that are transformed are judged by the new input, and the    *)
(* others as before if what they depend on is unchanged.                   *)
LEMMA TransformKeeps ==
  ASSUME InputInv, TypeOK', Extra', NEW F \in SUBSET Field, NEW now \in BOOLEAN,
         Transform(F, now), UNCHANGED <<known, fetches, starts>>,
         "number" \notin F => UNCHANGED input.number,
         "cvc" \notin F => UNCHANGED <<input.cvc, brand>>,
         "phone" \notin F => UNCHANGED <<input.phone, country>>,
         \A f \in {"expiration", "holderName", "email"} \ F : input'[f] = input[f],
         showErrorImmediately' => now /\ (F = Field \/ showErrorImmediately)
  PROVE  InputInv'
<1>0. TypeOK /\ (\A f \in Field : Judged(f) /\ Shown(f)) /\ AllErrorsShown
  BY DEF InputInv
<1>10. (TypeOK => \A f \in Field :
           error[f] = Transformed[f] /\ (f = "number" => unjudged = ~known) => Judged(f))'
  BY TransformJudges, PTL
<1>1. ASSUME NEW f \in F PROVE Judged(f)'
  <2>1. error'[f] = Transformed'[f] /\ (f = "number" => unjudged' = ~known')
    BY <1>1 DEF Transform
  <2> QED
    BY <1>10, <1>1, <2>1
<1>2. ASSUME NEW f \in Field \ F PROVE Judged(f)'
  <2>1. error'[f] = error[f] /\ Judged(f) /\ (f = "number" => unjudged' = unjudged)
    BY <1>0, <1>2 DEF Transform
  <2> QED
    <3>1. CASE f = "number"
      BY <1>2, <2>1, <3>1 DEF Judged, valid, brand
    <3>2. CASE f = "cvc"
      BY <1>2, <2>1, <3>2 DEF Judged, valid, cvcLength
    <3>3. CASE f = "phone"
      BY <1>2, <2>1, <3>3 DEF Judged, valid, PhoneError
    <3>4. CASE f \in {"expiration", "holderName", "email"}
      <4>1. input'[f] = input[f]
        BY <1>2, <3>4
      <4> QED
        BY <2>1, <3>4, <4>1 DEF Judged, valid
    <3> QED
      BY <3>1, <3>2, <3>3, <3>4 DEF Field
<1>3. ASSUME NEW f \in Field PROVE Shown(f)'
  BY <1>0, <1>3 DEF Transform, Shown, valid, Lazy
<1>4. AllErrorsShown'
  <2> SUFFICES ASSUME showErrorImmediately' PROVE shown' = {f \in Field : ~valid(f)'}
    BY DEF AllErrorsShown
  <2>1. ASSUME NEW f \in F PROVE f \in shown' <=> ~valid(f)'
    BY <2>1 DEF Transform, valid
  <2>2. ASSUME NEW f \in Field \ F PROVE f \in shown' <=> ~valid(f)'
    BY <1>0, <2>2 DEF Transform, valid, AllErrorsShown
  <2>3. shown' \subseteq Field
    BY DEF TypeOK
  <2> QED
    BY <2>1, <2>2, <2>3
<1> QED
  BY <1>1, <1>2, <1>3, <1>4 DEF InputInv

(* Every step keeps the judgements up to date.                             *)
LEMMA InputStep == InputInv /\ [Next]_vars => InputInv'
<1> SUFFICES ASSUME InputInv, [Next]_vars PROVE InputInv'
  OBVIOUS
<1> USE DEF fields, brands
<1>0. TypeOK /\ Extra /\ input \in Input
  BY DEF InputInv, TypeOK
<1>1. ASSUME TypeOK', fetches' <= starts', UNCHANGED <<extra, fields, country>> PROVE InputInv'
  <2>1. \A f \in Field : Judged(f)' /\ Shown(f)'
    BY <1>1 DEF InputInv, Judged, Shown, valid, brand, cvcLength, PhoneError
  <2> QED
    BY <1>1, <2>1 DEF InputInv, Extra, AllErrorsShown, valid
<1>2. ASSUME NEW f \in Asked, NEW x \in Typed[f], inputComponent(f, x) PROVE InputInv'
  <2> DEFINE F == IF f = "number" /\ x.brand # brand THEN {"number", "cvc"} ELSE {f}
  <2>1. f \in Field /\ F \in SUBSET Field
    BY DEF Asked, Field
  <2>2. /\ Transform(F, FALSE) /\ showErrorImmediately' = FALSE
        /\ input' = [input EXCEPT ![f] = x] /\ UNCHANGED <<extra, country, brands, life, starts>>
    BY <1>2 DEF inputComponent
  <2>3. input' \in Input
    BY <1>0, <2>1, <2>2, TypedAssumption DEF Input, Field
  <2>4. currentPrimaryElement' \in DOMAIN Before
    BY <1>0, <1>2 DEF inputComponent, TypeOK
  <2>5. TypeOK'
    BY <1>0, <2>1, <2>2, <2>3, <2>4, TransformType DEF TypeOK
  <2>6. Extra'
    BY <1>0, <2>1, <2>2 DEF Extra, Asked, Input
  <2>7. /\ "number" \notin F => UNCHANGED input.number
        /\ "cvc" \notin F => UNCHANGED <<input.cvc, brand>>
        /\ "phone" \notin F => UNCHANGED <<input.phone, country>>
        /\ \A g \in {"expiration", "holderName", "email"} \ F : input'[g] = input[g]
    BY <1>0, <2>1, <2>2 DEF Input, brand
  <2> QED
    BY <2>1, <2>2, <2>5, <2>6, <2>7, TransformKeeps
<1>3. ASSUME NEW c \in Country, selectCountryCode(c) PROVE InputInv'
  <2>1. /\ Transform({"phone"}, showErrorImmediately) /\ country' = c
        /\ UNCHANGED <<extra, input, showErrorImmediately, currentPrimaryElement, brands, life,
                       starts>>
    BY <1>3 DEF selectCountryCode
  <2>2. TypeOK' /\ {"phone"} \in SUBSET Field
    BY <1>0, <2>1, TransformType DEF TypeOK, Field
  <2>3. Extra'
    BY <1>0, <2>1 DEF Extra
  <2>4. showErrorImmediately \in BOOLEAN
    BY <1>0 DEF TypeOK
  <2> QED
    BY <2>1, <2>2, <2>3, <2>4, TransformKeeps DEF brand
<1>4. CASE validate
  <2>1. /\ Transform(Field, TRUE) /\ showErrorImmediately' = TRUE
        /\ UNCHANGED <<extra, input, country, currentPrimaryElement, brands, life, starts>>
    BY <1>4 DEF validate
  <2>2. TypeOK'
    BY <1>0, <2>1, TransformType DEF TypeOK
  <2>3. Extra'
    BY <1>0, <2>1 DEF Extra
  <2> QED
    BY <2>1, <2>2, <2>3, TransformKeeps DEF Field
<1>5. CASE onStart \/ Stop \/ onCleared \/ BrandsFetched \/ BrandsFailed \/ UNCHANGED vars
  <2>0. fetches \in Nat /\ starts \in Nat /\ starts <= MaxStarts /\ MaxStarts \in Nat
        /\ fetches <= starts
    BY <1>0, StartsAssumption DEF TypeOK, InputInv
  <2>1. UNCHANGED <<extra, fields, country>>
    BY <1>5 DEF onStart, Stop, onCleared, BrandsFetched, BrandsFailed, vars
  <2>2. /\ fetches' \in Nat /\ starts' \in Nat
        /\ fetches' <= starts' /\ starts' <= MaxStarts
    BY <1>5, <2>0 DEF onStart, fetchAcceptedBrands, Stop, onCleared, BrandsFetched,
       BrandsFailed, vars
  <2>3. /\ life' \in {"stopped", "started", "destroyed"} /\ known' \in BOOLEAN
        /\ currentPrimaryElement' = currentPrimaryElement
    BY <1>0, <1>5 DEF TypeOK, onStart, Stop, onCleared, BrandsFetched, BrandsFailed, vars
  <2>4. oneOff' \subseteq {"success", "error"} /\ told' \subseteq {"success", "error"}
    BY <1>0, <1>5 DEF TypeOK, onStart, Stop, onCleared, BrandsFetched, BrandsFailed, Tell, vars
  <2>5. TypeOK'
    BY <1>0, <2>0, <2>1, <2>2, <2>3, <2>4 DEF TypeOK
  <2> QED
    BY <1>1, <2>1, <2>2, <2>5
<1> QED
  BY <1>2, <1>3, <1>4, <1>5 DEF Next, Edit

(* A form of judged fields is valid exactly if it is complete.             *)
LEMMA JudgedComplete == InputInv => ValidIsTrue
<1> SUFFICES ASSUME InputInv PROVE isValid <=> Complete
  BY DEF ValidIsTrue
<1>0. TypeOK /\ Extra /\ input \in Input /\ error \in [Field -> Error]
  BY DEF InputInv, TypeOK
<1>1. \A f \in Field : Judged(f) /\ Shown(f)
  BY DEF InputInv
<1>2. /\ valid("number") <=> /\ input.number.digits = "right" /\ brand \in Brand
                             /\ brand \in AcceptedBrands \/ unjudged
      /\ valid("expiration") <=> input.expiration = "right"
      /\ valid("cvc") <=> input.cvc = cvcLength
      /\ valid("holderName") <=> input.holderName = "right"
  BY <1>1 DEF Judged, Field
<1>3. brand \in Brand => cvcLength = (IF brand = "AMEX" THEN 4 ELSE 3)
  BY DEF cvcLength, Brand
<1>4. /\ valid("email") <=> input.email = "right"
      /\ "email" \in shown => error["email"] = "missing"
  BY <1>1 DEF Judged, Shown, valid, Field
<1>5. /\ valid("phone") <=> input.phone # "none" /\ input.phone \in PhonesOf[country]
      /\ ("phone" \in shown => error["phone"] = "missing") <=>
            input.phone \in PhonesOf[country] \cup {"none"}
  BY <1>0, <1>1 DEF Judged, Shown, valid, Field, PhoneError, Error
<1>6. (IF extra = {"email", "phone"} THEN EmailOrPhone ELSE \A f \in extra : valid(f)) <=>
        /\ "phone" \in extra => input.phone \in PhonesOf[country] \cup {"none"}
        /\ extra # {} => \/ "email" \in extra /\ input.email = "right"
                         \/ "phone" \in extra /\ input.phone # "none"
  <2>0. extra \subseteq {"email", "phone"}
    BY <1>0 DEF TypeOK
  <2>1. CASE extra = {"email", "phone"}
    BY <1>4, <1>5, <2>1 DEF EmailOrPhone
  <2>2. CASE extra = {"email"}
    BY <1>4, <2>2
  <2>3. CASE extra = {"phone"}
    BY <1>5, <2>3
  <2>4. CASE extra = {}
    BY <2>4
  <2> QED
    BY <2>0, <2>1, <2>2, <2>3, <2>4
<1> QED
  BY <1>2, <1>3, <1>6 DEF isValid, Complete

(* CardFormViewModel's state keeps its type.                               *)
THEOREM TypeCorrect == Spec => []TypeOK
<1>1. InputInv => TypeOK
  BY DEF InputInv
<1> QED
  BY <1>1, InputInitial, InputStep, PTL DEF Spec

(* A form is valid, and sent, exactly if it is complete.                   *)
THEOREM ValidIsTrueHolds == Spec => []ValidIsTrue
  BY JudgedComplete, InputInitial, InputStep, PTL DEF Spec

(* All errors of a validated form are shown until the next input.          *)
THEOREM AllErrorsShownHolds == Spec => []AllErrorsShown
<1>1. InputInv => AllErrorsShown
  BY DEF InputInv
<1> QED
  BY <1>1, InputInitial, InputStep, PTL DEF Spec

(* Before the primary element there are valid ones, and it needs input.    *)
LEMMA PrimaryNeedsInput ==
  \A e \in DOMAIN Before, f \in Field :
    Primary(e) => /\ ElementOf(f) \in Before[e] => valid(f)
                  /\ ElementOf(f) = e /\ f \notin {"email", "phone"} => ~valid(f)
<1> SUFFICES ASSUME NEW e \in DOMAIN Before, NEW f \in Field, Primary(e)
             PROVE  /\ ElementOf(f) \in Before[e] => valid(f)
                    /\ ElementOf(f) = e /\ f \notin {"email", "phone"} => ~valid(f)
  OBVIOUS
<1>1. ElementOf(f) \in Before[e] => ElementOf(f) = f
  BY DEF Before, ElementOf, Field
<1>2. ASSUME ElementOf(f) = e, f \notin {"email", "phone"}
      PROVE  ~valid(f)
  <2>1. e = f /\ e # "none" /\ e # "contact"
    BY <1>2 DEF ElementOf, Field
  <2>2. PICK g \in Field : ElementOf(g) = e /\ ~valid(g)
    BY <2>1 DEF Primary
  <2>3. g = f
    BY <2>1, <2>2 DEF ElementOf
  <2> QED
    BY <2>2, <2>3
<1> QED
  BY <1>1, <1>2 DEF Primary

(* The form moves on past valid elements to one that needs input, judged   *)
(* as the input has just left them (getPrimaryInput).                      *)
THEOREM MovesToInvalidHolds == Spec => MovesToInvalid
<1> DEFINE Moved ==
      currentPrimaryElement' # currentPrimaryElement =>
        \A f \in Field :
          /\ ElementOf(f) \in Before[currentPrimaryElement'] => valid(f)'
          /\ ElementOf(f) = currentPrimaryElement' /\ f \notin {"email", "phone"} => ~valid(f)'
<1>1. (\A e \in DOMAIN Before, f \in Field :
         Primary(e) => /\ ElementOf(f) \in Before[e] => valid(f)
                       /\ ElementOf(f) = e /\ f \notin {"email", "phone"} => ~valid(f))'
  BY PrimaryNeedsInput, PTL
<1>2. ASSUME NEW f \in Asked, NEW x \in Typed[f], inputComponent(f, x)
      PROVE  Moved
  <2> SUFFICES ASSUME currentPrimaryElement' # currentPrimaryElement
               PROVE  Moved
    OBVIOUS
  <2>1. currentPrimaryElement' \in {e \in DOMAIN Before : Primary(e)'}
    BY <1>2 DEF inputComponent
  <2>2. PICK e \in DOMAIN Before : e = currentPrimaryElement' /\ Primary(e)'
    BY <2>1
  <2> QED
    BY <1>1, <2>2
<1>3. [Next]_vars => [Moved]_vars
  <2>1. ASSUME NEW c \in Country, selectCountryCode(c)
        PROVE  Moved
    BY <2>1 DEF selectCountryCode
  <2>2. ASSUME validate \/ onStart \/ Stop \/ onCleared \/ BrandsFetched \/ BrandsFailed
        PROVE  Moved
    BY <2>2 DEF validate, onStart, Stop, onCleared, BrandsFetched, BrandsFailed
  <2> QED
    BY <1>2, <2>1, <2>2 DEF Next, Edit
<1> QED
  BY <1>3, PTL DEF Spec, MovesToInvalid
=============================================================================
