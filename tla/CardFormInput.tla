--------------------------- MODULE CardFormInput ----------------------------
(***************************************************************************)
(* The input of a card form: CardFormViewModel with the transformers that  *)
(* judge each field, and the card form fragment that starts it.            *)
(*                                                                         *)
(* A field is judged when it is typed, and again when something its        *)
(* judgement depends on has changed: the CVC depends on the brand of the   *)
(* number, the phone number on the country, the number on the accepted     *)
(* brands, which may be fetched meanwhile.  What is typed is abstracted to *)
(* what the transformers tell apart.                                       *)
(***************************************************************************)
EXTENDS Integers

CONSTANTS
  Extras,         (* the extraAttributes a form may have                    *)
  Typed,          (* bound: field -> what is typed into it                  *)
  Phone,          (* phone numbers that are not empty                       *)
  Country,        (* country codes                                          *)
  PhonesOf,       (* country -> the phone numbers that are valid there      *)
  AcceptedBrands, (* what the service accepts                               *)
  MaxStarts       (* bound: times the fragment is started                   *)

Brand == {"VISA", "MASTER_CARD", "JCB", "AMEX", "DINERS_CLUB", "DISCOVER"}

NoNumber == [brand |-> "UNKNOWN", digits |-> "none"]

(* The digits of a number: "short" and "long" for its brand, of a "wrong"  *)
(* or a "right" check digit.                                               *)
Number == [brand: Brand \cup {"UNKNOWN"}, digits: {"short", "long", "wrong", "right"}]

Field == {"number", "expiration", "cvc", "holderName", "email", "phone"}

(* What is typed into the CVC without a digit in it.                       *)
NoDigits == -1

(* An expiration without a month or a year is unfinished.  A CVC is its    *)
(* number of digits, 0 if it is empty.                                     *)
Input == [number: Number \cup {NoNumber},
          expiration: {"none", "unfinished", "past", "right"},
          cvc: NoDigits .. 5,
          holderName: {"none", "wrong", "right"},
          email: {"none", "right"},
          phone: Phone \cup {"none"}]

ASSUME TypedAssumption ==
  /\ DOMAIN Typed = Field
  /\ Typed.number \subseteq Number \cup {NoNumber}
  /\ Typed.expiration \subseteq {"none", "unfinished", "past", "right"}
  /\ Typed.cvc \subseteq NoDigits .. 5
  /\ Typed.holderName \subseteq {"none", "wrong", "right"}
  /\ Typed.email \subseteq {"none", "right"}
  /\ Typed.phone \subseteq Phone \cup {"none"}
ASSUME ExtrasAssumption == Extras \subseteq SUBSET {"email", "phone"}
ASSUME PhoneAssumption ==
  "none" \notin Phone /\ PhonesOf \in [Country -> SUBSET Phone]
ASSUME BrandsAssumption == AcceptedBrands \subseteq Brand
ASSUME StartsAssumption == MaxStarts \in Nat

VARIABLES
  extra,    (* extraAttributes: which of email and phone the form asks for  *)
  input,    (* field -> what was typed last                                 *)
  error,    (* field -> how it was judged                                   *)
  shown,    (* the fields whose error is shown                              *)
  country,  (* cardPhoneNumberCountryCode                                   *)
  showErrorImmediately,
  currentPrimaryElement,
  known,    (* the transformer's acceptedBrands are not null                *)
  unjudged, (* history: the number was judged while they were null          *)
  life,     (* the fragment: "stopped", "started" or "destroyed"            *)
  fetches,  (* requests of accepted brands in flight                        *)
  starts,   (* number of times the fragment has been started                *)
  oneOff,   (* results of requests the listener has not been told of yet    *)
  told      (* results the listener has been told of since the last start   *)

fields == <<input, error, shown, showErrorImmediately, unjudged>>
brands == <<known, fetches, oneOff, told>>
vars == <<extra, fields, country, currentPrimaryElement, brands, life, starts>>

Error == {"none", "missing", "unfinished", "wrong"}

(* Errors that wait for more input (lazy).                                 *)
Lazy == {"missing", "unfinished"}

-----------------------------------------------------------------------------
(* The transformers.                                                       *)

brand == input.number.brand

cvcLength == IF brand \in {"AMEX", "UNKNOWN"} THEN 4 ELSE 3

Rejected == known /\ brand # "UNKNOWN" /\ brand \notin AcceptedBrands

NumberError ==
  IF input.number = NoNumber THEN "missing"
  ELSE IF Rejected \/ input.number.digits = "long" THEN "wrong"
  ELSE IF input.number.digits = "short" THEN "unfinished"
  ELSE IF input.number.digits = "wrong" THEN "wrong"
  ELSE IF brand = "UNKNOWN" THEN "unfinished" ELSE "none"

(* What has no digits is missing as well, but does not wait.               *)
CvcError ==
  IF input.cvc = 0 THEN "missing"
  ELSE IF input.cvc \in 1 .. cvcLength - 1 THEN "unfinished"
  ELSE IF input.cvc = cvcLength THEN "none" ELSE "wrong"

PhoneError ==
  IF input.phone = "none" THEN "missing"
  ELSE IF input.phone \in PhonesOf[country] THEN "none" ELSE "wrong"

(* How any field whose input tells is judged.                              *)
Told(x) ==
  IF x = "none" THEN "missing"
  ELSE IF x = "unfinished" THEN "unfinished" ELSE IF x = "right" THEN "none" ELSE "wrong"

Transformed ==
  [number |-> NumberError, expiration |-> Told(input.expiration), cvc |-> CvcError,
   holderName |-> Told(input.holderName), email |-> Told(input.email), phone |-> PhoneError]

(* The fields F are transformed, and their errors shown; unless that is to *)
(* be immediately, those that wait are not.                                *)
Transform(F, immediately) ==
  /\ error' = [f \in Field |-> IF f \in F THEN Transformed'[f] ELSE error[f]]
  /\ shown' = (shown \ F) \cup
               {f \in F : error'[f] # "none" /\ (immediately \/ error'[f] \notin Lazy)}
  /\ unjudged' = IF "number" \in F THEN ~known ELSE unjudged

-----------------------------------------------------------------------------
(* What the view model tells of its fields.                                *)

valid(f) == error[f] = "none"

EmailOrPhone ==
  /\ valid("email") \/ valid("phone")
  /\ \A f \in {"email", "phone"} : f \in shown => error[f] = "missing"

(* checkValid                                                              *)
isValid ==
  /\ \A f \in {"number", "expiration", "cvc", "holderName"} : valid(f)
  /\ IF extra = {"email", "phone"} THEN EmailOrPhone ELSE \A f \in extra : valid(f)

Before == [number |-> {}, expiration |-> {"number"}, cvc |-> {"number", "expiration"},
           holderName |-> {"number", "expiration", "cvc"},
           contact |-> {"number", "expiration", "cvc", "holderName"},
           none |-> Field]

ElementOf(f) == IF f \in {"email", "phone"} THEN "contact" ELSE f

(* getPrimaryInput: the element of the first field that is not valid.      *)
Primary(e) ==
  /\ \A f \in Before[e] : valid(f)
  /\ e = "none" \/ \E f \in Field : ElementOf(f) = e /\ ~valid(f)

-----------------------------------------------------------------------------
(* The input.                                                              *)

(* A field that is valid, the holder's name apart, moves the form on if it *)
(* has changed.  The texts are compared: they may differ where what they   *)
(* are abstracted to does not.                                             *)
MovesOn(f) == valid(f) /\ f # "holderName"

Changed == <<input, error>>' # <<input, error>>

(* Faulty variant: the CVC stays as it was judged for another brand.       *)
inputKeepingCvc(f, x) ==
  /\ input' = [input EXCEPT ![f] = x]
  /\ showErrorImmediately' = FALSE
  /\ UNCHANGED <<extra, country, brands, life, starts>>
  /\ Transform({f}, FALSE)
  /\ \/ MovesOn(f)' /\ currentPrimaryElement' \in {e \in DOMAIN Before : Primary(e)'}
     \/ ~(MovesOn(f)' /\ Changed) /\ UNCHANGED currentPrimaryElement

(* Faulty variant: the element is looked for before the CVC is judged.     *)
inputMovingFirst(f, x) ==
  /\ input' = [input EXCEPT ![f] = x]
  /\ showErrorImmediately' = FALSE
  /\ UNCHANGED <<extra, country, brands, life, starts>>
  /\ Transform(IF f = "number" /\ x.brand # brand THEN {"number", "cvc"} ELSE {f}, FALSE)
  /\ \/ /\ MovesOn(f)'
        /\ currentPrimaryElement' \in
             {e \in DOMAIN Before : /\ \A g \in Before[e] : g = f \/ valid(g)
                                    /\ e = "none" \/ \E g \in Field \ {f} : ElementOf(g) = e /\ ~valid(g)}
     \/ ~(MovesOn(f)' /\ Changed) /\ UNCHANGED currentPrimaryElement

(* inputComponent, with the brand observer: a number of another brand has  *)
(* the CVC judged again.                                                   *)
inputComponent(f, x) ==
  /\ input' = [input EXCEPT ![f] = x]
  /\ showErrorImmediately' = FALSE
  /\ UNCHANGED <<extra, country, brands, life, starts>>
  /\ Transform(IF f = "number" /\ x.brand # brand THEN {"number", "cvc"} ELSE {f}, FALSE)
  /\ \/ MovesOn(f)' /\ currentPrimaryElement' \in {e \in DOMAIN Before : Primary(e)'}
     \/ ~(MovesOn(f)' /\ Changed) /\ UNCHANGED currentPrimaryElement

(* The fields the form asks for.                                           *)
Asked == Field \ ({"email", "phone"} \ extra)

(* selectCountryCode, with its observer.                                   *)
selectCountryCode(c) ==
  /\ "phone" \in extra
  /\ c # country
  /\ country' = c
  /\ UNCHANGED <<extra, input, showErrorImmediately, currentPrimaryElement, brands, life,
                 starts>>
  /\ Transform({"phone"}, showErrorImmediately)

(* Faulty variant: errors are shown from the next input on.                *)
validateLazily ==
  /\ UNCHANGED <<extra, input, country, currentPrimaryElement, brands, life, starts>>
  /\ Transform(Field, showErrorImmediately)
  /\ showErrorImmediately' = TRUE

(* validate                                                                *)
validate ==
  /\ showErrorImmediately' = TRUE
  /\ UNCHANGED <<extra, input, country, currentPrimaryElement, brands, life, starts>>
  /\ Transform(Field, TRUE)
-----------------------------------------------------------------------------
(* The fragment and the accepted brands.                                   *)

(* Faulty variant: what has failed once is not asked for again.            *)
fetchOnce ==
  fetches' = IF known \/ starts > 0 THEN fetches ELSE fetches + 1

(* Every onStart asks for the brands while they are not known, whether or  *)
(* not an earlier request is still in flight.                              *)
fetchAcceptedBrands ==
  fetches' = IF known THEN fetches ELSE fetches + 1

(* onStart, after which the listener is told what has come meanwhile.      *)
onStart ==
  /\ life = "stopped"
  /\ starts < MaxStarts
  /\ life' = "started"
  /\ starts' = starts + 1
  /\ fetchAcceptedBrands
  /\ told' = oneOff
  /\ oneOff' = {}
  /\ UNCHANGED <<extra, fields, country, currentPrimaryElement, known>>

Stop ==
  /\ life = "started"
  /\ life' = "stopped"
  /\ UNCHANGED <<extra, fields, country, currentPrimaryElement, brands, starts>>

Tell(what) ==
  IF life = "started" THEN told' = told \cup {what} /\ UNCHANGED oneOff
                      ELSE oneOff' = oneOff \cup {what} /\ UNCHANGED told

(* onSuccess of the request: a number that has been judged is left alone.  *)
BrandsFetched ==
  /\ fetches > 0
  /\ fetches' = fetches - 1
  /\ known' = TRUE
  /\ Tell("success")
  /\ UNCHANGED <<extra, fields, country, currentPrimaryElement, life, starts>>

BrandsFailed ==
  /\ fetches > 0
  /\ fetches' = fetches - 1
  /\ Tell("error")
  /\ UNCHANGED <<extra, fields, country, currentPrimaryElement, known, life, starts>>

(* Faulty variant: a request that has been answered is cancelled as well.  *)
CancelAnswered ==
  /\ life = "stopped"
  /\ life' = "destroyed"
  /\ fetches' = fetches - 1
  /\ UNCHANGED <<extra, fields, country, currentPrimaryElement, known, oneOff, told, starts>>

(* onCleared: the last request is cancelled, if it is still in flight.     *)
onCleared ==
  /\ life = "stopped"
  /\ life' = "destroyed"
  /\ fetches' \in {n \in {fetches, fetches - 1} : n >= 0}
  /\ UNCHANGED <<extra, fields, country, currentPrimaryElement, known, oneOff, told, starts>>

-----------------------------------------------------------------------------
(* The constructor: accepted brands, an email address and a phone number   *)
(* may be preset; the phone number is judged in any case, for the first    *)
(* country.                                                                *)
Init ==
  /\ extra \in Extras
  /\ country \in Country
  /\ \E e \in {"none", "right"}, p \in Phone \cup {"none"} :
       /\ e # "none" => "email" \in extra
       /\ p # "none" => "phone" \in extra
       /\ input = [number |-> NoNumber, expiration |-> "none", cvc |-> 0,
                   holderName |-> "none", email |-> e, phone |-> p]
  /\ known \in BOOLEAN
  /\ error = Transformed
  /\ shown = {f \in Field : error[f] \notin Lazy \cup {"none"}}
  /\ showErrorImmediately = FALSE
  /\ currentPrimaryElement = "number"
  /\ unjudged = FALSE
  /\ life = "stopped"
  /\ fetches = 0
  /\ starts = 0
  /\ oneOff = {} /\ told = {}

(* The user types into a form in front.                                    *)
Edit ==
  \/ \E f \in Asked : \E x \in Typed[f] : inputComponent(f, x)
  \/ \E c \in Country : selectCountryCode(c)
  \/ validate

Next ==
  \/ life = "started" /\ Edit
  \/ onStart \/ Stop \/ onCleared
  \/ BrandsFetched \/ BrandsFailed

(* A request is answered or times out.                                     *)
Fairness == WF_vars(BrandsFetched \/ BrandsFailed)

Spec == Init /\ [][Next]_vars /\ Fairness

-----------------------------------------------------------------------------
(* Every variable stays in its set.                                        *)
TypeOK ==
  /\ extra \subseteq {"email", "phone"}
  /\ input \in Input
  /\ error \in [Field -> Error]
  /\ shown \subseteq Field
  /\ country \in Country
  /\ showErrorImmediately \in BOOLEAN
  /\ currentPrimaryElement \in DOMAIN Before
  /\ known \in BOOLEAN /\ unjudged \in BOOLEAN
  /\ life \in {"stopped", "started", "destroyed"}
  /\ fetches \in 0 .. MaxStarts /\ starts \in 0 .. MaxStarts
  /\ oneOff \subseteq {"success", "error"} /\ told \subseteq {"success", "error"}

(* What a complete form is, of what has been typed alone.                  *)
Complete ==
  /\ input.number.digits = "right" /\ brand \in Brand
  /\ brand \in AcceptedBrands \/ unjudged
  /\ input.expiration = "right" /\ input.holderName = "right"
  /\ input.cvc = (IF brand = "AMEX" THEN 4 ELSE 3)
  /\ "phone" \in extra => input.phone \in PhonesOf[country] \cup {"none"}
  /\ extra # {} => \/ "email" \in extra /\ input.email = "right"
                   \/ "phone" \in extra /\ input.phone # "none"

(* The form is valid, and createToken sends it, exactly if it is complete: *)
(* no field is left with a judgement made for another brand or country.    *)
(* Only the accepted brands may come too late for a number.                *)
ValidIsTrue == isValid <=> Complete

(* Once the form has been validated every error is shown, until the next   *)
(* input.                                                                  *)
AllErrorsShown ==
  showErrorImmediately => shown = {f \in Field : ~valid(f)}

(* The form moves on to an element that needs input, past valid ones only. *)
MovesToInvalid ==
  [][currentPrimaryElement' # currentPrimaryElement =>
       \A f \in Field :
         /\ ElementOf(f) \in Before[currentPrimaryElement'] => valid(f)'
         /\ ElementOf(f) = currentPrimaryElement' /\ f \notin {"email", "phone"} => ~valid(f)']_vars

(* A form in front learns the accepted brands or tells of the failure,     *)
(* each time it is started.                                                *)
BrandsAnswered ==
  life = "started" /\ ~known ~> known \/ "error" \in told \/ life # "started"
=============================================================================
