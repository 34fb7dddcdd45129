\* A form that fetches the accepted brands, or has been given them.
CONSTANTS
  Extras = {{}, {"phone"}, {"email", "phone"}}
  Typed <- MCTyped
  Phone = {"p1"}
  Country = {"JP", "US"}
  PhonesOf <- MCPhonesOf
  AcceptedBrands = {"VISA", "AMEX"}
  MaxStarts = 2
SPECIFICATION Spec
INVARIANTS
  TypeOK
  ValidIsTrue
  AllErrorsShown
PROPERTIES
  MovesToInvalid
  BrandsAnswered
\* A form ends.
CHECK_DEADLOCK FALSE
