SPECIFICATION Spec
CONSTANTS
  Spelling <- MCSpelling
  Word <- MCWord
  Numeral <- MCNumeral
  Begins <- MCBegins
  Request <- MCRequest
  Holding <- MCHolding
  InCapitals <- MCInCapitals
  Reversed <- MCReversed
INVARIANTS
  TypeOK
  
  SubqueryOnce
  PanicsOnlyWhere
  UploadHonest
  WritesAreAsked
  
  ExamplesAccepted
PROPERTY
  ImplementsListener
\* The request ends with its answer or a panic.
CHECK_DEADLOCK FALSE
