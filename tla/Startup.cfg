SPECIFICATION StartupSpec
CONSTANTS
  Documents <- MCDocuments
  Request <- MCRequest
  MaxAdded = 1
  Spelling <- MCSpelling
INVARIANTS
  BuiltUnlessFaulty
  SpellingsAgree
  OwnSchemaHears
  ExamplesFindTheirHandler
CHECK_DEADLOCK FALSE
