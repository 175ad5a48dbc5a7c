SPECIFICATION Spec
CONSTANTS
  Lines <- TwoRuns
  Databases <- SomeDatabases
  Packed <- SomePacked
  Local <- DB
  Numeric <- Addresses
  Typed <- Password
  Digit <- TheDigits
  Abbreviations <- Beginnings
  LongMax = 1048575
  MaxBlocks = 1
INVARIANTS
  TypeOK
  ReadAsGiven
  DialsAsWritten
  DocumentIsOfTheFileNamed
  EchoComesBack
PROPERTIES
  DatabasesKept
  RunsEnd
\* The program is not started again after the last run.
CHECK_DEADLOCK FALSE
