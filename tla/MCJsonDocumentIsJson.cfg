SPECIFICATION Spec
CONSTANTS
  Structures <- AllStructures
  Tables <- MCTables
  Credentials <- MCCredentials
  ImageIds <- MCImageIds
INVARIANTS
  DocumentIsJson
CHECK_DEADLOCK FALSE
