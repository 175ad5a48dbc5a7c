SPECIFICATION Spec
CONSTANTS
  Structures <- AllStructures
  Tables <- MCTables
  Credentials <- MCCredentials
  ImageIds <- MCImageIds
INVARIANTS
  TypeOK
  CredentialsMasked
  TextsStayInQuotes
  MembersReadBack
CHECK_DEADLOCK FALSE
