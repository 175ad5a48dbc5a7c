SPECIFICATION Spec
CONSTANTS
  Databases <- MCDatabases
  MaxWrites = 3
INVARIANTS
  TypeOK
  NoStatementLeft
PROPERTIES
  QueriesAreAtomic
  CallEnds
