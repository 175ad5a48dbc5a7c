SPECIFICATION Spec
CONSTANTS
  Databases <- MCDatabases
  Tables <- AllTables
INVARIANTS
  TypeOK
  OneObjectPerRow
  PlainRowsAreExact
  OnlyRowsOfTheTable
  MembersInPlace
