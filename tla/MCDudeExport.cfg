SPECIFICATION ExportSpecification
CONSTANTS
  Databases <- MCDatabases
  Tables <- MCTables
  Listed <- MCListed
INVARIANTS
  ExportTypeOK
  StableRowsSaved
PROPERTIES
  TablesAreAtomic
  EndsUnlessLocked
