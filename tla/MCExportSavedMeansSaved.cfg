SPECIFICATION ExportSpecification
CONSTANTS
  Databases <- MCDatabases
  Tables <- MCTables
  Listed <- MCListed
INVARIANTS
  SavedMeansSaved
