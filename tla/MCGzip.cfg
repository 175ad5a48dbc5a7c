SPECIFICATION Spec
CONSTANTS
  HeaderLen = 2
  BufLen = 3
  MaxUnits = 7
  MaxRuns = 2
INVARIANTS
  TypeOK
  OpensTheDatabase
PROPERTY OpeningEnds
\* The program is not started again after the last run.
CHECK_DEADLOCK FALSE
