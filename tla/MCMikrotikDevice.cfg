SPECIFICATION Spec
CONSTANTS
  MaxRuns = 2
  MaxBlocks = 2
  ProgressEvery = 2
INVARIANTS
  TypeOK
  ReleasedInOrder
  FlawlessRunsEndWell
PROPERTIES
  RemovedOnlyIfConfirmed
  KeepsItsPromise
  Terminates
\* The program is not started again after the last run.
CHECK_DEADLOCK FALSE
