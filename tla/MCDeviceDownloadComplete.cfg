SPECIFICATION Spec
CONSTANTS
  MaxRuns = 2
  MaxBlocks = 2
  ProgressEvery = 2
PROPERTY DownloadComplete
\* The program is not started again after the last run.
CHECK_DEADLOCK FALSE
