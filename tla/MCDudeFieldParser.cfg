SPECIFICATION Spec
CONSTANTS
  Blobs <- MCBlobs
  Ids <- MCIds
INVARIANTS
  TypeOK
  CursorAligned
PROPERTIES
  ReadsWhatIsThere
  ForwardOnly
  FailedCallKeepsCursor
  FailureLeavesValue
  RefusedForGood
