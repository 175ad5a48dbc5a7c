SPECIFICATION Spec
CONSTANTS
  Blobs <- MCBlobs
  Ids <- MCIds
PROPERTIES
  MismatchStays
