SPECIFICATION FairSpec
CONSTANTS
  NoTask = NoTask
  Compress = TRUE
  FileSize = 4
  PackedSize = 2
  segment_size = 2
  MINIMAL_BLOCK = 2
  CPUCapability = 2
  IOCapability = 2
  MaxInFlight = 4
  MaxAttempts = 2
INVARIANTS SuccessMeansUploaded FilesOutlivePumps ScratchCleaned
PROPERTY UploadReturns
