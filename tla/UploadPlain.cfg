SPECIFICATION Spec
CONSTANTS
  NoTask = NoTask
  Compress = FALSE
  FileSize = 5
  PackedSize = 0
  segment_size = 2
  MINIMAL_BLOCK = 2
  CPUCapability = 2
  IOCapability = 2
  MaxInFlight = 4
  MaxAttempts = 2
INVARIANTS TypeOK EtagsAreStored CompletedHasAllParts UploadedWhenCountedOnce OrphansComeFromRetries
