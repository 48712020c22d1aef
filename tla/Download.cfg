SPECIFICATION FairSpec
CONSTANTS
  NoTask = NoTask
  NumRuns = 2
  NumVersions = 2
  MAX_SEGMENTS = 2
  Size <- Sizes
  Time <- Times
  segment_size = 2
  Compressed = {2}
  DeleteDir = {1}
  HeadErrors = {1}
  MaxAttempts = 2
INVARIANTS TypeOK StaleNeverLooksFresh SuccessMeansDownloaded TempCleaned
PROPERTIES ReplacedWhole DownloadReturns
