SPECIFICATION FairSpec
CONSTANTS
  Path <- Paths
  PageSize = 2
  One = One
  Two = Two
  Root = {One, Two}
  MaxAttempts = 2
  MAX_LISTINGS = 3
  MaxFaults = 3
  MaxSilent = 2
  MaxChanges = 2
  World <- MCWorld
INVARIANTS TypeOK ListingComplete SuccessMeansDone DeletesOnlyMissing
INVARIANTS NothingElseIsLost RmIsCareful TransfersAreApart

PROPERTY CommandEnds
