SPECIFICATION FairSpec
CONSTANTS
  scheduled = scheduled
  manual = manual
  Runners <- BothRunners
  NoRunner = NoRunner
  MaxDay = 6
  BackfillDays = 4
  Overlap = 1
  Listings <- SmallListing
  GonePages <- NoneGone
  MayCut = TRUE
  NoDay = NoDay
  NoRecovery = NoRecovery
INVARIANTS CoveredIsSeen GapsAreUnavailable
PROPERTIES CatchesUp
