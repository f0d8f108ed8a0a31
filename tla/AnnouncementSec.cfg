SPECIFICATION Spec
CONSTANTS
  scheduled = scheduled
  manual = manual
  Runners <- BothRunners
  NoRunner = NoRunner
  MaxDay = 6
  BackfillDays = 4
  Overlap = 1
  Listings <- ManyListings
  GonePages <- SomeGone
  MayCut = TRUE
  NoDay = NoDay
  NoRecovery = NoRecovery
INVARIANTS TypeOK FreshView
PROPERTIES CheckpointStopsAtGaps ProgressKept
