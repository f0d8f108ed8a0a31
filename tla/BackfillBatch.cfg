SPECIFICATION Spec
CONSTANTS
  w1 = w1
  w2 = w2
  s1 = s1
  s2 = s2
  Workers <- TwoWorkers
  Stocks <- TwoStocks
  NoWorker = NoWorker
  Ghost = Ghost
  NoManifest = NoManifest
  NoItem = NoItem
  MaxSnap = 2
  Updated = {s1}
  MaxResumes = 1
  OneAtATime = TRUE
  BareRollback = FALSE
INVARIANTS TypeOK WriterOwnsBatch AppliedIsWhole RollbackIsExact
PROPERTIES ReleasesReviewed
SYMMETRY Interchangeable
