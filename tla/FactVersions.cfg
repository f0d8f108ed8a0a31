CONSTANTS
  a = a
  b = b
  Writers = {a, b}
  Keys <- KeySet
  Fields <- FieldSet
  Tags <- TagSet
  FilingOf <- FilingOfKey
  TagOf <- TagOfKey
  FieldOf <- FieldOfKey
  NumFilings = 3
  FiledOn <- FiledOnDay
  Annual <- AnnualFilings
  Rank <- RankOf
  NoRank = 3
  Migrating = {"cash"}
  Summed = {"revenue"}
  NumSnapshots = 2
  Parts = 2
  ArrivesOn <- Arrivals
  Rows <- Documents
  LastDay = 1
  MaxRulings = 0
  MaxFaults = 1
SPECIFICATION IngestSpec
INVARIANTS TypeOK NothingLost EvidenceMatches
SYMMETRY Alike
