CONSTANTS
  a = a
  t = t
  Testers = {t}
  MaxEntries = 1
  Writers = {a}
  Keys <- Listed
  Fields = {"cash", "revenue"}
  Tags <- TagSet
  FilingOf <- FilingOfListed
  TagOf <- TagOfListed
  FieldOf <- FieldOfListed
  NumFilings = 3
  FiledOn <- FiledOnDay
  Annual <- AnnualFilings
  Rank <- RankOf
  NoRank = 3
  Migrating = {"cash"}
  Summed = {"revenue"}
  NumSnapshots = 2
  Parts = 1
  ArrivesOn <- Arrivals
  Rows <- Statement
  LastDay = 1
  MaxRulings = 2
  MaxFaults = 0
SPECIFICATION PitSpec
INVARIANTS NoHindsight CacheFresh
