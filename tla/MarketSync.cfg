CONSTANTS
  job = job
  hand = hand
  Stocks = {"00700"}
  Runners = {job, hand}
  Forced = {hand}
  Order <- Statements
  Periods = {6, 12}
  Months = {12, 17}
  MaxFaults = 1
SPECIFICATION FairSpec
INVARIANTS TypeOK LaggardAsked
PROPERTIES NewReportFetched
