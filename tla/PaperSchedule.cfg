SPECIFICATION FairSpec
CONSTANTS
  LastDay = 10
  MonthLen = 4
  TradeDays <- Sessions
  Configs <- NoCohortOrBoth
  Lag = 2
  Tolerance = 2
  Horizon = 4
INVARIANTS TypeOK SignalActedOnce ReplayOnPlan
PROPERTIES SignalServed
CHECK_DEADLOCK FALSE
