SPECIFICATION FairSpec
CONSTANTS
  a = a
  f = f
  NoTicker = NoTicker
  Tickers <- MCTickers
  Indexed <- MCOnlyF
  NoFacts <- MCOnlyF
  Excused <- MCExcused
  Parts = 2
  MaxAttempts = 2
  Cooldown = 1
  MidCycle = 2
  MidInterval = 2
  WindowInterval = 1
  OldAge = 5
  MaxFilings = 2
  MaxFaults = 2
  MaxIndexes = 2
  MaxRest = 1
INVARIANTS TypeOK DiscoveryLag
PROPERTIES PublishGate FilingPublished
