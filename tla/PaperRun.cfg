SPECIFICATION Spec
CONSTANTS
  script = script
  A = A
  B = B
  Runners <- TheScript
  Attempts <- Retry
  Codes = {A, B}
  Capital = 16
  Fees = {0, 1}
  LastDay = 3
  RebalanceDays <- OddDays
  MaxFaults = 2
INVARIANTS TypeOK SuccessIsWhole WorthConserved
PROPERTIES DoneIsFinal
