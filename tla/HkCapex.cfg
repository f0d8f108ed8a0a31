CONSTANTS
  annual = annual
  Slots = {annual}
  StockOf <- OneCompany
  NumReports <- TwoReports
  Limit = 1
  MaxFailures = 2
SPECIFICATION CapexFairSpec
INVARIANTS CapexTypeOK OnceInQueue
PROPERTIES NullIsShown
