SPECIFICATION FairSpec
CONSTANTS
  None = None
  MaxInputs = 2
  MaxFaults = 2
INVARIANTS TypeOK LastGoodKept ReportedIsTrue RenewedForAReason
PROPERTIES RequestServed Renewed DetailsCatchUp
CHECK_DEADLOCK FALSE
