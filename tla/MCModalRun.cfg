\* The ledger ends with its last run.  Three runs on one ledger; a unit of time stands for 2000 s, which cost 1 USD.
CONSTANTS
  Tasks = {"churn", "sales"}
  Total <- MCTotal
  PreflightRows = 2
  Durations = {0, 3, 4, 8}
  Rate = 1
  CostGate = 23
  MaxCost = 25
  MaxDuration = 28
  Unit = 4
  MaxRuns = 3
  None = None
SPECIFICATION Spec
INVARIANTS
  PaidExactlyOnce
  BudgetKept
  ReturnsSealedPrediction
  OnlyVerifiedOnDisk
  ConfirmedMeansReleased
  NothingStaysOpen
CHECK_DEADLOCK FALSE
