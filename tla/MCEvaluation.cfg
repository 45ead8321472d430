\* One batch: the smoke cohort, a whole churn split and a whole sales split,
\* with a preflight that covers only the last.
CONSTANTS
  None = None
  Jobs = {"smoke", "churn", "sales"}
  Datasets <- MCDatasets
  Total <- MCTotal
  Scores = {0, 2, 4}
  Top = 4
  Horizon = 1
  PreflightRows = 2
  Durations = {3}
  Rate = 1
  CostGate = 23
  MaxCost = 25
  MaxDuration = 28
  Unit = 4
SPECIFICATION Spec
INVARIANTS TruthStaysHome MetricsMatchDefinitions
PROPERTY ScoredExactlyWhenWhole
CHECK_DEADLOCK FALSE
