CONSTANTS
  o1 = o1
  o2 = o2
  r1 = r1
  r2 = r2
  None = None
  Objectives <- MCObjectives
  Requests <- MCRequests
  DefaultTasks = {"item-sales"}
  ItemSales = "item-sales"
  MaxCalls = 4
SPECIFICATION Spec
SYMMETRY MCSymmetry
INVARIANTS
  WorkspaceTypeOK
  ResultsStayAttached
  LockedUntilConnected
  InsightsNeedEvidence
PROPERTIES RecordsSurvive WaitingEnds
