\* An execution ends with its caller.
CONSTANTS
  Horizon = 7
  \* 2 and 3 agree just so, 2 and 4 do not.
  ToleranceUnit = 10
  AbsoluteTolerance = 1
  RelativeTolerance = 3
  SyntheticData <- MCSynthetic
  PinnedData <- MCPinned
  None = None
  Absent = Absent
  Damaged = Damaged
SPECIFICATION FairSpec
INVARIANTS
  AnswerIsSealed
  VerifiedIsIntact
  DataStaysPrivate
  NothingLeftBehind
  LabelsIgnoreTheFuture
  ParityBoundsError
PROPERTIES
  ManifestIsFinal
  EveryExecutionEnds
  NoSandboxStays
CHECK_DEADLOCK FALSE
