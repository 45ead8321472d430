\* Two queries and a budget of one, two calls: abandoned, overlapping and
\* late threads.
CONSTANTS
  x1 = x1  x2 = x2  y = y  bad = bad  dx = dx  dy = dy
  None = None
  Texts <- TwoTexts
  Digests <- MCDigests
  Normalize <- TwoNormalize
  MaxCandidates = 1
  MaxTurns = 4
  Threads = {t1, t2}
SPECIFICATION Spec
SYMMETRY Symmetry
INVARIANTS OutcomeLeavesNoSandbox ExecutionsWithinBudget
  ExecutesOnlyStaged ConfirmedMeansGone CleanupHidesNoError
PROPERTIES NeverReapedMidRun KeepsExecutorDiscipline HandleIsStable EvidenceIsFinal
CHECK_DEADLOCK FALSE
