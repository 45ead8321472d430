\* Four texts against a budget of two: repairs, duplicates, refusals.
CONSTANTS
  x1 = x1  x2 = x2  y = y  bad = bad  dx = dx  dy = dy
  None = None
  Texts <- MCTexts
  Digests <- MCDigests
  Normalize <- MCNormalize
  MaxCandidates = 2
  MaxTurns = 4
  Threads = {t1}
SPECIFICATION Spec
SYMMETRY Symmetry
INVARIANT ReadyIsTested
PROPERTY ImplementsContract
CHECK_DEADLOCK FALSE
