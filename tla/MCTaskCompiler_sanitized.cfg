\* What the service boundary promises about failures, against missing assets.
CONSTANTS
  x1 = x1  x2 = x2  y = y  bad = bad  dx = dx  dy = dy
  None = None
  Texts <- OneText
  Digests <- OneDigest
  Normalize <- OneNormalize
  MaxCandidates = 1
  MaxTurns = 3
  Threads = {t1, t2}
SPECIFICATION Spec
SYMMETRY Symmetry
INVARIANT FailuresAreSanitized
CHECK_DEADLOCK FALSE
