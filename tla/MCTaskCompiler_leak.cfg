\* What the class promises about its sandbox, against a timeout or a
\* cancellation that meets create() on its thread.
CONSTANTS
  x1 = x1  x2 = x2  y = y  bad = bad  dx = dx  dy = dy
  None = None
  Texts <- OneText
  Digests <- OneDigest
  Normalize <- OneNormalize
  MaxCandidates = 1
  MaxTurns = 3
  Threads = {t1, t2}
SPECIFICATION Spec
SYMMETRY Symmetry
INVARIANT DeletedSynchronously
CHECK_DEADLOCK FALSE
