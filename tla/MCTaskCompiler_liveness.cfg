\* One query, two calls: with the timers of the code every run answers
\* and no sandbox stays.
CONSTANTS
  x1 = x1  x2 = x2  y = y  bad = bad  dx = dx  dy = dy
  None = None
  Texts <- OneText
  Digests <- OneDigest
  Normalize <- OneNormalize
  MaxCandidates = 1
  MaxTurns = 3
  Threads = {t1, t2}
SPECIFICATION FairSpec
PROPERTIES
  EveryRunAnswers
  EverySandboxGoes
CHECK_DEADLOCK FALSE
