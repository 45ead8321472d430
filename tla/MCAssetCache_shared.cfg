\* Two processes on one cache.
CONSTANTS
  Stagers = {p1, p2}
  Pinned = 1
  Pieces = 2
  Files = {f1, f2, f3, f4}
  None = None
SPECIFICATION Spec
PROPERTY PublishesAtomically
