\* One process, killed and started again at any point, over a cache that may
\* hold damaged files.
CONSTANTS
  Stagers = {p1}
  Pinned = 2
  Pieces = 2
  Files = {f1, f2, f3, f4}
  None = None
SPECIFICATION Spec
SYMMETRY MCSymmetry
INVARIANTS
  StagedMeansValid
  LeavesNoPartial
PROPERTY PublishesAtomically
