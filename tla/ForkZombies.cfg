\* One child at a time.
SPECIFICATION Spec
CONSTANTS
  Clients = {c1, c2}
  Families = {"TCP"}
  Parent = Parent
  MaxBytes = 1
  LineSize = 1
  Window = 2
  Backlog = 1
  WholeLines = TRUE
  ProcLimits = {1}
INVARIANT ChildForEachConnection
SYMMETRY Symmetry
