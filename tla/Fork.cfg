\* Two clients of every family, under a limit of one or two children.
SPECIFICATION FairSpec
CONSTANTS
  Clients = {c1, c2}
  Families = {"TCP", "SCTP", "Python"}
  Parent = Parent
  MaxBytes = 2
  LineSize = 2
  Window = 2
  Backlog = 1
  WholeLines = FALSE
  ProcLimits = {1, 2}
INVARIANTS TypeOK ChildrenIsolated
PROPERTIES EchoSpec ServedConversationsFinish RepliesComeUnlessStranded ReleasedUnlessStranded
