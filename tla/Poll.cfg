\* Two clients of every family; zero, one or two connections at a time.
SPECIFICATION FairSpec
CONSTANTS
  Clients = {c1, c2}
  Families = {"TCP", "SCTP", "Python"}
  NoConn = NoConn
  MaxBytes = 2
  LineSize = 2
  Window = 4
  Backlog = 1
  WholeLines = FALSE
  LastFd = 5
INVARIANTS TypeOK ListMatchesTable ScanInBounds
PROPERTIES EchoSpec OwedRepliesCome ReleasedUnlessAborted
