\* Two clients and every pair of programs; a client can send more than the
\* window holds.
SPECIFICATION FairSpec
CONSTANTS
  Clients = {c1, c2}
  Parent = Parent
  MaxBytes = 3
  LineSize = 2
  Window = 2
  Backlog = 1
  WholeLines = FALSE
INVARIANTS TypeOK NothingLost
PROPERTIES AllPrinted WritersGoOn
