\* As Select, with a window smaller than what a client sends.
SPECIFICATION FairSpec
CONSTANTS
  Clients = {c1, c2}
  Families = {"TCP"}
  NoConn = NoConn
  MaxBytes = 6
  LineSize = 2
  Window = 2
  Backlog = 1
  WholeLines = FALSE
  LastFd = 5
PROPERTY WaitingClientsAnswered
