\* Two clients, lines cut anywhere.
SPECIFICATION Spec
CONSTANTS
  Clients = {c1, c2}
  Families = {"TCP"}
  NoConn = NoConn
  MaxBytes = 2
  LineSize = 2
  Window = 4
  Backlog = 1
  WholeLines = FALSE
  LastFd = 5
PROPERTY OnlyFinishedConversationsEnd
SYMMETRY Symmetry
