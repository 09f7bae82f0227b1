\* Three clients, two of which wait in the backlog; every family.
SPECIFICATION FairSpec
CONSTANTS
  Clients = {c1, c2, c3}
  Families = {"TCP", "SCTP", "Python"}
  Unset = Unset
  MaxBytes = 2
  LineSize = 2
  Window = 2
  Backlog = 1
  WholeLines = FALSE
INVARIANTS TypeOK OneConversation MessagesStayWhole
PROPERTIES EchoSpec WaitsOnlyForOthers ReleasedOnceOthersLeave
