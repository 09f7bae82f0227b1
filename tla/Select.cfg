\* Two clients and two connections at most; lines cut anywhere; the server may
\* run out of descriptors, meet resets, or be killed.  The window holds all a
\* client sends, so that no write blocks.
SPECIFICATION FairSpec
CONSTANTS
  Clients = {c1, c2}
  Families = {"TCP", "SCTP"}
  NoConn = NoConn
  MaxBytes = 3
  LineSize = 2
  Window = 4
  Backlog = 1
  WholeLines = FALSE
  LastFd = 5
INVARIANTS TypeOK DescriptorTable ScanNeverBlocks
PROPERTIES EchoSpec KilledOnlyByLeavers WaitingClientsAnswered ConnectionsReleased
