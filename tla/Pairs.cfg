\* Two clients, every pair of programs README names.
SPECIFICATION FairSpec
CONSTANTS
  Clients = {c1, c2}
  Server = Server
  Member = Member
  Stranger = Stranger
  NUL = NUL
  Stack = Stack
  Size = 2
  MaxLines = 2
  Lengths = {0, 1, 3}
  MaxFlight = 2
  MaxStrays = 1
  PacketSize = 2
INVARIANTS TypeOK ShowsTheLine RepliesCarryTheLine InStep
PROPERTY WaitsOnlyForLost
