\* Two clients, each of either kind and with or without the relay; a relay that
\* was given the probability 0 or 1, and is started again once.
SPECIFICATION FairSpec
CONSTANTS
  Clients = {c1, c2}
  Server = Server
  Relay = Relay
  NoAddr = NoAddr
  MaxLines = 2
  Basis = 3
  DropProbs = {0, 3}
  MaxRestarts = 1
INVARIANTS TypeOK MixedOnlyThroughRelay InStepUntilTimeout ExitsOnlyAfterRestart
PROPERTIES WaitsOnlyForLost NumberedFinish
