\* One client, no drop probability.
SPECIFICATION Spec
CONSTANTS
  Clients = {c1}
  Server = Server
  Relay = Relay
  NoAddr = NoAddr
  MaxLines = 1
  Basis = 3
  DropProbs = {0}
  MaxRestarts = 0
INVARIANT NoDropWithoutProbability
