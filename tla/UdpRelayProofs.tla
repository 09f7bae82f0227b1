---------------------------- MODULE UdpRelayProofs ----------------------------
(***************************************************************************)
(* Theorems about UdpRelay, for any clients, lines, drop probabilities and *)
(* restarts: its types are right, replies are mixed only among the users   *)
(* of the relay, a client that does not share it and has not timed out is  *)
(* in step, and a relay that was not restarted does not exit.              *)
(***************************************************************************)
EXTENDS UdpRelay, TLAPS

-----------------------------------------------------------------------------
(* The inductive invariant.                                                *)

Owner(m) == m.body[1]

\* The legs of a datagram's way: from its client to where the client sends,
\* and on to the server if that is the relay; back, to the client or to the
\* relay; and from the relay to a client that uses it.
RouteOf(m) ==
  \/ m.from = Owner(m) /\ m.to = to_addr[Owner(m)]
  \/ m.from = Relay /\ m.to = Server /\ to_addr[Owner(m)] = Relay
  \/ m.from = Server /\ m.to = Owner(m) /\ to_addr[Owner(m)] = Server
  \/ m.from = Server /\ m.to = Relay /\ to_addr[Owner(m)] = Relay
  \/ /\ m.from = Relay /\ m.to \in Clients
     /\ to_addr[m.to] = Relay /\ to_addr[Owner(m)] = Relay

\* The relay has passed it on, or is about to get the answer.
PassedOn(m) ==
  (m.from = Relay /\ m.to = Server) \/ (m.from = Server /\ m.to = Relay)

NetInv == \A m \in net : RouteOf(m)

\* While the first process runs, what it passed on came after it learned an
\* address.
RelayInv ==
  /\ nonRelayAddr # NoAddr => to_addr[nonRelayAddr] = Relay
  /\ restarts = 0 /\ nonRelayAddr = NoAddr => \A m \in net : ~ PassedOn(m)
  /\ ExitsOnlyAfterRestart

\* Client c has not timed out, and has the relay, if any, for itself.
InStep(c) ==
  /\ ~ At(c, "done") /\ ~ late[c]
  /\ to_addr[c] = Relay => \A d \in Clients \ {c} : to_addr[d] = Server

\* Of such a client the network has nothing but the line it waits for, once.
StepInv ==
  \A c \in Clients : InStep(c) =>
    /\ \A m \in net : Owner(m) = c => At(c, "wait") /\ m.body = <<c, nsent[c]>>
    /\ \A m, x \in net : Owner(m) = c /\ Owner(x) = c => m = x
    /\ At(c, "input") /\ nsent[c] > 0 => heard[c] = <<c, nsent[c]>>

IInv == TypeOK /\ NetInv /\ RelayInv /\ MixedOnlyThroughRelay /\ StepInv

-----------------------------------------------------------------------------
(* Facts about one state.                                                  *)

LEMMA AddressFacts ==
  /\ Server \in Address /\ Relay \in Address /\ Clients \subseteq Address
  /\ Server # Relay /\ Server \notin Clients /\ Relay \notin Clients
  /\ NoAddr \notin Address
  BY UdpAssumption, RelayAssumption DEF Address

LEMMA DatagramFacts ==
  ASSUME NEW m \in Datagram
  PROVE  /\ m.from \in Address /\ m.to \in Address
         /\ m.body \in Body /\ Owner(m) \in Clients
  BY DEF Datagram, Body, Owner

LEMMA ForwardedFacts ==
  ASSUME NEW m \in Datagram, NEW f \in Address, NEW t \in Address
  PROVE  /\ Forwarded(m, f, t) \in Datagram
         /\ Forwarded(m, f, t).from = f /\ Forwarded(m, f, t).to = t
         /\ Forwarded(m, f, t).body = m.body
         /\ Owner(Forwarded(m, f, t)) = Owner(m)
  BY DEF Datagram, Forwarded, Owner

LEMMA InStepFromInv == StepInv => InStepUntilTimeout
  BY DEF StepInv, InStep, InStepUntilTimeout, At

LEMMA InitInv == Init => IInv
<1> SUFFICES ASSUME Init PROVE IInv
  OBVIOUS
<1>1. TypeOK
  BY UdpAssumption, RelayAssumption DEF Init, UdpInit, RelayInit, TypeOK, UdpTypeOK, RelayTypeOK
<1>2. NetInv /\ RelayInv /\ MixedOnlyThroughRelay /\ StepInv
  BY <1>1 DEF Init, UdpInit, RelayInit, NetInv, RelayInv, ExitsOnlyAfterRestart,
              MixedOnlyThroughRelay, StepInv, TypeOK, UdpTypeOK
<1> QED
  BY <1>1, <1>2 DEF IInv

-----------------------------------------------------------------------------
(* What the steps have in common.                                          *)

\* A datagram goes on to its next leg, or is gone: the clients do not notice.
LEMMA NetMoves ==
  ASSUME IInv, NEW m \in net, NEW Y,
         net' = (net \ {m}) \cup Y,
         Y = {} \/ \E x \in Datagram : Y = {x} /\ x.body = m.body,
         UNCHANGED <<kind, to_addr, cpc, nsent, heard, late>>
  PROVE  StepInv' /\ MixedOnlyThroughRelay' /\ net' \subseteq Datagram
<1>1. net \subseteq Datagram /\ m \in Datagram
  BY DEF IInv, TypeOK, UdpTypeOK
<1>2. net' \subseteq Datagram
  BY <1>1
<1>3. MixedOnlyThroughRelay'
  BY DEF IInv, MixedOnlyThroughRelay
<1>4. ASSUME NEW x \in net'
      PROVE  x \in net \/ (x \in Y /\ x.body = m.body /\ Y = {x})
  OBVIOUS
<1>5. StepInv'
  <2> SUFFICES ASSUME NEW c \in Clients, InStep(c)'
               PROVE  /\ \A x \in net' : Owner(x) = c => At(c, "wait")' /\ x.body = <<c, nsent'[c]>>
                      /\ \A x, y \in net' : Owner(x) = c /\ Owner(y) = c => x = y
                      /\ At(c, "input")' /\ nsent'[c] > 0 => heard'[c] = <<c, nsent'[c]>>
    BY DEF StepInv, Owner
  <2>1. InStep(c) /\ (At(c, "wait")' <=> At(c, "wait")) /\ (At(c, "input")' <=> At(c, "input"))
    BY DEF InStep, At
  <2>2. /\ \A x \in net : Owner(x) = c => At(c, "wait") /\ x.body = <<c, nsent[c]>>
        /\ \A x, y \in net : Owner(x) = c /\ Owner(y) = c => x = y
        /\ At(c, "input") /\ nsent[c] > 0 => heard[c] = <<c, nsent[c]>>
    BY <2>1 DEF IInv, StepInv
  <2>3. ASSUME NEW x \in net', Owner(x) = c
        PROVE  At(c, "wait") /\ x.body = <<c, nsent[c]>>
    BY <1>4, <2>2, <2>3 DEF Owner
  <2>4. ASSUME NEW x \in net', NEW y \in net', Owner(x) = c, Owner(y) = c
        PROVE  x = y
    <3>1. CASE x \in net /\ x # m /\ y \in net /\ y # m
      BY <2>2, <2>4, <3>1
    <3>2. CASE x \in Y /\ y \in Y
      BY <3>2
    <3>3. CASE x \in Y /\ y \in net /\ y # m
      <4>1. Owner(m) = c
        BY <1>4, <2>4, <3>3 DEF Owner
      <4> QED
        BY <2>2, <2>4, <3>3, <4>1
    <3>4. CASE y \in Y /\ x \in net /\ x # m
      <4>1. Owner(m) = c
        BY <1>4, <2>4, <3>4 DEF Owner
      <4> QED
        BY <2>2, <2>4, <3>4, <4>1
    <3> QED
      BY <3>1, <3>2, <3>3, <3>4
  <2> QED
    BY <2>1, <2>2, <2>3, <2>4
<1> QED
  BY <1>2, <1>3, <1>5

\* The relay's steps: what the clients keep is kept, and the rest is as below.
LEMMA RelayKeeps ==
  ASSUME IInv, RelayTypeOK', lost' \subseteq Body,
         net' \subseteq Datagram, NetInv', RelayInv',
         MixedOnlyThroughRelay', StepInv',
         UNCHANGED <<kind, to_addr, cpc, nsent, heard, late>>
  PROVE  IInv'
<1>1. UdpTypeOK'
  BY DEF IInv, TypeOK, UdpTypeOK
<1> QED
  BY <1>1 DEF IInv, TypeOK

\* A step that takes a datagram away.
LEMMA TakenAway ==
  ASSUME IInv, NEW m \in net, net' = net \ {m}, lost' \subseteq Body, RelayTypeOK',
         UNCHANGED <<kind, to_addr, cpc, nsent, heard, late>>,
         UNCHANGED <<nonRelayAddr, restarts>>, running' = running \/ restarts > 0
  PROVE  IInv'
<1>1. net' = (net \ {m}) \cup {}
  OBVIOUS
<1>2. StepInv' /\ MixedOnlyThroughRelay' /\ net' \subseteq Datagram
  BY <1>1, NetMoves
<1>3. NetInv'
  BY DEF IInv, NetInv, RouteOf, Owner
<1>4. RelayInv'
  BY DEF IInv, RelayInv, ExitsOnlyAfterRestart, PassedOn
<1> QED
  BY <1>2, <1>3, <1>4, RelayKeeps

\* A datagram x replaces m.
LEMMA GoesOnAs ==
  ASSUME IInv, NEW m \in net, NEW x \in Datagram, x.body = m.body,
         net' = (net \ {m}) \cup {x}, lost' = lost, RelayTypeOK',
         UNCHANGED <<kind, to_addr, cpc, nsent, heard, late>>,
         UNCHANGED <<running, restarts>>,
         RouteOf(x),
         nonRelayAddr' # NoAddr => to_addr[nonRelayAddr'] = Relay,
         nonRelayAddr' = NoAddr => nonRelayAddr = NoAddr /\ (PassedOn(x) => restarts > 0)
  PROVE  IInv'
<1>1. StepInv' /\ MixedOnlyThroughRelay' /\ net' \subseteq Datagram
  BY NetMoves
<1>2. NetInv'
  BY DEF IInv, NetInv, RouteOf, Owner
<1>3. restarts \in Nat
  BY RelayAssumption DEF IInv, TypeOK, RelayTypeOK
<1>4. RelayInv'
  BY <1>3 DEF IInv, RelayInv, ExitsOnlyAfterRestart, PassedOn
<1>5. lost' \subseteq Body
  BY DEF IInv, TypeOK, UdpTypeOK
<1> QED
  BY <1>1, <1>2, <1>4, <1>5, RelayKeeps

-----------------------------------------------------------------------------
(* The steps of the relay, the server and the network.                     *)

LEMMA DropStep ==
  ASSUME IInv, NEW m \in net, Drop(m),
         UNCHANGED <<kind, to_addr, cpc, nsent, heard, late>>
  PROVE  IInv'
<1>1. m \in Datagram
  BY DEF IInv, TypeOK, UdpTypeOK
<1>2. /\ net' = net \ {m} /\ dropped' = dropped \cup {m.body}
      /\ UNCHANGED <<lost, running, nonRelayAddr, dropProb, restarts>>
  BY DEF Drop
<1>3. lost' \subseteq Body /\ RelayTypeOK'
  BY <1>1, <1>2, DatagramFacts DEF IInv, TypeOK, UdpTypeOK, RelayTypeOK
<1>4. running' = running \/ restarts > 0
  BY <1>2
<1> QED
  BY <1>2, <1>3, <1>4, TakenAway

LEMMA ToClientStep ==
  ASSUME IInv, NEW m \in net, m.to = Relay, ToClient(m),
         UNCHANGED <<kind, to_addr, cpc, nsent, heard, late>>
  PROVE  IInv'
<1> DEFINE x == Forwarded(m, Relay, nonRelayAddr)
<1>1. m \in Datagram /\ RouteOf(m)
  BY DEF IInv, TypeOK, UdpTypeOK, NetInv
<1>2. /\ m.from = Server /\ nonRelayAddr # NoAddr
      /\ net' = (net \ {m}) \cup {x}
      /\ UNCHANGED <<lost, running, nonRelayAddr, dropProb, dropped, restarts>>
  BY DEF ToClient, FromServer, relayVars
<1>3. nonRelayAddr \in Clients /\ to_addr[nonRelayAddr] = Relay
  BY <1>2 DEF IInv, TypeOK, RelayTypeOK, RelayInv
<1>4. /\ x \in Datagram /\ x.from = Relay /\ x.to = nonRelayAddr
      /\ x.body = m.body /\ Owner(x) = Owner(m)
  BY <1>1, <1>3, ForwardedFacts, AddressFacts
<1> HIDE DEF x
<1>5. to_addr[Owner(m)] = Relay
  BY <1>1, <1>2, DatagramFacts, AddressFacts DEF RouteOf
<1>6. RouteOf(x)
  BY <1>3, <1>4, <1>5 DEF RouteOf
<1>7. RelayTypeOK'
  BY <1>2 DEF IInv, TypeOK, RelayTypeOK
<1> QED
  BY <1>2, <1>3, <1>4, <1>6, <1>7, GoesOnAs

\* The relay has no client to send to: it was started again.
LEMMA ToNobodyStep ==
  ASSUME IInv, NEW m \in net, m.to = Relay, ToNobody(m),
         UNCHANGED <<kind, to_addr, cpc, nsent, heard, late>>
  PROVE  IInv'
<1>1. m \in Datagram
  BY DEF IInv, TypeOK, UdpTypeOK
<1>2. /\ m.from = Server /\ nonRelayAddr = NoAddr /\ running' = FALSE
      /\ net' = net \ {m} /\ lost' = lost \cup {m.body}
      /\ UNCHANGED <<nonRelayAddr, dropProb, dropped, restarts>>
  BY DEF ToNobody, FromServer
<1>3. restarts > 0
  <2>1. restarts \in Nat
    BY RelayAssumption DEF IInv, TypeOK, RelayTypeOK
  <2>2. restarts # 0
    BY <1>2 DEF IInv, RelayInv, PassedOn
  <2> QED
    BY <2>1, <2>2
<1>4. lost' \subseteq Body /\ RelayTypeOK'
  BY <1>1, <1>2, DatagramFacts DEF IInv, TypeOK, UdpTypeOK, RelayTypeOK
<1> QED
  BY <1>2, <1>3, <1>4, TakenAway

LEMMA ToServerStep ==
  ASSUME IInv, NEW m \in net, m.to = Relay, ToServer(m),
         UNCHANGED <<kind, to_addr, cpc, nsent, heard, late>>
  PROVE  IInv'
<1> DEFINE x == Forwarded(m, Relay, Server)
<1>1. m \in Datagram /\ RouteOf(m) /\ Owner(m) \in Clients
  BY DatagramFacts DEF IInv, TypeOK, UdpTypeOK, NetInv
<1>2. /\ m.from # Server /\ nonRelayAddr' = m.from
      /\ net' = (net \ {m}) \cup {x}
      /\ UNCHANGED <<lost, running, dropProb, dropped, restarts>>
  BY DEF ToServer, FromServer
<1>3. /\ x \in Datagram /\ x.from = Relay /\ x.to = Server
      /\ x.body = m.body /\ Owner(x) = Owner(m)
  BY <1>1, ForwardedFacts, AddressFacts
<1> HIDE DEF x
<1>4. m.from = Owner(m) /\ to_addr[Owner(m)] = Relay
  BY <1>1, <1>2, AddressFacts DEF RouteOf
<1>5. RouteOf(x)
  BY <1>3, <1>4 DEF RouteOf
<1>6. RelayTypeOK' /\ nonRelayAddr' # NoAddr
  BY <1>1, <1>2, <1>4, AddressFacts DEF IInv, TypeOK, RelayTypeOK
<1> QED
  BY <1>2, <1>3, <1>4, <1>5, <1>6, GoesOnAs

LEMMA ServerEchoesStep ==
  ASSUME IInv, ServerEchoes, UNCHANGED relayVars
  PROVE  IInv'
<1>1. PICK m \in net :
        m.to = Server /\ net' = (net \ {m}) \cup {Forwarded(m, Server, m.from)}
  BY DEF ServerEchoes
<1>2. /\ UNCHANGED <<lost, kind, to_addr, cpc, nsent, heard, late>>
      /\ UNCHANGED <<running, nonRelayAddr, dropProb, dropped, restarts>>
  BY DEF ServerEchoes, relayVars
<1>3. m \in Datagram /\ RouteOf(m) /\ Owner(m) \in Clients /\ m.from \in Address
  BY DatagramFacts DEF IInv, TypeOK, UdpTypeOK, NetInv
<1> DEFINE x == Forwarded(m, Server, m.from)
<1>4. /\ x \in Datagram /\ x.from = Server /\ x.to = m.from
      /\ x.body = m.body /\ Owner(x) = Owner(m)
  BY <1>3, ForwardedFacts, AddressFacts
<1>5. net' = (net \ {m}) \cup {x}
  BY <1>1
<1> HIDE DEF x
<1>6. \/ m.from = Owner(m) /\ to_addr[Owner(m)] = Server
      \/ m.from = Relay /\ to_addr[Owner(m)] = Relay
  BY <1>1, <1>3, AddressFacts DEF RouteOf
<1>7. RouteOf(x)
  BY <1>4, <1>6 DEF RouteOf
<1>8. RelayTypeOK'
  BY <1>2 DEF IInv, TypeOK, RelayTypeOK
<1>9. nonRelayAddr' # NoAddr => to_addr[nonRelayAddr'] = Relay
  BY <1>2 DEF IInv, RelayInv
<1>10. PassedOn(x) /\ nonRelayAddr = NoAddr => restarts > 0
  <2>1. restarts \in Nat
    BY RelayAssumption DEF IInv, TypeOK, RelayTypeOK
  <2>2. PassedOn(x) => PassedOn(m)
    BY <1>1, <1>4, AddressFacts DEF PassedOn
  <2>3. PassedOn(m) /\ nonRelayAddr = NoAddr => restarts # 0
    BY DEF IInv, RelayInv
  <2> QED
    BY <2>1, <2>2, <2>3
<1> QED
  BY <1>2, <1>4, <1>5, <1>7, <1>8, <1>9, <1>10, GoesOnAs

LEMMA LoseStep ==
  ASSUME IInv, Lose, UNCHANGED relayVars
  PROVE  IInv'
<1>1. PICK m \in net : net' = net \ {m} /\ lost' = lost \cup {m.body}
  BY DEF Lose
<1>2. /\ UNCHANGED <<kind, to_addr, cpc, nsent, heard, late>>
      /\ UNCHANGED <<running, nonRelayAddr, dropProb, dropped, restarts>>
  BY DEF Lose, relayVars
<1>3. m \in Datagram
  BY DEF IInv, TypeOK, UdpTypeOK
<1>4. lost' \subseteq Body /\ RelayTypeOK'
  BY <1>1, <1>2, <1>3, DatagramFacts DEF IInv, TypeOK, UdpTypeOK, RelayTypeOK
<1>5. running' = running \/ restarts > 0
  BY <1>2
<1> QED
  BY <1>1, <1>2, <1>4, <1>5, TakenAway

LEMMA RestartStep ==
  ASSUME IInv, Restart
  PROVE  IInv'
<1>1. /\ restarts < MaxRestarts /\ restarts' = restarts + 1
      /\ running' = TRUE /\ nonRelayAddr' = NoAddr
      /\ UNCHANGED <<net, lost, kind, to_addr, cpc, nsent, heard, late, dropProb, dropped>>
  BY DEF Restart, udpVars
<1>2. restarts' \in 0 .. MaxRestarts /\ restarts' > 0
  BY <1>1, RelayAssumption DEF IInv, TypeOK, RelayTypeOK
<1>3. RelayTypeOK'
  BY <1>1, <1>2 DEF IInv, TypeOK, RelayTypeOK
<1>4. NetInv' /\ RelayInv'
  BY <1>1, <1>2 DEF IInv, NetInv, RouteOf, Owner, RelayInv, ExitsOnlyAfterRestart
<1>5. MixedOnlyThroughRelay' /\ StepInv'
  BY <1>1 DEF IInv, MixedOnlyThroughRelay, StepInv, InStep, At, Owner
<1>6. lost' \subseteq Body /\ net' \subseteq Datagram
  BY <1>1 DEF IInv, TypeOK, UdpTypeOK
<1> QED
  BY <1>1, <1>3, <1>4, <1>5, <1>6, RelayKeeps

-----------------------------------------------------------------------------
(* The steps of the clients.                                               *)

\* What the clients do not touch of the invariant.
LEMMA ClientKeeps ==
  ASSUME IInv, UNCHANGED relayVars, UNCHANGED <<kind, to_addr>>,
         UdpTypeOK', NetInv', MixedOnlyThroughRelay', StepInv',
         \A m \in net' : PassedOn(m) => m \in net
  PROVE  IInv'
<1>1. UNCHANGED <<running, nonRelayAddr, dropProb, dropped, restarts>>
  BY DEF relayVars
<1>2. RelayTypeOK'
  BY <1>1 DEF IInv, TypeOK, RelayTypeOK
<1>3. RelayInv'
  BY <1>1 DEF IInv, RelayInv, ExitsOnlyAfterRestart, PassedOn
<1> QED
  BY <1>2, <1>3 DEF IInv, TypeOK

LEMMA SendStep ==
  ASSUME IInv, NEW c \in Clients, Send(c), UNCHANGED relayVars
  PROVE  IInv'
<1> DEFINE x == [from |-> c, to |-> to_addr[c], body |-> <<c, nsent[c] + 1>>]
<1>1. /\ cpc[c] = "input" /\ nsent[c] < MaxLines
      /\ nsent' = [nsent EXCEPT ![c] = nsent[c] + 1]
      /\ net' = net \cup {x} /\ cpc' = [cpc EXCEPT ![c] = "wait"]
      /\ UNCHANGED <<lost, kind, to_addr, heard, late>>
  BY DEF Send, At, Goto
<1>2. UdpTypeOK
  BY DEF IInv, TypeOK
<1>3. nsent[c] + 1 \in 1 .. MaxLines /\ to_addr[c] \in {Server, Relay}
  BY <1>1, <1>2, UdpAssumption DEF UdpTypeOK
<1>4. /\ x \in Datagram /\ x.from = c /\ x.to = to_addr[c]
      /\ Owner(x) = c /\ x.body = <<c, nsent[c] + 1>>
  BY <1>3, AddressFacts DEF Datagram, Body, Owner
<1> HIDE DEF x
<1>5. UdpTypeOK'
  BY <1>1, <1>2, <1>3, <1>4, UdpAssumption DEF UdpTypeOK
<1>6. NetInv'
  BY <1>1, <1>4 DEF IInv, NetInv, RouteOf, Owner
<1>7. MixedOnlyThroughRelay'
  BY <1>1 DEF IInv, MixedOnlyThroughRelay
<1>8. StepInv'
  <2> SUFFICES ASSUME NEW d \in Clients, InStep(d)'
               PROVE  /\ \A m \in net' : Owner(m) = d => At(d, "wait")' /\ m.body = <<d, nsent'[d]>>
                      /\ \A m, y \in net' : Owner(m) = d /\ Owner(y) = d => m = y
                      /\ At(d, "input")' /\ nsent'[d] > 0 => heard'[d] = <<d, nsent'[d]>>
    BY DEF StepInv, Owner
  <2>1. InStep(d)
    BY <1>1, <1>2 DEF InStep, At, UdpTypeOK
  <2>2. /\ \A m \in net : Owner(m) = d => At(d, "wait") /\ m.body = <<d, nsent[d]>>
        /\ \A m, y \in net : Owner(m) = d /\ Owner(y) = d => m = y
        /\ At(d, "input") /\ nsent[d] > 0 => heard[d] = <<d, nsent[d]>>
    BY <2>1 DEF IInv, StepInv
  <2>3. CASE d = c
    <3>1. \A m \in net : Owner(m) # c
      BY <1>1, <2>2, <2>3 DEF At
    <3>2. cpc'[c] = "wait" /\ nsent'[c] = nsent[c] + 1
      BY <1>1, <1>2 DEF UdpTypeOK
    <3> QED
      BY <1>1, <1>4, <2>3, <3>1, <3>2 DEF At
  <2>4. CASE d # c
    <3>1. cpc'[d] = cpc[d] /\ nsent'[d] = nsent[d] /\ heard'[d] = heard[d]
      BY <1>1, <1>2, <2>4 DEF UdpTypeOK
    <3>2. \A m \in net' : Owner(m) = d => m \in net
      BY <1>1, <1>4, <2>4
    <3> QED
      BY <2>2, <3>1, <3>2 DEF At
  <2> QED
    BY <2>3, <2>4
<1>9. \A m \in net' : PassedOn(m) => m \in net
  BY <1>1, <1>4, AddressFacts DEF PassedOn
<1> QED
  BY <1>1, <1>5, <1>6, <1>7, <1>8, <1>9, ClientKeeps

\* The reply that comes first: another client's line only by way of the relay.
LEMMA ReceiveStep ==
  ASSUME IInv, NEW c \in Clients, Receive(c), UNCHANGED relayVars
  PROVE  IInv'
<1>1. PICK m \in net :
        /\ m.to = c /\ net' = net \ {m}
        /\ heard' = [heard EXCEPT ![c] = m.body]
        /\ lost' = IF m.body[1] = c THEN lost ELSE lost \cup {m.body}
  BY DEF Receive
<1>2. /\ cpc[c] = "wait" /\ cpc' = [cpc EXCEPT ![c] = "input"]
      /\ UNCHANGED <<kind, to_addr, nsent, late>>
  BY DEF Receive, At, Goto
<1>3. UdpTypeOK /\ m \in Datagram /\ m.body \in Body /\ Owner(m) \in Clients /\ RouteOf(m)
  BY DatagramFacts DEF IInv, TypeOK, UdpTypeOK, NetInv
<1>4. Owner(m) = c \/ (to_addr[c] = Relay /\ to_addr[Owner(m)] = Relay)
  BY <1>1, <1>3, AddressFacts DEF RouteOf, UdpTypeOK
<1>5. UdpTypeOK'
  BY <1>1, <1>2, <1>3 DEF UdpTypeOK
<1>6. NetInv'
  BY <1>1, <1>2 DEF IInv, NetInv, RouteOf, Owner
<1>7. MixedOnlyThroughRelay'
  <2> SUFFICES ASSUME NEW d \in Clients, heard'[d] # <<>>, heard'[d][1] # d
               PROVE  to_addr[d] = Relay /\ to_addr[heard'[d][1]] = Relay
    BY <1>2 DEF MixedOnlyThroughRelay
  <2>1. CASE d = c
    BY <1>1, <1>3, <1>4, <2>1 DEF Owner, UdpTypeOK
  <2>2. CASE d # c
    BY <1>1, <1>3, <2>2 DEF IInv, MixedOnlyThroughRelay, UdpTypeOK
  <2> QED
    BY <2>1, <2>2
<1>8. StepInv'
  <2> SUFFICES ASSUME NEW d \in Clients, InStep(d)'
               PROVE  /\ \A x \in net' : Owner(x) = d => At(d, "wait")' /\ x.body = <<d, nsent'[d]>>
                      /\ \A x, y \in net' : Owner(x) = d /\ Owner(y) = d => x = y
                      /\ At(d, "input")' /\ nsent'[d] > 0 => heard'[d] = <<d, nsent'[d]>>
    BY DEF StepInv, Owner
  <2>1. InStep(d)
    BY <1>2, <1>3 DEF InStep, At, UdpTypeOK
  <2>2. /\ \A x \in net : Owner(x) = d => At(d, "wait") /\ x.body = <<d, nsent[d]>>
        /\ \A x, y \in net : Owner(x) = d /\ Owner(y) = d => x = y
        /\ At(d, "input") /\ nsent[d] > 0 => heard[d] = <<d, nsent[d]>>
    BY <2>1 DEF IInv, StepInv
  <2>3. CASE d = c
    <3>1. Owner(m) = c
      <4>1. to_addr[c] = Relay => \A e \in Clients \ {c} : to_addr[e] = Server
        BY <2>1, <2>3 DEF InStep
      <4> QED
        BY <1>3, <1>4, <4>1, AddressFacts
    <3>2. m.body = <<c, nsent[c]>> /\ \A x \in net' : Owner(x) # c
      BY <1>1, <2>2, <2>3, <3>1
    <3>3. heard'[c] = <<c, nsent[c]>>
      BY <1>1, <1>3, <3>2 DEF UdpTypeOK
    <3> QED
      BY <1>2, <2>3, <3>2, <3>3
  <2>4. CASE d # c
    <3>1. cpc'[d] = cpc[d] /\ heard'[d] = heard[d]
      BY <1>1, <1>2, <1>3, <2>4 DEF UdpTypeOK
    <3> QED
      BY <1>1, <1>2, <2>2, <3>1 DEF At
  <2> QED
    BY <2>3, <2>4
<1>9. \A x \in net' : PassedOn(x) => x \in net
  BY <1>1
<1> QED
  BY <1>2, <1>5, <1>6, <1>7, <1>8, <1>9, ClientKeeps

\* A client that times out, or ends, is in step no longer; the others are
\* not concerned.
LEMMA LeavesStep ==
  ASSUME IInv, NEW c \in Clients, Timeout(c) \/ Ends(c), UNCHANGED relayVars
  PROVE  IInv'
<1>1. /\ UNCHANGED <<net, lost, kind, to_addr>>
      /\ cpc'[c] = "done" \/ late'[c] = TRUE
      /\ \A d \in Clients \ {c} :
           UNCHANGED <<cpc[d], nsent[d], heard[d], late[d]>>
      /\ heard'[c] \in {heard[c], <<>>}
  BY DEF Timeout, Ends, Goto, IInv, TypeOK, UdpTypeOK
<1>2. UdpTypeOK'
  <2>1. UdpTypeOK /\ 0 \in 0 .. MaxLines /\ <<>> \in Body \cup {<<>>}
    BY UdpAssumption DEF IInv, TypeOK
  <2>2. /\ cpc' \in [Clients -> {"input", "wait", "done"}]
        /\ nsent' \in [Clients -> 0 .. MaxLines]
        /\ heard' \in [Clients -> Body \cup {<<>>}]
        /\ late' \in [Clients -> BOOLEAN]
    <3>1. CASE Timeout(c)
      BY <2>1, <3>1 DEF Timeout, Goto, UdpTypeOK
    <3>2. CASE Ends(c)
      BY <2>1, <3>2 DEF Ends, Goto, UdpTypeOK
    <3> QED
      BY <3>1, <3>2
  <2> QED
    BY <1>1, <2>1, <2>2 DEF UdpTypeOK
<1>3. NetInv'
  BY <1>1 DEF IInv, NetInv, RouteOf, Owner
<1>4. MixedOnlyThroughRelay'
  BY <1>1 DEF IInv, MixedOnlyThroughRelay
<1>5. StepInv'
  <2> SUFFICES ASSUME NEW d \in Clients, InStep(d)'
               PROVE  /\ \A x \in net' : Owner(x) = d => At(d, "wait")' /\ x.body = <<d, nsent'[d]>>
                      /\ \A x, y \in net' : Owner(x) = d /\ Owner(y) = d => x = y
                      /\ At(d, "input")' /\ nsent'[d] > 0 => heard'[d] = <<d, nsent'[d]>>
    BY DEF StepInv, Owner
  <2>1. d # c
    BY <1>1 DEF InStep, At
  <2>2. UNCHANGED <<cpc[d], nsent[d], heard[d], late[d], net, to_addr>>
    BY <1>1, <2>1
  <2>3. InStep(d)
    BY <2>2 DEF InStep, At
  <2>4. /\ \A x \in net : Owner(x) = d => At(d, "wait") /\ x.body = <<d, nsent[d]>>
        /\ \A x, y \in net : Owner(x) = d /\ Owner(y) = d => x = y
        /\ At(d, "input") /\ nsent[d] > 0 => heard[d] = <<d, nsent[d]>>
    BY <2>3 DEF IInv, StepInv
  <2> QED
    BY <2>2, <2>4 DEF At
<1>6. \A x \in net' : PassedOn(x) => x \in net
  BY <1>1
<1> QED
  BY <1>1, <1>2, <1>3, <1>4, <1>5, <1>6, ClientKeeps

-----------------------------------------------------------------------------
(* All the steps.                                                          *)

LEMMA NextStep ==
  ASSUME IInv, [Next]_vars
  PROVE  IInv'
<1>1. ASSUME NEW c \in Clients, ClientNext(c), UNCHANGED relayVars
      PROVE  IInv'
  BY <1>1, SendStep, ReceiveStep, LeavesStep DEF ClientNext, Waits, Quit, Finish
<1>2. CASE ServerEchoes /\ UNCHANGED relayVars
  BY <1>2, ServerEchoesStep
<1>3. CASE Lose /\ UNCHANGED relayVars
  BY <1>3, LoseStep
<1>4. CASE RelayNext
  <2>1. PICK m \in net :
          m.to = Relay /\ (Drop(m) \/ ToClient(m) \/ ToNobody(m) \/ ToServer(m))
    BY <1>4 DEF RelayNext
  <2>2. UNCHANGED <<kind, to_addr, cpc, nsent, heard, late>>
    BY <1>4 DEF RelayNext
  <2> QED
    BY <2>1, <2>2, DropStep, ToClientStep, ToNobodyStep, ToServerStep
<1>5. CASE Restart
  BY <1>5, RestartStep
<1>6. CASE UNCHANGED vars
  <2>1. UNCHANGED <<net, lost, kind, to_addr, cpc, nsent, heard, late>> /\ UNCHANGED relayVars
    BY <1>6 DEF vars, udpVars
  <2>2. UdpTypeOK' /\ NetInv' /\ MixedOnlyThroughRelay' /\ StepInv'
    BY <2>1 DEF IInv, TypeOK, UdpTypeOK, NetInv, RouteOf, Owner, MixedOnlyThroughRelay,
                StepInv, InStep, At
  <2> QED
    BY <2>1, <2>2, ClientKeeps
<1> QED
  BY <1>1, <1>2, <1>3, <1>4, <1>5, <1>6 DEF Next, AtRest

\* The inductive invariant holds in every state.
THEOREM Invariance == Spec => []IInv
<1>1. Init => IInv
  BY InitInv
<1>2. IInv /\ [Next]_vars => IInv'
  BY NextStep
<1> QED
  BY <1>1, <1>2, PTL DEF Spec

-----------------------------------------------------------------------------
(* The theorems.                                                           *)

\* The variables of the network, the clients and the relay keep their types.
THEOREM TypeCorrect == Spec => []TypeOK
<1>1. IInv => TypeOK
  BY DEF IInv
<1> QED
  BY <1>1, Invariance, PTL

\* The relay's one address mixes replies, but only of clients that use it.
THEOREM MixesOnlyItsClients == Spec => []MixedOnlyThroughRelay
<1>1. IInv => MixedOnlyThroughRelay
  BY DEF IInv
<1> QED
  BY <1>1, Invariance, PTL

\* A client gets the reply to the line it sent as long as it has not timed
\* out and shares the relay with nobody, whatever is lost and dropped, and
\* whenever the relay is restarted.
THEOREM KeepsInStep == Spec => []InStepUntilTimeout
<1>1. IInv => InStepUntilTimeout
  BY InStepFromInv DEF IInv
<1> QED
  BY <1>1, Invariance, PTL

\* Without a restart the relay's sendto() to its client does not fail.
THEOREM ExitsAfterRestart == Spec => []ExitsOnlyAfterRestart
<1>1. IInv => ExitsOnlyAfterRestart
  BY DEF IInv, RelayInv
<1> QED
  BY <1>1, Invariance, PTL
=============================================================================
