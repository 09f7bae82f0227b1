------------------------------ MODULE UdpRelay ------------------------------
(***************************************************************************)
(* udp-relay.cc: one socket between clients and a server.  A datagram from *)
(* the server's address goes to the last client whose datagram was         *)
(* forwarded, every other one to the server; either may be dropped, with   *)
(* the probability given on the command line.  One turn of its for(;;) is  *)
(* one action: nothing between recvfrom() and sendto() blocks.             *)
(*                                                                         *)
(* The relay runs with the clients and the server of UdpEcho.  It may be   *)
(* stopped and started again on its port, which forgets the client.        *)
(***************************************************************************)
EXTENDS UdpEcho

CONSTANTS
  NoAddr,      \* the address memset() leaves in nonRelayAddr
  Basis,       \* random() % basis, 10000 in the code
  DropProbs,   \* the drop probabilities the relay may be given, times Basis
  MaxRestarts  \* bound: times the relay is started again

ASSUME RelayAssumption ==
  /\ NoAddr \notin Address
  /\ Basis \in Nat \ {0} /\ DropProbs \subseteq Nat /\ MaxRestarts \in Nat

VARIABLES
  running,       \* the relay process is alive
  nonRelayAddr,
  dropProb,
  dropped,       \* the bodies the relay dropped
  restarts

relayVars == <<running, nonRelayAddr, dropProb, dropped, restarts>>
vars == <<udpVars, relayVars>>

RelayTypeOK ==
  /\ running \in BOOLEAN
  /\ nonRelayAddr \in Clients \cup {NoAddr}
  /\ dropProb \in DropProbs
  /\ dropped \subseteq Body
  /\ restarts \in 0 .. MaxRestarts

TypeOK == UdpTypeOK /\ RelayTypeOK

RelayInit ==
  /\ running = TRUE /\ nonRelayAddr = NoAddr
  /\ dropProb \in DropProbs
  /\ dropped = {} /\ restarts = 0

Init == UdpInit /\ RelayInit

-----------------------------------------------------------------------------
\* dropPacket: sample / basis <= prob.
DropPacket(sample) == sample <= dropProb

FromServer(m) == m.from = Server

Drop(m) ==
  /\ \E sample \in 0 .. Basis - 1 : DropPacket(sample)
  /\ net' = net \ {m}
  /\ dropped' = dropped \cup {m.body}
  /\ UNCHANGED <<lost, running, nonRelayAddr, dropProb, restarts>>

\* The other outcome of dropPacket.
Passes == \E sample \in 0 .. Basis - 1 : ~ DropPacket(sample)

ToClient(m) ==
  /\ FromServer(m) /\ Passes
  /\ nonRelayAddr # NoAddr
  /\ net' = (net \ {m}) \cup {Forwarded(m, Relay, nonRelayAddr)}
  /\ UNCHANGED <<lost, relayVars>>

\* sendto() to 0.0.0.0, port 0, fails: exit.
ToNobody(m) ==
  /\ FromServer(m) /\ Passes
  /\ nonRelayAddr = NoAddr
  /\ net' = net \ {m} /\ lost' = lost \cup {m.body}
  /\ running' = FALSE
  /\ UNCHANGED <<nonRelayAddr, dropProb, dropped, restarts>>

\* Mutant of ToServer: the client's address is copied from the wrong one.
ToServerCopiesOwn(m) ==
  /\ ~ FromServer(m) /\ Passes
  /\ nonRelayAddr' = m.to
  /\ net' = (net \ {m}) \cup {Forwarded(m, Relay, Server)}
  /\ UNCHANGED <<lost, running, dropProb, dropped, restarts>>

\* Mutant of ToServer: no memcpy().
ToServerForgets(m) ==
  /\ ~ FromServer(m) /\ Passes
  /\ net' = (net \ {m}) \cup {Forwarded(m, Relay, Server)}
  /\ UNCHANGED <<lost, running, nonRelayAddr, dropProb, dropped, restarts>>

\* Mutant of ToServer: the first datagram of a client only sets the address.
ToServerLearns(m) ==
  /\ ~ FromServer(m) /\ Passes
  /\ nonRelayAddr' = m.from
  /\ net' = (net \ {m}) \cup
              {x \in {Forwarded(m, Relay, Server)} : nonRelayAddr = m.from}
  /\ UNCHANGED <<lost, running, dropProb, dropped, restarts>>

ToServer(m) ==
  /\ ~ FromServer(m) /\ Passes
  /\ nonRelayAddr' = m.from
  /\ net' = (net \ {m}) \cup {Forwarded(m, Relay, Server)}
  /\ UNCHANGED <<lost, running, dropProb, dropped, restarts>>

RelayNext ==
  /\ running
  /\ \E m \in net : m.to = Relay /\ (Drop(m) \/ ToClient(m) \/ ToNobody(m) \/ ToServer(m))
  /\ UNCHANGED <<kind, to_addr, cpc, nsent, heard, late>>

Restart ==
  /\ restarts < MaxRestarts
  /\ restarts' = restarts + 1
  /\ running' = TRUE /\ nonRelayAddr' = NoAddr
  /\ UNCHANGED <<udpVars, dropProb, dropped>>

\* Every client has left, or waits for a reply that will not come; one that
\* never ends is cut off by the bound.
AtRest ==
  /\ \A c \in Clients : At(c, "done") \/ At(c, "wait") \/ kind[c] = "endless"
  /\ UNCHANGED vars

Next ==
  \/ \E c \in Clients : ClientNext(c) /\ UNCHANGED relayVars
  \/ ServerEchoes /\ UNCHANGED relayVars
  \/ Lose /\ UNCHANGED relayVars
  \/ RelayNext
  \/ Restart
  \/ AtRest

Fairness ==
  /\ WF_vars(ServerEchoes /\ UNCHANGED relayVars)
  /\ WF_vars(RelayNext)
  /\ \A c \in Clients : WF_vars((Waits(c) \/ GoesOn(c)) /\ UNCHANGED relayVars)

Spec == Init /\ [][Next]_vars
FairSpec == Spec /\ Fairness

-----------------------------------------------------------------------------
(* Properties.                                                             *)

\* "forwarded to the last addr/port that forwarded a relayed packet" (23): a
\* client may be handed another's reply, but only if both use the relay.
MixedOnlyThroughRelay ==
  \A c \in Clients :
    heard[c] # <<>> /\ heard[c][1] # c =>
      to_addr[c] = Relay /\ to_addr[heard[c][1]] = Relay

\* A client is in step, its last reply being the line it just sent, until it
\* times out or shares the relay: a reply that comes after the 3 seconds
\* (udp-select-example.cc:89) is what puts it out of step.
InStepUntilTimeout ==
  \A c \in Clients :
    /\ At(c, "input") /\ nsent[c] > 0 /\ ~ late[c]
    /\ to_addr[c] = Relay => \A d \in Clients \ {c} : to_addr[d] = Server
    => heard[c] = <<c, nsent[c]>>

\* The exit(1) after the sendto() to the client (159-162) cannot be reached
\* by a relay that was not started again: the server only answers what the
\* relay sent it, after nonRelayAddr was set.
ExitsOnlyAfterRestart == ~ running => restarts > 0

\* A client that waits is let go by a reply or its time-out, unless its line
\* was lost, dropped or handed to another client, or the relay is gone.
WaitsOnlyForLost ==
  \A c \in Clients :
    At(c, "wait") ~>
      \/ ~ At(c, "wait")
      \/ kind[c] = "blocking" /\ <<c, nsent[c]>> \in lost \cup dropped
      \/ kind[c] = "blocking" /\ ~ running
      \/ kind[c] = "blocking" /\ \E m \in net :
           m.body = <<c, nsent[c]>> /\ m.to \in Clients \ {c}

\* udp-struct sends all its packets and ends whatever is lost, dropped, or
\* late: nothing it waits for can hold it back for ever.
NumberedFinish == \A c \in Clients : kind[c] = "numbered" ~> At(c, "done")

\* Without a drop probability packets go "from 'client' to 'server' as
\* before" (README:74); dropping is for those who specify it.
NoDropWithoutProbability == dropProb = 0 => dropped = {}
=============================================================================
