---------------------------- MODULE EchoService ----------------------------
(***************************************************************************)
(* What an echo server and its clients promise each other, whatever the    *)
(* server's structure (tcp-2-server.cc: one client at a time, tcp-4: a     *)
(* process each, tcp-5 and tcp-6: select and poll).  README.md states it   *)
(* as "the client both send to the server and then receive a reply from    *)
(* the server (the same message)".                                         *)
(*                                                                         *)
(* asked[c] is what client c has sent, echoed[c] what it has received.     *)
(* The echo of a client grows, is always made of the first bytes it sent,  *)
(* and only an open client sends or receives.  A client may leave at any   *)
(* time, with its echo incomplete.                                         *)
(***************************************************************************)
EXTENDS Naturals, Sequences, SequencesExt

CONSTANTS Clients, Bytes

VARIABLES phase, asked, echoed

vars == <<phase, asked, echoed>>

Init ==
  /\ phase = [c \in Clients |-> "new"]
  /\ asked = [c \in Clients |-> <<>>]
  /\ echoed = [c \in Clients |-> <<>>]

Open(c) ==
  /\ phase[c] = "new"
  /\ phase' = [phase EXCEPT ![c] = "open"]
  /\ UNCHANGED <<asked, echoed>>

Ask(c) ==
  /\ phase[c] = "open"
  /\ asked' \in [Clients -> Seq(Bytes)]
  /\ IsStrictPrefix(asked[c], asked'[c])
  /\ \A d \in Clients \ {c} : asked'[d] = asked[d]
  /\ UNCHANGED <<phase, echoed>>

Echo(c) ==
  /\ phase[c] = "open"
  /\ echoed' \in [Clients -> Seq(Bytes)]
  /\ IsStrictPrefix(echoed[c], echoed'[c])
  /\ IsPrefix(echoed'[c], asked[c])
  /\ \A d \in Clients \ {c} : echoed'[d] = echoed[d]
  /\ UNCHANGED <<phase, asked>>

Leave(c) ==
  /\ phase[c] = "open"
  /\ phase' = [phase EXCEPT ![c] = "closed"]
  /\ UNCHANGED <<asked, echoed>>

Next == \E c \in Clients : Open(c) \/ Ask(c) \/ Echo(c) \/ Leave(c)

Spec == Init /\ [][Next]_vars
=============================================================================
