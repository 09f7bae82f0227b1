------------------------------ MODULE UdpEcho ------------------------------
(***************************************************************************)
(* The UDP echo programs: udp-3-server.cc returns every datagram to its    *)
(* sender; udp-3-client.cc sends a line and blocks in recvfrom();          *)
(* udp-select-example.cc does the same but waits at most 3 seconds in      *)
(* select(), as do udp-struct.cc, which sends 100 numbered packets, and    *)
(* udp-struct-server.cc, which sends them until feof(stdin), a stream it   *)
(* never reads.  The network is external to the repository: datagrams      *)
(* arrive once, in any order, or never.                                    *)
(*                                                                         *)
(* A datagram is [from, to, body]; a body is <<c, k>>, the k-th line of    *)
(* client c.  Every client has an ephemeral port of its own and is its own *)
(* address; what is sent to a client waits in net until it calls           *)
(* recvfrom().                                                             *)
(***************************************************************************)
EXTENDS Naturals

CONSTANTS
  Clients,
  Server, Relay,   \* the addresses of the two other processes
  MaxLines         \* lines or packets a client sends: 100 for udp-struct, else a bound

ASSUME UdpAssumption ==
  /\ Server # Relay /\ Server \notin Clients /\ Relay \notin Clients
  /\ MaxLines \in Nat

VARIABLES
  net,      \* the datagrams on their way or in a receive buffer
  lost,     \* the bodies that were lost on the way, or came to another client
  kind,     \* "blocking": udp-3-client, "select": udp-select-example,
            \* "numbered": udp-struct, "endless": udp-struct-server
  to_addr,  \* where a client was told to send: the server, or a relay to it
  cpc,      \* "input", "wait", "done"
  nsent,    \* the lines a client has sent
  heard,    \* the body a client received last, or <<>>
  late      \* the client has timed out at least once

Kinds == {"blocking", "select", "numbered", "endless"}

\* The programs that read no input.
Counting(c) == kind[c] \in {"numbered", "endless"}

udpVars == <<net, lost, kind, to_addr, cpc, nsent, heard, late>>

Address == Clients \cup {Server, Relay}
Body == Clients \X (1 .. MaxLines)
Datagram == [from : Address, to : Address, body : Body]

UdpTypeOK ==
  /\ net \subseteq Datagram
  /\ lost \subseteq Body
  /\ kind \in [Clients -> Kinds]
  /\ to_addr \in [Clients -> {Server, Relay}]
  /\ cpc \in [Clients -> {"input", "wait", "done"}]
  /\ nsent \in [Clients -> 0 .. MaxLines]
  /\ heard \in [Clients -> Body \cup {<<>>}]
  /\ late \in [Clients -> BOOLEAN]

\* One of the clients may count; the others then run udp-3-client.
UdpInit ==
  /\ net = {} /\ lost = {}
  /\ kind \in [Clients -> Kinds]
  /\ \A c, d \in Clients : Counting(c) => c = d \/ kind[d] = "blocking"
  /\ to_addr \in [Clients -> {Server, Relay}]
  /\ cpc = [c \in Clients |-> "input"]
  /\ nsent = [c \in Clients |-> 0]
  /\ heard = [c \in Clients |-> <<>>]
  /\ late = [c \in Clients |-> FALSE]

-----------------------------------------------------------------------------
At(c, l) == cpc[c] = l
Goto(c, l) == cpc' = [cpc EXCEPT ![c] = l]

\* sendto() of what m carries, from one process to another.
Forwarded(m, from, to) == [m EXCEPT !.from = from, !.to = to]

Lose ==
  /\ \E m \in net : net' = net \ {m} /\ lost' = lost \cup {m.body}
  /\ UNCHANGED <<kind, to_addr, cpc, nsent, heard, late>>

\* Mutant of Send: the destination is the relay whatever argv says.
SendToRelay(c) ==
  /\ At(c, "input") /\ nsent[c] < MaxLines
  /\ nsent' = [nsent EXCEPT ![c] = @ + 1]
  /\ net' = net \cup {[from |-> c, to |-> Relay, body |-> <<c, nsent[c] + 1>>]}
  /\ Goto(c, "wait")
  /\ UNCHANGED <<lost, kind, to_addr, heard, late>>

\* A line is read and sent with its NUL, or a packet is made up and sent.
Send(c) ==
  /\ At(c, "input") /\ nsent[c] < MaxLines
  /\ nsent' = [nsent EXCEPT ![c] = @ + 1]
  /\ net' = net \cup {[from |-> c, to |-> to_addr[c], body |-> <<c, nsent[c] + 1>>]}
  /\ Goto(c, "wait")
  /\ UNCHANGED <<lost, kind, to_addr, heard, late>>

\* The first datagram to arrive is the reply, whoever sent it and whatever
\* line it carries.
Receive(c) ==
  /\ At(c, "wait")
  /\ \E m \in net :
       /\ m.to = c
       /\ net' = net \ {m}
       /\ heard' = [heard EXCEPT ![c] = m.body]
       /\ lost' = IF m.body[1] = c THEN lost ELSE lost \cup {m.body}
  /\ Goto(c, "input")
  /\ UNCHANGED <<kind, to_addr, nsent, late>>

\* Mutant of Timeout: select() gets no time-out.
TimeoutUnlessCounting(c) ==
  /\ At(c, "wait") /\ kind[c] = "select"
  /\ late' = [late EXCEPT ![c] = TRUE]
  /\ Goto(c, "input")
  /\ UNCHANGED <<net, lost, kind, to_addr, nsent, heard>>

\* select() returns 0: nothing arrived in time.  The client goes on to the
\* next line and does not forget this one.
Timeout(c) ==
  /\ At(c, "wait") /\ kind[c] # "blocking"
  /\ late' = [late EXCEPT ![c] = TRUE]
  /\ Goto(c, "input")
  /\ UNCHANGED <<net, lost, kind, to_addr, nsent, heard>>

\* The process ends.  Its port is closed and no one else gets it.
Ends(c) ==
  /\ Goto(c, "done")
  /\ nsent' = [nsent EXCEPT ![c] = 0]
  /\ heard' = [heard EXCEPT ![c] = <<>>]
  /\ late' = [late EXCEPT ![c] = FALSE]
  /\ UNCHANGED <<net, lost, kind, to_addr>>

\* The end of the input.
Quit(c) == At(c, "input") /\ ~ Counting(c) /\ Ends(c)

\* packetNumber has reached its limit.
Finish(c) ==
  /\ At(c, "input") /\ kind[c] = "numbered" /\ nsent[c] = MaxLines
  /\ Ends(c)

\* Mutant of ServerEchoes: a datagram is answered again.
ServerEchoesTwice ==
  /\ \E m \in net :
       /\ m.to = Server
       /\ net' = net \cup {Forwarded(m, Server, m.from)}
  /\ UNCHANGED <<lost, kind, to_addr, cpc, nsent, heard, late>>

ServerEchoes ==
  /\ \E m \in net :
       /\ m.to = Server
       /\ net' = (net \ {m}) \cup {Forwarded(m, Server, m.from)}
  /\ UNCHANGED <<lost, kind, to_addr, cpc, nsent, heard, late>>

Waits(c) == Receive(c) \/ Timeout(c)
GoesOn(c) == Counting(c) /\ (Send(c) \/ Finish(c))
ClientNext(c) == Send(c) \/ Waits(c) \/ Quit(c) \/ Finish(c)
=============================================================================
