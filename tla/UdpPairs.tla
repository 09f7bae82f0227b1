------------------------------ MODULE UdpPairs ------------------------------
(***************************************************************************)
(* The UDP programs that talk to each other directly, C and Python: the    *)
(* servers that print, or print and return, what they receive, with the    *)
(* clients README pairs them with.  Which server runs, and which client    *)
(* program each user runs, is chosen at the start.                         *)
(*                                                                         *)
(* A C client sends a line with its NUL, a Python client without.  The     *)
(* clients udp-4 to udp-7 connect their socket: it takes datagrams from    *)
(* the address they send to only, and learns that the server is gone.      *)
(* udp-5 to udp-7 bind it to the port given on the command line, here the  *)
(* same for all; udp-7 is started with a broadcast address, the others     *)
(* with the server's.  (Python's udp-8-client acts as its udp-5-client.)   *)
(*                                                                         *)
(* A byte is <<c, l, j>>: byte j of line l of c.  Datagrams arrive once,   *)
(* in any order, or never.                                                 *)
(***************************************************************************)
EXTENDS UdpBuffers, FiniteSets

CONSTANTS
  Clients,
  Server,      \* the process behind the server's address
  Member,      \* a second member of the multicast group
  Stranger,    \* a process that sends to a port it has no business with
  Stack,       \* what a buffer's cells hold before its first use
  MaxLines,    \* bound: lines a client sends
  Lengths,     \* bound: the lengths of the lines
  MaxStrays,   \* bound: datagrams the stranger sends
  MaxFlight,   \* bound: datagrams on their way when another one is sent
  PacketSize   \* argv[3] of udp-8-client

\* Of the programs' data, no character of a line is a NUL.
ASSUME PairsAssumption ==
  /\ MaxLines \in Nat /\ Lengths \subseteq Nat /\ {MaxStrays, MaxFlight} \subseteq Nat
  /\ PacketSize \in 1 .. Size /\ Stack # NUL
  /\ NUL \notin (Clients \cup {Stranger}) \X Nat \X Nat
  /\ Server # Member /\ Stranger \notin Clients \cup {Server, Member}
  /\ Server \notin Clients /\ Member \notin Clients

VARIABLES
  server,   \* the server's program
  kind,     \* each client's program
  running,  \* the server's process is alive
  net,      \* the datagrams on their way or in a receive buffer
  lost,     \* the clients that wait for a reply that will not come
  strays,
  cpc,      \* "start", "option", "input", "wait", "done"
  nsent,    \* the lines the process of a client has sent
  bound,    \* the clients whose sockets are bound to the given port
  reuse,    \* those of them with SO_REUSEADDR
  killed,   \* the clients that were interrupted while they waited
  input,    \* the buffers the lines are typed into
  buffer,   \* the buffers datagrams are received in
  shown     \* what each process printed last, and of which datagram

netVars == <<net, lost, strays>>
portVars == <<bound, reuse, killed>>
buffers == <<input, buffer>>
fixed == <<server, kind>>
vars == <<fixed, running, netVars, cpc, nsent, portVars, buffers, shown>>

Pairs == {
  <<"udp-server", "udp-3-client">>,   <<"udp-server", "udp-3-client.py">>,
  <<"udp-2-server", "udp-2-client">>, <<"udp-2-server", "udp-2-client.py">>,
  <<"udp-3-server", "udp-3-client">>, <<"udp-3-server", "udp-3-client.py">>,
  <<"udp-3-server", "udp-4-client">>, <<"udp-3-server", "udp-5-client">>,
  <<"udp-3-server", "udp-6-client">>, <<"udp-3-server", "udp-6-client.py">>,
  <<"udp-3-server", "udp-7-client">>, <<"udp-3-server", "udp-7-client.py">>,
  <<"udp-3-server", "udp-4-client.py">>, <<"udp-3-server", "udp-5-client.py">>,
  <<"udp-3-server.py", "udp-3-client.py">>,
  <<"udp-8-server", "udp-8-client">>, <<"mcast-recv", "mcast-send">>}

Python == {"udp-2-client.py", "udp-3-client.py", "udp-4-client.py",
           "udp-5-client.py", "udp-6-client.py", "udp-7-client.py"}
Broadcasts == {"udp-7-client", "udp-7-client.py"}
OptionFirst == {"udp-6-client", "udp-7-client"}
Contenders == {"udp-5-client", "udp-6-client", "udp-6-client.py"}
Bound == Contenders \cup Broadcasts \cup {"udp-5-client.py"}
Connected == Bound \cup {"udp-4-client", "udp-4-client.py"}
Senders == {"udp-2-client", "udp-2-client.py", "mcast-send"}

Hosts == IF server = "mcast-recv" THEN {Server, Member} ELSE {Server}

Peers == Clients \cup {Server, Member}
Line == (Clients \cup {Stranger}) \X Nat
Cell == ((Clients \cup {Stranger}) \X Nat \X Nat) \cup {NUL, Stack}
Datagram == [from : Peers \cup {Stranger}, to : Peers, line : Line,
             asked : Seq(Cell), data : Seq(Cell)]
Shown == [line : Line, asked : Seq(Cell), text : Seq(Cell)]

TypeOK ==
  /\ \A c \in Clients : <<server, kind[c]>> \in Pairs
  /\ running \in BOOLEAN
  /\ net \subseteq Datagram /\ lost \subseteq Clients /\ strays \in 0 .. MaxStrays
  /\ cpc \in [Clients -> {"start", "option", "input", "wait", "done"}]
  /\ nsent \in [Clients -> 0 .. MaxLines]
  /\ reuse \subseteq bound /\ bound \subseteq Clients /\ killed \subseteq Clients
  /\ buffer \in [Peers -> [1 .. Size -> Cell]]
  /\ input \in [Clients -> [1 .. Size -> Cell]]
  /\ shown \in [Peers -> Shown \cup {<<>>}]

\* A buffer before its first use.
Fresh == [i \in 1 .. Size |-> Stack]

\* The users run the same client, or clients that contend for the port.
Init ==
  /\ server \in {p[1] : p \in Pairs}
  /\ kind \in [Clients -> {p[2] : p \in {q \in Pairs : q[1] = server}}]
  /\ \A c, d \in Clients : kind[c] = kind[d] \/ {kind[c], kind[d]} \subseteq Contenders
  /\ running = TRUE
  /\ net = {} /\ lost = {} /\ strays = 0
  /\ cpc = [c \in Clients |-> IF kind[c] \in Bound THEN "start" ELSE "input"]
  /\ nsent = [c \in Clients |-> 0]
  /\ bound = {} /\ reuse = {} /\ killed = {}
  /\ buffer = [p \in Peers |-> Fresh]
  /\ input = [c \in Clients |-> Fresh]
  /\ shown = [p \in Peers |-> <<>>]

-----------------------------------------------------------------------------
(* The clients: bind, send, receive.                                       *)

At(c, l) == cpc[c] = l
Goto(c, l) == cpc' = [cpc EXCEPT ![c] = l]

\* The process ends: its port is free, its memory and its window are gone.
Leaves(c) ==
  /\ Goto(c, "done")
  /\ bound' = bound \ {c} /\ reuse' = reuse \ {c}
  /\ lost' = lost \ {c}
  /\ buffer' = [buffer EXCEPT ![c] = Fresh]
  /\ input' = [input EXCEPT ![c] = Fresh]
  /\ shown' = [shown EXCEPT ![c] = <<>>]
  /\ nsent' = [nsent EXCEPT ![c] = 0]
  /\ UNCHANGED <<fixed, running, strays>>

\* bind(): the port must be free, or both sides have set SO_REUSEADDR.  The
\* C program sets it before, the Python program after.
CanBind(c) == \A d \in bound : d \in reuse /\ kind[c] \in OptionFirst

Bind(c) ==
  /\ At(c, "start") /\ CanBind(c)
  /\ bound' = bound \cup {c}
  /\ reuse' = reuse \cup {d \in {c} : kind[d] \in OptionFirst}
  /\ Goto(c, IF kind[c] \in {"udp-6-client.py", "udp-7-client.py"}
             THEN "option" ELSE "input")
  /\ UNCHANGED <<fixed, running, netVars, nsent, killed, buffers, shown>>

BindFails(c) ==
  /\ At(c, "start") /\ ~CanBind(c)
  /\ Goto(c, "done")
  /\ UNCHANGED <<fixed, running, netVars, nsent, portVars, buffers, shown>>

SetOption(c) ==
  /\ At(c, "option") /\ kind[c] \notin Broadcasts
  /\ reuse' = reuse \cup {c}
  /\ Goto(c, "input")
  /\ UNCHANGED <<fixed, running, netVars, nsent, bound, killed, buffers, shown>>

\* connect() to a broadcast address before SO_BROADCAST: EACCES.
ConnectRaises(c) ==
  /\ At(c, "option") /\ kind[c] \in Broadcasts
  /\ Leaves(c)
  /\ UNCHANGED <<net, killed>>

LineOf(c, l, k) == [j \in 1 .. k |-> <<c, l, j>>]

\* fgets() leaves the line and its NUL in the input buffer.
Typed(c, line) == Received(input[c], CString(line))

\* What is sent: the line with its NUL, the line alone, or as many bytes of
\* the input buffer as the command line says.
Outgoing(c, line) ==
  IF kind[c] \in Python THEN line
  ELSE IF kind[c] = "udp-8-client" THEN SubSeq(Typed(c, line), 1, PacketSize)
  ELSE CString(line)

Send(c) ==
  /\ At(c, "input") /\ nsent[c] < MaxLines /\ Cardinality(net) < MaxFlight
  /\ \E k \in Lengths :
       LET l == nsent[c] + 1
           line == LineOf(c, l, k)
           data == Outgoing(c, line) IN
       /\ kind[c] \notin Python => k < Size
       /\ net' = net \cup {[from |-> c, to |-> h, line |-> <<c, l>>,
                            asked |-> data, data |-> data] : h \in Hosts}
       /\ input' = IF kind[c] = "udp-8-client"
                   THEN [input EXCEPT ![c] = Typed(c, line)] ELSE input
  /\ nsent' = [nsent EXCEPT ![c] = @ + 1]
  /\ Goto(c, IF kind[c] \in Senders THEN "input" ELSE "wait")
  /\ lost' = lost \ {c}
  /\ UNCHANGED <<fixed, running, strays, portVars, buffer, shown>>

\* The client that waits for the reply to datagram m.
Waiting(m) == {c \in Clients : At(c, "wait") /\ m.line = <<c, nsent[c]>>}

\* What a process that runs `program' prints of datagram m, when its buffer
\* is b.
Printed(program, m, b) ==
  [line |-> m.line, asked |-> m.asked,
   text |-> IF program \in Python \cup {"udp-3-server.py"} THEN m.data
            ELSE IF program \in {"udp-8-client", "udp-8-server"} THEN <<>>
            ELSE Text(b)]

\* The buffer of `program' after recvfrom().
AfterRecv(program, old, data) ==
  IF program = "udp-8-server" THEN Received(old, data)
  ELSE EndMarked(Received(old, data))

\* Mutant of Accepts: a connected socket takes what anybody sends.
AcceptsAll(c, m) == m.to = c

\* The socket takes datagram m.
Accepts(c, m) ==
  /\ m.to = c
  /\ kind[c] \in Connected => m.from = Server /\ kind[c] \notin Broadcasts

\* The first datagram is the reply.
Receive(c) ==
  /\ At(c, "wait")
  /\ \E m \in net :
       LET b == AfterRecv(kind[c], buffer[c], m.data) IN
       /\ Accepts(c, m)
       /\ net' = net \ {m}
       /\ buffer' = [buffer EXCEPT ![c] = b]
       /\ shown' = [shown EXCEPT ![c] = Printed(kind[c], m, b)]
  /\ Goto(c, "input")
  /\ UNCHANGED <<fixed, running, lost, strays, nsent, portVars, input>>

\* read() of a connected socket, or its next write(): ECONNREFUSED, and the
\* process exits.
Refused(c) ==
  /\ cpc[c] \in {"input", "wait"} /\ kind[c] \in Connected \ Broadcasts /\ ~running
  /\ \E m \in net : m.from = c /\ m.to = Server /\ net' = net \ {m}
  /\ Leaves(c)
  /\ UNCHANGED killed

Quit(c) == At(c, "input") /\ Leaves(c) /\ UNCHANGED <<net, killed>>

Interrupted(c) ==
  /\ At(c, "wait")
  /\ killed' = killed \cup {c}
  /\ Leaves(c) /\ UNCHANGED net

Waits(c) == Receive(c) \/ (At(c, "wait") /\ Refused(c))

ClientNext(c) ==
  \/ Bind(c) \/ BindFails(c) \/ SetOption(c) \/ ConnectRaises(c)
  \/ Send(c) \/ Waits(c) \/ Refused(c) \/ Quit(c) \/ Interrupted(c)

-----------------------------------------------------------------------------
(* The servers.                                                            *)

\* Mutant of Answer: udp-3-server.cc returns len+1 bytes, as udp-server.cc.
AnswerAsText(b, data) == SubSeq(b, 1, StrLen(b) + 1)

\* What is returned for `data' from buffer b.
Answer(b, data) ==
  CASE server = "udp-server" -> SubSeq(b, 1, StrLen(b) + 1)
    [] server = "udp-3-server.py" -> data
    [] OTHER -> SubSeq(b, 1, Got(data))

\* Mutant of Answered: an empty datagram is taken for an end of input.
AnsweredText(data) == server \notin {"udp-2-server", "mcast-recv"} /\ data # <<>>

\* udp-2-server and mcast-recv only print.
Answered(data) == server \notin {"udp-2-server", "mcast-recv"}

\* The sockets on the address client c sends from.
Sockets(c) == IF kind[c] \in Bound THEN bound ELSE {c}

\* sendto() m's sender: the kernel there hands it to one of the sockets.
Returns(h, m, data) ==
  \/ /\ Sockets(m.from) = {}
     /\ net' = net \ {m} /\ lost' = lost \cup Waiting(m)
  \/ \E s \in Sockets(m.from) :
       /\ net' = (net \ {m}) \cup {[m EXCEPT !.from = h, !.to = s, !.data = data]}
       /\ lost' = lost \cup (Waiting(m) \ {s})

\* One turn of for(;;): nothing between recvfrom() and sendto() blocks.
Turn(h) ==
  /\ running
  /\ \E m \in net :
       LET b == AfterRecv(server, buffer[h], m.data) IN
       /\ m.to = h
       /\ buffer' = [buffer EXCEPT ![h] = b]
       /\ shown' = [shown EXCEPT ![h] = Printed(server, m, b)]
       /\ IF Answered(m.data) THEN Returns(h, m, Answer(b, m.data))
                       ELSE net' = net \ {m} /\ UNCHANGED lost
  /\ UNCHANGED <<fixed, running, strays, cpc, nsent, portVars, input>>

\* The server's process is stopped.
Stop ==
  /\ running /\ running' = FALSE
  /\ buffer' = [p \in Peers |-> IF p \in Hosts THEN Fresh ELSE buffer[p]]
  /\ shown' = [p \in Peers |-> IF p \in Hosts THEN <<>> ELSE shown[p]]
  /\ UNCHANGED <<fixed, netVars, cpc, nsent, portVars, input>>

Lose ==
  /\ \E m \in net : net' = net \ {m} /\ lost' = lost \cup Waiting(m)
  /\ UNCHANGED <<fixed, running, strays, cpc, nsent, portVars, buffers, shown>>

\* Somebody else sends a line to the port of a client that reads its socket.
Stray ==
  /\ strays < MaxStrays /\ strays' = strays + 1 /\ Cardinality(net) < MaxFlight
  /\ \E c \in {d \in Clients : kind[d] \notin Senders} :
       LET data == CString(LineOf(Stranger, strays + 1, 1)) IN
       net' = net \cup {[from |-> Stranger, to |-> c, line |-> <<Stranger, strays + 1>>,
                         asked |-> data, data |-> data]}
  /\ UNCHANGED <<fixed, running, lost, cpc, nsent, portVars, buffers, shown>>

\* Every client has left.
AtRest == (\A c \in Clients : At(c, "done")) /\ UNCHANGED vars

Next ==
  \/ \E c \in Clients : ClientNext(c)
  \/ \E h \in Hosts : Turn(h)
  \/ Stop \/ Lose \/ Stray \/ AtRest

Fairness ==
  /\ \A h \in {Server, Member} : WF_vars(h \in Hosts /\ Turn(h))
  /\ \A c \in Clients : WF_vars(Waits(c))

Spec == Init /\ [][Next]_vars
FairSpec == Spec /\ Fairness

-----------------------------------------------------------------------------
(* Properties.                                                             *)

\* The sender's line came with its NUL, within the receiver's buffer.
Ended(asked) == \E i \in 1 .. Len(asked) : i <= Size /\ asked[i] = NUL

\* What leaves room for a NUL in the receiver's buffer is there of the line.
Begins(data, asked) ==
  \A i \in 1 .. Len(asked) : i < Size => i <= Len(data) /\ data[i] = asked[i]

\* What is printed of a line that was sent with its NUL, by the server and by
\* the client that gets it back, is that line, all of it and nothing that an
\* earlier, longer one left in either buffer (udp-8 prints a count only).  Of
\* any other line it comes first, and what the buffer held only after it.
ShowsTheLine ==
  \A p \in Peers :
    shown[p] # <<>> /\ server # "udp-8-server" =>
      LET asked == shown[p].asked
          text == shown[p].text IN
      IF Ended(asked)
      THEN /\ Len(text) >= StrLen(asked)
           /\ \A i \in 1 .. Len(text) : i <= Len(asked) /\ text[i] = asked[i]
      ELSE Begins(text, asked)

\* A reply is the datagram it answers, byte for byte: always from a server
\* that returns as many bytes as it got, if they fit the buffer and leave
\* room for the NUL it may write into the last cell; from udp-server.cc,
\* which returns what strlen() finds, if the sender's line had its NUL.
\* Otherwise only the last cell differs, or what follows the line.
RepliesCarryTheLine ==
  \A m \in net :
    m.from \in Hosts =>
      /\ Begins(m.data, m.asked)
      /\ \/ m.data = m.asked
         \/ Len(m.asked) >= Size /\ ~Ended(m.asked)
         \/ server = "udp-server" /\ ~Ended(m.asked)

\* The options let these two clients have the port at the same time.
MayShare(c, d) ==
  /\ {kind[c], kind[d]} \cap OptionFirst # {}
  /\ {kind[c], kind[d]} \subseteq OptionFirst \cup {"udp-6-client.py"}

\* A client that is not connected may be disturbed by any stranger; one that
\* is, only by another client on its port: one that shares it, or one that
\* was interrupted and left a reply behind.
Undisturbed(c) ==
  IF kind[c] \notin Connected THEN strays = 0
  ELSE kind[c] \in Bound =>
         \A d \in Clients \ {c} :
           kind[d] \in Bound => ~MayShare(c, d) /\ d \notin killed

\* What an undisturbed client shows is the line it sent last.
InStep ==
  \A c \in Clients :
    At(c, "input") /\ nsent[c] > 0 /\ kind[c] \notin Senders /\ Undisturbed(c)
      => shown[c].line = <<c, nsent[c]>>

\* A waiting client is let go, also when the server is gone if its socket is
\* connected ("errors are returned to the process for a connected UDP
\* socket", udp-4-client.cc:28), unless its line or the reply is lost.  One
\* that broadcasts waits for ever: the reply comes from the server's own
\* address, which is not the one the socket is connected to.
WaitsOnlyForLost ==
  \A c \in Clients :
    At(c, "wait") ~>
      \/ ~At(c, "wait")
      \/ c \in lost
      \/ kind[c] \notin Connected /\ ~running
      \/ kind[c] = "udp-7-client"
=============================================================================
