----------------------------- MODULE SinkServer -----------------------------
(***************************************************************************)
(* The examples whose server only reads: the pairs tcp-1 and tcp-3 of      *)
(* C/TCP-examples, sctp-1 and sctp-3 of C/SCTP-examples, and tcp-1 of      *)
(* Python/TCP-examples ("py-1").  Which pair runs is chosen at the start.  *)
(*                                                                         *)
(* tcp-1, sctp-1 and py-1 serve one connection at a time; tcp-3 and sctp-3 *)
(* fork a child for each.  On SCTP a read returns one line; on TCP any     *)
(* part of what was written.  The Python server decodes what it read, and  *)
(* ends with an exception if a read cut a character in two.                *)
(*                                                                         *)
(* A process is Parent or the child forked for a client, named by it.      *)
(* Nothing is ever sent to a client: down and got of Tcp stay empty.       *)
(***************************************************************************)
EXTENDS Tcp

CONSTANT Parent  \* the server's first process

ASSUME SinkAssumption == Parent \notin Clients

VARIABLES
  program,   \* the pair of programs that runs
  cpc,       \* where each client is
  todo,      \* the bytes of the line each client is writing
  ends,      \* the positions, in what each client wrote, where a line ends
  pc,        \* where each server process is
  acceptfd,  \* the connection the parent accepted last
  fds,       \* the connections each process has a descriptor on
  printed    \* what the server read of each client, and printed

clientVars == <<cpc, todo, ends>>
serverVars == <<pc, acceptfd, fds, printed>>
vars == <<tcpVars, program, clientVars, serverVars>>

Procs == Clients \cup {Parent}
Iterative == {"tcp-1", "sctp-1", "py-1"}
Sctp == {"sctp-1", "sctp-3"}
Programs == {"tcp-1", "sctp-1", "py-1", "tcp-3", "sctp-3"}

TypeOK ==
  /\ TcpTypeOK
  /\ program \in Programs
  /\ cpc \in [Clients -> {"init", "input", "write", "spin", "done"}]
  /\ todo \in [Clients -> 0 .. LineSize]
  /\ ends \in [Clients -> SUBSET (1 .. MaxBytes)]
  /\ pc[Parent] \in {"accept", "read", "close", "fork", "handoff", "raise", "dead"}
  /\ \A c \in Clients : pc[c] \in {"none", "read", "exit", "gone"}
  /\ acceptfd \in Procs
  /\ fds \in [Procs -> SUBSET Clients]
  /\ printed \in [Clients -> Seq(Byte)]

ClientInit ==
  /\ cpc = [c \in Clients |-> "init"]
  /\ todo = [c \in Clients |-> 0]
  /\ ends = [c \in Clients |-> {}]

ServerInit ==
  /\ pc = [p \in Procs |-> IF p = Parent THEN "accept" ELSE "none"]
  /\ acceptfd = Parent
  /\ fds = [p \in Procs |-> {}]
  /\ printed = [c \in Clients |-> <<>>]

Init == TcpInit /\ program \in Programs /\ ClientInit /\ ServerInit

-----------------------------------------------------------------------------
(* The clients: a line of input, a write, and no reply to wait for.        *)

At(c, l) == cpc[c] = l
Goto(c, l) == cpc' = [cpc EXCEPT ![c] = l]

Connect(c) ==
  /\ At(c, "init")
  /\ ClientConnects(c)
  /\ Goto(c, "input") /\ UNCHANGED <<todo, ends>>

\* Nobody listens: connect() fails and the process exits.
ConnectRefused(c) ==
  /\ At(c, "init") /\ ~listening
  /\ Goto(c, "done") /\ UNCHANGED <<tcpVars, todo, ends>>

Input(c) ==
  /\ At(c, "input")
  /\ \E k \in 1 .. LineSize :
       /\ Len(sent[c]) + k <= MaxBytes
       /\ todo' = [todo EXCEPT ![c] = k]
  /\ Goto(c, "write") /\ UNCHANGED <<tcpVars, ends>>

\* write(), which blocks while the window is full.
Write(c) ==
  /\ At(c, "write")
  /\ program \in Sctp => csk[c] = "est"
  /\ ClientWrites(c, todo[c])
  /\ ends' = [ends EXCEPT ![c] = @ \cup {Len(sent[c]) + todo[c]}]
  /\ Goto(c, "input") /\ UNCHANGED todo

Leaves(c) == ClientCloses(c) /\ Goto(c, "done") /\ UNCHANGED <<todo, ends>>

\* write() returns -1 or raises SIGPIPE, an exception in Python: the client
\* ends.  On SCTP that is so as soon as the peer has shut down.
WriteFails(c) ==
  /\ At(c, "write")
  /\ csk[c] \in {"err", "dead"} \/ (program \in Sctp /\ csk[c] = "fin")
  /\ Leaves(c)

\* The client of sctp-1 has made its socket non-blocking: where the others
\* wait, it gets EAGAIN, drops the line and leaves.
WouldBlock(c) ==
  /\ At(c, "write") /\ program = "sctp-1"
  /\ csk[c] = "est" /\ ~CanWrite("est", up[c], todo[c])
  /\ Leaves(c)

\* "."; for the C clients also the end of the input.
Quit(c) == At(c, "input") /\ Leaves(c)

\* At the end of its input readline() gives "" for ever, and the Python
\* client sends nothing for ever.
PyEndOfInput(c) ==
  /\ At(c, "input") /\ program = "py-1"
  /\ Goto(c, "spin") /\ UNCHANGED <<tcpVars, todo, ends>>

Interrupted(c) == cpc[c] \in {"write", "spin"} /\ Leaves(c)

Writes(c) == Write(c) \/ WriteFails(c) \/ WouldBlock(c)

ClientNext(c) ==
  \/ Connect(c) \/ ConnectRefused(c) \/ Input(c) \/ Writes(c)
  \/ Quit(c) \/ PyEndOfInput(c) \/ Interrupted(c)

-----------------------------------------------------------------------------
(* The server's processes.                                                 *)

Conn(p) == IF p = Parent THEN acceptfd ELSE p
ProcGoto(p, l) == pc' = [pc EXCEPT ![p] = l]

\* Process p closes its descriptors on the connections in S.
Closes(p, S) ==
  LET last == {c \in S : \A q \in Procs \ {p} : c \notin fds[q]} IN
  /\ fds' = [fds EXCEPT ![p] = @ \ S]
  /\ ServerCloses(last)
  /\ UNCHANGED <<backlog, listening>>

\* The end of a line is in the data, as its NUL.
EndsLine(b) == b[2] \in ends[b[1]]

\* How much of what is there one read() returns: on SCTP one line, on TCP
\* whatever has arrived.
StreamReads(c) == ReadSizes(up[c])
MessageReads(c) ==
  {k \in 1 .. Len(up[c]) : EndsLine(up[c][k]) /\ \A j \in 1 .. k - 1 : ~EndsLine(up[c][j])}
Sizes(c) == IF program \in Sctp THEN MessageReads(c) ELSE StreamReads(c)

Reads(c, k) ==
  /\ ServerReads(c, k)
  /\ printed' = [printed EXCEPT ![c] = @ \o Taken(up[c], k)]

NoMore(c) == AtEnd(ssk[c], up[c]) \/ Failing(ssk[c])

Accept ==
  /\ pc[Parent] = "accept"
  /\ backlog # <<>>
  /\ ServerAccepts(Head(backlog))
  /\ acceptfd' = Head(backlog)
  /\ fds' = [fds EXCEPT ![Parent] = @ \cup {Head(backlog)}]
  /\ ProcGoto(Parent, IF program \in Iterative THEN "read" ELSE "fork")
  /\ UNCHANGED printed

\* accept() returns -1, as it may at any time for want of memory or of files in
\* the system: check_and_exit, or an exception, ends the first process, and
\* nobody listens any more.  The children of tcp-3 have closed listenfd.
AcceptFails ==
  /\ pc[Parent] = "accept"
  /\ ServerCloses(Range(backlog))
  /\ backlog' = <<>> /\ listening' = FALSE
  /\ ProcGoto(Parent, "dead")
  /\ UNCHANGED <<acceptfd, fds, printed>>

\* Mutant of Read: one read() without the loop around it.
ReadOnce(p) ==
  /\ pc[p] = "read"
  /\ \E k \in Sizes(Conn(p)) : Reads(Conn(p), k)
  /\ ProcGoto(p, IF p = Parent THEN "close" ELSE "exit")
  /\ UNCHANGED <<acceptfd, fds>>

Read(p) ==
  /\ pc[p] = "read"
  /\ \E k \in Sizes(Conn(p)) : Reads(Conn(p), k)
  /\ UNCHANGED <<pc, acceptfd, fds>>

\* Mutant of ReadEnd: 0 is taken for nothing yet, and read again.
ReadsAgain(p) ==
  /\ pc[p] = "read"
  /\ NoMore(Conn(p))
  /\ UNCHANGED <<tcpVars, pc, acceptfd, fds, printed>>

\* read() returns 0 or -1: leave the loop.
ReadEnd(p) ==
  /\ pc[p] = "read"
  /\ NoMore(Conn(p))
  /\ ProcGoto(p, IF p = Parent THEN "close" ELSE "exit")
  /\ UNCHANGED <<tcpVars, acceptfd, fds, printed>>

\* The read returned what ends inside a character: decode() raises.
DecodeFails ==
  /\ pc[Parent] = "read" /\ program = "py-1"
  /\ \E k \in Sizes(acceptfd) :
       ServerReads(acceptfd, k) /\ ~EndsLine(up[acceptfd][k])
  /\ ProcGoto(Parent, "raise")
  /\ UNCHANGED <<acceptfd, fds, printed>>

\* Nobody catches it: with the process go all connections.
Dies ==
  /\ pc[Parent] = "raise"
  /\ ServerCloses({acceptfd} \cup Range(backlog))
  /\ backlog' = <<>> /\ listening' = FALSE
  /\ fds' = [fds EXCEPT ![Parent] = {}]
  /\ ProcGoto(Parent, "dead")
  /\ UNCHANGED <<acceptfd, printed>>

\* The iterative servers close the connection and accept the next.
Close ==
  /\ pc[Parent] = "close"
  /\ Closes(Parent, {acceptfd})
  /\ ProcGoto(Parent, "accept")
  /\ UNCHANGED <<acceptfd, printed>>

Fork ==
  /\ pc[Parent] = "fork"
  /\ pc' = [pc EXCEPT ![Parent] = "handoff", ![acceptfd] = "read"]
  /\ fds' = [fds EXCEPT ![acceptfd] = fds[Parent]]
  /\ UNCHANGED <<tcpVars, acceptfd, printed>>

\* fork() returns -1, which the code takes for the parent's side.
ForkFails ==
  /\ pc[Parent] = "fork"
  /\ ProcGoto(Parent, "handoff")
  /\ UNCHANGED <<tcpVars, acceptfd, fds, printed>>

\* Mutant of HandOff: the parent keeps its copy of the descriptor.
KeepsOpen ==
  /\ pc[Parent] = "handoff"
  /\ ProcGoto(Parent, "accept")
  /\ UNCHANGED <<tcpVars, acceptfd, fds, printed>>

HandOff ==
  /\ pc[Parent] = "handoff"
  /\ Closes(Parent, {acceptfd})
  /\ ProcGoto(Parent, "accept")
  /\ UNCHANGED <<acceptfd, printed>>

\* Mutant of ChildExits: without exit(0) the child goes on to accept().
ChildAccepts(c) ==
  /\ pc[c] = "exit"
  /\ Closes(c, fds[c])
  /\ ProcGoto(c, "accept")
  /\ UNCHANGED <<acceptfd, printed>>

\* close(acceptfd) and exit(0).
ChildExits(c) ==
  /\ pc[c] = "exit"
  /\ Closes(c, fds[c])
  /\ ProcGoto(c, "gone")
  /\ UNCHANGED <<acceptfd, printed>>

ParentWorks ==
  \/ Accept \/ Read(Parent) \/ ReadEnd(Parent) \/ DecodeFails \/ Dies \/ Close
  \/ Fork \/ ForkFails \/ HandOff

ParentNext == ParentWorks \/ AcceptFails

ChildNext(c) == Read(c) \/ ReadEnd(c) \/ ChildExits(c)

\* All clients have left, and the server waits for new ones or is dead.
AtRest ==
  /\ \A c \in Clients : cpc[c] = "done" /\ pc[c] \in {"none", "gone"}
  /\ pc[Parent] \in {"accept", "dead"} /\ backlog = <<>>
  /\ UNCHANGED vars

Next ==
  \/ ParentNext /\ UNCHANGED <<program, clientVars>>
  \/ \E c \in Clients : ChildNext(c) /\ UNCHANGED <<program, clientVars>>
  \/ \E c \in Clients : ClientNext(c) /\ UNCHANGED <<program, serverVars>>
  \/ \E c \in Clients : ResetArrives(c) /\ UNCHANGED <<program, clientVars, serverVars>>
  \/ AtRest

\* Processes that can run do; resets arrive; a write that can be made is.
\* Users need neither type nor leave, and accept() need not fail.
Fairness ==
  /\ WF_vars(ParentWorks /\ UNCHANGED <<program, clientVars>>)
  /\ \A c \in Clients :
       /\ WF_vars(ChildNext(c) /\ UNCHANGED <<program, clientVars>>)
       /\ WF_vars(ResetArrives(c) /\ UNCHANGED <<program, clientVars, serverVars>>)
       /\ WF_vars(Writes(c) /\ UNCHANGED <<program, serverVars>>)

Spec == Init /\ [][Next]_vars
FairSpec == Spec /\ Fairness

-----------------------------------------------------------------------------
(* Properties.                                                             *)

\* The fork() for c failed, or the parent ended before it accepted c: its
\* connection was closed without a child.
Rejected(c) ==
  /\ program \notin Iterative
  /\ pc[c] = "none" /\ (ssk[c] = "closed" \/ (pc[Parent] = "handoff" /\ acceptfd = c))

\* The one process of an iterative server ended, or is about to.
Dead == program \in Iterative /\ pc[Parent] \in {"raise", "dead"}

\* The other users who connect leave in the end.
OthersLeave(c) == \A d \in Clients \ {c} : <>[](cpc[d] \in {"init", "done"})

\* What the server printed and what is on its way to it is what the client
\* sent, in order and all of it: a client that never gets an answer can
\* rely on it unless it was rejected or the process that served it ended.  The
\* end of a forking parent costs the clients of its children nothing.
NothingLost ==
  \A c \in Clients :
    /\ IsPrefix(printed[c], sent[c])
    /\ printed[c] \o up[c] = sent[c] \/ Rejected(c) \/ Dead

\* All that a client sent before it left gets printed, also when it left
\* before it was accepted, and then its connection is closed.  An iterative
\* server comes to it once the other users leave.
AllPrinted ==
  \A c \in Clients :
    (program \in Iterative => OthersLeave(c)) =>
      (csk[c] = "closed" ~>
         ssk[c] = "closed" /\ (printed[c] = sent[c] \/ Rejected(c) \/ Dead))

\* A client that cannot write because the window is full goes on, with an
\* iterative server once the other users leave.
WritersGoOn ==
  \A c \in Clients :
    (program \in Iterative => OthersLeave(c)) => (At(c, "write") ~> ~At(c, "write"))
=============================================================================
