----------------------------- MODULE ForkServer -----------------------------
(***************************************************************************)
(* tcp-4-server.cc, sctp-4-server.cc (and sctp-pthread-server.cc, which is *)
(* a copy of it) and tcp-4-server.py: the parent accepts, forks a child    *)
(* for the connection and closes its own copy of the descriptor; the child *)
(* echoes until the end of the input.                                      *)
(*                                                                         *)
(* A process is Parent or, for the child forked for connection c, c        *)
(* itself.  fds[p] is the set of connections process p has a descriptor    *)
(* on: fork() copies the parent's, and the kernel ends a connection when   *)
(* the last descriptor on it is closed.  A child closes its copy of        *)
(* listenfd at once in C, and keeps it in Python.  The parent ends when    *)
(* accept() fails, in Python also when fork() does.  It never waits for a  *)
(* child, so that one that exits remains as a zombie and counts against    *)
(* the process limit.                                                      *)
(***************************************************************************)
EXTENDS EchoVariants

CONSTANTS
  Parent,     \* the parent process, and the value of acceptfd before accept()
  ProcLimits  \* the process limits the server may be started under

ASSUME ForkAssumption == Parent \notin Clients /\ ProcLimits \subseteq Nat

VARIABLES
  maxprocs,  \* RLIMIT_NPROC: the children the system lets the parent have
  ppc,       \* the parent: "accept", "fork", "close", "dead"
  acceptfd,  \* the connection the parent accepted last
  kid,       \* the child for each connection, and where it is
  line,      \* what each child holds between its read and its write
  fds

serverVars == <<maxprocs, ppc, acceptfd, kid, line, fds>>
vars == <<tcpVars, clientVars, variantVars, serverVars>>

Procs == Clients \cup {Parent}

ServerTypeOK ==
  /\ maxprocs \in ProcLimits
  /\ ppc \in {"accept", "fork", "close", "dead"}
  /\ acceptfd \in Procs
  /\ kid \in [Clients -> {"none", "read", "write", "exit", "raise", "zombie"}]
  /\ line \in [Clients -> Seq(Byte)]
  /\ fds \in [Procs -> SUBSET Clients]

TypeOK == TcpTypeOK /\ ClientTypeOK /\ VariantTypeOK /\ ServerTypeOK

ServerInit ==
  /\ maxprocs \in ProcLimits
  /\ ppc = "accept" /\ acceptfd = Parent
  /\ kid = [c \in Clients |-> "none"]
  /\ line = [c \in Clients |-> <<>>]
  /\ fds = [p \in Procs |-> {}]

Init == TcpInit /\ ClientInit /\ VariantInit /\ ServerInit

-----------------------------------------------------------------------------
Children == {c \in Clients : kid[c] # "none"}
Running == {c \in Clients : kid[c] \in {"read", "write", "exit", "raise"}}
KidGoto(c, l) == kid' = [kid EXCEPT ![c] = l]

\* The connections in S of which process p has the last descriptor.
OnlyHere(p, S) == {c \in S : \A q \in Procs \ {p} : c \notin fds[q]}

\* Process p closes its descriptors on the connections in S.
Closes(p, S) ==
  /\ fds' = [fds EXCEPT ![p] = @ \ S]
  /\ ServerCloses(OnlyHere(p, S))
  /\ UNCHANGED <<backlog, listening>>

\* The processes that have the listening socket open.
Listeners ==
  {p \in Procs : IF p = Parent THEN ppc # "dead"
                               ELSE family = "Python" /\ p \in Running}

\* Process p ends.  With the last listener go the connections in the backlog.
Ends(p) ==
  LET last == Listeners = {p} IN
  /\ fds' = [fds EXCEPT ![p] = {}]
  /\ ServerCloses(OnlyHere(p, fds[p]) \cup {c \in Range(backlog) : last})
  /\ listening' = (listening /\ ~last)
  /\ backlog' = IF last THEN <<>> ELSE backlog

Accept ==
  /\ ppc = "accept"
  /\ backlog # <<>>
  /\ ServerAccepts(Head(backlog))
  /\ acceptfd' = Head(backlog)
  /\ fds' = [fds EXCEPT ![Parent] = @ \cup {Head(backlog)}]
  /\ ppc' = "fork"
  /\ UNCHANGED <<kid, line>>

\* accept() returns -1, as it may at any time for want of memory or of files in
\* the system: check_and_exit, or an exception, ends the parent.
AcceptFails ==
  /\ ppc = "accept"
  /\ Ends(Parent)
  /\ ppc' = "dead"
  /\ UNCHANGED <<acceptfd, kid, line>>

Fork ==
  /\ ppc = "fork"
  /\ Cardinality(Children) < maxprocs
  /\ KidGoto(acceptfd, "read")
  /\ fds' = [fds EXCEPT ![acceptfd] = fds[Parent]]
  /\ ppc' = "close"
  /\ UNCHANGED <<tcpVars, acceptfd, line>>

\* Mutant of ForkFails: a test for -1 that goes on to the next accept()
\* without closing the connection.
ForkFailsContinues ==
  /\ ppc = "fork" /\ family # "Python"
  /\ Cardinality(Children) >= maxprocs
  /\ ppc' = "accept"
  /\ UNCHANGED <<tcpVars, acceptfd, kid, line, fds>>

\* fork() returns -1: `fork() != 0' holds and the parent goes on as if there
\* were a child.
ForkFails ==
  /\ ppc = "fork" /\ family # "Python"
  /\ Cardinality(Children) >= maxprocs
  /\ ppc' = "close"
  /\ UNCHANGED <<tcpVars, acceptfd, kid, line, fds>>

\* os.fork() raises: the parent ends, its children do not.
ForkRaises ==
  /\ ppc = "fork" /\ family = "Python"
  /\ Cardinality(Children) >= maxprocs
  /\ Ends(Parent)
  /\ ppc' = "dead"
  /\ UNCHANGED <<acceptfd, kid, line>>

\* Mutant of ParentCloses: the parent keeps its copy of the descriptor.
ParentKeepsOpen ==
  /\ ppc = "close" /\ ppc' = "accept"
  /\ UNCHANGED <<tcpVars, acceptfd, kid, line, fds>>

ParentCloses ==
  /\ ppc = "close"
  /\ Closes(Parent, {acceptfd})
  /\ ppc' = "accept"
  /\ UNCHANGED <<acceptfd, kid, line>>

ChildReads(c) ==
  /\ kid[c] = "read"
  /\ \E k \in Chunks(c) :
       /\ ServerReads(c, k)
       /\ line' = [line EXCEPT ![c] = Taken(up[c], k)]
       /\ \E l \in AfterRead(c, k) : KidGoto(c, l)
  /\ UNCHANGED <<ppc, acceptfd, fds>>

\* Mutant of ChildReadEnds: 0 is taken for nothing yet, and read again.
ChildReadsAgain(c) ==
  /\ kid[c] = "read"
  /\ AtEnd(ssk[c], up[c])
  /\ UNCHANGED <<tcpVars, ppc, acceptfd, kid, line, fds>>

\* read() returns 0: leave the loop.
ChildReadEnds(c) ==
  /\ kid[c] = "read"
  /\ AtEnd(ssk[c], up[c])
  /\ KidGoto(c, "exit")
  /\ UNCHANGED <<tcpVars, ppc, acceptfd, line, fds>>

\* read() returns -1: leave the loop as well; recv() raises.
ChildReadFails(c) ==
  /\ kid[c] = "read"
  /\ Failing(ssk[c])
  /\ KidGoto(c, AfterError("exit"))
  /\ UNCHANGED <<tcpVars, ppc, acceptfd, line, fds>>

\* Mutant of ChildWrites: the child writes to the parent's acceptfd, as a
\* thread would that shares the variable.
ChildWritesShared(c) ==
  /\ kid[c] = "write"
  /\ SendsBack(acceptfd, line[c])
  /\ line' = [line EXCEPT ![c] = <<>>]
  /\ KidGoto(c, "read")
  /\ UNCHANGED <<ppc, acceptfd, fds>>

\* Mutant of ChildWrites: one line, then exit.
ChildWritesOnce(c) ==
  /\ kid[c] = "write"
  /\ SendsBack(c, line[c])
  /\ line' = [line EXCEPT ![c] = <<>>]
  /\ KidGoto(c, "exit")
  /\ UNCHANGED <<ppc, acceptfd, fds>>

ChildWrites(c) ==
  /\ kid[c] = "write"
  /\ SendsBack(c, line[c])
  /\ line' = [line EXCEPT ![c] = <<>>]
  /\ KidGoto(c, "read")
  /\ UNCHANGED <<ppc, acceptfd, fds>>

\* write() returns -1: leave the loop.
ChildWriteFails(c) ==
  /\ kid[c] = "write"
  /\ SendBackFails(c)
  /\ line' = [line EXCEPT ![c] = <<>>]
  /\ KidGoto(c, AfterError("exit"))
  /\ UNCHANGED <<ppc, acceptfd, fds>>

\* The process of child c ends with all the descriptors it still had.
ChildGone(c) ==
  /\ Ends(c)
  /\ KidGoto(c, "zombie")
  /\ line' = [line EXCEPT ![c] = <<>>]
  /\ UNCHANGED <<ppc, acceptfd>>

\* Mutant of ChildExits: without exit(0) the child goes on to accept().
ChildAccepts(c) ==
  /\ kid[c] = "exit"
  /\ Closes(c, fds[c])
  /\ KidGoto(c, "accept")
  /\ UNCHANGED <<ppc, acceptfd, line>>

\* close(acceptfd) and exit(0).
ChildExits(c) == kid[c] = "exit" /\ ChildGone(c)

\* SIGPIPE, or an exception, ends the child, and only it.
ChildDies(c) ==
  /\ kid[c] = "raise" \/ (kid[c] = "write" /\ SendBackKills(c))
  /\ ChildGone(c)

ParentWorks == Accept \/ Fork \/ ForkFails \/ ForkRaises \/ ParentCloses

ParentNext == (ParentWorks \/ AcceptFails) /\ UNCHANGED maxprocs

ChildNext(c) ==
  /\ \/ ChildReads(c) \/ ChildReadEnds(c) \/ ChildReadFails(c)
     \/ ChildWrites(c) \/ ChildWriteFails(c)
     \/ ChildExits(c) \/ ChildDies(c)
  /\ UNCHANGED maxprocs

\* All clients have left and no connection is held: the parent waits.
AtRest ==
  /\ \A c \in Clients : cpc[c] = "done"
  /\ ppc \in {"accept", "dead"} /\ backlog = <<>>
  /\ \A p \in Procs : fds[p] = {}
  /\ UNCHANGED vars

Next ==
  \/ ParentNext /\ UNCHANGED <<clientVars, variantVars>>
  \/ \E c \in Clients : ChildNext(c) /\ UNCHANGED <<clientVars, variantVars>>
  \/ \E c \in Clients : VariantNext(c) /\ UNCHANGED serverVars
  \/ \E c \in Clients : ResetArrives(c) /\ UNCHANGED <<clientVars, variantVars, serverVars>>
  \/ AtRest

\* The scheduler runs every process that can run; resets arrive; a client
\* takes the reply that is there.  Users need neither type nor leave, and
\* accept() need not fail.
Fairness ==
  /\ WF_vars(ParentWorks /\ UNCHANGED <<maxprocs, clientVars, variantVars>>)
  /\ \A c \in Clients :
       /\ WF_vars(ChildNext(c) /\ UNCHANGED <<clientVars, variantVars>>)
       /\ WF_vars(ResetArrives(c) /\ UNCHANGED <<clientVars, variantVars, serverVars>>)
       /\ WF_vars(Answered(c) /\ UNCHANGED family /\ UNCHANGED serverVars)

Spec == Init /\ [][Next]_vars
FairSpec == Spec /\ Fairness

-----------------------------------------------------------------------------
(* Properties.                                                             *)

\* Each connection is one child's, and a child has no other: the parent
\* gives up its copy (tcp-4-server.cc:67) before the next fork() could hand it on, so that a
\* connection ends when its own child lets it go.
ChildrenIsolated ==
  /\ \A c \in Clients : fds[c] \subseteq {c}
  /\ fds[Parent] \subseteq {acceptfd}
  /\ \A c \in Clients : c \in Running => c \in fds[c]
  /\ \A c \in Clients :
       ssk[c] \notin {"none", "closed"}
         => c \in Range(backlog) \/ \E p \in Procs : c \in fds[p]

\* A conversation that was given its child ends only when its client has
\* left: neither another client nor the process limit reaches it.  In Python
\* it may also end because its own child raised.
ServedConversationsFinish ==
  [][\A c \in Clients :
       ssk[c] # "closed" /\ ssk'[c] = "closed"
         => \/ csk[c] # "est" \/ kid[c] = "none"
            \/ family = "Python" /\ kid[c] \in {"raise", "zombie"}]_vars

\* The parent is gone, but a child keeps the listening socket open, as in Python
\* it does: client c is connected, and nobody will accept it or refuse it
\* before that child's own client has left.
Stranded(c) == ppc = "dead" /\ c \in Range(backlog)

\* A client that waits for a reply due to it is let go, whatever the others do,
\* unless stranded; and once the others leave, also then.
RepliesComeUnlessStranded ==
  \A c \in Clients :
    /\ Owed(c) ~> ~At(c, "reply") \/ Stranded(c)
    /\ OthersLeave(c) => (Owed(c) ~> ~At(c, "reply"))

\* The connection of a client that left is released, whatever the others do,
\* unless it is stranded; and once the others leave, also then.
ReleasedUnlessStranded ==
  \A c \in Clients :
    /\ csk[c] = "closed" ~> ssk[c] = "closed" \/ Stranded(c)
    /\ OthersLeave(c) => (csk[c] = "closed" ~> ssk[c] = "closed")

\* "This forks a chlid for each connection" (tcp-4-server.cc:14): a connection the parent is
\* about to close has its child, unless as many children as the limit allows
\* are running.
ChildForEachConnection ==
  ppc = "close" /\ kid[acceptfd] = "none" =>
    Cardinality(Running) >= maxprocs
=============================================================================
