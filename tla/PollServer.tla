----------------------------- MODULE PollServer -----------------------------
(***************************************************************************)
(* tcp-6-server.cc and sctp-6-server.cc: the select server again, with a   *)
(* list of descriptors and poll().  Each turn of for(;;) copies fd_list    *)
(* into the array fds, polls it, and goes through the array while n        *)
(* entries are left; accept() appends to the list and the end of a         *)
(* connection erases from it, so that list and array differ until the next *)
(* turn.  tcp-5-server.py keeps a list as well, calls select(), and goes   *)
(* through all of its result, also after the end of a connection.          *)
(*                                                                         *)
(* poll() counts an entry in n for any event, and asks for four; the loop  *)
(* takes from n for POLLIN only (78, 83, 90-92).  An entry without POLLIN  *)
(* keeps n above 0 at the end of the array, and the loop reads fds[maxfd]. *)
(***************************************************************************)
EXTENDS FdTable, EchoVariants

VARIABLES
  spc,      \* "poll", "scan": at entry i of fds, "write", "raise",
            \* "past": at fds[maxfd], behind the last entry, "dead"
  fd_list,
  fds,      \* entries [fd, revents]; "stale" is not from poll() but from memory
  n, i, line

serverVars == <<spc, fdt, nofile, fd_list, fds, n, i, line>>
vars == <<tcpVars, clientVars, variantVars, serverVars>>

Fd == ListenFd .. LastFd
Entry == [fd : Fd, revents : {"none", "in", "err", "stale"}]

ServerTypeOK ==
  /\ spc \in {"poll", "scan", "write", "raise", "past", "dead"}
  /\ FdTypeOK
  /\ fd_list \in Seq(Fd)
  /\ fds \in Seq(Entry)
  /\ n \in Nat /\ i \in Nat
  /\ line \in Seq(Byte)

TypeOK == TcpTypeOK /\ ClientTypeOK /\ VariantTypeOK /\ ServerTypeOK

ServerInit ==
  /\ spc = "poll"
  /\ FdInit
  /\ fd_list = <<ListenFd>>
  /\ fds = <<>> /\ n = 0 /\ i = 0 /\ line = <<>>

Init == TcpInit /\ ClientInit /\ VariantInit /\ ServerInit

-----------------------------------------------------------------------------
\* Entries count from 1 here, from 0 in the code.
maxfd == Len(fds)
myfd == fds[i].fd

NextTurn ==
  /\ spc' = "poll"
  /\ fds' = <<>> /\ n' = 0 /\ i' = 0

\* An SCTP association the peer aborted: an error and no end of the data.
Aborted(c) == family = "SCTP" /\ Failing(ssk[c]) /\ ~HasData(up[c])

\* What poll() reports of descriptor f: POLLERR alone, or POLLIN, which on TCP
\* comes with every error; of select() in Python, that f is in its result.
Revents(f) ==
  IF f \in OpenFds /\ Aborted(fdt[f]) THEN "err"
  ELSE IF Ready(f) THEN "in" ELSE "none"

\* The entries of s from j on the body of the loop acts on.
Pollable(s, j) == {k \in 1 .. Len(s) : k >= j /\ s[k].revents \in {"in", "stale"}}

\* The scan of s goes to the first of the entries in rest, or past the array.
ComesTo(s, rest) ==
  \/ rest # {} /\ spc' = "scan" /\ i' = Min(rest)
  \/ rest = {} /\ spc' = "past" /\ i' = Len(s) + 1

\* i++ to the next entry with POLLIN, while i <= maxfd && n > 0, of which the
\* last value is one past the array.
NextEntry(left) ==
  IF left = 0 THEN NextTurn
  ELSE n' = left /\ ComesTo(fds, Pollable(fds, i + 1)) /\ UNCHANGED fds

\* Build fds and poll() it without a timeout.
Poll ==
  /\ spc = "poll"
  /\ LET polled == [k \in 1 .. Len(fd_list) |->
                      [fd |-> fd_list[k], revents |-> Revents(fd_list[k])]]
         reported == {k \in 1 .. Len(fd_list) : polled[k].revents # "none"} IN
       /\ reported # {}
       /\ fds' = polled /\ n' = Cardinality(reported)
       /\ ComesTo(polled, Pollable(polled, 1))
  /\ UNCHANGED <<tcpVars, fdt, fd_list, line>>

\* The loop reads fds[maxfd].  Whatever is there has no POLLIN, or is of a
\* descriptor that is closed (read() fails, and the loop breaks), or is the
\* entry an earlier turn left for a descriptor that is open now: the loop
\* acts on it as on any other, as its last.
PastEnd ==
  /\ spc = "past"
  /\ \/ NextTurn
     \/ \E f \in OpenFds :
          /\ fds' = <<[fd |-> f, revents |-> "stale"]>>
          /\ spc' = "scan" /\ n' = 1 /\ i' = 1
  /\ UNCHANGED <<tcpVars, fdt, fd_list, line>>

\* Mutant of Accept: n is not decremented.
AcceptKeepsCount ==
  /\ spc = "scan" /\ myfd = ListenFd
  /\ FreeFds # {}
  /\ ServerAccepts(Head(backlog))
  /\ fdt' = [fdt EXCEPT ![Min(FreeFds)] = Head(backlog)]
  /\ fd_list' = Append(fd_list, Min(FreeFds))
  /\ NextEntry(n)
  /\ UNCHANGED line

\* Mutant of Accept: the descriptor is not added to the list.
AcceptForgets ==
  /\ spc = "scan" /\ myfd = ListenFd
  /\ FreeFds # {}
  /\ ServerAccepts(Head(backlog))
  /\ fdt' = [fdt EXCEPT ![Min(FreeFds)] = Head(backlog)]
  /\ NextEntry(n - 1)
  /\ UNCHANGED <<fd_list, line>>

Accept ==
  /\ spc = "scan" /\ myfd = ListenFd
  /\ FreeFds # {}
  /\ LET c == Head(backlog)
         acceptfd == Min(FreeFds) IN
       /\ ServerAccepts(c)
       /\ fdt' = [fdt EXCEPT ![acceptfd] = c]
       /\ fd_list' = Append(fd_list, acceptfd)
  /\ NextEntry(n - 1)
  /\ UNCHANGED line

\* The process exits, or is killed.
ServerExits ==
  /\ spc' = "dead"
  /\ ProcessGone
  /\ fd_list' = <<>> /\ fds' = <<>> /\ n' = 0 /\ i' = 0 /\ line' = <<>>

\* accept() has no descriptor left (EMFILE): check_and_exit, or an exception.
AcceptFails ==
  /\ spc = "scan" /\ myfd = ListenFd
  /\ FreeFds = {}
  /\ ServerExits

Read ==
  /\ spc = "scan" /\ myfd # ListenFd
  /\ LET c == fdt[myfd] IN
       \E k \in Chunks(c) :
         /\ ServerReads(c, k)
         /\ line' = Taken(up[c], k)
         /\ spc' \in AfterRead(c, k)
  /\ UNCHANGED <<fdt, fd_list, fds, n, i>>

\* read() returns 0, or -1 in C.
ReadsEnd ==
  LET c == fdt[myfd] IN
  \/ AtEnd(ssk[c], up[c])
  \/ Failing(ssk[c]) /\ family # "Python"

\* After the end of a connection: break in C, the next entry in Python.
GoOn == IF family = "Python" THEN NextEntry(n - 1) ELSE NextTurn

\* Mutant of ReadEnd: the descriptor is not erased from the list.
ReadEndKeepsEntry ==
  /\ spc = "scan" /\ myfd # ListenFd
  /\ ReadsEnd
  /\ FdCloses(myfd)
  /\ GoOn
  /\ UNCHANGED <<fd_list, line>>

\* Mutant of ReadEnd: erased, but not closed.
ReadEndKeepsOpen ==
  /\ spc = "scan" /\ myfd # ListenFd
  /\ ReadsEnd
  /\ fd_list' = SelectSeq(fd_list, LAMBDA f : f # myfd)
  /\ GoOn
  /\ UNCHANGED <<tcpVars, fdt, line>>

\* Find and erase the first occurrence in fd_list, close.
ReadEnd ==
  /\ spc = "scan" /\ myfd # ListenFd
  /\ ReadsEnd
  /\ fd_list' = LET x == {k \in 1 .. Len(fd_list) : fd_list[k] = myfd} IN
                IF x = {} THEN fd_list ELSE RemoveAt(fd_list, Min(x))
  /\ FdCloses(myfd)
  /\ GoOn
  /\ UNCHANGED line

\* recv() of one client's connection raises.
ReadRaises ==
  /\ spc = "scan" /\ myfd # ListenFd
  /\ family = "Python" /\ Failing(ssk[fdt[myfd]])
  /\ spc' = "raise"
  /\ UNCHANGED <<tcpVars, fdt, fd_list, fds, n, i, line>>

\* Mutant of Write: n is decremented in the loop's header and in its body.
WriteCountsTwice ==
  /\ spc = "write"
  /\ SendsBack(fdt[myfd], line)
  /\ line' = <<>>
  /\ NextEntry(n - 2)
  /\ UNCHANGED <<fdt, fd_list>>

\* Mutant of Write: the line goes to the last entry of the array.
WriteToLast ==
  /\ spc = "write"
  /\ SendsBack(fdt[fds[maxfd].fd], line)
  /\ line' = <<>>
  /\ NextEntry(n - 1)
  /\ UNCHANGED <<fdt, fd_list>>

Write ==
  /\ spc = "write"
  /\ SendsBack(fdt[myfd], line)
  /\ line' = <<>>
  /\ NextEntry(n - 1)
  /\ UNCHANGED <<fdt, fd_list>>

\* write() returns -1: break, the descriptor stays in the list.
WriteFails ==
  /\ spc = "write" /\ family # "Python"
  /\ SendBackFails(fdt[myfd])
  /\ line' = <<>>
  /\ NextTurn
  /\ UNCHANGED <<fdt, fd_list>>

\* send() to one client's connection raises.
WriteRaises ==
  /\ spc = "write" /\ family = "Python"
  /\ SendBackFails(fdt[myfd])
  /\ spc' = "raise"
  /\ UNCHANGED <<fdt, fd_list, fds, n, i, line>>

Dies ==
  /\ spc = "raise" \/ (spc = "write" /\ SendBackKills(fdt[myfd]))
  /\ ServerExits

ServerNext ==
  /\ \/ Poll \/ PastEnd \/ Accept \/ AcceptFails \/ Read \/ ReadEnd \/ ReadRaises
     \/ Write \/ WriteFails \/ WriteRaises \/ Dies
  /\ UNCHANGED nofile

\* All clients have left and the server waits for new ones, or is dead.
AtRest ==
  /\ \A c \in Clients : cpc[c] = "done"
  /\ spc \in {"poll", "dead"} /\ OpenFds = {} /\ backlog = <<>>
  /\ UNCHANGED vars

Next ==
  \/ ServerNext /\ UNCHANGED <<clientVars, variantVars>>
  \/ \E c \in Clients : VariantNext(c) /\ UNCHANGED serverVars
  \/ \E c \in Clients : ResetArrives(c) /\ UNCHANGED <<clientVars, variantVars, serverVars>>
  \/ AtRest

Fairness ==
  /\ WF_vars(ServerNext /\ UNCHANGED <<clientVars, variantVars>>)
  /\ \A c \in Clients :
       /\ WF_vars(ResetArrives(c) /\ UNCHANGED <<clientVars, variantVars, serverVars>>)
       /\ WF_vars(Answered(c) /\ UNCHANGED family /\ UNCHANGED serverVars)

Spec == Init /\ [][Next]_vars
FairSpec == Spec /\ Fairness

-----------------------------------------------------------------------------
(* Properties.                                                             *)

\* fd_list is the listening socket and the open descriptors, each once, and
\* no connection is without a descriptor.
ListMatchesTable ==
  spc # "dead" =>
    /\ IsInjective(fd_list)
    /\ Range(fd_list) = {ListenFd} \cup OpenFds
    /\ FdTableOK

\* An aborted association is among the open descriptors.
Astray == \E f \in OpenFds : Aborted(fdt[f])

\* The scan leaves the array, which its condition i <= maxfd (tcp-6-server.cc:87)
\* admits, only on SCTP while an aborted association is open: otherwise n
\* reaches 0 no later than the last ready entry.  And the entries it has not
\* come to are still open and readable, whatever was accepted or closed since
\* poll(), so that neither accept() nor read() blocks within the array.
ScanInBounds ==
  /\ spc = "past" => Astray
  /\ spc \in {"scan", "write", "raise"} =>
       /\ i <= maxfd
       /\ fds[i].revents = "stale" => Astray
       /\ \A k \in Pollable(fds, i + 1) : Ready(fds[k].fd)
       /\ spc = "scan" => fds[i].revents = "stale" \/ Ready(myfd)

\* read() waits on an entry from beyond the array.
Misled == spc = "scan" /\ ~Ready(myfd)

\* A client that waits for a reply due to it is let go, whatever the others
\* do, by a reply or by the end of the server, unless the server is misled.
OwedRepliesCome == \A c \in Clients : Owed(c) ~> ~At(c, "reply") \/ Misled

\* The connection of a client that left is released, unless it is an aborted
\* association, which is neither read nor erased, or the server is misled.
ReleasedUnlessAborted ==
  \A c \in Clients : csk[c] = "closed" ~> ssk[c] = "closed" \/ Aborted(c) \/ Misled
=============================================================================
