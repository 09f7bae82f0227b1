---------------------------- MODULE SelectServer ----------------------------
(***************************************************************************)
(* C/TCP-examples/tcp-5-server.cc and its copy on SCTP sockets,            *)
(* C/SCTP-examples/sctp-5-server.cc: one process that serves every         *)
(* connection, waiting in select() for the listening socket and all the    *)
(* accepted ones.                                                          *)
(*                                                                         *)
(* fdt is the process's descriptor table above the listening socket: the   *)
(* connection each descriptor is open on.  readfd, maxfd, tempfd, n, i and *)
(* line are the program's variables.  One action is one system call with   *)
(* the code up to the next one; the descriptors the for loop skips because *)
(* they are not in tempfd are part of the step that reaches the next one.  *)
(***************************************************************************)
EXTENDS FdTable, EchoVariants

VARIABLES
  spc,      \* "select", "scan": at descriptor i, "write", "dead"
  readfd, maxfd, tempfd, n, i, line

serverVars == <<spc, fdt, nofile, readfd, maxfd, tempfd, n, i, line>>
vars == <<tcpVars, clientVars, variantVars, serverVars>>

ServerTypeOK ==
  /\ spc \in {"select", "scan", "write", "dead"}
  /\ FdTypeOK
  /\ readfd \in SUBSET (ListenFd .. LastFd)
  /\ tempfd \in SUBSET (ListenFd .. LastFd)
  /\ maxfd \in ListenFd .. LastFd
  /\ n \in Nat
  /\ i \in 0 .. LastFd
  /\ line \in Seq(Byte)

TypeOK == TcpTypeOK /\ ClientTypeOK /\ VariantTypeOK /\ ServerTypeOK

ServerInit ==
  /\ spc = "select"
  /\ FdInit
  /\ readfd = {ListenFd} /\ maxfd = ListenFd
  /\ tempfd = {} /\ n = 0 /\ i = 0 /\ line = <<>>

\* The Python server of this number keeps a list: PollServer.
Init == TcpInit /\ ClientInit /\ VariantInit /\ family # "Python" /\ ServerInit

-----------------------------------------------------------------------------
\* The for loop ends and the next turn of for(;;) declares tempfd, n and i
\* anew.
NextTurn ==
  /\ spc' = "select"
  /\ tempfd' = {} /\ n' = 0 /\ i' = 0

\* i++ until the next descriptor of tempfd, while i <= maxfd && n > 0.
NextFd ==
  LET rest == {f \in tempfd : f > i /\ f <= maxfd} IN
  IF n - 1 > 0 /\ rest # {}
  THEN /\ spc' = "scan" /\ i' = Min(rest) /\ n' = n - 1
       /\ UNCHANGED tempfd
  ELSE NextTurn

\* Mutant of Select: the scan visits every watched descriptor, as if select()
\* had not overwritten tempfd.
SelectIgnoresResult ==
  /\ spc = "select"
  /\ LET ready == {f \in readfd : f <= maxfd /\ Ready(f)} IN
       /\ ready # {}
       /\ tempfd' = readfd /\ n' = Cardinality(readfd) /\ i' = Min(readfd)
  /\ spc' = "scan"
  /\ UNCHANGED <<tcpVars, fdt, readfd, maxfd, line>>

\* fd_copy, and select() which blocks until a descriptor is ready.
Select ==
  /\ spc = "select"
  /\ LET ready == {f \in readfd : f <= maxfd /\ Ready(f)} IN
       /\ ready # {}
       /\ tempfd' = ready /\ n' = Cardinality(ready)
       /\ i' = Min(ready)
  /\ spc' = "scan"
  /\ UNCHANGED <<tcpVars, fdt, readfd, maxfd, line>>

\* Mutant of Accept: maxfd keeps the number of descriptors, not the largest.
AcceptCountsFds ==
  /\ spc = "scan" /\ i = ListenFd
  /\ FreeFds # {}
  /\ ServerAccepts(Head(backlog))
  /\ fdt' = [fdt EXCEPT ![Min(FreeFds)] = Head(backlog)]
  /\ readfd' = readfd \cup {Min(FreeFds)}
  /\ maxfd' = Min(FreeFds) + 1
  /\ NextFd
  /\ UNCHANGED line

\* Mutant of Accept: maxfd is not raised.
AcceptKeepsMaxfd ==
  /\ spc = "scan" /\ i = ListenFd
  /\ FreeFds # {}
  /\ ServerAccepts(Head(backlog))
  /\ fdt' = [fdt EXCEPT ![Min(FreeFds)] = Head(backlog)]
  /\ readfd' = readfd \cup {Min(FreeFds)}
  /\ NextFd
  /\ UNCHANGED <<line, maxfd>>

Accept ==
  /\ spc = "scan" /\ i = ListenFd
  /\ FreeFds # {}
  /\ LET c == Head(backlog)
         acceptfd == Min(FreeFds) IN
       /\ ServerAccepts(c)
       /\ fdt' = [fdt EXCEPT ![acceptfd] = c]
       /\ readfd' = readfd \cup {acceptfd}
       /\ maxfd' = IF acceptfd > maxfd THEN acceptfd ELSE maxfd
  /\ NextFd
  /\ UNCHANGED line

\* The process exits, or is killed.
ServerExits ==
  /\ spc' = "dead"
  /\ ProcessGone
  /\ readfd' = {} /\ tempfd' = {} /\ n' = 0 /\ i' = 0 /\ line' = <<>>
  /\ UNCHANGED maxfd

\* accept() has no descriptor left (EMFILE): check_and_exit.
AcceptFails ==
  /\ spc = "scan" /\ i = ListenFd
  /\ FreeFds = {}
  /\ ServerExits

\* Mutant of Read: a test reads j bytes and the call after it the rest.
ReadTwice ==
  /\ spc = "scan" /\ i # ListenFd
  /\ LET c == fdt[i] IN
       \E k \in Chunks(c) : \E j \in 1 .. k - 1 :
         ServerReads(c, k) /\ line' = Left(Taken(up[c], k), j)
  /\ spc' = "write"
  /\ UNCHANGED <<fdt, readfd, maxfd, tempfd, n, i>>

Read ==
  /\ spc = "scan" /\ i # ListenFd
  /\ LET c == fdt[i] IN
       \E k \in Chunks(c) :
         /\ ServerReads(c, k)
         /\ line' = Taken(up[c], k)
  /\ spc' = "write"
  /\ UNCHANGED <<fdt, readfd, maxfd, tempfd, n, i>>

\* Mutant of ReadEnd: no FD_CLR.
ReadEndKeepsWatching ==
  /\ spc = "scan" /\ i # ListenFd
  /\ LET c == fdt[i] IN AtEnd(ssk[c], up[c]) \/ Failing(ssk[c])
  /\ FdCloses(i)
  /\ NextTurn
  /\ UNCHANGED <<readfd, maxfd, line>>

\* Mutant of ReadEnd: FD_CLR without close().
ReadEndKeepsOpen ==
  /\ spc = "scan" /\ i # ListenFd
  /\ LET c == fdt[i] IN AtEnd(ssk[c], up[c]) \/ Failing(ssk[c])
  /\ readfd' = readfd \ {i}
  /\ NextTurn
  /\ UNCHANGED <<tcpVars, fdt, maxfd, line>>

\* Mutant of ReadEnd: no test of the result, and the empty line is written back.
ReadEndGoesOn ==
  /\ spc = "scan" /\ i # ListenFd
  /\ LET c == fdt[i] IN AtEnd(ssk[c], up[c]) \/ Failing(ssk[c])
  /\ spc' = "write" /\ line' = <<>>
  /\ UNCHANGED <<tcpVars, fdt, readfd, maxfd, tempfd, n, i>>

\* read() returns 0 or -1: FD_CLR, close, and break out of the for loop,
\* whatever descriptors of tempfd it had not come to.
ReadEnd ==
  /\ spc = "scan" /\ i # ListenFd
  /\ LET c == fdt[i] IN AtEnd(ssk[c], up[c]) \/ Failing(ssk[c])
  /\ FdCloses(i)
  /\ readfd' = readfd \ {i}
  /\ NextTurn
  /\ UNCHANGED <<maxfd, line>>

Write ==
  /\ spc = "write"
  /\ SendsBack(fdt[i], line)
  /\ line' = <<>>
  /\ NextFd
  /\ UNCHANGED <<fdt, readfd, maxfd>>

\* write() returns -1: break, the descriptor stays open and watched.
WriteFails ==
  /\ spc = "write"
  /\ SendBackFails(fdt[i])
  /\ line' = <<>>
  /\ NextTurn
  /\ UNCHANGED <<fdt, readfd, maxfd>>

\* The process has SIGPIPE at its default action.
WriteKilled ==
  /\ spc = "write"
  /\ SendBackKills(fdt[i])
  /\ ServerExits

ServerNext ==
  /\ \/ Select \/ Accept \/ AcceptFails \/ Read \/ ReadEnd
     \/ Write \/ WriteFails \/ WriteKilled
  /\ UNCHANGED nofile

\* All clients have left and the server waits for new ones, or is dead.
AtRest ==
  /\ \A c \in Clients : cpc[c] = "done"
  /\ spc \in {"select", "dead"} /\ OpenFds = {} /\ backlog = <<>>
  /\ UNCHANGED vars

Next ==
  \/ ServerNext /\ UNCHANGED <<clientVars, variantVars>>
  \/ \E c \in Clients : VariantNext(c) /\ UNCHANGED serverVars
  \/ \E c \in Clients : ResetArrives(c) /\ UNCHANGED <<clientVars, variantVars, serverVars>>
  \/ AtRest

Fairness ==
  /\ WF_vars(ServerNext /\ UNCHANGED <<clientVars, variantVars>>)
  /\ \A c \in Clients :
       /\ WF_vars(ResetArrives(c) /\ UNCHANGED <<clientVars, variantVars, serverVars>>)
       /\ WF_vars(Answered(c) /\ UNCHANGED family /\ UNCHANGED serverVars)

Spec == Init /\ [][Next]_vars
FairSpec == Spec /\ Fairness

-----------------------------------------------------------------------------
(* Properties.                                                             *)

\* The descriptor table, the watched set and the kernel agree: what is
\* watched (FD_SET at 92, FD_CLR at 105 and 110) is exactly what is open, up
\* to maxfd; no connection has two descriptors; and every connection the
\* kernel still holds for the server is in the backlog or on a descriptor,
\* so that none is ever leaked or forgotten.
DescriptorTable ==
  spc # "dead" =>
    /\ readfd = {ListenFd} \cup OpenFds
    /\ \A f \in readfd : f <= maxfd
    /\ FdTableOK

\* A descriptor select() reported, and the scan has not come to, is still
\* ready when the scan does: the accept() at 87 and the read() at 102 never
\* block the single thread, whatever was accepted, closed or reset since.
ScanNeverBlocks ==
  spc = "scan" => \A f \in tempfd : f >= i => Ready(f)

\* The one process serves everybody, and ends for two causes only: a client
\* knocks when no descriptor is left (check_and_exit at 90), or the write at
\* 117 meets a connection whose client left before it had read all its
\* answers.  A client that takes its answers, and leaves then, harms nobody.
KilledOnlyByLeavers ==
  [][spc # "dead" /\ spc' = "dead" =>
       \/ FreeFds = {} /\ backlog # <<>>
       \/ \E f \in OpenFds : csk[fdt[f]] = "closed" /\ got[fdt[f]] # sent[fdt[f]]]_vars
=============================================================================
