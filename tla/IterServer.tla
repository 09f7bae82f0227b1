----------------------------- MODULE IterServer -----------------------------
(***************************************************************************)
(* tcp-2-server.cc, sctp-2-server.cc and tcp-2-server.py: one process that *)
(* accepts a connection, echoes until the end of its input, closes it, and *)
(* only then accepts the next ("the server can only interact with a single *)
(* client", README.md:16).  The other clients connect to the backlog,      *)
(* send, and wait there.                                                   *)
(***************************************************************************)
EXTENDS EchoVariants

CONSTANT Unset   \* not a client: acceptfd before the first accept()

ASSUME IterAssumption == Unset \notin Clients

VARIABLES
  spc,       \* "accept", "read", "write", "close", "raise", "dead"
  acceptfd,  \* the connection accepted last
  line

serverVars == <<spc, acceptfd, line>>
vars == <<tcpVars, clientVars, variantVars, serverVars>>

ServerTypeOK ==
  /\ spc \in {"accept", "read", "write", "close", "raise", "dead"}
  /\ acceptfd \in Clients \cup {Unset}
  /\ line \in Seq(Byte)

TypeOK == TcpTypeOK /\ ClientTypeOK /\ VariantTypeOK /\ ServerTypeOK

ServerInit == spc = "accept" /\ acceptfd = Unset /\ line = <<>>

Init == TcpInit /\ ClientInit /\ VariantInit /\ ServerInit

-----------------------------------------------------------------------------
\* Mutant of Accept: acceptfd gets the outcome of the comparison in
\* `acceptfd = accept(...) < 0'.
AcceptCompares ==
  /\ spc = "accept"
  /\ backlog # <<>>
  /\ ServerAccepts(Head(backlog))
  /\ acceptfd' = 0
  /\ spc' = "read" /\ UNCHANGED line

Accept ==
  /\ spc = "accept"
  /\ backlog # <<>>
  /\ ServerAccepts(Head(backlog))
  /\ acceptfd' = Head(backlog)
  /\ spc' = "read" /\ UNCHANGED line

\* accept() returns -1, as it may at any time for want of memory or of files in
\* the system: check_and_exit, or an exception, ends the process.
AcceptFails ==
  /\ spc = "accept"
  /\ ServerCloses(Range(backlog))
  /\ listening' = FALSE /\ backlog' = <<>>
  /\ spc' = "dead" /\ UNCHANGED <<acceptfd, line>>

\* Mutant of Read: the loop's condition reads j bytes and its body the rest.
ReadTwice ==
  /\ spc = "read"
  /\ \E k \in Chunks(acceptfd) : \E j \in 1 .. k - 1 :
       /\ ServerReads(acceptfd, k)
       /\ line' = Left(Taken(up[acceptfd], k), j)
  /\ spc' = "write" /\ UNCHANGED acceptfd

Read ==
  /\ spc = "read"
  /\ \E k \in Chunks(acceptfd) :
       /\ ServerReads(acceptfd, k)
       /\ line' = Taken(up[acceptfd], k)
       /\ spc' \in AfterRead(acceptfd, k)
  /\ UNCHANGED acceptfd

\* Mutant of ReadEnd: the inner loop leaves past the close().
ReadEndSkipsClose ==
  /\ spc = "read"
  /\ AtEnd(ssk[acceptfd], up[acceptfd])
  /\ spc' = "accept" /\ UNCHANGED <<tcpVars, acceptfd, line>>

\* Mutant of ReadEnd: 0 is taken for nothing yet, and read again.
ReadsAgain ==
  /\ spc = "read"
  /\ AtEnd(ssk[acceptfd], up[acceptfd])
  /\ UNCHANGED <<spc, tcpVars, acceptfd, line>>

\* read() returns 0: leave the inner loop.
ReadEnd ==
  /\ spc = "read"
  /\ AtEnd(ssk[acceptfd], up[acceptfd])
  /\ spc' = "close" /\ UNCHANGED <<tcpVars, acceptfd, line>>

\* read() returns -1: leave the inner loop as well; recv() raises.
ReadFails ==
  /\ spc = "read"
  /\ Failing(ssk[acceptfd])
  /\ spc' = AfterError("close") /\ UNCHANGED <<tcpVars, acceptfd, line>>

Write ==
  /\ spc = "write"
  /\ SendsBack(acceptfd, line)
  /\ spc' = "read" /\ line' = <<>> /\ UNCHANGED acceptfd

\* Mutant of WriteFails: accept the next connection without closing this one.
WriteFailsSkipsClose ==
  /\ spc = "write"
  /\ SendBackFails(acceptfd)
  /\ spc' = AfterError("accept") /\ line' = <<>> /\ UNCHANGED acceptfd

\* write() returns -1: leave the inner loop.
WriteFails ==
  /\ spc = "write"
  /\ SendBackFails(acceptfd)
  /\ spc' = AfterError("close") /\ line' = <<>> /\ UNCHANGED acceptfd

\* SIGPIPE, or an exception: the process ends, and the kernel closes the
\* connection at hand and those in the backlog.
Dies ==
  /\ spc = "raise" \/ (spc = "write" /\ SendBackKills(acceptfd))
  /\ ServerCloses({acceptfd} \cup Range(backlog))
  /\ listening' = FALSE /\ backlog' = <<>>
  /\ spc' = "dead" /\ line' = <<>> /\ UNCHANGED acceptfd

Close ==
  /\ spc = "close"
  /\ ServerCloses({acceptfd})
  /\ spc' = "accept" /\ UNCHANGED <<acceptfd, line, backlog, listening>>

ServerWorks ==
  \/ Accept \/ Read \/ ReadEnd \/ ReadFails \/ Write \/ WriteFails \/ Dies \/ Close

ServerNext == ServerWorks \/ AcceptFails

\* All clients have left and the server waits for new ones, or is dead.
AtRest ==
  /\ \A c \in Clients : cpc[c] = "done"
  /\ spc \in {"accept", "dead"} /\ backlog = <<>>
  /\ UNCHANGED vars

Next ==
  \/ ServerNext /\ UNCHANGED <<clientVars, variantVars>>
  \/ \E c \in Clients : VariantNext(c) /\ UNCHANGED serverVars
  \/ \E c \in Clients : ResetArrives(c) /\ UNCHANGED <<clientVars, variantVars, serverVars>>
  \/ AtRest

\* The process runs when it can, but accept() need not fail; resets arrive; a
\* client takes the reply that is there.
Fairness ==
  /\ WF_vars(ServerWorks /\ UNCHANGED <<clientVars, variantVars>>)
  /\ \A c \in Clients :
       /\ WF_vars(ResetArrives(c) /\ UNCHANGED <<clientVars, variantVars, serverVars>>)
       /\ WF_vars(Answered(c) /\ UNCHANGED family /\ UNCHANGED serverVars)

Spec == Init /\ [][Next]_vars
FairSpec == Spec /\ Fairness

-----------------------------------------------------------------------------
(* Properties.                                                             *)

\* The kernel's connections are those of the backlog, each once, and the one
\* being served: none is served twice, skipped, or left open by the break
\* out of the loop (72-97).
OneConversation ==
  /\ IsInjective(backlog)
  /\ \A c \in Clients :
       ssk[c] \notin {"none", "closed"}
         <=> c \in Range(backlog)
             \/ (spc \in {"read", "write", "close", "raise"} /\ c = acceptfd)

\* A client that waits for a reply due to it, in the backlog or served, is
\* let go once the other users leave.
WaitsOnlyForOthers ==
  \A c \in Clients : OthersLeave(c) => (Owed(c) ~> ~At(c, "reply"))

\* The connection of a client that left is released once the other users
\* leave, also if it left while in the backlog.
ReleasedOnceOthersLeave ==
  \A c \in Clients : OthersLeave(c) => (csk[c] = "closed" ~> ssk[c] = "closed")
=============================================================================
