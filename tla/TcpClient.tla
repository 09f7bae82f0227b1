----------------------------- MODULE TcpClient -----------------------------
(***************************************************************************)
(* The echo clients, C/TCP-examples/tcp-2-client.cc and its copies         *)
(* tcp-4-client.cc and tcp-5-client.cc, with getinput and fgetinput of     *)
(* support.cc.  Each client connects once, then alternates between a line  *)
(* of input it sends and one read it takes for the reply.  How a client    *)
(* ends, and what it does in the other families, is in EchoVariants.       *)
(*                                                                         *)
(* rep[c] is what the last report of client c ("Got %d-byte response") was *)
(* made of: "echo" if the read returned what completes everything it sent, *)
(* "part" if it returned something else, "stale" if it returned 0, when    *)
(* fgetinput goes on to measure the line that was sent, and "error" if it  *)
(* failed.                                                                 *)
(***************************************************************************)
EXTENDS Tcp

VARIABLES cpc, rep

clientVars == <<cpc, rep>>

Reports == {"none", "echo", "part", "stale", "error"}

ClientTypeOK ==
  /\ cpc \in [Clients -> {"init", "input", "reply", "done"}]
  /\ rep \in [Clients -> Reports]

ClientInit ==
  /\ cpc = [c \in Clients |-> "init"]
  /\ rep = [c \in Clients |-> "none"]

At(c, l) == cpc[c] = l
Goto(c, l) == cpc' = [cpc EXCEPT ![c] = l]
Report(c, r) == rep' = [rep EXCEPT ![c] = r]

\* connect() succeeds once the backlog has room; until then it blocks.
Connect(c) ==
  /\ At(c, "init")
  /\ ClientConnects(c)
  /\ Goto(c, "input") /\ UNCHANGED rep

\* Nobody listens: connect() fails and check_and_exit exits.
ConnectRefused(c) ==
  /\ At(c, "init") /\ ~listening
  /\ Goto(c, "done") /\ UNCHANGED <<tcpVars, rep>>

\* A line of len characters goes out with its NUL: len+1 bytes.
Send(c) ==
  /\ At(c, "input")
  /\ \E k \in 1 .. LineSize :
       /\ Len(sent[c]) + k <= MaxBytes
       /\ ClientWrites(c, k)
  /\ Goto(c, "reply") /\ UNCHANGED rep

Reply(c) ==
  /\ At(c, "reply")
  /\ ClientReads(c)
  /\ Report(c, IF got'[c] = sent[c] THEN "echo" ELSE "part")
  /\ Goto(c, "input")

\* read() returns 0: fgetinput does not test for it, and reports the line
\* the buffer still holds.
ReplyAtEnd(c) ==
  /\ At(c, "reply")
  /\ AtEnd(csk[c], down[c])
  /\ Report(c, "stale")
  /\ Goto(c, "input") /\ UNCHANGED tcpVars

ReplyFails(c) ==
  /\ At(c, "reply")
  /\ ClientReadFails(c)
  /\ Report(c, "error")
  /\ Goto(c, "input")

TakesReply(c) == Reply(c) \/ ReplyAtEnd(c) \/ ReplyFails(c)

-----------------------------------------------------------------------------
\* What every server, together with these clients, implements: an echo
\* service.  A connection the server ended is still open for its client,
\* which may read what is left and learns of the end by itself.
Echo == INSTANCE EchoService WITH
  Bytes <- Byte,
  phase <- [c \in Clients |-> CASE csk[c] = "none" -> "new"
                                [] csk[c] = "closed" -> "closed"
                                [] OTHER -> "open"],
  asked <- sent,
  echoed <- got

EchoSpec == Echo!Spec

-----------------------------------------------------------------------------
(* Properties of the servers, whatever their structure.                    *)


\* A client that waits for its reply is let go, by a reply or by the end of
\* its connection.
WaitingClientsAnswered ==
  \A c \in Clients : At(c, "reply") ~> ~At(c, "reply")

\* The server releases the connection of a client that left, also when a
\* write to it failed and the code only leaves its loop.
ConnectionsReleased ==
  \A c \in Clients : csk[c] = "closed" ~> ssk[c] = "closed"
=============================================================================
