---------------------------- MODULE EchoVariants ----------------------------
(***************************************************************************)
(* The echo programs exist three times: C/TCP-examples, their copies on    *)
(* SCTP sockets (C/SCTP-examples), and Python/TCP-examples.  Which family  *)
(* runs is chosen at the start.  This module has what the families differ  *)
(* in: the clients, and the outcomes of the servers' reads and writes.     *)
(*                                                                         *)
(* SCTP    a read returns one message, that is a line or its echo, and a   *)
(*         write to a peer that shut down fails at once (EPIPE with        *)
(*         SIGPIPE, or ESHUTDOWN without).                                 *)
(* Python  errors are exceptions, which nobody catches and which end the   *)
(*         process; so does decode() when a read cut a character in two.   *)
(*         A line goes out without a terminator, so that an empty line, or *)
(*         the end of the input, sends nothing.                            *)
(***************************************************************************)
EXTENDS TcpClient

CONSTANT Families   \* the families to choose from

ASSUME FamiliesAssumption == Families \subseteq {"TCP", "SCTP", "Python"}

VARIABLES
  family,   \* the directory the programs come from
  ends      \* where, in what a Python client sent, a line ends

variantVars == <<family, ends>>

VariantTypeOK ==
  /\ family \in Families
  /\ ends \in [Clients -> SUBSET Nat]

VariantInit ==
  /\ family \in Families
  /\ ends = [c \in Clients |-> {}]

ShutDown(s) == s \in {"fin", "finw"}

-----------------------------------------------------------------------------
(* The clients: tcp-2-client.cc, sctp-2-client.cc, tcp-2-client.py.        *)

Leaves(c) == ClientCloses(c) /\ Goto(c, "done") /\ UNCHANGED <<rep, ends>>

\* sctp-2-client.cc binds to a port the kernel chooses before it connects.
Connects(c) == (Connect(c) \/ ConnectRefused(c)) /\ UNCHANGED ends

SendsLine(c) ==
  /\ Send(c)
  /\ family = "SCTP" => csk[c] = "est"
  /\ ends' = IF family = "Python"
             THEN [ends EXCEPT ![c] = @ \cup {Len(sent'[c])}] ELSE ends

\* write() returns -1 or raises SIGPIPE; in Python send() raises, also when
\* there is nothing to send.
SendGivesUp(c) ==
  /\ At(c, "input")
  /\ csk[c] \in {"err", "dead"} \/ (family = "SCTP" /\ ShutDown(csk[c]))
  /\ Leaves(c)

\* An empty line, or "" at the end of the input: the Python client sends no
\* byte and waits for the answer all the same.
SendsNothing(c) ==
  /\ family = "Python"
  /\ At(c, "input") /\ csk[c] \notin {"err", "dead"}
  /\ Goto(c, "reply") /\ UNCHANGED <<tcpVars, rep, ends>>

\* ".", for the C clients also the end of the input; or an interruption.
UserLeaves(c) == cpc[c] \in {"input", "reply"} /\ Leaves(c)

\* Mutant of TakesAnswer: the SCTP client reads less than the message.
TakesPart(c) ==
  /\ family # "Python"
  /\ TakesReply(c)
  /\ UNCHANGED ends

\* fgetinput: one read() is one answer.
TakesAnswer(c) ==
  /\ family # "Python"
  /\ TakesReply(c)
  /\ family = "SCTP" => down'[c] = <<>>
  /\ UNCHANGED ends

\* recv() returns b'', which the Python client prints like any answer.
TakesEmpty(c) ==
  /\ At(c, "reply") /\ AtEnd(csk[c], down[c])
  /\ Report(c, "part")
  /\ Goto(c, "input") /\ UNCHANGED tcpVars

\* recv() raises, or decode() does because the k bytes it got end inside a
\* character.
AnswerRaises(c) ==
  /\ At(c, "reply")
  /\ \/ Failing(csk[c]) /\ ClientCloses(c)
     \/ \E k \in ReadSizes(down[c]) :
          /\ down[c][k][2] \notin ends[c]
          /\ csk' = [csk EXCEPT ![c] = "closed"]
          /\ \E late \in BOOLEAN :
               ssk' = [ssk EXCEPT ![c] = ClosedByPeer(@, Left(down[c], k), late)]
          /\ down' = [down EXCEPT ![c] = <<>>]
          /\ UNCHANGED <<up, sent, got, backlog, listening>>
  /\ Goto(c, "done") /\ UNCHANGED rep

PyTakesAnswer(c) ==
  /\ family = "Python"
  /\ Reply(c) \/ TakesEmpty(c) \/ AnswerRaises(c)
  /\ UNCHANGED ends

Answered(c) == TakesAnswer(c) \/ PyTakesAnswer(c)

VariantNext(c) ==
  /\ \/ Connects(c) \/ SendsLine(c) \/ SendGivesUp(c) \/ SendsNothing(c)
     \/ UserLeaves(c) \/ Answered(c)
  /\ UNCHANGED family

-----------------------------------------------------------------------------
(* The servers' calls on connection c.                                     *)

\* The sizes read() may return.
Chunks(c) == {k \in ReadSizes(up[c]) : family = "SCTP" => k = Len(up[c])}

\* Where a server goes after it read k bytes: in Python decode() may raise.
AfterRead(c, k) ==
  {"write"} \cup {l \in {"raise"} : family = "Python" /\ up[c][k][2] \notin ends[c]}

\* Where it goes after an error, from which C servers go on at l.
AfterError(l) == IF family = "Python" THEN "raise" ELSE l

SendsBack(c, data) ==
  /\ family = "SCTP" => ssk[c] = "est"
  /\ ServerWrites(c, data)

\* write() returns -1, send() raises.
SendBackFails(c) ==
  \/ ServerWriteFails(c)
  \/ family = "SCTP" /\ ShutDown(ssk[c]) /\ UNCHANGED tcpVars

\* write() raises SIGPIPE; in Python, which ignores it, send() raises.
SendBackKills(c) == ssk[c] = "dead" \/ (family = "SCTP" /\ ShutDown(ssk[c]))

-----------------------------------------------------------------------------
(* Properties of the servers, whatever their structure.                    *)

\* One read() gives one line: on SCTP always, on TCP while each line arrives
\* in one piece.
LinesArriveWhole == family = "SCTP" \/ (family = "TCP" /\ WholeLines)

\* Then the boundaries of the lines are kept: what a client reads is all of the
\* line it sent last, never a part of it or the rest of another.
MessagesStayWhole == LinesArriveWhole => \A c \in Clients : rep[c] # "part"

\* The other users who connect leave in the end.
OthersLeave(c) == \A d \in Clients \ {c} : <>[](cpc[d] \in {"init", "done"})

\* Client c waits for something still due to it: a reply, or word that its
\* connection has ended.  A Python client also waits when it sent nothing, and
\* then is due only the second.
Owed(c) ==
  /\ At(c, "reply")
  /\ family = "Python" => got[c] # sent[c] \/ ssk[c] = "closed"
=============================================================================
