-------------------------------- MODULE Tcp --------------------------------
(***************************************************************************)
(* The operating system's part of every TCP example: one byte-stream       *)
(* connection for each client, seen through the system calls the programs  *)
(* make (connect, accept, read, write, close, process exit).  It is        *)
(* external to the repository and modelled from how C/TCP-examples uses    *)
(* it, with the Linux behaviour of closed and reset connections.           *)
(*                                                                         *)
(* The two ends of connection c are csk[c] (the client's socket) and       *)
(* ssk[c] (the server's).  A state of an end is one of                     *)
(*   none    no connection yet          fin   the peer closed (FIN)        *)
(*   est     established                finw  wrote after the FIN: the     *)
(*   closed  this end was closed              peer's RST is on its way     *)
(*   err     reset by the peer, ECONNRESET not yet reported                *)
(*   dead    reset and reported: read gives 0, write raises SIGPIPE        *)
(* up[c] is what the client wrote and the server did not read, in flight   *)
(* or in a buffer; down[c] is the other direction.  A byte is <<c, k>>:    *)
(* the k-th byte client c ever wrote, so bytes of different connections    *)
(* and different positions differ.                                         *)
(***************************************************************************)
EXTENDS Naturals, Sequences, FiniteSets, SequencesExt

CONSTANTS
  Clients,    \* the client processes, one connection each
  MaxBytes,   \* bound: bytes a client writes on its connection in all
  LineSize,   \* sizeof(line), 1024 in the code: the largest read or write
  Window,     \* bytes a direction holds before a write on it blocks
  Backlog,    \* the argument of listen()
  WholeLines  \* TRUE: a read returns all that was written (one segment a line)

ASSUME TcpAssumption ==
  /\ MaxBytes \in Nat /\ LineSize \in Nat \ {0} /\ Window \in Nat
  /\ Backlog \in Nat /\ WholeLines \in BOOLEAN

VARIABLES
  csk, ssk,   \* the state of the two ends of each connection
  up, down,   \* the bytes on their way to the server, to the client
  sent, got,  \* what each client wrote, and what it has read
  backlog,    \* the connections the server has not accepted, oldest first
  listening   \* the listening socket is open in some process

tcpVars == <<csk, ssk, up, down, sent, got, backlog, listening>>

EndStates == {"none", "est", "fin", "finw", "err", "dead", "closed"}
Byte == Clients \X (Nat \ {0})

TcpTypeOK ==
  /\ csk \in [Clients -> EndStates]
  /\ ssk \in [Clients -> EndStates]
  /\ up \in [Clients -> Seq(Byte)]
  /\ down \in [Clients -> Seq(Byte)]
  /\ sent \in [Clients -> Seq(Byte)]
  /\ got \in [Clients -> Seq(Byte)]
  /\ backlog \in Seq(Clients)
  /\ listening \in BOOLEAN

TcpInit ==
  /\ csk = [c \in Clients |-> "none"]
  /\ ssk = [c \in Clients |-> "none"]
  /\ up = [c \in Clients |-> <<>>]
  /\ down = [c \in Clients |-> <<>>]
  /\ sent = [c \in Clients |-> <<>>]
  /\ got = [c \in Clients |-> <<>>]
  /\ backlog = <<>>
  /\ listening = TRUE

-----------------------------------------------------------------------------
(* What a system call on an end in state s, with q in its receive queue,   *)
(* returns or turns the end into.                                          *)

HasData(q) == q # <<>>
AtEnd(s, q) == q = <<>> /\ s \in {"fin", "finw", "dead"}   \* read returns 0
Failing(s) == s = "err"                                    \* -1, ECONNRESET
Readable(s, q) == HasData(q) \/ AtEnd(s, q) \/ Failing(s)  \* select, poll

\* The sizes read(fd, line, LineSize) may return: any part of the queue may
\* be all that has arrived, unless every line arrives in one piece.
ReadSizes(q) ==
  {k \in 1 .. Len(q) : k <= LineSize /\ (WholeLines => k = Len(q) \/ k = LineSize)}

Taken(q, k) == SubSeq(q, 1, k)
Left(q, k) == SubSeq(q, k + 1, Len(q))

\* write: delivered while established; accepted and thrown away after a FIN.
CanWrite(s, q, k) ==
  \/ s = "est" /\ Len(q) + k <= Window
  \/ s \in {"fin", "finw"}
AfterWrite(s) == IF s = "est" THEN "est" ELSE "finw"
Delivered(s, q, data) == IF s = "est" THEN q \o data ELSE q

\* The peer of an end in state s closes leaving `unread' in its own queue: a
\* FIN, or a reset if something was unread.  In the second case the data
\* may be received before the close (RST at once) or after it (FIN, then RST).
ClosedByPeer(s, unread, late) ==
  IF s # "est" THEN s
  ELSE IF unread = <<>> THEN "fin"
  ELSE IF late THEN "finw" ELSE "err"

-----------------------------------------------------------------------------
(* The calls of the client process of connection c.                        *)

ClientConnects(c) ==
  /\ csk[c] = "none" /\ listening
  /\ Len(backlog) <= Backlog
  /\ csk' = [csk EXCEPT ![c] = "est"]
  /\ ssk' = [ssk EXCEPT ![c] = "est"]
  /\ backlog' = Append(backlog, c)
  /\ UNCHANGED <<up, down, sent, got, listening>>

ClientWrites(c, k) ==
  LET data == [j \in 1 .. k |-> <<c, Len(sent[c]) + j>>] IN
  /\ CanWrite(csk[c], up[c], k)
  /\ csk' = [csk EXCEPT ![c] = AfterWrite(csk[c])]
  /\ up' = [up EXCEPT ![c] = Delivered(csk[c], up[c], data)]
  /\ sent' = [sent EXCEPT ![c] = @ \o data]
  /\ UNCHANGED <<ssk, down, got, backlog, listening>>

ClientReads(c) ==
  /\ \E k \in ReadSizes(down[c]) :
       /\ got' = [got EXCEPT ![c] = @ \o Taken(down[c], k)]
       /\ down' = [down EXCEPT ![c] = Left(down[c], k)]
  /\ UNCHANGED <<csk, ssk, up, sent, backlog, listening>>

\* The error is reported once; what was still in flight is lost with it.
ClientReadFails(c) ==
  /\ Failing(csk[c])
  /\ csk' = [csk EXCEPT ![c] = "dead"]
  /\ down' = [down EXCEPT ![c] = <<>>]
  /\ UNCHANGED <<ssk, up, sent, got, backlog, listening>>

ClientCloses(c) ==
  /\ csk' = [csk EXCEPT ![c] = "closed"]
  /\ \E late \in BOOLEAN :
       ssk' = [ssk EXCEPT ![c] = ClosedByPeer(@, down[c], late)]
  /\ down' = [down EXCEPT ![c] = <<>>]
  /\ UNCHANGED <<up, sent, got, backlog, listening>>

-----------------------------------------------------------------------------
(* The calls a server process makes on its end of connection c.            *)

ServerAccepts(c) ==
  /\ backlog # <<>> /\ c = Head(backlog)
  /\ backlog' = Tail(backlog)
  /\ UNCHANGED <<csk, ssk, up, down, sent, got, listening>>

ServerReads(c, k) ==
  /\ k \in ReadSizes(up[c])
  /\ up' = [up EXCEPT ![c] = Left(up[c], k)]
  /\ UNCHANGED <<csk, ssk, down, sent, got, backlog, listening>>

ServerWrites(c, data) ==
  /\ CanWrite(ssk[c], down[c], Len(data))
  /\ ssk' = [ssk EXCEPT ![c] = AfterWrite(ssk[c])]
  /\ down' = [down EXCEPT ![c] = Delivered(ssk[c], down[c], data)]
  /\ UNCHANGED <<csk, up, sent, got, backlog, listening>>

\* -1 with ECONNRESET; part of what the client wrote may be lost with it.
ServerWriteFails(c) ==
  /\ Failing(ssk[c])
  /\ ssk' = [ssk EXCEPT ![c] = "dead"]
  /\ \E k \in 0 .. Len(up[c]) : up' = [up EXCEPT ![c] = Taken(up[c], k)]
  /\ UNCHANGED <<csk, down, sent, got, backlog, listening>>

\* The server's ends of the connections in S are closed, by close() or
\* because the last process that held them is gone.
ServerCloses(S) ==
  /\ ssk' = [c \in Clients |-> IF c \in S THEN "closed" ELSE ssk[c]]
  /\ up' = [c \in Clients |-> IF c \in S THEN <<>> ELSE up[c]]
  /\ \E late \in SUBSET {c \in S : csk[c] = "est" /\ up[c] # <<>>} :
       csk' = [c \in Clients |->
                 IF c \in S THEN ClosedByPeer(csk[c], up[c], c \in late)
                            ELSE csk[c]]
  /\ UNCHANGED <<down, sent, got>>

-----------------------------------------------------------------------------
(* The reset provoked by writing to a closed peer arrives.                 *)

ServerResetArrives(c) ==
  /\ ssk[c] = "finw"
  /\ ssk' = [ssk EXCEPT ![c] = "dead"]
  /\ UNCHANGED <<csk, up, down, sent, got, backlog, listening>>

ClientResetArrives(c) ==
  /\ csk[c] = "finw"
  /\ csk' = [csk EXCEPT ![c] = "dead"]
  /\ UNCHANGED <<ssk, up, down, sent, got, backlog, listening>>

ResetArrives(c) == ServerResetArrives(c) \/ ClientResetArrives(c)

-----------------------------------------------------------------------------
\* What a client has read, and what is on its way to it, are the first bytes
\* it wrote, in order, none twice and none of another connection's.
EchoIntegrity == \A c \in Clients : IsPrefix(got[c] \o down[c], sent[c])
=============================================================================
