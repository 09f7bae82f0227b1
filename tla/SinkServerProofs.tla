-------------------------- MODULE SinkServerProofs --------------------------
(***************************************************************************)
(* Theorems about SinkServer, for any clients, lines and segmentation and  *)
(* for its five pairs of programs: its types are right, and what a client  *)
(* sent is printed or on its way, in order, unless its connection was      *)
(* rejected or the process that served it ended.                           *)
(***************************************************************************)
EXTENDS SinkServer, TLAPS, SequenceTheorems

-----------------------------------------------------------------------------
(* The inductive invariant.                                                *)

ParentStates == {"accept", "read", "close", "fork", "handoff", "raise", "dead"}
ChildStates == {"none", "read", "exit", "gone"}

\* The parent has a descriptor on the connection it accepted last.
Holding == pc[Parent] \in {"read", "close", "fork", "handoff", "raise"}

\* A process has the descriptor on its own connection and no other; only the
\* forking servers have children.
TableInv ==
  /\ pc \in [Procs -> ParentStates \cup ChildStates]
  /\ Holding => acceptfd \in Clients
  /\ fds[Parent] = IF Holding THEN {acceptfd} ELSE {}
  /\ \A c \in Clients : fds[c] = IF pc[c] \in {"read", "exit"} THEN {c} ELSE {}
  /\ program \in Iterative =>
       pc[Parent] \notin {"fork", "handoff"} /\ \A c \in Clients : pc[c] = "none"
  /\ program \notin Iterative => pc[Parent] \notin {"read", "close", "raise"}
  /\ pc[Parent] = "fork" => pc[acceptfd] = "none" /\ ssk[acceptfd] \in {"est", "fin"}

\* The connections of the backlog are there once, open, and nobody's.
BacklogInv ==
  /\ IsInjective(backlog)
  /\ \A c \in Range(backlog) :
       c \in Clients /\ ssk[c] \in {"est", "fin"} /\ pc[c] = "none" /\ c \notin fds[Parent]

\* All that the client of c wrote was read, and it has left.
Drained(c) == up[c] = <<>> /\ ssk[c] \in {"fin", "closed"}

\* Nothing is sent to a client, so that its close is a FIN and never a reset.
\* It sees the server's end only if it was rejected or its server died,
\* and a process stops reading only when there is nothing more to come.
ConnInv ==
  \A c \in Clients :
    /\ ssk[c] \in {"none", "est", "fin", "closed"} /\ down[c] = <<>>
    /\ csk[c] = "est" <=> ssk[c] = "est"
    /\ csk[c] = "none" => ssk[c] = "none" /\ pc[c] = "none" /\ c \notin fds[Parent]
    /\ csk[c] \in {"fin", "finw"} => Rejected(c) \/ Dead
    /\ pc[c] \in {"exit", "gone"} => Drained(c)
    /\ pc[Parent] = "close" /\ acceptfd = c => Drained(c)

\* The line a client writes fits.
TodoInv ==
  \A c \in Clients : At(c, "write") => todo[c] > 0 /\ Len(sent[c]) + todo[c] <= MaxBytes

\* What a client sent is what was printed and a rest, which is still on its
\* way unless it went with a rejected connection or the dead process.
StreamInv ==
  \A c \in Clients : \E rest \in Seq(Byte) :
    printed[c] \o rest = sent[c] /\ (rest = up[c] \/ Rejected(c) \/ Dead)

IInv == TypeOK /\ TableInv /\ BacklogInv /\ ConnInv /\ TodoInv /\ StreamInv

-----------------------------------------------------------------------------
(* Sequences.                                                              *)

\* A sequence is a prefix of every sequence it begins.
LEMMA PrefixOfConcat ==
  ASSUME NEW X, NEW p \in Seq(X), NEW q \in Seq(X)
  PROVE  IsPrefix(p, p \o q)
  BY DEF IsPrefix

\* What is appended to the rest is appended to the whole.
LEMMA Regroup ==
  ASSUME NEW X, NEW p \in Seq(X), NEW q \in Seq(X), NEW r \in Seq(X)
  PROVE  q \o r \in Seq(X) /\ p \o (q \o r) = (p \o q) \o r
  OBVIOUS

\* A read moves the head of a queue to the end of what was printed.
LEMMA TakenLeft ==
  ASSUME NEW X, NEW p \in Seq(X), NEW q \in Seq(X), NEW k \in 0 .. Len(q)
  PROVE  /\ Taken(q, k) \in Seq(X) /\ Left(q, k) \in Seq(X)
         /\ p \o Taken(q, k) \in Seq(X)
         /\ (p \o Taken(q, k)) \o Left(q, k) = p \o q
<1> DEFINE t == Taken(q, k)
           l == Left(q, k)
<1>1. /\ Len(q) \in Nat /\ 1 \in 1 .. Len(q) + 1 /\ k \in 1 - 1 .. Len(q)
      /\ Len(q) \in k .. Len(q)
  BY LenProperties
<1>2. SubSeq(q, 1, k) \o SubSeq(q, k + 1, Len(q)) = SubSeq(q, 1, Len(q))
  BY <1>1, ConcatAdjacentSubSeq
<1>3. t \in Seq(X) /\ l \in Seq(X)
  BY <1>1 DEF Taken, Left
<1>4. q = t \o l
  BY <1>2, SubSeqFull DEF Taken, Left
<1> HIDE DEF t, l
<1>5. (p \o t) \o l = p \o (t \o l) /\ p \o t \in Seq(X)
  BY <1>3
<1> QED
  BY <1>3, <1>4, <1>5 DEF t, l

\* The bytes of a line are bytes of its connection.
LEMMA LineType ==
  ASSUME NEW c \in Clients, NEW n \in Nat, NEW k \in Nat
  PROVE  /\ [j \in 1 .. k |-> <<c, n + j>>] \in Seq(Byte)
         /\ Len([j \in 1 .. k |-> <<c, n + j>>]) = k
<1> DEFINE data == [j \in 1 .. k |-> <<c, n + j>>]
<1>1. \A j \in 1 .. k : <<c, n + j>> \in Byte
  BY DEF Byte
<1>2. data \in Seq(Byte) /\ DOMAIN data = 1 .. k
  BY <1>1
<1> HIDE DEF data
<1>3. Len(data) = k
  BY <1>2, LenProperties
<1> QED
  BY <1>2, <1>3 DEF data

\* A connection that joins the end of the backlog.
LEMMA AppendRange ==
  ASSUME NEW X, NEW q \in Seq(X), NEW x \in X
  PROVE  /\ Range(Append(q, x)) = Range(q) \cup {x}
         /\ IsInjective(q) /\ x \notin Range(q) => IsInjective(Append(q, x))
<1> DEFINE r == Append(q, x)
<1>1. /\ Len(q) \in Nat /\ DOMAIN q = 1 .. Len(q)
      /\ DOMAIN r = 1 .. Len(q) + 1
      /\ \A k \in 1 .. Len(q) : r[k] = q[k]
      /\ r[Len(q) + 1] = x
  OBVIOUS
<1>2. 1 .. Len(q) + 1 = (1 .. Len(q)) \cup {Len(q) + 1}
  BY <1>1
<1> HIDE DEF r
<1> QED
  BY <1>1, <1>2 DEF r, Range, IsInjective

\* The oldest connection that leaves the backlog.
LEMMA TailRange ==
  ASSUME NEW X, NEW q \in Seq(X), q # <<>>
  PROVE  /\ Head(q) \in X /\ Tail(q) \in Seq(X)
         /\ Range(q) = Range(Tail(q)) \cup {Head(q)}
         /\ IsInjective(q) => IsInjective(Tail(q)) /\ Head(q) \notin Range(Tail(q))
<1> DEFINE r == Tail(q)
<1>1. /\ Len(q) \in Nat \ {0} /\ DOMAIN q = 1 .. Len(q)
      /\ DOMAIN r = 1 .. Len(q) - 1
      /\ \A k \in 1 .. Len(q) - 1 : r[k] = q[k + 1]
      /\ Head(q) = q[1] /\ Head(q) \in X /\ r \in Seq(X)
  OBVIOUS
<1> HIDE DEF r
<1>2. /\ 1 \in 1 .. Len(q)
      /\ \A k \in 1 .. Len(q) - 1 : k + 1 \in 1 .. Len(q) /\ k + 1 # 1
      /\ \A k \in 1 .. Len(q) : k = 1 \/ (k - 1 \in 1 .. Len(q) - 1 /\ k = (k - 1) + 1)
  BY <1>1
<1>3. Range(q) \subseteq Range(r) \cup {Head(q)}
  <2> SUFFICES ASSUME NEW k \in 1 .. Len(q) PROVE q[k] \in Range(r) \cup {Head(q)}
    BY <1>1 DEF Range
  <2>1. CASE k = 1
    BY <1>1, <2>1
  <2>2. CASE k - 1 \in 1 .. Len(q) - 1 /\ k = (k - 1) + 1
    <3>1. q[k] = r[k - 1]
      BY <1>1, <2>2
    <3> QED
      BY <1>1, <2>2, <3>1 DEF Range
  <2> QED
    BY <1>2, <2>1, <2>2
<1>4. Range(r) \cup {Head(q)} \subseteq Range(q)
  <2>1. Head(q) \in Range(q)
    BY <1>1, <1>2 DEF Range
  <2>2. ASSUME NEW k \in 1 .. Len(q) - 1 PROVE r[k] \in Range(q)
    <3>1. k + 1 \in DOMAIN q /\ r[k] = q[k + 1]
      BY <1>1, <1>2
    <3> QED
      BY <3>1 DEF Range
  <2>3. Range(r) \subseteq Range(q)
    BY <1>1, <2>2 DEF Range
  <2> QED
    BY <2>1, <2>3
<1>5. ASSUME IsInjective(q)
      PROVE  IsInjective(r) /\ Head(q) \notin Range(r)
  <2>1. \A k, l \in 1 .. Len(q) - 1 : r[k] = r[l] => k + 1 = l + 1
    BY <1>1, <1>2, <1>5 DEF IsInjective
  <2>2. \A k, l \in 1 .. Len(q) - 1 : k + 1 = l + 1 => k = l
    OBVIOUS
  <2>3. IsInjective(r)
    BY <1>1, <2>1, <2>2 DEF IsInjective
  <2>4. \A k \in 1 .. Len(q) - 1 : r[k] # q[1]
    BY <1>1, <1>2, <1>5 DEF IsInjective
  <2> QED
    BY <1>1, <2>3, <2>4 DEF Range
<1> QED
  BY <1>1, <1>3, <1>4, <1>5 DEF r

-----------------------------------------------------------------------------
(* What the steps have in common.                                          *)

LEMMA InitInv == Init => IInv
<1> SUFFICES ASSUME Init PROVE IInv
  OBVIOUS
<1> USE SinkAssumption DEF Init, TcpInit, ClientInit, ServerInit, Procs
<1>1. TypeOK
  BY TcpAssumption DEF TypeOK, TcpTypeOK, EndStates
<1>2. TableInv /\ TodoInv
  BY DEF TableInv, TodoInv, Holding, ParentStates, ChildStates, At
<1>3. BacklogInv /\ ConnInv
  BY DEF BacklogInv, ConnInv, Range, IsInjective, Drained
<1>4. StreamInv
  <2> SUFFICES ASSUME NEW c \in Clients
               PROVE  \E rest \in Seq(Byte) :
                        printed[c] \o rest = sent[c] /\ (rest = up[c] \/ Rejected(c) \/ Dead)
    BY DEF StreamInv
  <2>1. <<>> \in Seq(Byte) /\ <<>> \o <<>> = <<>>
    OBVIOUS
  <2>2. printed[c] = <<>> /\ up[c] = <<>> /\ sent[c] = <<>>
    OBVIOUS
  <2> QED
    BY <2>1, <2>2, Zenon
<1> QED
  BY <1>1, <1>2, <1>3, <1>4 DEF IInv

\* A step that prints nothing and sends nothing, and loses data only with a
\* rejected connection or the process.
LEMMA StreamKept ==
  ASSUME StreamInv, printed' = printed, sent' = sent,
         \A c \in Clients : up'[c] = up[c] \/ Rejected(c)' \/ Dead',
         \A c \in Clients : Rejected(c) => Rejected(c)' \/ Dead', Dead => Dead'
  PROVE  StreamInv'
<1> SUFFICES ASSUME NEW c \in Clients
             PROVE  \E rest \in Seq(Byte) : printed'[c] \o rest = sent'[c]
                      /\ (rest = up'[c] \/ Rejected(c)' \/ Dead')
  BY DEF StreamInv
<1>1. PICK rest \in Seq(Byte) :
        printed[c] \o rest = sent[c] /\ (rest = up[c] \/ Rejected(c) \/ Dead)
  BY DEF StreamInv
<1> QED
  BY <1>1

\* The server's ends of connections that are open are closed.
LEMMA Closing ==
  ASSUME TcpTypeOK, NEW S \in SUBSET Clients, ServerCloses(S)
  PROVE  /\ csk' \in [Clients -> EndStates] /\ ssk' \in [Clients -> EndStates]
         /\ up' \in [Clients -> Seq(Byte)] /\ UNCHANGED <<down, sent, got>>
         /\ \A c \in Clients \ S : ssk'[c] = ssk[c] /\ csk'[c] = csk[c] /\ up'[c] = up[c]
         /\ \A c \in S :
              /\ ssk'[c] = "closed" /\ up'[c] = <<>>
              /\ csk'[c] # "est" /\ (csk[c] # "est" => csk'[c] = csk[c])
              /\ csk'[c] = "none" => csk[c] = "none"
  BY DEF TcpTypeOK, ServerCloses, ClosedByPeer, EndStates

-----------------------------------------------------------------------------
(* The server's steps.                                                     *)

ServerOnly == UNCHANGED <<program, clientVars>>

\* A step of the server leaves the lines its clients write alone.
LEMMA TodoKept ==
  ASSUME TodoInv, ServerOnly, sent' = sent
  PROVE  TodoInv'
  BY DEF TodoInv, ServerOnly, clientVars, At

LEMMA AcceptStep ==
  ASSUME IInv, Accept, ServerOnly
  PROVE  IInv'
<1> DEFINE c == Head(backlog)
<1>1. /\ c \in Clients /\ Tail(backlog) \in Seq(Clients)
      /\ Range(backlog) = Range(Tail(backlog)) \cup {c}
      /\ IsInjective(Tail(backlog)) /\ c \notin Range(Tail(backlog))
  BY TailRange DEF IInv, TypeOK, TcpTypeOK, BacklogInv, Accept
<1>2. /\ pc[Parent] = "accept" /\ fds[Parent] = {} /\ c # Parent
      /\ UNCHANGED <<csk, ssk, up, down, sent, got, listening, printed>>
      /\ backlog' = Tail(backlog) /\ acceptfd' = c
      /\ fds' = [fds EXCEPT ![Parent] = @ \cup {c}]
      /\ pc' = [pc EXCEPT ![Parent] = IF program \in Iterative THEN "read" ELSE "fork"]
      /\ ssk[c] \in {"est", "fin"} /\ pc[c] = "none"
  BY <1>1, SinkAssumption
  DEF IInv, TableInv, BacklogInv, Holding, Accept, ServerAccepts, ProcGoto
<1> HIDE DEF c
<1> USE SinkAssumption DEF Procs, ServerOnly, clientVars
<1>3. TypeOK'
  BY <1>1, <1>2 DEF IInv, TypeOK, TcpTypeOK, TableInv, ParentStates, ChildStates
<1>4. TableInv'
  BY <1>1, <1>2 DEF IInv, TypeOK, TableInv, Holding, ParentStates, ChildStates
<1>5. BacklogInv'
  BY <1>1, <1>2 DEF IInv, TypeOK, TableInv, BacklogInv, ParentStates, ChildStates
<1>6. /\ \A d \in Clients : pc'[d] = pc[d] /\ (Rejected(d) => Rejected(d)')
      /\ ~Dead
  BY <1>1, <1>2 DEF IInv, TypeOK, TableInv, Rejected, Dead, ParentStates, ChildStates
<1>7. ConnInv'
  BY <1>1, <1>2, <1>6 DEF IInv, TypeOK, TableInv, ConnInv, Drained, ParentStates, ChildStates
<1>8. TodoInv' /\ StreamInv'
  BY <1>2, <1>6, TodoKept, StreamKept DEF IInv
<1> QED
  BY <1>3, <1>4, <1>5, <1>7, <1>8 DEF IInv

\* A process that reads has a connection of its own, which was not rejected.
LEMMA Reading ==
  ASSUME IInv, NEW p \in Procs, pc[p] = "read"
  PROVE  /\ Conn(p) \in Clients /\ ~Rejected(Conn(p)) /\ ~Dead
         /\ p = Parent <=> program \in Iterative
         /\ p = Parent => acceptfd = Conn(p)
         /\ p # Parent => p \in Clients /\ Conn(p) = p
         /\ Sizes(Conn(p)) \subseteq 1 .. Len(up[Conn(p)])
  BY DEF IInv, TypeOK, TableInv, Holding, Conn, Rejected, Dead, Procs, Sizes, MessageReads,
         StreamReads, ReadSizes

LEMMA ReadStep ==
  ASSUME IInv, NEW p \in Procs, Read(p), ServerOnly
  PROVE  IInv'
<1> DEFINE c == Conn(p)
<1>1. /\ pc[p] = "read" /\ c \in Clients /\ ~Rejected(c) /\ ~Dead
      /\ Sizes(c) \subseteq 1 .. Len(up[c])
  BY Reading DEF Read
<1>2. PICK k \in Sizes(c) : Reads(c, k)
  BY DEF Read
<1> DEFINE t == Taken(up[c], k)
           l == Left(up[c], k)
<1>3. /\ up' = [up EXCEPT ![c] = l] /\ printed' = [printed EXCEPT ![c] = @ \o t]
      /\ UNCHANGED <<csk, ssk, down, sent, got, backlog, listening, pc, acceptfd, fds>>
  BY <1>2 DEF Reads, ServerReads, Read
<1>4. /\ up[c] \in Seq(Byte) /\ printed[c] \in Seq(Byte)
  BY <1>1 DEF IInv, TypeOK, TcpTypeOK
<1>5. /\ l \in Seq(Byte) /\ printed[c] \o t \in Seq(Byte)
      /\ (printed[c] \o t) \o l = printed[c] \o up[c]
      /\ up[c] # <<>>
  <2>1. k \in 0 .. Len(up[c]) /\ Len(up[c]) # 0
    BY <1>1, <1>2, <1>4, LenProperties
  <2>2. up[c] # <<>>
    BY <2>1
  <2>3. /\ Left(up[c], k) \in Seq(Byte) /\ printed[c] \o Taken(up[c], k) \in Seq(Byte)
        /\ (printed[c] \o Taken(up[c], k)) \o Left(up[c], k) = printed[c] \o up[c]
    <3> HIDE DEF c
    <3> QED
      BY <1>4, <2>1, TakenLeft
  <2> QED
    BY <2>2, <2>3
<1> HIDE DEF c, t, l
<1>6. TypeOK' /\ TableInv' /\ BacklogInv'
  BY <1>1, <1>3, <1>5
  DEF IInv, TypeOK, TcpTypeOK, TableInv, BacklogInv, Holding, ServerOnly, clientVars
<1>7. /\ \A d \in Clients : Rejected(d)' = Rejected(d) /\ (Drained(d) => d # c /\ Drained(d)')
      /\ Dead' = Dead
  BY <1>1, <1>3, <1>5 DEF Rejected, Dead, Drained, IInv, TypeOK, TcpTypeOK, ServerOnly
<1>8. ConnInv' /\ TodoInv'
  BY <1>3, <1>7, TodoKept DEF IInv, ConnInv
<1>9. StreamInv'
  <2> SUFFICES ASSUME NEW d \in Clients
               PROVE  \E rest \in Seq(Byte) : printed'[d] \o rest = sent'[d]
                        /\ (rest = up'[d] \/ Rejected(d)' \/ Dead')
    BY DEF StreamInv
  <2>1. PICK rest \in Seq(Byte) : printed[d] \o rest = sent[d]
          /\ (rest = up[d] \/ Rejected(d) \/ Dead)
    BY DEF IInv, StreamInv
  <2>2. CASE d = c
    <3>1. rest = up[c]
      BY <1>1, <2>1, <2>2
    <3>2. printed'[c] = printed[c] \o t /\ up'[c] = l
      BY <1>1, <1>3 DEF IInv, TypeOK, TcpTypeOK
    <3> QED
      BY <1>3, <1>5, <2>1, <2>2, <3>1, <3>2, Zenon
  <2>3. CASE d # c
    <3>1. printed'[d] = printed[d] /\ up'[d] = up[d]
      BY <1>3, <2>3 DEF IInv, TypeOK, TcpTypeOK
    <3> QED
      BY <1>3, <1>7, <2>1, <3>1
  <2> QED
    BY <2>2, <2>3
<1> QED
  BY <1>6, <1>8, <1>9 DEF IInv

LEMMA ReadEndStep ==
  ASSUME IInv, NEW p \in Procs, ReadEnd(p), ServerOnly
  PROVE  IInv'
<1> DEFINE c == Conn(p)
<1>1. /\ pc[p] = "read" /\ c \in Clients /\ ~Rejected(c) /\ ~Dead
      /\ p = Parent <=> program \in Iterative
      /\ p = Parent => acceptfd = c
      /\ p # Parent => p \in Clients /\ c = p
  BY Reading DEF ReadEnd
<1>2. /\ NoMore(c) /\ UNCHANGED <<tcpVars, acceptfd, fds, printed>>
      /\ pc' = [pc EXCEPT ![p] = IF p = Parent THEN "close" ELSE "exit"]
  BY DEF ReadEnd, ProcGoto
<1> HIDE DEF c
<1> USE SinkAssumption DEF Procs, ServerOnly, clientVars, tcpVars
<1>3. Drained(c)
  BY <1>1, <1>2 DEF IInv, ConnInv, NoMore, AtEnd, Failing, Drained
<1>4. TypeOK'
  BY <1>1, <1>2 DEF IInv, TypeOK, TcpTypeOK, TableInv, ParentStates, ChildStates
<1>5. TableInv' /\ BacklogInv'
  BY <1>1, <1>2 DEF IInv, TypeOK, TableInv, BacklogInv, Holding, ParentStates, ChildStates
<1>6. /\ \A d \in Clients : (Rejected(d) => Rejected(d)') /\ Drained(d)' = Drained(d)
      /\ Dead' = Dead
  BY <1>1, <1>2 DEF IInv, TypeOK, TableInv, Rejected, Dead, Drained, ParentStates, ChildStates
<1>7. ConnInv'
  BY <1>1, <1>2, <1>3, <1>6 DEF IInv, TypeOK, TableInv, ConnInv, ParentStates, ChildStates
<1>8. TodoInv' /\ StreamInv'
  BY <1>2, <1>6, TodoKept, StreamKept DEF IInv
<1> QED
  BY <1>4, <1>5, <1>7, <1>8 DEF IInv

LEMMA DecodeFailsStep ==
  ASSUME IInv, DecodeFails, ServerOnly
  PROVE  IInv'
<1>1. /\ pc[Parent] = "read" /\ program \in Iterative /\ acceptfd \in Clients
      /\ UNCHANGED <<csk, ssk, down, sent, got, backlog, listening, acceptfd, fds, printed>>
      /\ pc' = [pc EXCEPT ![Parent] = "raise"]
  BY DEF IInv, TableInv, Holding, DecodeFails, ServerReads, ProcGoto, Iterative
<1>2. PICK k \in Sizes(acceptfd) : ServerReads(acceptfd, k)
  BY DEF DecodeFails
<1>3. /\ up[acceptfd] \in Seq(Byte) /\ k \in 0 .. Len(up[acceptfd])
      /\ up' = [up EXCEPT ![acceptfd] = Left(up[acceptfd], k)]
  BY <1>1, <1>2, LenProperties
  DEF IInv, TypeOK, TcpTypeOK, ServerReads, ReadSizes
<1>4. Left(up[acceptfd], k) \in Seq(Byte)
  BY <1>3, TakenLeft, EmptySeq
<1> USE SinkAssumption DEF Procs, ServerOnly, clientVars
<1>5. /\ TypeOK' /\ TableInv' /\ BacklogInv'
  BY <1>1, <1>3, <1>4
  DEF IInv, TypeOK, TcpTypeOK, TableInv, BacklogInv, Holding, ParentStates, ChildStates
<1>6. Dead' /\ \A c \in Clients : pc'[c] = "none"
  BY <1>1 DEF IInv, TableInv, Dead
<1>7. ConnInv'
  BY <1>1, <1>6 DEF IInv, TableInv, ConnInv, Dead
<1>8. TodoInv' /\ StreamInv'
  BY <1>1, <1>6, TodoKept, StreamKept DEF IInv
<1> QED
  BY <1>5, <1>7, <1>8 DEF IInv

LEMMA DiesStep ==
  ASSUME IInv, Dies, ServerOnly
  PROVE  IInv'
<1> DEFINE S == {acceptfd} \cup Range(backlog)
<1>1. /\ pc[Parent] = "raise" /\ program \in Iterative /\ acceptfd \in Clients
      /\ fds[Parent] = {acceptfd} /\ ServerCloses(S)
      /\ backlog' = <<>> /\ listening' = FALSE
      /\ fds' = [fds EXCEPT ![Parent] = {}] /\ pc' = [pc EXCEPT ![Parent] = "dead"]
      /\ UNCHANGED <<acceptfd, printed>>
  BY DEF IInv, TableInv, Holding, Dies, ProcGoto
<1>2. S \in SUBSET Clients /\ \A c \in S : csk[c] # "none"
  BY <1>1 DEF IInv, BacklogInv, ConnInv
<1> HIDE DEF S
<1>3. /\ csk' \in [Clients -> EndStates] /\ ssk' \in [Clients -> EndStates]
      /\ up' \in [Clients -> Seq(Byte)] /\ UNCHANGED <<down, sent, got>>
      /\ \A c \in Clients \ S : ssk'[c] = ssk[c] /\ csk'[c] = csk[c] /\ up'[c] = up[c]
      /\ \A c \in S : /\ ssk'[c] = "closed" /\ csk'[c] # "est"
                      /\ csk'[c] = "none" => csk[c] = "none"
  BY <1>1, <1>2, Closing DEF IInv, TypeOK
<1> USE SinkAssumption DEF Procs, ServerOnly, clientVars
<1>4. <<>> \in Seq(Clients) /\ Range(<<>>) = {} /\ IsInjective(<<>>)
  BY DEF Range, IsInjective
<1>5. TypeOK'
  BY <1>1, <1>3, <1>4 DEF IInv, TypeOK, TcpTypeOK, TableInv, ParentStates, ChildStates
<1>6. TableInv' /\ BacklogInv'
  BY <1>1, <1>4 DEF IInv, TypeOK, TableInv, BacklogInv, Holding, ParentStates, ChildStates
<1>7. Dead' /\ \A c \in Clients : pc'[c] = "none"
  BY <1>1 DEF IInv, TableInv, Dead
<1>8. ConnInv'
  <2> SUFFICES ASSUME NEW c \in Clients
               PROVE  /\ ssk'[c] \in {"none", "est", "fin", "closed"}
                      /\ csk'[c] = "est" <=> ssk'[c] = "est"
                      /\ csk'[c] = "none" => ssk'[c] = "none"
    <3>1. \A c \in Clients : c \notin fds'[Parent]
      BY <1>1 DEF IInv, TypeOK
    <3>2. pc'[Parent] = "dead" /\ \A c \in Clients : down'[c] = <<>>
      BY <1>1, <1>3 DEF IInv, TableInv, ConnInv
    <3> QED
      BY <1>7, <3>1, <3>2 DEF ConnInv
  <2>1. CASE c \in S
    BY <1>2, <1>3, <2>1
  <2>2. CASE c \notin S
    BY <1>3, <2>2 DEF IInv, ConnInv
  <2> QED
    BY <2>1, <2>2
<1>9. TodoInv' /\ StreamInv'
  BY <1>1, <1>3, <1>7, TodoKept, StreamKept DEF IInv
<1> QED
  BY <1>5, <1>6, <1>8, <1>9 DEF IInv

\* The connections of the backlog go with the listening socket: those of an
\* iterative server with its process, those of a forking one rejected.
LEMMA AcceptFailsStep ==
  ASSUME IInv, AcceptFails, ServerOnly
  PROVE  IInv'
<1> DEFINE S == Range(backlog)
<1>1. /\ pc[Parent] = "accept" /\ fds[Parent] = {} /\ ServerCloses(S)
      /\ backlog' = <<>> /\ listening' = FALSE
      /\ pc' = [pc EXCEPT ![Parent] = "dead"]
      /\ UNCHANGED <<acceptfd, fds, printed>>
  BY DEF IInv, TableInv, Holding, AcceptFails, ProcGoto
<1>2. S \in SUBSET Clients /\ \A c \in S : csk[c] # "none" /\ pc[c] = "none"
  BY <1>1 DEF IInv, BacklogInv, ConnInv
<1> HIDE DEF S
<1>3. /\ csk' \in [Clients -> EndStates] /\ ssk' \in [Clients -> EndStates]
      /\ up' \in [Clients -> Seq(Byte)] /\ UNCHANGED <<down, sent, got>>
      /\ \A c \in Clients \ S : ssk'[c] = ssk[c] /\ csk'[c] = csk[c] /\ up'[c] = up[c]
      /\ \A c \in S : /\ ssk'[c] = "closed" /\ csk'[c] # "est"
                      /\ csk'[c] = "none" => csk[c] = "none"
  BY <1>1, <1>2, Closing DEF IInv, TypeOK
<1> USE SinkAssumption DEF Procs, ServerOnly, clientVars
<1>4. <<>> \in Seq(Clients) /\ Range(<<>>) = {} /\ IsInjective(<<>>)
  BY DEF Range, IsInjective
<1>5. TypeOK'
  BY <1>1, <1>3, <1>4 DEF IInv, TypeOK, TcpTypeOK, TableInv, ParentStates, ChildStates
<1>6. TableInv' /\ BacklogInv'
  BY <1>1, <1>4 DEF IInv, TypeOK, TableInv, BacklogInv, Holding, ParentStates, ChildStates
<1>7. pc'[Parent] = "dead" /\ \A c \in Clients : pc'[c] = pc[c]
  BY <1>1 DEF IInv, TableInv
<1>8. /\ \A c \in S : Rejected(c)' \/ Dead'
      /\ \A c \in Clients : Rejected(c) => Rejected(c)'
      /\ ~Dead
  BY <1>1, <1>2, <1>3, <1>7 DEF Rejected, Dead
<1>9. \A c \in S : pc'[c] = "none"
  BY <1>2, <1>7
<1>10. ConnInv'
  <2> SUFFICES ASSUME NEW c \in Clients
               PROVE  /\ ssk'[c] \in {"none", "est", "fin", "closed"} /\ down'[c] = <<>>
                      /\ csk'[c] = "est" <=> ssk'[c] = "est"
                      /\ csk'[c] = "none" =>
                           ssk'[c] = "none" /\ pc'[c] = "none" /\ c \notin fds'[Parent]
                      /\ csk'[c] \in {"fin", "finw"} => Rejected(c)' \/ Dead'
                      /\ pc'[c] \in {"exit", "gone"} => Drained(c)'
                      /\ pc'[Parent] = "close" /\ acceptfd' = c => Drained(c)'
    BY DEF ConnInv
  <2>1. CASE c \in S
    BY <1>1, <1>2, <1>3, <1>7, <1>8, <1>9, <2>1 DEF IInv, ConnInv
  <2>2. CASE c \notin S
    BY <1>1, <1>3, <1>7, <1>8, <2>2 DEF IInv, ConnInv, Drained
  <2> QED
    BY <2>1, <2>2
<1>11. TodoInv' /\ StreamInv'
  BY <1>1, <1>3, <1>8, TodoKept, StreamKept DEF IInv
<1> QED
  BY <1>5, <1>6, <1>10, <1>11 DEF IInv

LEMMA ForkStep ==
  ASSUME IInv, Fork, ServerOnly
  PROVE  IInv'
<1> DEFINE a == acceptfd
<1>1. /\ pc[Parent] = "fork" /\ a \in Clients /\ fds[Parent] = {a}
      /\ program \notin Iterative /\ pc[a] = "none" /\ ssk[a] \in {"est", "fin"}
      /\ pc' = [pc EXCEPT ![Parent] = "handoff", ![a] = "read"]
      /\ fds' = [fds EXCEPT ![a] = {a}] /\ UNCHANGED <<tcpVars, acceptfd, printed>>
  BY DEF IInv, TableInv, Holding, Fork
<1> HIDE DEF a
<1> USE SinkAssumption DEF Procs, ServerOnly, clientVars, tcpVars
<1>2. TypeOK'
  BY <1>1 DEF IInv, TypeOK, TcpTypeOK, TableInv, ParentStates, ChildStates
<1>3. TableInv'
  <2>1. /\ pc'[Parent] = "handoff" /\ pc'[a] = "read" /\ a # Parent
        /\ \A c \in Clients \ {a} : pc'[c] = pc[c] /\ fds'[c] = fds[c]
        /\ fds'[a] = {a} /\ fds'[Parent] = {a}
        /\ pc' \in [Procs -> ParentStates \cup ChildStates]
    BY <1>1 DEF IInv, TypeOK, TableInv, ParentStates, ChildStates
  <2>2. acceptfd' = a
    BY <1>1 DEF a
  <2> QED
    BY <1>1, <2>1, <2>2 DEF IInv, TableInv, Holding
<1>4. BacklogInv'
  BY <1>1 DEF IInv, TypeOK, TableInv, BacklogInv, ParentStates, ChildStates
<1>5. /\ \A c \in Clients : (Rejected(c) => Rejected(c)') /\ Drained(c)' = Drained(c)
      /\ ~Dead
  BY <1>1 DEF IInv, TypeOK, TableInv, Rejected, Dead, Drained, ParentStates, ChildStates
<1>6. ConnInv'
  BY <1>1, <1>5 DEF IInv, TypeOK, TableInv, ConnInv, ParentStates, ChildStates
<1>7. TodoInv' /\ StreamInv'
  BY <1>1, <1>5, TodoKept, StreamKept DEF IInv
<1> QED
  BY <1>2, <1>3, <1>4, <1>6, <1>7 DEF IInv

LEMMA ForkFailsStep ==
  ASSUME IInv, ForkFails, ServerOnly
  PROVE  IInv'
<1>1. /\ pc[Parent] = "fork" /\ program \notin Iterative
      /\ pc' = [pc EXCEPT ![Parent] = "handoff"]
      /\ UNCHANGED <<tcpVars, acceptfd, fds, printed>>
  BY DEF IInv, TableInv, ForkFails, ProcGoto
<1> USE SinkAssumption DEF Procs, ServerOnly, clientVars, tcpVars
<1>2. TypeOK'
  BY <1>1 DEF IInv, TypeOK, TcpTypeOK, TableInv, ParentStates, ChildStates
<1>3. TableInv' /\ BacklogInv'
  BY <1>1 DEF IInv, TypeOK, TableInv, BacklogInv, Holding, ParentStates, ChildStates
<1>4. /\ \A c \in Clients : (Rejected(c) => Rejected(c)') /\ Drained(c)' = Drained(c)
      /\ ~Dead
  BY <1>1 DEF IInv, TypeOK, TableInv, Rejected, Dead, Drained, ParentStates, ChildStates
<1>5. ConnInv'
  BY <1>1, <1>4 DEF IInv, TypeOK, TableInv, ConnInv, ParentStates, ChildStates
<1>6. TodoInv' /\ StreamInv'
  BY <1>1, <1>4, TodoKept, StreamKept DEF IInv
<1> QED
  BY <1>2, <1>3, <1>5, <1>6 DEF IInv

\* The connections that close with the descriptors of process p on S: those
\* that no other process has.
LastOf(p, S) == {c \in S : \A q \in Procs \ {p} : c \notin fds[q]}

\* A process closes a connection of which everything was read.
LEMMA ClosesDrained ==
  ASSUME IInv, NEW p \in Procs, NEW c \in Clients, Closes(p, {c}), csk[c] # "none",
         LastOf(p, {c}) # {} => Drained(c) \/ Rejected(c)
  PROVE  /\ csk' \in [Clients -> EndStates] /\ ssk' \in [Clients -> EndStates]
         /\ up' \in [Clients -> Seq(Byte)]
         /\ fds' = [fds EXCEPT ![p] = @ \ {c}]
         /\ UNCHANGED <<down, sent, got, backlog, listening>>
         /\ \A d \in Clients :
              /\ ssk'[d] = ssk[d] \/ (d = c /\ ssk'[d] = "closed")
              /\ csk'[d] = csk[d] \/ (d = c /\ ssk'[d] = "closed" /\ Rejected(d))
              /\ csk'[d] = "est" <=> ssk'[d] = "est"
              /\ csk'[d] = "none" => csk[d] = "none" /\ d # c
              /\ Drained(d) => Drained(d)'
              /\ up'[d] = up[d] \/ (d = c /\ ssk'[d] = "closed" /\ Rejected(d))
         /\ c \in LastOf(p, {c}) => ssk'[c] = "closed"
<1> DEFINE S == LastOf(p, {c})
<1>1. /\ S \in SUBSET Clients /\ S \subseteq {c} /\ ServerCloses(S)
      /\ fds' = [fds EXCEPT ![p] = @ \ {c}] /\ UNCHANGED <<backlog, listening>>
  BY DEF Closes, LastOf
<1>2. \A d \in S : d = c /\ (Drained(d) \/ Rejected(d))
  BY <1>1
<1> HIDE DEF S
<1>3. /\ csk' \in [Clients -> EndStates] /\ ssk' \in [Clients -> EndStates]
      /\ up' \in [Clients -> Seq(Byte)] /\ UNCHANGED <<down, sent, got>>
      /\ \A d \in Clients \ S : ssk'[d] = ssk[d] /\ csk'[d] = csk[d] /\ up'[d] = up[d]
      /\ \A d \in S :
           /\ ssk'[d] = "closed" /\ up'[d] = <<>>
           /\ csk'[d] # "est" /\ (csk[d] # "est" => csk'[d] = csk[d])
           /\ csk'[d] = "none" => csk[d] = "none"
  BY <1>1, Closing DEF IInv, TypeOK
<1>4. ASSUME NEW d \in Clients
      PROVE  /\ ssk'[d] = ssk[d] \/ (d = c /\ ssk'[d] = "closed")
             /\ csk'[d] = csk[d] \/ (d = c /\ ssk'[d] = "closed" /\ Rejected(d))
             /\ csk'[d] = "est" <=> ssk'[d] = "est"
             /\ csk'[d] = "none" => csk[d] = "none" /\ d # c
             /\ Drained(d) => Drained(d)'
             /\ up'[d] = up[d] \/ (d = c /\ ssk'[d] = "closed" /\ Rejected(d))
  <2>1. CASE d \in S
    <3>1. /\ ssk'[d] = "closed" /\ d = c /\ up'[d] = <<>> /\ csk'[d] # "est"
          /\ Drained(d)'
      BY <1>2, <1>3, <2>1 DEF Drained
    <3>2. ~Rejected(d) => up'[d] = up[d] /\ csk'[d] = csk[d]
      BY <1>2, <1>3, <2>1 DEF IInv, ConnInv, Drained
    <3>3. csk'[d] # "none"
      BY <1>3, <2>1, <3>1
    <3> QED
      BY <3>1, <3>2, <3>3
  <2>2. CASE d \notin S
    <3>1. /\ ssk'[d] = ssk[d] /\ csk'[d] = csk[d] /\ up'[d] = up[d]
          /\ csk[d] = "est" <=> ssk[d] = "est"
      BY <1>3, <2>2 DEF IInv, ConnInv
    <3> QED
      BY <3>1 DEF Drained
  <2> QED
    BY <2>1, <2>2
<1>5. c \in LastOf(p, {c}) => ssk'[c] = "closed"
  BY <1>3 DEF S
<1> QED
  BY <1>1, <1>3, <1>4, <1>5

LEMMA CloseStep ==
  ASSUME IInv, Close, ServerOnly
  PROVE  IInv'
<1> DEFINE a == acceptfd
<1>1. /\ pc[Parent] = "close" /\ a \in Clients /\ fds[Parent] = {a}
      /\ program \in Iterative /\ Drained(a) /\ csk[a] # "none"
      /\ Closes(Parent, {a}) /\ pc' = [pc EXCEPT ![Parent] = "accept"]
      /\ UNCHANGED <<acceptfd, printed>>
  BY DEF IInv, TableInv, ConnInv, Holding, Close, ProcGoto
<1>2. \A c \in Clients : ~Rejected(c)
  BY <1>1 DEF Rejected
<1>3. /\ csk' \in [Clients -> EndStates] /\ ssk' \in [Clients -> EndStates]
      /\ up' \in [Clients -> Seq(Byte)]
      /\ fds' = [fds EXCEPT ![Parent] = @ \ {a}]
      /\ UNCHANGED <<down, sent, got, backlog, listening>>
      /\ \A c \in Clients :
           /\ ssk'[c] = ssk[c] \/ (c = a /\ ssk'[c] = "closed")
           /\ csk'[c] = csk[c] /\ up'[c] = up[c]
           /\ csk'[c] = "est" <=> ssk'[c] = "est"
           /\ csk'[c] = "none" => csk[c] = "none" /\ c # a
           /\ Drained(c) => Drained(c)'
  BY <1>1, <1>2, ClosesDrained DEF Procs
<1> HIDE DEF a
<1> USE SinkAssumption DEF Procs, ServerOnly, clientVars
<1>4. TypeOK'
  BY <1>1, <1>3 DEF IInv, TypeOK, TcpTypeOK, TableInv, ParentStates, ChildStates
<1>5. TableInv' /\ BacklogInv'
  BY <1>1, <1>3 DEF IInv, TypeOK, TableInv, BacklogInv, Holding, ParentStates, ChildStates
<1>6. ConnInv'
  <2>1. ~Dead /\ fds'[Parent] = {} /\ pc'[Parent] = "accept"
        /\ \A c \in Clients : pc'[c] = pc[c]
    BY <1>1, <1>3 DEF IInv, TypeOK, TableInv, Dead
  <2> QED
    BY <1>2, <1>3, <2>1 DEF IInv, ConnInv
<1>7. TodoInv' /\ StreamInv'
  BY <1>1, <1>2, <1>3, TodoKept, StreamKept DEF IInv, Dead
<1> QED
  BY <1>4, <1>5, <1>6, <1>7 DEF IInv

LEMMA ChildExitsStep ==
  ASSUME IInv, NEW a \in Clients, ChildExits(a), ServerOnly
  PROVE  IInv'
<1>1. /\ pc[a] = "exit" /\ fds[a] = {a} /\ a # Parent
      /\ program \notin Iterative /\ Drained(a) /\ csk[a] # "none" /\ ~Rejected(a)
      /\ Closes(a, {a}) /\ pc' = [pc EXCEPT ![a] = "gone"]
      /\ UNCHANGED <<acceptfd, printed>> /\ ~Dead
  BY SinkAssumption
  DEF IInv, TableInv, ConnInv, ChildExits, ProcGoto, Rejected, Dead
<1>2. /\ csk' \in [Clients -> EndStates] /\ ssk' \in [Clients -> EndStates]
      /\ up' \in [Clients -> Seq(Byte)]
      /\ fds' = [fds EXCEPT ![a] = @ \ {a}]
      /\ UNCHANGED <<down, sent, got, backlog, listening>>
      /\ \A c \in Clients :
           /\ ssk'[c] = ssk[c] \/ (c = a /\ ssk'[c] = "closed")
           /\ csk'[c] = csk[c] /\ up'[c] = up[c]
           /\ csk'[c] = "est" <=> ssk'[c] = "est"
           /\ csk'[c] = "none" => csk[c] = "none" /\ c # a
           /\ Drained(c) => Drained(c)'
  BY <1>1, ClosesDrained DEF Procs
<1> USE SinkAssumption DEF Procs, ServerOnly, clientVars
<1>3. TypeOK'
  BY <1>1, <1>2 DEF IInv, TypeOK, TcpTypeOK, TableInv, ParentStates, ChildStates
<1>4. TableInv' /\ BacklogInv'
  BY <1>1, <1>2 DEF IInv, TypeOK, TableInv, BacklogInv, Holding, ParentStates, ChildStates
<1>5. \A c \in Clients : Rejected(c) => Rejected(c)'
  BY <1>1, <1>2 DEF IInv, TypeOK, TableInv, Rejected, ParentStates, ChildStates
<1>6. ConnInv'
  <2>1. fds'[Parent] = fds[Parent] /\ pc'[Parent] = pc[Parent] /\ pc'[a] = "gone"
        /\ \A c \in Clients \ {a} : pc'[c] = pc[c]
    BY <1>1, <1>2 DEF IInv, TypeOK, TableInv
  <2> QED
    BY <1>1, <1>2, <1>5, <2>1 DEF IInv, ConnInv
<1>7. TodoInv' /\ StreamInv'
  BY <1>1, <1>2, <1>5, TodoKept, StreamKept DEF IInv
<1> QED
  BY <1>3, <1>4, <1>6, <1>7 DEF IInv

LEMMA HandOffStep ==
  ASSUME IInv, HandOff, ServerOnly
  PROVE  IInv'
<1> DEFINE a == acceptfd
<1>1. /\ pc[Parent] = "handoff" /\ a \in Clients /\ fds[Parent] = {a} /\ a # Parent
      /\ program \notin Iterative /\ csk[a] # "none" /\ ~Dead
      /\ Closes(Parent, {a}) /\ pc' = [pc EXCEPT ![Parent] = "accept"]
      /\ UNCHANGED <<acceptfd, printed>>
  BY SinkAssumption DEF IInv, TableInv, ConnInv, Holding, HandOff, ProcGoto, Dead
<1>2. \A c \in Clients \ {a} : ~Rejected(c) \/ (pc[c] = "none" /\ ssk[c] = "closed")
  BY DEF Rejected
<1>3. Rejected(a) <=> pc[a] = "none"
  BY <1>1 DEF Rejected
<1>4. /\ LastOf(Parent, {a}) # {} => Drained(a) \/ Rejected(a)
      /\ Rejected(a) => a \in LastOf(Parent, {a})
  BY <1>1, <1>3, SinkAssumption DEF IInv, TypeOK, TableInv, ConnInv, LastOf, Procs
<1>5. /\ csk' \in [Clients -> EndStates] /\ ssk' \in [Clients -> EndStates]
      /\ up' \in [Clients -> Seq(Byte)]
      /\ fds' = [fds EXCEPT ![Parent] = @ \ {a}]
      /\ UNCHANGED <<down, sent, got, backlog, listening>>
      /\ \A c \in Clients :
           /\ ssk'[c] = ssk[c] \/ (c = a /\ ssk'[c] = "closed")
           /\ csk'[c] = csk[c] \/ (c = a /\ ssk'[c] = "closed" /\ Rejected(c))
           /\ csk'[c] = "est" <=> ssk'[c] = "est"
           /\ csk'[c] = "none" => csk[c] = "none" /\ c # a
           /\ Drained(c) => Drained(c)'
           /\ up'[c] = up[c] \/ (c = a /\ ssk'[c] = "closed" /\ Rejected(c))
      /\ a \in LastOf(Parent, {a}) => ssk'[a] = "closed"
  BY <1>1, <1>4, ClosesDrained DEF Procs
<1> HIDE DEF a
<1> USE SinkAssumption DEF Procs, ServerOnly, clientVars
<1>6. TypeOK'
  BY <1>1, <1>5 DEF IInv, TypeOK, TcpTypeOK, TableInv, ParentStates, ChildStates
<1>7. TableInv' /\ BacklogInv'
  BY <1>1, <1>5 DEF IInv, TypeOK, TableInv, BacklogInv, Holding, ParentStates, ChildStates
<1>8. \A c \in Clients : pc'[c] = pc[c]
  BY <1>1 DEF IInv, TableInv
<1>9. \A c \in Clients : Rejected(c) => Rejected(c)'
  <2>1. \A c \in Clients : Rejected(c) => pc[c] = "none" /\ ssk'[c] = "closed"
    BY <1>1, <1>2, <1>3, <1>4, <1>5
  <2> QED
    BY <1>1, <1>8, <2>1 DEF Rejected
<1>10. ConnInv'
  <2>1. fds'[Parent] = {} /\ pc'[Parent] = "accept"
    BY <1>1, <1>5 DEF IInv, TypeOK, TableInv
  <2> QED
    BY <1>1, <1>5, <1>8, <1>9, <2>1 DEF IInv, ConnInv
<1>11. TodoInv' /\ StreamInv'
  BY <1>1, <1>5, <1>9, TodoKept, StreamKept DEF IInv
<1> QED
  BY <1>6, <1>7, <1>10, <1>11 DEF IInv

-----------------------------------------------------------------------------
(* The clients' steps, the resets, and the next-state relation.            *)

ClientsOnly == UNCHANGED <<program, serverVars>>

LEMMA ConnectStep ==
  ASSUME IInv, NEW c \in Clients, Connect(c), ClientsOnly
  PROVE  IInv'
<1> USE DEF ClientsOnly, serverVars
<1>1. /\ csk[c] = "none" /\ cpc' = [cpc EXCEPT ![c] = "input"]
      /\ csk' = [csk EXCEPT ![c] = "est"] /\ ssk' = [ssk EXCEPT ![c] = "est"]
      /\ backlog' = Append(backlog, c)
      /\ UNCHANGED <<up, down, sent, got, listening, todo, ends>>
  BY DEF Connect, ClientConnects, Goto
<1>2. /\ ssk[c] = "none" /\ pc[c] = "none" /\ c \notin fds[Parent] /\ c \notin Range(backlog)
      /\ Holding => acceptfd # c
  BY <1>1 DEF IInv, ConnInv, BacklogInv, TableInv
<1>3. /\ backlog' \in Seq(Clients) /\ IsInjective(backlog')
      /\ Range(backlog') = Range(backlog) \cup {c}
  BY <1>1, <1>2, AppendRange DEF IInv, TypeOK, TcpTypeOK, BacklogInv
<1>4. TypeOK'
  BY <1>1, <1>3 DEF IInv, TypeOK, TcpTypeOK, EndStates
<1>5. TableInv'
  BY <1>1, <1>2 DEF IInv, TypeOK, TcpTypeOK, TableInv, Holding
<1>6. BacklogInv'
  BY <1>1, <1>2, <1>3 DEF IInv, TypeOK, TcpTypeOK, BacklogInv
<1>7. /\ \A d \in Clients : (Rejected(d) => Rejected(d)') /\ (Drained(d) => d # c /\ Drained(d)')
      /\ Dead' = Dead
  BY <1>1, <1>2 DEF IInv, TypeOK, TcpTypeOK, Rejected, Dead, Drained, Holding
<1>8. ConnInv'
  <2>1. /\ csk'[c] = "est" /\ ssk'[c] = "est"
        /\ \A d \in Clients \ {c} : csk'[d] = csk[d] /\ ssk'[d] = ssk[d]
    BY <1>1 DEF IInv, TypeOK, TcpTypeOK
  <2> QED
    BY <1>1, <1>7, <2>1 DEF IInv, ConnInv
<1>9. TodoInv'
  BY <1>1 DEF IInv, TypeOK, TodoInv, At
<1>10. StreamInv'
  BY <1>1, <1>7, StreamKept DEF IInv
<1> QED
  BY <1>4, <1>5, <1>6, <1>8, <1>9, <1>10 DEF IInv

\* A step of a client that makes no system call.
LEMMA InputStep ==
  ASSUME IInv, NEW c \in Clients,
         ConnectRefused(c) \/ Input(c) \/ PyEndOfInput(c), ClientsOnly
  PROVE  IInv'
<1> USE DEF ClientsOnly, serverVars
<1>1. UNCHANGED <<tcpVars, ends>>
  BY DEF ConnectRefused, Input, PyEndOfInput
<1> USE DEF tcpVars
<1>2. TypeOK' /\ TodoInv'
  <2>1. CASE ConnectRefused(c) \/ PyEndOfInput(c)
    BY <1>1, <2>1
    DEF IInv, TypeOK, TcpTypeOK, TodoInv, ConnectRefused, PyEndOfInput, Goto, At
  <2>2. CASE Input(c)
    <3>1. PICK k \in 1 .. LineSize :
            Len(sent[c]) + k <= MaxBytes /\ todo' = [todo EXCEPT ![c] = k]
      BY <2>2 DEF Input
    <3>2. cpc' = [cpc EXCEPT ![c] = "write"]
      BY <2>2 DEF Input, Goto
    <3>3. k \in 0 .. LineSize /\ k > 0
      BY TcpAssumption
    <3>4. TypeOK'
      BY <1>1, <3>1, <3>2, <3>3 DEF IInv, TypeOK, TcpTypeOK
    <3>5. TodoInv'
      BY <1>1, <3>1, <3>2, <3>3 DEF IInv, TypeOK, TodoInv, At
    <3> QED
      BY <3>4, <3>5
  <2> QED
    BY <2>1, <2>2
<1>3. TableInv' /\ BacklogInv' /\ ConnInv'
  BY <1>1 DEF IInv, TableInv, BacklogInv, ConnInv, Holding, Drained, Rejected, Dead
<1>4. StreamInv'
  BY <1>1, StreamKept DEF IInv, Rejected, Dead
<1> QED
  BY <1>2, <1>3, <1>4 DEF IInv

LEMMA WriteStep ==
  ASSUME IInv, NEW c \in Clients, Write(c), ClientsOnly
  PROVE  IInv'
<1> DEFINE data == [j \in 1 .. todo[c] |-> <<c, Len(sent[c]) + j>>]
           n == Len(sent[c])
<1> USE DEF ClientsOnly, serverVars
<1>1. /\ cpc[c] = "write" /\ CanWrite(csk[c], up[c], todo[c])
      /\ csk' = [csk EXCEPT ![c] = AfterWrite(csk[c])]
      /\ up' = [up EXCEPT ![c] = Delivered(csk[c], up[c], data)]
      /\ sent' = [sent EXCEPT ![c] = @ \o data]
      /\ ends' = [ends EXCEPT ![c] = @ \cup {n + todo[c]}]
      /\ cpc' = [cpc EXCEPT ![c] = "input"]
      /\ UNCHANGED <<ssk, down, got, backlog, listening, todo>>
  BY DEF Write, ClientWrites, At, Goto
<1>2. /\ todo[c] \in Nat /\ todo[c] > 0 /\ n + todo[c] <= MaxBytes /\ n \in Nat
      /\ up[c] \in Seq(Byte) /\ sent[c] \in Seq(Byte) /\ printed[c] \in Seq(Byte)
  BY <1>1, TcpAssumption, LenProperties DEF IInv, TypeOK, TcpTypeOK, TodoInv, At
<1>3. data \in Seq(Byte)
  BY <1>2, LineType
<1> HIDE DEF data
<1>4. n + todo[c] \in 1 .. MaxBytes
  BY <1>2, TcpAssumption
<1> HIDE DEF n
<1>5. /\ up[c] \o data \in Seq(Byte) /\ sent[c] \o data \in Seq(Byte)
  BY <1>2, <1>3, ConcatProperties
<1>6. \A rest \in Seq(Byte) :
         /\ rest \o data \in Seq(Byte)
         /\ printed[c] \o (rest \o data) = (printed[c] \o rest) \o data
  <2> DEFINE p == printed[c]
  <2>1. p \in Seq(Byte)
    BY <1>2
  <2> HIDE DEF p
  <2>2. \A rest \in Seq(Byte) :
          rest \o data \in Seq(Byte) /\ p \o (rest \o data) = (p \o rest) \o data
    BY <1>3, <2>1, Regroup
  <2> QED
    BY <2>2 DEF p
<1>7. \/ csk[c] = "est" /\ csk'[c] = "est" /\ up'[c] = up[c] \o data
      \/ csk[c] \in {"fin", "finw"} /\ csk'[c] = "finw" /\ up'[c] = up[c]
  BY <1>1 DEF CanWrite, AfterWrite, Delivered, IInv, TypeOK, TcpTypeOK
<1>8. /\ sent'[c] = sent[c] \o data
      /\ \A d \in Clients \ {c} : csk'[d] = csk[d] /\ up'[d] = up[d] /\ sent'[d] = sent[d]
      /\ \A d \in Clients \ {c} : cpc'[d] = cpc[d]
      /\ cpc'[c] = "input"
  BY <1>1 DEF IInv, TypeOK, TcpTypeOK
<1>9. TypeOK'
  <2>1. AfterWrite(csk[c]) \in EndStates /\ Delivered(csk[c], up[c], data) \in Seq(Byte)
    BY <1>2, <1>5 DEF AfterWrite, Delivered, EndStates
  <2> QED
    BY <1>1, <1>4, <1>5, <2>1 DEF IInv, TypeOK, TcpTypeOK
<1>10. TableInv' /\ BacklogInv'
  BY <1>1 DEF IInv, TableInv, BacklogInv, Holding
<1>11. /\ \A d \in Clients : Rejected(d)' = Rejected(d) /\ (Drained(d) => Drained(d)')
       /\ Dead' = Dead
  BY <1>1, <1>7, <1>8 DEF Rejected, Drained, Dead, IInv, ConnInv
<1>12. ConnInv'
  BY <1>1, <1>7, <1>8, <1>11 DEF IInv, ConnInv
<1>13. TodoInv'
  BY <1>1, <1>8 DEF IInv, TodoInv, At
<1>14. StreamInv'
  <2> SUFFICES ASSUME NEW d \in Clients
               PROVE  \E rest \in Seq(Byte) : printed'[d] \o rest = sent'[d]
                        /\ (rest = up'[d] \/ Rejected(d)' \/ Dead')
    BY DEF StreamInv
  <2>1. PICK rest \in Seq(Byte) : printed[d] \o rest = sent[d]
          /\ (rest = up[d] \/ Rejected(d) \/ Dead)
    BY DEF IInv, StreamInv
  <2>2. CASE d = c
    <3>1. /\ rest \o data \in Seq(Byte)
          /\ printed[c] \o (rest \o data) = (printed[c] \o rest) \o data
      BY <1>6, <2>1
    <3>2. printed'[c] \o (rest \o data) = sent'[c]
      BY <1>8, <2>1, <2>2, <3>1
    <3>3. rest = up[c] => rest \o data = up'[c] \/ Rejected(c) \/ Dead
      BY <1>7 DEF IInv, ConnInv
    <3> QED
      BY <1>11, <2>1, <2>2, <3>1, <3>2, <3>3
  <2>3. CASE d # c
    BY <1>8, <1>11, <2>1, <2>3
  <2> QED
    BY <2>2, <2>3
<1> QED
  BY <1>9, <1>10, <1>12, <1>13, <1>14 DEF IInv

LEMMA LeavesStep ==
  ASSUME IInv, NEW c \in Clients, Leaves(c), ClientsOnly
  PROVE  IInv'
<1> USE DEF ClientsOnly, serverVars
<1>1. /\ csk' = [csk EXCEPT ![c] = "closed"]
      /\ ssk' = [ssk EXCEPT ![c] = IF @ = "est" THEN "fin" ELSE @]
      /\ down' = [down EXCEPT ![c] = <<>>] /\ cpc' = [cpc EXCEPT ![c] = "done"]
      /\ UNCHANGED <<up, sent, got, backlog, listening, todo, ends>>
  <2>1. down[c] = <<>>
    BY DEF IInv, ConnInv
  <2>2. \A s, late : ClosedByPeer(s, down[c], late) = IF s = "est" THEN "fin" ELSE s
    BY <2>1 DEF ClosedByPeer
  <2> QED
    BY <2>2 DEF Leaves, ClientCloses, Goto
<1>2. TypeOK'
  BY <1>1 DEF IInv, TypeOK, TcpTypeOK, EndStates
<1>3. /\ csk'[c] = "closed" /\ ssk'[c] = IF ssk[c] = "est" THEN "fin" ELSE ssk[c]
      /\ \A d \in Clients \ {c} : csk'[d] = csk[d] /\ ssk'[d] = ssk[d]
      /\ \A d \in Clients : down'[d] = <<>>
      /\ \A d \in Clients \ {c} : cpc'[d] = cpc[d]
      /\ cpc'[c] = "done"
  BY <1>1 DEF IInv, TypeOK, TcpTypeOK, ConnInv
<1>4. \A d \in Clients : ssk'[d] = ssk[d] \/ (ssk[d] = "est" /\ ssk'[d] = "fin")
  BY <1>3
<1>5. TableInv' /\ BacklogInv'
  <2>1. pc[Parent] = "fork" => acceptfd \in Clients
    BY DEF IInv, TableInv, Holding
  <2> QED
    BY <1>1, <1>4, <2>1 DEF IInv, TableInv, BacklogInv, Holding
<1>6. /\ \A d \in Clients : (Rejected(d) => Rejected(d)') /\ (Drained(d) => Drained(d)')
      /\ Dead' = Dead
  BY <1>1, <1>4 DEF Rejected, Drained, Dead
<1>7. ConnInv'
  BY <1>1, <1>3, <1>4, <1>6 DEF IInv, ConnInv
<1>8. TodoInv'
  BY <1>1, <1>3 DEF IInv, TodoInv, At
<1>9. StreamInv'
  BY <1>1, <1>6, StreamKept DEF IInv
<1> QED
  BY <1>2, <1>5, <1>7, <1>8, <1>9 DEF IInv

\* Only a client that wrote after the server's end gets a reset.
LEMMA ResetStep ==
  ASSUME IInv, NEW c \in Clients, ResetArrives(c), ServerOnly, ClientsOnly
  PROVE  IInv'
<1> USE DEF ServerOnly, ClientsOnly, clientVars, serverVars
<1>1. /\ csk[c] = "finw" /\ csk' = [csk EXCEPT ![c] = "dead"]
      /\ UNCHANGED <<ssk, up, down, sent, got, backlog, listening>>
  BY DEF IInv, ConnInv, ResetArrives, ServerResetArrives, ClientResetArrives
<1>2. /\ csk'[c] = "dead" /\ csk' \in [Clients -> EndStates]
      /\ \A d \in Clients \ {c} : csk'[d] = csk[d]
  BY <1>1 DEF IInv, TypeOK, TcpTypeOK, EndStates
<1>3. TypeOK' /\ TableInv' /\ BacklogInv' /\ TodoInv'
  BY <1>1, <1>2
  DEF IInv, TypeOK, TcpTypeOK, TableInv, BacklogInv, TodoInv, Holding, At
<1>4. /\ \A d \in Clients : Rejected(d)' = Rejected(d) /\ Drained(d)' = Drained(d)
      /\ Dead' = Dead
  BY <1>1 DEF Rejected, Drained, Dead
<1>5. ConnInv' /\ StreamInv'
  BY <1>1, <1>2, <1>4, StreamKept DEF IInv, ConnInv
<1> QED
  BY <1>3, <1>5 DEF IInv

LEMMA ServerStep ==
  ASSUME IInv, ServerOnly, ParentNext \/ \E c \in Clients : ChildNext(c)
  PROVE  IInv'
<1>1. CASE ParentNext
  <2>1. Parent \in Procs
    BY DEF Procs
  <2>2. CASE Accept
    BY <2>2, AcceptStep
  <2>3. CASE Read(Parent) \/ ReadEnd(Parent)
    BY <2>1, <2>3, ReadStep, ReadEndStep
  <2>4. CASE DecodeFails \/ Dies \/ Close
    BY <2>4, DecodeFailsStep, DiesStep, CloseStep
  <2>5. CASE Fork \/ ForkFails \/ HandOff
    BY <2>5, ForkStep, ForkFailsStep, HandOffStep
  <2>6. CASE AcceptFails
    BY <2>6, AcceptFailsStep
  <2> QED
    BY <1>1, <2>2, <2>3, <2>4, <2>5, <2>6 DEF ParentNext, ParentWorks
<1>2. ASSUME NEW c \in Clients, ChildNext(c) PROVE IInv'
  <2>1. c \in Procs
    BY DEF Procs
  <2> QED
    BY <1>2, <2>1, ReadStep, ReadEndStep, ChildExitsStep DEF ChildNext
<1> QED
  BY <1>1, <1>2

LEMMA ClientStep ==
  ASSUME IInv, ClientsOnly, NEW c \in Clients, ClientNext(c)
  PROVE  IInv'
<1>1. CASE Connect(c)
  BY <1>1, ConnectStep
<1>2. CASE ConnectRefused(c) \/ Input(c) \/ PyEndOfInput(c)
  BY <1>2, InputStep
<1>3. CASE Write(c)
  BY <1>3, WriteStep
<1>4. CASE WriteFails(c) \/ WouldBlock(c) \/ Quit(c) \/ Interrupted(c)
  BY <1>4, LeavesStep DEF WriteFails, WouldBlock, Quit, Interrupted
<1> QED
  BY <1>1, <1>2, <1>3, <1>4 DEF ClientNext, Writes

LEMMA NextStep == IInv /\ [Next]_vars => IInv'
<1> SUFFICES ASSUME IInv, [Next]_vars PROVE IInv'
  OBVIOUS
<1>1. CASE UNCHANGED vars
  BY <1>1
  DEF vars, tcpVars, clientVars, serverVars, IInv, TypeOK, TcpTypeOK, TableInv, BacklogInv,
      ConnInv, TodoInv, StreamInv, Holding, Drained, Rejected, Dead, At
<1>2. CASE ServerOnly /\ (ParentNext \/ \E c \in Clients : ChildNext(c))
  BY <1>2, ServerStep
<1>3. CASE \E c \in Clients : ClientNext(c) /\ ClientsOnly
  BY <1>3, ClientStep
<1>4. CASE \E c \in Clients : ResetArrives(c) /\ UNCHANGED <<program, clientVars, serverVars>>
  BY <1>4, ResetStep DEF ServerOnly, ClientsOnly
<1> QED
  BY <1>1, <1>2, <1>3, <1>4 DEF Next, AtRest, ServerOnly, ClientsOnly

-----------------------------------------------------------------------------
(* The theorems.                                                           *)

\* The invariant holds of every pair of programs, for any number of clients,
\* any lines, window and segmentation.
THEOREM Invariance == Spec => []IInv
<1>1. Init => IInv
  BY InitInv
<1>2. IInv /\ [Next]_vars => IInv'
  BY NextStep
<1> QED
  BY <1>1, <1>2, PTL DEF Spec

\* The variables have their types: in particular a process reads only from a
\* connection it has a descriptor on.
THEOREM TypeCorrect == Spec => []TypeOK
<1>1. IInv => TypeOK
  BY DEF IInv
<1> QED
  BY <1>1, Invariance, PTL

\* A server that only reads loses nothing of what a client sent, and confuses
\* no two clients, unless the fork() for the client fails, the server ends
\* before it accepted it, or the process that serves it ends: not even when the
\* client left before its connection was accepted, nor when the parent of the
\* child that serves it ends.
THEOREM LosesNothing == Spec => []NothingLost
<1>1. ASSUME IInv PROVE NothingLost
  <2> SUFFICES ASSUME NEW c \in Clients
               PROVE  /\ IsPrefix(printed[c], sent[c])
                      /\ printed[c] \o up[c] = sent[c] \/ Rejected(c) \/ Dead
    BY DEF NothingLost
  <2>1. PICK rest \in Seq(Byte) : printed[c] \o rest = sent[c]
          /\ (rest = up[c] \/ Rejected(c) \/ Dead)
    BY <1>1 DEF IInv, StreamInv
  <2>2. printed[c] \in Seq(Byte)
    BY <1>1 DEF IInv, TypeOK
  <2>3. IsPrefix(printed[c], printed[c] \o rest)
    BY <2>1, <2>2, PrefixOfConcat
  <2> QED
    BY <2>1, <2>3
<1> QED
  BY <1>1, Invariance, PTL
=============================================================================
