----------------------------- MODULE TcpProofs -----------------------------
(***************************************************************************)
(* Facts about Tcp, the clients and FdTable, for every server built on     *)
(* them: what a read cuts from a queue; that each system call preserves    *)
(* the types, the agreement of the two ends and the flow of the bytes;     *)
(* that the steps of the clients, C, SCTP or Python, are steps of          *)
(* EchoService; and, for the servers that scan descriptors, what each step *)
(* does to the descriptor table.  The other servers leave fdt and nofile   *)
(* unused.                                                                 *)
(***************************************************************************)
EXTENDS FdTable, EchoVariants, TLAPS, SequenceTheorems, WellFoundedInduction

\* The ends of a connection leave the established state together, the server's
\* when its client closes, and a connection that was not opened has carried
\* nothing.
EndsAgree ==
  /\ \A c \in Clients : csk[c] = "est" <=> ssk[c] = "est"
  /\ \A c \in Clients : ssk[c] \in {"fin", "finw", "err", "dead"} => csk[c] = "closed"
  /\ \A c \in Clients : csk[c] = "none" =>
       sent[c] = <<>> /\ got[c] = <<>> /\ up[c] = <<>> /\ down[c] = <<>>
  /\ \A k \in 1 .. Len(backlog) : csk[backlog[k]] # "none"

TcpInv == TcpTypeOK /\ EndsAgree

\* The bytes of one connection: s is the server's end, held what a server
\* process has read and not written back.  While the connection is
\* established nothing is lost: what the client wrote is what it read, what
\* comes back to it, what the server holds and what is on its way, in order.
Flow(s, snt, gt, dn, held, upq) ==
  /\ IsPrefix(gt \o dn, snt)
  /\ s = "est" => snt = (gt \o dn) \o (held \o upq)

\* A step keeps the flow of every connection, whatever the server holds.
FlowStep ==
  \A d \in Clients : \A h \in Seq(Byte) :
    (csk[d] = "none" => h = <<>>)
    => (Flow(ssk[d], sent[d], got[d], down[d], h, up[d])
        => Flow(ssk'[d], sent'[d], got'[d], down'[d], h, up'[d]))

\* A step does not undo a connection, and does not close a client's end.
StillOpen == \A d \in Clients : csk'[d] = "none" => csk[d] = "none"
PhasesKept ==
  \A d \in Clients : /\ csk'[d] = "none" <=> csk[d] = "none"
                     /\ csk'[d] = "closed" <=> csk[d] = "closed"

Idle == {"none", "closed"}

\* A step neither opens nor closes the server's end of a connection.
EndsKept == \A c \in Clients : ssk'[c] \in Idle <=> ssk[c] \in Idle

\* A step does not take away what a read would return.
ReadableKept ==
  \A c \in Clients : Readable(ssk[c], up[c]) => Readable(ssk'[c], up'[c])

\* A client that has not connected, or that is in its loop.
ClientInv ==
  /\ ClientTypeOK
  /\ \A c \in Clients :
       /\ At(c, "init") => csk[c] = "none"
       /\ cpc[c] \in {"input", "reply"} => csk[c] \notin {"none", "closed"}

\* The process of client c ends with `unread' left in its queue: what
\* ClientCloses is with all of down[c], and AnswerRaises with part of it.
LeavesUnread(c, unread) ==
  /\ csk' = [csk EXCEPT ![c] = "closed"]
  /\ \E late \in BOOLEAN :
       ssk' = [ssk EXCEPT ![c] = ClosedByPeer(ssk[c], unread, late)]
  /\ down' = [down EXCEPT ![c] = <<>>]
  /\ UNCHANGED <<up, sent, got, backlog, listening>>

-----------------------------------------------------------------------------
(* Sequences.                                                              *)

\* A read cuts a queue in two.
LEMMA TakenLeft ==
  ASSUME NEW X, NEW q \in Seq(X), NEW k \in 0 .. Len(q)
  PROVE  /\ Taken(q, k) \in Seq(X) /\ Left(q, k) \in Seq(X)
         /\ q = Taken(q, k) \o Left(q, k)
<1>1. Len(q) \in Nat
  BY LenProperties
<1>2. 1 \in 1 .. Len(q) + 1 /\ k \in 1 - 1 .. Len(q) /\ Len(q) \in k .. Len(q)
  BY <1>1
<1>3. SubSeq(q, 1, k) \o SubSeq(q, k + 1, Len(q)) = SubSeq(q, 1, Len(q))
  BY <1>2, ConcatAdjacentSubSeq
<1>4. SubSeq(q, 1, k) \in Seq(X) /\ SubSeq(q, k + 1, Len(q)) \in Seq(X)
  BY <1>1
<1> QED
  BY <1>3, <1>4, SubSeqFull DEF Taken, Left

\* The first of two concatenated sequences is a prefix of the whole.
LEMMA PrefixOfConcat ==
  ASSUME NEW X, NEW p \in Seq(X), NEW q \in Seq(X)
  PROVE  IsPrefix(p, p \o q)
  BY DEF IsPrefix

\* A prefix stays one when the longer sequence grows.
LEMMA PrefixGrows ==
  ASSUME NEW X, NEW p \in Seq(X), NEW q \in Seq(X), NEW r \in Seq(X),
         IsPrefix(p, q)
  PROVE  IsPrefix(p, q \o r)
  BY DEF IsPrefix

\* What begins a prefix is a prefix.
LEMMA PrefixShrinks ==
  ASSUME NEW X, NEW p \in Seq(X), NEW q \in Seq(X), NEW r \in Seq(X),
         IsPrefix(p \o q, r)
  PROVE  IsPrefix(p, r)
  BY DEF IsPrefix

\* What is read of a queue continues a prefix as the queue did.
LEMMA TakenPrefix ==
  ASSUME NEW X, NEW g \in Seq(X), NEW q \in Seq(X), NEW r \in Seq(X),
         NEW k \in 0 .. Len(q), IsPrefix(g \o q, r)
  PROVE  IsPrefix(g \o Taken(q, k), r)
<1> DEFINE a == Taken(q, k)
           b == Left(q, k)
<1>1. a \in Seq(X) /\ b \in Seq(X) /\ q = a \o b
  BY TakenLeft
<1> HIDE DEF a, b
<1>2. a \in Seq(X) /\ b \in Seq(X)
  BY <1>1
<1>3. g \o (a \o b) = (g \o a) \o b
  BY <1>2
<1>4. g \o a \in Seq(X)
  BY <1>2, ConcatProperties
<1>5. IsPrefix((g \o a) \o b, r)
  BY <1>1, <1>3
<1> QED
  BY <1>2, <1>4, <1>5, PrefixShrinks DEF a

\* A connection that joins the end of the backlog.
LEMMA AppendRange ==
  ASSUME NEW X, NEW q \in Seq(X), NEW x \in X
  PROVE  /\ Range(Append(q, x)) = Range(q) \cup {x}
         /\ IsInjective(q) /\ x \notin Range(q) => IsInjective(Append(q, x))
<1> DEFINE r == Append(q, x)
<1>1. /\ Len(q) \in Nat /\ DOMAIN q = 1 .. Len(q)
      /\ DOMAIN r = 1 .. Len(q) + 1
      /\ \A k \in 1 .. Len(q) : r[k] = q[k]
      /\ r[Len(q) + 1] = x
  OBVIOUS
<1>2. 1 .. Len(q) + 1 = (1 .. Len(q)) \cup {Len(q) + 1}
  BY <1>1
<1> HIDE DEF r
<1> QED
  BY <1>1, <1>2 DEF r, Range, IsInjective

\* A connection that leaves its head.
LEMMA TailRange ==
  ASSUME NEW X, NEW q \in Seq(X), q # <<>>
  PROVE  /\ Head(q) \in X /\ Tail(q) \in Seq(X)
         /\ Range(q) = Range(Tail(q)) \cup {Head(q)}
         /\ IsInjective(q) => IsInjective(Tail(q)) /\ Head(q) \notin Range(Tail(q))
<1> DEFINE r == Tail(q)
<1>1. /\ Len(q) \in Nat \ {0} /\ DOMAIN q = 1 .. Len(q)
      /\ DOMAIN r = 1 .. Len(q) - 1
      /\ \A k \in 1 .. Len(q) - 1 : r[k] = q[k + 1]
      /\ Head(q) = q[1] /\ Head(q) \in X /\ r \in Seq(X)
  OBVIOUS
<1> HIDE DEF r
<1>2. /\ 1 \in 1 .. Len(q)
      /\ \A k \in 1 .. Len(q) - 1 : k + 1 \in 1 .. Len(q) /\ k + 1 # 1
      /\ \A k \in 1 .. Len(q) : k = 1 \/ (k - 1 \in 1 .. Len(q) - 1 /\ k = (k - 1) + 1)
  BY <1>1
<1>3. Range(q) \subseteq Range(r) \cup {Head(q)}
  <2> SUFFICES ASSUME NEW k \in 1 .. Len(q) PROVE q[k] \in Range(r) \cup {Head(q)}
    BY <1>1 DEF Range
  <2>1. CASE k = 1
    BY <1>1, <2>1
  <2>2. CASE k - 1 \in 1 .. Len(q) - 1 /\ k = (k - 1) + 1
    <3>1. q[k] = r[k - 1]
      BY <1>1, <2>2
    <3> QED
      BY <1>1, <2>2, <3>1 DEF Range
  <2> QED
    BY <1>2, <2>1, <2>2
<1>4. Range(r) \cup {Head(q)} \subseteq Range(q)
  <2>1. Head(q) \in Range(q)
    BY <1>1, <1>2 DEF Range
  <2>2. ASSUME NEW k \in 1 .. Len(q) - 1 PROVE r[k] \in Range(q)
    <3>1. k + 1 \in DOMAIN q /\ r[k] = q[k + 1]
      BY <1>1, <1>2
    <3> QED
      BY <3>1 DEF Range
  <2>3. Range(r) \subseteq Range(q)
    BY <1>1, <2>2 DEF Range
  <2> QED
    BY <2>1, <2>3
<1>5. ASSUME IsInjective(q)
      PROVE  IsInjective(r) /\ Head(q) \notin Range(r)
  <2>1. \A k, l \in 1 .. Len(q) - 1 : r[k] = r[l] => k + 1 = l + 1
    BY <1>1, <1>2, <1>5 DEF IsInjective
  <2>2. \A k, l \in 1 .. Len(q) - 1 : k + 1 = l + 1 => k = l
    OBVIOUS
  <2>3. IsInjective(r)
    BY <1>1, <2>1, <2>2 DEF IsInjective
  <2>4. \A k \in 1 .. Len(q) - 1 : r[k] # q[1]
    BY <1>1, <1>2, <1>5 DEF IsInjective
  <2> QED
    BY <1>1, <2>3, <2>4 DEF Range
<1> QED
  BY <1>1, <1>3, <1>4, <1>5 DEF r

\* A nonempty set of naturals contains its least element.
LEMMA MinProperties ==
  ASSUME NEW S \in SUBSET Nat, S # {}
  PROVE  Min(S) \in S /\ \A y \in S : Min(S) <= y
<1>1. PICK x \in S : \A y \in S : ~ (<<y, x>> \in OpToRel(<, Nat))
  BY WFMin, NatLessThanWellFounded
<1>2. ASSUME NEW y \in S PROVE x <= y
  <2>1. <<y, x>> \notin OpToRel(<, Nat)
    BY <1>1
  <2>2. <<y, x>> \notin {ss \in Nat \X Nat : ss[1] < ss[2]}
    BY <2>1, Zenon DEF OpToRel
  <2> QED
    BY <2>2
<1> QED
  BY <1>2 DEF Min

-----------------------------------------------------------------------------
(* The flow of the bytes of one connection.                                *)

\* The client writes: the line enters the upward queue, or is thrown away.
LEMMA FlowClientWrites ==
  ASSUME NEW s, NEW snt \in Seq(Byte), NEW gt \in Seq(Byte),
         NEW dn \in Seq(Byte), NEW held \in Seq(Byte), NEW upq \in Seq(Byte),
         NEW data \in Seq(Byte), Flow(s, snt, gt, dn, held, upq)
  PROVE  Flow(s, snt \o data, gt, dn, held,
              Delivered(s, upq, data))
<1>1. IsPrefix(gt \o dn, snt \o data)
  <2>1. gt \o dn \in Seq(Byte)
    BY ConcatProperties
  <2> QED
    BY <2>1, PrefixGrows DEF Flow
<1>2. CASE s = "est"
  <2>1. snt \o data = (gt \o dn) \o (held \o (upq \o data))
    <3>1. snt = (gt \o dn) \o (held \o upq)
      BY <1>2 DEF Flow
    <3>2. ((gt \o dn) \o (held \o upq)) \o data = (gt \o dn) \o (held \o (upq \o data))
      OBVIOUS
    <3> QED
      BY <3>1, <3>2
  <2> QED
    BY <1>1, <1>2, <2>1 DEF Flow, Delivered
<1>3. CASE s # "est"
  BY <1>1, <1>3 DEF Flow
<1> QED
  BY <1>2, <1>3

\* The client reads the first k bytes that came back.
LEMMA FlowClientReads ==
  ASSUME NEW s, NEW snt \in Seq(Byte), NEW gt \in Seq(Byte),
         NEW dn \in Seq(Byte), NEW held \in Seq(Byte), NEW upq \in Seq(Byte),
         NEW k \in 0 .. Len(dn), Flow(s, snt, gt, dn, held, upq)
  PROVE  Flow(s, snt, gt \o Taken(dn, k), Left(dn, k), held, upq)
<1>1. (gt \o Taken(dn, k)) \o Left(dn, k) = gt \o dn
  <2>1. /\ dn = Taken(dn, k) \o Left(dn, k)
        /\ Taken(dn, k) \in Seq(Byte) /\ Left(dn, k) \in Seq(Byte)
    BY TakenLeft, Zenon
  <2>2. (gt \o Taken(dn, k)) \o Left(dn, k) = gt \o (Taken(dn, k) \o Left(dn, k))
    BY <2>1
  <2> QED
    BY <2>1, <2>2
<1> QED
  BY <1>1 DEF Flow

\* The server process, holding nothing, reads the first k bytes.
LEMMA FlowServerReads ==
  ASSUME NEW s, NEW snt \in Seq(Byte), NEW gt \in Seq(Byte),
         NEW dn \in Seq(Byte), NEW upq \in Seq(Byte),
         NEW k \in 0 .. Len(upq), Flow(s, snt, gt, dn, <<>>, upq)
  PROVE  Flow(s, snt, gt, dn, Taken(upq, k), Left(upq, k))
<1>1. <<>> \o upq = Taken(upq, k) \o Left(upq, k)
  BY TakenLeft, ConcatEmptySeq
<1> QED
  BY <1>1 DEF Flow

\* The server process writes back all it holds.
LEMMA FlowServerWrites ==
  ASSUME NEW s, NEW snt \in Seq(Byte), NEW gt \in Seq(Byte),
         NEW dn \in Seq(Byte), NEW held \in Seq(Byte), NEW upq \in Seq(Byte),
         Flow(s, snt, gt, dn, held, upq)
  PROVE  Flow(AfterWrite(s), snt, gt, Delivered(s, dn, held), <<>>, upq)
<1>1. CASE s = "est"
  <2>1. snt = (gt \o (dn \o held)) \o (<<>> \o upq)
    <3>1. snt = (gt \o dn) \o (held \o upq)
      BY <1>1 DEF Flow
    <3>2. (gt \o dn) \o (held \o upq) = (gt \o (dn \o held)) \o upq
      OBVIOUS
    <3>3. <<>> \o upq = upq
      BY ConcatEmptySeq
    <3> QED
      BY <3>1, <3>2, <3>3
  <2>2. IsPrefix(gt \o (dn \o held), snt)
    <3>1. gt \o (dn \o held) \in Seq(Byte) /\ <<>> \o upq \in Seq(Byte)
      BY ConcatProperties, ConcatEmptySeq
    <3> QED
      BY <2>1, <3>1, PrefixOfConcat
  <2> QED
    BY <1>1, <2>1, <2>2 DEF Flow, Delivered
<1>2. CASE s # "est"
  BY <1>2 DEF Flow, Delivered, AfterWrite
<1> QED
  BY <1>1, <1>2

\* Once an end is not established, queues may be cut or dropped.
LEMMA FlowEnds ==
  ASSUME NEW s, NEW t, t # "est", NEW snt \in Seq(Byte), NEW gt \in Seq(Byte),
         NEW dn \in Seq(Byte), NEW held, NEW held2, NEW upq, NEW upq2,
         Flow(s, snt, gt, dn, held, upq)
  PROVE  /\ Flow(t, snt, gt, dn, held2, upq2)
         /\ Flow(t, snt, gt, <<>>, held2, upq2)
<1>1. IsPrefix(gt \o <<>>, snt)
  <2>1. gt \o <<>> = gt
    BY ConcatEmptySeq
  <2> QED
    BY <2>1, PrefixShrinks DEF Flow
<1> QED
  BY <1>1 DEF Flow

-----------------------------------------------------------------------------
(* Each system call preserves TcpInv.                                      *)

LEMMA TcpInitInv == TcpInit => TcpInv
  BY DEF TcpInit, TcpInv, TcpTypeOK, EndsAgree, EndStates

LEMMA ClientConnectsInv ==
  ASSUME TcpInv, NEW c \in Clients, ClientConnects(c)
  PROVE  TcpInv'
<1>1. TcpTypeOK'
  BY DEF TcpInv, TcpTypeOK, EndStates, ClientConnects
<1>2. \A d \in Clients : ssk'[d] \in {"fin", "finw", "err", "dead"} => csk'[d] = "closed"
  BY DEF TcpInv, TcpTypeOK, EndsAgree, ClientConnects
<1>3. \A k \in 1 .. Len(backlog') : csk'[backlog'[k]] # "none"
  BY DEF TcpInv, TcpTypeOK, EndsAgree, ClientConnects
<1>4. /\ \A d \in Clients : csk'[d] = "est" <=> ssk'[d] = "est"
      /\ \A d \in Clients : csk'[d] = "none" =>
           sent'[d] = <<>> /\ got'[d] = <<>> /\ up'[d] = <<>> /\ down'[d] = <<>>
  BY DEF TcpInv, TcpTypeOK, EndsAgree, ClientConnects
<1>5. EndsAgree'
  BY <1>2, <1>3, <1>4 DEF EndsAgree
<1> QED
  BY <1>1, <1>5 DEF TcpInv

\* The bytes of a line are bytes of its connection.
LEMMA LineType ==
  ASSUME NEW c \in Clients, NEW l \in Nat, NEW k \in Nat
  PROVE  /\ [j \in 1 .. k |-> <<c, l + j>>] \in Seq(Byte)
         /\ Len([j \in 1 .. k |-> <<c, l + j>>]) = k
<1> DEFINE data == [j \in 1 .. k |-> <<c, l + j>>]
<1>1. \A j \in 1 .. k : <<c, l + j>> \in Byte
  BY DEF Byte
<1>2. data \in Seq(Byte)
  BY <1>1
<1>3. DOMAIN data = 1 .. k
  OBVIOUS
<1> HIDE DEF data
<1>4. DOMAIN data = 1 .. Len(data) /\ Len(data) \in Nat
  BY <1>2, LenProperties
<1>5. Len(data) = k
  BY <1>3, <1>4
<1> QED
  BY <1>2, <1>5 DEF data

LEMMA ClientWritesInv ==
  ASSUME TcpInv, NEW c \in Clients, NEW k \in Nat, ClientWrites(c, k)
  PROVE  TcpInv'
<1> DEFINE data == [j \in 1 .. k |-> <<c, Len(sent[c]) + j>>]
<1>1. data \in Seq(Byte)
  <2>1. Len(sent[c]) \in Nat
    BY LenProperties DEF TcpInv, TcpTypeOK
  <2> QED
    BY <2>1, LineType
<1>2. /\ csk[c] \in {"est", "fin", "finw"}
      /\ csk' = [csk EXCEPT ![c] = AfterWrite(csk[c])]
      /\ up' = [up EXCEPT ![c] = Delivered(csk[c], up[c], data)]
      /\ sent' = [sent EXCEPT ![c] = sent[c] \o data]
      /\ UNCHANGED <<ssk, down, got, backlog, listening>>
  BY DEF ClientWrites, CanWrite
<1> HIDE DEF data
<1>3. up[c] \o data \in Seq(Byte) /\ sent[c] \o data \in Seq(Byte)
  BY <1>1, ConcatProperties DEF TcpInv, TcpTypeOK
<1>4. Delivered(csk[c], up[c], data) \in Seq(Byte) /\ AfterWrite(csk[c]) \in EndStates
  BY <1>3 DEF Delivered, AfterWrite, TcpInv, TcpTypeOK, EndStates
<1>5. TcpTypeOK'
  BY <1>2, <1>3, <1>4 DEF TcpInv, TcpTypeOK
<1>6. ssk[c] \notin {"fin", "finw", "err", "dead"}
  BY <1>2 DEF TcpInv, EndsAgree
<1>7. \A d \in Clients : ssk'[d] \in {"fin", "finw", "err", "dead"} => csk'[d] = "closed"
  BY <1>2, <1>6 DEF TcpInv, TcpTypeOK, EndsAgree
<1>8. \A d \in Clients : csk'[d] = "est" <=> ssk'[d] = "est"
  BY <1>2 DEF TcpInv, TcpTypeOK, EndsAgree, AfterWrite
<1>9. \A d \in Clients : csk'[d] = "none" => d # c /\ csk[d] = "none"
  BY <1>2 DEF TcpInv, TcpTypeOK, AfterWrite
<1>10. \A d \in Clients : csk'[d] = "none" =>
         sent'[d] = <<>> /\ got'[d] = <<>> /\ up'[d] = <<>> /\ down'[d] = <<>>
  BY <1>2, <1>9 DEF TcpInv, TcpTypeOK, EndsAgree
<1>11. \A j \in 1 .. Len(backlog') : csk'[backlog'[j]] # "none"
  BY <1>2 DEF TcpInv, TcpTypeOK, EndsAgree, AfterWrite
<1>12. EndsAgree'
  BY <1>7, <1>8, <1>10, <1>11 DEF EndsAgree
<1> QED
  BY <1>5, <1>12 DEF TcpInv

LEMMA ClientReadsInv ==
  ASSUME TcpInv, NEW c \in Clients, ClientReads(c)
  PROVE  TcpInv'
<1>1. PICK k \in ReadSizes(down[c]) :
        /\ got' = [got EXCEPT ![c] = got[c] \o Taken(down[c], k)]
        /\ down' = [down EXCEPT ![c] = Left(down[c], k)]
  BY DEF ClientReads
<1>2. UNCHANGED <<csk, ssk, up, sent, backlog, listening>>
  BY DEF ClientReads
<1>3. down[c] \in Seq(Byte) /\ got[c] \in Seq(Byte) /\ k \in 0 .. Len(down[c])
  BY DEF ReadSizes, TcpInv, TcpTypeOK
<1>4. Taken(down[c], k) \in Seq(Byte) /\ Left(down[c], k) \in Seq(Byte)
  BY <1>3, TakenLeft
<1>5. got[c] \o Taken(down[c], k) \in Seq(Byte)
  BY <1>3, <1>4, ConcatProperties
<1>6. TcpTypeOK'
  BY <1>1, <1>2, <1>4, <1>5 DEF TcpInv, TcpTypeOK
<1>7. down[c] # <<>>
  BY <1>3 DEF ReadSizes
<1>8. EndsAgree'
  BY <1>1, <1>2, <1>7 DEF TcpInv, TcpTypeOK, EndsAgree
<1> QED
  BY <1>6, <1>8 DEF TcpInv

LEMMA ClientReadFailsInv ==
  ASSUME TcpInv, NEW c \in Clients, ClientReadFails(c)
  PROVE  TcpInv'
  BY DEF ClientReadFails, Failing, TcpInv, TcpTypeOK, EndsAgree, EndStates

LEMMA ClientClosesInv ==
  ASSUME TcpInv, NEW c \in Clients, NEW q, LeavesUnread(c, q)
  PROVE  TcpInv'
<1>1. PICK late \in BOOLEAN :
        ssk' = [ssk EXCEPT ![c] = ClosedByPeer(ssk[c], q, late)]
  BY DEF LeavesUnread
<1>2. /\ ClosedByPeer(ssk[c], q, late) \in EndStates
      /\ ClosedByPeer(ssk[c], q, late) # "est"
  BY DEF ClosedByPeer, TcpInv, TcpTypeOK, EndStates
<1>3. TcpTypeOK'
  BY <1>1, <1>2 DEF LeavesUnread, TcpInv, TcpTypeOK, EndStates
<1>4. EndsAgree'
  BY <1>1, <1>2 DEF LeavesUnread, TcpInv, TcpTypeOK, EndsAgree
<1> QED
  BY <1>3, <1>4 DEF TcpInv

LEMMA ServerAcceptsInv ==
  ASSUME TcpInv, NEW c, ServerAccepts(c)
  PROVE  TcpInv' /\ c \in Clients /\ csk[c] # "none"
  BY DEF ServerAccepts, TcpInv, TcpTypeOK, EndsAgree

LEMMA ServerReadsInv ==
  ASSUME TcpInv, NEW c \in Clients, NEW k, ServerReads(c, k)
  PROVE  TcpInv'
<1>1. up[c] \in Seq(Byte) /\ k \in 0 .. Len(up[c]) /\ k # 0
  BY DEF ServerReads, ReadSizes, TcpInv, TcpTypeOK
<1>2. Left(up[c], k) \in Seq(Byte)
  BY <1>1, TakenLeft
<1>3. TcpTypeOK'
  BY <1>2 DEF ServerReads, TcpInv, TcpTypeOK
<1>4. EndsAgree'
  BY <1>1 DEF ServerReads, TcpInv, TcpTypeOK, EndsAgree
<1> QED
  BY <1>3, <1>4 DEF TcpInv

LEMMA ServerWritesInv ==
  ASSUME TcpInv, NEW c \in Clients, NEW data \in Seq(Byte), ServerWrites(c, data)
  PROVE  TcpInv'
<1>1. /\ ssk[c] \in {"est", "fin", "finw"}
      /\ ssk' = [ssk EXCEPT ![c] = AfterWrite(ssk[c])]
      /\ down' = [down EXCEPT ![c] = Delivered(ssk[c], down[c], data)]
      /\ UNCHANGED <<csk, up, sent, got, backlog, listening>>
  BY DEF ServerWrites, CanWrite
<1>2. down[c] \o data \in Seq(Byte)
  BY ConcatProperties DEF TcpInv, TcpTypeOK
<1>3. Delivered(ssk[c], down[c], data) \in Seq(Byte) /\ AfterWrite(ssk[c]) \in EndStates
  BY <1>2 DEF Delivered, AfterWrite, TcpInv, TcpTypeOK, EndStates
<1>4. TcpTypeOK'
  BY <1>1, <1>3 DEF TcpInv, TcpTypeOK
<1>5. EndsAgree'
  BY <1>1 DEF TcpInv, TcpTypeOK, EndsAgree, AfterWrite, Delivered
<1> QED
  BY <1>4, <1>5 DEF TcpInv

LEMMA ServerWriteFailsInv ==
  ASSUME TcpInv, NEW c \in Clients, ServerWriteFails(c)
  PROVE  TcpInv'
<1>1. PICK k \in 0 .. Len(up[c]) : up' = [up EXCEPT ![c] = Taken(up[c], k)]
  BY DEF ServerWriteFails
<1>2. Taken(up[c], k) \in Seq(Byte)
  BY TakenLeft DEF TcpInv, TcpTypeOK
<1>3. TcpTypeOK'
  BY <1>1, <1>2 DEF ServerWriteFails, TcpInv, TcpTypeOK, EndStates
<1>4. up[c] = <<>> => Taken(up[c], k) = <<>>
  BY DEF Taken
<1>5. EndsAgree'
  BY <1>1, <1>4 DEF ServerWriteFails, Failing, TcpInv, TcpTypeOK, EndsAgree
<1> QED
  BY <1>3, <1>5 DEF TcpInv

LEMMA ServerClosesInv ==
  ASSUME TcpInv, NEW S, ServerCloses(S),
         backlog' \in Seq(Clients), listening' \in BOOLEAN,
         \A k \in 1 .. Len(backlog') : csk[backlog'[k]] # "none"
  PROVE  TcpInv'
<1>1. PICK late \in SUBSET {c \in S : csk[c] = "est" /\ up[c] # <<>>} :
        csk' = [c \in Clients |->
                 IF c \in S THEN ClosedByPeer(csk[c], up[c], c \in late)
                            ELSE csk[c]]
  BY DEF ServerCloses
<1>2. \A c \in Clients :
        /\ ClosedByPeer(csk[c], up[c], c \in late) \in EndStates \ {"est"}
        /\ csk[c] # "none" => ClosedByPeer(csk[c], up[c], c \in late) # "none"
        /\ csk[c] # "est" => ClosedByPeer(csk[c], up[c], c \in late) = csk[c]
        /\ csk[c] = "est" => ClosedByPeer(csk[c], up[c], c \in late) # "none"
  BY DEF ClosedByPeer, TcpInv, TcpTypeOK, EndStates
<1>3. csk' \in [Clients -> EndStates]
  BY <1>1, <1>2 DEF TcpInv, TcpTypeOK
<1>4. TcpTypeOK'
  BY <1>3 DEF ServerCloses, TcpInv, TcpTypeOK, EndStates
<1>5. \A c \in Clients : (csk'[c] = "none" => csk[c] = "none")
                      /\ (csk'[c] = "est" <=> csk[c] = "est" /\ c \notin S)
  BY <1>1, <1>2
<1>6. \A c \in Clients : ssk'[c] = "est" <=> ssk[c] = "est" /\ c \notin S
  BY DEF ServerCloses, TcpInv, TcpTypeOK
<1>7. \A c \in Clients : csk'[c] = "none" =>
        sent'[c] = <<>> /\ got'[c] = <<>> /\ up'[c] = <<>> /\ down'[c] = <<>>
  BY <1>5 DEF ServerCloses, TcpInv, TcpTypeOK, EndsAgree
<1>8. \A k \in 1 .. Len(backlog') : csk'[backlog'[k]] # "none"
  BY <1>5
<1>9. \A c \in Clients : ssk'[c] \in {"fin", "finw", "err", "dead"} => csk'[c] = "closed"
  <2>1. \A c \in Clients : ssk'[c] = IF c \in S THEN "closed" ELSE ssk[c]
    BY DEF ServerCloses
  <2> QED
    BY <1>1, <1>2, <2>1 DEF TcpInv, EndsAgree
<1>10. EndsAgree'
  BY <1>5, <1>6, <1>7, <1>8, <1>9 DEF TcpInv, EndsAgree
<1> QED
  BY <1>4, <1>10 DEF TcpInv

\* close() of connections while the process goes on listening.
LEMMA ClosesInv ==
  ASSUME TcpInv, NEW S, ServerCloses(S), UNCHANGED <<backlog, listening>>
  PROVE  TcpInv'
<1>1. /\ backlog' \in Seq(Clients) /\ listening' \in BOOLEAN
      /\ \A k \in 1 .. Len(backlog') : csk[backlog'[k]] # "none"
  BY DEF TcpInv, TcpTypeOK, EndsAgree
<1> QED
  BY <1>1, ServerClosesInv

\* The end of the last process that listens.
LEMMA ExitsInv ==
  ASSUME TcpInv, NEW S, ServerCloses(S), backlog' = <<>>, listening' = FALSE
  PROVE  TcpInv'
<1>1. <<>> \in Seq(Clients) /\ Len(<<>>) = 0
  BY EmptySeq
<1>2. Len(backlog') = 0
  BY <1>1
<1>3. \A k \in 1 .. Len(backlog') : csk[backlog'[k]] # "none"
  BY <1>2
<1>4. backlog' \in Seq(Clients) /\ listening' \in BOOLEAN
  BY <1>1
<1> QED
  BY <1>3, <1>4, ServerClosesInv

LEMMA ResetArrivesInv ==
  ASSUME TcpInv, NEW c \in Clients, ResetArrives(c)
  PROVE  TcpInv'
<1>1. CASE ServerResetArrives(c)
  BY <1>1 DEF ServerResetArrives, TcpInv, TcpTypeOK, EndsAgree, EndStates
<1>2. CASE ClientResetArrives(c)
  BY <1>2 DEF ClientResetArrives, TcpInv, TcpTypeOK, EndsAgree, EndStates
<1> QED
  BY <1>1, <1>2 DEF ResetArrives

-----------------------------------------------------------------------------
(* What each call leaves of the flow and of the clients' phases.           *)

LEMMA ClientConnectsFlow ==
  ASSUME TcpInv, NEW c \in Clients, ClientConnects(c)
  PROVE  FlowStep
<1> SUFFICES ASSUME NEW d \in Clients, NEW h \in Seq(Byte),
                    csk[d] = "none" => h = <<>>,
                    Flow(ssk[d], sent[d], got[d], down[d], h, up[d])
             PROVE  Flow(ssk'[d], sent'[d], got'[d], down'[d], h, up'[d])
  BY DEF FlowStep
<1>1. CASE d = c
  <2>1. sent'[c] = <<>> /\ got'[c] = <<>> /\ up'[c] = <<>> /\ down'[c] = <<>> /\ h = <<>>
    BY <1>1 DEF ClientConnects, TcpInv, EndsAgree
  <2>2. <<>> = (<<>> \o <<>>) \o (<<>> \o <<>>) /\ IsPrefix(<<>> \o <<>>, <<>>)
    BY ConcatEmptySeq, EmptySeq DEF IsPrefix
  <2> QED
    BY <1>1, <2>1, <2>2 DEF Flow
<1>2. CASE d # c
  BY <1>2 DEF ClientConnects, TcpInv, TcpTypeOK
<1> QED
  BY <1>1, <1>2

LEMMA ClientWritesFlow ==
  ASSUME TcpInv, NEW c \in Clients, NEW k \in Nat, ClientWrites(c, k)
  PROVE  FlowStep
<1> SUFFICES ASSUME NEW d \in Clients, NEW h \in Seq(Byte),
                    csk[d] = "none" => h = <<>>,
                    Flow(ssk[d], sent[d], got[d], down[d], h, up[d])
             PROVE  Flow(ssk'[d], sent'[d], got'[d], down'[d], h, up'[d])
  BY DEF FlowStep
<1> DEFINE data == [j \in 1 .. k |-> <<c, Len(sent[c]) + j>>]
<1>1. data \in Seq(Byte)
  <2>1. Len(sent[c]) \in Nat
    BY LenProperties DEF TcpInv, TcpTypeOK
  <2> QED
    BY <2>1, LineType
<1>2. /\ up' = [up EXCEPT ![c] = Delivered(csk[c], up[c], data)]
      /\ sent' = [sent EXCEPT ![c] = sent[c] \o data]
      /\ UNCHANGED <<ssk, down, got>>
  BY DEF ClientWrites
<1> HIDE DEF data
<1>3. CASE d = c
  <2>1. Delivered(csk[c], up[c], data) = Delivered(ssk[c], up[c], data)
    BY DEF Delivered, TcpInv, EndsAgree
  <2>2. up'[c] = Delivered(ssk[c], up[c], data) /\ sent'[c] = sent[c] \o data
    BY <1>2, <2>1 DEF TcpInv, TcpTypeOK
  <2>3. /\ sent[c] \in Seq(Byte) /\ got[c] \in Seq(Byte)
        /\ down[c] \in Seq(Byte) /\ up[c] \in Seq(Byte)
    BY DEF TcpInv, TcpTypeOK
  <2>4. Flow(ssk[c], sent[c] \o data, got[c], down[c], h, Delivered(ssk[c], up[c], data))
    BY <1>1, <1>3, <2>3, FlowClientWrites
  <2> QED
    BY <1>2, <1>3, <2>2, <2>4
<1>4. CASE d # c
  BY <1>2, <1>4 DEF TcpInv, TcpTypeOK
<1> QED
  BY <1>3, <1>4

LEMMA ClientReadsFlow ==
  ASSUME TcpInv, NEW c \in Clients, ClientReads(c)
  PROVE  FlowStep
<1> SUFFICES ASSUME NEW d \in Clients, NEW h \in Seq(Byte),
                    Flow(ssk[d], sent[d], got[d], down[d], h, up[d])
             PROVE  Flow(ssk'[d], sent'[d], got'[d], down'[d], h, up'[d])
  BY DEF FlowStep
<1>1. PICK k \in ReadSizes(down[c]) :
        /\ got' = [got EXCEPT ![c] = got[c] \o Taken(down[c], k)]
        /\ down' = [down EXCEPT ![c] = Left(down[c], k)]
  BY DEF ClientReads
<1>2. UNCHANGED <<ssk, up, sent>>
  BY DEF ClientReads
<1>3. /\ sent[c] \in Seq(Byte) /\ got[c] \in Seq(Byte)
      /\ down[c] \in Seq(Byte) /\ up[c] \in Seq(Byte)
      /\ k \in 0 .. Len(down[c])
  BY DEF TcpInv, TcpTypeOK, ReadSizes
<1>4. CASE d = c
  <2>1. got'[c] = got[c] \o Taken(down[c], k) /\ down'[c] = Left(down[c], k)
    BY <1>1 DEF TcpInv, TcpTypeOK
  <2>2. Flow(ssk[c], sent[c], got[c] \o Taken(down[c], k), Left(down[c], k), h, up[c])
    BY <1>3, <1>4, FlowClientReads
  <2> QED
    BY <1>2, <1>4, <2>1, <2>2
<1>5. CASE d # c
  BY <1>1, <1>2, <1>5 DEF TcpInv, TcpTypeOK
<1> QED
  BY <1>4, <1>5

\* Calls after which the end is not established, and the client's queue is
\* what it was or empty.
LEMMA EndingFlow ==
  ASSUME TcpInv, UNCHANGED <<sent, got>>,
         \A c \in Clients :
           \/ UNCHANGED <<ssk[c], down[c], up[c]>>
           \/ ssk'[c] # "est" /\ (down'[c] = down[c] \/ down'[c] = <<>>)
  PROVE  FlowStep
<1> SUFFICES ASSUME NEW d \in Clients, NEW h \in Seq(Byte),
                    Flow(ssk[d], sent[d], got[d], down[d], h, up[d])
             PROVE  Flow(ssk'[d], sent'[d], got'[d], down'[d], h, up'[d])
  BY DEF FlowStep
<1>1. CASE UNCHANGED <<ssk[d], down[d], up[d]>>
  BY <1>1
<1>2. CASE ssk'[d] # "est" /\ (down'[d] = down[d] \/ down'[d] = <<>>)
  <2>1. sent[d] \in Seq(Byte) /\ got[d] \in Seq(Byte) /\ down[d] \in Seq(Byte)
    BY DEF TcpInv, TcpTypeOK
  <2>2. /\ Flow(ssk'[d], sent[d], got[d], down[d], h, up'[d])
        /\ Flow(ssk'[d], sent[d], got[d], <<>>, h, up'[d])
    BY <1>2, <2>1, FlowEnds
  <2> QED
    BY <1>2, <2>2
<1> QED
  BY <1>1, <1>2

LEMMA ClientReadFailsFlow ==
  ASSUME TcpInv, NEW c \in Clients, ClientReadFails(c)
  PROVE  FlowStep
<1>1. ssk[c] # "est"
  BY DEF ClientReadFails, Failing, TcpInv, EndsAgree
<1> QED
  BY <1>1, EndingFlow DEF ClientReadFails, TcpInv, TcpTypeOK

LEMMA ClientClosesFlow ==
  ASSUME TcpInv, NEW c \in Clients, NEW q, LeavesUnread(c, q)
  PROVE  FlowStep
<1>1. PICK late \in BOOLEAN :
        ssk' = [ssk EXCEPT ![c] = ClosedByPeer(ssk[c], q, late)]
  BY DEF LeavesUnread
<1>2. ClosedByPeer(ssk[c], q, late) # "est"
  BY DEF ClosedByPeer
<1> QED
  BY <1>1, <1>2, EndingFlow DEF LeavesUnread, TcpInv, TcpTypeOK

LEMMA ServerWriteFailsFlow ==
  ASSUME TcpInv, NEW c \in Clients, ServerWriteFails(c)
  PROVE  FlowStep
  BY EndingFlow DEF ServerWriteFails, Failing, TcpInv, TcpTypeOK

LEMMA ServerClosesFlow ==
  ASSUME TcpInv, NEW S, ServerCloses(S)
  PROVE  FlowStep /\ PhasesKept
<1>1. FlowStep
  BY EndingFlow DEF ServerCloses, TcpInv, TcpTypeOK
<1>2. PICK late \in SUBSET {c \in S : csk[c] = "est" /\ up[c] # <<>>} :
        csk' = [c \in Clients |->
                 IF c \in S THEN ClosedByPeer(csk[c], up[c], c \in late)
                            ELSE csk[c]]
  BY DEF ServerCloses
<1>3. PhasesKept
  BY <1>2 DEF PhasesKept, ClosedByPeer
<1> QED
  BY <1>1, <1>3

LEMMA ResetArrivesFlow ==
  ASSUME TcpInv, NEW c \in Clients, ResetArrives(c)
  PROVE  FlowStep /\ PhasesKept
<1>1. CASE ServerResetArrives(c)
  BY <1>1, EndingFlow DEF ServerResetArrives, PhasesKept, TcpInv, TcpTypeOK
<1>2. CASE ClientResetArrives(c)
  BY <1>2, EndingFlow DEF ClientResetArrives, PhasesKept, TcpInv, TcpTypeOK
<1> QED
  BY <1>1, <1>2 DEF ResetArrives

-----------------------------------------------------------------------------
(* The steps of a client, and what they are for the abstract service.      *)

EchoStep == Echo!Next \/ UNCHANGED Echo!vars

\* A client that connects opens its conversation.
LEMMA ConnectStep ==
  ASSUME TcpInv, ClientInv, NEW c \in Clients, Connect(c)
  PROVE  TcpInv' /\ ClientInv' /\ StillOpen /\ FlowStep /\ EchoStep
<1>1. csk[c] = "none" /\ csk' = [csk EXCEPT ![c] = "est"] /\ UNCHANGED <<sent, got>>
  BY DEF Connect, ClientConnects
<1>2. Echo!Open(c)
  BY <1>1 DEF Echo!Open, TcpInv, TcpTypeOK
<1>3. ClientInv' /\ StillOpen
  BY <1>1 DEF Connect, ClientInv, ClientTypeOK, At, Goto, StillOpen, TcpInv, TcpTypeOK
<1> QED
  BY <1>2, <1>3, ClientConnectsInv, ClientConnectsFlow DEF Connect, EchoStep, Echo!Next

\* A client that sends asks: what it sent gets longer.
LEMMA SendStep ==
  ASSUME TcpInv, ClientInv, NEW c \in Clients, Send(c)
  PROVE  TcpInv' /\ ClientInv' /\ StillOpen /\ FlowStep /\ EchoStep
<1>1. PICK k \in 1 .. LineSize : ClientWrites(c, k)
  BY DEF Send
<1>2. k \in Nat /\ k # 0
  BY TcpAssumption
<1>3. TcpInv' /\ FlowStep
  BY <1>1, <1>2, ClientWritesInv, ClientWritesFlow
<1> DEFINE data == [j \in 1 .. k |-> <<c, Len(sent[c]) + j>>]
<1>4. data \in Seq(Byte) /\ Len(data) = k
  <2>1. Len(sent[c]) \in Nat
    BY LenProperties DEF TcpInv, TcpTypeOK
  <2> QED
    BY <1>2, <2>1, LineType
<1>5. /\ csk[c] \in {"est", "fin", "finw"}
      /\ csk' = [csk EXCEPT ![c] = AfterWrite(csk[c])]
      /\ sent' = [sent EXCEPT ![c] = sent[c] \o data]
      /\ UNCHANGED got
  BY <1>1 DEF ClientWrites, CanWrite
<1> HIDE DEF data
<1>6. ClientInv' /\ StillOpen
  BY <1>5 DEF Send, AfterWrite, ClientInv, ClientTypeOK, At, Goto, StillOpen, TcpInv, TcpTypeOK
<1>7. sent[c] \in Seq(Byte) /\ sent' \in [Clients -> Seq(Byte)] /\ sent'[c] = sent[c] \o data
  BY <1>3, <1>5 DEF TcpInv, TcpTypeOK
<1>8. IsStrictPrefix(sent[c], sent'[c])
  <2>1. IsPrefix(sent[c], sent[c] \o data)
    BY <1>4, <1>7, PrefixOfConcat
  <2>2. Len(sent[c] \o data) = Len(sent[c]) + k /\ Len(sent[c]) \in Nat
    BY <1>4, <1>7, ConcatProperties, LenProperties
  <2>3. sent[c] # sent[c] \o data
    BY <1>2, <2>2
  <2> QED
    BY <1>7, <2>1, <2>3 DEF IsStrictPrefix
<1>9. \A d \in Clients \ {c} : sent'[d] = sent[d]
  BY <1>5 DEF TcpInv, TcpTypeOK
<1>10. [d \in Clients |-> CASE csk'[d] = "none" -> "new"
                            [] csk'[d] = "closed" -> "closed"
                            [] OTHER -> "open"]
       = [d \in Clients |-> CASE csk[d] = "none" -> "new"
                            [] csk[d] = "closed" -> "closed"
                            [] OTHER -> "open"]
  BY <1>5 DEF AfterWrite, TcpInv, TcpTypeOK
<1>11. csk[c] \notin {"none", "closed"}
  BY <1>5
<1>12. Echo!Ask(c)
  BY <1>5, <1>7, <1>8, <1>9, <1>10, <1>11
  DEF Echo!Ask, Echo!IsStrictPrefix, Echo!IsPrefix, IsStrictPrefix, IsPrefix
<1> QED
  BY <1>3, <1>6, <1>12 DEF EchoStep, Echo!Next

\* A client that exits leaves.
LEMMA LeaveStep ==
  ASSUME TcpInv, ClientInv, NEW c \in Clients, NEW q, LeavesUnread(c, q),
         cpc[c] \in {"input", "reply"}, Goto(c, "done"), UNCHANGED rep
  PROVE  TcpInv' /\ ClientInv' /\ StillOpen /\ FlowStep /\ EchoStep
<1>1. csk[c] \notin {"none", "closed"}
  BY DEF ClientInv
<1>2. csk' = [csk EXCEPT ![c] = "closed"] /\ UNCHANGED <<sent, got>>
  BY DEF LeavesUnread
<1>3. Echo!Leave(c)
  BY <1>1, <1>2 DEF Echo!Leave, TcpInv, TcpTypeOK
<1>4. ClientInv' /\ StillOpen
  BY <1>1, <1>2 DEF ClientInv, ClientTypeOK, At, Goto, StillOpen, TcpInv, TcpTypeOK
<1> QED
  BY <1>3, <1>4, ClientClosesInv, ClientClosesFlow DEF EchoStep, Echo!Next

\* A client that reads data receives more of its own echo.
LEMMA ReplyStep ==
  ASSUME TcpInv, ClientInv, NEW c \in Clients, Reply(c),
         IsPrefix(got[c] \o down[c], sent[c])
  PROVE  TcpInv' /\ ClientInv' /\ StillOpen /\ FlowStep /\ EchoStep
<1>1. PICK k \in ReadSizes(down[c]) :
        /\ got' = [got EXCEPT ![c] = got[c] \o Taken(down[c], k)]
        /\ down' = [down EXCEPT ![c] = Left(down[c], k)]
  BY DEF Reply, ClientReads
<1>2. UNCHANGED <<csk, sent>>
  BY DEF Reply, ClientReads
<1>3. TcpInv' /\ FlowStep
  BY ClientReadsInv, ClientReadsFlow DEF Reply
<1>4. ClientInv' /\ StillOpen
  BY <1>2 DEF Reply, Report, Reports, ClientInv, ClientTypeOK, At, Goto, StillOpen
<1>5. /\ down[c] \in Seq(Byte) /\ got[c] \in Seq(Byte) /\ sent[c] \in Seq(Byte)
      /\ k \in 0 .. Len(down[c]) /\ k # 0
  BY DEF ReadSizes, TcpInv, TcpTypeOK
<1> DEFINE data == Taken(down[c], k)
<1>6. data \in Seq(Byte)
  BY <1>5, TakenLeft
<1>7. Len(data) = k
  BY <1>5 DEF Taken
<1>8. got'[c] = got[c] \o data
  BY <1>1 DEF TcpInv, TcpTypeOK
<1> HIDE DEF data
<1>9. IsStrictPrefix(got[c], got'[c])
  <2>1. IsPrefix(got[c], got[c] \o data)
    BY <1>5, <1>6, PrefixOfConcat
  <2>2. Len(got[c] \o data) = Len(got[c]) + k /\ Len(got[c]) \in Nat
    BY <1>5, <1>6, <1>7, ConcatProperties, LenProperties
  <2>3. got[c] # got[c] \o data
    BY <1>5, <2>2
  <2> QED
    BY <1>8, <2>1, <2>3 DEF IsStrictPrefix
<1>10. IsPrefix(got'[c], sent[c])
  BY <1>5, <1>8, TakenPrefix DEF data
<1>11. \A d \in Clients \ {c} : got'[d] = got[d]
  BY <1>1 DEF TcpInv, TcpTypeOK
<1>12. got' \in [Clients -> Seq(Byte)]
  BY <1>3 DEF TcpInv, TcpTypeOK
<1>13. csk[c] \notin {"none", "closed"}
  BY DEF Reply, At, ClientInv
<1>14. Echo!Echo(c)
  BY <1>2, <1>9, <1>10, <1>11, <1>12, <1>13
  DEF Echo!Echo, Echo!IsStrictPrefix, Echo!IsPrefix, IsStrictPrefix, IsPrefix
<1> QED
  BY <1>3, <1>4, <1>14 DEF EchoStep, Echo!Next

\* What keeps the clients' phases, sends and receives is no step of the
\* service.
LEMMA EchoStutter ==
  ASSUME PhasesKept, UNCHANGED <<sent, got>>
  PROVE  EchoStep
  BY DEF PhasesKept, EchoStep, Echo!vars

\* A client that changes nothing but its own place and report.
LEMMA IdleStep ==
  ASSUME TcpInv, ClientInv, NEW c \in Clients, UNCHANGED tcpVars,
         \/ Goto(c, "done") /\ UNCHANGED rep
         \/ /\ cpc[c] \in {"input", "reply"}
            /\ \E l \in {"input", "reply"} : Goto(c, l)
            /\ UNCHANGED rep \/ \E r \in Reports : Report(c, r)
  PROVE  TcpInv' /\ ClientInv' /\ StillOpen /\ FlowStep /\ EchoStep
<1>1. TcpInv' /\ FlowStep /\ StillOpen /\ PhasesKept
  BY DEF tcpVars, TcpInv, TcpTypeOK, EndsAgree, FlowStep, StillOpen, PhasesKept
<1>2. ClientInv'
  BY DEF tcpVars, ClientInv, ClientTypeOK, At, Goto, Report
<1> QED
  BY <1>1, <1>2, EchoStutter DEF tcpVars

\* A client that exits, whatever made it.
LEMMA LeavesStep ==
  ASSUME TcpInv, ClientInv, NEW c \in Clients, ClientCloses(c),
         cpc[c] \in {"input", "reply"}, Goto(c, "done"), UNCHANGED rep
  PROVE  TcpInv' /\ ClientInv' /\ StillOpen /\ FlowStep /\ EchoStep
<1>1. LeavesUnread(c, down[c])
  BY DEF ClientCloses, LeavesUnread
<1> QED
  BY <1>1, LeaveStep

\* fgetinput of the C clients.
LEMMA TakesReplyStep ==
  ASSUME TcpInv, ClientInv, EchoIntegrity, NEW c \in Clients, TakesReply(c)
  PROVE  TcpInv' /\ ClientInv' /\ StillOpen /\ FlowStep /\ EchoStep
<1>1. CASE Reply(c)
  BY <1>1, ReplyStep DEF EchoIntegrity
<1>2. CASE ReplyAtEnd(c)
  BY <1>2, IdleStep DEF ReplyAtEnd, At, Reports
<1>3. CASE ReplyFails(c)
  <2>1. ClientReadFails(c)
    BY <1>3 DEF ReplyFails
  <2>2. StillOpen /\ PhasesKept
    BY <2>1 DEF ClientReadFails, Failing, StillOpen, PhasesKept, TcpInv, TcpTypeOK
  <2>3. ClientInv'
    BY <1>3, <2>1 DEF ReplyFails, ClientReadFails, Failing, ClientInv, ClientTypeOK,
                      At, Goto, Report, Reports, TcpInv, TcpTypeOK
  <2>4. UNCHANGED <<sent, got>>
    BY <2>1 DEF ClientReadFails
  <2> QED
    BY <2>1, <2>2, <2>3, <2>4, ClientReadFailsInv, ClientReadFailsFlow, EchoStutter
<1> QED
  BY <1>1, <1>2, <1>3 DEF TakesReply

\* recv() and decode() of the Python client.
LEMMA PyTakesAnswerStep ==
  ASSUME TcpInv, ClientInv, EchoIntegrity, NEW c \in Clients, PyTakesAnswer(c)
  PROVE  TcpInv' /\ ClientInv' /\ StillOpen /\ FlowStep /\ EchoStep
<1>1. CASE Reply(c)
  BY <1>1, ReplyStep DEF EchoIntegrity
<1>2. CASE TakesEmpty(c)
  BY <1>2, IdleStep DEF TakesEmpty, At, Reports
<1>3. CASE AnswerRaises(c)
  <2>1. Goto(c, "done") /\ UNCHANGED rep /\ cpc[c] \in {"input", "reply"}
    BY <1>3 DEF AnswerRaises, At
  <2>2. CASE ClientCloses(c)
    BY <2>1, <2>2, LeavesStep
  <2>3. ASSUME NEW k \in ReadSizes(down[c]), LeavesUnread(c, Left(down[c], k))
        PROVE  TcpInv' /\ ClientInv' /\ StillOpen /\ FlowStep /\ EchoStep
    BY <2>1, <2>3, LeaveStep
  <2>4. ClientCloses(c) \/ \E k \in ReadSizes(down[c]) : LeavesUnread(c, Left(down[c], k))
    BY <1>3 DEF AnswerRaises, LeavesUnread
  <2> QED
    BY <2>2, <2>3, <2>4
<1> QED
  BY <1>1, <1>2, <1>3 DEF PyTakesAnswer

\* Every step of a client, of any family.
LEMMA ClientStep ==
  ASSUME TcpInv, ClientInv, EchoIntegrity, NEW c \in Clients, VariantNext(c)
  PROVE  TcpInv' /\ ClientInv' /\ StillOpen /\ FlowStep /\ EchoStep
<1>1. CASE Connect(c)
  BY <1>1, ConnectStep
<1>2. CASE ConnectRefused(c)
  BY <1>2, IdleStep DEF ConnectRefused
<1>3. CASE SendsLine(c)
  BY <1>3, SendStep DEF SendsLine
<1>4. CASE SendGivesUp(c) \/ UserLeaves(c)
  BY <1>4, LeavesStep DEF SendGivesUp, UserLeaves, Leaves, At
<1>5. CASE SendsNothing(c)
  BY <1>5, IdleStep DEF SendsNothing, At
<1>6. CASE TakesAnswer(c)
  BY <1>6, TakesReplyStep DEF TakesAnswer
<1>7. CASE PyTakesAnswer(c)
  BY <1>7, PyTakesAnswerStep
<1> QED
  BY <1>1, <1>2, <1>3, <1>4, <1>5, <1>6, <1>7 DEF VariantNext, Connects, Answered

\* The family stays, and the ends of lines are lengths.
LEMMA VariantTypeKept ==
  ASSUME VariantTypeOK, TcpInv', NEW c \in Clients, VariantNext(c)
  PROVE  VariantTypeOK'
<1>1. Len(sent'[c]) \in Nat
  BY LenProperties DEF TcpInv, TcpTypeOK
<1>2. \/ UNCHANGED ends
      \/ ends' = [ends EXCEPT ![c] = ends[c] \cup {Len(sent'[c])}]
  BY DEF VariantNext, Connects, SendsLine, SendGivesUp, SendsNothing, UserLeaves, Leaves,
         Answered, TakesAnswer, PyTakesAnswer
<1> QED
  BY <1>1, <1>2 DEF VariantTypeOK, VariantNext

-----------------------------------------------------------------------------
(* The servers' calls, of any family.                                      *)

\* A server never reads more than has arrived.
LEMMA ChunksAreSizes == \A c : Chunks(c) \subseteq ReadSizes(up[c])
  BY DEF Chunks

\* After a write that failed, the end is not established.
LEMMA SendBackFailsStep ==
  ASSUME TcpInv, NEW c \in Clients, SendBackFails(c)
  PROVE  /\ TcpInv' /\ FlowStep
         /\ ssk'[c] # "est" /\ \A d \in Clients \ {c} : ssk'[d] = ssk[d]
         /\ UNCHANGED <<csk, down, sent, got, backlog, listening>>
         /\ Len(up'[c]) <= Len(up[c])
<1>1. CASE ServerWriteFails(c)
  <2>1. TcpInv' /\ FlowStep
    BY <1>1, ServerWriteFailsInv, ServerWriteFailsFlow
  <2>2. Len(up'[c]) <= Len(up[c])
    <3>1. PICK k \in 0 .. Len(up[c]) : up' = [up EXCEPT ![c] = Taken(up[c], k)]
      BY <1>1 DEF ServerWriteFails
    <3>2. up[c] \in Seq(Byte) /\ up'[c] = Taken(up[c], k)
      BY <3>1 DEF TcpInv, TcpTypeOK
    <3>3. Len(SubSeq(up[c], 1, k)) = k /\ k <= Len(up[c])
      BY <3>2, LenProperties
    <3> QED
      BY <3>2, <3>3 DEF Taken
  <2> QED
    BY <1>1, <2>1, <2>2 DEF ServerWriteFails, TcpInv, TcpTypeOK
<1>2. CASE ShutDown(ssk[c]) /\ UNCHANGED tcpVars
  <2>1. TcpInv' /\ FlowStep
    BY <1>2 DEF tcpVars, TcpInv, TcpTypeOK, EndsAgree, FlowStep
  <2>2. Len(up[c]) <= Len(up[c])
    BY LenProperties DEF TcpInv, TcpTypeOK
  <2> QED
    BY <1>2, <2>1, <2>2 DEF ShutDown, tcpVars
<1> QED
  BY <1>1, <1>2 DEF SendBackFails

\* A step of the server keeps what is known of the clients.
LEMMA ClientsKept ==
  ASSUME ClientInv, PhasesKept, UNCHANGED clientVars
  PROVE  ClientInv'
  BY DEF ClientInv, ClientTypeOK, PhasesKept, clientVars, At

LEMMA VariantKept ==
  ASSUME VariantTypeOK, UNCHANGED variantVars
  PROVE  VariantTypeOK'
  BY DEF VariantTypeOK, variantVars

-----------------------------------------------------------------------------
(* What a call keeps of the connections the server holds.                  *)

LEMMA ReadableMeans ==
  ASSUME NEW s, NEW q
  PROVE  Readable(s, q) <=> q # <<>> \/ s \in {"fin", "finw", "dead", "err"}
  BY DEF Readable, HasData, AtEnd, Failing

LEMMA ServerWritesKeeps ==
  ASSUME TcpInv, NEW c \in Clients, NEW data, ServerWrites(c, data)
  PROVE  EndsKept /\ ReadableKept /\ UNCHANGED <<csk, backlog>>
<1>1. /\ ssk[c] \in {"est", "fin", "finw"}
      /\ \A d \in Clients : ssk'[d] = IF d = c THEN AfterWrite(ssk[c]) ELSE ssk[d]
      /\ UNCHANGED <<csk, up, backlog>>
  BY DEF ServerWrites, CanWrite, TcpInv, TcpTypeOK
<1>2. EndsKept
  BY <1>1 DEF EndsKept, Idle, AfterWrite
<1>3. \A d \in Clients :
        ssk[d] \in {"fin", "finw", "dead", "err"}
          => ssk'[d] \in {"fin", "finw", "dead", "err"}
  BY <1>1 DEF AfterWrite
<1>4. ReadableKept
  BY <1>1, <1>3, ReadableMeans DEF ReadableKept
<1> QED
  BY <1>1, <1>2, <1>4

LEMMA ServerReadsKeeps ==
  ASSUME NEW c \in Clients, NEW k, ServerReads(c, k)
  PROVE  EndsKept /\ UNCHANGED <<csk, ssk, backlog>>
  BY DEF ServerReads, EndsKept

LEMMA SendBackFailsKeeps ==
  ASSUME TcpInv, NEW c \in Clients, SendBackFails(c)
  PROVE  EndsKept /\ UNCHANGED <<csk, backlog>>
<1>1. CASE ServerWriteFails(c)
  BY <1>1 DEF ServerWriteFails, Failing, EndsKept, Idle, TcpInv, TcpTypeOK
<1>2. CASE UNCHANGED tcpVars
  BY <1>2 DEF tcpVars, EndsKept
<1> QED
  BY <1>1, <1>2 DEF SendBackFails

\* The calls of a client that has connected, and a reset that arrives.
LEMMA ConnectedKeeps ==
  ASSUME TcpInv, NEW c \in Clients,
         \/ \E k \in 1 .. LineSize : ClientWrites(c, k)
         \/ ClientReads(c) \/ ClientReadFails(c)
         \/ \E q : LeavesUnread(c, q)
         \/ ResetArrives(c)
         \/ UNCHANGED tcpVars
  PROVE  EndsKept /\ ReadableKept /\ UNCHANGED backlog
<1>1. ASSUME NEW k \in 1 .. LineSize, ClientWrites(c, k)
      PROVE  EndsKept /\ ReadableKept /\ UNCHANGED backlog
  <2> DEFINE data == [j \in 1 .. k |-> <<c, Len(sent[c]) + j>>]
  <2>1. /\ up' = [up EXCEPT ![c] = Delivered(csk[c], up[c], data)]
        /\ UNCHANGED <<ssk, backlog>>
    BY <1>1 DEF ClientWrites
  <2>2. Len(sent[c]) \in Nat /\ up[c] \in Seq(Byte) /\ k \in Nat
    BY LenProperties, TcpAssumption DEF TcpInv, TcpTypeOK
  <2>3. data \in Seq(Byte)
    BY <2>2, LineType
  <2> HIDE DEF data
  <2>4. up[c] # <<>> => up[c] \o data # <<>>
    BY <2>2, <2>3
  <2>5. \A d \in Clients : up[d] # <<>> => up'[d] # <<>>
    BY <2>1, <2>4 DEF Delivered, TcpInv, TcpTypeOK
  <2>6. ReadableKept
    BY <2>1, <2>5, ReadableMeans DEF ReadableKept
  <2> QED
    BY <2>1, <2>6 DEF EndsKept
<1>2. CASE ClientReads(c) \/ ClientReadFails(c) \/ UNCHANGED tcpVars
  <2>1. UNCHANGED <<ssk, up, backlog>>
    BY <1>2 DEF ClientReads, ClientReadFails, tcpVars
  <2> QED
    BY <2>1 DEF EndsKept, ReadableKept
<1>3. ASSUME NEW q, LeavesUnread(c, q)
      PROVE  EndsKept /\ ReadableKept /\ UNCHANGED backlog
  <2>1. PICK l \in BOOLEAN : ssk' = [ssk EXCEPT ![c] = ClosedByPeer(ssk[c], q, l)]
    BY <1>3 DEF LeavesUnread
  <2>2. UNCHANGED <<up, backlog>>
    BY <1>3 DEF LeavesUnread
  <2>3. \A d \in Clients : ssk'[d] = ssk[d] \/ (ssk[d] = "est" /\ ssk'[d] \in {"fin", "finw", "err"})
    BY <2>1 DEF ClosedByPeer, TcpInv, TcpTypeOK
  <2>4. EndsKept
    BY <2>3 DEF EndsKept, Idle
  <2>5. ReadableKept
    BY <2>2, <2>3, ReadableMeans DEF ReadableKept
  <2> QED
    BY <2>2, <2>4, <2>5
<1>4. CASE ResetArrives(c)
  <2>1. /\ \A d \in Clients : ssk'[d] = ssk[d] \/ (ssk[d] = "finw" /\ ssk'[d] = "dead")
        /\ UNCHANGED <<up, backlog>>
    BY <1>4 DEF ResetArrives, ServerResetArrives, ClientResetArrives, TcpInv, TcpTypeOK
  <2>2. EndsKept
    BY <2>1 DEF EndsKept, Idle
  <2>3. ReadableKept
    BY <2>1, ReadableMeans DEF ReadableKept
  <2> QED
    BY <2>1, <2>2, <2>3
<1> QED
  BY <1>1, <1>2, <1>3, <1>4

\* What a step of a client calls of the kernel.
LEMMA ClientCalls ==
  ASSUME NEW c \in Clients, VariantNext(c)
  PROVE  \/ ClientConnects(c)
         \/ \E k \in 1 .. LineSize : ClientWrites(c, k)
         \/ ClientReads(c) \/ ClientReadFails(c)
         \/ \E q : LeavesUnread(c, q)
         \/ UNCHANGED tcpVars
<1>1. ClientCloses(c) => LeavesUnread(c, down[c])
  BY DEF ClientCloses, LeavesUnread
<1>2. CASE Connects(c) \/ SendsLine(c) \/ SendsNothing(c) \/ TakesAnswer(c)
  BY <1>2 DEF Connects, Connect, ConnectRefused, SendsLine, Send, SendsNothing,
              TakesAnswer, TakesReply, Reply, ReplyAtEnd, ReplyFails
<1>3. CASE SendGivesUp(c) \/ UserLeaves(c)
  BY <1>1, <1>3 DEF SendGivesUp, UserLeaves, Leaves
<1>4. CASE PyTakesAnswer(c)
  <2>1. CASE Reply(c) \/ TakesEmpty(c)
    BY <2>1 DEF Reply, TakesEmpty
  <2>2. CASE AnswerRaises(c)
    BY <1>1, <2>2 DEF AnswerRaises, LeavesUnread
  <2> QED
    BY <1>4, <2>1, <2>2 DEF PyTakesAnswer
<1> QED
  BY <1>2, <1>3, <1>4 DEF VariantNext, Answered

-----------------------------------------------------------------------------
(* The descriptor table of a process: what each step does to its agreement  *)
(* with the backlog and the kernel's connections.                          *)

\* FdTableOK and what keeps it: a connection waits in the backlog once, is
\* not on a descriptor as well, and was opened by its client.
FdTableInv ==
  /\ FdTypeOK
  /\ FdTableOK
  /\ \A k, l \in 1 .. Len(backlog) : backlog[k] = backlog[l] => k = l
  /\ \A k \in 1 .. Len(backlog) : \A f \in OpenFds : backlog[k] # fdt[f]
  /\ \A f \in OpenFds : csk[fdt[f]] # "none"

LEMMA BacklogRange ==
  ASSUME TcpTypeOK
  PROVE  Range(backlog) = {backlog[k] : k \in 1 .. Len(backlog)}
<1>1. DOMAIN backlog = 1 .. Len(backlog)
  BY DEF TcpTypeOK
<1> QED
  BY <1>1 DEF Range

LEMMA FdRange ==
  /\ ListenFd .. LastFd \subseteq Nat
  /\ ListenFd .. LastFd \subseteq 0 .. LastFd
  /\ ConnFds \subseteq ListenFd .. LastFd
  /\ \A f \in ListenFd .. LastFd : f # ListenFd => f \in ConnFds /\ f > ListenFd
  /\ ListenFd \in ListenFd .. LastFd
  BY FdAssumption DEF ListenFd, ConnFds

LEMMA TableInitInv == TcpInit /\ FdInit => FdTableInv
<1> SUFFICES ASSUME TcpInit, FdInit PROVE FdTableInv
  OBVIOUS
<1>1. OpenFds = {} /\ Len(backlog) = 0 /\ FdTypeOK
  BY FdAssumption DEF TcpInit, FdInit, OpenFds, FdTypeOK
<1>2. Range(backlog) = {}
  BY DEF Range, TcpInit
<1>3. FdTableOK
  BY <1>1, <1>2 DEF FdTableOK, TcpInit
<1> QED
  BY <1>1, <1>3 DEF FdTableInv

\* A step that opens and closes nothing.
LEMMA TableKept ==
  ASSUME FdTableInv, UNCHANGED <<fdt, nofile, backlog>>, EndsKept, StillOpen
  PROVE  FdTableInv'
<1>1. FdTypeOK' /\ OpenFds' = OpenFds
  BY DEF FdTableInv, FdTypeOK, OpenFds
<1>2. FdTableOK'
  BY <1>1 DEF FdTableInv, FdTableOK, EndsKept, Idle
<1>3. \A f \in OpenFds : fdt[f] \in Clients
  BY DEF FdTableInv, FdTypeOK, OpenFds
<1> QED
  BY <1>1, <1>2, <1>3 DEF FdTableInv, StillOpen

\* connect(): the connection is new, and goes to the backlog.
LEMMA TableConnects ==
  ASSUME TcpInv, FdTableInv, NEW c \in Clients, ClientConnects(c),
         UNCHANGED <<fdt, nofile>>
  PROVE  FdTableInv'
<1>1. /\ csk[c] = "none" /\ csk' = [csk EXCEPT ![c] = "est"]
      /\ ssk' = [ssk EXCEPT ![c] = "est"]
      /\ backlog' = Append(backlog, c)
  BY DEF ClientConnects
<1>2. /\ csk \in [Clients -> EndStates] /\ ssk \in [Clients -> EndStates]
      /\ backlog \in Seq(Clients) /\ Len(backlog) \in Nat
      /\ \A k \in 1 .. Len(backlog) : backlog[k] # c
  <2>1. backlog \in Seq(Clients)
    BY DEF TcpInv, TcpTypeOK
  <2>2. Len(backlog) \in Nat
    BY <2>1, LenProperties
  <2>3. \A k \in 1 .. Len(backlog) : backlog[k] # c
    BY <1>1 DEF TcpInv, EndsAgree
  <2> QED
    BY <2>1, <2>2, <2>3 DEF TcpInv, TcpTypeOK
<1>3. /\ Len(backlog') = Len(backlog) + 1
      /\ \A k \in 1 .. Len(backlog) : backlog'[k] = backlog[k]
      /\ backlog'[Len(backlog) + 1] = c
  BY <1>1, <1>2
<1>4. FdTypeOK' /\ OpenFds' = OpenFds /\ \A f \in OpenFds : fdt[f] # c
  BY <1>1 DEF FdTableInv, FdTypeOK, OpenFds
<1>5. Range(backlog') = Range(backlog) \cup {c}
  <2>1. TcpTypeOK /\ TcpTypeOK'
    BY ClientConnectsInv DEF TcpInv
  <2>2. Range(backlog) = {backlog[k] : k \in 1 .. Len(backlog)}
    BY <2>1, BacklogRange
  <2>3. Range(backlog') = {backlog'[k] : k \in 1 .. Len(backlog')}
    <3>1. DOMAIN backlog' = 1 .. Len(backlog')
      BY <2>1 DEF TcpTypeOK
    <3> QED
      BY <3>1 DEF Range
  <2> QED
    BY <1>2, <1>3, <2>2, <2>3
<1>6. FdTableOK'
  <2>1. \A f, g \in OpenFds' : fdt'[f] = fdt'[g] => f = g
    BY <1>4 DEF FdTableInv, FdTableOK
  <2>2. ASSUME NEW d \in Clients
        PROVE  ssk'[d] \notin {"none", "closed"}
                 <=> d \in Range(backlog') \cup {fdt'[f] : f \in OpenFds'}
    <3>1. CASE d = c
      BY <1>1, <1>2, <1>5, <3>1
    <3>2. CASE d # c
      <4>1. ssk'[d] = ssk[d]
        BY <1>1, <1>2, <3>2
      <4>2. ssk[d] \notin {"none", "closed"}
              <=> d \in Range(backlog) \cup {fdt[f] : f \in OpenFds}
        BY DEF FdTableInv, FdTableOK
      <4> QED
        BY <1>4, <1>5, <3>2, <4>1, <4>2
    <3> QED
      BY <3>1, <3>2
  <2> QED
    BY <2>1, <2>2 DEF FdTableOK
<1>7. \A k, l \in 1 .. Len(backlog') : backlog'[k] = backlog'[l] => k = l
  <2>1. \A k \in 1 .. Len(backlog') : k \in 1 .. Len(backlog) \/ k = Len(backlog) + 1
    BY <1>2, <1>3
  <2> QED
    BY <1>2, <1>3, <2>1 DEF FdTableInv
<1>8. \A k \in 1 .. Len(backlog') : \A f \in OpenFds' : backlog'[k] # fdt'[f]
  <2>1. \A k \in 1 .. Len(backlog') : k \in 1 .. Len(backlog) \/ k = Len(backlog) + 1
    BY <1>2, <1>3
  <2> QED
    BY <1>3, <1>4, <2>1 DEF FdTableInv
<1>9. \A f \in OpenFds' : csk'[fdt'[f]] # "none"
  BY <1>1, <1>2, <1>4 DEF FdTableInv, FdTypeOK, OpenFds
<1> QED
  BY <1>4, <1>6, <1>7, <1>8, <1>9 DEF FdTableInv

\* accept(): the oldest connection of the backlog goes to a free descriptor.
LEMMA TableAccepts ==
  ASSUME TcpInv, FdTableInv, NEW g \in FreeFds, ServerAccepts(Head(backlog)),
         fdt' = [fdt EXCEPT ![g] = Head(backlog)], UNCHANGED nofile
  PROVE  /\ FdTableInv'
         /\ OpenFds' = OpenFds \cup {g}
         /\ \A f \in OpenFds : f # g /\ fdt'[f] = fdt[f]
<1> DEFINE c == Head(backlog)
<1>1. /\ backlog # <<>> /\ backlog' = Tail(backlog)
      /\ UNCHANGED <<csk, ssk>>
  BY DEF ServerAccepts
<1>2. backlog \in Seq(Clients) /\ backlog' \in Seq(Clients)
  BY <1>1 DEF TcpInv, TcpTypeOK
<1>3. /\ Len(backlog) \in Nat \ {0} /\ Len(backlog') = Len(backlog) - 1
      /\ \A k \in 1 .. Len(backlog') : backlog'[k] = backlog[k + 1]
      /\ c = backlog[1] /\ c \in Clients
  BY <1>1, <1>2
<1> HIDE DEF c
<1>4. g \in ConnFds /\ fdt[g] = NoConn /\ c # NoConn
  BY <1>3, FdAssumption DEF FreeFds, OpenFds
<1>5. /\ fdt \in [ConnFds -> Clients \cup {NoConn}]
      /\ \A f \in ConnFds : fdt'[f] = IF f = g THEN c ELSE fdt[f]
  BY <1>4 DEF FdTableInv, FdTypeOK, c
<1>6. FdTypeOK'
  BY <1>3, <1>4, <1>5 DEF FdTableInv, FdTypeOK, c
<1>7. /\ OpenFds' = OpenFds \cup {g} /\ g \notin OpenFds
      /\ \A f \in OpenFds : f # g /\ fdt'[f] = fdt[f]
  BY <1>4, <1>5 DEF OpenFds
<1>8. fdt'[g] = c /\ \A f \in OpenFds : fdt[f] # c
  <2>1. 1 \in 1 .. Len(backlog)
    BY <1>3
  <2> QED
    BY <1>3, <1>4, <1>5, <2>1 DEF FdTableInv
<1>9. \A k \in 1 .. Len(backlog') :
        k + 1 \in 1 .. Len(backlog) /\ k + 1 # 1 /\ backlog'[k] # c
  BY <1>3 DEF FdTableInv
<1>10. Range(backlog) = Range(backlog') \cup {c}
  <2>1. Range(backlog) = {backlog[k] : k \in 1 .. Len(backlog)}
    BY BacklogRange DEF TcpInv
  <2>2. Range(backlog') = {backlog'[k] : k \in 1 .. Len(backlog')}
    <3>1. DOMAIN backlog' = 1 .. Len(backlog')
      BY <1>2
    <3> QED
      BY <3>1 DEF Range
  <2>3. \A k \in 1 .. Len(backlog) : k = 1 \/ (k - 1 \in 1 .. Len(backlog') /\ k = (k - 1) + 1)
    BY <1>3
  <2>4. Range(backlog) \subseteq Range(backlog') \cup {c}
    <3> SUFFICES ASSUME NEW k \in 1 .. Len(backlog)
                 PROVE  backlog[k] \in Range(backlog') \cup {c}
      BY <2>1
    <3>1. CASE k = 1
      BY <1>3, <3>1
    <3>2. CASE k - 1 \in 1 .. Len(backlog') /\ k = (k - 1) + 1
      BY <1>3, <2>2, <3>2
    <3> QED
      BY <2>3, <3>1, <3>2
  <2>5. Range(backlog') \cup {c} \subseteq Range(backlog)
    <3>1. 1 \in 1 .. Len(backlog)
      BY <1>3
    <3> QED
      BY <1>3, <1>9, <2>1, <2>2, <3>1
  <2> QED
    BY <2>4, <2>5
<1>11. FdTableOK'
  <2>1. \A e, f \in OpenFds' : fdt'[e] = fdt'[f] => e = f
    BY <1>7, <1>8 DEF FdTableInv, FdTableOK
  <2>2. {fdt'[f] : f \in OpenFds'} = {fdt[f] : f \in OpenFds} \cup {c}
    BY <1>7, <1>8
  <2> QED
    BY <1>1, <1>10, <2>1, <2>2 DEF FdTableInv, FdTableOK
<1>12. \A k, l \in 1 .. Len(backlog') : backlog'[k] = backlog'[l] => k = l
  <2> SUFFICES ASSUME NEW k \in 1 .. Len(backlog'), NEW l \in 1 .. Len(backlog'),
                      backlog'[k] = backlog'[l]
               PROVE  k = l
    OBVIOUS
  <2>1. backlog[k + 1] = backlog[l + 1]
    BY <1>3
  <2>2. k + 1 = l + 1
    BY <1>9, <2>1 DEF FdTableInv
  <2> QED
    BY <1>3, <2>2
<1>13. \A k \in 1 .. Len(backlog') : \A f \in OpenFds' : backlog'[k] # fdt'[f]
  BY <1>3, <1>7, <1>8, <1>9 DEF FdTableInv
<1>14. \A f \in OpenFds' : csk'[fdt'[f]] # "none"
  <2>1. csk[c] # "none"
    BY ServerAcceptsInv DEF c
  <2> QED
    BY <1>1, <1>7, <1>8, <2>1 DEF FdTableInv
<1> QED
  BY <1>6, <1>7, <1>11, <1>12, <1>13, <1>14 DEF FdTableInv

\* close() of an open descriptor.
LEMMA TableCloses ==
  ASSUME TcpInv, FdTableInv, NEW g \in OpenFds, FdCloses(g), StillOpen, UNCHANGED nofile
  PROVE  FdTableInv' /\ OpenFds' = OpenFds \ {g}
<1>1. /\ ServerCloses({fdt[g]})
      /\ fdt' = [fdt EXCEPT ![g] = NoConn]
      /\ UNCHANGED <<backlog, listening>>
  BY DEF FdCloses
<1>2. g \in ConnFds /\ fdt[g] \in Clients
  BY DEF FdTableInv, FdTypeOK, OpenFds
<1>3. \A f \in ConnFds : fdt'[f] = IF f = g THEN NoConn ELSE fdt[f]
  BY <1>1, <1>2 DEF FdTableInv, FdTypeOK
<1>4. OpenFds' = OpenFds \ {g} /\ \A f \in OpenFds' : fdt'[f] = fdt[f]
  BY <1>3 DEF OpenFds
<1>5. FdTypeOK'
  BY <1>1 DEF FdTableInv, FdTypeOK
<1>6. \A d \in Clients : ssk'[d] = IF d = fdt[g] THEN "closed" ELSE ssk[d]
  BY <1>1 DEF ServerCloses
<1>7. fdt[g] \notin Range(backlog)
  BY BacklogRange DEF FdTableInv, TcpInv
<1>8. FdTableOK'
  <2>1. \A e, f \in OpenFds' : fdt'[e] = fdt'[f] => e = f
    BY <1>4 DEF FdTableInv, FdTableOK
  <2>2. {fdt'[f] : f \in OpenFds'} = {fdt[f] : f \in OpenFds} \ {fdt[g]}
    BY <1>4 DEF FdTableInv, FdTableOK
  <2>3. ASSUME NEW d \in Clients
        PROVE  ssk'[d] \notin {"none", "closed"}
                 <=> d \in Range(backlog') \cup {fdt'[f] : f \in OpenFds'}
    <3>1. ssk[d] \notin {"none", "closed"}
            <=> d \in Range(backlog) \cup {fdt[f] : f \in OpenFds}
      BY DEF FdTableInv, FdTableOK
    <3> QED
      BY <1>1, <1>6, <1>7, <2>2, <3>1
  <2> QED
    BY <2>1, <2>3 DEF FdTableOK
<1>9. \A f \in OpenFds' : csk'[fdt'[f]] # "none"
  <2>1. \A f \in OpenFds : fdt[f] \in Clients
    BY DEF FdTableInv, FdTypeOK, OpenFds
  <2> QED
    BY <1>4, <2>1 DEF FdTableInv, StillOpen
<1> QED
  BY <1>1, <1>4, <1>5, <1>8, <1>9 DEF FdTableInv

\* The end of the process.
LEMMA TableGone ==
  ASSUME TcpInv, FdTableInv, ProcessGone, UNCHANGED nofile
  PROVE  FdTableInv'
<1> DEFINE S == {fdt[f] : f \in OpenFds} \cup Range(backlog)
<1>1. ServerCloses(S) /\ backlog' = <<>> /\ fdt' = [f \in ConnFds |-> NoConn]
  BY DEF ProcessGone
<1>2. FdTypeOK' /\ OpenFds' = {} /\ Len(backlog') = 0
  BY <1>1 DEF FdTableInv, FdTypeOK, OpenFds
<1>3. Range(backlog') = {}
  BY <1>1 DEF Range
<1>4. \A d \in Clients : ssk'[d] \in {"none", "closed"}
  <2>1. \A d \in Clients : d \notin S => ssk[d] \in {"none", "closed"}
    BY DEF FdTableInv, FdTableOK
  <2> HIDE DEF S
  <2> QED
    BY <1>1, <2>1 DEF ServerCloses
<1>5. FdTableOK'
  BY <1>2, <1>3, <1>4 DEF FdTableOK
<1> QED
  BY <1>2, <1>5 DEF FdTableInv

-----------------------------------------------------------------------------
(* What the calls on other connections leave to the server.                *)

\* A ready descriptor, the listening one or an open one, stays ready.
ReadyKept == \A f \in OpenFds \cup {ListenFd} : Ready(f) => Ready(f)'

\* A step of a client or of the network keeps the table, and what is ready.
LEMMA TableOthers ==
  ASSUME TcpInv, FdTableInv, StillOpen, UNCHANGED <<fdt, nofile>>,
         NEW c \in Clients, VariantNext(c) \/ ResetArrives(c)
  PROVE  FdTableInv' /\ ReadyKept /\ OpenFds' = OpenFds
<1>0. OpenFds' = OpenFds /\ \A f \in OpenFds : f # ListenFd /\ fdt[f] \in Clients
  BY DEF OpenFds, ConnFds, ListenFd, FdTableInv, FdTypeOK
<1>1. CASE ClientConnects(c)
  <2>1. FdTableInv'
    BY <1>1, TableConnects
  <2>2. /\ csk[c] = "none" /\ backlog' = Append(backlog, c)
        /\ \A d \in Clients \ {c} : ssk'[d] = ssk[d] /\ up'[d] = up[d]
    BY <1>1 DEF ClientConnects, TcpInv, TcpTypeOK
  <2>3. backlog' # <<>>
    <3>1. backlog \in Seq(Clients) /\ Len(backlog) \in Nat
      BY LenProperties DEF TcpInv, TcpTypeOK
    <3>2. Len(backlog') = Len(backlog) + 1
      BY <2>2, <3>1
    <3>3. Len(backlog') # 0
      BY <3>1, <3>2
    <3> QED
      BY <3>3, EmptySeq
  <2>4. ReadyKept
    BY <1>0, <2>2, <2>3 DEF ReadyKept, Ready, FdTableInv
  <2> QED
    BY <1>0, <2>1, <2>4
<1>2. CASE EndsKept /\ ReadableKept /\ UNCHANGED backlog
  <2>1. FdTableInv'
    BY <1>2, TableKept
  <2>2. ReadyKept
    BY <1>0, <1>2 DEF ReadyKept, Ready, ReadableKept
  <2> QED
    BY <1>0, <2>1, <2>2
<1>3. ClientConnects(c) \/ (EndsKept /\ ReadableKept /\ UNCHANGED backlog)
  BY ClientCalls, ConnectedKeeps
<1> QED
  BY <1>1, <1>2, <1>3
-----------------------------------------------------------------------------
(* Lines stay whole, where they arrive whole.                              *)

\* At most one line of a connection is under way: on its way up, in the hands
\* of the server or on its way back.  The client waits for it, and what comes
\* back completes everything it sent.
OneLine(s, pc, r, snt, gt, dn, held, upq) ==
  /\ r # "part"
  /\ Len(held) <= LineSize /\ Len(dn) <= LineSize
  /\ pc = "input" => dn = <<>>
  /\ dn # <<>> => gt \o dn = snt
  /\ s = "est" =>
       /\ Len(upq) <= LineSize
       /\ upq # <<>> \/ held # <<>> => pc = "reply" /\ dn = <<>>
       /\ held # <<>> => upq = <<>>

\* A step keeps that of every connection, whatever the server holds.
LinesKept ==
  \A d \in Clients : \A h \in Seq(Byte) :
    (csk[d] = "none" => h = <<>>)
    => (OneLine(ssk[d], cpc[d], rep[d], sent[d], got[d], down[d], h, up[d])
        => OneLine(ssk'[d], cpc'[d], rep'[d], sent'[d], got'[d], down'[d], h, up'[d]))

\* A step of the server after which it holds g of connection c instead of h: it
\* reads, writes, or hands on nothing, and then drops what it held, if it
\* does, of a connection that is over.
Hands(c, h, g) ==
  \/ \E k \in Chunks(c) : h = <<>> /\ ServerReads(c, k) /\ g = Taken(up[c], k)
  \/ SendsBack(c, h) /\ g = <<>>
  \/ /\ UNCHANGED <<down[c], sent[c], got[c]>>
     /\ \/ ssk'[c] # "est" /\ g \in {h, <<>>} /\ Len(up'[c]) <= Len(up[c])
        \/ UNCHANGED <<ssk[c], up[c]>> /\ g = h

\* A queue that is emptied is no longer than it was.
LEMMA ClosedEmpty ==
  ASSUME TcpInv, NEW c \in Clients
  PROVE  Len(<<>>) <= Len(up[c])
<1>1. up[c] \in Seq(Byte)
  BY DEF TcpInv, TcpTypeOK
<1> QED
  BY <1>1, LenProperties

\* A read that returns whole lines, of a queue of at most one, returns it.
LEMMA ReadsLine ==
  ASSUME NEW q \in Seq(Byte), NEW k \in ReadSizes(q), Len(q) <= LineSize,
         WholeLines \/ k = Len(q)
  PROVE  k = Len(q) /\ Taken(q, k) = q /\ Left(q, k) = <<>>
<1>1. Len(q) \in Nat /\ k \in 0 .. Len(q)
  BY LenProperties DEF ReadSizes
<1>2. k = Len(q)
  BY <1>1, TcpAssumption DEF ReadSizes
<1>3. Left(q, k) = <<>>
  <2>1. SubSeq(q, Len(q) + 1, Len(q)) = <<>>
    BY <1>1
  <2> QED
    BY <1>2, <2>1 DEF Left
<1>4. q = Taken(q, k) \o Left(q, k) /\ Taken(q, k) \in Seq(Byte)
  BY <1>1, TakenLeft
<1> QED
  BY <1>2, <1>3, <1>4, ConcatEmptySeq

\* The server takes the whole line that has arrived, hands it back, or neither.
LEMMA ServerLine ==
  ASSUME TcpInv, LinesArriveWhole, UNCHANGED clientVars,
         NEW c \in Clients, NEW h \in Seq(Byte), NEW g, Hands(c, h, g),
         Flow(ssk[c], sent[c], got[c], down[c], h, up[c]),
         OneLine(ssk[c], cpc[c], rep[c], sent[c], got[c], down[c], h, up[c])
  PROVE  OneLine(ssk'[c], cpc'[c], rep'[c], sent'[c], got'[c], down'[c], g, up'[c])
<1>1. /\ up[c] \in Seq(Byte) /\ down[c] \in Seq(Byte) /\ got[c] \in Seq(Byte)
      /\ up \in [Clients -> Seq(Byte)] /\ down \in [Clients -> Seq(Byte)]
      /\ UNCHANGED <<cpc[c], rep[c]>>
  BY DEF TcpInv, TcpTypeOK, clientVars
<1>2. LineSize \in Nat /\ Len(<<>>) = 0
  BY TcpAssumption
<1>3. ASSUME NEW k \in Chunks(c), h = <<>>, ServerReads(c, k), g = Taken(up[c], k)
      PROVE  OneLine(ssk'[c], cpc'[c], rep'[c], sent'[c], got'[c], down'[c], g, up'[c])
  <2>1. /\ k \in ReadSizes(up[c]) /\ (family = "SCTP" => k = Len(up[c]))
        /\ up'[c] = Left(up[c], k) /\ UNCHANGED <<ssk, down, sent, got>>
    BY <1>1, <1>3 DEF ServerReads, Chunks
  <2>2. k \in 0 .. Len(up[c]) /\ k <= LineSize /\ up[c] # <<>>
    BY <1>1, <2>1 DEF ReadSizes
  <2>3. Len(g) <= LineSize
    <3>1. Len(SubSeq(up[c], 1, k)) = k
      BY <1>1, <2>1 DEF ReadSizes
    <3> QED
      BY <1>3, <2>2, <3>1 DEF Taken
  <2>4. ssk[c] = "est" => up'[c] = <<>>
    BY <1>1, <2>1, ReadsLine DEF LinesArriveWhole, OneLine
  <2> QED
    BY <1>1, <1>2, <2>1, <2>2, <2>3, <2>4 DEF OneLine
<1>4. CASE SendsBack(c, h) /\ g = <<>>
  <2>1. /\ ssk'[c] = AfterWrite(ssk[c]) /\ ssk[c] \in {"est", "fin", "finw"}
        /\ down'[c] = Delivered(ssk[c], down[c], h)
        /\ UNCHANGED <<up, sent, got>>
    BY <1>1, <1>4 DEF SendsBack, ServerWrites, CanWrite, TcpInv, TcpTypeOK
  <2>2. CASE ssk[c] = "est" /\ h # <<>>
    <3>1. cpc[c] = "reply" /\ down[c] = <<>> /\ up[c] = <<>>
      BY <2>2 DEF OneLine
    <3>2. down'[c] = h
      BY <2>1, <2>2, <3>1, ConcatEmptySeq DEF Delivered
    <3>3. got[c] \o h = sent[c]
      <4>1. sent[c] = (got[c] \o down[c]) \o (h \o up[c])
        BY <2>2 DEF Flow
      <4>2. got[c] \o down[c] = got[c] /\ h \o up[c] = h
        BY <1>1, <3>1, ConcatEmptySeq
      <4> QED
        BY <4>1, <4>2
    <3>4. ssk'[c] = "est"
      BY <2>1, <2>2 DEF AfterWrite
    <3> QED
      BY <1>1, <1>2, <1>4, <2>1, <3>1, <3>2, <3>3, <3>4 DEF OneLine
  <2>3. CASE ssk[c] = "est" /\ h = <<>>
    <3>1. down'[c] = down[c] /\ ssk'[c] = "est"
      BY <1>1, <2>1, <2>3, ConcatEmptySeq DEF Delivered, AfterWrite
    <3> QED
      BY <1>1, <1>2, <1>4, <2>1, <2>3, <3>1 DEF OneLine
  <2>4. CASE ssk[c] # "est"
    BY <1>1, <1>2, <1>4, <2>1, <2>4 DEF OneLine, Delivered, AfterWrite
  <2> QED
    BY <2>2, <2>3, <2>4
<1>5. CASE /\ UNCHANGED <<down[c], sent[c], got[c]>>
           /\ \/ ssk'[c] # "est" /\ g \in {h, <<>>}
              \/ UNCHANGED <<ssk[c], up[c]>> /\ g = h
  <2>1. Len(g) <= LineSize
    BY <1>2, <1>5 DEF OneLine
  <2> QED
    BY <1>1, <1>5, <2>1 DEF OneLine
<1> QED
  BY <1>3, <1>4, <1>5 DEF Hands

\* A client that sends had nothing under way.
LEMMA LineSent ==
  ASSUME TcpInv, ClientInv, NEW c \in Clients, SendsLine(c), NEW h \in Seq(Byte),
         OneLine(ssk[c], cpc[c], rep[c], sent[c], got[c], down[c], h, up[c])
  PROVE  OneLine(ssk'[c], cpc'[c], rep'[c], sent'[c], got'[c], down'[c], h, up'[c])
<1>1. PICK k \in 1 .. LineSize : ClientWrites(c, k)
  BY DEF SendsLine, Send
<1> DEFINE data == [j \in 1 .. k |-> <<c, Len(sent[c]) + j>>]
<1>2. data \in Seq(Byte) /\ Len(data) = k
  <2>1. Len(sent[c]) \in Nat /\ k \in Nat
    BY LenProperties, TcpAssumption DEF TcpInv, TcpTypeOK
  <2> QED
    BY <2>1, LineType
<1>3. /\ up'[c] = Delivered(csk[c], up[c], data)
      /\ UNCHANGED <<ssk, down, got>>
  BY <1>1 DEF ClientWrites, TcpInv, TcpTypeOK
<1> HIDE DEF data
<1>4. cpc[c] = "input" /\ cpc'[c] = "reply" /\ UNCHANGED rep
  BY DEF SendsLine, Send, Goto, At, ClientInv, ClientTypeOK
<1>5. down[c] = <<>>
  BY <1>4 DEF OneLine
<1>6. CASE ssk[c] = "est"
  <2>1. csk[c] = "est" /\ up[c] = <<>> /\ h = <<>>
    BY <1>4, <1>6 DEF TcpInv, EndsAgree, OneLine
  <2>2. up'[c] = data
    BY <1>2, <1>3, <2>1, ConcatEmptySeq DEF Delivered
  <2> QED
    BY <1>2, <1>3, <1>4, <1>5, <2>1, <2>2, TcpAssumption DEF OneLine
<1>7. CASE ssk[c] # "est"
  BY <1>3, <1>4, <1>5, <1>7 DEF OneLine
<1> QED
  BY <1>6, <1>7

\* A client that reads an answer reads all of it.
LEMMA LineAnswered ==
  ASSUME TcpInv, ClientInv, LinesArriveWhole, NEW c \in Clients, TakesAnswer(c),
         NEW h \in Seq(Byte),
         OneLine(ssk[c], cpc[c], rep[c], sent[c], got[c], down[c], h, up[c])
  PROVE  OneLine(ssk'[c], cpc'[c], rep'[c], sent'[c], got'[c], down'[c], h, up'[c])
<1>1. /\ cpc[c] = "reply" /\ cpc'[c] = "input" /\ UNCHANGED <<ssk, up, sent>>
      /\ family = "SCTP" => down'[c] = <<>>
  BY DEF TakesAnswer, TakesReply, Reply, ReplyAtEnd, ReplyFails, ClientReads,
         ClientReadFails, tcpVars, Goto, At, ClientInv, ClientTypeOK
<1>2. LineSize \in Nat /\ Len(<<>>) = 0
  BY TcpAssumption
<1>3. CASE Reply(c)
  <2>1. PICK k \in ReadSizes(down[c]) :
          /\ got' = [got EXCEPT ![c] = got[c] \o Taken(down[c], k)]
          /\ down' = [down EXCEPT ![c] = Left(down[c], k)]
    BY <1>3 DEF Reply, ClientReads
  <2>2. /\ down[c] \in Seq(Byte) /\ k \in 0 .. Len(down[c]) /\ down[c] # <<>>
        /\ got \in [Clients -> Seq(Byte)] /\ down \in [Clients -> Seq(Byte)]
    BY DEF ReadSizes, TcpInv, TcpTypeOK
  <2>3. down'[c] = <<>>
    <3>1. CASE family = "SCTP"
      BY <1>1, <3>1
    <3>2. CASE WholeLines
      BY <2>1, <2>2, <3>2, ReadsLine DEF OneLine
    <3> QED
      BY <3>1, <3>2 DEF LinesArriveWhole
  <2>4. Taken(down[c], k) = down[c]
    <3>1. /\ down[c] = Taken(down[c], k) \o Left(down[c], k)
          /\ Taken(down[c], k) \in Seq(Byte)
      BY <2>2, TakenLeft
    <3>2. Left(down[c], k) = <<>>
      BY <2>1, <2>2, <2>3
    <3> QED
      BY <3>1, <3>2, ConcatEmptySeq
  <2>5. got'[c] = sent[c]
    BY <2>1, <2>2, <2>4 DEF OneLine
  <2>6. rep'[c] = "echo"
    BY <1>3, <2>5 DEF Reply, Report, ClientInv, ClientTypeOK
  <2>7. ssk[c] = "est" => up[c] = <<>> /\ h = <<>>
    BY <2>2 DEF OneLine
  <2> QED
    BY <1>1, <1>2, <2>3, <2>6, <2>7 DEF OneLine
<1>4. CASE ReplyAtEnd(c) \/ ReplyFails(c)
  <2>1. /\ csk[c] # "est" /\ rep'[c] # "part" /\ down'[c] = <<>>
    BY <1>4 DEF ReplyAtEnd, ReplyFails, AtEnd, ClientReadFails, Failing, Report,
                tcpVars, TcpInv, TcpTypeOK, ClientInv, ClientTypeOK
  <2>2. ssk'[c] # "est"
    BY <1>1, <2>1 DEF TcpInv, EndsAgree
  <2> QED
    BY <1>1, <1>2, <2>1, <2>2 DEF OneLine
<1> QED
  BY <1>3, <1>4 DEF TakesAnswer, TakesReply

\* A client that connects, or that ends.
LEMMA LineEnds ==
  ASSUME TcpInv, ClientInv, NEW c \in Clients, NEW h \in Seq(Byte),
         csk[c] = "none" => h = <<>>,
         Connects(c) \/ SendGivesUp(c) \/ UserLeaves(c),
         OneLine(ssk[c], cpc[c], rep[c], sent[c], got[c], down[c], h, up[c])
  PROVE  OneLine(ssk'[c], cpc'[c], rep'[c], sent'[c], got'[c], down'[c], h, up'[c])
<1>1. UNCHANGED rep /\ LineSize \in Nat /\ Len(<<>>) = 0
  BY TcpAssumption DEF Connects, Connect, ConnectRefused, SendGivesUp, UserLeaves, Leaves
<1>2. CASE Connects(c)
  <2>1. csk[c] = "none" /\ UNCHANGED <<up, down, sent, got>>
    BY <1>2 DEF Connects, Connect, ConnectRefused, ClientConnects, tcpVars, ClientInv, At
  <2>2. down[c] = <<>> /\ up[c] = <<>> /\ h = <<>>
    BY <2>1 DEF TcpInv, EndsAgree
  <2> QED
    BY <1>1, <2>1, <2>2 DEF OneLine
<1>3. CASE SendGivesUp(c) \/ UserLeaves(c)
  <2>1. ClientCloses(c) /\ cpc'[c] = "done"
    BY <1>3 DEF SendGivesUp, UserLeaves, Leaves, Goto, ClientInv, ClientTypeOK
  <2>2. /\ csk'[c] = "closed" /\ down'[c] = <<>>
        /\ LeavesUnread(c, down[c])
    BY <2>1 DEF ClientCloses, LeavesUnread, TcpInv, TcpTypeOK
  <2>3. ssk'[c] # "est"
    BY <2>2, ClientClosesInv DEF TcpInv, EndsAgree
  <2> QED
    BY <1>1, <2>2, <2>3 DEF OneLine
<1> QED
  BY <1>2, <1>3

\* Every step of a client; it touches no connection but its own.
LEMMA ClientLines ==
  ASSUME TcpInv, ClientInv, LinesArriveWhole, NEW c \in Clients, VariantNext(c)
  PROVE  LinesKept
<1> SUFFICES ASSUME NEW d \in Clients, NEW h \in Seq(Byte), csk[d] = "none" => h = <<>>,
                    OneLine(ssk[d], cpc[d], rep[d], sent[d], got[d], down[d], h, up[d])
             PROVE  OneLine(ssk'[d], cpc'[d], rep'[d], sent'[d], got'[d], down'[d], h, up'[d])
  BY DEF LinesKept
<1>1. CASE d = c
  <2>1. \/ SendsLine(c) \/ TakesAnswer(c)
        \/ Connects(c) \/ SendGivesUp(c) \/ UserLeaves(c)
    BY DEF VariantNext, SendsNothing, Answered, PyTakesAnswer, LinesArriveWhole
  <2> QED
    BY <1>1, <2>1, LineSent, LineAnswered, LineEnds
<1>2. CASE d # c
  <2>1. UNCHANGED <<ssk[d], up[d], down[d], sent[d], got[d]>>
    <3>1. ASSUME NEW k \in 1 .. LineSize, ClientWrites(c, k)
          PROVE  UNCHANGED <<ssk[d], up[d], down[d], sent[d], got[d]>>
      <4>1. \E x, y : /\ up' = [up EXCEPT ![c] = x] /\ sent' = [sent EXCEPT ![c] = y]
                      /\ UNCHANGED <<ssk, down, got>>
        BY <3>1 DEF ClientWrites
      <4> QED
        BY <1>2, <4>1 DEF TcpInv, TcpTypeOK
    <3>2. CASE ClientConnects(c) \/ ClientReads(c) \/ ClientReadFails(c) \/ UNCHANGED tcpVars
      BY <1>2, <3>2 DEF ClientConnects, ClientReads, ClientReadFails, tcpVars,
                        TcpInv, TcpTypeOK
    <3>3. ASSUME NEW q, LeavesUnread(c, q)
          PROVE  UNCHANGED <<ssk[d], up[d], down[d], sent[d], got[d]>>
      BY <1>2, <3>3 DEF LeavesUnread, TcpInv, TcpTypeOK
    <3> QED
      BY <3>1, <3>2, <3>3, ClientCalls
  <2>2. UNCHANGED <<cpc[d], rep[d]>>
    BY <1>2 DEF VariantNext, Connects, Connect, ConnectRefused, SendsLine, Send, SendGivesUp,
                SendsNothing, UserLeaves, Leaves, Answered, TakesAnswer, TakesReply, Reply,
                ReplyAtEnd, ReplyFails, PyTakesAnswer, TakesEmpty, AnswerRaises,
                Goto, Report, ClientInv, ClientTypeOK
  <2> QED
    BY <2>1, <2>2 DEF OneLine
<1> QED
  BY <1>1, <1>2

\* A reset that arrives.
LEMMA ResetLines ==
  ASSUME TcpInv, NEW c \in Clients, ResetArrives(c), UNCHANGED clientVars
  PROVE  LinesKept
<1>1. /\ UNCHANGED <<up, down, sent, got, cpc, rep>>
      /\ \A d \in Clients : ssk'[d] # "est" \/ UNCHANGED ssk[d]
  BY DEF ResetArrives, ServerResetArrives, ClientResetArrives, clientVars, TcpInv, TcpTypeOK
<1> QED
  BY <1>1 DEF LinesKept, OneLine

\* At the start nothing is under way.
LEMMA LinesInit ==
  ASSUME TcpInit, ClientInit, NEW c \in Clients
  PROVE  OneLine(ssk[c], cpc[c], rep[c], sent[c], got[c], down[c], <<>>, up[c])
  BY TcpAssumption DEF TcpInit, ClientInit, OneLine

-----------------------------------------------------------------------------
(* A process that holds a line has not answered its client.                *)

\* What the client read, what comes back to it, what the server holds and what
\* has arrived are, together, no more than the client sent.
Accounted(snt, gt, dn, held, upq) == Len(gt) + Len(dn) + Len(held) + Len(upq) <= Len(snt)

\* A step keeps that of every connection, whatever the server holds.
AccountsKept ==
  \A d \in Clients : \A h \in Seq(Byte) :
    Accounted(sent[d], got[d], down[d], h, up[d])
    => Accounted(sent'[d], got'[d], down'[d], h, up'[d])

\* The lengths of a queue's two parts.
LEMMA TakenLeftLen ==
  ASSUME NEW X, NEW q \in Seq(X), NEW k \in 0 .. Len(q)
  PROVE  /\ Len(Taken(q, k)) \in Nat /\ Len(Left(q, k)) \in Nat
         /\ Len(Taken(q, k)) + Len(Left(q, k)) = Len(q)
<1>1. Taken(q, k) \in Seq(X) /\ Left(q, k) \in Seq(X) /\ q = Taken(q, k) \o Left(q, k)
  BY TakenLeft
<1> QED
  BY <1>1, LenProperties

\* Bytes that a read moves, that a write moves or throws away, or that are
\* lost leave no more than there were.
LEMMA AccountServerReads ==
  ASSUME NEW snt \in Seq(Byte), NEW gt \in Seq(Byte), NEW dn \in Seq(Byte),
         NEW upq \in Seq(Byte), NEW k \in 0 .. Len(upq), Accounted(snt, gt, dn, <<>>, upq)
  PROVE  Accounted(snt, gt, dn, Taken(upq, k), Left(upq, k))
  BY TakenLeftLen, LenProperties DEF Accounted

LEMMA AccountServerWrites ==
  ASSUME NEW s, NEW snt \in Seq(Byte), NEW gt \in Seq(Byte), NEW dn \in Seq(Byte),
         NEW held \in Seq(Byte), NEW upq \in Seq(Byte), Accounted(snt, gt, dn, held, upq)
  PROVE  Accounted(snt, gt, Delivered(s, dn, held), <<>>, upq)
<1>1. Len(dn \o held) = Len(dn) + Len(held)
  OBVIOUS
<1> QED
  BY <1>1, LenProperties DEF Accounted, Delivered

LEMMA AccountLess ==
  ASSUME NEW snt \in Seq(Byte), NEW gt \in Seq(Byte), NEW dn \in Seq(Byte),
         NEW held \in Seq(Byte), NEW upq \in Seq(Byte),
         NEW dn2 \in Seq(Byte), NEW held2 \in Seq(Byte), NEW upq2 \in Seq(Byte),
         dn2 \in {dn, <<>>}, held2 \in {held, <<>>}, Len(upq2) <= Len(upq),
         Accounted(snt, gt, dn, held, upq)
  PROVE  Accounted(snt, gt, dn2, held2, upq2)
<1>1. Len(<<>>) = 0 /\ Len(dn) \in Nat /\ Len(held) \in Nat
  BY LenProperties
<1>2. /\ Len(dn2) <= Len(dn) /\ Len(held2) <= Len(held)
      /\ Len(dn2) \in Nat /\ Len(held2) \in Nat
  BY <1>1
<1> QED
  BY <1>1, <1>2, LenProperties DEF Accounted

LEMMA AccountClientWrites ==
  ASSUME NEW s, NEW snt \in Seq(Byte), NEW gt \in Seq(Byte), NEW dn \in Seq(Byte),
         NEW held \in Seq(Byte), NEW upq \in Seq(Byte), NEW data \in Seq(Byte),
         Accounted(snt, gt, dn, held, upq)
  PROVE  Accounted(snt \o data, gt, dn, held, Delivered(s, upq, data))
<1> DEFINE upq2 == Delivered(s, upq, data)
<1>1. Len(snt \o data) = Len(snt) + Len(data)
  OBVIOUS
<1>2. Len(upq2) = Len(upq) \/ Len(upq2) = Len(upq) + Len(data)
  BY DEF Delivered
<1> HIDE DEF upq2
<1>3. Accounted(snt \o data, gt, dn, held, upq2)
  BY <1>1, <1>2, LenProperties DEF Accounted
<1> QED
  BY <1>3 DEF upq2

LEMMA AccountClientReads ==
  ASSUME NEW snt \in Seq(Byte), NEW gt \in Seq(Byte), NEW dn \in Seq(Byte),
         NEW held \in Seq(Byte), NEW upq \in Seq(Byte), NEW k \in 0 .. Len(dn),
         Accounted(snt, gt, dn, held, upq)
  PROVE  Accounted(snt, gt \o Taken(dn, k), Left(dn, k), held, upq)
<1>1. Taken(dn, k) \in Seq(Byte)
  BY TakenLeft
<1>2. Len(gt \o Taken(dn, k)) = Len(gt) + Len(Taken(dn, k))
  BY <1>1
<1> QED
  BY <1>2, TakenLeftLen, LenProperties DEF Accounted

LEMMA AccountOpen ==
  ASSUME NEW snt \in Seq(Byte), NEW gt \in Seq(Byte), NEW dn \in Seq(Byte),
         NEW held \in Seq(Byte), NEW upq \in Seq(Byte), held # <<>>,
         Accounted(snt, gt, dn, held, upq)
  PROVE  gt # snt
<1>1. Len(held) \in Nat /\ Len(held) # 0
  BY LenProperties, EmptySeq
<1> QED
  BY <1>1, LenProperties DEF Accounted

\* What a server reads is never empty.
LEMMA ReadsSome ==
  ASSUME TcpInv, NEW c \in Clients, NEW k \in Chunks(c)
  PROVE  Taken(up[c], k) # <<>>
<1>1. /\ up[c] \in Seq(Byte) /\ k \in 1 .. Len(up[c]) /\ Len(up[c]) \in Nat
  BY LenProperties DEF Chunks, ReadSizes, TcpInv, TcpTypeOK
<1>2. Len(SubSeq(up[c], 1, k)) = k
  BY <1>1
<1> QED
  BY <1>1, <1>2 DEF Taken

\* A step of the server moves bytes or drops them.
LEMMA ServerAccount ==
  ASSUME TcpInv, TcpInv', NEW c \in Clients, NEW h \in Seq(Byte), NEW g, Hands(c, h, g),
         Accounted(sent[c], got[c], down[c], h, up[c])
  PROVE  Accounted(sent'[c], got'[c], down'[c], g, up'[c])
<1>1. /\ up[c] \in Seq(Byte) /\ down[c] \in Seq(Byte) /\ got[c] \in Seq(Byte)
      /\ sent[c] \in Seq(Byte) /\ up'[c] \in Seq(Byte)
      /\ up \in [Clients -> Seq(Byte)] /\ down \in [Clients -> Seq(Byte)]
  BY DEF TcpInv, TcpTypeOK
<1>2. ASSUME NEW k \in Chunks(c), h = <<>>, ServerReads(c, k), g = Taken(up[c], k)
      PROVE  Accounted(sent'[c], got'[c], down'[c], g, up'[c])
  <2>1. up'[c] = Left(up[c], k) /\ UNCHANGED <<down, sent, got>> /\ k \in 0 .. Len(up[c])
    BY <1>1, <1>2 DEF ServerReads, ReadSizes
  <2> QED
    BY <1>1, <1>2, <2>1, AccountServerReads
<1>3. CASE SendsBack(c, h) /\ g = <<>>
  <2>1. down'[c] = Delivered(ssk[c], down[c], h) /\ UNCHANGED <<up, sent, got>>
    BY <1>1, <1>3 DEF SendsBack, ServerWrites
  <2> QED
    BY <1>1, <1>3, <2>1, AccountServerWrites
<1>4. CASE /\ UNCHANGED <<down[c], sent[c], got[c]>>
           /\ \/ ssk'[c] # "est" /\ g \in {h, <<>>} /\ Len(up'[c]) <= Len(up[c])
              \/ UNCHANGED <<ssk[c], up[c]>> /\ g = h
  <2>1. CASE g \in {h, <<>>} /\ Len(up'[c]) <= Len(up[c])
    <3>1. down[c] \in {down[c], <<>>} /\ g \in Seq(Byte)
      BY <2>1, EmptySeq, Zenon
    <3>2. Accounted(sent[c], got[c], down[c], g, up'[c])
      BY <1>1, <2>1, <3>1, AccountLess
    <3> QED
      BY <1>4, <3>2
  <2>2. CASE UNCHANGED up[c] /\ g = h
    BY <1>4, <2>2
  <2> QED
    BY <1>4, <2>1, <2>2
<1> QED
  BY <1>2, <1>3, <1>4 DEF Hands

\* A step of a client: what it sends is what may arrive more.
LEMMA ClientAccount ==
  ASSUME TcpInv, NEW c \in Clients, VariantNext(c)
  PROVE  AccountsKept
<1> SUFFICES ASSUME NEW d \in Clients, NEW h \in Seq(Byte),
                    Accounted(sent[d], got[d], down[d], h, up[d])
             PROVE  Accounted(sent'[d], got'[d], down'[d], h, up'[d])
  BY DEF AccountsKept
<1>1. /\ up \in [Clients -> Seq(Byte)] /\ down \in [Clients -> Seq(Byte)]
      /\ got \in [Clients -> Seq(Byte)] /\ sent \in [Clients -> Seq(Byte)]
      /\ up[d] \in Seq(Byte) /\ down[d] \in Seq(Byte)
      /\ got[d] \in Seq(Byte) /\ sent[d] \in Seq(Byte)
  BY DEF TcpInv, TcpTypeOK
<1>2. ASSUME NEW k \in 1 .. LineSize, ClientWrites(c, k)
      PROVE  Accounted(sent'[d], got'[d], down'[d], h, up'[d])
  <2> DEFINE data == [j \in 1 .. k |-> <<c, Len(sent[c]) + j>>]
  <2>1. data \in Seq(Byte)
    <3>1. Len(sent[c]) \in Nat /\ k \in Nat
      BY <1>1, LenProperties, TcpAssumption
    <3> QED
      BY <3>1, LineType
  <2>2. /\ up' = [up EXCEPT ![c] = Delivered(csk[c], up[c], data)]
        /\ sent' = [sent EXCEPT ![c] = sent[c] \o data]
        /\ UNCHANGED <<down, got>>
    BY <1>2 DEF ClientWrites
  <2> HIDE DEF data
  <2>3. CASE d = c
    <3>1. up'[d] = Delivered(csk[c], up[d], data) /\ sent'[d] = sent[d] \o data
      BY <1>1, <2>2, <2>3
    <3> QED
      BY <1>1, <2>1, <2>2, <3>1, AccountClientWrites
  <2>4. CASE d # c
    BY <1>1, <2>2, <2>4
  <2> QED
    BY <2>3, <2>4
<1>3. CASE ClientReads(c)
  <2>1. PICK k \in ReadSizes(down[c]) :
          /\ got' = [got EXCEPT ![c] = got[c] \o Taken(down[c], k)]
          /\ down' = [down EXCEPT ![c] = Left(down[c], k)]
    BY <1>3 DEF ClientReads
  <2>2. UNCHANGED <<up, sent>> /\ k \in 0 .. Len(down[c])
    BY <1>1, <1>3 DEF ClientReads, ReadSizes
  <2>3. CASE d = c
    <3>1. got'[d] = got[d] \o Taken(down[d], k) /\ down'[d] = Left(down[d], k)
      BY <1>1, <2>1, <2>3
    <3> QED
      BY <1>1, <2>2, <2>3, <3>1, AccountClientReads
  <2>4. CASE d # c
    BY <1>1, <2>1, <2>2, <2>4
  <2> QED
    BY <2>3, <2>4
<1>4. ASSUME \/ UNCHANGED <<up, down, sent, got>>
             \/ UNCHANGED <<up, sent, got>> /\ down' = [down EXCEPT ![c] = <<>>]
      PROVE  Accounted(sent'[d], got'[d], down'[d], h, up'[d])
  <2>1. down'[d] \in {down[d], <<>>} /\ h \in {h, <<>>} /\ UNCHANGED <<up[d], sent[d], got[d]>>
    BY <1>1, <1>4
  <2>2. Len(up[d]) <= Len(up[d])
    BY <1>1, LenProperties
  <2>3. down'[d] \in Seq(Byte)
    BY <1>1, <2>1, EmptySeq, Zenon
  <2>4. Accounted(sent[d], got[d], down'[d], h, up[d])
    BY <1>1, <2>1, <2>2, <2>3, AccountLess
  <2> QED
    BY <2>1, <2>4
<1>5. CASE ClientConnects(c) \/ ClientReadFails(c) \/ (\E q : LeavesUnread(c, q))
           \/ UNCHANGED tcpVars
  BY <1>4, <1>5 DEF ClientConnects, ClientReadFails, LeavesUnread, tcpVars
<1> QED
  BY <1>2, <1>3, <1>5, ClientCalls

\* A reset that arrives leaves the queues.
LEMMA ResetAccount ==
  ASSUME NEW c \in Clients, ResetArrives(c)
  PROVE  AccountsKept
  BY DEF ResetArrives, ServerResetArrives, ClientResetArrives, AccountsKept

LEMMA AccountInit ==
  ASSUME TcpInit, NEW c \in Clients
  PROVE  Accounted(sent[c], got[c], down[c], <<>>, up[c])
  BY DEF TcpInit, Accounted

\* The write that kills a process is to a client that left, and did so before
\* it had read an answer to all it sent.
LEMMA KilledByLeaver ==
  ASSUME TcpInv, NEW c \in Clients, NEW h \in Seq(Byte), h # <<>>,
         Accounted(sent[c], got[c], down[c], h, up[c]), SendBackKills(c)
  PROVE  csk[c] = "closed" /\ got[c] # sent[c]
<1>1. csk[c] = "closed"
  BY DEF SendBackKills, ShutDown, TcpInv, EndsAgree
<1>2. got[c] # sent[c]
  BY AccountOpen DEF TcpInv, TcpTypeOK
<1> QED
  BY <1>1, <1>2
=============================================================================
