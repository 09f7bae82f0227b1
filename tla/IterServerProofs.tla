-------------------------- MODULE IterServerProofs --------------------------
(***************************************************************************)
(* Theorems about IterServer, for any clients, families, bounds, buffers,  *)
(* backlog and segmentation: its types are right, it serves one            *)
(* conversation at a time and forgets none, lines that arrive whole come   *)
(* back whole, its end meets no conversation but that of a client that     *)
(* left answers unread, and with its clients it implements EchoService.    *)
(***************************************************************************)
EXTENDS IterServer, TcpProofs

-----------------------------------------------------------------------------
(* The inductive invariant.                                                *)

\* A connection is being served.
Busy == spc \in {"read", "write", "close", "raise"}

\* What the server has read of connection c and not yet written back.
Held(c) == IF spc \in {"write", "raise"} /\ acceptfd = c THEN line ELSE <<>>

\* The connection being served was opened by a client, and does not wait in
\* the backlog as well.
ServerInv ==
  /\ Busy => /\ acceptfd \in Clients /\ csk[acceptfd] # "none"
             /\ acceptfd \notin Range(backlog)
  /\ spc \notin {"write", "raise"} => line = <<>>

\* No connection loses, repeats or mixes bytes.
StreamInv ==
  \A c \in Clients : Flow(ssk[c], sent[c], got[c], down[c], Held(c), up[c])

IInv ==
  /\ TcpInv /\ ClientInv /\ VariantTypeOK
  /\ ServerTypeOK /\ ServerInv /\ StreamInv /\ OneConversation

-----------------------------------------------------------------------------
(* Facts about one state.                                                  *)

LEMMA HeldType ==
  ASSUME ServerTypeOK, ServerInv, NEW c \in Clients
  PROVE  /\ Held(c) \in Seq(Byte)
         /\ csk[c] = "none" => Held(c) = <<>>
<1>1. <<>> \in Seq(Byte)
  BY EmptySeq
<1> QED
  BY <1>1 DEF Held, ServerTypeOK, ServerInv, Busy

\* A connection in the backlog was opened.
LEMMA BacklogOpened ==
  ASSUME TcpInv
  PROVE  /\ backlog \in Seq(Clients)
         /\ \A c \in Range(backlog) : c \in Clients /\ csk[c] # "none"
<1>1. backlog \in Seq(Clients) /\ DOMAIN backlog = 1 .. Len(backlog)
  BY DEF TcpInv, TcpTypeOK
<1> QED
  BY <1>1 DEF TcpInv, EndsAgree, Range

LEMMA InitInv == Init => IInv
<1> SUFFICES ASSUME Init PROVE IInv
  OBVIOUS
<1>1. TcpInv
  BY TcpInitInv DEF Init
<1>2. ClientInv
  BY DEF Init, ClientInit, TcpInit, ClientInv, ClientTypeOK, Reports, At
<1>3. VariantTypeOK
  BY DEF Init, VariantInit, VariantTypeOK
<1>4. ServerTypeOK /\ ServerInv
  BY EmptySeq DEF Init, ServerInit, ServerTypeOK, ServerInv, Busy
<1>5. StreamInv
  <2> SUFFICES ASSUME NEW c \in Clients
               PROVE  Flow(ssk[c], sent[c], got[c], down[c], Held(c), up[c])
    BY DEF StreamInv
  <2>1. sent[c] = <<>> /\ got[c] = <<>> /\ down[c] = <<>> /\ ssk[c] = "none"
    BY DEF Init, TcpInit
  <2>2. IsPrefix(<<>> \o <<>>, <<>>)
    BY ConcatEmptySeq, EmptySeq DEF IsPrefix
  <2> QED
    BY <2>1, <2>2 DEF Flow
<1>6. OneConversation
  BY DEF Init, TcpInit, ServerInit, OneConversation, Range, IsInjective
<1> QED
  BY <1>1, <1>2, <1>3, <1>4, <1>5, <1>6 DEF IInv

-----------------------------------------------------------------------------
(* What the steps have in common.                                          *)

\* A step that leaves the bytes where they are, between two system calls.
LEMMA StreamKept ==
  ASSUME StreamInv, UNCHANGED <<ssk, sent, got, down, up>>,
         \A c \in Clients : Held(c)' = Held(c)
  PROVE  StreamInv'
  BY DEF StreamInv

\* A step that ends connections; what it drops from the server's hands
\* belonged to them.
LEMMA StreamEnds ==
  ASSUME IInv, FlowStep,
         \A c \in Clients : Held(c)' = Held(c) \/ ssk'[c] # "est"
  PROVE  StreamInv'
<1> SUFFICES ASSUME NEW c \in Clients
             PROVE  Flow(ssk'[c], sent'[c], got'[c], down'[c], Held(c)', up'[c])
  BY DEF StreamInv
<1>1. Held(c) \in Seq(Byte) /\ (csk[c] = "none" => Held(c) = <<>>)
  BY HeldType DEF IInv
<1>2. Flow(ssk'[c], sent'[c], got'[c], down'[c], Held(c), up'[c])
  BY <1>1 DEF FlowStep, IInv, StreamInv
<1>3. CASE Held(c)' = Held(c)
  BY <1>2, <1>3
<1>4. CASE ssk'[c] # "est"
  BY <1>2, <1>4 DEF Flow
<1> QED
  BY <1>3, <1>4

\* A step that opens and closes nothing, and goes on with the connection at
\* hand.
LEMMA ConversationKept ==
  ASSUME IInv, EndsKept, UNCHANGED <<backlog, acceptfd>>, Busy' <=> Busy
  PROVE  OneConversation'
  BY DEF IInv, OneConversation, EndsKept, Idle, Busy

\* A step that closes the connections in S, and then waits in accept() with
\* what is left of the backlog, or is gone.
LEMMA ConversationEnds ==
  ASSUME IInv, NEW S, ServerCloses(S), ~ Busy',
         \/ Busy /\ S = {acceptfd} /\ backlog' = backlog
         \/ Busy /\ S = {acceptfd} \cup Range(backlog) /\ backlog' = <<>>
         \/ ~ Busy /\ S = Range(backlog) /\ backlog' = <<>>
  PROVE  OneConversation'
<1>1. \A c \in Clients : ssk'[c] = IF c \in S THEN "closed" ELSE ssk[c]
  BY DEF ServerCloses
<1>2. CASE Busy /\ S = {acceptfd} /\ backlog' = backlog
  BY <1>1, <1>2 DEF IInv, OneConversation, ServerInv, Busy
<1>3. CASE /\ S = {acceptfd} \cup Range(backlog) \/ (~ Busy /\ S = Range(backlog))
           /\ backlog' = <<>>
  <2>1. Range(backlog') = {} /\ IsInjective(backlog')
    BY <1>3 DEF Range, IsInjective
  <2> QED
    BY <1>1, <1>3, <2>1 DEF IInv, OneConversation, Busy
<1> QED
  BY <1>2, <1>3

\* What the other parts of the invariant need of a step of the server.
LEMMA ServerKeeps ==
  ASSUME IInv, TcpInv', PhasesKept, UNCHANGED <<sent, got>>,
         UNCHANGED <<clientVars, variantVars>>,
         ServerTypeOK', ServerInv', StreamInv', OneConversation'
  PROVE  IInv' /\ PhasesKept /\ UNCHANGED <<sent, got>>
  BY ClientsKept, VariantKept DEF IInv

-----------------------------------------------------------------------------
(* The steps of the server.                                                *)

LEMMA AcceptStep ==
  ASSUME IInv, Accept, UNCHANGED <<clientVars, variantVars>>
  PROVE  IInv' /\ PhasesKept /\ UNCHANGED <<sent, got>>
<1> DEFINE c == Head(backlog)
<1>1. /\ spc = "accept" /\ backlog # <<>> /\ ServerAccepts(c)
      /\ acceptfd' = c /\ spc' = "read" /\ UNCHANGED line
  BY DEF Accept
<1>2. /\ backlog' = Tail(backlog)
      /\ UNCHANGED <<csk, ssk, up, down, sent, got>>
  BY <1>1 DEF ServerAccepts
<1>3. TcpInv' /\ c \in Clients /\ csk[c] # "none"
  BY <1>1, ServerAcceptsInv DEF IInv
<1>4. /\ Range(backlog) = Range(backlog') \cup {c}
      /\ IsInjective(backlog') /\ c \notin Range(backlog')
  <2>1. backlog \in Seq(Clients) /\ IsInjective(backlog)
    BY DEF IInv, TcpInv, TcpTypeOK, OneConversation
  <2> QED
    BY <1>1, <1>2, <2>1, TailRange
<1> HIDE DEF c
<1>5. ServerTypeOK' /\ ServerInv' /\ PhasesKept
  BY <1>1, <1>2, <1>3, <1>4 DEF IInv, ServerTypeOK, ServerInv, Busy, PhasesKept
<1>6. StreamInv'
  BY <1>1, <1>2, StreamKept DEF IInv, Held
<1>7. OneConversation'
  BY <1>1, <1>2, <1>3, <1>4 DEF IInv, OneConversation
<1> QED
  BY <1>2, <1>3, <1>5, <1>6, <1>7, ServerKeeps

LEMMA ReadStep ==
  ASSUME IInv, Read, UNCHANGED <<clientVars, variantVars>>
  PROVE  IInv' /\ PhasesKept /\ UNCHANGED <<sent, got>>
<1> DEFINE c == acceptfd
<1>1. /\ spc = "read" /\ spc' \in {"write", "raise"} /\ UNCHANGED acceptfd
  BY DEF Read, AfterRead
<1>2. c \in Clients
  BY <1>1 DEF IInv, ServerInv, Busy
<1>3. PICK k \in ReadSizes(up[c]) : ServerReads(c, k) /\ line' = Taken(up[c], k)
  BY ChunksAreSizes DEF Read
<1> HIDE DEF c
<1>4. TcpInv'
  BY <1>2, <1>3, ServerReadsInv DEF IInv
<1>5. up' = [up EXCEPT ![c] = Left(up[c], k)]
      /\ UNCHANGED <<csk, ssk, down, sent, got, backlog>>
  BY <1>3 DEF ServerReads
<1>6. /\ sent[c] \in Seq(Byte) /\ got[c] \in Seq(Byte) /\ down[c] \in Seq(Byte)
      /\ up[c] \in Seq(Byte) /\ k \in 0 .. Len(up[c])
  BY <1>2 DEF IInv, TcpInv, TcpTypeOK, ReadSizes
<1>7. line' \in Seq(Byte)
  BY <1>3, <1>6, TakenLeft
<1>8. ServerTypeOK' /\ ServerInv' /\ PhasesKept
  BY <1>1, <1>5, <1>7 DEF IInv, ServerTypeOK, ServerInv, Busy, PhasesKept
<1>9. StreamInv'
  <2> SUFFICES ASSUME NEW d \in Clients
               PROVE  Flow(ssk'[d], sent'[d], got'[d], down'[d], Held(d)', up'[d])
    BY DEF StreamInv
  <2>1. Held(d) = <<>> /\ Flow(ssk[d], sent[d], got[d], down[d], Held(d), up[d])
    BY <1>1 DEF IInv, StreamInv, Held
  <2>2. CASE d = c
    <3>1. Held(d)' = Taken(up[c], k) /\ up'[d] = Left(up[c], k)
      BY <1>1, <1>2, <1>3, <1>5, <2>2 DEF Held, c, IInv, TcpInv, TcpTypeOK
    <3>2. Flow(ssk[c], sent[c], got[c], down[c], Taken(up[c], k), Left(up[c], k))
      BY <1>6, <2>1, <2>2, FlowServerReads
    <3> QED
      BY <1>5, <2>2, <3>1, <3>2
  <2>3. CASE d # c
    <3>1. Held(d)' = <<>> /\ up'[d] = up[d]
      BY <1>1, <1>2, <1>5, <2>3 DEF Held, c, IInv, TcpInv, TcpTypeOK
    <3> QED
      BY <1>5, <2>1, <3>1
  <2> QED
    BY <2>2, <2>3
<1>10. OneConversation'
  BY <1>1, <1>5, ConversationKept DEF EndsKept, Busy
<1> QED
  BY <1>4, <1>5, <1>8, <1>9, <1>10, ServerKeeps

\* The read reports the end, or an error.
LEMMA ReadEndStep ==
  ASSUME IInv, ReadEnd \/ ReadFails, UNCHANGED <<clientVars, variantVars>>
  PROVE  IInv' /\ PhasesKept /\ UNCHANGED <<sent, got>>
<1>1. /\ spc = "read" /\ spc' \in {"close", "raise"}
      /\ UNCHANGED <<tcpVars, acceptfd, line>>
  BY DEF ReadEnd, ReadFails, AfterError
<1>2. UNCHANGED <<csk, ssk, up, down, sent, got, backlog, listening>>
  BY <1>1 DEF tcpVars
<1>3. TcpInv' /\ PhasesKept
  BY <1>2 DEF IInv, TcpInv, TcpTypeOK, EndsAgree, PhasesKept
<1>4. ServerTypeOK' /\ ServerInv'
  BY <1>1, <1>2 DEF IInv, ServerTypeOK, ServerInv, Busy
<1>5. StreamInv'
  BY <1>1, <1>2, StreamKept DEF IInv, ServerInv, Held
<1>6. OneConversation'
  BY <1>1, <1>2, ConversationKept DEF EndsKept, Busy
<1> QED
  BY <1>2, <1>3, <1>4, <1>5, <1>6, ServerKeeps

LEMMA WriteStep ==
  ASSUME IInv, Write, UNCHANGED <<clientVars, variantVars>>
  PROVE  IInv' /\ PhasesKept /\ UNCHANGED <<sent, got>>
<1> DEFINE c == acceptfd
<1>1. /\ spc = "write" /\ ServerWrites(c, line) /\ line' = <<>> /\ spc' = "read"
      /\ UNCHANGED acceptfd
  BY DEF Write, SendsBack
<1>2. c \in Clients /\ line \in Seq(Byte)
  BY <1>1 DEF IInv, ServerInv, ServerTypeOK, Busy
<1> HIDE DEF c
<1>3. TcpInv'
  BY <1>1, <1>2, ServerWritesInv DEF IInv
<1>4. /\ ssk' = [ssk EXCEPT ![c] = AfterWrite(ssk[c])]
      /\ down' = [down EXCEPT ![c] = Delivered(ssk[c], down[c], line)]
      /\ UNCHANGED <<csk, up, sent, got, backlog, listening>>
  BY <1>1 DEF ServerWrites
<1>5. ServerTypeOK' /\ ServerInv' /\ PhasesKept
  BY <1>1, <1>4, EmptySeq DEF IInv, ServerTypeOK, ServerInv, Busy, PhasesKept
<1>6. StreamInv'
  <2> SUFFICES ASSUME NEW d \in Clients
               PROVE  Flow(ssk'[d], sent'[d], got'[d], down'[d], Held(d)', up'[d])
    BY DEF StreamInv
  <2>1. Held(d)' = <<>> /\ Flow(ssk[d], sent[d], got[d], down[d], Held(d), up[d])
    BY <1>1 DEF IInv, StreamInv, Held
  <2>2. /\ sent[d] \in Seq(Byte) /\ got[d] \in Seq(Byte) /\ down[d] \in Seq(Byte)
        /\ up[d] \in Seq(Byte)
    BY DEF IInv, TcpInv, TcpTypeOK
  <2>3. CASE d = c
    <3>1. Held(d) = line
      BY <1>1, <2>3 DEF Held, c
    <3>2. ssk'[d] = AfterWrite(ssk[d]) /\ down'[d] = Delivered(ssk[d], down[d], line)
      BY <1>4, <2>3 DEF IInv, TcpInv, TcpTypeOK
    <3>3. Flow(ssk[d], sent[d], got[d], down[d], line, up[d])
      BY <2>1, <3>1
    <3>4. Flow(AfterWrite(ssk[d]), sent[d], got[d], Delivered(ssk[d], down[d], line), <<>>, up[d])
      BY <1>2, <2>2, <3>3, FlowServerWrites
    <3> QED
      BY <1>4, <2>1, <3>2, <3>4
  <2>4. CASE d # c
    <3>1. Held(d) = <<>> /\ ssk'[d] = ssk[d] /\ down'[d] = down[d]
      BY <1>4, <2>4 DEF Held, c, IInv, TcpInv, TcpTypeOK
    <3> QED
      BY <1>4, <2>1, <3>1
  <2> QED
    BY <2>3, <2>4
<1>7. OneConversation'
  <2>1. EndsKept
    BY <1>1, <1>2, ServerWritesKeeps DEF IInv
  <2> QED
    BY <1>1, <1>4, <2>1, ConversationKept DEF Busy
<1> QED
  BY <1>3, <1>4, <1>5, <1>6, <1>7, ServerKeeps

LEMMA WriteFailsStep ==
  ASSUME IInv, WriteFails, UNCHANGED <<clientVars, variantVars>>
  PROVE  IInv' /\ PhasesKept /\ UNCHANGED <<sent, got>>
<1> DEFINE c == acceptfd
<1>1. /\ spc = "write" /\ SendBackFails(c) /\ line' = <<>>
      /\ spc' \in {"close", "raise"} /\ UNCHANGED acceptfd
  BY DEF WriteFails, AfterError
<1>2. c \in Clients
  BY <1>1 DEF IInv, ServerInv, Busy
<1> HIDE DEF c
<1>3. /\ TcpInv' /\ FlowStep /\ ssk'[c] # "est"
      /\ UNCHANGED <<csk, down, sent, got, backlog>>
  BY <1>1, <1>2, SendBackFailsStep DEF IInv
<1>4. ServerTypeOK' /\ ServerInv' /\ PhasesKept
  BY <1>1, <1>3, EmptySeq DEF IInv, ServerTypeOK, ServerInv, Busy, PhasesKept
<1>5. StreamInv'
  <2>1. \A d \in Clients : Held(d)' = Held(d) \/ ssk'[d] # "est"
    BY <1>1, <1>3 DEF Held, c
  <2> QED
    BY <1>3, <2>1, StreamEnds
<1>6. OneConversation'
  <2>1. EndsKept
    BY <1>1, <1>2, SendBackFailsKeeps DEF IInv
  <2> QED
    BY <1>1, <1>3, <2>1, ConversationKept DEF Busy
<1> QED
  BY <1>3, <1>4, <1>5, <1>6, ServerKeeps

LEMMA DiesStep ==
  ASSUME IInv, Dies, UNCHANGED <<clientVars, variantVars>>
  PROVE  IInv' /\ PhasesKept /\ UNCHANGED <<sent, got>>
<1> DEFINE S == {acceptfd} \cup Range(backlog)
<1>1. /\ spc \in {"write", "raise"} /\ ServerCloses(S)
      /\ listening' = FALSE /\ backlog' = <<>>
      /\ spc' = "dead" /\ line' = <<>> /\ UNCHANGED acceptfd
  BY DEF Dies
<1>2. OneConversation'
  <2>1. Busy /\ ~ Busy'
    BY <1>1 DEF Busy
  <2> QED
    BY <1>1, <2>1, ConversationEnds
<1> HIDE DEF S
<1>3. TcpInv'
  BY <1>1, ExitsInv DEF IInv
<1>4. FlowStep /\ PhasesKept /\ UNCHANGED <<sent, got>>
  BY <1>1, ServerClosesFlow DEF IInv, ServerCloses
<1>5. ServerTypeOK' /\ ServerInv'
  BY <1>1, EmptySeq DEF IInv, ServerTypeOK, ServerInv, Busy
<1>6. StreamInv'
  <2>1. \A c \in Clients : Held(c)' = Held(c) \/ ssk'[c] # "est"
    BY <1>1 DEF Held, S, ServerCloses
  <2> QED
    BY <1>4, <2>1, StreamEnds
<1> QED
  BY <1>2, <1>3, <1>4, <1>5, <1>6, ServerKeeps

LEMMA AcceptFailsStep ==
  ASSUME IInv, AcceptFails, UNCHANGED <<clientVars, variantVars>>
  PROVE  IInv' /\ PhasesKept /\ UNCHANGED <<sent, got>>
<1> DEFINE S == Range(backlog)
<1>1. /\ spc = "accept" /\ ServerCloses(S)
      /\ listening' = FALSE /\ backlog' = <<>>
      /\ spc' = "dead" /\ UNCHANGED <<acceptfd, line>>
  BY DEF AcceptFails
<1>2. OneConversation'
  BY <1>1, ConversationEnds DEF Busy
<1> HIDE DEF S
<1>3. TcpInv'
  BY <1>1, ExitsInv DEF IInv
<1>4. FlowStep /\ PhasesKept /\ UNCHANGED <<sent, got>>
  BY <1>1, ServerClosesFlow DEF IInv, ServerCloses
<1>5. ServerTypeOK' /\ ServerInv'
  BY <1>1 DEF IInv, ServerTypeOK, ServerInv, Busy
<1>6. StreamInv'
  <2>1. \A c \in Clients : Held(c)' = Held(c)
    BY <1>1 DEF Held
  <2> QED
    BY <1>4, <2>1, StreamEnds
<1> QED
  BY <1>2, <1>3, <1>4, <1>5, <1>6, ServerKeeps

LEMMA CloseStep ==
  ASSUME IInv, Close, UNCHANGED <<clientVars, variantVars>>
  PROVE  IInv' /\ PhasesKept /\ UNCHANGED <<sent, got>>
<1>1. /\ spc = "close" /\ ServerCloses({acceptfd}) /\ spc' = "accept"
      /\ UNCHANGED <<acceptfd, line, backlog, listening>>
  BY DEF Close
<1>2. TcpInv'
  BY <1>1, ClosesInv DEF IInv
<1>3. FlowStep /\ PhasesKept /\ UNCHANGED <<sent, got>>
  BY <1>1, ServerClosesFlow DEF IInv, ServerCloses
<1>4. ServerTypeOK' /\ ServerInv'
  BY <1>1 DEF IInv, ServerTypeOK, ServerInv, Busy
<1>5. StreamInv'
  <2>1. \A c \in Clients : Held(c)' = Held(c)
    BY <1>1 DEF Held
  <2> QED
    BY <1>3, <2>1, StreamEnds
<1>6. OneConversation'
  BY <1>1, ConversationEnds DEF Busy
<1> QED
  BY <1>2, <1>3, <1>4, <1>5, <1>6, ServerKeeps

\* Every step of the server.
LEMMA ServerStep ==
  ASSUME IInv, ServerNext, UNCHANGED <<clientVars, variantVars>>
  PROVE  IInv' /\ PhasesKept /\ UNCHANGED <<sent, got>>
<1>1. CASE Accept
  BY <1>1, AcceptStep
<1>2. CASE Read
  BY <1>2, ReadStep
<1>3. CASE ReadEnd \/ ReadFails
  BY <1>3, ReadEndStep
<1>4. CASE Write
  BY <1>4, WriteStep
<1>5. CASE WriteFails
  BY <1>5, WriteFailsStep
<1>6. CASE Dies
  BY <1>6, DiesStep
<1>7. CASE Close
  BY <1>7, CloseStep
<1>8. CASE AcceptFails
  BY <1>8, AcceptFailsStep
<1> QED
  BY <1>1, <1>2, <1>3, <1>4, <1>5, <1>6, <1>7, <1>8 DEF ServerNext, ServerWorks

-----------------------------------------------------------------------------
(* All the steps.                                                          *)

\* A step of a client or of the network, which the server does not see.
LEMMA OthersKeep ==
  ASSUME IInv, UNCHANGED serverVars, TcpInv', ClientInv', VariantTypeOK',
         StillOpen, FlowStep,
         \/ EndsKept /\ UNCHANGED backlog
         \/ \E c \in Clients : ClientConnects(c)
  PROVE  IInv'
<1>1. UNCHANGED <<spc, acceptfd, line>>
  BY DEF serverVars
<1>2. ServerTypeOK'
  BY <1>1 DEF IInv, ServerTypeOK
<1>3. StreamInv'
  <2>1. \A c \in Clients : Held(c)' = Held(c)
    BY <1>1 DEF Held
  <2> QED
    BY <2>1, StreamEnds
<1>4. CASE EndsKept /\ UNCHANGED backlog
  <2>1. ServerInv'
    BY <1>1, <1>4 DEF IInv, ServerInv, Busy, StillOpen
  <2>2. OneConversation'
    BY <1>1, <1>4, ConversationKept DEF Busy
  <2> QED
    BY <1>2, <1>3, <2>1, <2>2 DEF IInv
<1>5. ASSUME NEW c \in Clients, ClientConnects(c)
      PROVE  IInv'
  <2>1. /\ csk[c] = "none" /\ ssk' = [ssk EXCEPT ![c] = "est"]
        /\ backlog' = Append(backlog, c)
    BY <1>5 DEF ClientConnects
  <2>2. /\ backlog \in Seq(Clients) /\ c \notin Range(backlog)
        /\ ~ (Busy /\ acceptfd = c)
    BY <2>1, BacklogOpened DEF IInv, ServerInv
  <2>3. Range(backlog') = Range(backlog) \cup {c} /\ IsInjective(backlog')
    BY <2>1, <2>2, AppendRange DEF IInv, OneConversation
  <2>4. ServerInv'
    BY <1>1, <2>2, <2>3 DEF IInv, ServerInv, Busy, StillOpen
  <2>5. \A d \in Clients : ssk'[d] = IF d = c THEN "est" ELSE ssk[d]
    BY <2>1 DEF IInv, TcpInv, TcpTypeOK
  <2>6. OneConversation'
    BY <1>1, <2>2, <2>3, <2>5 DEF IInv, OneConversation, Busy
  <2> QED
    BY <1>2, <1>3, <2>4, <2>6 DEF IInv
<1> QED
  BY <1>4, <1>5

LEMMA EchoFromInv == IInv => EchoIntegrity
  BY DEF IInv, StreamInv, Flow, EchoIntegrity

\* Every step keeps the invariant, and is a step of the abstract service or
\* changes nothing of it.
LEMMA NextStep ==
  ASSUME IInv, [Next]_vars
  PROVE  IInv' /\ EchoStep
<1>1. CASE ServerNext /\ UNCHANGED <<clientVars, variantVars>>
  BY <1>1, ServerStep, EchoStutter
<1>2. ASSUME NEW c \in Clients, VariantNext(c), UNCHANGED serverVars
      PROVE  IInv' /\ EchoStep
  <2>1. TcpInv' /\ ClientInv' /\ StillOpen /\ FlowStep /\ EchoStep
    BY <1>2, ClientStep, EchoFromInv DEF IInv
  <2>2. VariantTypeOK'
    BY <1>2, <2>1, VariantTypeKept DEF IInv
  <2>3. ClientConnects(c) \/ (EndsKept /\ UNCHANGED backlog)
    BY <1>2, ClientCalls, ConnectedKeeps DEF IInv
  <2> QED
    BY <1>2, <2>1, <2>2, <2>3, OthersKeep
<1>3. ASSUME NEW c \in Clients, ResetArrives(c),
             UNCHANGED <<clientVars, variantVars, serverVars>>
      PROVE  IInv' /\ EchoStep
  <2>1. TcpInv' /\ FlowStep /\ PhasesKept
    BY <1>3, ResetArrivesInv, ResetArrivesFlow DEF IInv
  <2>2. ClientInv' /\ StillOpen
    BY <1>3, <2>1, ClientsKept DEF IInv, StillOpen, PhasesKept
  <2>3. EchoStep
    BY <1>3, <2>1, EchoStutter DEF ResetArrives, ServerResetArrives, ClientResetArrives
  <2>4. VariantTypeOK'
    BY <1>3, VariantKept DEF IInv
  <2>5. EndsKept /\ UNCHANGED backlog
    BY <1>3, ConnectedKeeps DEF IInv
  <2> QED
    BY <1>3, <2>1, <2>2, <2>3, <2>4, <2>5, OthersKeep
<1>4. CASE UNCHANGED vars
  <2>1. /\ TcpInv' /\ FlowStep /\ PhasesKept /\ StillOpen
        /\ EndsKept /\ UNCHANGED backlog
    BY <1>4 DEF vars, tcpVars, IInv, TcpInv, TcpTypeOK, EndsAgree, FlowStep,
                PhasesKept, StillOpen, EndsKept
  <2>2. ClientInv' /\ EchoStep
    BY <1>4, <2>1, ClientsKept, EchoStutter DEF vars, tcpVars, IInv
  <2>3. VariantTypeOK'
    BY <1>4, VariantKept DEF vars, IInv
  <2> QED
    BY <1>4, <2>1, <2>2, <2>3, OthersKeep DEF vars
<1> QED
  BY <1>1, <1>2, <1>3, <1>4 DEF Next, AtRest

\* The inductive invariant holds in every state.
THEOREM Invariance == Spec => []IInv
<1>1. Init => IInv
  BY InitInv
<1>2. IInv /\ [Next]_vars => IInv'
  BY NextStep
<1> QED
  BY <1>1, <1>2, PTL DEF Spec

-----------------------------------------------------------------------------
(* The theorems.                                                           *)

\* The variables of the kernel, the clients and the server keep their types.
THEOREM TypeCorrect == Spec => []TypeOK
<1>1. IInv => TypeOK
  BY DEF IInv, TcpInv, ClientInv, TypeOK
<1> QED
  BY <1>1, Invariance, PTL

\* The kernel's connections are those of the backlog, each once, and the one
\* being served: the loop of accept, read, write and close neither forgets a
\* connection nor serves one twice, whichever call fails.
THEOREM ServesOneConversation == Spec => []OneConversation
<1>1. IInv => OneConversation
  BY DEF IInv
<1> QED
  BY <1>1, Invariance, PTL

\* The iterative server and its clients implement the abstract echo service,
\* on TCP, on SCTP and in Python, also when the server dies.
THEOREM ImplementsEcho == Spec => EchoSpec
<1>1. Init => Echo!Init
  BY DEF Init, TcpInit, Echo!Init
<1>2. IInv /\ [Next]_vars => [Echo!Next]_(Echo!vars)
  BY NextStep DEF EchoStep
<1> QED
  BY <1>1, <1>2, Invariance, PTL DEF Spec, EchoSpec, Echo!Spec

-----------------------------------------------------------------------------
(* Lines stay whole: a second invariant, inductive relative to the first.  *)

LineInv ==
  LinesArriveWhole =>
    \A c \in Clients :
      OneLine(ssk[c], cpc[c], rep[c], sent[c], got[c], down[c], Held(c), up[c])

\* What each step of the server does to a line.
LEMMA HandsOn ==
  ASSUME IInv, ServerNext, family # "Python", NEW c \in Clients
  PROVE  Hands(c, Held(c), Held(c)')
<1>1. CASE Accept
  BY <1>1 DEF Accept, ServerAccepts, Held, Hands
<1>2. CASE ReadEnd \/ ReadFails
  BY <1>2 DEF ReadEnd, ReadFails, AfterError, tcpVars, Held, Hands, IInv, ServerInv
<1>3. CASE Read
  <2>1. PICK k \in Chunks(acceptfd) :
          /\ ServerReads(acceptfd, k) /\ line' = Taken(up[acceptfd], k)
          /\ spc' \in AfterRead(acceptfd, k)
    BY <1>3 DEF Read
  <2>2. /\ spc = "read" /\ spc' = "write" /\ UNCHANGED <<acceptfd, ssk, down, sent, got>>
        /\ up' = [up EXCEPT ![acceptfd] = Left(up[acceptfd], k)]
    BY <1>3, <2>1 DEF Read, AfterRead, ServerReads
  <2>3. CASE c = acceptfd
    BY <2>1, <2>2, <2>3 DEF Held, Hands
  <2>4. CASE c # acceptfd
    BY <2>2, <2>4 DEF Held, Hands, IInv, TcpInv, TcpTypeOK
  <2> QED
    BY <2>3, <2>4
<1>4. CASE Write
  <2>1. /\ spc = "write" /\ spc' = "read" /\ UNCHANGED acceptfd
        /\ SendsBack(acceptfd, line) /\ acceptfd \in Clients
    BY <1>4 DEF Write, IInv, ServerInv, Busy
  <2>2. CASE c = acceptfd
    BY <2>1, <2>2 DEF Held, Hands
  <2>3. CASE c # acceptfd
    BY <2>1, <2>3 DEF Held, Hands, SendsBack, ServerWrites, IInv, TcpInv, TcpTypeOK
  <2> QED
    BY <2>2, <2>3
<1>5. CASE WriteFails
  <2>1. /\ acceptfd \in Clients /\ SendBackFails(acceptfd)
        /\ spc = "write" /\ spc' = "close" /\ UNCHANGED acceptfd
    BY <1>5 DEF WriteFails, AfterError, IInv, ServerInv, Busy
  <2>2. CASE c = acceptfd
    BY <2>1, <2>2, SendBackFailsStep DEF Held, Hands, IInv
  <2>3. CASE c # acceptfd
    <3>1. up'[c] = up[c]
      BY <2>1, <2>3 DEF SendBackFails, ServerWriteFails, tcpVars, IInv, TcpInv, TcpTypeOK
    <3> QED
      BY <2>1, <2>3, <3>1, SendBackFailsStep DEF Held, Hands, IInv
  <2> QED
    BY <2>2, <2>3
<1>6. CASE Dies \/ Close
  <2>1. PICK S : acceptfd \in S /\ ServerCloses(S)
    BY <1>6 DEF Dies, Close
  <2>2. /\ UNCHANGED <<acceptfd, down, sent, got>> /\ spc' \notin {"write", "raise"}
        /\ IF c \in S THEN ssk'[c] # "est" /\ Len(up'[c]) <= Len(up[c])
                      ELSE UNCHANGED <<ssk[c], up[c]>>
    BY <1>6, <2>1, ClosedEmpty DEF ServerCloses, Dies, Close, IInv
  <2>3. Held(c)' = <<>> /\ (c \notin S => Held(c) = <<>>)
    BY <2>1, <2>2 DEF Held
  <2> QED
    BY <2>2, <2>3 DEF Hands
<1>7. CASE AcceptFails
  <2>1. /\ spc = "accept" /\ spc' = "dead"
        /\ \E S : ServerCloses(S)
    BY <1>7 DEF AcceptFails
  <2>2. /\ UNCHANGED <<down, sent, got>>
        /\ \/ ssk'[c] # "est" /\ Len(up'[c]) <= Len(up[c])
           \/ UNCHANGED <<ssk[c], up[c]>>
    BY <2>1, ClosedEmpty DEF ServerCloses, IInv
  <2>3. Held(c) = <<>> /\ Held(c)' = <<>>
    BY <2>1 DEF Held
  <2> QED
    BY <2>2, <2>3 DEF Hands
<1> QED
  BY <1>1, <1>2, <1>3, <1>4, <1>5, <1>6, <1>7 DEF ServerNext, ServerWorks

LEMMA LineStep ==
  ASSUME IInv, LineInv, [Next]_vars
  PROVE  LineInv'
<1>1. UNCHANGED family
  BY DEF Next, VariantNext, variantVars, AtRest, vars
<1> SUFFICES ASSUME LinesArriveWhole, NEW c \in Clients
             PROVE  OneLine(ssk'[c], cpc'[c], rep'[c], sent'[c], got'[c], down'[c],
                            Held(c)', up'[c])
  BY <1>1 DEF LineInv, LinesArriveWhole
<1>2. OneLine(ssk[c], cpc[c], rep[c], sent[c], got[c], down[c], Held(c), up[c])
  BY DEF LineInv
<1>3. /\ Flow(ssk[c], sent[c], got[c], down[c], Held(c), up[c])
      /\ Held(c) \in Seq(Byte) /\ (csk[c] = "none" => Held(c) = <<>>)
  BY HeldType DEF IInv, StreamInv
<1>4. CASE ServerNext /\ UNCHANGED <<clientVars, variantVars>>
  <2>1. Hands(c, Held(c), Held(c)')
    BY <1>4, HandsOn DEF LinesArriveWhole
  <2> QED
    BY <1>2, <1>3, <1>4, <2>1, ServerLine DEF IInv
<1>5. ASSUME LinesKept, UNCHANGED serverVars
      PROVE  OneLine(ssk'[c], cpc'[c], rep'[c], sent'[c], got'[c], down'[c], Held(c)', up'[c])
  <2>1. Held(c)' = Held(c)
    BY <1>5 DEF serverVars, Held
  <2> QED
    BY <1>2, <1>3, <1>5, <2>1 DEF LinesKept
<1>6. ASSUME NEW d \in Clients, VariantNext(d)
      PROVE  LinesKept
  BY <1>6, ClientLines DEF IInv
<1>7. ASSUME NEW d \in Clients, ResetArrives(d), UNCHANGED clientVars
      PROVE  LinesKept
  BY <1>7, ResetLines DEF IInv
<1>8. CASE UNCHANGED vars
  BY <1>2, <1>8 DEF vars, tcpVars, clientVars, serverVars, Held
<1> QED
  BY <1>4, <1>5, <1>6, <1>7, <1>8 DEF Next, AtRest

\* Where lines arrive whole, one read of a client gives all of the line it
\* sent last, however the server and the network are scheduled: the
\* alternation of the client's loop leaves one line under way at a time, which
\* the server takes and hands back as it is.
THEOREM LinesStayWhole == Spec => []MessagesStayWhole
<1>1. Init => LineInv
  BY LinesInit DEF Init, ServerInit, LineInv, Held
<1>2. IInv /\ LineInv /\ [Next]_vars => LineInv'
  BY LineStep
<1>3. LineInv => MessagesStayWhole
  BY DEF LineInv, OneLine, MessagesStayWhole
<1> QED
  BY <1>1, <1>2, <1>3, Invariance, PTL DEF Spec
-----------------------------------------------------------------------------
(* Who ends the process.                                                   *)

\* A line that a C server is writing back is not empty, and none of its bytes
\* has reached the client: it has not read all it sent.
KillInv ==
  family # "Python" =>
    /\ spc # "raise"
    /\ spc = "write" => line # <<>>
    /\ \A c \in Clients : Accounted(sent[c], got[c], down[c], Held(c), up[c])

LEMMA NeverEmpty ==
  ASSUME IInv, KillInv, [Next]_vars, family # "Python"
  PROVE  spc' # "raise" /\ (spc' = "write" => line' # <<>>)
<1>1. CASE Read
  <2>1. acceptfd \in Clients
    BY <1>1 DEF Read, IInv, ServerInv, Busy
  <2> QED
    BY <1>1, <2>1, ReadsSome DEF Read, AfterRead, IInv
<1>2. CASE \/ Accept \/ AcceptFails \/ ReadEnd \/ ReadFails \/ Write \/ WriteFails
           \/ Dies \/ Close
  BY <1>2 DEF Accept, AcceptFails, ReadEnd, ReadFails, Write, WriteFails, Dies, Close, AfterError
<1>3. CASE UNCHANGED serverVars
  BY <1>3 DEF serverVars, KillInv
<1> QED
  BY <1>1, <1>2, <1>3 DEF Next, ServerNext, ServerWorks, AtRest, vars

LEMMA KillStep ==
  ASSUME IInv, IInv', KillInv, [Next]_vars
  PROVE  KillInv'
<1>1. UNCHANGED family
  BY DEF Next, VariantNext, variantVars, AtRest, vars
<1> SUFFICES ASSUME family # "Python", NEW c \in Clients
             PROVE  Accounted(sent'[c], got'[c], down'[c], Held(c)', up'[c])
  BY <1>1, NeverEmpty DEF KillInv
<1>2. Accounted(sent[c], got[c], down[c], Held(c), up[c]) /\ Held(c) \in Seq(Byte)
  BY HeldType DEF KillInv, IInv
<1>3. CASE ServerNext
  <2>1. Hands(c, Held(c), Held(c)')
    BY <1>3, HandsOn
  <2> QED
    BY <1>2, <2>1, ServerAccount DEF IInv
<1>4. ASSUME AccountsKept, UNCHANGED serverVars
      PROVE  Accounted(sent'[c], got'[c], down'[c], Held(c)', up'[c])
  <2>1. Held(c)' = Held(c)
    BY <1>4 DEF serverVars, Held
  <2> QED
    BY <1>2, <1>4, <2>1 DEF AccountsKept
<1>5. ASSUME NEW d \in Clients, VariantNext(d) \/ ResetArrives(d)
      PROVE  AccountsKept
  BY <1>5, ClientAccount, ResetAccount DEF IInv
<1>6. CASE UNCHANGED vars
  BY <1>2, <1>6 DEF vars, tcpVars, serverVars, Held
<1> QED
  BY <1>3, <1>4, <1>5, <1>6 DEF Next, AtRest

\* The end of a C server meets no conversation but that of a client that left
\* before it had read all its answers: the one it serves, whose line it is
\* writing (tcp-2-server.cc:85).  Otherwise the server ends in accept(), and
\* whoever is connected waits in the backlog.
KilledOnlyByItsClient ==
  [][family # "Python" /\ spc # "dead" /\ spc' = "dead" =>
       \/ csk[acceptfd] = "closed" /\ got[acceptfd] # sent[acceptfd]
       \/ \A c \in Clients : ssk[c] \notin {"none", "closed"} => c \in Range(backlog)]_vars

\* The step that ends the process.
LEMMA Death ==
  ASSUME IInv, KillInv, Next, family # "Python", spc # "dead", spc' = "dead"
  PROVE  \/ csk[acceptfd] = "closed" /\ got[acceptfd] # sent[acceptfd]
         \/ \A c \in Clients : ssk[c] \notin {"none", "closed"} => c \in Range(backlog)
<1>1. CASE Dies
  <2>1. acceptfd \in Clients /\ spc = "write" /\ SendBackKills(acceptfd)
    BY <1>1 DEF Dies, KillInv, IInv, ServerInv, Busy
  <2>2. Held(acceptfd) = line /\ line # <<>> /\ line \in Seq(Byte)
    BY <2>1 DEF Held, KillInv, IInv, ServerTypeOK
  <2> QED
    BY <2>1, <2>2, KilledByLeaver DEF KillInv, IInv
<1>2. CASE Accept \/ Read \/ ReadEnd \/ ReadFails \/ Write \/ WriteFails \/ Close
  BY <1>2 DEF Accept, Read, ReadEnd, ReadFails, Write, WriteFails, Close, AfterError, AfterRead
<1>3. CASE UNCHANGED serverVars
  BY <1>3 DEF serverVars
<1>4. CASE AcceptFails
  BY <1>4 DEF AcceptFails, IInv, OneConversation
<1> QED
  BY <1>1, <1>2, <1>3, <1>4 DEF Next, ServerNext, ServerWorks, AtRest, vars

\* A client that waits, or that takes its answers and leaves then, is served to
\* the end, unless it is still in the backlog when the server ends.
THEOREM OnlyItsClientKills == Spec => KilledOnlyByItsClient
<1>1. Init => KillInv
  BY AccountInit DEF Init, ServerInit, KillInv, Held
<1>2. IInv /\ IInv' /\ KillInv /\ [Next]_vars => KillInv'
  BY KillStep
<1>3. IInv /\ KillInv /\ [Next]_vars
      => [family # "Python" /\ spc # "dead" /\ spc' = "dead" =>
            \/ csk[acceptfd] = "closed" /\ got[acceptfd] # sent[acceptfd]
            \/ \A c \in Clients : ssk[c] \notin {"none", "closed"} => c \in Range(backlog)]_vars
  BY Death
<1> QED
  BY <1>1, <1>2, <1>3, Invariance, PTL DEF Spec, KilledOnlyByItsClient
=============================================================================
