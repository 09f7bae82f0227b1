-------------------------- MODULE ForkServerProofs --------------------------
(***************************************************************************)
(* Theorems about ForkServer, for any clients, bounds, segmentation and    *)
(* process limits, and for the three families of programs: its types are   *)
(* right, every connection is one child's, a conversation that has its     *)
(* child is ended by nobody else, a C child is killed by nobody but its    *)
(* own client, lines that arrive whole come back whole, and the server,    *)
(* its children and the clients implement EchoService.                     *)
(***************************************************************************)
EXTENDS ForkServer, TcpProofs

-----------------------------------------------------------------------------
(* The inductive invariant.                                                *)

Alive == {"read", "write", "exit", "raise"}

\* The parent has a descriptor from accept() to close(), and a child its own
\* as long as it lives.
TableInv ==
  /\ ppc \in {"fork", "close"} => acceptfd \in Clients
  /\ ppc = "fork" => kid[acceptfd] = "none"
  /\ fds[Parent] = IF ppc \in {"fork", "close"} THEN {acceptfd} ELSE {}
  /\ \A c \in Clients : fds[c] = IF kid[c] \in Alive THEN {c} ELSE {}

\* The connections of the backlog are there once, and nobody's.
BacklogInv ==
  /\ IsInjective(backlog)
  /\ \A c \in Range(backlog) : kid[c] = "none" /\ c \notin fds[Parent]

\* No connection of the kernel is forgotten.
Covered ==
  \A c \in Clients :
    ssk[c] \notin Idle => c \in Range(backlog) \/ \E p \in Procs : c \in fds[p]

\* A child was forked for an opened connection, holds bytes only between
\* read() and write(), and leaves its loop only when the client has left.
KidInv ==
  \A c \in Clients :
    /\ kid[c] # "none" \/ c \in fds[Parent] => csk[c] # "none"
    /\ line[c] # <<>> => kid[c] \in {"write", "raise"}
    /\ kid[c] = "exit" => ssk[c] # "est"
    /\ kid[c] = "zombie" => ssk[c] # "est" \/ family = "Python"
    /\ kid[c] = "raise" => family = "Python"

ServerInv == TableInv /\ BacklogInv /\ Covered /\ KidInv

\* No connection loses, repeats or mixes bytes.  A child that an exception
\* ended took the bytes h that it had read with it, while the parent may
\* still keep the connection open.
StreamInv ==
  \A c \in Clients : \E h \in Seq(Byte) :
    /\ kid[c] # "zombie" => h = line[c]
    /\ Flow(ssk[c], sent[c], got[c], down[c], h, up[c])

IInv ==
  /\ TcpInv /\ ClientInv /\ VariantTypeOK
  /\ ServerTypeOK /\ ServerInv /\ StreamInv

\* What ServedConversationsFinish says of a step.
ServedStep ==
  \A c \in Clients :
    ssk[c] # "closed" /\ ssk'[c] = "closed"
      => \/ csk[c] # "est" \/ kid[c] = "none"
         \/ family = "Python" /\ kid[c] \in {"raise", "zombie"}

\* A step establishes a connection only for a client that had none, and it
\* closes none.
NoneRevived ==
  \A c \in Clients : ssk'[c] = "est" => ssk[c] = "est" \/ csk[c] = "none"
NoneClosed == \A c \in Clients : ssk'[c] = "closed" => ssk[c] = "closed"

-----------------------------------------------------------------------------
(* Facts about one state.                                                  *)

LEMMA ProcFacts ==
  /\ Parent \in Procs /\ Clients \subseteq Procs /\ Parent \notin Clients
  /\ \A p \in Procs : p = Parent \/ p \in Clients
  BY ForkAssumption DEF Procs

LEMMA BacklogFacts ==
  ASSUME TcpInv
  PROVE  /\ backlog \in Seq(Clients)
         /\ \A c \in Range(backlog) : c \in Clients /\ csk[c] # "none"
<1>1. backlog \in Seq(Clients) /\ DOMAIN backlog = 1 .. Len(backlog)
  BY DEF TcpInv, TcpTypeOK
<1> QED
  BY <1>1 DEF TcpInv, EndsAgree, Range

\* Only an established connection's client is established.
LEMMA Established ==
  ASSUME TcpInv, NEW c \in Clients
  PROVE  csk[c] = "est" <=> ssk[c] = "est"
  BY DEF TcpInv, EndsAgree

LEMMA IsolatedFromInv == ServerInv => ChildrenIsolated
<1> SUFFICES ASSUME ServerInv PROVE ChildrenIsolated
  OBVIOUS
<1> QED
  BY DEF ServerInv, TableInv, Covered, ChildrenIsolated, Running, Alive, Idle

LEMMA InitInv == Init => IInv
<1> SUFFICES ASSUME Init PROVE IInv
  OBVIOUS
<1>1. TcpInv
  BY TcpInitInv DEF Init
<1>2. ClientInv
  BY DEF Init, ClientInit, TcpInit, ClientInv, ClientTypeOK, Reports, At
<1>3. VariantTypeOK
  BY DEF Init, VariantInit, VariantTypeOK
<1>4. ServerTypeOK
  BY EmptySeq, ProcFacts DEF Init, ServerInit, ServerTypeOK
<1>5. ServerInv
  BY ProcFacts DEF Init, TcpInit, ServerInit, ServerInv, TableInv, BacklogInv, Covered,
                   KidInv, Alive, Idle, Range, IsInjective
<1>6. StreamInv
  <2> SUFFICES ASSUME NEW c \in Clients
               PROVE  /\ line[c] \in Seq(Byte)
                      /\ Flow(ssk[c], sent[c], got[c], down[c], line[c], up[c])
    BY DEF StreamInv
  <2>1. sent[c] = <<>> /\ got[c] = <<>> /\ down[c] = <<>> /\ ssk[c] = "none" /\ line[c] = <<>>
    BY DEF Init, TcpInit, ServerInit
  <2>2. IsPrefix(<<>> \o <<>>, <<>>)
    BY ConcatEmptySeq, EmptySeq DEF IsPrefix
  <2> QED
    BY <2>1, <2>2, EmptySeq DEF Flow
<1> QED
  BY <1>1, <1>2, <1>3, <1>4, <1>5, <1>6 DEF IInv

-----------------------------------------------------------------------------
(* What the steps have in common.                                          *)

\* A step of the flow, after which a process holds what it held, or has lost
\* it with its connection.
LEMMA StreamKept ==
  ASSUME IInv, FlowStep,
         \A c \in Clients :
           \/ UNCHANGED <<kid[c], line[c]>>
           \/ kid[c] # "zombie" /\ (UNCHANGED line[c] \/ kid'[c] = "zombie")
           \/ line'[c] = <<>> /\ ssk'[c] # "est"
  PROVE  StreamInv'
<1> SUFFICES ASSUME NEW c \in Clients
             PROVE  \E h \in Seq(Byte) :
                      /\ kid'[c] # "zombie" => h = line'[c]
                      /\ Flow(ssk'[c], sent'[c], got'[c], down'[c], h, up'[c])
  BY DEF StreamInv
<1>1. PICK h \in Seq(Byte) :
        /\ kid[c] # "zombie" => h = line[c]
        /\ Flow(ssk[c], sent[c], got[c], down[c], h, up[c])
  BY DEF IInv, StreamInv
<1>2. csk[c] = "none" => h = <<>>
  BY <1>1 DEF IInv, ServerInv, KidInv
<1>3. Flow(ssk'[c], sent'[c], got'[c], down'[c], h, up'[c])
  BY <1>1, <1>2 DEF FlowStep
<1>4. CASE line'[c] = <<>> /\ ssk'[c] # "est"
  BY <1>3, <1>4, EmptySeq DEF Flow
<1>5. CASE \/ UNCHANGED <<kid[c], line[c]>>
           \/ kid[c] # "zombie" /\ (UNCHANGED line[c] \/ kid'[c] = "zombie")
  BY <1>1, <1>3, <1>5
<1> QED
  BY <1>4, <1>5

\* A living child goes on, with the connections open that were open.
LEMMA ChildMoves ==
  ASSUME IInv, TcpInv', NEW c \in Clients, kid[c] \in Alive,
         NEW l \in Alive, KidGoto(c, l),
         NEW x \in Seq(Byte), line' = [line EXCEPT ![c] = x],
         x # <<>> => l \in {"write", "raise"},
         l = "exit" => ssk'[c] # "est", l = "raise" => family = "Python",
         EndsKept, NoneRevived,
         UNCHANGED <<csk, backlog, maxprocs, ppc, acceptfd, fds>>, UNCHANGED variantVars
  PROVE  ServerTypeOK' /\ ServerInv'
<1>1. /\ kid' = [kid EXCEPT ![c] = l] /\ kid \in [Clients -> Alive \cup {"none", "zombie"}]
      /\ line \in [Clients -> Seq(Byte)] /\ family' = family
  BY DEF KidGoto, IInv, ServerTypeOK, Alive, variantVars
<1>2. ServerTypeOK'
  BY <1>1 DEF IInv, ServerTypeOK, Alive
<1>3. TableInv'
  BY <1>1 DEF IInv, ServerInv, TableInv, Alive
<1>4. BacklogInv'
  BY <1>1 DEF IInv, ServerInv, BacklogInv, Alive
<1>5. Covered'
  BY DEF IInv, ServerInv, Covered, EndsKept, Procs
<1>6. KidInv'
  <2> SUFFICES ASSUME NEW d \in Clients
               PROVE  /\ kid'[d] # "none" \/ d \in fds'[Parent] => csk'[d] # "none"
                      /\ line'[d] # <<>> => kid'[d] \in {"write", "raise"}
                      /\ kid'[d] = "exit" => ssk'[d] # "est"
                      /\ kid'[d] = "zombie" => ssk'[d] # "est" \/ family' = "Python"
                      /\ kid'[d] = "raise" => family' = "Python"
    BY DEF KidInv
  <2>1. /\ kid[d] # "none" \/ d \in fds[Parent] => csk[d] # "none"
        /\ line[d] # <<>> => kid[d] \in {"write", "raise"}
        /\ kid[d] = "exit" => ssk[d] # "est"
        /\ kid[d] = "zombie" => ssk[d] # "est" \/ family = "Python"
        /\ kid[d] = "raise" => family = "Python"
    BY DEF IInv, ServerInv, KidInv
  <2>2. ssk'[d] = "est" => ssk[d] = "est" \/ csk[d] = "none"
    BY DEF NoneRevived
  <2>3. CASE d = c
    BY <1>1, <2>1, <2>3 DEF Alive
  <2>4. CASE d # c
    BY <1>1, <2>1, <2>2, <2>4
  <2> QED
    BY <2>3, <2>4
<1> QED
  BY <1>2, <1>3, <1>4, <1>5, <1>6 DEF ServerInv

\* The other parts of the invariant after a step of the server.
LEMMA ServerKeeps ==
  ASSUME IInv, TcpInv', PhasesKept, UNCHANGED <<sent, got>>,
         UNCHANGED <<clientVars, variantVars>>,
         ServerTypeOK', ServerInv', StreamInv', ServedStep
  PROVE  IInv' /\ PhasesKept /\ UNCHANGED <<sent, got>> /\ ServedStep
  BY ClientsKept, VariantKept DEF IInv

\* A process gives up its descriptors on the connections in X, and the last
\* one to listen the backlog B as well.
LEMMA Releases ==
  ASSUME IInv, NEW p \in Procs, NEW X, NEW B,
         fds' = [fds EXCEPT ![p] = fds[p] \ X],
         ServerCloses(OnlyHere(p, X) \cup B),
         \/ B = {} /\ backlog' = backlog
         \/ B = Range(backlog) /\ backlog' = <<>>
  PROVE  /\ Covered'
         /\ IsInjective(backlog') /\ Range(backlog') \subseteq Range(backlog)
         /\ NoneRevived
<1>1. \A c \in Clients :
        ssk'[c] = IF c \in OnlyHere(p, X) \cup B THEN "closed" ELSE ssk[c]
  BY DEF ServerCloses
<1>2. fds \in [Procs -> SUBSET Clients]
  BY DEF IInv, ServerTypeOK
<1>3. IsInjective(backlog') /\ Range(backlog') \subseteq Range(backlog)
  BY DEF IInv, ServerInv, BacklogInv, Range, IsInjective
<1>4. ASSUME NEW c \in Clients, ssk'[c] \notin Idle
      PROVE  c \in Range(backlog') \/ \E q \in Procs : c \in fds'[q]
  <2>1. c \notin OnlyHere(p, X) /\ c \notin B /\ ssk[c] \notin Idle
    BY <1>1, <1>4 DEF Idle
  <2>2. c \in Range(backlog) \/ \E q \in Procs : c \in fds[q]
    BY <2>1 DEF IInv, ServerInv, Covered
  <2>3. CASE c \in Range(backlog)
    BY <2>1, <2>3
  <2>4. ASSUME NEW q \in Procs, c \in fds[q]
        PROVE  \E r \in Procs : c \in fds'[r]
    <3>1. CASE q # p
      BY <1>2, <2>4, <3>1
    <3>2. CASE q = p /\ c \notin X
      BY <1>2, <2>4, <3>2
    <3>3. CASE c \in X
      <4>1. PICK r \in Procs \ {p} : c \in fds[r]
        BY <2>1, <3>3 DEF OnlyHere
      <4> QED
        BY <1>2, <4>1
    <3> QED
      BY <3>1, <3>2, <3>3
  <2> QED
    BY <2>2, <2>3, <2>4
<1>5. Covered'
  BY <1>4 DEF Covered, Procs
<1>6. NoneRevived
  BY <1>1 DEF NoneRevived
<1> QED
  BY <1>3, <1>5, <1>6

\* The end of a process, in the kernel.
LEMMA EndsStep ==
  ASSUME IInv, NEW p \in Procs, Ends(p)
  PROVE  /\ TcpInv' /\ FlowStep /\ PhasesKept /\ UNCHANGED <<sent, got>>
         /\ Covered' /\ NoneRevived
         /\ IsInjective(backlog') /\ Range(backlog') \subseteq Range(backlog)
         /\ fds' = [fds EXCEPT ![p] = {}]
         /\ \A c \in Clients : ssk'[c] = "closed" =>
              ssk[c] = "closed" \/ c \in fds[p] \/ c \in Range(backlog)
         /\ \A c \in Clients : ssk[c] # "est" => ssk'[c] # "est"
<1> DEFINE last == Listeners = {p}
           B == {c \in Range(backlog) : last}
           S == OnlyHere(p, fds[p]) \cup B
<1>1. /\ fds' = [fds EXCEPT ![p] = {}] /\ ServerCloses(S)
      /\ listening' = (listening /\ ~last)
      /\ backlog' = IF last THEN <<>> ELSE backlog
  BY DEF Ends
<1>2. listening \in BOOLEAN /\ fds \in [Procs -> SUBSET Clients]
  BY DEF IInv, TcpInv, TcpTypeOK, ServerTypeOK
<1>3. \/ B = {} /\ backlog' = backlog /\ listening' = listening
      \/ B = Range(backlog) /\ backlog' = <<>> /\ listening' = FALSE
  BY <1>1, <1>2
<1>4. fds' = [fds EXCEPT ![p] = fds[p] \ fds[p]]
  BY <1>1
<1> HIDE DEF B
<1>5. /\ Covered' /\ NoneRevived
      /\ IsInjective(backlog') /\ Range(backlog') \subseteq Range(backlog)
  BY <1>1, <1>3, <1>4, Releases
<1>6. B \subseteq Range(backlog)
  BY <1>3
<1>7. \A c \in Clients : ssk'[c] = IF c \in S THEN "closed" ELSE ssk[c]
  BY <1>1 DEF ServerCloses
<1>8. \A c \in S : c \in fds[p] \/ c \in Range(backlog)
  BY <1>6 DEF OnlyHere
<1> HIDE DEF S
<1>9. TcpInv'
  BY <1>1, <1>3, ClosesInv, ExitsInv DEF IInv
<1>10. FlowStep /\ PhasesKept /\ UNCHANGED <<sent, got>>
  BY <1>1, ServerClosesFlow DEF IInv, ServerCloses
<1> QED
  BY <1>1, <1>5, <1>7, <1>8, <1>9, <1>10

-----------------------------------------------------------------------------
(* The steps of the parent.                                                *)

LEMMA AcceptStep ==
  ASSUME IInv, Accept, UNCHANGED maxprocs, UNCHANGED <<clientVars, variantVars>>
  PROVE  IInv' /\ PhasesKept /\ UNCHANGED <<sent, got>> /\ ServedStep
<1> DEFINE c == Head(backlog)
<1>1. /\ ppc = "accept" /\ backlog # <<>> /\ ServerAccepts(c)
      /\ acceptfd' = c /\ ppc' = "fork"
      /\ fds' = [fds EXCEPT ![Parent] = fds[Parent] \cup {c}]
      /\ UNCHANGED <<kid, line, maxprocs>>
  BY DEF Accept
<1>2. /\ backlog' = Tail(backlog)
      /\ UNCHANGED <<csk, ssk, up, down, sent, got>>
  BY <1>1 DEF ServerAccepts
<1>3. TcpInv' /\ c \in Clients /\ csk[c] # "none"
  BY <1>1, ServerAcceptsInv DEF IInv
<1>4. /\ Range(backlog) = Range(backlog') \cup {c}
      /\ IsInjective(backlog') /\ c \notin Range(backlog')
  <2>1. backlog \in Seq(Clients) /\ IsInjective(backlog)
    BY DEF IInv, TcpInv, TcpTypeOK, ServerInv, BacklogInv
  <2> QED
    BY <1>1, <1>2, <2>1, TailRange
<1> HIDE DEF c
<1>5. /\ fds \in [Procs -> SUBSET Clients] /\ fds[Parent] = {}
      /\ kid[c] = "none" /\ family' = family
  BY <1>1, <1>4 DEF IInv, ServerTypeOK, ServerInv, TableInv, BacklogInv, variantVars
<1>6. fds'[Parent] = {c} /\ \A d \in Clients : fds'[d] = fds[d]
  BY <1>1, <1>5, ProcFacts
<1>7. ServerTypeOK'
  BY <1>1, <1>3, <1>5, ProcFacts DEF IInv, ServerTypeOK
<1>8. TableInv'
  BY <1>1, <1>3, <1>5, <1>6 DEF IInv, ServerInv, TableInv
<1>9. BacklogInv'
  BY <1>1, <1>4, <1>6 DEF IInv, ServerInv, BacklogInv
<1>10. Covered'
  <2> SUFFICES ASSUME NEW d \in Clients, ssk'[d] \notin Idle
               PROVE  d \in Range(backlog') \/ \E p \in Procs : d \in fds'[p]
    BY DEF Covered, Procs
  <2>1. d \in Range(backlog) \/ \E p \in Procs : d \in fds[p]
    BY <1>2 DEF IInv, ServerInv, Covered
  <2>2. CASE d \in Range(backlog)
    BY <1>4, <1>6, <2>2, ProcFacts
  <2>3. CASE \E p \in Procs : d \in fds[p]
    BY <1>5, <1>6, <2>3, ProcFacts
  <2> QED
    BY <2>1, <2>2, <2>3
<1>11. KidInv'
  BY <1>1, <1>2, <1>3, <1>5, <1>6 DEF IInv, ServerInv, KidInv
<1>12. StreamInv'
  BY <1>1, <1>2 DEF IInv, StreamInv
<1>13. PhasesKept /\ ServedStep
  BY <1>2 DEF PhasesKept, ServedStep
<1> QED
  BY <1>2, <1>3, <1>7, <1>8, <1>9, <1>10, <1>11, <1>12, <1>13, ServerKeeps DEF ServerInv

LEMMA ForkStep ==
  ASSUME IInv, Fork, UNCHANGED maxprocs, UNCHANGED <<clientVars, variantVars>>
  PROVE  IInv' /\ PhasesKept /\ UNCHANGED <<sent, got>> /\ ServedStep
<1> DEFINE c == acceptfd
<1>1. /\ ppc = "fork" /\ ppc' = "close" /\ kid' = [kid EXCEPT ![c] = "read"]
      /\ fds' = [fds EXCEPT ![c] = fds[Parent]]
      /\ UNCHANGED <<acceptfd, line, maxprocs>>
      /\ UNCHANGED <<csk, ssk, up, down, sent, got, backlog, listening>>
      /\ family' = family
  BY DEF Fork, KidGoto, tcpVars, variantVars
<1>2. /\ c \in Clients /\ kid[c] = "none" /\ fds[Parent] = {c}
      /\ kid \in [Clients -> {"none", "read", "write", "exit", "raise", "zombie"}]
      /\ fds \in [Procs -> SUBSET Clients]
  BY <1>1 DEF IInv, ServerInv, TableInv, ServerTypeOK
<1>3. c' = c
  BY <1>1
<1> HIDE DEF c
<1>4. /\ fds'[Parent] = {c} /\ fds'[c] = {c}
      /\ \A d \in Clients \ {c} : fds'[d] = fds[d] /\ kid'[d] = kid[d]
      /\ kid'[c] = "read"
  BY <1>1, <1>2, ProcFacts
<1>5. TcpInv' /\ PhasesKept /\ ServedStep
  BY <1>1 DEF IInv, TcpInv, TcpTypeOK, EndsAgree, PhasesKept, ServedStep
<1>6. ServerTypeOK'
  BY <1>1, <1>2, ProcFacts DEF IInv, ServerTypeOK
<1>7. TableInv'
  BY <1>1, <1>2, <1>3, <1>4 DEF IInv, ServerInv, TableInv, Alive, c
<1>8. BacklogInv'
  <2>1. c \notin Range(backlog)
    BY <1>2 DEF IInv, ServerInv, BacklogInv
  <2>2. \A d \in Range(backlog) : d \in Clients
    BY BacklogFacts DEF IInv
  <2> QED
    BY <1>1, <1>2, <1>4, <2>1, <2>2 DEF IInv, ServerInv, BacklogInv
<1>9. Covered'
  <2> SUFFICES ASSUME NEW d \in Clients, ssk'[d] \notin Idle
               PROVE  d \in Range(backlog') \/ \E p \in Procs : d \in fds'[p]
    BY DEF Covered, Procs
  <2>1. d \in Range(backlog) \/ \E p \in Procs : d \in fds[p]
    BY <1>1 DEF IInv, ServerInv, Covered
  <2>2. ASSUME NEW p \in Procs, d \in fds[p]
        PROVE  d \in fds'[p] \/ d \in fds'[c]
    <3>1. p = Parent \/ p = c \/ p \in Clients \ {c}
      BY ProcFacts
    <3>2. p = c => kid[p] \notin Alive /\ fds[p] = {}
      BY <1>2 DEF IInv, ServerInv, TableInv, Alive
    <3> QED
      BY <1>2, <1>4, <2>2, <3>1, <3>2
  <2> QED
    BY <1>1, <1>2, <2>1, <2>2, ProcFacts
<1>10. KidInv'
  <2> SUFFICES ASSUME NEW d \in Clients
               PROVE  /\ kid'[d] # "none" \/ d \in fds'[Parent] => csk'[d] # "none"
                      /\ line'[d] # <<>> => kid'[d] \in {"write", "raise"}
                      /\ kid'[d] = "exit" => ssk'[d] # "est"
                      /\ kid'[d] = "zombie" => ssk'[d] # "est" \/ family' = "Python"
                      /\ kid'[d] = "raise" => family' = "Python"
    BY DEF KidInv
  <2>1. /\ kid[d] # "none" \/ d \in fds[Parent] => csk[d] # "none"
        /\ line[d] # <<>> => kid[d] \in {"write", "raise"}
        /\ kid[d] = "exit" => ssk[d] # "est"
        /\ kid[d] = "zombie" => ssk[d] # "est" \/ family = "Python"
        /\ kid[d] = "raise" => family = "Python"
    BY DEF IInv, ServerInv, KidInv
  <2>2. CASE d = c
    BY <1>1, <1>2, <1>4, <2>1, <2>2
  <2>3. CASE d # c
    BY <1>1, <1>2, <1>4, <2>1, <2>3
  <2> QED
    BY <2>2, <2>3
<1>11. FlowStep
  BY <1>1 DEF FlowStep
<1>12. StreamInv'
  <2>1. \A d \in Clients : \/ kid[d] # "zombie" /\ UNCHANGED line[d]
                           \/ UNCHANGED <<kid[d], line[d]>>
    BY <1>1, <1>2, <1>4
  <2> QED
    BY <1>11, <2>1, StreamKept
<1> QED
  BY <1>1, <1>5, <1>6, <1>7, <1>8, <1>9, <1>10, <1>12, ServerKeeps DEF ServerInv

LEMMA ForkFailsStep ==
  ASSUME IInv, ForkFails, UNCHANGED maxprocs, UNCHANGED <<clientVars, variantVars>>
  PROVE  IInv' /\ PhasesKept /\ UNCHANGED <<sent, got>> /\ ServedStep
<1>1. /\ ppc = "fork" /\ ppc' = "close"
      /\ UNCHANGED <<acceptfd, kid, line, fds, maxprocs>>
      /\ UNCHANGED <<csk, ssk, up, down, sent, got, backlog, listening>>
      /\ family' = family
  BY DEF ForkFails, tcpVars, variantVars
<1>2. TcpInv' /\ PhasesKept /\ ServedStep
  BY <1>1 DEF IInv, TcpInv, TcpTypeOK, EndsAgree, PhasesKept, ServedStep
<1>3. ServerTypeOK'
  BY <1>1 DEF IInv, ServerTypeOK
<1>4. TableInv' /\ BacklogInv' /\ Covered' /\ KidInv'
  BY <1>1 DEF IInv, ServerInv, TableInv, BacklogInv, Covered, KidInv, Procs
<1>5. StreamInv'
  BY <1>1 DEF IInv, StreamInv
<1> QED
  BY <1>1, <1>2, <1>3, <1>4, <1>5, ServerKeeps DEF ServerInv

\* The end of the parent reaches the connection it has no child for, and the
\* backlog, and no other.
LEMMA ParentEndsStep ==
  ASSUME IInv, AcceptFails \/ ForkRaises, UNCHANGED maxprocs,
         UNCHANGED <<clientVars, variantVars>>
  PROVE  IInv' /\ PhasesKept /\ UNCHANGED <<sent, got>> /\ ServedStep
<1>1. /\ ppc \in {"accept", "fork"} /\ ppc' = "dead" /\ Ends(Parent)
      /\ UNCHANGED <<acceptfd, kid, line, maxprocs>> /\ family' = family
  BY DEF AcceptFails, ForkRaises, variantVars
<1>2. /\ TcpInv' /\ FlowStep /\ PhasesKept /\ UNCHANGED <<sent, got>>
      /\ Covered' /\ NoneRevived
      /\ IsInjective(backlog') /\ Range(backlog') \subseteq Range(backlog)
      /\ fds' = [fds EXCEPT ![Parent] = {}]
      /\ \A c \in Clients : ssk'[c] = "closed" =>
           ssk[c] = "closed" \/ c \in fds[Parent] \/ c \in Range(backlog)
      /\ \A c \in Clients : ssk[c] # "est" => ssk'[c] # "est"
  BY <1>1, EndsStep, ProcFacts
<1>3. /\ fds \in [Procs -> SUBSET Clients]
      /\ \A c \in fds[Parent] : kid[c] = "none"
  BY <1>1 DEF IInv, ServerTypeOK, ServerInv, TableInv
<1>4. fds'[Parent] = {} /\ \A d \in Clients : fds'[d] = fds[d]
  BY <1>2, <1>3, ProcFacts
<1>5. ServerTypeOK'
  BY <1>1, <1>2, <1>3 DEF IInv, ServerTypeOK
<1>6. TableInv' /\ BacklogInv'
  BY <1>1, <1>2, <1>4 DEF IInv, ServerInv, TableInv, BacklogInv
<1>7. KidInv'
  BY <1>1, <1>2, <1>4 DEF IInv, ServerInv, KidInv, PhasesKept
<1>8. StreamInv'
  BY <1>1, <1>2, StreamKept
<1>9. ServedStep
  BY <1>2, <1>3 DEF ServedStep, IInv, ServerInv, BacklogInv
<1> QED
  BY <1>2, <1>5, <1>6, <1>7, <1>8, <1>9, ServerKeeps DEF ServerInv

\* The parent gives up its copy: the connection ends only if there is no
\* child, or no longer.
LEMMA ParentClosesStep ==
  ASSUME IInv, ParentCloses, UNCHANGED maxprocs, UNCHANGED <<clientVars, variantVars>>
  PROVE  IInv' /\ PhasesKept /\ UNCHANGED <<sent, got>> /\ ServedStep
<1> DEFINE c == acceptfd
           S == OnlyHere(Parent, {c})
<1>1. /\ ppc = "close" /\ ppc' = "accept"
      /\ fds' = [fds EXCEPT ![Parent] = fds[Parent] \ {c}] /\ ServerCloses(S)
      /\ UNCHANGED <<backlog, listening, acceptfd, kid, line, maxprocs>>
      /\ family' = family
  BY DEF ParentCloses, Closes, variantVars
<1>2. /\ c \in Clients /\ fds[Parent] = {c}
      /\ fds[c] = IF kid[c] \in Alive THEN {c} ELSE {}
      /\ fds \in [Procs -> SUBSET Clients]
  BY <1>1 DEF IInv, ServerInv, TableInv, ServerTypeOK
<1>3. fds'[Parent] = {} /\ \A d \in Clients : fds'[d] = fds[d]
  BY <1>1, <1>2, ProcFacts
<1>4. S \subseteq {c} /\ (kid[c] \in Alive => S = {})
  BY <1>2, ProcFacts DEF OnlyHere
<1>5. Covered' /\ NoneRevived
  <2>1. ServerCloses(OnlyHere(Parent, {c}) \cup {})
    BY <1>1
  <2> QED
    BY <1>1, <2>1, Releases, ProcFacts
<1> HIDE DEF S
<1>6. \A d \in Clients : ssk'[d] = IF d \in S THEN "closed" ELSE ssk[d]
  BY <1>1 DEF ServerCloses
<1>7. TcpInv'
  BY <1>1, ClosesInv DEF IInv
<1>8. FlowStep /\ PhasesKept /\ UNCHANGED <<sent, got>>
  BY <1>1, ServerClosesFlow DEF IInv, ServerCloses
<1>9. ServerTypeOK'
  BY <1>1, <1>2 DEF IInv, ServerTypeOK
<1>10. TableInv' /\ BacklogInv'
  BY <1>1, <1>3 DEF IInv, ServerInv, TableInv, BacklogInv
<1>11. KidInv'
  BY <1>1, <1>3, <1>6, <1>8 DEF IInv, ServerInv, KidInv, PhasesKept
<1>12. StreamInv'
  BY <1>1, <1>8, StreamKept
<1>13. ServedStep
  <2> SUFFICES ASSUME ssk[c] # "closed", ssk'[c] = "closed"
               PROVE  \/ csk[c] # "est" \/ kid[c] = "none"
                      \/ family = "Python" /\ kid[c] \in {"raise", "zombie"}
    BY <1>2, <1>4, <1>6 DEF ServedStep
  <2>1. kid[c] \in {"none", "zombie"}
    BY <1>2, <1>4, <1>6 DEF IInv, ServerTypeOK, Alive
  <2>2. kid[c] = "zombie" => ssk[c] # "est" \/ family = "Python"
    BY <1>2 DEF IInv, ServerInv, KidInv
  <2> QED
    BY <1>2, <2>1, <2>2, Established DEF IInv
<1> QED
  BY <1>5, <1>7, <1>8, <1>9, <1>10, <1>11, <1>12, <1>13, ServerKeeps DEF ServerInv

-----------------------------------------------------------------------------
(* The steps of a child.                                                   *)

LEMMA ChildReadsStep ==
  ASSUME IInv, NEW c \in Clients, ChildReads(c), UNCHANGED maxprocs,
         UNCHANGED <<clientVars, variantVars>>
  PROVE  IInv' /\ PhasesKept /\ UNCHANGED <<sent, got>> /\ ServedStep
<1>1. PICK k \in ReadSizes(up[c]), l \in {"write", "raise"} :
        /\ ServerReads(c, k) /\ line' = [line EXCEPT ![c] = Taken(up[c], k)]
        /\ l \in AfterRead(c, k) /\ KidGoto(c, l)
  BY ChunksAreSizes DEF ChildReads, AfterRead
<1>2. /\ kid[c] = "read" /\ l \in {"write", "raise"} /\ (l = "raise" => family = "Python")
      /\ UNCHANGED <<ppc, acceptfd, fds>> /\ l \in Alive /\ kid[c] \in Alive
  BY <1>1 DEF ChildReads, AfterRead, Alive
<1>3. up' = [up EXCEPT ![c] = Left(up[c], k)]
      /\ UNCHANGED <<csk, ssk, down, sent, got, backlog>>
  BY <1>1 DEF ServerReads
<1>4. /\ sent[c] \in Seq(Byte) /\ got[c] \in Seq(Byte) /\ down[c] \in Seq(Byte)
      /\ up[c] \in Seq(Byte) /\ k \in 0 .. Len(up[c])
  BY <1>1 DEF IInv, TcpInv, TcpTypeOK, ReadSizes
<1>5. Taken(up[c], k) \in Seq(Byte)
  BY <1>4, TakenLeft
<1>6. TcpInv' /\ EndsKept
  BY <1>1, ServerReadsInv, ServerReadsKeeps DEF IInv
<1>7. PhasesKept /\ NoneRevived /\ ServedStep
  BY <1>3 DEF PhasesKept, NoneRevived, ServedStep
<1>8. ServerTypeOK' /\ ServerInv'
  BY <1>1, <1>2, <1>3, <1>5, <1>6, <1>7, ChildMoves
<1>9. StreamInv'
  <2> SUFFICES ASSUME NEW d \in Clients
               PROVE  \E h \in Seq(Byte) :
                        /\ kid'[d] # "zombie" => h = line'[d]
                        /\ Flow(ssk'[d], sent'[d], got'[d], down'[d], h, up'[d])
    BY DEF StreamInv
  <2>1. PICK h \in Seq(Byte) :
          /\ kid[d] # "zombie" => h = line[d]
          /\ Flow(ssk[d], sent[d], got[d], down[d], h, up[d])
    BY DEF IInv, StreamInv
  <2>2. /\ kid \in [Clients -> {"none", "read", "write", "exit", "raise", "zombie"}]
        /\ line \in [Clients -> Seq(Byte)] /\ up \in [Clients -> Seq(Byte)]
    BY DEF IInv, ServerTypeOK, TcpInv, TcpTypeOK
  <2>3. CASE d = c
    <3>1. h = <<>>
      BY <1>2, <2>1, <2>3 DEF IInv, ServerInv, KidInv
    <3>2. line'[d] = Taken(up[c], k) /\ up'[d] = Left(up[c], k)
      BY <1>1, <1>3, <2>2, <2>3
    <3>3. Flow(ssk[c], sent[c], got[c], down[c], Taken(up[c], k), Left(up[c], k))
      BY <1>4, <2>1, <2>3, <3>1, FlowServerReads
    <3> QED
      BY <1>3, <1>5, <2>3, <3>2, <3>3
  <2>4. CASE d # c
    <3>1. line'[d] = line[d] /\ up'[d] = up[d] /\ kid'[d] = kid[d]
      BY <1>1, <1>3, <2>2, <2>4 DEF KidGoto
    <3> QED
      BY <1>3, <2>1, <3>1
  <2> QED
    BY <2>3, <2>4
<1> QED
  BY <1>3, <1>6, <1>7, <1>8, <1>9, ServerKeeps

\* The read reports the end, or an error.
LEMMA ChildReadEndStep ==
  ASSUME IInv, NEW c \in Clients, ChildReadEnds(c) \/ ChildReadFails(c),
         UNCHANGED maxprocs, UNCHANGED <<clientVars, variantVars>>
  PROVE  IInv' /\ PhasesKept /\ UNCHANGED <<sent, got>> /\ ServedStep
<1>1. PICK l \in {"exit", "raise"} :
        /\ KidGoto(c, l) /\ (l = "raise" => family = "Python")
        /\ kid[c] = "read" /\ ssk[c] # "est"
        /\ UNCHANGED <<tcpVars, ppc, acceptfd, line, fds>>
  BY DEF ChildReadEnds, ChildReadFails, AtEnd, Failing, AfterError
<1>2. UNCHANGED <<csk, ssk, up, down, sent, got, backlog, listening>>
  BY <1>1 DEF tcpVars
<1>3. TcpInv' /\ FlowStep /\ PhasesKept /\ EndsKept /\ NoneRevived /\ ServedStep
  BY <1>2 DEF IInv, TcpInv, TcpTypeOK, EndsAgree, FlowStep, PhasesKept, EndsKept,
              NoneRevived, ServedStep
<1>4. /\ line[c] = <<>> /\ line' = [line EXCEPT ![c] = line[c]] /\ line[c] \in Seq(Byte)
      /\ kid[c] \in Alive /\ l \in Alive
  BY <1>1 DEF IInv, ServerInv, KidInv, ServerTypeOK, Alive
<1>5. ServerTypeOK' /\ ServerInv'
  BY <1>1, <1>2, <1>3, <1>4, ChildMoves
<1>6. StreamInv'
  <2>1. \A d \in Clients :
          UNCHANGED <<kid[d], line[d]>> \/ (kid[d] # "zombie" /\ UNCHANGED line[d])
    BY <1>1 DEF KidGoto, IInv, ServerTypeOK
  <2> QED
    BY <1>3, <2>1, StreamKept
<1> QED
  BY <1>2, <1>3, <1>5, <1>6, ServerKeeps

LEMMA ChildWritesStep ==
  ASSUME IInv, NEW c \in Clients, ChildWrites(c), UNCHANGED maxprocs,
         UNCHANGED <<clientVars, variantVars>>
  PROVE  IInv' /\ PhasesKept /\ UNCHANGED <<sent, got>> /\ ServedStep
<1>1. /\ kid[c] = "write" /\ ServerWrites(c, line[c])
      /\ line' = [line EXCEPT ![c] = <<>>] /\ KidGoto(c, "read")
      /\ UNCHANGED <<ppc, acceptfd, fds>> /\ "read" \in Alive /\ kid[c] \in Alive
  BY DEF ChildWrites, SendsBack, Alive
<1>2. /\ kid \in [Clients -> {"none", "read", "write", "exit", "raise", "zombie"}]
      /\ line \in [Clients -> Seq(Byte)] /\ line[c] \in Seq(Byte) /\ <<>> \in Seq(Byte)
  BY EmptySeq DEF IInv, ServerTypeOK
<1>3. TcpInv' /\ EndsKept /\ UNCHANGED <<csk, backlog>>
  BY <1>1, <1>2, ServerWritesInv, ServerWritesKeeps DEF IInv
<1>4. /\ ssk' = [ssk EXCEPT ![c] = AfterWrite(ssk[c])]
      /\ down' = [down EXCEPT ![c] = Delivered(ssk[c], down[c], line[c])]
      /\ UNCHANGED <<up, sent, got>>
  BY <1>1 DEF ServerWrites
<1>5. ssk \in [Clients -> EndStates] /\ down \in [Clients -> Seq(Byte)]
  BY DEF IInv, TcpInv, TcpTypeOK
<1>6. PhasesKept /\ NoneRevived /\ ServedStep
  BY <1>3, <1>4, <1>5 DEF PhasesKept, NoneRevived, ServedStep, AfterWrite
<1>7. ServerTypeOK' /\ ServerInv'
  BY <1>1, <1>2, <1>3, <1>6, ChildMoves
<1>8. StreamInv'
  <2> SUFFICES ASSUME NEW d \in Clients
               PROVE  \E h \in Seq(Byte) :
                        /\ kid'[d] # "zombie" => h = line'[d]
                        /\ Flow(ssk'[d], sent'[d], got'[d], down'[d], h, up'[d])
    BY DEF StreamInv
  <2>1. PICK h \in Seq(Byte) :
          /\ kid[d] # "zombie" => h = line[d]
          /\ Flow(ssk[d], sent[d], got[d], down[d], h, up[d])
    BY DEF IInv, StreamInv
  <2>2. /\ sent[d] \in Seq(Byte) /\ got[d] \in Seq(Byte) /\ down[d] \in Seq(Byte)
        /\ up[d] \in Seq(Byte)
    BY DEF IInv, TcpInv, TcpTypeOK
  <2>3. CASE d = c
    <3>1. h = line[c]
      BY <1>1, <2>1, <2>3
    <3>2. /\ line'[d] = <<>> /\ ssk'[d] = AfterWrite(ssk[d])
          /\ down'[d] = Delivered(ssk[d], down[d], h)
      BY <1>1, <1>2, <1>4, <1>5, <2>3, <3>1
    <3>3. Flow(AfterWrite(ssk[d]), sent[d], got[d], Delivered(ssk[d], down[d], h), <<>>, up[d])
      BY <2>1, <2>2, FlowServerWrites
    <3> QED
      BY <1>2, <1>4, <3>2, <3>3
  <2>4. CASE d # c
    <3>1. /\ line'[d] = line[d] /\ kid'[d] = kid[d]
          /\ ssk'[d] = ssk[d] /\ down'[d] = down[d]
      BY <1>1, <1>2, <1>4, <1>5, <2>4 DEF KidGoto
    <3> QED
      BY <1>4, <2>1, <3>1
  <2> QED
    BY <2>3, <2>4
<1> QED
  BY <1>3, <1>4, <1>6, <1>7, <1>8, ServerKeeps

LEMMA ChildWriteFailsStep ==
  ASSUME IInv, NEW c \in Clients, ChildWriteFails(c), UNCHANGED maxprocs,
         UNCHANGED <<clientVars, variantVars>>
  PROVE  IInv' /\ PhasesKept /\ UNCHANGED <<sent, got>> /\ ServedStep
<1>1. PICK l \in {"exit", "raise"} :
        /\ KidGoto(c, l) /\ (l = "raise" => family = "Python")
        /\ kid[c] = "write" /\ SendBackFails(c) /\ line' = [line EXCEPT ![c] = <<>>]
        /\ UNCHANGED <<ppc, acceptfd, fds>>
  BY DEF ChildWriteFails, AfterError
<1>2. /\ TcpInv' /\ FlowStep /\ ssk'[c] # "est"
      /\ \A d \in Clients \ {c} : ssk'[d] = ssk[d]
      /\ UNCHANGED <<csk, down, sent, got, backlog>> /\ EndsKept
  BY <1>1, SendBackFailsStep, SendBackFailsKeeps DEF IInv
<1>3. ssk'[c] = "closed" => ssk[c] = "closed"
  BY <1>1 DEF SendBackFails, ServerWriteFails, tcpVars, IInv, TcpInv, TcpTypeOK
<1>4. PhasesKept /\ NoneRevived /\ ServedStep
  BY <1>2, <1>3 DEF PhasesKept, NoneRevived, ServedStep
<1>5. kid[c] \in Alive /\ l \in Alive /\ <<>> \in Seq(Byte)
  BY <1>1, EmptySeq DEF Alive
<1>6. ServerTypeOK' /\ ServerInv'
  BY <1>1, <1>2, <1>4, <1>5, ChildMoves
<1>7. StreamInv'
  <2>1. \A d \in Clients :
          UNCHANGED <<kid[d], line[d]>> \/ (line'[d] = <<>> /\ ssk'[d] # "est")
    BY <1>1, <1>2 DEF KidGoto, IInv, ServerTypeOK
  <2> QED
    BY <1>2, <2>1, StreamKept
<1> QED
  BY <1>2, <1>4, <1>6, <1>7, ServerKeeps

\* The end of a child: it is ended by its own client, or by an exception.
LEMMA ChildGoneStep ==
  ASSUME IInv, NEW c \in Clients, ChildExits(c) \/ ChildDies(c), UNCHANGED maxprocs,
         UNCHANGED <<clientVars, variantVars>>
  PROVE  IInv' /\ PhasesKept /\ UNCHANGED <<sent, got>> /\ ServedStep
<1>1. /\ kid' = [kid EXCEPT ![c] = "zombie"] /\ line' = [line EXCEPT ![c] = <<>>]
      /\ Ends(c) /\ UNCHANGED <<ppc, acceptfd, maxprocs>> /\ family' = family
  BY DEF ChildExits, ChildDies, ChildGone, KidGoto, variantVars
<1>2. kid[c] \in Alive /\ (ssk[c] # "est" \/ (family = "Python" /\ kid[c] = "raise"))
  BY DEF ChildExits, ChildDies, SendBackKills, ShutDown, IInv, ServerInv, KidInv, Alive
<1>3. /\ TcpInv' /\ FlowStep /\ PhasesKept /\ UNCHANGED <<sent, got>>
      /\ Covered' /\ NoneRevived
      /\ IsInjective(backlog') /\ Range(backlog') \subseteq Range(backlog)
      /\ fds' = [fds EXCEPT ![c] = {}]
      /\ \A d \in Clients : ssk'[d] = "closed" =>
           ssk[d] = "closed" \/ d \in fds[c] \/ d \in Range(backlog)
      /\ \A d \in Clients : ssk[d] # "est" => ssk'[d] # "est"
  BY <1>1, EndsStep, ProcFacts
<1>4. /\ fds \in [Procs -> SUBSET Clients] /\ fds[c] = {c}
      /\ kid \in [Clients -> {"none", "read", "write", "exit", "raise", "zombie"}]
      /\ line \in [Clients -> Seq(Byte)] /\ <<>> \in Seq(Byte)
  BY <1>2, EmptySeq DEF IInv, ServerTypeOK, ServerInv, TableInv
<1>5. /\ fds'[Parent] = fds[Parent] /\ fds'[c] = {}
      /\ kid'[c] = "zombie" /\ line'[c] = <<>>
      /\ \A d \in Clients \ {c} :
           fds'[d] = fds[d] /\ kid'[d] = kid[d] /\ line'[d] = line[d]
  BY <1>1, <1>3, <1>4, ProcFacts
<1>6. ServerTypeOK'
  BY <1>1, <1>3, <1>4 DEF IInv, ServerTypeOK
<1>7. TableInv'
  <2>1. ppc = "fork" => acceptfd # c
    BY <1>2 DEF IInv, ServerInv, TableInv, Alive
  <2> QED
    BY <1>1, <1>5, <2>1 DEF IInv, ServerInv, TableInv, Alive
<1>8. BacklogInv'
  <2>1. \A d \in Range(backlog) : d \in Clients /\ d # c
    BY <1>2, BacklogFacts DEF IInv, ServerInv, BacklogInv, Alive
  <2> QED
    BY <1>3, <1>5, <2>1 DEF IInv, ServerInv, BacklogInv
<1>9. KidInv'
  <2> SUFFICES ASSUME NEW d \in Clients
               PROVE  /\ kid'[d] # "none" \/ d \in fds'[Parent] => csk'[d] # "none"
                      /\ line'[d] # <<>> => kid'[d] \in {"write", "raise"}
                      /\ kid'[d] = "exit" => ssk'[d] # "est"
                      /\ kid'[d] = "zombie" => ssk'[d] # "est" \/ family' = "Python"
                      /\ kid'[d] = "raise" => family' = "Python"
    BY DEF KidInv
  <2>1. /\ kid[d] # "none" \/ d \in fds[Parent] => csk[d] # "none"
        /\ line[d] # <<>> => kid[d] \in {"write", "raise"}
        /\ kid[d] = "exit" => ssk[d] # "est"
        /\ kid[d] = "zombie" => ssk[d] # "est" \/ family = "Python"
        /\ kid[d] = "raise" => family = "Python"
    BY DEF IInv, ServerInv, KidInv
  <2>2. csk'[d] = "none" <=> csk[d] = "none"
    BY <1>3 DEF PhasesKept
  <2>3. CASE d = c
    BY <1>1, <1>2, <1>3, <1>5, <2>1, <2>2, <2>3 DEF Alive
  <2>4. CASE d # c
    BY <1>1, <1>3, <1>5, <2>1, <2>2, <2>4
  <2> QED
    BY <2>3, <2>4
<1>10. StreamInv'
  <2>1. \A d \in Clients :
          UNCHANGED <<kid[d], line[d]>> \/ (kid[d] # "zombie" /\ kid'[d] = "zombie")
    BY <1>2, <1>5 DEF Alive
  <2> QED
    BY <1>3, <2>1, StreamKept
<1>11. ServedStep
  <2> SUFFICES ASSUME NEW d \in Clients, ssk[d] # "closed", ssk'[d] = "closed"
               PROVE  \/ csk[d] # "est" \/ kid[d] = "none"
                      \/ family = "Python" /\ kid[d] \in {"raise", "zombie"}
    BY DEF ServedStep
  <2>1. d = c \/ d \in Range(backlog)
    BY <1>3, <1>4
  <2> QED
    BY <1>2, <2>1, Established DEF IInv, ServerInv, BacklogInv
<1> QED
  BY <1>3, <1>6, <1>7, <1>8, <1>9, <1>10, <1>11, ServerKeeps DEF ServerInv

-----------------------------------------------------------------------------
(* All the steps.                                                          *)

\* Every step of the parent and of the children.
LEMMA ServerStep ==
  ASSUME IInv, UNCHANGED <<clientVars, variantVars>>,
         ParentNext \/ \E c \in Clients : ChildNext(c)
  PROVE  IInv' /\ PhasesKept /\ UNCHANGED <<sent, got>> /\ ServedStep
<1>1. CASE ParentNext
  <2>1. /\ UNCHANGED maxprocs
        /\ Accept \/ Fork \/ ForkFails \/ (AcceptFails \/ ForkRaises) \/ ParentCloses
    BY <1>1 DEF ParentNext, ParentWorks
  <2> QED
    BY <2>1, AcceptStep, ForkStep, ForkFailsStep, ParentEndsStep, ParentClosesStep
<1>2. ASSUME NEW c \in Clients, ChildNext(c)
      PROVE  IInv' /\ PhasesKept /\ UNCHANGED <<sent, got>> /\ ServedStep
  <2>1. /\ UNCHANGED maxprocs
        /\ \/ ChildReads(c) \/ ChildReadEnds(c) \/ ChildReadFails(c)
           \/ ChildWrites(c) \/ ChildWriteFails(c)
           \/ ChildExits(c) \/ ChildDies(c)
    BY <1>2 DEF ChildNext
  <2> QED
    BY <2>1, ChildReadsStep, ChildReadEndStep, ChildWritesStep, ChildWriteFailsStep,
       ChildGoneStep
<1> QED
  BY <1>1, <1>2

\* A step of a client or of the network, which no process of the server sees.
LEMMA OthersKeep ==
  ASSUME IInv, UNCHANGED serverVars, UNCHANGED family,
         TcpInv', ClientInv', VariantTypeOK',
         StillOpen, FlowStep, NoneRevived, NoneClosed,
         \/ EndsKept /\ UNCHANGED backlog
         \/ \E c \in Clients : ClientConnects(c)
  PROVE  IInv' /\ ServedStep
<1>1. UNCHANGED <<maxprocs, ppc, acceptfd, kid, line, fds>>
  BY DEF serverVars
<1>2. ServerTypeOK' /\ TableInv'
  BY <1>1 DEF IInv, ServerTypeOK, ServerInv, TableInv
<1>3. StreamInv'
  BY <1>1, StreamKept
<1>4. KidInv'
  BY <1>1 DEF IInv, ServerInv, KidInv, StillOpen, NoneRevived
<1>5. ServedStep
  BY DEF ServedStep, NoneClosed
<1>6. CASE EndsKept /\ UNCHANGED backlog
  <2>1. BacklogInv' /\ Covered'
    BY <1>1, <1>6 DEF IInv, ServerInv, BacklogInv, Covered, EndsKept, Procs
  <2> QED
    BY <1>2, <1>3, <1>4, <1>5, <2>1 DEF IInv, ServerInv
<1>7. ASSUME NEW c \in Clients, ClientConnects(c)
      PROVE  IInv'
  <2>1. /\ csk[c] = "none" /\ ssk' = [ssk EXCEPT ![c] = "est"]
        /\ backlog' = Append(backlog, c)
    BY <1>7 DEF ClientConnects
  <2>2. /\ backlog \in Seq(Clients) /\ c \notin Range(backlog)
        /\ kid[c] = "none" /\ c \notin fds[Parent]
    BY <2>1, BacklogFacts DEF IInv, ServerInv, KidInv
  <2>3. Range(backlog') = Range(backlog) \cup {c} /\ IsInjective(backlog')
    BY <2>1, <2>2, AppendRange DEF IInv, ServerInv, BacklogInv
  <2>4. \A d \in Clients \ {c} : ssk'[d] = ssk[d]
    BY <2>1 DEF IInv, TcpInv, TcpTypeOK
  <2>5. BacklogInv'
    BY <1>1, <2>2, <2>3 DEF IInv, ServerInv, BacklogInv
  <2>6. Covered'
    <3> SUFFICES ASSUME NEW d \in Clients, ssk'[d] \notin Idle
                 PROVE  d \in Range(backlog') \/ \E p \in Procs : d \in fds'[p]
      BY DEF Covered, Procs
    <3>1. CASE d = c
      BY <2>3, <3>1
    <3>2. CASE d # c
      BY <1>1, <2>3, <2>4, <3>2 DEF IInv, ServerInv, Covered
    <3> QED
      BY <3>1, <3>2
  <2> QED
    BY <1>2, <1>3, <1>4, <2>5, <2>6 DEF IInv, ServerInv
<1> QED
  BY <1>5, <1>6, <1>7

\* What a client does, and the network, to the server's ends.
LEMMA ClientsEndNothing ==
  ASSUME TcpInv, NEW c \in Clients,
         \/ ClientConnects(c)
         \/ \E k \in 1 .. LineSize : ClientWrites(c, k)
         \/ ClientReads(c) \/ ClientReadFails(c)
         \/ \E q : LeavesUnread(c, q)
         \/ ResetArrives(c)
         \/ UNCHANGED tcpVars
  PROVE  NoneRevived /\ NoneClosed
<1>1. ssk \in [Clients -> EndStates]
  BY DEF TcpInv, TcpTypeOK
<1>2. CASE ClientConnects(c)
  BY <1>1, <1>2 DEF ClientConnects, NoneRevived, NoneClosed
<1>3. ASSUME NEW q, LeavesUnread(c, q)
      PROVE  NoneRevived /\ NoneClosed
  <2>1. PICK late \in BOOLEAN : ssk' = [ssk EXCEPT ![c] = ClosedByPeer(ssk[c], q, late)]
    BY <1>3 DEF LeavesUnread
  <2>2. /\ ClosedByPeer(ssk[c], q, late) = "est" => ssk[c] = "est"
        /\ ClosedByPeer(ssk[c], q, late) = "closed" => ssk[c] = "closed"
    BY DEF ClosedByPeer
  <2> QED
    BY <1>1, <2>1, <2>2 DEF NoneRevived, NoneClosed
<1>4. CASE ResetArrives(c)
  BY <1>1, <1>4 DEF ResetArrives, ServerResetArrives, ClientResetArrives, NoneRevived, NoneClosed
<1>5. CASE ssk' = ssk
  BY <1>5 DEF NoneRevived, NoneClosed
<1> QED
  BY <1>2, <1>3, <1>4, <1>5 DEF ClientWrites, ClientReads, ClientReadFails, tcpVars

LEMMA EchoFromInv == IInv => EchoIntegrity
  BY DEF IInv, StreamInv, Flow, EchoIntegrity

\* Every step keeps the invariant, ends no conversation that has its child,
\* and is a step of the abstract service or changes nothing of it.
LEMMA NextStep ==
  ASSUME IInv, [Next]_vars
  PROVE  IInv' /\ EchoStep /\ ServedStep
<1>1. CASE ParentNext /\ UNCHANGED <<clientVars, variantVars>>
  BY <1>1, ServerStep, EchoStutter
<1>2. ASSUME NEW c \in Clients, ChildNext(c), UNCHANGED <<clientVars, variantVars>>
      PROVE  IInv' /\ EchoStep /\ ServedStep
  BY <1>2, ServerStep, EchoStutter
<1>3. ASSUME NEW c \in Clients, VariantNext(c), UNCHANGED serverVars
      PROVE  IInv' /\ EchoStep /\ ServedStep
  <2>1. TcpInv' /\ ClientInv' /\ StillOpen /\ FlowStep /\ EchoStep
    BY <1>3, ClientStep, EchoFromInv DEF IInv
  <2>2. VariantTypeOK' /\ UNCHANGED family
    BY <1>3, <2>1, VariantTypeKept DEF IInv, VariantNext
  <2>3. ClientConnects(c) \/ (EndsKept /\ UNCHANGED backlog)
    BY <1>3, ClientCalls, ConnectedKeeps DEF IInv
  <2>4. NoneRevived /\ NoneClosed
    BY <1>3, ClientCalls, ClientsEndNothing DEF IInv
  <2> QED
    BY <1>3, <2>1, <2>2, <2>3, <2>4, OthersKeep
<1>4. ASSUME NEW c \in Clients, ResetArrives(c),
             UNCHANGED <<clientVars, variantVars, serverVars>>
      PROVE  IInv' /\ EchoStep /\ ServedStep
  <2>1. TcpInv' /\ FlowStep /\ PhasesKept
    BY <1>4, ResetArrivesInv, ResetArrivesFlow DEF IInv
  <2>2. ClientInv' /\ StillOpen
    BY <1>4, <2>1, ClientsKept DEF IInv, StillOpen, PhasesKept
  <2>3. EchoStep
    BY <1>4, <2>1, EchoStutter DEF ResetArrives, ServerResetArrives, ClientResetArrives
  <2>4. VariantTypeOK' /\ UNCHANGED family
    BY <1>4, VariantKept DEF IInv, variantVars
  <2>5. EndsKept /\ UNCHANGED backlog
    BY <1>4, ConnectedKeeps DEF IInv
  <2>6. NoneRevived /\ NoneClosed
    BY <1>4, ClientsEndNothing DEF IInv
  <2> QED
    BY <1>4, <2>1, <2>2, <2>3, <2>4, <2>5, <2>6, OthersKeep
<1>5. CASE UNCHANGED vars
  <2>1. /\ TcpInv' /\ FlowStep /\ PhasesKept /\ StillOpen
        /\ EndsKept /\ UNCHANGED backlog /\ NoneRevived /\ NoneClosed
    BY <1>5 DEF vars, tcpVars, IInv, TcpInv, TcpTypeOK, EndsAgree, FlowStep,
                PhasesKept, StillOpen, EndsKept, NoneRevived, NoneClosed
  <2>2. ClientInv' /\ EchoStep
    BY <1>5, <2>1, ClientsKept, EchoStutter DEF vars, tcpVars, IInv
  <2>3. VariantTypeOK' /\ UNCHANGED family
    BY <1>5, VariantKept DEF vars, IInv, variantVars
  <2> QED
    BY <1>5, <2>1, <2>2, <2>3, OthersKeep DEF vars
<1> QED
  BY <1>1, <1>2, <1>3, <1>4, <1>5 DEF Next, AtRest

\* The inductive invariant holds in every state.
THEOREM Invariance == Spec => []IInv
<1>1. Init => IInv
  BY InitInv
<1>2. IInv /\ [Next]_vars => IInv'
  BY NextStep
<1> QED
  BY <1>1, <1>2, PTL DEF Spec

-----------------------------------------------------------------------------
(* The theorems.                                                           *)

\* The variables of the kernel, the clients, the parent and the children
\* keep their types.
THEOREM TypeCorrect == Spec => []TypeOK
<1>1. IInv => TypeOK
  BY DEF IInv, TcpInv, ClientInv, TypeOK
<1> QED
  BY <1>1, Invariance, PTL

\* Each connection is one child's and a child has no other, whatever the
\* process limit and whichever process dies: fork() hands no other
\* connection on, and the kernel holds none that no process has.
THEOREM IsolatesChildren == Spec => []ChildrenIsolated
<1>1. IInv => ChildrenIsolated
  BY IsolatedFromInv DEF IInv
<1> QED
  BY <1>1, Invariance, PTL

\* A conversation that was given its child is ended by its client, or in
\* Python by its own child, and by nobody else: neither by the parent's
\* close(), nor by another child's exit, nor by the end of the parent.
THEOREM FinishesServed == Spec => ServedConversationsFinish
<1>1. IInv /\ [Next]_vars => ServedStep
  BY NextStep
<1> QED
  BY <1>1, Invariance, PTL DEF Spec, ServedConversationsFinish, ServedStep

\* The forking server and its clients implement the abstract echo service,
\* on TCP, on SCTP and in Python, also when processes die.
THEOREM ImplementsEcho == Spec => EchoSpec
<1>1. Init => Echo!Init
  BY DEF Init, TcpInit, Echo!Init
<1>2. IInv /\ [Next]_vars => [Echo!Next]_(Echo!vars)
  BY NextStep DEF EchoStep
<1> QED
  BY <1>1, <1>2, Invariance, PTL DEF Spec, EchoSpec, Echo!Spec

-----------------------------------------------------------------------------
(* Lines stay whole: a second invariant, inductive relative to the first.  *)

LineInv ==
  LinesArriveWhole =>
    \A c \in Clients :
      OneLine(ssk[c], cpc[c], rep[c], sent[c], got[c], down[c], line[c], up[c])

\* Where no exception ends a child, nothing it has read is lost.
LEMMA LineFlows ==
  ASSUME IInv, LinesArriveWhole, NEW c \in Clients
  PROVE  Flow(ssk[c], sent[c], got[c], down[c], line[c], up[c])
<1>1. PICK h \in Seq(Byte) : /\ kid[c] # "zombie" => h = line[c]
                            /\ Flow(ssk[c], sent[c], got[c], down[c], h, up[c])
  BY DEF IInv, StreamInv
<1>2. CASE kid[c] # "zombie"
  BY <1>1, <1>2
<1>3. CASE kid[c] = "zombie"
  <2>1. ssk[c] # "est"
    BY <1>3 DEF LinesArriveWhole, IInv, ServerInv, KidInv
  <2> QED
    BY <1>1, <2>1 DEF Flow
<1> QED
  BY <1>2, <1>3

\* The parent hands on no line.
LEMMA ParentHandsOn ==
  ASSUME IInv, ParentNext, family # "Python", NEW c \in Clients
  PROVE  Hands(c, line[c], line'[c])
<1>1. CASE Accept \/ Fork \/ ForkFails
  BY <1>1 DEF Accept, ServerAccepts, Fork, ForkFails, tcpVars, Hands
<1>2. CASE ParentCloses \/ AcceptFails
  <2>1. PICK S : ServerCloses(S) /\ UNCHANGED line
    BY <1>2 DEF ParentCloses, Closes, AcceptFails, Ends
  <2>2. /\ UNCHANGED <<down, sent, got>>
        /\ \/ ssk'[c] # "est" /\ Len(up'[c]) <= Len(up[c])
           \/ UNCHANGED <<ssk[c], up[c]>>
    BY <2>1, ClosedEmpty DEF ServerCloses, IInv
  <2> QED
    BY <2>1, <2>2 DEF Hands
<1>3. ~ForkRaises
  BY DEF ForkRaises
<1> QED
  BY <1>1, <1>2, <1>3 DEF ParentNext, ParentWorks

\* A child takes and hands back the lines of its own client.
LEMMA ChildHandsOn ==
  ASSUME IInv, family # "Python", NEW d \in Clients, ChildNext(d), NEW c \in Clients
  PROVE  Hands(c, line[c], line'[c])
<1>1. line \in [Clients -> Seq(Byte)]
  BY DEF IInv, ServerTypeOK
<1>2. CASE ChildReads(d)
  <2>1. PICK k \in Chunks(d) :
          ServerReads(d, k) /\ line' = [line EXCEPT ![d] = Taken(up[d], k)]
    BY <1>2 DEF ChildReads
  <2>2. line[d] = <<>>
    BY <1>2 DEF ChildReads, IInv, ServerInv, KidInv
  <2>3. CASE c = d
    BY <1>1, <2>1, <2>2, <2>3 DEF Hands
  <2>4. CASE c # d
    BY <1>1, <2>1, <2>4 DEF Hands, ServerReads, IInv, TcpInv, TcpTypeOK
  <2> QED
    BY <2>3, <2>4
<1>3. CASE ChildReadEnds(d) \/ ChildReadFails(d)
  BY <1>3 DEF ChildReadEnds, ChildReadFails, tcpVars, Hands
<1>4. CASE ChildWrites(d)
  <2>1. SendsBack(d, line[d]) /\ line' = [line EXCEPT ![d] = <<>>]
    BY <1>4 DEF ChildWrites
  <2>2. CASE c = d
    BY <1>1, <2>1, <2>2 DEF Hands
  <2>3. CASE c # d
    BY <1>1, <2>1, <2>3 DEF Hands, SendsBack, ServerWrites, IInv, TcpInv, TcpTypeOK
  <2> QED
    BY <2>2, <2>3
<1>5. CASE ChildWriteFails(d)
  <2>1. SendBackFails(d) /\ line' = [line EXCEPT ![d] = <<>>]
    BY <1>5 DEF ChildWriteFails
  <2>2. /\ UNCHANGED <<down, sent, got>> /\ ssk'[d] # "est" /\ Len(up'[d]) <= Len(up[d])
        /\ \A e \in Clients \ {d} : ssk'[e] = ssk[e]
    BY <2>1, SendBackFailsStep DEF IInv
  <2>3. c # d => up'[c] = up[c]
    BY <2>1 DEF SendBackFails, ServerWriteFails, tcpVars, IInv, TcpInv, TcpTypeOK
  <2> QED
    BY <1>1, <2>1, <2>2, <2>3 DEF Hands
<1>6. CASE ChildExits(d) \/ ChildDies(d)
  <2>1. PICK S : ServerCloses(S) /\ line' = [line EXCEPT ![d] = <<>>]
    BY <1>6 DEF ChildExits, ChildDies, ChildGone, Ends
  <2>2. /\ UNCHANGED <<down, sent, got>>
        /\ \/ ssk'[c] # "est" /\ Len(up'[c]) <= Len(up[c])
           \/ UNCHANGED <<ssk[c], up[c]>>
        /\ ssk[d] # "est" => ssk'[d] # "est"
    BY <2>1, ClosedEmpty DEF ServerCloses, IInv
  <2>3. line[d] = <<>> \/ ssk[d] # "est"
    <3>1. CASE kid[d] = "exit"
      BY <3>1 DEF IInv, ServerInv, KidInv
    <3>2. CASE kid[d] = "write" /\ SendBackKills(d)
      BY <3>2 DEF SendBackKills, ShutDown
    <3>3. kid[d] # "raise"
      BY <1>1 DEF IInv, ServerInv, KidInv
    <3> QED
      BY <1>6, <3>1, <3>2, <3>3 DEF ChildExits, ChildDies
  <2>4. Len(up'[c]) <= Len(up[c])
    BY <2>2, LenProperties DEF IInv, TcpInv, TcpTypeOK
  <2> QED
    BY <1>1, <2>1, <2>2, <2>3, <2>4 DEF Hands
<1> QED
  BY <1>2, <1>3, <1>4, <1>5, <1>6 DEF ChildNext

LEMMA LineStep ==
  ASSUME IInv, LineInv, [Next]_vars
  PROVE  LineInv'
<1>1. UNCHANGED family
  BY DEF Next, VariantNext, variantVars, AtRest, vars
<1> SUFFICES ASSUME LinesArriveWhole, NEW c \in Clients
             PROVE  OneLine(ssk'[c], cpc'[c], rep'[c], sent'[c], got'[c], down'[c],
                            line'[c], up'[c])
  BY <1>1 DEF LineInv, LinesArriveWhole
<1>2. OneLine(ssk[c], cpc[c], rep[c], sent[c], got[c], down[c], line[c], up[c])
  BY DEF LineInv
<1>3. line[c] \in Seq(Byte) /\ (csk[c] = "none" => line[c] = <<>>)
  BY DEF IInv, ServerTypeOK, ServerInv, KidInv
<1>4. CASE /\ ParentNext \/ \E d \in Clients : ChildNext(d)
           /\ UNCHANGED <<clientVars, variantVars>>
  <2>1. Hands(c, line[c], line'[c])
    BY <1>4, ParentHandsOn, ChildHandsOn DEF LinesArriveWhole
  <2>2. Flow(ssk[c], sent[c], got[c], down[c], line[c], up[c])
    BY LineFlows
  <2> QED
    BY <1>2, <1>3, <1>4, <2>1, <2>2, ServerLine DEF IInv
<1>5. ASSUME LinesKept, UNCHANGED serverVars
      PROVE  OneLine(ssk'[c], cpc'[c], rep'[c], sent'[c], got'[c], down'[c], line'[c], up'[c])
  <2>1. line'[c] = line[c]
    BY <1>5 DEF serverVars
  <2> QED
    BY <1>2, <1>3, <1>5, <2>1 DEF LinesKept
<1>6. ASSUME NEW d \in Clients, VariantNext(d)
      PROVE  LinesKept
  BY <1>6, ClientLines DEF IInv
<1>7. ASSUME NEW d \in Clients, ResetArrives(d), UNCHANGED clientVars
      PROVE  LinesKept
  BY <1>7, ResetLines DEF IInv
<1>8. CASE UNCHANGED vars
  BY <1>2, <1>8 DEF vars, tcpVars, clientVars, serverVars
<1> QED
  BY <1>4, <1>5, <1>6, <1>7, <1>8 DEF Next, AtRest

\* Where lines arrive whole, one read of a client gives all of the line it
\* sent last, however the processes and the network are scheduled and
\* whichever child a connection is given to.
THEOREM LinesStayWhole == Spec => []MessagesStayWhole
<1>1. Init => LineInv
  BY LinesInit DEF Init, ServerInit, LineInv
<1>2. IInv /\ LineInv /\ [Next]_vars => LineInv'
  BY LineStep
<1>3. LineInv => MessagesStayWhole
  BY DEF LineInv, OneLine, MessagesStayWhole
<1> QED
  BY <1>1, <1>2, <1>3, Invariance, PTL DEF Spec

-----------------------------------------------------------------------------
(* Who ends a child.                                                       *)

\* A line that a C child is writing back is not empty, and none of its bytes has
\* reached the client: it has not read all it sent.
KillInv ==
  family # "Python" =>
    \A c \in Clients :
      /\ kid[c] = "write" => line[c] # <<>>
      /\ Accounted(sent[c], got[c], down[c], line[c], up[c])

LEMMA NeverEmpty ==
  ASSUME IInv, KillInv, [Next]_vars, family # "Python", NEW c \in Clients
  PROVE  kid'[c] = "write" => line'[c] # <<>>
<1>1. /\ line \in [Clients -> Seq(Byte)] /\ DOMAIN kid = Clients
      /\ kid[c] = "write" => line[c] # <<>>
  BY DEF KillInv, IInv, ServerTypeOK
<1>2. ASSUME NEW d \in Clients, ChildReads(d)
      PROVE  kid'[c] = "write" => line'[c] # <<>>
  BY <1>1, <1>2, ReadsSome DEF ChildReads, KidGoto, IInv
<1>3. ASSUME NEW d \in Clients,
             \/ ChildReadEnds(d) \/ ChildReadFails(d) \/ ChildWrites(d) \/ ChildWriteFails(d)
             \/ ChildExits(d) \/ ChildDies(d)
      PROVE  kid'[c] = "write" => line'[c] # <<>>
  BY <1>1, <1>3 DEF ChildReadEnds, ChildReadFails, ChildWrites, ChildWriteFails, ChildExits,
                    ChildDies, ChildGone, AfterError, KidGoto
<1>4. CASE ParentNext
  BY <1>1, <1>4 DEF ParentNext, ParentWorks, Accept, AcceptFails, Fork, ForkFails, ForkRaises, ParentCloses, KidGoto
<1>5. CASE UNCHANGED serverVars
  BY <1>1, <1>5 DEF serverVars
<1> QED
  BY <1>2, <1>3, <1>4, <1>5 DEF Next, ChildNext, AtRest, vars

LEMMA KillStep ==
  ASSUME IInv, IInv', KillInv, [Next]_vars
  PROVE  KillInv'
<1>1. UNCHANGED family
  BY DEF Next, VariantNext, variantVars, AtRest, vars
<1> SUFFICES ASSUME family # "Python", NEW c \in Clients
             PROVE  Accounted(sent'[c], got'[c], down'[c], line'[c], up'[c])
  BY <1>1, NeverEmpty DEF KillInv
<1>2. Accounted(sent[c], got[c], down[c], line[c], up[c]) /\ line[c] \in Seq(Byte)
  BY DEF KillInv, IInv, ServerTypeOK
<1>3. CASE ParentNext \/ \E d \in Clients : ChildNext(d)
  <2>1. Hands(c, line[c], line'[c])
    BY <1>3, ParentHandsOn, ChildHandsOn
  <2> QED
    BY <1>2, <2>1, ServerAccount DEF IInv
<1>4. ASSUME AccountsKept, UNCHANGED serverVars
      PROVE  Accounted(sent'[c], got'[c], down'[c], line'[c], up'[c])
  BY <1>2, <1>4 DEF serverVars, AccountsKept
<1>5. ASSUME NEW d \in Clients, VariantNext(d) \/ ResetArrives(d)
      PROVE  AccountsKept
  BY <1>5, ClientAccount, ResetAccount DEF IInv
<1>6. CASE UNCHANGED vars
  BY <1>2, <1>6 DEF vars, tcpVars, serverVars
<1> QED
  BY <1>3, <1>4, <1>5, <1>6 DEF Next, AtRest

\* A C child that does not come to its exit(0) ends by the write at
\* tcp-4-server.cc:92, to its own client, that left before it had read all its
\* answers: not by what other clients, other children or the parent do.
ChildrenKilledByTheirClients ==
  [][family # "Python" =>
       \A c \in Clients :
         kid[c] # "exit" /\ kid[c] # "zombie" /\ kid'[c] = "zombie"
         => csk[c] = "closed" /\ got[c] # sent[c]]_vars

\* The step that ends a child.
LEMMA Death ==
  ASSUME IInv, KillInv, family # "Python", NEW c \in Clients, ChildDies(c)
  PROVE  csk[c] = "closed" /\ got[c] # sent[c]
<1>1. kid[c] = "write" /\ SendBackKills(c)
  BY DEF ChildDies, IInv, ServerInv, KidInv
<1>2. line[c] # <<>> /\ line[c] \in Seq(Byte)
  BY <1>1 DEF KillInv, IInv, ServerTypeOK
<1> QED
  BY <1>1, <1>2, KilledByLeaver DEF KillInv, IInv

\* A child that is not at its exit(0) ends only by that step.
LEMMA ChildLives ==
  ASSUME IInv, Next, NEW c \in Clients,
         kid[c] # "exit", kid[c] # "zombie", kid'[c] = "zombie"
  PROVE  ChildDies(c)
<1> USE DEF KidGoto
<1>1. kid \in [Clients -> {"none", "read", "write", "exit", "raise", "zombie"}]
      /\ (ppc = "fork" => acceptfd \in Clients)
  BY DEF IInv, ServerInv, ServerTypeOK, TableInv
<1>2. ASSUME ParentNext PROVE FALSE
  BY <1>1, <1>2 DEF ParentNext, ParentWorks, Accept, AcceptFails, Fork, ForkFails, ForkRaises,
                    ParentCloses
<1>3. ASSUME NEW d \in Clients, ChildNext(d) PROVE ChildDies(c)
  <2>1. CASE ChildDies(d)
    BY <1>1, <2>1 DEF ChildDies, ChildGone
  <2>2. CASE ChildReads(d)
    BY <1>1, <2>2 DEF ChildReads, AfterRead
  <2>3. CASE ChildReadEnds(d) \/ ChildReadFails(d) \/ ChildWrites(d) \/ ChildWriteFails(d)
    BY <1>1, <2>3 DEF ChildReadEnds, ChildReadFails, ChildWrites, ChildWriteFails, AfterError
  <2>4. CASE ChildExits(d)
    BY <1>1, <2>4 DEF ChildExits, ChildGone
  <2> QED
    BY <1>3, <2>1, <2>2, <2>3, <2>4 DEF ChildNext
<1>4. ~ UNCHANGED serverVars
  BY DEF serverVars
<1> QED
  BY <1>2, <1>3, <1>4 DEF Next, AtRest, vars

\* A client that waits, or that takes its answers and leaves then, keeps its
\* child to the end, also when the parent is gone.
THEOREM OnlyTheirClientsKill == Spec => ChildrenKilledByTheirClients
<1>1. Init => KillInv
  BY AccountInit DEF Init, ServerInit, KillInv
<1>2. IInv /\ IInv' /\ KillInv /\ [Next]_vars => KillInv'
  BY KillStep
<1>3. IInv /\ KillInv /\ [Next]_vars
      => [family # "Python" =>
            \A c \in Clients :
              kid[c] # "exit" /\ kid[c] # "zombie" /\ kid'[c] = "zombie"
              => csk[c] = "closed" /\ got[c] # sent[c]]_vars
  BY Death, ChildLives
<1> QED
  BY <1>1, <1>2, <1>3, Invariance, PTL DEF Spec, ChildrenKilledByTheirClients
=============================================================================
