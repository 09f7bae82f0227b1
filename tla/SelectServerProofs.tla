------------------------- MODULE SelectServerProofs -------------------------
(***************************************************************************)
(* Theorems about SelectServer, for any clients, bounds, buffers, backlog, *)
(* descriptor limit and segmentation: its types are right, what comes back *)
(* is an echo, and together with its clients it implements EchoService;    *)
(* what it watches is what it has open, no connection is leaked, and its   *)
(* scan never blocks; only a client that leaves its answers unread kills   *)
(* it, and lines that arrive whole come back whole.                        *)
(***************************************************************************)
EXTENDS SelectServer, TcpProofs, FiniteSetTheorems

-----------------------------------------------------------------------------
(* The inductive invariant.                                                *)

\* What the server has read of connection c and not yet written back.
Held(c) == IF spc = "write" /\ fdt[i] = c THEN line ELSE <<>>

\* The descriptors the scan has still to look at are open, and open ones
\* belong to clients that did connect.
ScanInv ==
  /\ spc \in {"scan", "write"} => i \in tempfd
  /\ spc = "write" => i # ListenFd
  /\ spc # "write" => line = <<>>
  /\ \A f \in tempfd : f >= i /\ f # ListenFd => fdt[f] # NoConn
  /\ \A f \in ConnFds : fdt[f] # NoConn => csk[fdt[f]] # "none"

\* No connection loses, repeats or mixes bytes.
StreamInv ==
  \A c \in Clients : Flow(ssk[c], sent[c], got[c], down[c], Held(c), up[c])

IInv ==
  /\ TcpInv /\ ClientInv /\ VariantTypeOK
  /\ ServerTypeOK /\ ScanInv /\ StreamInv

-----------------------------------------------------------------------------
(* Facts about one state.                                                  *)

LEMMA HeldType ==
  ASSUME ServerTypeOK, ScanInv, NEW c \in Clients
  PROVE  /\ Held(c) \in Seq(Byte)
         /\ csk[c] = "none" => Held(c) = <<>>
<1>1. spc = "write" => i \in ConnFds
  BY FdAssumption DEF ServerTypeOK, FdTypeOK, ScanInv, ConnFds, ListenFd
<1>2. fdt[i] = c => fdt[i] # NoConn
  BY FdAssumption
<1> QED
  BY <1>1, <1>2 DEF Held, ServerTypeOK, FdTypeOK, ScanInv

\* The descriptor at hand, unless it is the listening one, is a client's.
LEMMA AtConnection ==
  ASSUME ServerTypeOK, ScanInv, spc \in {"scan", "write"}, i # ListenFd
  PROVE  i \in ConnFds /\ fdt[i] \in Clients
<1>1. i \in tempfd /\ i \in ListenFd .. LastFd
  BY DEF ScanInv, ServerTypeOK, FdTypeOK
<1>2. i \in ConnFds
  BY <1>1 DEF ConnFds, ListenFd, ServerTypeOK, FdTypeOK
<1>3. fdt[i] # NoConn
  BY <1>1 DEF ScanInv, ServerTypeOK, FdTypeOK, ListenFd
<1> QED
  BY <1>2, <1>3 DEF ServerTypeOK, FdTypeOK

\* The loop goes on to a later descriptor select() reported, or ends.
LEMMA NextFdStep ==
  ASSUME ServerTypeOK, NextFd
  PROVE  /\ spc' \in {"scan", "select"}
         /\ tempfd' \in SUBSET (ListenFd .. LastFd) /\ n' \in Nat /\ i' \in 0 .. LastFd
         /\ spc' = "scan" => i' \in tempfd' /\ i' > i /\ tempfd' = tempfd
         /\ spc' = "select" => tempfd' = {}
<1> DEFINE rest == {f \in tempfd : f > i /\ f <= maxfd}
<1>1. CASE n - 1 > 0 /\ rest # {}
  <2>1. spc' = "scan" /\ i' = Min(rest) /\ n' = n - 1 /\ tempfd' = tempfd
    BY <1>1 DEF NextFd
  <2>2. rest \in SUBSET (ListenFd .. LastFd) /\ rest \in SUBSET Nat
    BY FdRange DEF ServerTypeOK, FdTypeOK
  <2>3. Min(rest) \in rest
    BY <1>1, <2>2, MinProperties
  <2>4. i' \in 0 .. LastFd /\ i' \in tempfd /\ i' > i
    BY <2>1, <2>2, <2>3, FdRange
  <2>5. n - 1 \in Nat
    BY <1>1 DEF ServerTypeOK, FdTypeOK
  <2> QED
    BY <2>1, <2>4, <2>5 DEF ServerTypeOK, FdTypeOK
<1>2. CASE ~ (n - 1 > 0 /\ rest # {})
  <2>1. NextTurn
    BY <1>2 DEF NextFd
  <2> QED
    BY <2>1, FdAssumption DEF NextTurn, ListenFd
<1> QED
  BY <1>1, <1>2

LEMMA InitInv == Init => IInv
<1> SUFFICES ASSUME Init PROVE IInv
  OBVIOUS
<1>1. TcpInv
  BY TcpInitInv DEF Init
<1>2. ClientInv
  BY DEF Init, ClientInit, TcpInit, ClientInv, ClientTypeOK, Reports, At
<1>6. VariantTypeOK
  BY DEF Init, VariantInit, VariantTypeOK
<1>3. ServerTypeOK
  BY FdAssumption DEF Init, ServerInit, FdInit, ServerTypeOK, FdTypeOK, ListenFd
<1>4. ScanInv
  BY FdAssumption DEF Init, ServerInit, FdInit, ScanInv
<1>5. StreamInv
  <2> SUFFICES ASSUME NEW c \in Clients
               PROVE  Flow(ssk[c], sent[c], got[c], down[c], Held(c), up[c])
    BY DEF StreamInv
  <2>1. sent[c] = <<>> /\ got[c] = <<>> /\ down[c] = <<>> /\ ssk[c] = "none"
    BY DEF Init, TcpInit
  <2>2. IsPrefix(<<>> \o <<>>, <<>>)
    BY ConcatEmptySeq, EmptySeq DEF IsPrefix
  <2> QED
    BY <2>1, <2>2 DEF Flow
<1> QED
  BY <1>1, <1>2, <1>3, <1>4, <1>5, <1>6 DEF IInv

-----------------------------------------------------------------------------
(* The steps of the server.                                                *)

\* A step that leaves the bytes where they are, between two system calls.
LEMMA StreamKept ==
  ASSUME StreamInv, UNCHANGED <<ssk, sent, got, down, up>>,
         \A c \in Clients : Held(c)' = Held(c)
  PROVE  StreamInv'
  BY DEF StreamInv

\* A step that ends connections; what it drops from the server's hands
\* belonged to them.
LEMMA StreamEnds ==
  ASSUME IInv, FlowStep,
         \A c \in Clients : Held(c)' = Held(c) \/ ssk'[c] # "est"
  PROVE  StreamInv'
<1> SUFFICES ASSUME NEW c \in Clients
             PROVE  Flow(ssk'[c], sent'[c], got'[c], down'[c], Held(c)', up'[c])
  BY DEF StreamInv
<1>1. Held(c) \in Seq(Byte) /\ (csk[c] = "none" => Held(c) = <<>>)
  BY HeldType DEF IInv
<1>2. Flow(ssk'[c], sent'[c], got'[c], down'[c], Held(c), up'[c])
  BY <1>1 DEF FlowStep, IInv, StreamInv
<1>3. CASE Held(c)' = Held(c)
  BY <1>2, <1>3
<1>4. CASE ssk'[c] # "est"
  BY <1>2, <1>4 DEF Flow
<1> QED
  BY <1>3, <1>4

LEMMA SelectStep ==
  ASSUME IInv, Select, UNCHANGED <<clientVars, variantVars>>, UNCHANGED nofile
  PROVE  IInv' /\ PhasesKept /\ UNCHANGED <<sent, got>>
<1> DEFINE ready == {f \in readfd : f <= maxfd /\ Ready(f)}
<1>1. /\ spc = "select" /\ spc' = "scan"
      /\ ready # {} /\ tempfd' = ready
      /\ n' = Cardinality(ready) /\ i' = Min(ready)
      /\ UNCHANGED <<tcpVars, fdt, readfd, maxfd, line>>
  BY DEF Select
<1>2. ready \in SUBSET (ListenFd .. LastFd) /\ ready \in SUBSET Nat
  BY FdRange DEF IInv, ServerTypeOK, FdTypeOK
<1>3. Min(ready) \in ready
  BY <1>1, <1>2, MinProperties
<1>4. Cardinality(ready) \in Nat
  <2>1. IsFiniteSet(ListenFd .. LastFd)
    BY FdAssumption, FS_Interval DEF ListenFd
  <2> QED
    BY <1>2, <2>1, FS_Subset, FS_CardinalityType
<1>5. \A f \in ready : f # ListenFd => fdt[f] # NoConn
  BY DEF Ready
<1> HIDE DEF ready
<1>6. TcpInv' /\ PhasesKept /\ UNCHANGED <<sent, got>>
  BY <1>1 DEF IInv, tcpVars, TcpInv, TcpTypeOK, EndsAgree, PhasesKept
<1>7. ClientInv'
  BY <1>6, ClientsKept DEF IInv
<1>8. ServerTypeOK'
  <2>1. i' \in 0 .. LastFd
    BY <1>1, <1>2, <1>3, FdRange
  <2> QED
    BY <1>1, <1>2, <1>4, <2>1 DEF IInv, ServerTypeOK, FdTypeOK
<1>9. ScanInv'
  BY <1>1, <1>3, <1>5 DEF IInv, ScanInv, tcpVars
<1>10. StreamInv'
  BY <1>1, StreamKept DEF IInv, ScanInv, Held, tcpVars
<1> QED
  BY <1>6, <1>7, <1>8, <1>9, <1>10, VariantKept DEF IInv

LEMMA AcceptStep ==
  ASSUME IInv, Accept, UNCHANGED <<clientVars, variantVars>>, UNCHANGED nofile
  PROVE  IInv' /\ PhasesKept /\ UNCHANGED <<sent, got>>
<1> DEFINE c == Head(backlog)
           acceptfd == Min(FreeFds)
<1>1. /\ spc = "scan" /\ i = ListenFd /\ FreeFds # {}
      /\ ServerAccepts(c)
      /\ fdt' = [fdt EXCEPT ![acceptfd] = c]
      /\ readfd' = readfd \cup {acceptfd}
      /\ maxfd' = IF acceptfd > maxfd THEN acceptfd ELSE maxfd
      /\ NextFd
      /\ UNCHANGED line
  BY DEF Accept
<1>2. acceptfd \in FreeFds
  <2>1. FreeFds \in SUBSET Nat
    BY FdAssumption DEF FreeFds, ConnFds, ListenFd
  <2> QED
    BY <1>1, <2>1, MinProperties
<1>3. acceptfd \in ConnFds /\ fdt[acceptfd] = NoConn
  BY <1>2 DEF FreeFds, OpenFds
<1>4. TcpInv' /\ c \in Clients /\ csk[c] # "none"
  BY <1>1, ServerAcceptsInv DEF IInv
<1> HIDE DEF c, acceptfd
<1>5. UNCHANGED <<csk, ssk, up, down, sent, got>>
  BY <1>1 DEF ServerAccepts
<1>6. PhasesKept
  BY <1>5 DEF PhasesKept
<1>7. ClientInv'
  BY <1>6, ClientsKept DEF IInv
<1>8. /\ spc' \in {"scan", "select"}
      /\ tempfd' \in SUBSET (ListenFd .. LastFd) /\ n' \in Nat /\ i' \in 0 .. LastFd
      /\ spc' = "scan" => i' \in tempfd' /\ i' > i /\ tempfd' = tempfd
      /\ spc' = "select" => tempfd' = {}
  BY <1>1, NextFdStep DEF IInv
<1>9. acceptfd \in ListenFd .. LastFd
  BY <1>3, FdAssumption DEF ConnFds, ListenFd
<1>10. ServerTypeOK'
  BY <1>1, <1>3, <1>4, <1>8, <1>9 DEF IInv, ServerTypeOK, FdTypeOK
<1>11. ScanInv'
  <2>1. \A f \in ConnFds : fdt'[f] = IF f = acceptfd THEN c ELSE fdt[f]
    BY <1>1, <1>3 DEF IInv, ServerTypeOK, FdTypeOK
  <2>2. c # NoConn
    BY <1>4, FdAssumption
  <2>3. \A f \in tempfd : f # ListenFd => f \in ConnFds
    BY FdAssumption DEF IInv, ServerTypeOK, FdTypeOK, ConnFds, ListenFd
  <2>4. \A f \in tempfd' : f >= i' /\ f # ListenFd => fdt'[f] # NoConn
    BY <1>1, <1>8, <2>1, <2>2, <2>3, FdAssumption
    DEF IInv, ScanInv, ServerTypeOK, FdTypeOK, ListenFd
  <2>5. \A f \in ConnFds : fdt'[f] # NoConn => csk'[fdt'[f]] # "none"
    BY <1>4, <1>5, <2>1 DEF IInv, ScanInv
  <2> QED
    BY <1>1, <1>8, <2>4, <2>5 DEF IInv, ScanInv
<1>12. StreamInv'
  BY <1>1, <1>5, <1>8, StreamKept DEF IInv, Held
<1> QED
  BY <1>4, <1>5, <1>6, <1>7, <1>10, <1>11, <1>12, VariantKept DEF IInv

LEMMA ExitStep ==
  ASSUME IInv, ServerExits, UNCHANGED <<clientVars, variantVars>>, UNCHANGED nofile
  PROVE  IInv' /\ PhasesKept /\ UNCHANGED <<sent, got>>
<1> DEFINE S == {fdt[f] : f \in OpenFds} \cup Range(backlog)
<1>1. ServerCloses(S) /\ backlog' = <<>> /\ listening' = FALSE
  BY DEF ServerExits, ProcessGone
<1> HIDE DEF S
<1>2. TcpInv'
  BY <1>1, ExitsInv DEF IInv
<1>3. FlowStep /\ PhasesKept /\ UNCHANGED <<sent, got>>
  BY <1>1, ServerClosesFlow DEF IInv, ServerCloses
<1>4. ClientInv'
  BY <1>3, ClientsKept DEF IInv
<1>5. /\ spc' = "dead" /\ fdt' = [f \in ConnFds |-> NoConn]
      /\ readfd' = {} /\ tempfd' = {} /\ n' = 0 /\ i' = 0 /\ line' = <<>>
      /\ UNCHANGED maxfd
  BY DEF ServerExits, ProcessGone
<1>6. ServerTypeOK'
  BY <1>5, FdAssumption DEF IInv, ServerTypeOK, FdTypeOK, ListenFd
<1>7. ScanInv'
  BY <1>5 DEF ScanInv
<1>8. \A c \in Clients : Held(c)' = Held(c) \/ ssk'[c] # "est"
  <2> SUFFICES ASSUME NEW c \in Clients, Held(c)' # Held(c)
               PROVE  ssk'[c] # "est"
    OBVIOUS
  <2>1. spc = "write" /\ fdt[i] = c
    BY <1>5 DEF Held
  <2>2. i \in ConnFds /\ fdt[i] # NoConn
    BY <2>1, AtConnection, FdAssumption DEF IInv, ScanInv
  <2>3. c \in S
    BY <2>1, <2>2 DEF S, OpenFds
  <2> QED
    BY <1>1, <2>3 DEF ServerCloses
<1>9. StreamInv'
  BY <1>3, <1>8, StreamEnds
<1> QED
  BY <1>2, <1>3, <1>4, <1>6, <1>7, <1>9, VariantKept DEF IInv

LEMMA ReadStep ==
  ASSUME IInv, Read, UNCHANGED <<clientVars, variantVars>>, UNCHANGED nofile
  PROVE  IInv' /\ PhasesKept /\ UNCHANGED <<sent, got>>
<1> DEFINE c == fdt[i]
<1>1. /\ spc = "scan" /\ i # ListenFd /\ spc' = "write"
      /\ UNCHANGED <<fdt, readfd, maxfd, tempfd, n, i>>
  BY DEF Read
<1>2. i \in ConnFds /\ c \in Clients
  BY <1>1, AtConnection DEF IInv
<1>3. PICK k \in ReadSizes(up[c]) : ServerReads(c, k) /\ line' = Taken(up[c], k)
  BY ChunksAreSizes DEF Read
<1> HIDE DEF c
<1>4. TcpInv'
  BY <1>2, <1>3, ServerReadsInv DEF IInv
<1>5. up' = [up EXCEPT ![c] = Left(up[c], k)] /\ UNCHANGED <<csk, ssk, down, sent, got>>
  BY <1>3 DEF ServerReads
<1>6. PhasesKept /\ ClientInv'
  <2>1. PhasesKept
    BY <1>5 DEF PhasesKept
  <2> QED
    BY <2>1, ClientsKept DEF IInv
<1>7. /\ sent[c] \in Seq(Byte) /\ got[c] \in Seq(Byte) /\ down[c] \in Seq(Byte)
      /\ up[c] \in Seq(Byte) /\ k \in 0 .. Len(up[c])
  BY <1>2 DEF IInv, TcpInv, TcpTypeOK, ReadSizes
<1>8. line' \in Seq(Byte)
  BY <1>3, <1>7, TakenLeft
<1>9. ServerTypeOK'
  BY <1>1, <1>8 DEF IInv, ServerTypeOK, FdTypeOK
<1>10. ScanInv'
  BY <1>1, <1>5 DEF IInv, ScanInv
<1>11. StreamInv'
  <2> SUFFICES ASSUME NEW d \in Clients
               PROVE  Flow(ssk'[d], sent'[d], got'[d], down'[d], Held(d)', up'[d])
    BY DEF StreamInv
  <2>1. Held(d) = <<>> /\ Flow(ssk[d], sent[d], got[d], down[d], Held(d), up[d])
    BY <1>1 DEF IInv, StreamInv, Held
  <2>2. CASE d = c
    <3>1. Held(d)' = Taken(up[c], k) /\ up'[d] = Left(up[c], k)
      BY <1>1, <1>2, <1>3, <1>5, <2>2 DEF Held, c, IInv, TcpInv, TcpTypeOK
    <3>2. Flow(ssk[c], sent[c], got[c], down[c], Taken(up[c], k), Left(up[c], k))
      BY <1>7, <2>1, <2>2, FlowServerReads
    <3> QED
      BY <1>5, <2>2, <3>1, <3>2
  <2>3. CASE d # c
    <3>1. Held(d)' = <<>> /\ up'[d] = up[d]
      BY <1>1, <1>2, <1>5, <2>3 DEF Held, c, IInv, TcpInv, TcpTypeOK
    <3> QED
      BY <1>5, <2>1, <3>1
  <2> QED
    BY <2>2, <2>3
<1> QED
  BY <1>4, <1>5, <1>6, <1>9, <1>10, <1>11, VariantKept DEF IInv

LEMMA ReadEndStep ==
  ASSUME IInv, ReadEnd, UNCHANGED <<clientVars, variantVars>>, UNCHANGED nofile
  PROVE  IInv' /\ PhasesKept /\ UNCHANGED <<sent, got>>
<1>1. /\ spc = "scan" /\ i # ListenFd
      /\ ServerCloses({fdt[i]})
      /\ fdt' = [fdt EXCEPT ![i] = NoConn]
      /\ readfd' = readfd \ {i}
      /\ spc' = "select" /\ tempfd' = {} /\ n' = 0 /\ i' = 0
      /\ UNCHANGED <<backlog, listening, maxfd, line>>
  BY DEF ReadEnd, FdCloses, NextTurn
<1>2. i \in ConnFds
  BY <1>1, AtConnection DEF IInv
<1>3. TcpInv'
  BY <1>1, ClosesInv DEF IInv
<1>4. FlowStep /\ PhasesKept /\ UNCHANGED <<sent, got>>
  BY <1>1, ServerClosesFlow DEF IInv, ServerCloses
<1>5. ClientInv'
  BY <1>4, ClientsKept DEF IInv
<1>6. ServerTypeOK'
  BY <1>1, <1>2, FdAssumption DEF IInv, ServerTypeOK, FdTypeOK, ListenFd
<1>7. ScanInv'
  <2>1. \A f \in ConnFds : fdt'[f] # NoConn => fdt'[f] = fdt[f] /\ fdt[f] \in Clients
    BY <1>1 DEF IInv, ServerTypeOK, FdTypeOK
  <2> QED
    BY <1>1, <1>4, <2>1 DEF IInv, ScanInv, PhasesKept
<1>8. StreamInv'
  <2>1. \A c \in Clients : Held(c)' = Held(c)
    BY <1>1 DEF Held
  <2> QED
    BY <1>4, <2>1, StreamEnds
<1> QED
  BY <1>3, <1>4, <1>5, <1>6, <1>7, <1>8, VariantKept DEF IInv

LEMMA WriteStep ==
  ASSUME IInv, Write, UNCHANGED <<clientVars, variantVars>>, UNCHANGED nofile
  PROVE  IInv' /\ PhasesKept /\ UNCHANGED <<sent, got>>
<1> DEFINE c == fdt[i]
<1>1. /\ spc = "write" /\ ServerWrites(c, line) /\ line' = <<>> /\ NextFd
      /\ UNCHANGED <<fdt, readfd, maxfd>>
  BY DEF Write, SendsBack
<1>2. i # ListenFd /\ i \in ConnFds /\ c \in Clients /\ line \in Seq(Byte)
  BY <1>1, AtConnection DEF IInv, ScanInv, ServerTypeOK, FdTypeOK
<1> HIDE DEF c
<1>3. TcpInv'
  BY <1>1, <1>2, ServerWritesInv DEF IInv
<1>4. /\ ssk' = [ssk EXCEPT ![c] = AfterWrite(ssk[c])]
      /\ down' = [down EXCEPT ![c] = Delivered(ssk[c], down[c], line)]
      /\ UNCHANGED <<csk, up, sent, got, backlog, listening>>
  BY <1>1 DEF ServerWrites
<1>5. PhasesKept /\ ClientInv'
  <2>1. PhasesKept
    BY <1>4 DEF PhasesKept
  <2> QED
    BY <2>1, ClientsKept DEF IInv
<1>6. /\ spc' \in {"scan", "select"}
      /\ tempfd' \in SUBSET (ListenFd .. LastFd) /\ n' \in Nat /\ i' \in 0 .. LastFd
      /\ spc' = "scan" => i' \in tempfd' /\ i' > i /\ tempfd' = tempfd
      /\ spc' = "select" => tempfd' = {}
  BY <1>1, NextFdStep DEF IInv
<1>7. ServerTypeOK'
  <2>1. line' \in Seq(Byte)
    BY <1>1, EmptySeq
  <2> QED
    BY <1>1, <1>6, <2>1 DEF IInv, ServerTypeOK, FdTypeOK
<1>8. ScanInv'
  <2>1. \A f \in tempfd : f \in Nat
    BY FdRange DEF IInv, ServerTypeOK, FdTypeOK
  <2>2. i \in Nat /\ i' \in Nat
    BY <1>6 DEF IInv, ServerTypeOK, FdTypeOK
  <2>3. \A f \in tempfd' : f >= i' /\ f # ListenFd => fdt'[f] # NoConn
    BY <1>1, <1>6, <2>1, <2>2 DEF IInv, ScanInv
  <2> QED
    BY <1>1, <1>4, <1>6, <2>3 DEF IInv, ScanInv
<1>9. StreamInv'
  <2> SUFFICES ASSUME NEW d \in Clients
               PROVE  Flow(ssk'[d], sent'[d], got'[d], down'[d], Held(d)', up'[d])
    BY DEF StreamInv
  <2>1. Held(d)' = <<>> /\ Flow(ssk[d], sent[d], got[d], down[d], Held(d), up[d])
    BY <1>6 DEF IInv, StreamInv, Held
  <2>2. /\ sent[d] \in Seq(Byte) /\ got[d] \in Seq(Byte) /\ down[d] \in Seq(Byte)
        /\ up[d] \in Seq(Byte)
    BY DEF IInv, TcpInv, TcpTypeOK
  <2>3. CASE d = c
    <3>1. Held(d) = line
      BY <1>1, <2>3 DEF Held, c
    <3>2. ssk'[d] = AfterWrite(ssk[d]) /\ down'[d] = Delivered(ssk[d], down[d], line)
      BY <1>4, <2>3 DEF IInv, TcpInv, TcpTypeOK
    <3>3. Flow(ssk[d], sent[d], got[d], down[d], line, up[d])
      BY <2>1, <3>1
    <3>4. Flow(AfterWrite(ssk[d]), sent[d], got[d], Delivered(ssk[d], down[d], line), <<>>, up[d])
      BY <1>2, <2>2, <3>3, FlowServerWrites
    <3> QED
      BY <1>4, <2>1, <3>2, <3>4
  <2>4. CASE d # c
    <3>1. Held(d) = <<>> /\ ssk'[d] = ssk[d] /\ down'[d] = down[d]
      BY <1>4, <2>4 DEF Held, c, IInv, TcpInv, TcpTypeOK
    <3> QED
      BY <1>4, <2>1, <3>1
  <2> QED
    BY <2>3, <2>4
<1> QED
  BY <1>3, <1>4, <1>5, <1>7, <1>8, <1>9, VariantKept DEF IInv

LEMMA WriteFailsStep ==
  ASSUME IInv, WriteFails, UNCHANGED <<clientVars, variantVars>>, UNCHANGED nofile
  PROVE  IInv' /\ PhasesKept /\ UNCHANGED <<sent, got>>
<1> DEFINE c == fdt[i]
<1>1. /\ spc = "write" /\ SendBackFails(c) /\ line' = <<>>
      /\ spc' = "select" /\ tempfd' = {} /\ n' = 0 /\ i' = 0
      /\ UNCHANGED <<fdt, readfd, maxfd>>
  BY DEF WriteFails, NextTurn
<1>2. i \in ConnFds /\ c \in Clients
  BY <1>1, AtConnection DEF IInv, ScanInv
<1> HIDE DEF c
<1>3. TcpInv' /\ FlowStep
  BY <1>1, <1>2, SendBackFailsStep DEF IInv
<1>4. ssk'[c] # "est" /\ UNCHANGED <<csk, down, sent, got>>
  BY <1>1, <1>2, SendBackFailsStep DEF IInv
<1>5. PhasesKept /\ ClientInv'
  <2>1. PhasesKept
    BY <1>4 DEF PhasesKept
  <2> QED
    BY <2>1, ClientsKept DEF IInv
<1>6. ServerTypeOK'
  <2>1. line' \in Seq(Byte)
    BY <1>1, EmptySeq
  <2> QED
    BY <1>1, <2>1, FdAssumption DEF IInv, ServerTypeOK, FdTypeOK, ListenFd
<1>7. ScanInv'
  BY <1>1, <1>4 DEF IInv, ScanInv
<1>8. StreamInv'
  <2>1. \A d \in Clients : Held(d)' = Held(d) \/ ssk'[d] # "est"
    BY <1>1, <1>4 DEF Held, c, IInv, TcpInv, TcpTypeOK
  <2> QED
    BY <1>3, <2>1, StreamEnds
<1> QED
  BY <1>3, <1>4, <1>5, <1>6, <1>7, <1>8, VariantKept DEF IInv

\* Every step of the server.
LEMMA ServerStep ==
  ASSUME IInv, ServerNext, UNCHANGED <<clientVars, variantVars>>
  PROVE  IInv' /\ PhasesKept /\ UNCHANGED <<sent, got>>
<1>0. UNCHANGED nofile
  BY DEF ServerNext
<1>1. CASE Select
  BY <1>0, <1>1, SelectStep
<1>2. CASE Accept
  BY <1>0, <1>2, AcceptStep
<1>3. CASE AcceptFails
  BY <1>0, <1>3, ExitStep DEF AcceptFails
<1>4. CASE Read
  BY <1>0, <1>4, ReadStep
<1>5. CASE ReadEnd
  BY <1>0, <1>5, ReadEndStep
<1>6. CASE Write
  BY <1>0, <1>6, WriteStep
<1>7. CASE WriteFails
  BY <1>0, <1>7, WriteFailsStep
<1>8. CASE WriteKilled
  BY <1>0, <1>8, ExitStep DEF WriteKilled
<1> QED
  BY <1>1, <1>2, <1>3, <1>4, <1>5, <1>6, <1>7, <1>8 DEF ServerNext

-----------------------------------------------------------------------------
(* All the steps.                                                          *)

\* A step of a client or of the network, which the server does not see.
LEMMA OthersKeep ==
  ASSUME IInv, UNCHANGED serverVars, TcpInv', ClientInv', VariantTypeOK',
         StillOpen, FlowStep
  PROVE  IInv'
<1>1. UNCHANGED <<spc, fdt, nofile, readfd, maxfd, tempfd, n, i, line>>
  BY DEF serverVars
<1>2. ServerTypeOK'
  BY <1>1 DEF IInv, ServerTypeOK, FdTypeOK
<1>3. ScanInv'
  <2>1. \A f \in ConnFds : fdt[f] # NoConn => fdt[f] \in Clients
    BY DEF IInv, ServerTypeOK, FdTypeOK
  <2> QED
    BY <1>1, <2>1 DEF IInv, ScanInv, StillOpen
<1>4. StreamInv'
  <2>1. \A c \in Clients : Held(c)' = Held(c)
    BY <1>1 DEF Held
  <2> QED
    BY <2>1, StreamEnds
<1> QED
  BY <1>2, <1>3, <1>4 DEF IInv

LEMMA EchoFromInv == IInv => EchoIntegrity
  BY DEF IInv, StreamInv, Flow, EchoIntegrity

\* Every step keeps the invariant, and is a step of the abstract service or
\* changes nothing of it.
LEMMA NextStep ==
  ASSUME IInv, [Next]_vars
  PROVE  IInv' /\ EchoStep
<1>1. CASE ServerNext /\ UNCHANGED <<clientVars, variantVars>>
  BY <1>1, ServerStep, EchoStutter
<1>2. ASSUME NEW c \in Clients, VariantNext(c), UNCHANGED serverVars
      PROVE  IInv' /\ EchoStep
  <2>1. TcpInv' /\ ClientInv' /\ StillOpen /\ FlowStep /\ EchoStep
    BY <1>2, ClientStep, EchoFromInv DEF IInv
  <2>2. VariantTypeOK'
    BY <1>2, <2>1, VariantTypeKept DEF IInv
  <2> QED
    BY <1>2, <2>1, <2>2, OthersKeep
<1>3. ASSUME NEW c \in Clients, ResetArrives(c),
             UNCHANGED <<clientVars, variantVars, serverVars>>
      PROVE  IInv' /\ EchoStep
  <2>1. TcpInv' /\ FlowStep /\ PhasesKept
    BY <1>3, ResetArrivesInv, ResetArrivesFlow DEF IInv
  <2>2. ClientInv' /\ StillOpen
    BY <1>3, <2>1, ClientsKept DEF IInv, StillOpen, PhasesKept
  <2>3. EchoStep
    BY <1>3, <2>1, EchoStutter DEF ResetArrives, ServerResetArrives, ClientResetArrives
  <2>4. VariantTypeOK'
    BY <1>3, VariantKept DEF IInv
  <2> QED
    BY <1>3, <2>1, <2>2, <2>3, <2>4, OthersKeep
<1>4. CASE UNCHANGED vars
  <2>1. TcpInv' /\ FlowStep /\ PhasesKept /\ StillOpen
    BY <1>4 DEF vars, tcpVars, IInv, TcpInv, TcpTypeOK, EndsAgree, FlowStep,
                PhasesKept, StillOpen
  <2>2. ClientInv' /\ EchoStep
    BY <1>4, <2>1, ClientsKept, EchoStutter DEF vars, tcpVars, IInv
  <2>3. VariantTypeOK'
    BY <1>4, VariantKept DEF vars, IInv
  <2> QED
    BY <1>4, <2>1, <2>2, <2>3, OthersKeep DEF vars
<1> QED
  BY <1>1, <1>2, <1>3, <1>4 DEF Next, AtRest

THEOREM Invariance == Spec => []IInv
<1>1. Init => IInv
  BY InitInv
<1>2. IInv /\ [Next]_vars => IInv'
  BY NextStep
<1> QED
  BY <1>1, <1>2, PTL DEF Spec

-----------------------------------------------------------------------------
(* The theorems.                                                           *)

\* The variables of the kernel, the clients and the server keep their types.
THEOREM TypeCorrect == Spec => []TypeOK
<1>1. IInv => TypeOK
  BY DEF IInv, TcpInv, ClientInv, TypeOK
<1> QED
  BY <1>1, Invariance, PTL

\* What a client has received, and what is on its way to it, is a prefix of
\* what it sent: the server never mixes, repeats, reorders or drops bytes of
\* a conversation, however the lines are cut and whatever else it serves.
THEOREM EchoesCorrect == Spec => []EchoIntegrity
  BY EchoFromInv, Invariance, PTL

\* The server and its clients implement the abstract echo service.
THEOREM ImplementsEcho == Spec => EchoSpec
<1>1. Init => Echo!Init
  BY DEF Init, TcpInit, Echo!Init
<1>2. IInv /\ [Next]_vars => [Echo!Next]_(Echo!vars)
  BY NextStep DEF EchoStep
<1> QED
  BY <1>1, <1>2, Invariance, PTL DEF Spec, EchoSpec, Echo!Spec

-----------------------------------------------------------------------------
(* The descriptors: a second invariant, inductive relative to the first.   *)

\* FD_SET and FD_CLR follow accept() and close(), and maxfd is never below.
Watched ==
  spc # "dead" =>
    /\ readfd = {ListenFd} \cup OpenFds
    /\ \A f \in readfd : f <= maxfd

\* What the scan has not come to is ready; what it is writing to need not be.
ReadyInv ==
  /\ spc = "scan" => \A f \in tempfd : f >= i => Ready(f)
  /\ spc = "write" => \A f \in tempfd : f > i => Ready(f)

SInv == FdTableInv /\ Watched /\ ReadyInv

LEMMA SInvInit == Init => SInv
<1> SUFFICES ASSUME Init PROVE SInv
  OBVIOUS
<1>1. FdTableInv
  BY TableInitInv DEF Init, ServerInit
<1>2. OpenFds = {}
  BY DEF Init, ServerInit, FdInit, OpenFds
<1>3. Watched
  BY <1>2, FdAssumption DEF Watched, Init, ServerInit, ListenFd
<1>4. ReadyInv
  BY DEF ReadyInv, Init, ServerInit
<1> QED
  BY <1>1, <1>3, <1>4 DEF SInv

\* What the scan has still to visit is a descriptor, open unless it is the
\* listening one.
LEMMA ToVisit ==
  ASSUME IInv, NEW f \in tempfd, f >= i
  PROVE  f \in OpenFds \cup {ListenFd} /\ f \in Nat /\ i \in Nat
<1>1. f \in ListenFd .. LastFd /\ i \in Nat
  BY DEF IInv, ServerTypeOK
<1>2. f \in Nat /\ (f # ListenFd => f \in ConnFds)
  BY <1>1, FdRange
<1> QED
  BY <1>1, <1>2 DEF IInv, ScanInv, OpenFds

LEMMA SelectTable ==
  ASSUME IInv, SInv, Select, UNCHANGED nofile
  PROVE  SInv'
<1> DEFINE ready == {f \in readfd : f <= maxfd /\ Ready(f)}
<1>1. /\ spc' = "scan" /\ tempfd' = ready /\ spc = "select"
      /\ UNCHANGED <<tcpVars, fdt, readfd, maxfd>>
  BY DEF Select
<1>2. UNCHANGED <<csk, ssk, up, backlog>>
  BY <1>1 DEF tcpVars
<1>3. FdTableInv' /\ OpenFds' = OpenFds
  <2>1. EndsKept /\ StillOpen
    BY <1>2 DEF EndsKept, StillOpen
  <2> QED
    BY <1>1, <1>2, <2>1, TableKept DEF SInv, OpenFds
<1>4. Watched'
  BY <1>1, <1>3 DEF SInv, Watched
<1>5. \A f \in readfd : Ready(f) => Ready(f)'
  BY <1>1, <1>2 DEF Ready
<1>6. ReadyInv'
  BY <1>1, <1>5 DEF ReadyInv
<1> QED
  BY <1>3, <1>4, <1>6 DEF SInv

LEMMA AcceptTable ==
  ASSUME IInv, SInv, Accept, UNCHANGED nofile
  PROVE  SInv'
<1> DEFINE g == Min(FreeFds)
<1>1. /\ spc = "scan" /\ i = ListenFd /\ FreeFds # {}
      /\ ServerAccepts(Head(backlog))
      /\ fdt' = [fdt EXCEPT ![g] = Head(backlog)]
      /\ readfd' = readfd \cup {g}
      /\ maxfd' = IF g > maxfd THEN g ELSE maxfd
      /\ NextFd
  BY DEF Accept
<1>2. g \in FreeFds
  <2>1. FreeFds \in SUBSET Nat
    BY FdAssumption DEF FreeFds, ConnFds, ListenFd
  <2> QED
    BY <1>1, <2>1, MinProperties
<1> HIDE DEF g
<1>3. /\ FdTableInv' /\ OpenFds' = OpenFds \cup {g}
      /\ \A f \in OpenFds : f # g /\ fdt'[f] = fdt[f]
  BY <1>1, <1>2, TableAccepts DEF IInv, SInv
<1>4. Watched'
  <2>1. g \in Nat /\ maxfd \in Nat
    BY <1>2, FdAssumption DEF FreeFds, ConnFds, ListenFd, IInv, ServerTypeOK
  <2>2. \A f \in readfd : f \in Nat
    BY FdRange DEF IInv, ServerTypeOK
  <2>3. \A f \in readfd' : f <= maxfd'
    BY <1>1, <2>1, <2>2 DEF SInv, Watched
  <2> QED
    BY <1>1, <1>3, <2>3 DEF SInv, Watched
<1>5. ReadyInv'
  <2>1. /\ spc' \in {"scan", "select"} /\ i' \in 0 .. LastFd
        /\ spc' = "scan" => i' \in tempfd' /\ i' > i /\ tempfd' = tempfd
    BY <1>1, NextFdStep DEF IInv
  <2>2. ASSUME spc' = "scan", NEW f \in tempfd', f >= i'
        PROVE  Ready(f)'
    <3>1. f \in tempfd /\ i' > i /\ i' \in Nat
      BY <2>1, <2>2
    <3>2. f \in Nat /\ i \in Nat
      BY <3>1, FdRange DEF IInv, ServerTypeOK
    <3>3. f >= i /\ f > i
      BY <2>2, <3>1, <3>2
    <3>4. f \in OpenFds /\ f # ListenFd
      BY <1>1, <3>1, <3>2, <3>3, ToVisit
    <3>5. Ready(f)
      BY <1>1, <3>1, <3>3 DEF SInv, ReadyInv
    <3> QED
      BY <1>1, <1>3, <3>4, <3>5 DEF Ready, ServerAccepts
  <2> QED
    BY <2>1, <2>2 DEF ReadyInv
<1> QED
  BY <1>3, <1>4, <1>5 DEF SInv

LEMMA ExitTable ==
  ASSUME IInv, SInv, ServerExits, UNCHANGED nofile
  PROVE  SInv'
<1>1. spc' = "dead" /\ ProcessGone
  BY DEF ServerExits
<1>2. FdTableInv'
  BY <1>1, TableGone DEF IInv, SInv
<1> QED
  BY <1>1, <1>2 DEF SInv, Watched, ReadyInv

LEMMA ReadTable ==
  ASSUME IInv, SInv, Read, UNCHANGED nofile
  PROVE  SInv'
<1> DEFINE c == fdt[i]
<1>1. /\ spc = "scan" /\ i # ListenFd /\ spc' = "write"
      /\ UNCHANGED <<fdt, readfd, maxfd, tempfd, i>>
  BY DEF Read
<1>2. i \in ConnFds /\ c \in Clients
  BY <1>1, AtConnection DEF IInv
<1>3. PICK k \in ReadSizes(up[c]) : ServerReads(c, k)
  BY ChunksAreSizes DEF Read
<1>4. i \in OpenFds
  BY <1>2, FdAssumption DEF OpenFds
<1>5. EndsKept /\ StillOpen /\ UNCHANGED <<csk, ssk, backlog>>
  <2>1. EndsKept /\ UNCHANGED <<csk, ssk, backlog>>
    BY <1>2, <1>3, ServerReadsKeeps
  <2> QED
    BY <2>1 DEF StillOpen
<1>6. FdTableInv' /\ OpenFds' = OpenFds
  BY <1>1, <1>5, TableKept DEF SInv, OpenFds
<1>7. Watched'
  BY <1>1, <1>6 DEF SInv, Watched
<1>8. ReadyInv'
  <2> SUFFICES ASSUME NEW f \in tempfd, f > i
               PROVE  Ready(f)'
    BY <1>1 DEF ReadyInv
  <2>1. f \in Nat /\ i \in Nat /\ f >= i
    BY FdRange DEF IInv, ServerTypeOK
  <2>2. f \in OpenFds /\ f # ListenFd /\ Ready(f)
    BY <1>1, <1>2, <2>1, ToVisit DEF SInv, ReadyInv, ConnFds, ListenFd
  <2>3. fdt[f] # c /\ fdt[f] \in Clients
    BY <1>4, <2>1, <2>2 DEF SInv, FdTableInv, FdTableOK, FdTypeOK, OpenFds
  <2>4. up'[fdt[f]] = up[fdt[f]]
    BY <1>2, <1>3, <2>3 DEF ServerReads, IInv, TcpInv, TcpTypeOK
  <2> QED
    BY <1>1, <1>5, <2>2, <2>4 DEF Ready
<1> QED
  BY <1>6, <1>7, <1>8 DEF SInv

LEMMA ReadEndTable ==
  ASSUME IInv, SInv, ReadEnd, StillOpen, UNCHANGED nofile
  PROVE  SInv'
<1>1. /\ spc = "scan" /\ i # ListenFd /\ FdCloses(i)
      /\ readfd' = readfd \ {i} /\ spc' = "select" /\ UNCHANGED maxfd
  BY DEF ReadEnd, NextTurn
<1>2. i \in OpenFds
  BY <1>1, AtConnection, FdAssumption DEF IInv, OpenFds
<1>3. FdTableInv' /\ OpenFds' = OpenFds \ {i}
  BY <1>1, <1>2, TableCloses DEF IInv, SInv
<1>4. Watched'
  BY <1>1, <1>3 DEF SInv, Watched
<1> QED
  BY <1>1, <1>3, <1>4 DEF SInv, ReadyInv

LEMMA WriteTable ==
  ASSUME IInv, SInv, Write, UNCHANGED nofile
  PROVE  SInv'
<1>1. /\ spc = "write" /\ ServerWrites(fdt[i], line) /\ NextFd
      /\ UNCHANGED <<fdt, readfd, maxfd>>
  BY DEF Write, SendsBack
<1>2. i # ListenFd /\ i \in ConnFds /\ fdt[i] \in Clients
  BY <1>1, AtConnection DEF IInv, ScanInv
<1>3. EndsKept /\ ReadableKept /\ UNCHANGED <<csk, backlog>>
  BY <1>1, <1>2, ServerWritesKeeps DEF IInv
<1>4. FdTableInv' /\ OpenFds' = OpenFds
  BY <1>1, <1>3, TableKept DEF SInv, OpenFds, StillOpen
<1>5. /\ spc' \in {"scan", "select"} /\ i' \in 0 .. LastFd
      /\ spc' = "scan" => i' \in tempfd' /\ i' > i /\ tempfd' = tempfd
  BY <1>1, NextFdStep DEF IInv
<1>6. Watched'
  BY <1>1, <1>4 DEF SInv, Watched
<1>7. ReadyInv'
  <2>1. ASSUME spc' = "scan", NEW f \in tempfd', f >= i'
        PROVE  Ready(f)'
    <3>1. f \in tempfd /\ i' > i /\ i' \in Nat
      BY <1>5, <2>1
    <3>2. f \in Nat /\ i \in Nat
      BY <3>1, FdRange DEF IInv, ServerTypeOK
    <3>3. f >= i /\ f > i
      BY <2>1, <3>1, <3>2
    <3>4. f \in OpenFds /\ f # ListenFd
      BY <1>2, <3>1, <3>2, <3>3, ToVisit DEF ConnFds, ListenFd
    <3>5. Ready(f)
      BY <1>1, <3>1, <3>3 DEF SInv, ReadyInv
    <3>6. fdt[f] \in Clients
      BY <3>4 DEF SInv, FdTableInv, FdTypeOK, OpenFds
    <3> QED
      BY <1>1, <1>3, <3>4, <3>5, <3>6 DEF Ready, ReadableKept
  <2> QED
    BY <1>5, <2>1 DEF ReadyInv
<1> QED
  BY <1>4, <1>6, <1>7 DEF SInv

LEMMA WriteFailsTable ==
  ASSUME IInv, SInv, WriteFails, UNCHANGED nofile
  PROVE  SInv'
<1>1. /\ spc = "write" /\ SendBackFails(fdt[i]) /\ spc' = "select"
      /\ UNCHANGED <<fdt, readfd, maxfd>>
  BY DEF WriteFails, NextTurn
<1>2. fdt[i] \in Clients
  BY <1>1, AtConnection DEF IInv, ScanInv
<1>3. EndsKept /\ UNCHANGED <<csk, backlog>>
  BY <1>1, <1>2, SendBackFailsKeeps DEF IInv
<1>4. FdTableInv' /\ OpenFds' = OpenFds
  BY <1>1, <1>3, TableKept DEF SInv, OpenFds, StillOpen
<1>5. Watched'
  BY <1>1, <1>4 DEF SInv, Watched
<1> QED
  BY <1>1, <1>4, <1>5 DEF SInv, ReadyInv

LEMMA ServerTable ==
  ASSUME IInv, SInv, ServerNext, UNCHANGED <<clientVars, variantVars>>
  PROVE  SInv'
<1>0. UNCHANGED nofile /\ StillOpen
  BY ServerStep DEF ServerNext, StillOpen, PhasesKept
<1>1. CASE Select
  BY <1>0, <1>1, SelectTable
<1>2. CASE Accept
  BY <1>0, <1>2, AcceptTable
<1>3. CASE AcceptFails
  BY <1>0, <1>3, ExitTable DEF AcceptFails
<1>4. CASE Read
  BY <1>0, <1>4, ReadTable
<1>5. CASE ReadEnd
  BY <1>0, <1>5, ReadEndTable
<1>6. CASE Write
  BY <1>0, <1>6, WriteTable
<1>7. CASE WriteFails
  BY <1>0, <1>7, WriteFailsTable
<1>8. CASE WriteKilled
  BY <1>0, <1>8, ExitTable DEF WriteKilled
<1> QED
  BY <1>1, <1>2, <1>3, <1>4, <1>5, <1>6, <1>7, <1>8 DEF ServerNext

\* A step of a client or of the network takes nothing from the scan.
LEMMA OthersTable ==
  ASSUME IInv, SInv, UNCHANGED serverVars, FdTableInv', ReadyKept, OpenFds' = OpenFds
  PROVE  SInv'
<1>1. UNCHANGED <<spc, readfd, maxfd, tempfd, i>>
  BY DEF serverVars
<1>2. Watched'
  BY <1>1 DEF SInv, Watched
<1>3. \A f \in tempfd : f > i => f >= i
  BY FdRange DEF IInv, ServerTypeOK
<1>4. \A f \in tempfd : f >= i /\ Ready(f) => Ready(f)'
  BY ToVisit DEF ReadyKept
<1>5. ReadyInv'
  BY <1>1, <1>3, <1>4 DEF SInv, ReadyInv
<1> QED
  BY <1>2, <1>5 DEF SInv

LEMMA NextTable ==
  ASSUME IInv, SInv, [Next]_vars
  PROVE  SInv'
<1>1. CASE ServerNext /\ UNCHANGED <<clientVars, variantVars>>
  BY <1>1, ServerTable
<1>2. ASSUME NEW c \in Clients, VariantNext(c), UNCHANGED serverVars
      PROVE  SInv'
  <2>1. StillOpen
    BY <1>2, ClientStep, EchoFromInv DEF IInv
  <2>2. UNCHANGED <<fdt, nofile>>
    BY <1>2 DEF serverVars
  <2>3. FdTableInv' /\ ReadyKept /\ OpenFds' = OpenFds
    BY <1>2, <2>1, <2>2, TableOthers DEF IInv, SInv
  <2> QED
    BY <1>2, <2>3, OthersTable
<1>3. ASSUME NEW c \in Clients, ResetArrives(c), UNCHANGED serverVars
      PROVE  SInv'
  <2>1. StillOpen
    BY <1>3, ResetArrivesFlow DEF IInv, StillOpen, PhasesKept
  <2>2. UNCHANGED <<fdt, nofile>>
    BY <1>3 DEF serverVars
  <2>3. FdTableInv' /\ ReadyKept /\ OpenFds' = OpenFds
    BY <1>3, <2>1, <2>2, TableOthers DEF IInv, SInv
  <2> QED
    BY <1>3, <2>3, OthersTable
<1>4. CASE UNCHANGED vars
  <2>1. /\ UNCHANGED <<csk, ssk, up, backlog, fdt, nofile>>
        /\ UNCHANGED serverVars
    BY <1>4 DEF vars, tcpVars, serverVars
  <2>2. EndsKept /\ StillOpen /\ OpenFds' = OpenFds
    BY <2>1 DEF EndsKept, StillOpen, OpenFds
  <2>3. FdTableInv'
    BY <2>1, <2>2, TableKept DEF SInv
  <2>4. ReadyKept
    BY <2>1 DEF ReadyKept, Ready
  <2> QED
    BY <2>1, <2>2, <2>3, <2>4, OthersTable
<1> QED
  BY <1>1, <1>2, <1>3, <1>4 DEF Next, AtRest

LEMMA TableInvariance == Spec => []SInv
<1>1. Init => SInv
  BY SInvInit
<1>2. IInv /\ SInv /\ [Next]_vars => SInv'
  BY NextTable
<1> QED
  BY <1>1, <1>2, Invariance, PTL DEF Spec

-----------------------------------------------------------------------------
\* The watched set is the set of open descriptors, below maxfd, whatever was
\* accepted, ended and reused (FD_SET at 92, FD_CLR at 105 and 110), and the
\* kernel holds no connection the server has forgotten.
THEOREM DescriptorsAgree == Spec => []DescriptorTable
<1>1. SInv => DescriptorTable
  BY DEF SInv, Watched, FdTableInv, DescriptorTable
<1> QED
  BY <1>1, TableInvariance, PTL

\* The accept() at 87 and the read() at 102 never block the only thread: what
\* select() reported is still there when the scan comes to it.
THEOREM ScanDoesNotBlock == Spec => []ScanNeverBlocks
<1>1. SInv => ScanNeverBlocks
  BY DEF SInv, ReadyInv, ScanNeverBlocks
<1> QED
  BY <1>1, TableInvariance, PTL

-----------------------------------------------------------------------------
(* Lines stay whole: a third one.                                          *)

LineInv ==
  LinesArriveWhole =>
    \A c \in Clients :
      OneLine(ssk[c], cpc[c], rep[c], sent[c], got[c], down[c], Held(c), up[c])

\* What each step of the server does to a line.
LEMMA HandsOn ==
  ASSUME IInv, ServerNext, NEW c \in Clients
  PROVE  Hands(c, Held(c), Held(c)')
<1>1. CASE Select
  BY <1>1 DEF Select, tcpVars, Held, Hands
<1>2. CASE Accept
  <2>1. /\ spc = "scan" /\ spc' \in {"scan", "select"}
        /\ UNCHANGED <<ssk, up, down, sent, got>>
    BY <1>2, NextFdStep DEF Accept, ServerAccepts, IInv
  <2> QED
    BY <2>1 DEF Held, Hands
<1>3. CASE AcceptFails \/ WriteKilled
  <2> DEFINE S == {fdt[f] : f \in OpenFds} \cup Range(backlog)
  <2>1. spc' = "dead" /\ ServerCloses(S)
    BY <1>3 DEF AcceptFails, WriteKilled, ServerExits, ProcessGone
  <2>2. ASSUME c \notin S PROVE Held(c) = <<>>
    <3>1. ASSUME spc = "write", fdt[i] = c PROVE FALSE
      <4>1. i \in ConnFds /\ fdt[i] # NoConn
        BY <3>1, AtConnection, FdAssumption DEF IInv, ScanInv
      <4> QED
        BY <2>2, <3>1, <4>1 DEF OpenFds
    <3> QED
      BY <3>1 DEF Held
  <2> HIDE DEF S
  <2>3. /\ UNCHANGED <<down, sent, got>>
        /\ IF c \in S THEN ssk'[c] # "est" /\ Len(up'[c]) <= Len(up[c])
                      ELSE UNCHANGED <<ssk[c], up[c]>>
    BY <2>1, ClosedEmpty DEF ServerCloses, IInv
  <2>4. Held(c)' = <<>>
    BY <2>1 DEF Held
  <2> QED
    BY <2>2, <2>3, <2>4 DEF Hands
<1>4. CASE Read
  <2> DEFINE d == fdt[i]
  <2>1. PICK k \in Chunks(d) : ServerReads(d, k) /\ line' = Taken(up[d], k)
    BY <1>4 DEF Read
  <2>2. spc = "scan" /\ spc' = "write" /\ UNCHANGED <<fdt, i>>
    BY <1>4 DEF Read
  <2>3. d' = d
    BY <2>2
  <2>4. /\ Held(c) = <<>>
        /\ Held(c)' = IF d = c THEN line' ELSE <<>>
    BY <2>2, <2>3 DEF Held
  <2> HIDE DEF d
  <2>5. UNCHANGED <<ssk, down, sent, got>> /\ up' = [up EXCEPT ![d] = Left(up[d], k)]
    BY <2>1 DEF ServerReads
  <2>6. CASE c = d
    BY <2>1, <2>4, <2>6 DEF Hands
  <2>7. CASE c # d
    BY <2>4, <2>5, <2>7 DEF Hands, IInv, TcpInv, TcpTypeOK
  <2> QED
    BY <2>6, <2>7
<1>5. CASE ReadEnd
  <2>1. /\ spc = "scan" /\ spc' = "select" /\ ServerCloses({fdt[i]})
    BY <1>5 DEF ReadEnd, FdCloses, NextTurn
  <2>2. /\ UNCHANGED <<down, sent, got>>
        /\ \/ ssk'[c] # "est" /\ Len(up'[c]) <= Len(up[c])
           \/ UNCHANGED <<ssk[c], up[c]>>
    BY <2>1, ClosedEmpty DEF ServerCloses, IInv
  <2> QED
    BY <2>1, <2>2 DEF Held, Hands
<1>6. CASE Write
  <2> DEFINE d == fdt[i]
  <2>1. /\ spc = "write" /\ SendsBack(d, line) /\ spc' \in {"scan", "select"}
    BY <1>6, NextFdStep DEF Write, IInv
  <2>2. Held(c) = (IF d = c THEN line ELSE <<>>) /\ Held(c)' = <<>>
    BY <2>1 DEF Held
  <2> HIDE DEF d
  <2>3. CASE c = d
    BY <2>1, <2>2, <2>3 DEF Hands
  <2>4. CASE c # d
    BY <2>1, <2>2, <2>4 DEF Hands, SendsBack, ServerWrites, IInv, TcpInv, TcpTypeOK
  <2> QED
    BY <2>3, <2>4
<1>7. CASE WriteFails
  <2> DEFINE d == fdt[i]
  <2>1. spc = "write" /\ SendBackFails(d) /\ spc' = "select"
    BY <1>7 DEF WriteFails, NextTurn
  <2>2. Held(c) = (IF d = c THEN line ELSE <<>>) /\ Held(c)' = <<>>
    BY <2>1 DEF Held
  <2>3. d \in Clients
    BY <2>1, AtConnection DEF IInv, ScanInv
  <2> HIDE DEF d
  <2>4. /\ UNCHANGED <<down, sent, got>> /\ ssk'[d] # "est" /\ Len(up'[d]) <= Len(up[d])
        /\ \A e \in Clients \ {d} : ssk'[e] = ssk[e]
    BY <2>1, <2>3, SendBackFailsStep DEF IInv
  <2>5. c # d => up'[c] = up[c]
    BY <2>1 DEF SendBackFails, ServerWriteFails, tcpVars, IInv, TcpInv, TcpTypeOK
  <2> QED
    BY <2>2, <2>4, <2>5 DEF Hands
<1> QED
  BY <1>1, <1>2, <1>3, <1>4, <1>5, <1>6, <1>7 DEF ServerNext

LEMMA LineStep ==
  ASSUME IInv, LineInv, [Next]_vars
  PROVE  LineInv'
<1>1. UNCHANGED family
  BY DEF Next, VariantNext, variantVars, AtRest, vars
<1> SUFFICES ASSUME LinesArriveWhole, NEW c \in Clients
             PROVE  OneLine(ssk'[c], cpc'[c], rep'[c], sent'[c], got'[c], down'[c],
                            Held(c)', up'[c])
  BY <1>1 DEF LineInv, LinesArriveWhole
<1>2. OneLine(ssk[c], cpc[c], rep[c], sent[c], got[c], down[c], Held(c), up[c])
  BY DEF LineInv
<1>3. /\ Flow(ssk[c], sent[c], got[c], down[c], Held(c), up[c])
      /\ Held(c) \in Seq(Byte) /\ (csk[c] = "none" => Held(c) = <<>>)
  BY HeldType DEF IInv, StreamInv
<1>4. CASE ServerNext /\ UNCHANGED <<clientVars, variantVars>>
  <2>1. Hands(c, Held(c), Held(c)')
    BY <1>4, HandsOn
  <2> QED
    BY <1>2, <1>3, <1>4, <2>1, ServerLine DEF IInv
<1>5. ASSUME LinesKept, UNCHANGED serverVars
      PROVE  OneLine(ssk'[c], cpc'[c], rep'[c], sent'[c], got'[c], down'[c], Held(c)', up'[c])
  <2>1. Held(c)' = Held(c)
    BY <1>5 DEF serverVars, Held
  <2> QED
    BY <1>2, <1>3, <1>5, <2>1 DEF LinesKept
<1>6. ASSUME NEW d \in Clients, VariantNext(d)
      PROVE  LinesKept
  BY <1>6, ClientLines DEF IInv
<1>7. ASSUME NEW d \in Clients, ResetArrives(d), UNCHANGED clientVars
      PROVE  LinesKept
  BY <1>7, ResetLines DEF IInv
<1>8. CASE UNCHANGED vars
  BY <1>2, <1>8 DEF vars, tcpVars, clientVars, serverVars, Held
<1> QED
  BY <1>4, <1>5, <1>6, <1>7, <1>8 DEF Next, AtRest

\* Where lines arrive whole, one read of a client gives all of the line it
\* sent last, however the server and the network are scheduled and
\* however many clients it scans.
THEOREM LinesStayWhole == Spec => []MessagesStayWhole
<1>1. Init => LineInv
  BY LinesInit DEF Init, ServerInit, LineInv, Held
<1>2. IInv /\ LineInv /\ [Next]_vars => LineInv'
  BY LineStep
<1>3. LineInv => MessagesStayWhole
  BY DEF LineInv, OneLine, MessagesStayWhole
<1> QED
  BY <1>1, <1>2, <1>3, Invariance, PTL DEF Spec

-----------------------------------------------------------------------------
(* Who ends the process.                                                   *)

\* A line that is being written back is not empty, and none of its bytes has
\* reached its client: it has not read all it sent.
KillInv ==
  /\ spc = "write" => line # <<>>
  /\ \A c \in Clients : Accounted(sent[c], got[c], down[c], Held(c), up[c])

LEMMA NeverEmpty ==
  ASSUME IInv, KillInv, [Next]_vars
  PROVE  spc' = "write" => line' # <<>>
<1>1. CASE Read
  <2>1. fdt[i] \in Clients
    BY <1>1, AtConnection DEF Read, IInv
  <2> QED
    BY <1>1, <2>1, ReadsSome DEF Read, IInv
<1>2. CASE Select \/ ReadEnd \/ WriteFails \/ AcceptFails \/ WriteKilled
  BY <1>2 DEF Select, ReadEnd, WriteFails, AcceptFails, WriteKilled, ServerExits, NextTurn
<1>3. CASE Accept \/ Write
  BY <1>3, NextFdStep DEF Accept, Write, IInv
<1>4. CASE UNCHANGED serverVars
  BY <1>4 DEF serverVars, KillInv
<1> QED
  BY <1>1, <1>2, <1>3, <1>4 DEF Next, ServerNext, AtRest, vars

LEMMA KillStep ==
  ASSUME IInv, IInv', KillInv, [Next]_vars
  PROVE  KillInv'
<1> SUFFICES ASSUME NEW c \in Clients
             PROVE  Accounted(sent'[c], got'[c], down'[c], Held(c)', up'[c])
  BY NeverEmpty DEF KillInv
<1>1. Accounted(sent[c], got[c], down[c], Held(c), up[c]) /\ Held(c) \in Seq(Byte)
  BY HeldType DEF KillInv, IInv
<1>2. CASE ServerNext
  <2>1. Hands(c, Held(c), Held(c)')
    BY <1>2, HandsOn
  <2> QED
    BY <1>1, <2>1, ServerAccount DEF IInv
<1>3. ASSUME AccountsKept, UNCHANGED serverVars
      PROVE  Accounted(sent'[c], got'[c], down'[c], Held(c)', up'[c])
  <2>1. Held(c)' = Held(c)
    BY <1>3 DEF serverVars, Held
  <2> QED
    BY <1>1, <1>3, <2>1 DEF AccountsKept
<1>4. ASSUME NEW d \in Clients, VariantNext(d) \/ ResetArrives(d)
      PROVE  AccountsKept
  BY <1>4, ClientAccount, ResetAccount DEF IInv
<1>5. CASE UNCHANGED vars
  BY <1>1, <1>5 DEF vars, tcpVars, serverVars, Held
<1> QED
  BY <1>2, <1>3, <1>4, <1>5 DEF Next, AtRest

\* The step that ends the process.
LEMMA Death ==
  ASSUME IInv, SInv, KillInv, Next, spc # "dead", spc' = "dead"
  PROVE  \/ FreeFds = {} /\ backlog # <<>>
         \/ \E f \in OpenFds : csk[fdt[f]] = "closed" /\ got[fdt[f]] # sent[fdt[f]]
<1>1. CASE AcceptFails
  <2>1. Ready(ListenFd)
    BY <1>1 DEF AcceptFails, SInv, ReadyInv, IInv, ScanInv, ServerTypeOK, FdTypeOK
  <2> QED
    BY <1>1, <2>1 DEF AcceptFails, Ready
<1>2. CASE WriteKilled
  <2>1. i \in ConnFds /\ fdt[i] \in Clients /\ spc = "write" /\ SendBackKills(fdt[i])
    BY <1>2, AtConnection DEF WriteKilled, IInv, ScanInv
  <2>2. Held(fdt[i]) = line /\ line # <<>> /\ line \in Seq(Byte)
    BY <2>1 DEF Held, KillInv, IInv, ServerTypeOK
  <2>3. csk[fdt[i]] = "closed" /\ got[fdt[i]] # sent[fdt[i]]
    BY <2>1, <2>2, KilledByLeaver DEF KillInv, IInv
  <2>4. i \in OpenFds
    BY <2>1, FdAssumption DEF OpenFds
  <2> QED
    BY <2>3, <2>4
<1>3. CASE Select \/ Read \/ ReadEnd \/ WriteFails
  BY <1>3 DEF Select, Read, ReadEnd, WriteFails, NextTurn
<1>4. CASE Accept \/ Write
  BY <1>4, NextFdStep DEF Accept, Write, IInv
<1>5. CASE UNCHANGED serverVars
  BY <1>5 DEF serverVars
<1> QED
  BY <1>1, <1>2, <1>3, <1>4, <1>5 DEF Next, ServerNext, AtRest, vars

\* However many clients there are and however they leave, what ends the server
\* of all of them is a client without a descriptor left for it, or one that left
\* an answer unread.
THEOREM OnlyLeaversKill == Spec => KilledOnlyByLeavers
<1>1. Init => KillInv
  BY AccountInit DEF Init, ServerInit, KillInv, Held
<1>2. IInv /\ IInv' /\ KillInv /\ [Next]_vars => KillInv'
  BY KillStep
<1>3. IInv /\ SInv /\ KillInv /\ [Next]_vars
      => [spc # "dead" /\ spc' = "dead" =>
            \/ FreeFds = {} /\ backlog # <<>>
            \/ \E f \in OpenFds : csk[fdt[f]] = "closed" /\ got[fdt[f]] # sent[fdt[f]]]_vars
  BY Death
<1> QED
  BY <1>1, <1>2, <1>3, Invariance, TableInvariance, PTL DEF Spec, KilledOnlyByLeavers
=============================================================================
