-------------------------- MODULE PollServerProofs --------------------------
(***************************************************************************)
(* Theorems about PollServer, for any clients, families, bounds, buffers,  *)
(* backlog, descriptor limit and segmentation: its list is the descriptors *)
(* it has open, its scan leaves the array only while an aborted SCTP       *)
(* association is open, only a client that leaves its answers unread, or   *)
(* finds no descriptor left, ends the C servers, lines that arrive whole   *)
(* come back whole, and with its clients it implements EchoService.        *)
(***************************************************************************)
EXTENDS PollServer, TcpProofs, FiniteSetTheorems

-----------------------------------------------------------------------------
(* The inductive invariant.                                                *)

\* A turn of for(;;) is in its scan.
Scanning == spc \in {"scan", "write", "raise"}

\* The entries poll() counted that the scan does not act on.
Errs(s) == {k \in 1 .. Len(s) : s[k].revents = "err"}

\* The descriptors poll() reported, from entry j on.
Pending(j) == {fds[k].fd : k \in Pollable(fds, j)}

\* What the server has read of connection c and not yet written back.
Held(c) == IF spc \in {"write", "raise"} /\ fdt[myfd] = c THEN line ELSE <<>>

\* The list is the listening socket and the open descriptors, each once.
ListInv ==
  spc # "dead" => IsInjective(fd_list) /\ Range(fd_list) = {ListenFd} \cup OpenFds

\* The scan is at an entry it acts on; n counts the entries of that kind it has
\* not done, and those it does not act on, which are of aborted associations;
\* and what it has not come to is ready.
ScanInv ==
  /\ Scanning => /\ i \in Pollable(fds, 1)
                 /\ n = Cardinality(Pollable(fds, i)) + Cardinality(Errs(fds))
                 /\ \A k, l \in 1 .. Len(fds) : fds[k].fd = fds[l].fd => k = l
                 /\ \A f \in Pending(i + 1) : Ready(f)
                 /\ \A k \in 1 .. Len(fds) :
                      fds[k].revents \in {"err", "stale"} => Astray
  /\ spc = "past" => Astray
  /\ spc = "scan" => Ready(myfd) \/ (fds[i].revents = "stale" /\ myfd \in OpenFds)
  /\ spc \in {"write", "raise"} => myfd \in OpenFds
  /\ spc \notin {"write", "raise"} => line = <<>>

\* No connection loses, repeats or mixes bytes.
StreamInv ==
  \A c \in Clients : Flow(ssk[c], sent[c], got[c], down[c], Held(c), up[c])

IInv ==
  /\ TcpInv /\ ClientInv /\ VariantTypeOK /\ ServerTypeOK
  /\ FdTableInv /\ ListInv /\ ScanInv /\ StreamInv

-----------------------------------------------------------------------------
(* Facts about one state.                                                  *)

\* The entry at hand.
LEMMA AtEntry ==
  ASSUME ServerTypeOK, ScanInv, Scanning
  PROVE  /\ i \in 1 .. Len(fds) /\ i \in Nat /\ Len(fds) \in Nat
         /\ fds[i] \in Entry /\ myfd \in Fd /\ n \in Nat
         /\ \A k \in 1 .. Len(fds) : fds[k] \in Entry
<1>1. fds \in Seq(Entry) /\ n \in Nat /\ i \in Nat
  BY DEF ServerTypeOK
<1>2. i \in 1 .. Len(fds)
  BY DEF ScanInv, Pollable
<1>3. Len(fds) \in Nat /\ \A k \in 1 .. Len(fds) : fds[k] \in Entry
  BY <1>1, LenProperties, ElementOfSeq
<1> QED
  BY <1>1, <1>2, <1>3 DEF Entry, myfd

\* The descriptor at hand, unless it is the listening one, is a client's.
LEMMA AtConnection ==
  ASSUME ServerTypeOK, FdTableInv, ScanInv, Scanning, spc = "scan" => myfd # ListenFd
  PROVE  myfd \in OpenFds /\ myfd \in ConnFds /\ fdt[myfd] \in Clients
<1>1. myfd \in Fd
  BY AtEntry
<1>2. myfd # ListenFd => myfd \in ConnFds
  BY <1>1, FdRange DEF Fd
<1>3. myfd \in OpenFds
  BY <1>2 DEF ScanInv, Scanning, Ready, OpenFds
<1> QED
  BY <1>3 DEF OpenFds, FdTableInv, FdTypeOK

\* What the scan has not come to is another descriptor, open unless it is
\* the listening one.
LEMMA PendingOpen ==
  ASSUME ServerTypeOK, ScanInv, Scanning, NEW f \in Pending(i + 1)
  PROVE  f # myfd /\ f \in OpenFds \cup {ListenFd} /\ Ready(f)
<1>1. PICK k \in Pollable(fds, i + 1) : f = fds[k].fd
  BY DEF Pending
<1>2. k \in 1 .. Len(fds) /\ k # i /\ i \in 1 .. Len(fds)
  BY <1>1, AtEntry DEF Pollable
<1>3. f # myfd
  BY <1>1, <1>2 DEF ScanInv, myfd
<1>4. f \in Fd
  BY <1>1, <1>2, AtEntry DEF Entry
<1>5. Ready(f)
  BY DEF ScanInv
<1>6. f # ListenFd => f \in ConnFds
  BY <1>4, FdRange DEF Fd
<1> QED
  BY <1>3, <1>5, <1>6 DEF Ready, OpenFds

LEMMA HeldType ==
  ASSUME ServerTypeOK, FdTableInv, ScanInv, NEW c \in Clients
  PROVE  /\ Held(c) \in Seq(Byte)
         /\ csk[c] = "none" => Held(c) = <<>>
<1>1. spc \in {"write", "raise"} => myfd \in OpenFds
  BY DEF ScanInv
<1>2. <<>> \in Seq(Byte)
  BY EmptySeq
<1> QED
  BY <1>1, <1>2 DEF Held, ServerTypeOK, FdTableInv

LEMMA InitInv == Init => IInv
<1> SUFFICES ASSUME Init PROVE IInv
  OBVIOUS
<1>1. TcpInv
  BY TcpInitInv DEF Init
<1>2. ClientInv
  BY DEF Init, ClientInit, TcpInit, ClientInv, ClientTypeOK, Reports, At
<1>3. VariantTypeOK
  BY DEF Init, VariantInit, VariantTypeOK
<1>4. ServerTypeOK
  <2>1. <<>> \in Seq(Entry) /\ <<>> \in Seq(Byte)
    BY EmptySeq
  <2>2. <<ListenFd>> \in Seq(Fd)
    BY FdRange DEF Fd
  <2>3. FdTypeOK
    BY TableInitInv DEF Init, ServerInit, FdTableInv
  <2> QED
    BY <2>1, <2>2, <2>3 DEF Init, ServerInit, ServerTypeOK
<1>5. FdTableInv
  BY TableInitInv DEF Init, ServerInit
<1>6. ListInv
  <2>1. OpenFds = {}
    BY DEF Init, ServerInit, FdInit, OpenFds
  <2>2. DOMAIN <<ListenFd>> = {1} /\ <<ListenFd>>[1] = ListenFd
    OBVIOUS
  <2>3. Range(<<ListenFd>>) = {ListenFd} /\ IsInjective(<<ListenFd>>)
    BY <2>2 DEF Range, IsInjective
  <2> QED
    BY <2>1, <2>3 DEF ListInv, Init, ServerInit
<1>7. ScanInv
  BY DEF Init, ServerInit, ScanInv, Scanning
<1>8. StreamInv
  <2> SUFFICES ASSUME NEW c \in Clients
               PROVE  Flow(ssk[c], sent[c], got[c], down[c], Held(c), up[c])
    BY DEF StreamInv
  <2>1. sent[c] = <<>> /\ got[c] = <<>> /\ down[c] = <<>> /\ ssk[c] = "none"
    BY DEF Init, TcpInit
  <2>2. IsPrefix(<<>> \o <<>>, <<>>)
    BY ConcatEmptySeq, EmptySeq DEF IsPrefix
  <2> QED
    BY <2>1, <2>2 DEF Flow
<1> QED
  BY <1>1, <1>2, <1>3, <1>4, <1>5, <1>6, <1>7, <1>8 DEF IInv

-----------------------------------------------------------------------------
(* The loop.                                                               *)

\* i++ and n--: n is the entries left and those that are never acted on, so the
\* scan comes to the last of the first when n comes to the number of the
\* second, and past the array only if there are any.
LEMMA NextEntryStep ==
  ASSUME ServerTypeOK, ScanInv, Scanning, NextEntry(n - 1)
  PROVE  /\ spc' \in {"scan", "past", "poll"}
         /\ fds' \in Seq(Entry) /\ n' \in Nat /\ i' \in Nat
         /\ spc' = "scan" =>
              /\ fds' = fds /\ i' \in Pollable(fds, i + 1)
              /\ Pollable(fds, i') = Pollable(fds, i + 1)
              /\ n' = Cardinality(Pollable(fds, i')) + Cardinality(Errs(fds))
         /\ spc' = "past" => Errs(fds) # {}
<1> DEFINE P == Pollable(fds, i)
           rest == Pollable(fds, i + 1)
           errs == Errs(fds)
<1>1. /\ i \in 1 .. Len(fds) /\ i \in Nat /\ Len(fds) \in Nat /\ n \in Nat
      /\ fds \in Seq(Entry)
  BY AtEntry DEF ServerTypeOK
<1>2. /\ i \in P /\ rest = P \ {i} /\ P \subseteq 1 .. Len(fds)
      /\ n = Cardinality(P) + Cardinality(errs)
  BY <1>1 DEF ScanInv, Pollable
<1>3. rest \in SUBSET Nat
  BY <1>1, <1>2
<1>4. IsFiniteSet(P) /\ IsFiniteSet(errs)
  <2>1. IsFiniteSet(1 .. Len(fds))
    BY <1>1, FS_Interval
  <2>2. errs \subseteq 1 .. Len(fds)
    BY DEF Errs
  <2> QED
    BY <1>2, <2>1, <2>2, FS_Subset
<1>5. /\ Cardinality(rest) = Cardinality(P) - 1 /\ IsFiniteSet(rest)
      /\ Cardinality(P) \in Nat /\ Cardinality(rest) \in Nat /\ Cardinality(errs) \in Nat
  BY <1>2, <1>4, FS_RemoveElement, FS_CardinalityType
<1>6. n - 1 \in Nat /\ n - 1 = Cardinality(rest) + Cardinality(errs)
  BY <1>2, <1>5
<1>7. CASE n - 1 = 0
  <2>1. NextTurn
    BY <1>7 DEF NextEntry
  <2> QED
    BY <2>1, EmptySeq DEF NextTurn
<1>8. CASE n - 1 # 0 /\ rest # {}
  <2>1. /\ spc' = "scan" /\ n' = n - 1 /\ fds' = fds /\ i' = Min(rest)
    BY <1>8 DEF NextEntry, ComesTo
  <2>2. i' \in rest /\ \A y \in rest : i' <= y
    BY <1>3, <1>8, <2>1, MinProperties
  <2>3. Pollable(fds, i') = rest
    BY <1>1, <1>3, <2>2 DEF Pollable
  <2> QED
    BY <1>1, <1>3, <1>6, <2>1, <2>2, <2>3
<1>9. CASE n - 1 # 0 /\ rest = {}
  <2>1. /\ spc' = "past" /\ n' = n - 1 /\ fds' = fds /\ i' = Len(fds) + 1
    BY <1>9 DEF NextEntry, ComesTo
  <2>2. Cardinality(rest) = 0
    BY <1>9, FS_EmptySet
  <2>3. Cardinality(errs) # 0
    <3> DEFINE a == Cardinality(rest)
               b == Cardinality(errs)
               m == n - 1
    <3>1. a = 0 /\ b \in Nat /\ m \in Nat /\ m = a + b /\ m # 0
      BY <1>5, <1>6, <1>9, <2>2
    <3> HIDE DEF a, b, m
    <3>2. b # 0
      BY <3>1
    <3> QED
      BY <3>2 DEF b
  <2>4. errs # {}
    BY <2>3, FS_EmptySet
  <2> QED
    BY <1>1, <1>6, <2>1, <2>4
<1> QED
  BY <1>7, <1>8, <1>9

\* The scan goes on, and what it has not come to is still ready.
LEMMA ScanGoesOn ==
  ASSUME ServerTypeOK, ScanInv, Scanning, NextEntry(n - 1), line' = <<>>,
         \A f \in Pending(i + 1) : Ready(f)', Astray => Astray'
  PROVE  ScanInv'
<1>1. CASE spc' = "poll"
  BY <1>1 DEF ScanInv, Scanning
<1>2. CASE spc' = "scan"
  <2>1. /\ fds' = fds /\ i' \in Pollable(fds, i + 1)
        /\ Pollable(fds, i') = Pollable(fds, i + 1)
        /\ n' = Cardinality(Pollable(fds, i')) + Cardinality(Errs(fds))
    BY <1>2, NextEntryStep
  <2>2. i \in Nat /\ i' \in Nat /\ i' \in Pollable(fds, 1)
    BY <2>1, AtEntry DEF Pollable
  <2>3. Pollable(fds, i' + 1) \subseteq Pollable(fds, i')
    BY <2>2 DEF Pollable
  <2>4. \A f \in Pending(i + 1)' : Ready(f)'
    BY <2>1, <2>3 DEF Pending
  <2>5. fds[i'].fd \in Pending(i + 1)
    BY <2>1 DEF Pending
  <2>6. \A f : f = fds[i'].fd => Ready(f)'
    BY <2>5
  <2>7. myfd' = fds[i'].fd
    BY <2>1 DEF myfd
  <2>8. Ready(myfd)'
    BY <2>6, <2>7 DEF Ready
  <2>9. \A k \in 1 .. Len(fds') : fds'[k].revents \in {"err", "stale"} => Astray'
    BY <2>1 DEF ScanInv
  <2> QED
    BY <1>2, <2>1, <2>2, <2>4, <2>8, <2>9 DEF ScanInv, Scanning
<1>3. CASE spc' = "past"
  <2>1. Astray
    BY <1>3, NextEntryStep DEF Errs, ScanInv
  <2> QED
    BY <1>3, <2>1 DEF ScanInv, Scanning
<1> QED
  BY <1>1, <1>2, <1>3, NextEntryStep

\* An aborted association stays one until its descriptor is closed.
LEMMA AstrayKept ==
  ASSUME UNCHANGED family,
         \A f \in OpenFds : Aborted(fdt[f]) =>
           /\ f \in ConnFds /\ fdt'[f] = fdt[f] /\ fdt[f] # NoConn
           /\ ssk'[fdt[f]] = ssk[fdt[f]] /\ up'[fdt[f]] = up[fdt[f]]
  PROVE  Astray => Astray'
<1> SUFFICES ASSUME NEW f \in OpenFds, Aborted(fdt[f])
             PROVE  Astray'
  BY DEF Astray
<1>1. f \in OpenFds'
  BY DEF OpenFds
<1>2. /\ fdt'[f] = fdt[f]
      /\ ssk'[fdt'[f]] = ssk[fdt[f]] /\ up'[fdt'[f]] = up[fdt[f]]
  OBVIOUS
<1>3. family' = "SCTP" /\ Failing(ssk'[fdt'[f]]) /\ ~HasData(up'[fdt'[f]])
  BY <1>2 DEF Aborted
<1> QED
  BY <1>1, <1>3 DEF Astray, Aborted

\* As long as the table and the connections stay, so does an aborted one.
LEMMA AstrayStays ==
  ASSUME UNCHANGED <<family, fdt, ssk, up>>
  PROVE  Astray => Astray'
  BY DEF Astray, Aborted, OpenFds

\* A connection whose reset the server has not met changes by no step of others.
LEMMA ErrStays ==
  ASSUME TcpInv, NEW c \in Clients, VariantNext(c) \/ ResetArrives(c),
         NEW d \in Clients, ssk[d] = "err"
  PROVE  ssk'[d] = ssk[d] /\ up'[d] = up[d]
<1>1. csk[d] = "closed"
  BY DEF TcpInv, EndsAgree
<1>2. CASE ClientConnects(c)
  BY <1>1, <1>2 DEF ClientConnects, TcpInv, TcpTypeOK
<1>3. ASSUME NEW k \in 1 .. LineSize, ClientWrites(c, k)
      PROVE  ssk'[d] = ssk[d] /\ up'[d] = up[d]
  <2>1. csk[c] # "closed" /\ UNCHANGED ssk
    BY <1>3 DEF ClientWrites, CanWrite
  <2>2. c # d
    BY <1>1, <2>1
  <2> QED
    BY <1>3, <2>1, <2>2 DEF ClientWrites, TcpInv, TcpTypeOK
<1>4. CASE ClientReads(c) \/ ClientReadFails(c) \/ UNCHANGED tcpVars
  BY <1>4 DEF ClientReads, ClientReadFails, tcpVars
<1>5. ASSUME NEW q, LeavesUnread(c, q)
      PROVE  ssk'[d] = ssk[d] /\ up'[d] = up[d]
  BY <1>5 DEF LeavesUnread, ClosedByPeer, TcpInv, TcpTypeOK
<1>6. CASE ResetArrives(c)
  BY <1>6 DEF ResetArrives, ServerResetArrives, ClientResetArrives, TcpInv, TcpTypeOK
<1> QED
  BY <1>2, <1>3, <1>4, <1>5, <1>6, ClientCalls

\* A step of a client or of the network leaves an aborted association one.
LEMMA AstrayOthers ==
  ASSUME TcpInv, FdTableInv, UNCHANGED <<family, fdt>>,
         NEW c \in Clients, VariantNext(c) \/ ResetArrives(c)
  PROVE  Astray => Astray'
<1>1. ASSUME NEW f \in OpenFds, Aborted(fdt[f])
      PROVE  /\ f \in ConnFds /\ fdt'[f] = fdt[f] /\ fdt[f] # NoConn
             /\ ssk'[fdt[f]] = ssk[fdt[f]] /\ up'[fdt[f]] = up[fdt[f]]
  <2>1. fdt[f] \in Clients /\ ssk[fdt[f]] = "err" /\ f \in ConnFds /\ fdt[f] # NoConn
    BY <1>1 DEF Aborted, Failing, FdTableInv, FdTypeOK, OpenFds
  <2> QED
    BY <2>1, ErrStays
<1> QED
  BY <1>1, AstrayKept

\* A call on the connection at hand leaves the others ready.
LEMMA OthersReady ==
  ASSUME ServerTypeOK, FdTableInv, ScanInv, Scanning, myfd \in OpenFds,
         UNCHANGED backlog,
         \A d \in Clients \ {fdt[myfd]} : ssk'[d] = ssk[d] /\ up'[d] = up[d],
         \A g \in OpenFds \ {myfd} : fdt'[g] = fdt[g]
  PROVE  \A f \in Pending(i + 1) : Ready(f)'
<1> SUFFICES ASSUME NEW f \in Pending(i + 1) PROVE Ready(f)'
  OBVIOUS
<1>1. f # myfd /\ f \in OpenFds \cup {ListenFd} /\ Ready(f)
  BY PendingOpen
<1>2. CASE f = ListenFd
  BY <1>1, <1>2 DEF Ready
<1>3. CASE f \in OpenFds /\ f # ListenFd
  <2>1. fdt[f] \in Clients \ {fdt[myfd]} /\ fdt'[f] = fdt[f]
    BY <1>1, <1>3 DEF FdTableInv, FdTableOK, FdTypeOK, OpenFds
  <2> QED
    BY <1>1, <1>3, <2>1 DEF Ready
<1> QED
  BY <1>1, <1>2, <1>3

-----------------------------------------------------------------------------
(* What the steps have in common.                                          *)

\* A step that leaves the bytes where they are, between two system calls.
LEMMA StreamKept ==
  ASSUME StreamInv, UNCHANGED <<ssk, sent, got, down, up>>,
         \A c \in Clients : Held(c)' = Held(c)
  PROVE  StreamInv'
  BY DEF StreamInv

\* A step that ends connections; what it drops from the server's hands
\* belonged to them.
LEMMA StreamEnds ==
  ASSUME IInv, FlowStep,
         \A c \in Clients : Held(c)' = Held(c) \/ ssk'[c] # "est"
  PROVE  StreamInv'
<1> SUFFICES ASSUME NEW c \in Clients
             PROVE  Flow(ssk'[c], sent'[c], got'[c], down'[c], Held(c)', up'[c])
  BY DEF StreamInv
<1>1. Held(c) \in Seq(Byte) /\ (csk[c] = "none" => Held(c) = <<>>)
  BY HeldType DEF IInv
<1>2. Flow(ssk'[c], sent'[c], got'[c], down'[c], Held(c), up'[c])
  BY <1>1 DEF FlowStep, IInv, StreamInv
<1>3. CASE Held(c)' = Held(c)
  BY <1>2, <1>3
<1>4. CASE ssk'[c] # "est"
  BY <1>2, <1>4 DEF Flow
<1> QED
  BY <1>3, <1>4

\* The descriptors and the list stay.
LEMMA ListKept ==
  ASSUME ListInv, spc # "dead", UNCHANGED <<fd_list, fdt>>
  PROVE  ListInv' /\ OpenFds' = OpenFds
  BY DEF ListInv, OpenFds

\* What the other parts of the invariant need of a step of the server.
LEMMA ServerKeeps ==
  ASSUME IInv, TcpInv', PhasesKept, UNCHANGED <<sent, got>>,
         UNCHANGED <<clientVars, variantVars>>,
         ServerTypeOK', FdTableInv', ListInv', ScanInv', StreamInv'
  PROVE  IInv' /\ PhasesKept /\ UNCHANGED <<sent, got>>
  BY ClientsKept, VariantKept DEF IInv

-----------------------------------------------------------------------------
(* The steps of the server.                                                *)

LEMMA PollStep ==
  ASSUME IInv, Poll, UNCHANGED <<clientVars, variantVars>>, UNCHANGED nofile
  PROVE  IInv' /\ PhasesKept /\ UNCHANGED <<sent, got>>
<1> DEFINE polled == [k \in 1 .. Len(fd_list) |->
                        [fd |-> fd_list[k], revents |-> Revents(fd_list[k])]]
           reported == {k \in 1 .. Len(fd_list) : polled[k].revents # "none"}
           ready == Pollable(polled, 1)
           errs == Errs(polled)
<1>1. /\ spc = "poll" /\ reported # {}
      /\ fds' = polled /\ n' = Cardinality(reported)
      /\ ComesTo(polled, ready)
      /\ UNCHANGED <<tcpVars, fdt, fd_list, line>>
  BY DEF Poll
<1>2. /\ fd_list \in Seq(Fd) /\ Len(fd_list) \in Nat
      /\ \A k \in 1 .. Len(fd_list) : fd_list[k] \in Fd
      /\ DOMAIN fd_list = 1 .. Len(fd_list)
  <2>1. fd_list \in Seq(Fd)
    BY DEF IInv, ServerTypeOK
  <2> QED
    BY <2>1, LenProperties, ElementOfSeq
<1>3. \A f : /\ Revents(f) \in {"none", "in", "err"}
             /\ Revents(f) = "in" => Ready(f)
             /\ Revents(f) = "err" => f \in OpenFds /\ Aborted(fdt[f])
  BY DEF Revents
<1>4. /\ polled \in Seq(Entry) /\ Len(polled) = Len(fd_list)
      /\ \A k \in 1 .. Len(fd_list) :
           polled[k].fd = fd_list[k] /\ polled[k].revents = Revents(fd_list[k])
  <2>1. \A k \in 1 .. Len(fd_list) :
          [fd |-> fd_list[k], revents |-> Revents(fd_list[k])] \in Entry
    BY <1>2, <1>3 DEF Entry
  <2>2. polled \in [1 .. Len(fd_list) -> Entry]
    BY <2>1
  <2> HIDE DEF polled
  <2>3. polled \in Seq(Entry) /\ DOMAIN polled = 1 .. Len(fd_list)
    BY <1>2, <2>2
  <2>4. DOMAIN polled = 1 .. Len(polled) /\ Len(polled) \in Nat
    BY <2>3, LenProperties
  <2>5. Len(polled) = Len(fd_list)
    BY <1>2, <2>3, <2>4
  <2>6. \A k \in 1 .. Len(fd_list) :
          polled[k].fd = fd_list[k] /\ polled[k].revents = Revents(fd_list[k])
    BY DEF polled
  <2> QED
    BY <2>3, <2>5, <2>6
<1> HIDE DEF polled
<1>5. /\ ready = {k \in 1 .. Len(fd_list) : polled[k].revents = "in"}
      /\ errs = {k \in 1 .. Len(fd_list) : polled[k].revents = "err"}
      /\ reported = ready \cup errs /\ ready \cap errs = {}
  <2>1. \A k \in 1 .. Len(fd_list) : k >= 1 /\ polled[k].revents # "stale"
    BY <1>2, <1>3, <1>4
  <2>2. ready = {k \in 1 .. Len(fd_list) : polled[k].revents = "in"}
    BY <1>4, <2>1 DEF Pollable
  <2>3. errs = {k \in 1 .. Len(fd_list) : polled[k].revents = "err"}
    BY <1>4 DEF Errs
  <2>4. \A k \in 1 .. Len(fd_list) : polled[k].revents \in {"none", "in", "err"}
    BY <1>3, <1>4
  <2> QED
    BY <2>2, <2>3, <2>4
<1>6. /\ ready \in SUBSET Nat /\ IsFiniteSet(ready) /\ IsFiniteSet(errs)
      /\ Cardinality(reported) = Cardinality(ready) + Cardinality(errs)
      /\ Cardinality(reported) \in Nat
  <2>1. ready \subseteq 1 .. Len(fd_list) /\ errs \subseteq 1 .. Len(fd_list)
    BY <1>5
  <2>2. IsFiniteSet(1 .. Len(fd_list))
    BY <1>2, FS_Interval
  <2> HIDE DEF ready, errs, reported
  <2>3. IsFiniteSet(ready) /\ IsFiniteSet(errs)
    BY <2>1, <2>2, FS_Subset
  <2>4. ready \subseteq Nat
    BY <1>2, <2>1
  <2>5. Cardinality(ready \cup errs)
          = Cardinality(ready) + Cardinality(errs) - Cardinality(ready \cap errs)
        /\ IsFiniteSet(ready \cup errs)
    BY <2>3, FS_Union
  <2>6. Cardinality(ready \cap errs) = 0
    BY <1>5, FS_EmptySet
  <2>7. Cardinality(ready) \in Nat /\ Cardinality(errs) \in Nat
    BY <2>3, FS_CardinalityType
  <2> QED
    BY <1>5, <2>3, <2>4, <2>5, <2>6, <2>7
<1>7. UNCHANGED <<csk, ssk, up, down, sent, got, backlog, listening>>
  BY <1>1 DEF tcpVars
<1>8. TcpInv' /\ PhasesKept /\ EndsKept /\ StillOpen
  BY <1>7 DEF IInv, TcpInv, TcpTypeOK, EndsAgree, PhasesKept, EndsKept, StillOpen
<1>9. FdTableInv' /\ ListInv' /\ OpenFds' = OpenFds
  BY <1>1, <1>7, <1>8, TableKept, ListKept DEF IInv
<1>10. Astray => Astray'
  BY <1>1, <1>7, AstrayStays DEF variantVars
<1>11. errs # {} => Astray
  BY <1>3, <1>4, <1>5 DEF Astray
<1>12. \A k \in 1 .. Len(fds') : fds'[k].revents \in {"err", "stale"} => Astray'
  <2>1. \A k \in 1 .. Len(fd_list) : polled[k].revents = "err" => k \in errs
    BY <1>5
  <2>2. \A k \in 1 .. Len(fd_list) : polled[k].revents # "stale"
    BY <1>3, <1>4
  <2> QED
    BY <1>1, <1>4, <1>10, <1>11, <2>1, <2>2
<1>13. CASE ready = {}
  <2>1. spc' = "past" /\ i' = Len(polled) + 1
    BY <1>1, <1>13 DEF ComesTo
  <2>2. Astray'
    BY <1>1, <1>5, <1>10, <1>11, <1>13
  <2>3. ServerTypeOK'
    BY <1>1, <1>2, <1>4, <1>6, <1>9, <2>1 DEF IInv, ServerTypeOK, FdTableInv
  <2>4. ScanInv'
    BY <1>1, <2>1, <2>2 DEF IInv, ScanInv, Scanning
  <2>5. StreamInv'
    BY <1>1, <1>7, <2>1, StreamKept DEF IInv, ScanInv, Held
  <2> QED
    BY <1>7, <1>8, <1>9, <2>3, <2>4, <2>5, ServerKeeps
<1>14. CASE ready # {}
  <2>1. spc' = "scan" /\ i' = Min(ready)
    BY <1>1, <1>14 DEF ComesTo
  <2>2. i' \in ready /\ i' \in Nat /\ \A y \in ready : i' <= y
    BY <1>6, <1>14, <2>1, MinProperties
  <2>3. i' \in 1 .. Len(fd_list) /\ Ready(fd_list[i'])
    BY <1>3, <1>4, <1>5, <2>2
  <2>4. Pollable(polled, i') = ready
    BY <1>4, <2>2 DEF Pollable
  <2>5. ServerTypeOK'
    BY <1>1, <1>4, <1>6, <1>9, <2>1, <2>2 DEF IInv, ServerTypeOK, FdTableInv
  <2>6. ScanInv'
    <3>1. \A f : Ready(f) => Ready(f)'
      BY <1>1, <1>7 DEF Ready
    <3>2. \A k, l \in 1 .. Len(fds') : fds'[k].fd = fds'[l].fd => k = l
      BY <1>1, <1>2, <1>4 DEF IInv, ListInv, IsInjective
    <3>3. \A f \in Pending(i + 1)' : Ready(f)'
      <4>1. \A k \in Pollable(polled, i' + 1) : k \in ready
        BY <1>4, <2>2 DEF Pollable
      <4>2. \A k \in ready : \A f : f = polled[k].fd => Ready(f)'
        BY <1>3, <1>4, <1>5, <3>1
      <4> HIDE DEF ready
      <4> QED
        BY <1>1, <4>1, <4>2 DEF Pending
    <3>4. Ready(myfd)'
      <4>1. myfd' = fd_list[i']
        BY <1>1, <1>4, <2>3 DEF myfd
      <4> QED
        BY <1>1, <1>7, <2>3, <4>1 DEF Ready
    <3> QED
      BY <1>1, <1>6, <1>12, <2>1, <2>2, <2>4, <3>2, <3>3, <3>4 DEF IInv, ScanInv, Scanning
  <2>7. StreamInv'
    BY <1>1, <1>7, <2>1, StreamKept DEF IInv, ScanInv, Held
  <2> QED
    BY <1>7, <1>8, <1>9, <2>5, <2>6, <2>7, ServerKeeps
<1> QED
  BY <1>13, <1>14

\* Past the array: the next turn, or one more entry, of an open descriptor.
LEMMA PastEndStep ==
  ASSUME IInv, PastEnd, UNCHANGED <<clientVars, variantVars>>, UNCHANGED nofile
  PROVE  IInv' /\ PhasesKept /\ UNCHANGED <<sent, got>>
<1>1. spc = "past" /\ UNCHANGED <<tcpVars, fdt, fd_list, line>>
  BY DEF PastEnd
<1>2. UNCHANGED <<csk, ssk, up, down, sent, got, backlog, listening>>
  BY <1>1 DEF tcpVars
<1>3. TcpInv' /\ PhasesKept /\ EndsKept /\ StillOpen
  BY <1>2 DEF IInv, TcpInv, TcpTypeOK, EndsAgree, PhasesKept, EndsKept, StillOpen
<1>4. FdTableInv' /\ ListInv' /\ OpenFds' = OpenFds
  BY <1>1, <1>2, <1>3, TableKept, ListKept DEF IInv
<1>5. line' = <<>> /\ Astray'
  BY <1>1, <1>2, AstrayStays DEF IInv, ScanInv, variantVars
<1>6. CASE NextTurn
  <2>1. ServerTypeOK' /\ ScanInv'
    BY <1>1, <1>4, <1>5, <1>6, EmptySeq
    DEF IInv, ServerTypeOK, FdTableInv, ScanInv, Scanning, NextTurn
  <2>2. StreamInv'
    BY <1>1, <1>2, <1>6, StreamKept DEF IInv, Held, NextTurn
  <2> QED
    BY <1>2, <1>3, <1>4, <2>1, <2>2, ServerKeeps
<1>7. ASSUME NEW f \in OpenFds,
             fds' = <<[fd |-> f, revents |-> "stale"]>>,
             spc' = "scan" /\ n' = 1 /\ i' = 1
      PROVE  IInv' /\ PhasesKept /\ UNCHANGED <<sent, got>>
  <2> DEFINE entry == [fd |-> f, revents |-> "stale"]
  <2>1. f \in Fd
    BY FdRange DEF OpenFds, ConnFds, Fd, ListenFd
  <2>2. entry \in Entry /\ entry.fd = f /\ entry.revents = "stale"
    BY <2>1 DEF Entry
  <2> HIDE DEF entry
  <2>3. fds' = <<entry>> /\ fds' \in Seq(Entry) /\ Len(fds') = 1 /\ fds'[1] = entry
    BY <1>7, <2>2 DEF entry
  <2>4. ServerTypeOK'
    BY <1>1, <1>4, <1>7, <2>3 DEF IInv, ServerTypeOK, FdTableInv
  <2>5. /\ Pollable(fds', 1) = {1} /\ Errs(fds') = {}
        /\ Pollable(fds', 1 + 1) = {}
    BY <2>2, <2>3 DEF Pollable, Errs
  <2>6. 1 = Cardinality(Pollable(fds', 1)) + Cardinality(Errs(fds'))
    BY <2>5, FS_Singleton, FS_EmptySet
  <2>7. \A g \in Pending(i + 1)' : Ready(g)'
    BY <1>7, <2>5 DEF Pending
  <2>8. /\ 1 \in Pollable(fds', 1)
        /\ \A k, l \in 1 .. Len(fds') : fds'[k].fd = fds'[l].fd => k = l
        /\ fds'[1].revents = "stale" /\ fds'[1].fd \in OpenFds'
    BY <1>4, <2>2, <2>3, <2>5
  <2>9. ScanInv'
    BY <1>5, <1>7, <2>6, <2>7, <2>8 DEF ScanInv, Scanning, myfd
  <2>10. StreamInv'
    BY <1>1, <1>2, <1>7, StreamKept DEF IInv, Held
  <2> QED
    BY <1>2, <1>3, <1>4, <2>4, <2>9, <2>10, ServerKeeps
<1> QED
  BY <1>6, <1>7 DEF PastEnd

LEMMA AcceptStep ==
  ASSUME IInv, Accept, UNCHANGED <<clientVars, variantVars>>, UNCHANGED nofile
  PROVE  IInv' /\ PhasesKept /\ UNCHANGED <<sent, got>>
<1> DEFINE c == Head(backlog)
           g == Min(FreeFds)
<1>1. /\ spc = "scan" /\ myfd = ListenFd /\ FreeFds # {}
      /\ ServerAccepts(c)
      /\ fdt' = [fdt EXCEPT ![g] = c]
      /\ fd_list' = Append(fd_list, g)
      /\ NextEntry(n - 1)
      /\ UNCHANGED line
  BY DEF Accept
<1>2. g \in FreeFds
  <2>1. FreeFds \in SUBSET Nat
    BY FdAssumption DEF FreeFds, ConnFds, ListenFd
  <2> QED
    BY <1>1, <2>1, MinProperties
<1>3. g \in ConnFds /\ g \notin OpenFds /\ g \in Fd /\ g # ListenFd
  BY <1>2, FdRange DEF FreeFds, Fd, ConnFds, ListenFd
<1>4. TcpInv' /\ c \in Clients
  BY <1>1, ServerAcceptsInv DEF IInv
<1>5. /\ FdTableInv' /\ OpenFds' = OpenFds \cup {g}
      /\ \A f \in OpenFds : f # g /\ fdt'[f] = fdt[f]
  BY <1>1, <1>2, TableAccepts DEF IInv
<1> HIDE DEF c, g
<1>6. UNCHANGED <<csk, ssk, up, down, sent, got>>
  BY <1>1 DEF ServerAccepts
<1>7. PhasesKept
  BY <1>6 DEF PhasesKept
<1>8. ListInv' /\ fd_list' \in Seq(Fd)
  <2>1. /\ fd_list \in Seq(Fd) /\ IsInjective(fd_list)
        /\ Range(fd_list) = {ListenFd} \cup OpenFds
    BY <1>1 DEF IInv, ServerTypeOK, ListInv
  <2>2. Range(fd_list') = Range(fd_list) \cup {g} /\ IsInjective(fd_list')
    BY <1>1, <1>3, <2>1, AppendRange
  <2> QED
    BY <1>1, <1>3, <1>5, <2>1, <2>2 DEF ListInv
<1>9. Scanning
  BY <1>1 DEF Scanning
<1>10. /\ spc' \in {"scan", "past", "poll"}
       /\ fds' \in Seq(Entry) /\ n' \in Nat /\ i' \in Nat
  BY <1>1, <1>9, NextEntryStep DEF IInv
<1>11. ServerTypeOK'
  BY <1>1, <1>5, <1>8, <1>10 DEF IInv, ServerTypeOK, FdTableInv, Entry
<1>12. ScanInv'
  <2>1. ASSUME NEW f \in Pending(i + 1) PROVE Ready(f)'
    <3>1. f # ListenFd /\ f \in OpenFds /\ Ready(f)
      BY <1>1, <1>9, PendingOpen DEF IInv
    <3> QED
      BY <1>5, <1>6, <3>1 DEF Ready
  <2>2. line' = <<>>
    BY <1>1 DEF IInv, ScanInv
  <2>3. Astray => Astray'
    BY <1>5, <1>6, AstrayKept DEF variantVars, OpenFds
  <2> QED
    BY <1>1, <1>9, <2>1, <2>2, <2>3, ScanGoesOn DEF IInv
<1>13. StreamInv'
  BY <1>1, <1>6, <1>10, StreamKept DEF IInv, Held
<1> QED
  BY <1>4, <1>5, <1>6, <1>7, <1>8, <1>11, <1>12, <1>13, ServerKeeps

LEMMA ExitStep ==
  ASSUME IInv, ServerExits, UNCHANGED <<clientVars, variantVars>>, UNCHANGED nofile
  PROVE  IInv' /\ PhasesKept /\ UNCHANGED <<sent, got>>
<1> DEFINE S == {fdt[f] : f \in OpenFds} \cup Range(backlog)
<1>1. /\ ServerCloses(S) /\ backlog' = <<>> /\ listening' = FALSE
      /\ fdt' = [f \in ConnFds |-> NoConn]
      /\ spc' = "dead" /\ fd_list' = <<>> /\ fds' = <<>> /\ n' = 0 /\ i' = 0
      /\ line' = <<>>
  BY DEF ServerExits, ProcessGone
<1>2. FdTableInv'
  BY TableGone DEF IInv, ServerExits
<1> HIDE DEF S
<1>3. TcpInv'
  BY <1>1, ExitsInv DEF IInv
<1>4. FlowStep /\ PhasesKept /\ UNCHANGED <<sent, got>>
  BY <1>1, ServerClosesFlow DEF IInv, ServerCloses
<1>5. ServerTypeOK'
  <2>1. /\ <<>> \in Seq(Fd) /\ <<>> \in Seq(Entry)
        /\ <<>> \in Seq(Byte)
    BY EmptySeq
  <2> QED
    BY <1>1, <1>2, <2>1 DEF IInv, ServerTypeOK, FdTableInv
<1>6. ListInv' /\ ScanInv'
  BY <1>1 DEF ListInv, ScanInv, Scanning
<1>7. \A c \in Clients : Held(c)' = Held(c) \/ ssk'[c] # "est"
  <2> SUFFICES ASSUME NEW c \in Clients, Held(c)' # Held(c)
               PROVE  ssk'[c] # "est"
    OBVIOUS
  <2>1. spc \in {"write", "raise"} /\ fdt[myfd] = c
    BY <1>1 DEF Held
  <2>2. myfd \in OpenFds
    BY <2>1 DEF IInv, ScanInv
  <2>3. c \in S
    BY <2>1, <2>2 DEF S
  <2> QED
    BY <1>1, <2>3 DEF ServerCloses
<1>8. StreamInv'
  BY <1>4, <1>7, StreamEnds
<1> QED
  BY <1>2, <1>3, <1>4, <1>5, <1>6, <1>8, ServerKeeps

LEMMA ReadStep ==
  ASSUME IInv, Read, UNCHANGED <<clientVars, variantVars>>, UNCHANGED nofile
  PROVE  IInv' /\ PhasesKept /\ UNCHANGED <<sent, got>>
<1> DEFINE c == fdt[myfd]
<1>1. /\ spc = "scan" /\ myfd # ListenFd /\ spc' \in {"write", "raise"}
      /\ UNCHANGED <<fdt, fd_list, fds, n, i>>
  BY DEF Read, AfterRead
<1>2. Scanning /\ myfd \in OpenFds /\ c \in Clients
  BY <1>1, AtConnection DEF IInv, Scanning
<1>3. PICK k \in ReadSizes(up[c]) : ServerReads(c, k) /\ line' = Taken(up[c], k)
  BY ChunksAreSizes DEF Read
<1>4. up' = [up EXCEPT ![c] = Left(up[c], k)]
      /\ UNCHANGED <<csk, ssk, down, sent, got, backlog>>
  BY <1>3 DEF ServerReads
<1>5. \A f \in Pending(i + 1) : Ready(f)'
  <2>1. \A d \in Clients \ {c} : ssk'[d] = ssk[d] /\ up'[d] = up[d]
    BY <1>4 DEF IInv, TcpInv, TcpTypeOK
  <2> QED
    BY <1>1, <1>2, <1>4, <2>1, OthersReady DEF IInv
<1>6. myfd' = myfd
  BY <1>1 DEF myfd
<1> HIDE DEF c
<1>7. TcpInv' /\ PhasesKept /\ EndsKept /\ StillOpen
  BY <1>2, <1>3, <1>4, ServerReadsInv DEF IInv, PhasesKept, EndsKept, StillOpen
<1>8. /\ sent[c] \in Seq(Byte) /\ got[c] \in Seq(Byte) /\ down[c] \in Seq(Byte)
      /\ up[c] \in Seq(Byte) /\ k \in 0 .. Len(up[c])
  BY <1>2 DEF IInv, TcpInv, TcpTypeOK, ReadSizes
<1>9. line' \in Seq(Byte)
  BY <1>3, <1>8, TakenLeft
<1>10. FdTableInv' /\ ListInv' /\ OpenFds' = OpenFds
  BY <1>1, <1>4, <1>7, TableKept, ListKept DEF IInv
<1>11. ServerTypeOK'
  BY <1>1, <1>9, <1>10 DEF IInv, ServerTypeOK, FdTableInv
<1>12. ScanInv'
  <2>1. \A f \in Pending(i + 1)' : Ready(f)'
    BY <1>1, <1>5 DEF Pending
  <2>2. Astray => Astray'
    <3>1. up[c] # <<>>
      BY <1>3, <1>8, EmptySeq DEF ReadSizes
    <3>2. \A f \in OpenFds : fdt[f] \in Clients /\ f \in ConnFds /\ fdt[f] # NoConn
      BY DEF IInv, FdTableInv, FdTypeOK, OpenFds
    <3>3. \A d \in Clients : d = c \/ up'[d] = up[d]
      BY <1>4 DEF IInv, TcpInv, TcpTypeOK
    <3> QED
      BY <1>1, <1>4, <3>1, <3>2, <3>3, AstrayKept DEF variantVars, Aborted, HasData
  <2>3. Scanning => \A j \in 1 .. Len(fds) : fds[j].revents \in {"err", "stale"} => Astray'
    BY <2>2 DEF IInv, ScanInv
  <2> QED
    BY <1>1, <1>2, <1>6, <1>10, <2>1, <2>3 DEF IInv, ScanInv, Scanning
<1>13. StreamInv'
  <2> SUFFICES ASSUME NEW d \in Clients
               PROVE  Flow(ssk'[d], sent'[d], got'[d], down'[d], Held(d)', up'[d])
    BY DEF StreamInv
  <2>1. Held(d) = <<>> /\ Flow(ssk[d], sent[d], got[d], down[d], Held(d), up[d])
    BY <1>1 DEF IInv, StreamInv, Held
  <2>2. CASE d = c
    <3>1. Held(d)' = Taken(up[c], k) /\ up'[d] = Left(up[c], k)
      BY <1>1, <1>2, <1>3, <1>4, <1>6, <2>2 DEF Held, c, IInv, TcpInv, TcpTypeOK
    <3>2. Flow(ssk[c], sent[c], got[c], down[c], Taken(up[c], k), Left(up[c], k))
      BY <1>8, <2>1, <2>2, FlowServerReads
    <3> QED
      BY <1>4, <2>2, <3>1, <3>2
  <2>3. CASE d # c
    <3>1. Held(d)' = <<>> /\ up'[d] = up[d]
      BY <1>1, <1>2, <1>4, <1>6, <2>3 DEF Held, c, IInv, TcpInv, TcpTypeOK
    <3> QED
      BY <1>4, <2>1, <3>1
  <2> QED
    BY <2>2, <2>3
<1> QED
  BY <1>4, <1>7, <1>10, <1>11, <1>12, <1>13, ServerKeeps

\* An element that is erased from a list without repetitions.
LEMMA RemoveAtRange ==
  ASSUME NEW X, NEW q \in Seq(X), NEW k \in 1 .. Len(q), IsInjective(q)
  PROVE  /\ RemoveAt(q, k) \in Seq(X)
         /\ IsInjective(RemoveAt(q, k))
         /\ Range(RemoveAt(q, k)) = Range(q) \ {q[k]}
<1> DEFINE r == RemoveAt(q, k)
           a == SubSeq(q, 1, k - 1)
           b == SubSeq(q, k + 1, Len(q))
<1>1. Len(q) \in Nat /\ DOMAIN q = 1 .. Len(q) /\ k \in 1 .. Len(q)
  OBVIOUS
<1>2. /\ a \in Seq(X) /\ Len(a) = k - 1
      /\ \A j \in 1 .. k - 1 : a[j] = q[j]
  BY <1>1
<1>3. /\ b \in Seq(X) /\ Len(b) = Len(q) - k
      /\ \A j \in 1 .. Len(q) - k : b[j] = q[k + j]
  <2>1. /\ k + 1 \in Int /\ Len(q) \in Int
        /\ \A j \in (k + 1) .. Len(q) : q[j] \in X
    BY <1>1
  <2>2. /\ b \in Seq(X)
        /\ Len(b) = IF k + 1 <= Len(q) THEN Len(q) - (k + 1) + 1 ELSE 0
        /\ \A j \in 1 .. Len(q) - (k + 1) + 1 : b[j] = q[(k + 1) + j - 1]
    BY <2>1, SubSeqProperties
  <2> HIDE DEF b
  <2>3. /\ Len(q) - (k + 1) + 1 = Len(q) - k
        /\ \A j \in 1 .. Len(q) - k : (k + 1) + j - 1 = k + j
    BY <1>1
  <2>4. Len(b) = Len(q) - k
    <3> DEFINE l == Len(q)
    <3>1. l \in Nat /\ k \in 1 .. l
      BY <1>1
    <3>2. Len(b) = IF k + 1 <= l THEN l - (k + 1) + 1 ELSE 0
      BY <2>2
    <3> HIDE DEF l
    <3>3. (IF k + 1 <= l THEN l - (k + 1) + 1 ELSE 0) = l - k
      BY <3>1
    <3>4. Len(b) = l - k
      BY <3>2, <3>3
    <3> QED
      BY <3>4 DEF l
  <2>5. ASSUME NEW j \in 1 .. Len(q) - k
        PROVE  b[j] = q[k + j]
    BY <2>2, <2>3
  <2> QED
    BY <2>2, <2>4, <2>5
<1> HIDE DEF a, b
<1>4. /\ r = a \o b /\ r \in Seq(X) /\ Len(r) = Len(q) - 1
      /\ \A j \in 1 .. Len(q) - 1 : r[j] = IF j < k THEN q[j] ELSE q[j + 1]
  <2>1. r = a \o b
    BY DEF RemoveAt, a, b
  <2>2. a \o b \in Seq(X) /\ Len(a \o b) = Len(q) - 1
    <3>1. a \o b \in Seq(X) /\ Len(a \o b) = Len(a) + Len(b)
      BY <1>2, <1>3, ConcatProperties
    <3>2. (k - 1) + (Len(q) - k) = Len(q) - 1
      BY <1>1
    <3> QED
      BY <1>2, <1>3, <3>1, <3>2
  <2>3. \A j \in 1 .. Len(q) - 1 : (a \o b)[j] = IF j < k THEN q[j] ELSE q[j + 1]
    <3> SUFFICES ASSUME NEW j \in 1 .. Len(q) - 1
                 PROVE  (a \o b)[j] = IF j < k THEN q[j] ELSE q[j + 1]
      OBVIOUS
    <3>1. CASE j < k
      BY <1>1, <1>2, <1>3, <3>1
    <3>2. CASE ~ (j < k)
      <4>1. (a \o b)[j] = b[j - (k - 1)]
        BY <1>1, <1>2, <1>3, <3>2
      <4>2. j - (k - 1) \in 1 .. Len(q) - k /\ k + (j - (k - 1)) = j + 1
        BY <1>1, <3>2
      <4>3. b[j - (k - 1)] = q[k + (j - (k - 1))]
        BY <1>3, <4>2
      <4> QED
        BY <3>2, <4>1, <4>2, <4>3
    <3> QED
      BY <3>1, <3>2
  <2> QED
    BY <2>1, <2>2, <2>3
<1> HIDE DEF r
<1>5. DOMAIN r = 1 .. Len(q) - 1
  BY <1>4, LenProperties
<1> DEFINE at(j) == IF j < k THEN j ELSE j + 1
<1>6. \A j \in 1 .. Len(q) - 1 :
        at(j) \in 1 .. Len(q) /\ at(j) # k /\ r[j] = q[at(j)]
  BY <1>1, <1>4
<1>7. \A j, l \in 1 .. Len(q) - 1 : at(j) = at(l) => j = l
  BY <1>1
<1>8. \A m \in 1 .. Len(q) : m # k =>
        \E j \in 1 .. Len(q) - 1 : at(j) = m
  <2> SUFFICES ASSUME NEW m \in 1 .. Len(q), m # k
               PROVE  \E j \in 1 .. Len(q) - 1 : at(j) = m
    OBVIOUS
  <2>1. CASE m < k
    <3>1. m \in 1 .. Len(q) - 1 /\ at(m) = m
      BY <1>1, <2>1
    <3> QED
      BY <3>1
  <2>2. CASE m > k
    <3>1. m - 1 \in 1 .. Len(q) - 1 /\ at(m - 1) = m
      BY <1>1, <2>2
    <3> QED
      BY <3>1
  <2> QED
    BY <1>1, <2>1, <2>2
<1> HIDE DEF at
<1>9. IsInjective(r)
  BY <1>1, <1>5, <1>6, <1>7 DEF IsInjective
<1>10. Range(r) \subseteq Range(q) \ {q[k]}
  BY <1>1, <1>5, <1>6 DEF Range, IsInjective
<1>11. Range(q) \ {q[k]} \subseteq Range(r)
  <2> SUFFICES ASSUME NEW m \in 1 .. Len(q), q[m] # q[k]
               PROVE  q[m] \in Range(r)
    BY <1>1 DEF Range
  <2>1. PICK j \in 1 .. Len(q) - 1 : at(j) = m
    BY <1>8
  <2>2. q[m] = r[j] /\ j \in DOMAIN r
    BY <1>5, <1>6, <2>1
  <2> QED
    BY <2>2 DEF Range
<1> QED
  BY <1>4, <1>9, <1>10, <1>11 DEF r

\* The first occurrence of an open descriptor is erased: it was the only one.
LEMMA ErasesEntry ==
  ASSUME ServerTypeOK, ListInv, spc # "dead", NEW g \in OpenFds, g # ListenFd,
         OpenFds' = OpenFds \ {g},
         fd_list' = LET x == {k \in 1 .. Len(fd_list) : fd_list[k] = g} IN
                    IF x = {} THEN fd_list ELSE RemoveAt(fd_list, Min(x))
  PROVE  ListInv' /\ fd_list' \in Seq(Fd)
<1> DEFINE x == {k \in 1 .. Len(fd_list) : fd_list[k] = g}
<1>1. /\ fd_list \in Seq(Fd) /\ IsInjective(fd_list)
      /\ Range(fd_list) = {ListenFd} \cup OpenFds
      /\ DOMAIN fd_list = 1 .. Len(fd_list)
  BY DEF ServerTypeOK, ListInv
<1>2. x # {} /\ x \in SUBSET Nat
  <2>1. g \in Range(fd_list)
    BY <1>1
  <2> QED
    BY <1>1, <2>1 DEF Range
<1>3. Min(x) \in x
  BY <1>2, MinProperties
<1>4. fd_list' = RemoveAt(fd_list, Min(x)) /\ Min(x) \in 1 .. Len(fd_list)
      /\ fd_list[Min(x)] = g
  BY <1>2, <1>3
<1> HIDE DEF x
<1> DEFINE m == Min(x)
<1>5. m \in 1 .. Len(fd_list) /\ fd_list' = RemoveAt(fd_list, m) /\ fd_list[m] = g
  BY <1>4
<1> HIDE DEF m
<1>6. /\ RemoveAt(fd_list, m) \in Seq(Fd) /\ IsInjective(RemoveAt(fd_list, m))
      /\ Range(RemoveAt(fd_list, m)) = Range(fd_list) \ {fd_list[m]}
  BY <1>1, <1>5, RemoveAtRange
<1>7. /\ fd_list' \in Seq(Fd) /\ IsInjective(fd_list')
      /\ Range(fd_list') = Range(fd_list) \ {g}
  BY <1>5, <1>6
<1> QED
  BY <1>1, <1>7 DEF ListInv

LEMMA ReadEndStep ==
  ASSUME IInv, ReadEnd, UNCHANGED <<clientVars, variantVars>>, UNCHANGED nofile
  PROVE  IInv' /\ PhasesKept /\ UNCHANGED <<sent, got>>
<1>1. /\ spc = "scan" /\ myfd # ListenFd /\ FdCloses(myfd)
      /\ ServerCloses({fdt[myfd]})
      /\ fdt' = [fdt EXCEPT ![myfd] = NoConn]
      /\ UNCHANGED <<backlog, listening, line>>
      /\ NextTurn \/ (family = "Python" /\ NextEntry(n - 1))
  BY DEF ReadEnd, FdCloses, GoOn
<1>2. Scanning /\ myfd \in OpenFds /\ fdt[myfd] \in Clients
  BY <1>1, AtConnection DEF IInv, Scanning
<1>3. TcpInv'
  BY <1>1, ClosesInv DEF IInv
<1>4. FlowStep /\ PhasesKept /\ StillOpen /\ UNCHANGED <<sent, got>>
  BY <1>1, ServerClosesFlow DEF IInv, ServerCloses, StillOpen, PhasesKept
<1>5. FdTableInv' /\ OpenFds' = OpenFds \ {myfd}
  BY <1>1, <1>2, <1>4, TableCloses DEF IInv
<1>6. ListInv' /\ fd_list' \in Seq(Fd)
  BY <1>1, <1>2, <1>5, ErasesEntry DEF IInv, ReadEnd
<1>7. /\ spc' \in {"scan", "past", "poll"}
      /\ fds' \in Seq(Entry) /\ n' \in Nat /\ i' \in Nat
  <2>1. CASE NextTurn
    BY <2>1, EmptySeq DEF NextTurn
  <2>2. CASE NextEntry(n - 1)
    BY <1>2, <2>2, NextEntryStep DEF IInv
  <2> QED
    BY <1>1, <2>1, <2>2
<1>8. ServerTypeOK'
  BY <1>1, <1>5, <1>6, <1>7 DEF IInv, ServerTypeOK, FdTableInv, Entry
<1>9. ScanInv'
  <2>1. line' = <<>>
    BY <1>1 DEF IInv, ScanInv
  <2>2. CASE NextTurn
    BY <2>1, <2>2 DEF NextTurn, ScanInv, Scanning
  <2>3. CASE family = "Python" /\ NextEntry(n - 1)
    <3>1. \A d \in Clients \ {fdt[myfd]} : ssk'[d] = ssk[d] /\ up'[d] = up[d]
      BY <1>1 DEF ServerCloses
    <3>2. \A g \in OpenFds \ {myfd} : fdt'[g] = fdt[g]
      BY <1>1, <1>2 DEF IInv, FdTableInv, FdTypeOK, OpenFds
    <3>3. \A f \in Pending(i + 1) : Ready(f)'
      BY <1>1, <1>2, <3>1, <3>2, OthersReady DEF IInv
    <3>4. ~Astray
      BY <2>3 DEF Astray, Aborted
    <3> QED
      BY <1>2, <2>1, <2>3, <3>3, <3>4, ScanGoesOn DEF IInv
  <2> QED
    BY <1>1, <2>2, <2>3
<1>10. StreamInv'
  <2>1. \A c \in Clients : Held(c)' = Held(c)
    BY <1>1, <1>7 DEF Held
  <2> QED
    BY <1>4, <2>1, StreamEnds
<1> QED
  BY <1>3, <1>4, <1>5, <1>6, <1>8, <1>9, <1>10, ServerKeeps

LEMMA ReadRaisesStep ==
  ASSUME IInv, ReadRaises, UNCHANGED <<clientVars, variantVars>>, UNCHANGED nofile
  PROVE  IInv' /\ PhasesKept /\ UNCHANGED <<sent, got>>
<1>1. /\ spc = "scan" /\ myfd # ListenFd /\ spc' = "raise"
      /\ UNCHANGED <<tcpVars, fdt, fd_list, fds, n, i, line>>
  BY DEF ReadRaises
<1>2. UNCHANGED <<csk, ssk, up, down, sent, got, backlog, listening>>
  BY <1>1 DEF tcpVars
<1>3. myfd \in OpenFds
  BY <1>1, AtConnection DEF IInv, Scanning
<1>4. TcpInv' /\ PhasesKept /\ EndsKept /\ StillOpen
  BY <1>2 DEF IInv, TcpInv, TcpTypeOK, EndsAgree, PhasesKept, EndsKept, StillOpen
<1>5. FdTableInv' /\ ListInv' /\ OpenFds' = OpenFds
  BY <1>1, <1>2, <1>4, TableKept, ListKept DEF IInv
<1>6. ServerTypeOK'
  BY <1>1, <1>5 DEF IInv, ServerTypeOK, FdTableInv
<1>7. ScanInv'
  <2>1. \A f : Ready(f) => Ready(f)'
    BY <1>1, <1>2 DEF Ready
  <2>2. \A f \in Pending(i + 1)' : Ready(f)'
    BY <1>1, <2>1 DEF IInv, ScanInv, Scanning, Pending
  <2>3. myfd' = myfd
    BY <1>1 DEF myfd
  <2>4. Astray => Astray'
    BY <1>1, <1>2, AstrayStays DEF variantVars
  <2> QED
    BY <1>1, <1>3, <1>5, <2>2, <2>3, <2>4 DEF IInv, ScanInv, Scanning
<1>8. StreamInv'
  BY <1>1, <1>2, StreamKept DEF IInv, ScanInv, Held
<1> QED
  BY <1>2, <1>4, <1>5, <1>6, <1>7, <1>8, ServerKeeps

LEMMA WriteStep ==
  ASSUME IInv, Write, UNCHANGED <<clientVars, variantVars>>, UNCHANGED nofile
  PROVE  IInv' /\ PhasesKept /\ UNCHANGED <<sent, got>>
<1> DEFINE c == fdt[myfd]
<1>1. /\ spc = "write" /\ ServerWrites(c, line) /\ line' = <<>>
      /\ NextEntry(n - 1) /\ UNCHANGED <<fdt, fd_list>>
  BY DEF Write, SendsBack
<1>2. Scanning /\ myfd \in OpenFds /\ c \in Clients /\ line \in Seq(Byte)
  BY <1>1, AtConnection DEF IInv, Scanning, ServerTypeOK
<1> HIDE DEF c
<1>3. TcpInv'
  BY <1>1, <1>2, ServerWritesInv DEF IInv
<1>4. /\ ssk' = [ssk EXCEPT ![c] = AfterWrite(ssk[c])]
      /\ down' = [down EXCEPT ![c] = Delivered(ssk[c], down[c], line)]
      /\ UNCHANGED <<csk, up, sent, got, backlog, listening>>
  BY <1>1 DEF ServerWrites
<1>5. EndsKept /\ ReadableKept /\ StillOpen /\ PhasesKept
  BY <1>1, <1>2, <1>4, ServerWritesKeeps DEF IInv, StillOpen, PhasesKept
<1>6. FdTableInv' /\ ListInv' /\ OpenFds' = OpenFds
  BY <1>1, <1>4, <1>5, TableKept, ListKept DEF IInv
<1>7. /\ spc' \in {"scan", "past", "poll"}
      /\ fds' \in Seq(Entry) /\ n' \in Nat /\ i' \in Nat
  BY <1>1, <1>2, NextEntryStep DEF IInv
<1>8. ServerTypeOK'
  BY <1>1, <1>6, <1>7, EmptySeq DEF IInv, ServerTypeOK, FdTableInv, Entry
<1>9. ScanInv'
  <2>1. ASSUME NEW f \in Pending(i + 1) PROVE Ready(f)'
    <3>1. f \in OpenFds \cup {ListenFd} /\ Ready(f)
      BY <1>2, PendingOpen DEF IInv
    <3>2. f # ListenFd => fdt[f] \in Clients
      BY <3>1 DEF IInv, FdTableInv, FdTypeOK, OpenFds
    <3> QED
      BY <1>1, <1>4, <1>5, <3>1, <3>2 DEF Ready, ReadableKept
  <2>2. Astray => Astray'
    <3> SUFFICES ASSUME Astray PROVE Astray'
      OBVIOUS
    <3>1. family = "SCTP"
      BY DEF Astray, Aborted
    <3>2. ssk[c] = "est"
      BY <1>1, <3>1 DEF Write, SendsBack, c
    <3>3. ssk' = ssk
      BY <1>4, <3>2 DEF AfterWrite, IInv, TcpInv, TcpTypeOK
    <3> QED
      BY <1>1, <1>4, <3>3, AstrayStays DEF variantVars
  <2> QED
    BY <1>1, <1>2, <2>1, <2>2, ScanGoesOn DEF IInv
<1>10. StreamInv'
  <2> SUFFICES ASSUME NEW d \in Clients
               PROVE  Flow(ssk'[d], sent'[d], got'[d], down'[d], Held(d)', up'[d])
    BY DEF StreamInv
  <2>1. Held(d)' = <<>> /\ Flow(ssk[d], sent[d], got[d], down[d], Held(d), up[d])
    BY <1>7 DEF IInv, StreamInv, Held
  <2>2. /\ sent[d] \in Seq(Byte) /\ got[d] \in Seq(Byte) /\ down[d] \in Seq(Byte)
        /\ up[d] \in Seq(Byte)
    BY DEF IInv, TcpInv, TcpTypeOK
  <2>3. CASE d = c
    <3>1. Held(d) = line
      BY <1>1, <2>3 DEF Held, c
    <3>2. ssk'[d] = AfterWrite(ssk[d]) /\ down'[d] = Delivered(ssk[d], down[d], line)
      BY <1>4, <2>3 DEF IInv, TcpInv, TcpTypeOK
    <3>3. Flow(ssk[d], sent[d], got[d], down[d], line, up[d])
      BY <2>1, <3>1
    <3>4. Flow(AfterWrite(ssk[d]), sent[d], got[d], Delivered(ssk[d], down[d], line), <<>>, up[d])
      BY <1>2, <2>2, <3>3, FlowServerWrites
    <3> QED
      BY <1>4, <2>1, <3>2, <3>4
  <2>4. CASE d # c
    <3>1. Held(d) = <<>> /\ ssk'[d] = ssk[d] /\ down'[d] = down[d]
      BY <1>4, <2>4 DEF Held, c, IInv, ScanInv, TcpInv, TcpTypeOK
    <3> QED
      BY <1>4, <2>1, <3>1
  <2> QED
    BY <2>3, <2>4
<1> QED
  BY <1>3, <1>4, <1>5, <1>6, <1>8, <1>9, <1>10, ServerKeeps

\* A write that fails: the C servers poll() again, the Python one ends.
LEMMA WriteFailsStep ==
  ASSUME IInv, WriteFails \/ WriteRaises,
         UNCHANGED <<clientVars, variantVars>>, UNCHANGED nofile
  PROVE  IInv' /\ PhasesKept /\ UNCHANGED <<sent, got>>
<1> DEFINE c == fdt[myfd]
<1>1. /\ spc = "write" /\ SendBackFails(c) /\ UNCHANGED <<fdt, fd_list>>
      /\ \/ NextTurn /\ line' = <<>>
         \/ family = "Python" /\ spc' = "raise" /\ UNCHANGED <<fds, n, i, line>>
  BY DEF WriteFails, WriteRaises
<1>2. Scanning /\ myfd \in OpenFds /\ c \in Clients
  BY <1>1, AtConnection DEF IInv, Scanning
<1>3. /\ TcpInv' /\ FlowStep /\ ssk'[c] # "est"
      /\ UNCHANGED <<csk, down, sent, got, backlog>>
  BY <1>1, <1>2, SendBackFailsStep DEF IInv
<1>4. EndsKept /\ StillOpen /\ PhasesKept
  BY <1>1, <1>2, <1>3, SendBackFailsKeeps DEF IInv, StillOpen, PhasesKept
<1>5. FdTableInv' /\ ListInv' /\ OpenFds' = OpenFds
  BY <1>1, <1>3, <1>4, TableKept, ListKept DEF IInv
<1>6. CASE NextTurn /\ line' = <<>>
  <2>1. ServerTypeOK' /\ ScanInv'
    BY <1>1, <1>5, <1>6, EmptySeq
    DEF IInv, ServerTypeOK, FdTableInv, ScanInv, Scanning, NextTurn
  <2>2. \A d \in Clients : Held(d)' = Held(d) \/ ssk'[d] # "est"
    BY <1>1, <1>3, <1>6 DEF Held, NextTurn
  <2>3. StreamInv'
    BY <1>3, <2>2, StreamEnds
  <2> QED
    BY <1>3, <1>4, <1>5, <2>1, <2>3, ServerKeeps
<1>7. CASE family = "Python" /\ spc' = "raise" /\ UNCHANGED <<fds, n, i, line>>
  <2>1. \A f \in Pending(i + 1) : Ready(f)'
    <3>1. \A d \in Clients \ {c} : ssk'[d] = ssk[d] /\ up'[d] = up[d]
      BY <1>1 DEF SendBackFails, ServerWriteFails, tcpVars, IInv, TcpInv, TcpTypeOK
    <3> QED
      BY <1>1, <1>2, <1>3, <3>1, OthersReady DEF IInv
  <2>2. ServerTypeOK'
    BY <1>1, <1>5, <1>7 DEF IInv, ServerTypeOK, FdTableInv
  <2>3. myfd' = myfd
    BY <1>7 DEF myfd
  <2>4. ScanInv'
    <3>1. \A f \in Pending(i + 1)' : Ready(f)'
      BY <1>7, <2>1 DEF Pending
    <3>2. ~Astray
      BY <1>7 DEF Astray, Aborted
    <3> QED
      BY <1>2, <1>5, <1>7, <2>3, <3>1, <3>2 DEF IInv, ScanInv, Scanning
  <2>5. StreamInv'
    <3>1. \A d \in Clients : Held(d)' = Held(d)
      BY <1>1, <1>7, <2>3 DEF Held
    <3> QED
      BY <1>3, <3>1, StreamEnds
  <2> QED
    BY <1>3, <1>4, <1>5, <2>2, <2>4, <2>5, ServerKeeps
<1> QED
  BY <1>1, <1>6, <1>7

\* Every step of the server.
LEMMA ServerStep ==
  ASSUME IInv, ServerNext, UNCHANGED <<clientVars, variantVars>>
  PROVE  IInv' /\ PhasesKept /\ UNCHANGED <<sent, got>>
<1>0. UNCHANGED nofile
  BY DEF ServerNext
<1>1. CASE Poll
  BY <1>0, <1>1, PollStep
<1>2. CASE Accept
  BY <1>0, <1>2, AcceptStep
<1>3. CASE AcceptFails \/ Dies
  BY <1>0, <1>3, ExitStep DEF AcceptFails, Dies
<1>4. CASE Read
  BY <1>0, <1>4, ReadStep
<1>5. CASE ReadEnd
  BY <1>0, <1>5, ReadEndStep
<1>6. CASE ReadRaises
  BY <1>0, <1>6, ReadRaisesStep
<1>7. CASE Write
  BY <1>0, <1>7, WriteStep
<1>8. CASE WriteFails \/ WriteRaises
  BY <1>0, <1>8, WriteFailsStep
<1>9. CASE PastEnd
  BY <1>0, <1>9, PastEndStep
<1> QED
  BY <1>1, <1>2, <1>3, <1>4, <1>5, <1>6, <1>7, <1>8, <1>9 DEF ServerNext

-----------------------------------------------------------------------------
(* All the steps.                                                          *)

\* A step of a client or of the network takes nothing from the server.
LEMMA OthersKeep ==
  ASSUME IInv, UNCHANGED serverVars, TcpInv', ClientInv', VariantTypeOK',
         FlowStep, FdTableInv', ReadyKept, OpenFds' = OpenFds, Astray => Astray'
  PROVE  IInv'
<1>1. UNCHANGED <<spc, fdt, nofile, fd_list, fds, n, i, line>>
  BY DEF serverVars
<1>2. myfd' = myfd
  BY <1>1 DEF myfd
<1>3. ServerTypeOK' /\ ListInv'
  BY <1>1 DEF IInv, ServerTypeOK, FdTableInv, ListInv
<1>4. ScanInv'
  <2>1. Scanning => \A f \in Pending(i + 1) : Ready(f)'
    BY PendingOpen DEF IInv, ReadyKept
  <2>4. Scanning => \A k \in 1 .. Len(fds) : fds[k].revents \in {"err", "stale"} => Astray'
    BY DEF IInv, ScanInv
  <2>2. Scanning => \A f \in Pending(i + 1)' : Ready(f)'
    BY <1>1, <2>1 DEF Pending
  <2>3. spc = "scan" => Ready(myfd)' \/ (fds[i].revents = "stale" /\ myfd \in OpenFds)
    <3> SUFFICES ASSUME spc = "scan", Ready(myfd) PROVE Ready(myfd)'
      BY DEF IInv, ScanInv
    <3>1. Ready(myfd) /\ myfd \in OpenFds \cup {ListenFd}
      BY AtConnection DEF IInv, ScanInv, Scanning
    <3>2. \A f : f = myfd => Ready(f)'
      BY <3>1 DEF ReadyKept
    <3> QED
      BY <1>2, <3>2 DEF Ready
  <2> QED
    BY <1>1, <1>2, <2>2, <2>3, <2>4 DEF IInv, ScanInv, Scanning
<1>5. StreamInv'
  <2>1. \A c \in Clients : Held(c)' = Held(c)
    BY <1>1, <1>2 DEF Held
  <2> QED
    BY <2>1, StreamEnds
<1> QED
  BY <1>3, <1>4, <1>5 DEF IInv

LEMMA EchoFromInv == IInv => EchoIntegrity
  BY DEF IInv, StreamInv, Flow, EchoIntegrity

\* Every step keeps the invariant, and is a step of the abstract service or
\* changes nothing of it.
LEMMA NextStep ==
  ASSUME IInv, [Next]_vars
  PROVE  IInv' /\ EchoStep
<1>1. CASE ServerNext /\ UNCHANGED <<clientVars, variantVars>>
  BY <1>1, ServerStep, EchoStutter
<1>2. ASSUME NEW c \in Clients, VariantNext(c), UNCHANGED serverVars
      PROVE  IInv' /\ EchoStep
  <2>1. TcpInv' /\ ClientInv' /\ StillOpen /\ FlowStep /\ EchoStep
    BY <1>2, ClientStep, EchoFromInv DEF IInv
  <2>2. VariantTypeOK'
    BY <1>2, <2>1, VariantTypeKept DEF IInv
  <2>3. UNCHANGED <<fdt, nofile>>
    BY <1>2 DEF serverVars
  <2>4. FdTableInv' /\ ReadyKept /\ OpenFds' = OpenFds
    BY <1>2, <2>1, <2>3, TableOthers DEF IInv
  <2>5. Astray => Astray'
    BY <1>2, <2>3, AstrayOthers DEF IInv, VariantNext
  <2> QED
    BY <1>2, <2>1, <2>2, <2>4, <2>5, OthersKeep
<1>3. ASSUME NEW c \in Clients, ResetArrives(c),
             UNCHANGED <<clientVars, variantVars, serverVars>>
      PROVE  IInv' /\ EchoStep
  <2>1. TcpInv' /\ FlowStep /\ PhasesKept
    BY <1>3, ResetArrivesInv, ResetArrivesFlow DEF IInv
  <2>2. ClientInv' /\ StillOpen
    BY <1>3, <2>1, ClientsKept DEF IInv, StillOpen, PhasesKept
  <2>3. EchoStep
    BY <1>3, <2>1, EchoStutter DEF ResetArrives, ServerResetArrives, ClientResetArrives
  <2>4. VariantTypeOK'
    BY <1>3, VariantKept DEF IInv
  <2>5. UNCHANGED <<fdt, nofile>>
    BY <1>3 DEF serverVars
  <2>6. FdTableInv' /\ ReadyKept /\ OpenFds' = OpenFds
    BY <1>3, <2>2, <2>5, TableOthers DEF IInv
  <2>7. Astray => Astray'
    BY <1>3, <2>5, AstrayOthers DEF IInv, variantVars
  <2> QED
    BY <1>3, <2>1, <2>2, <2>3, <2>4, <2>6, <2>7, OthersKeep
<1>4. CASE UNCHANGED vars
  <2>1. UNCHANGED <<csk, ssk, up, down, sent, got, backlog, listening>>
        /\ UNCHANGED <<fdt, nofile>> /\ UNCHANGED serverVars
    BY <1>4 DEF vars, tcpVars, serverVars
  <2>2. TcpInv' /\ FlowStep /\ PhasesKept /\ StillOpen /\ EndsKept
    BY <2>1 DEF IInv, TcpInv, TcpTypeOK, EndsAgree, FlowStep, PhasesKept,
                StillOpen, EndsKept
  <2>3. ClientInv' /\ EchoStep /\ VariantTypeOK'
    BY <1>4, <2>1, <2>2, ClientsKept, EchoStutter, VariantKept DEF vars, IInv
  <2>4. FdTableInv' /\ ReadyKept /\ OpenFds' = OpenFds
    BY <2>1, <2>2, TableKept DEF IInv, ReadyKept, Ready, OpenFds
  <2>5. Astray => Astray'
    BY <1>4, <2>1, AstrayStays DEF vars, variantVars
  <2> QED
    BY <2>1, <2>2, <2>3, <2>4, <2>5, OthersKeep
<1> QED
  BY <1>1, <1>2, <1>3, <1>4 DEF Next, AtRest

\* The inductive invariant holds in every state.
THEOREM Invariance == Spec => []IInv
<1>1. Init => IInv
  BY InitInv
<1>2. IInv /\ [Next]_vars => IInv'
  BY NextStep
<1> QED
  BY <1>1, <1>2, PTL DEF Spec

-----------------------------------------------------------------------------
(* The theorems.                                                           *)

\* The variables of the kernel, the clients and the server keep their types.
THEOREM TypeCorrect == Spec => []TypeOK
<1>1. IInv => TypeOK
  BY DEF IInv, TcpInv, ClientInv, TypeOK
<1> QED
  BY <1>1, Invariance, PTL

\* fd_list is the listening socket and the open descriptors, each once, and
\* no connection is without a descriptor, whatever was accepted, ended and
\* reused while an older copy of the list was being scanned.
THEOREM ListIsTheTable == Spec => []ListMatchesTable
<1>1. IInv => ListMatchesTable
  BY DEF IInv, ListInv, FdTableInv, ListMatchesTable
<1> QED
  BY <1>1, Invariance, PTL

\* The scan reads fds[maxfd], which its condition i <= maxfd admits, only on
\* SCTP while it has an aborted association open: n counts the entries of such
\* associations, and of no other entry the scan does not act on.  Neither its
\* accept() nor its read() blocks on what it finds in the array.
THEOREM ScanStaysInBounds == Spec => []ScanInBounds
<1>1. IInv => ScanInBounds
  <2> SUFFICES ASSUME IInv PROVE ScanInBounds
    OBVIOUS
  <2>1. spc = "past" => Astray
    BY DEF IInv, ScanInv
  <2>2. ASSUME Scanning
        PROVE  /\ i <= maxfd /\ (fds[i].revents = "stale" => Astray)
               /\ \A k \in Pollable(fds, i + 1) : Ready(fds[k].fd)
               /\ spc = "scan" => fds[i].revents = "stale" \/ Ready(myfd)
    <3>1. i \in 1 .. Len(fds) /\ i <= maxfd
      BY <2>2, AtEntry DEF IInv, maxfd
    <3>2. \A k \in Pollable(fds, i + 1) : fds[k].fd \in Pending(i + 1)
      BY DEF Pending
    <3> QED
      BY <2>2, <3>1, <3>2 DEF IInv, ScanInv
  <2> QED
    BY <2>1, <2>2 DEF ScanInBounds, Scanning
<1> QED
  BY <1>1, Invariance, PTL

\* The poll server, the select server in Python and their clients implement
\* the abstract echo service, also when the server exits or dies.
THEOREM ImplementsEcho == Spec => EchoSpec
<1>1. Init => Echo!Init
  BY DEF Init, TcpInit, Echo!Init
<1>2. IInv /\ [Next]_vars => [Echo!Next]_(Echo!vars)
  BY NextStep DEF EchoStep
<1> QED
  BY <1>1, <1>2, Invariance, PTL DEF Spec, EchoSpec, Echo!Spec

-----------------------------------------------------------------------------
(* Lines stay whole: a second invariant, inductive relative to the first.  *)

LineInv ==
  LinesArriveWhole =>
    \A c \in Clients :
      OneLine(ssk[c], cpc[c], rep[c], sent[c], got[c], down[c], Held(c), up[c])

\* What each step of the server does to a line.
LEMMA HandsOn ==
  ASSUME IInv, ServerNext, family # "Python", NEW c \in Clients
  PROVE  Hands(c, Held(c), Held(c)')
<1>1. CASE Poll \/ PastEnd
  BY <1>1 DEF Poll, PastEnd, ComesTo, NextTurn, tcpVars, Held, Hands
<1>2. CASE Accept
  <2>1. /\ spc = "scan" /\ spc' \in {"scan", "past", "poll"}
        /\ UNCHANGED <<ssk, up, down, sent, got>>
    BY <1>2 DEF Accept, NextEntry, ComesTo, NextTurn, ServerAccepts
  <2> QED
    BY <2>1 DEF Held, Hands
<1>3. CASE AcceptFails \/ Dies
  <2> DEFINE S == {fdt[f] : f \in OpenFds} \cup Range(backlog)
  <2>1. spc' = "dead" /\ ServerCloses(S)
    BY <1>3 DEF AcceptFails, Dies, ServerExits, ProcessGone
  <2>2. c \notin S => Held(c) = <<>>
    BY DEF Held, IInv, ScanInv
  <2> HIDE DEF S
  <2>3. /\ UNCHANGED <<down, sent, got>>
        /\ IF c \in S THEN ssk'[c] # "est" /\ Len(up'[c]) <= Len(up[c])
                      ELSE UNCHANGED <<ssk[c], up[c]>>
    BY <2>1, ClosedEmpty DEF ServerCloses, IInv
  <2>4. Held(c)' = <<>>
    BY <2>1 DEF Held
  <2> QED
    BY <2>2, <2>3, <2>4 DEF Hands
<1>4. CASE Read
  <2> DEFINE d == fdt[myfd]
  <2>1. PICK k \in Chunks(d) :
          /\ ServerReads(d, k) /\ line' = Taken(up[d], k) /\ spc' \in AfterRead(d, k)
    BY <1>4 DEF Read
  <2>2. spc = "scan" /\ spc' = "write" /\ UNCHANGED <<fdt, fds, i>>
    BY <1>4, <2>1 DEF Read, AfterRead
  <2>3. d' = d
    BY <2>2 DEF myfd
  <2>4. /\ Held(c) = <<>>
        /\ Held(c)' = IF d = c THEN line' ELSE <<>>
    BY <2>2, <2>3 DEF Held
  <2> HIDE DEF d
  <2>5. UNCHANGED <<ssk, down, sent, got>> /\ up' = [up EXCEPT ![d] = Left(up[d], k)]
    BY <2>1 DEF ServerReads
  <2>6. CASE c = d
    BY <2>1, <2>4, <2>6 DEF Hands
  <2>7. CASE c # d
    BY <2>4, <2>5, <2>7 DEF Hands, IInv, TcpInv, TcpTypeOK
  <2> QED
    BY <2>6, <2>7
<1>5. CASE ReadEnd
  <2>1. spc = "scan" /\ spc' = "poll" /\ ServerCloses({fdt[myfd]})
    BY <1>5 DEF ReadEnd, GoOn, FdCloses, NextTurn
  <2>2. /\ UNCHANGED <<down, sent, got>>
        /\ \/ ssk'[c] # "est" /\ Len(up'[c]) <= Len(up[c])
           \/ UNCHANGED <<ssk[c], up[c]>>
    BY <2>1, ClosedEmpty DEF ServerCloses, IInv
  <2> QED
    BY <2>1, <2>2 DEF Held, Hands
<1>6. CASE Write
  <2> DEFINE d == fdt[myfd]
  <2>1. spc = "write" /\ SendsBack(d, line) /\ spc' \in {"scan", "past", "poll"}
    BY <1>6 DEF Write, NextEntry, ComesTo, NextTurn
  <2>2. Held(c) = (IF d = c THEN line ELSE <<>>) /\ Held(c)' = <<>>
    BY <2>1 DEF Held
  <2> HIDE DEF d
  <2>3. CASE c = d
    BY <2>1, <2>2, <2>3 DEF Hands
  <2>4. CASE c # d
    BY <2>1, <2>2, <2>4 DEF Hands, SendsBack, ServerWrites, IInv, TcpInv, TcpTypeOK
  <2> QED
    BY <2>3, <2>4
<1>7. CASE WriteFails
  <2> DEFINE d == fdt[myfd]
  <2>1. spc = "write" /\ SendBackFails(d) /\ spc' = "poll"
    BY <1>7 DEF WriteFails, NextTurn
  <2>2. Held(c) = (IF d = c THEN line ELSE <<>>) /\ Held(c)' = <<>>
    BY <2>1 DEF Held
  <2>3. d \in Clients
    BY <2>1, AtConnection DEF IInv, Scanning
  <2> HIDE DEF d
  <2>4. /\ UNCHANGED <<down, sent, got>> /\ ssk'[d] # "est" /\ Len(up'[d]) <= Len(up[d])
        /\ \A e \in Clients \ {d} : ssk'[e] = ssk[e]
    BY <2>1, <2>3, SendBackFailsStep DEF IInv
  <2>5. c # d => up'[c] = up[c]
    BY <2>1 DEF SendBackFails, ServerWriteFails, tcpVars, IInv, TcpInv, TcpTypeOK
  <2> QED
    BY <2>2, <2>4, <2>5 DEF Hands
<1>8. CASE ReadRaises \/ WriteRaises
  BY <1>8 DEF ReadRaises, WriteRaises
<1> QED
  BY <1>1, <1>2, <1>3, <1>4, <1>5, <1>6, <1>7, <1>8 DEF ServerNext

LEMMA LineStep ==
  ASSUME IInv, LineInv, [Next]_vars
  PROVE  LineInv'
<1>1. UNCHANGED family
  BY DEF Next, VariantNext, variantVars, AtRest, vars
<1> SUFFICES ASSUME LinesArriveWhole, NEW c \in Clients
             PROVE  OneLine(ssk'[c], cpc'[c], rep'[c], sent'[c], got'[c], down'[c],
                            Held(c)', up'[c])
  BY <1>1 DEF LineInv, LinesArriveWhole
<1>2. OneLine(ssk[c], cpc[c], rep[c], sent[c], got[c], down[c], Held(c), up[c])
  BY DEF LineInv
<1>3. /\ Flow(ssk[c], sent[c], got[c], down[c], Held(c), up[c])
      /\ Held(c) \in Seq(Byte) /\ (csk[c] = "none" => Held(c) = <<>>)
  BY HeldType DEF IInv, StreamInv
<1>4. CASE ServerNext /\ UNCHANGED <<clientVars, variantVars>>
  <2>1. Hands(c, Held(c), Held(c)')
    BY <1>4, HandsOn DEF LinesArriveWhole
  <2> QED
    BY <1>2, <1>3, <1>4, <2>1, ServerLine DEF IInv
<1>5. ASSUME LinesKept, UNCHANGED serverVars
      PROVE  OneLine(ssk'[c], cpc'[c], rep'[c], sent'[c], got'[c], down'[c], Held(c)', up'[c])
  <2>1. Held(c)' = Held(c)
    BY <1>5 DEF serverVars, Held, myfd
  <2> QED
    BY <1>2, <1>3, <1>5, <2>1 DEF LinesKept
<1>6. ASSUME NEW d \in Clients, VariantNext(d)
      PROVE  LinesKept
  BY <1>6, ClientLines DEF IInv
<1>7. ASSUME NEW d \in Clients, ResetArrives(d), UNCHANGED clientVars
      PROVE  LinesKept
  BY <1>7, ResetLines DEF IInv
<1>8. CASE UNCHANGED vars
  BY <1>2, <1>8 DEF vars, tcpVars, clientVars, serverVars, Held, myfd
<1> QED
  BY <1>4, <1>5, <1>6, <1>7, <1>8 DEF Next, AtRest

\* Where lines arrive whole, one read of a client gives all of the line it
\* sent last, however the server and the network are scheduled and
\* whatever else the server scans.
THEOREM LinesStayWhole == Spec => []MessagesStayWhole
<1>1. Init => LineInv
  BY LinesInit DEF Init, ServerInit, LineInv, Held
<1>2. IInv /\ LineInv /\ [Next]_vars => LineInv'
  BY LineStep
<1>3. LineInv => MessagesStayWhole
  BY DEF LineInv, OneLine, MessagesStayWhole
<1> QED
  BY <1>1, <1>2, <1>3, Invariance, PTL DEF Spec
-----------------------------------------------------------------------------
(* Who ends the process.                                                   *)

\* A line that a C server is writing back is not empty, and none of its bytes
\* has reached the client: it has not read all it sent.
KillInv ==
  family # "Python" =>
    /\ spc # "raise"
    /\ spc = "write" => line # <<>>
    /\ \A c \in Clients : Accounted(sent[c], got[c], down[c], Held(c), up[c])

LEMMA NeverEmpty ==
  ASSUME IInv, KillInv, [Next]_vars, family # "Python"
  PROVE  spc' # "raise" /\ (spc' = "write" => line' # <<>>)
<1>1. CASE Read
  <2>1. fdt[myfd] \in Clients
    BY <1>1, AtConnection DEF Read, IInv, Scanning
  <2> QED
    BY <1>1, <2>1, ReadsSome DEF Read, AfterRead, IInv
<1>2. CASE Poll \/ PastEnd \/ ReadEnd \/ ReadRaises \/ WriteFails \/ WriteRaises \/ AcceptFails \/ Dies
  BY <1>2 DEF Poll, PastEnd, ComesTo, ReadEnd, GoOn, ReadRaises, WriteFails, WriteRaises, AcceptFails, Dies,
              ServerExits, NextTurn
<1>3. CASE Accept \/ Write
  BY <1>3 DEF Accept, Write, NextEntry, ComesTo, NextTurn
<1>4. CASE UNCHANGED serverVars
  BY <1>4 DEF serverVars, KillInv
<1> QED
  BY <1>1, <1>2, <1>3, <1>4 DEF Next, ServerNext, AtRest, vars

LEMMA KillStep ==
  ASSUME IInv, IInv', KillInv, [Next]_vars
  PROVE  KillInv'
<1>1. UNCHANGED family
  BY DEF Next, VariantNext, variantVars, AtRest, vars
<1> SUFFICES ASSUME family # "Python", NEW c \in Clients
             PROVE  Accounted(sent'[c], got'[c], down'[c], Held(c)', up'[c])
  BY <1>1, NeverEmpty DEF KillInv
<1>2. Accounted(sent[c], got[c], down[c], Held(c), up[c]) /\ Held(c) \in Seq(Byte)
  BY HeldType DEF KillInv, IInv
<1>3. CASE ServerNext
  <2>1. Hands(c, Held(c), Held(c)')
    BY <1>3, HandsOn
  <2> QED
    BY <1>2, <2>1, ServerAccount DEF IInv
<1>4. ASSUME AccountsKept, UNCHANGED serverVars
      PROVE  Accounted(sent'[c], got'[c], down'[c], Held(c)', up'[c])
  <2>1. Held(c)' = Held(c)
    BY <1>4 DEF serverVars, Held, myfd
  <2> QED
    BY <1>2, <1>4, <2>1 DEF AccountsKept
<1>5. ASSUME NEW d \in Clients, VariantNext(d) \/ ResetArrives(d)
      PROVE  AccountsKept
  BY <1>5, ClientAccount, ResetAccount DEF IInv
<1>6. CASE UNCHANGED vars
  BY <1>2, <1>6 DEF vars, tcpVars, serverVars, Held, myfd
<1> QED
  BY <1>3, <1>4, <1>5, <1>6 DEF Next, AtRest

\* A C server ends for two causes only: a client knocks when no descriptor is
\* left (check_and_exit after accept() in tcp-6-server.cc), or write() meets a
\* connection whose client left before it had read all its answers.
KilledOnlyByLeavers ==
  [][family # "Python" /\ spc # "dead" /\ spc' = "dead" =>
       \/ FreeFds = {} /\ backlog # <<>>
       \/ \E f \in OpenFds : csk[fdt[f]] = "closed" /\ got[fdt[f]] # sent[fdt[f]]]_vars

\* The step that ends the process.
LEMMA Death ==
  ASSUME IInv, KillInv, Next, family # "Python", spc # "dead", spc' = "dead"
  PROVE  \/ FreeFds = {} /\ backlog # <<>>
         \/ \E f \in OpenFds : csk[fdt[f]] = "closed" /\ got[fdt[f]] # sent[fdt[f]]
<1>1. CASE AcceptFails
  <2>1. FreeFds = {} /\ myfd = ListenFd /\ spc = "scan"
    BY <1>1 DEF AcceptFails
  <2>2. ListenFd \notin OpenFds
    BY FdAssumption DEF OpenFds, ConnFds, ListenFd
  <2> QED
    BY <2>1, <2>2 DEF IInv, ScanInv, Ready
<1>2. CASE Dies
  <2>1. spc = "write" /\ SendBackKills(fdt[myfd])
    BY <1>2 DEF Dies, KillInv
  <2>2. myfd \in OpenFds /\ fdt[myfd] \in Clients
    BY <2>1, AtConnection DEF IInv, Scanning
  <2>3. Held(fdt[myfd]) = line /\ line # <<>> /\ line \in Seq(Byte)
    BY <2>1 DEF Held, KillInv, IInv, ServerTypeOK
  <2>4. csk[fdt[myfd]] = "closed" /\ got[fdt[myfd]] # sent[fdt[myfd]]
    BY <2>1, <2>2, <2>3, KilledByLeaver DEF KillInv, IInv
  <2> QED
    BY <2>2, <2>4
<1>3. CASE Poll \/ PastEnd \/ Read \/ ReadEnd \/ ReadRaises \/ WriteFails \/ WriteRaises
  BY <1>3 DEF Poll, PastEnd, ComesTo, Read, AfterRead, ReadEnd, GoOn, ReadRaises, WriteFails, WriteRaises, NextTurn
<1>4. CASE Accept \/ Write
  BY <1>4 DEF Accept, Write, NextEntry, ComesTo, NextTurn
<1>5. CASE UNCHANGED serverVars
  BY <1>5 DEF serverVars
<1> QED
  BY <1>1, <1>2, <1>3, <1>4, <1>5 DEF Next, ServerNext, AtRest, vars

\* However many clients there are and however they leave, what ends the C server
\* of all of them is a client without a descriptor left for it, or one that left
\* an answer unread.
THEOREM OnlyLeaversKill == Spec => KilledOnlyByLeavers
<1>1. Init => KillInv
  BY AccountInit DEF Init, ServerInit, KillInv, Held
<1>2. IInv /\ IInv' /\ KillInv /\ [Next]_vars => KillInv'
  BY KillStep
<1>3. IInv /\ KillInv /\ [Next]_vars
      => [family # "Python" /\ spc # "dead" /\ spc' = "dead" =>
            \/ FreeFds = {} /\ backlog # <<>>
            \/ \E f \in OpenFds : csk[fdt[f]] = "closed" /\ got[fdt[f]] # sent[fdt[f]]]_vars
  BY Death
<1> QED
  BY <1>1, <1>2, <1>3, Invariance, PTL DEF Spec, KilledOnlyByLeavers
=============================================================================
