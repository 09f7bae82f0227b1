--------------------------- MODULE UdpPairsProofs ---------------------------
(***************************************************************************)
(* Theorems about UdpPairs, for any clients, lines, buffer size and        *)
(* losses, and for every pair of programs: its types are right, what is    *)
(* printed of a line is that line, a reply carries the line it answers,    *)
(* and an undisturbed client is in step with its lines, however many       *)
(* clients come and go on its port.                                        *)
(***************************************************************************)
EXTENDS UdpPairs, TLAPS, SequenceTheorems, FiniteSetTheorems, WellFoundedInduction

-----------------------------------------------------------------------------
(* The inductive invariant.                                                *)

\* Which programs run.
KindInv ==
  /\ server \in {p[1] : p \in Pairs}
  /\ kind \in [Clients -> {p[2] : p \in Pairs}]

\* Who has the port: a client from bind() to its end, and before bind() it
\* has sent nothing; two of them only by their options.
PortInv ==
  /\ \A c \in Clients :
       /\ c \in bound <=> kind[c] \in Bound /\ cpc[c] \in {"option", "input", "wait"}
       /\ At(c, "start") => kind[c] \in Bound
       /\ At(c, "start") \/ At(c, "option") => nsent[c] = 0
       /\ At(c, "option") => kind[c] \in {"udp-6-client.py", "udp-7-client.py"}
       /\ c \in reuse => kind[c] \in OptionFirst \cup {"udp-6-client.py"}
       /\ c \in killed => At(c, "done")
  /\ \A c, d \in bound : c # d => MayShare(c, d) /\ {c, d} \subseteq reuse

\* What a datagram can be: a line on its way to a server; a stranger's; or
\* an answer, to the line's sender or, if that has the port, to one that has
\* had it too.
Request(m) == m.from \in Clients /\ m.to \in Hosts /\ m.line[1] = m.from /\ m.data = m.asked
FromStranger(m) ==
  m.from = Stranger /\ m.to \in Clients /\ m.line[1] = Stranger /\ strays > 0 /\ m.data = m.asked
Reply(m) ==
  /\ m.from = Server /\ m.to \in Clients /\ m.line[1] \in Clients
  /\ m.to = m.line[1] \/ {kind[m.to], kind[m.line[1]]} \subseteq Bound

RouteInv == \A m \in net : Request(m) \/ FromStranger(m) \/ Reply(m)

\* A line has no NUL but the one at its end.
Plain(asked) == \A i \in 1 .. Len(asked) : asked[i] = NUL => i = Len(asked)

\* Only udp-8-client sends cells of its buffer after the line's NUL, and as
\* many as fit the server's.
AskedInv ==
  \A m \in net :
    IF server = "udp-8-server" THEN Request(m) => Len(m.asked) <= Size
    ELSE Plain(m.asked)

\* The lines of a client that waits for replies are on their way once.
LineInv ==
  /\ \A m \in net :
       m.line[1] \in Clients /\ ~At(m.line[1], "done") => m.line[2] <= nsent[m.line[1]]
  /\ \A m, n \in net :
       m.line = n.line /\ m.line[1] \in Clients /\ kind[m.line[1]] \notin Senders => m = n

\* What the clients that have had the port sent and is still under way, and
\* those of them that wait.
Pending == {m \in net : m.line[1] \in Clients /\ kind[m.line[1]] \in Bound}
Waiters == {c \in Clients : kind[c] \in Bound /\ At(c, "wait")}

\* Unless one of them was interrupted, there is no more under way than they
\* wait for, whichever gets which answer.
CountInv ==
  /\ IsFiniteSet(net) /\ IsFiniteSet(Waiters)
  /\ (\A c \in killed : kind[c] \notin Bound) => Cardinality(Pending) <= Cardinality(Waiters)

\* The datagrams whose answer client c may get.
Own(c) == {m \in net : m.line[1] = c \/ (c \in bound /\ m \in Pending)}

\* An undisturbed client waits for its line, of which it shows the reply.
StepInv ==
  \A c \in Clients :
    kind[c] \notin Senders /\ Undisturbed(c) /\ ~At(c, "done") =>
      /\ \A m \in Own(c) : At(c, "wait") /\ m.line = <<c, nsent[c]>>
      /\ At(c, "input") /\ nsent[c] > 0 => shown[c].line = <<c, nsent[c]>>

IInv ==
  /\ TypeOK /\ KindInv /\ PortInv /\ RouteInv /\ AskedInv /\ LineInv /\ CountInv /\ StepInv
  /\ RepliesCarryTheLine /\ ShowsTheLine

-----------------------------------------------------------------------------
(* The buffers.                                                            *)

\* A nonempty set of naturals has a least element.
LEMMA LeastNat ==
  ASSUME NEW S \in SUBSET Nat, S # {}
  PROVE  \E n \in S : \A k \in S : n <= k
<1>1. PICK x \in S : \A y \in S : ~ (<<y, x>> \in OpToRel(<, Nat))
  BY WFMin, NatLessThanWellFounded
<1>2. ASSUME NEW y \in S PROVE x <= y
  <2>1. <<y, x>> \notin {ss \in Nat \X Nat : ss[1] < ss[2]}
    BY <1>1, Zenon DEF OpToRel
  <2> QED
    BY <2>1
<1> QED
  BY <1>2

\* strlen() counts the cells before the first NUL, or all of them.
LEMMA StrLenMeans ==
  ASSUME NEW X, NEW b \in Seq(X)
  PROVE  /\ StrLen(b) \in 0 .. Len(b)
         /\ StrLen(b) < Len(b) => b[StrLen(b) + 1] = NUL
         /\ \A i \in 1 .. StrLen(b) : b[i] # NUL
<1> DEFINE S == {n \in 0 .. Len(b) : n < Len(b) => b[n + 1] = NUL}
<1>1. Len(b) \in Nat
  BY LenProperties
<1>2. Len(b) \in S /\ S \in SUBSET Nat
  BY <1>1
<1>3. PICK n \in S : \A k \in S : n <= k
  BY <1>2, LeastNat
<1>4. ASSUME NEW i \in 1 .. n, b[i] = NUL
      PROVE  FALSE
  <2>1. i - 1 \in 0 .. Len(b) /\ (i - 1) + 1 = i
    BY <1>1
  <2>2. i - 1 \in S
    BY <1>4, <2>1
  <2>3. n <= i - 1 /\ n \in Nat
    BY <1>2, <1>3, <2>2
  <2> QED
    BY <2>3
<1>5. \E m \in 0 .. Len(b) :
        /\ m < Len(b) => b[m + 1] = NUL
        /\ \A i \in 1 .. m : b[i] # NUL
  BY <1>4
<1> QED
  BY <1>5, Zenon DEF StrLen

\* There is one such number.
LEMMA StrLenIs ==
  ASSUME NEW X, NEW b \in Seq(X), NEW n \in 0 .. Len(b),
         n < Len(b) => b[n + 1] = NUL, \A i \in 1 .. n : b[i] # NUL
  PROVE  StrLen(b) = n
<1> DEFINE k == StrLen(b)
<1>1. /\ k \in 0 .. Len(b) /\ Len(b) \in Nat
      /\ k < Len(b) => b[k + 1] = NUL
      /\ \A i \in 1 .. k : b[i] # NUL
  BY StrLenMeans, LenProperties
<1> HIDE DEF k
<1>2. ~ k < n
  <2> SUFFICES ASSUME k < n PROVE FALSE
    OBVIOUS
  <2>1. k + 1 \in 1 .. n /\ k < Len(b)
    BY <1>1
  <2> QED
    BY <1>1, <2>1
<1>3. ~ n < k
  <2> SUFFICES ASSUME n < k PROVE FALSE
    OBVIOUS
  <2>1. n + 1 \in 1 .. k /\ n < Len(b)
    BY <1>1
  <2> QED
    BY <1>1, <2>1
<1> QED
  BY <1>1, <1>2, <1>3 DEF k

Buffer == [1 .. Size -> Cell]

LEMMA BufferSeq ==
  ASSUME NEW b \in Buffer
  PROVE  b \in Seq(Cell) /\ Len(b) = Size
  BY BufferAssumption DEF Buffer

LEMMA FreshType == Fresh \in Buffer
  BY DEF Fresh, Buffer, Cell

\* What is received fills the first cells, and the rest stays; then there may
\* be a NUL in the last.
LEMMA ReceivedIs ==
  ASSUME NEW old \in Buffer, NEW data \in Seq(Cell), NEW program
  PROVE  /\ Received(old, data) \in Buffer
         /\ \A i \in 1 .. Size : i <= Len(data) => Received(old, data)[i] = data[i]
         /\ AfterRecv(program, old, data) \in Buffer
         /\ program = "udp-8-server" => AfterRecv(program, old, data) = Received(old, data)
         /\ program # "udp-8-server" =>
              /\ AfterRecv(program, old, data)[Size] = NUL
              /\ \A i \in 1 .. Size - 1 :
                   AfterRecv(program, old, data)[i] = Received(old, data)[i]
<1> DEFINE r == Received(old, data)
<1>1. Len(data) \in Nat /\ \A i \in 1 .. Len(data) : data[i] \in Cell
  BY LenProperties, ElementOfSeq
<1>2. r \in Buffer /\ \A i \in 1 .. Size : i <= Len(data) => r[i] = data[i]
  BY <1>1 DEF Received, Buffer
<1> HIDE DEF r
<1>3. Size \in 1 .. Size /\ NUL \in Cell
  BY BufferAssumption DEF Cell
<1>4. EndMarked(r) \in Buffer /\ EndMarked(r)[Size] = NUL
      /\ \A i \in 1 .. Size - 1 : EndMarked(r)[i] = r[i]
  BY <1>2, <1>3, BufferAssumption DEF EndMarked, Buffer
<1> QED
  BY <1>2, <1>4 DEF AfterRecv, r

\* A datagram that fits leaves its cells in the buffer, if the NUL written
\* into the last one was there already.
LEMMA WholeDatagram ==
  ASSUME NEW old \in Buffer, NEW data \in Seq(Cell), NEW program,
         \/ Len(data) < Size
         \/ Len(data) = Size /\ (program = "udp-8-server" \/ data[Size] = NUL)
  PROVE  \A i \in 1 .. Len(data) : AfterRecv(program, old, data)[i] = data[i]
<1> DEFINE b == AfterRecv(program, old, data)
           r == Received(old, data)
<1>1. /\ \A i \in 1 .. Size : i <= Len(data) => r[i] = data[i]
      /\ program = "udp-8-server" => b = r
      /\ program # "udp-8-server" => b[Size] = NUL /\ \A i \in 1 .. Size - 1 : b[i] = r[i]
  BY ReceivedIs
<1>2. Len(data) \in Nat /\ Size \in Nat \ {0}
  BY LenProperties, BufferAssumption
<1> HIDE DEF b, r
<1> SUFFICES ASSUME NEW i \in 1 .. Len(data) PROVE b[i] = data[i]
  BY DEF b
<1>3. i \in 1 .. Size /\ r[i] = data[i] /\ (i = Size \/ i \in 1 .. Size - 1)
  BY <1>1, <1>2
<1>4. i = Size => Len(data) = Size
  BY <1>2
<1> QED
  BY <1>1, <1>3, <1>4

\* A line with its NUL is the text of the buffer it was received in, whatever
\* the buffer held.
LEMMA LineReceived ==
  ASSUME NEW old \in Buffer, NEW data \in Seq(Cell), NEW program,
         program # "udp-8-server", Plain(data), Ended(data)
  PROVE  LET b == AfterRecv(program, old, data) IN
         /\ Len(data) \in 1 .. Size
         /\ \A i \in 1 .. Len(data) : b[i] = data[i]
         /\ StrLen(b) = Len(data) - 1 /\ StrLen(data) = Len(data) - 1
<1> DEFINE b == AfterRecv(program, old, data)
<1>1. /\ Len(data) \in 1 .. Size /\ data[Len(data)] = NUL
      /\ \A i \in 1 .. Len(data) - 1 : data[i] # NUL
  <2>1. PICK i \in 1 .. Len(data) : i <= Size /\ data[i] = NUL
    BY DEF Ended
  <2>2. i = Len(data) /\ Len(data) \in Nat
    BY <2>1, LenProperties DEF Plain
  <2>3. \A j \in 1 .. Len(data) - 1 : j \in 1 .. Len(data) /\ j # Len(data)
    BY <2>2
  <2> QED
    BY <2>1, <2>2, <2>3, BufferAssumption DEF Plain
<1>2. Len(data) < Size \/ (Len(data) = Size /\ data[Size] = NUL)
  BY <1>1, BufferAssumption
<1>3. \A i \in 1 .. Len(data) : b[i] = data[i]
  BY <1>2, WholeDatagram
<1>4. b \in Buffer
  BY ReceivedIs
<1> HIDE DEF b
<1>5. b \in Seq(Cell) /\ Len(b) = Size
  BY <1>4, BufferSeq
<1> DEFINE n == Len(data) - 1
<1>6. /\ n \in 0 .. Len(b) /\ n \in 0 .. Len(data) /\ n + 1 = Len(data)
      /\ \A i \in 1 .. n : i \in 1 .. Len(data) /\ b[i] # NUL /\ data[i] # NUL
      /\ b[n + 1] = NUL /\ data[n + 1] = NUL
  BY <1>1, <1>3, <1>5, BufferAssumption
<1> HIDE DEF n
<1>7. StrLen(b) = n /\ StrLen(data) = n
  BY <1>5, <1>6, StrLenIs
<1> QED
  BY <1>1, <1>3, <1>7 DEF b, n

-----------------------------------------------------------------------------
(* The programs, the lines and the answers.                                *)

\* The pairs that README names.
LEMMA KindFacts ==
  ASSUME TypeOK, KindInv, NEW c \in Clients
  PROVE  /\ server \in {"udp-2-server", "mcast-recv"} <=> kind[c] \in Senders
         /\ server = "udp-8-server" <=> kind[c] = "udp-8-client"
         /\ kind[c] \in Bound => kind[c] \in Connected /\ kind[c] \notin Senders
         /\ kind[c] # "udp-8-server"
<1>1. <<server, kind[c]>> \in Pairs
  BY DEF TypeOK
<1> QED
  BY <1>1, Zenon DEF Pairs, Senders, Bound, Contenders, Broadcasts, Connected

LEMMA HostFacts ==
  /\ Hosts \subseteq {Server, Member} /\ Server \in Hosts
  /\ server # "mcast-recv" => Hosts = {Server}
  /\ \A c \in Clients : c \notin Hosts
  /\ Stranger \notin Hosts /\ Stranger \notin Clients
  /\ Hosts \subseteq Peers
  BY PairsAssumption DEF Hosts, Peers

\* No character of a line is a NUL.
LEMMA LineOfIs ==
  ASSUME NEW x \in Clients \cup {Stranger}, NEW l \in Nat, NEW k \in Nat
  PROVE  /\ LineOf(x, l, k) \in Seq(Cell) /\ Len(LineOf(x, l, k)) = k
         /\ \A i \in 1 .. k : LineOf(x, l, k)[i] # NUL
<1>1. \A j \in 1 .. k : <<x, l, j>> \in (Clients \cup {Stranger}) \X Nat \X Nat
  OBVIOUS
<1>2. \A j \in 1 .. k : <<x, l, j>> \in Cell /\ <<x, l, j>> # NUL
  BY <1>1, PairsAssumption DEF Cell
<1> DEFINE s == [j \in 1 .. k |-> <<x, l, j>>]
<1>3. s \in [1 .. k -> Cell] /\ \A i \in 1 .. k : s[i] # NUL
  BY <1>2
<1> HIDE DEF s
<1>4. s \in Seq(Cell) /\ Len(s) = k
  BY <1>3
<1> QED
  BY <1>3, <1>4 DEF s, LineOf

LEMMA CStringIs ==
  ASSUME NEW x \in Clients \cup {Stranger}, NEW l \in Nat, NEW k \in Nat
  PROVE  /\ CString(LineOf(x, l, k)) \in Seq(Cell)
         /\ Plain(CString(LineOf(x, l, k)))
<1> DEFINE s == LineOf(x, l, k)
<1>1. s \in Seq(Cell) /\ Len(s) = k /\ \A i \in 1 .. k : s[i] # NUL
  BY LineOfIs
<1> HIDE DEF s
<1>2. NUL \in Cell
  BY DEF Cell
<1>3. /\ Append(s, NUL) \in Seq(Cell) /\ Len(Append(s, NUL)) = k + 1
      /\ \A i \in 1 .. k : Append(s, NUL)[i] = s[i]
  BY <1>1, <1>2, AppendProperties
<1>4. \A i \in 1 .. k + 1 : i \in 1 .. k \/ i = k + 1
  OBVIOUS
<1> QED
  BY <1>1, <1>3, <1>4 DEF CString, Plain, s

\* What is sent of a line: it has one NUL at most, at its end, or comes from a
\* udp-8-client and fits the buffer.
LEMMA OutgoingIs ==
  ASSUME TypeOK, NEW c \in Clients, NEW l \in Nat, NEW k \in Nat
  PROVE  /\ Typed(c, LineOf(c, l, k)) \in Buffer
         /\ Outgoing(c, LineOf(c, l, k)) \in Seq(Cell)
         /\ IF kind[c] = "udp-8-client" THEN Len(Outgoing(c, LineOf(c, l, k))) <= Size
            ELSE Plain(Outgoing(c, LineOf(c, l, k)))
<1> DEFINE s == LineOf(c, l, k)
           t == Typed(c, s)
<1>1. s \in Seq(Cell) /\ Len(s) = k /\ \A i \in 1 .. k : s[i] # NUL
  BY LineOfIs
<1>2. CString(s) \in Seq(Cell) /\ Plain(CString(s))
  BY CStringIs
<1> HIDE DEF s
<1>3. Plain(s)
  BY <1>1 DEF Plain
<1>4. t \in Buffer
  <2>1. input[c] \in Buffer
    BY DEF TypeOK, Buffer
  <2> QED
    BY <1>2, <2>1, ReceivedIs DEF Typed
<1> HIDE DEF t
<1>5. t \in Seq(Cell) /\ Len(t) = Size
  BY <1>4, BufferSeq
<1>6. SubSeq(t, 1, PacketSize) \in Seq(Cell) /\ Len(SubSeq(t, 1, PacketSize)) <= Size
  BY <1>5, PairsAssumption, BufferAssumption
<1>7. kind[c] = "udp-8-client" => kind[c] \notin Python
  BY DEF Python
<1> QED
  BY <1>1, <1>2, <1>3, <1>4, <1>6, <1>7 DEF Outgoing, t, s

\* The first cells of a buffer, if they are the datagram's.
LEMMA FirstCells ==
  ASSUME NEW b \in Seq(Cell), NEW data \in Seq(Cell), Len(data) <= Len(b),
         \A i \in 1 .. Len(data) : b[i] = data[i]
  PROVE  SubSeq(b, 1, Len(data)) = data
<1>1. Len(data) \in Nat /\ Len(b) \in Nat
  BY LenProperties
<1> DEFINE s == SubSeq(b, 1, Len(data))
<1>2. /\ s \in Seq(Cell) /\ Len(s) = Len(data)
      /\ \A i \in 1 .. Len(data) : s[i] = b[i]
  BY <1>1
<1> HIDE DEF s
<1>3. \A i \in 1 .. Len(s) : s[i] = data[i]
  BY <1>2
<1>4. s = data
  BY <1>2, <1>3, SeqEqual
<1> QED
  BY <1>4 DEF s

LEMMA AnswerType ==
  ASSUME NEW old \in Buffer, NEW data \in Seq(Cell)
  PROVE  Answer(AfterRecv(server, old, data), data) \in Seq(Cell)
<1> DEFINE b == AfterRecv(server, old, data)
<1>1. b \in Buffer /\ (server # "udp-8-server" => b[Size] = NUL)
  BY ReceivedIs
<1> HIDE DEF b
<1>2. b \in Seq(Cell) /\ Len(b) = Size
  BY <1>1, BufferSeq
<1>3. StrLen(b) \in 0 .. Size /\ \A i \in 1 .. StrLen(b) : b[i] # NUL
  BY <1>2, StrLenMeans
<1>4. server # "udp-8-server" => StrLen(b) + 1 \in 1 .. Size
  BY <1>1, <1>3, BufferAssumption
<1>5. Got(data) \in 0 .. Size
  BY LenProperties, BufferAssumption DEF Got
<1>6. \A n \in 0 .. Size : SubSeq(b, 1, n) \in Seq(Cell)
  BY <1>2, BufferAssumption
<1>7. server # "udp-8-server" => SubSeq(b, 1, StrLen(b) + 1) \in Seq(Cell)
  BY <1>4, <1>6, BufferAssumption
<1> QED
  BY <1>5, <1>6, <1>7 DEF Answer, b

\* What the server returns of a line that reached it as it was sent.
LEMMA AnswerCarries ==
  ASSUME NEW old \in Buffer, NEW data \in Seq(Cell),
         IF server = "udp-8-server" THEN Len(data) <= Size ELSE Plain(data)
  PROVE  \/ Answer(AfterRecv(server, old, data), data) = data
         \/ Len(data) >= Size /\ ~Ended(data)
         \/ server = "udp-server" /\ ~Ended(data)
<1> DEFINE b == AfterRecv(server, old, data)
<1>1. b \in Buffer
  BY ReceivedIs
<1>2. b \in Seq(Cell) /\ Len(b) = Size /\ Len(data) \in Nat /\ Size \in Nat \ {0}
  BY <1>1, BufferSeq, LenProperties, BufferAssumption
<1>3. CASE server = "udp-server" /\ Ended(data)
  <2>1. /\ Len(data) \in 1 .. Size /\ \A i \in 1 .. Len(data) : b[i] = data[i]
        /\ StrLen(b) = Len(data) - 1
    BY <1>3, LineReceived
  <2> HIDE DEF b
  <2>2. StrLen(b) + 1 = Len(data)
    BY <1>2, <2>1
  <2>3. SubSeq(b, 1, StrLen(b) + 1) = data
    BY <1>2, <2>1, <2>2, FirstCells
  <2>4. Answer(b, data) = data
    BY <1>3, <2>3 DEF Answer
  <2> QED
    BY <2>4 DEF b
<1>4. CASE server = "udp-3-server.py"
  BY <1>4 DEF Answer
<1>5. CASE server \notin {"udp-server", "udp-3-server.py"}
  <2>1. Answer(b, data) = SubSeq(b, 1, Got(data))
    BY <1>5 DEF Answer
  <2>2. CASE Len(data) < Size \/ (Len(data) = Size /\ (server = "udp-8-server" \/ data[Size] = NUL))
    <3>1. \A i \in 1 .. Len(data) : b[i] = data[i]
      BY <2>2, WholeDatagram
    <3> HIDE DEF b
    <3>2. Got(data) = Len(data) /\ Len(data) <= Len(b)
      BY <1>2, <2>2 DEF Got
    <3>3. Answer(b, data) = data
      BY <1>2, <2>1, <3>1, <3>2, FirstCells
    <3> QED
      BY <3>3 DEF b
  <2>3. CASE ~ (Len(data) < Size \/ (Len(data) = Size /\ (server = "udp-8-server" \/ data[Size] = NUL)))
    <3>1. Plain(data) /\ Len(data) >= Size /\ (Len(data) = Size => data[Size] # NUL)
      BY <1>2, <2>3
    <3>2. ~Ended(data)
      BY <1>2, <3>1 DEF Ended, Plain
    <3> QED
      BY <3>1, <3>2
  <2> QED
    BY <2>2, <2>3
<1> QED
  BY <1>3, <1>4, <1>5

\* What comes back unchanged begins with itself.
LEMMA SameBegins ==
  ASSUME NEW data \in Seq(Cell)
  PROVE  Begins(data, data)
  BY LenProperties DEF Begins

\* Every answer begins with the line, as far as a NUL leaves room for it:
\* strlen() finds no NUL before its end.
LEMMA AnswerBegins ==
  ASSUME NEW old \in Buffer, NEW data \in Seq(Cell),
         server # "udp-8-server" => Plain(data)
  PROVE  Begins(Answer(AfterRecv(server, old, data), data), data)
<1> DEFINE b == AfterRecv(server, old, data)
<1>1. /\ b \in Buffer /\ \A i \in 1 .. Len(data) : i < Size => b[i] = data[i]
      /\ server # "udp-8-server" => b[Size] = NUL
  <2>1. Len(data) \in Nat /\ Size \in Nat \ {0}
    BY LenProperties, BufferAssumption
  <2>2. \A i \in 1 .. Len(data) : i < Size => i \in 1 .. Size - 1 /\ i \in 1 .. Size /\ i <= Len(data)
    BY <2>1
  <2> QED
    BY <2>2, ReceivedIs
<1> HIDE DEF b
<1>2. b \in Seq(Cell) /\ Len(b) = Size /\ Len(data) \in Nat /\ Size \in Nat \ {0}
  BY <1>1, BufferSeq, LenProperties, BufferAssumption
<1> SUFFICES ASSUME NEW i \in 1 .. Len(data), i < Size
             PROVE  i <= Len(Answer(b, data)) /\ Answer(b, data)[i] = data[i]
  BY DEF Begins, b
<1>3. \A n \in 0 .. Size :
        i <= n => i <= Len(SubSeq(b, 1, n)) /\ SubSeq(b, 1, n)[i] = data[i]
  BY <1>1, <1>2
<1>4. CASE server = "udp-server"
  <2> DEFINE n == StrLen(b)
  <2>1. n \in 0 .. Size /\ (n < Size => b[n + 1] = NUL) /\ \A j \in 1 .. n : b[j] # NUL
    BY <1>2, StrLenMeans
  <2> HIDE DEF n
  <2>2. n + 1 \in 1 .. Size
    BY <1>1, <1>2, <1>4, <2>1
  <2>3. i <= n + 1
    <3> SUFFICES ASSUME n + 1 < i PROVE FALSE
      BY <2>2
    <3>1. n + 1 \in 1 .. Len(data) /\ n + 1 < Size /\ n + 1 # Len(data)
      BY <1>2, <2>1
    <3>2. n < Size
      BY <1>2, <2>1, <3>1
    <3>3. data[n + 1] = b[n + 1]
      BY <1>1, <3>1
    <3> QED
      BY <1>4, <2>1, <3>1, <3>2, <3>3 DEF Plain
  <2>4. n + 1 \in 0 .. Size /\ Answer(b, data) = SubSeq(b, 1, n + 1)
    BY <1>4, <2>2 DEF Answer, n
  <2> QED
    BY <1>3, <2>3, <2>4
<1>5. CASE server = "udp-3-server.py"
  BY <1>2, <1>5 DEF Answer
<1>6. CASE server \notin {"udp-server", "udp-3-server.py"}
  <2>1. Got(data) \in 0 .. Size /\ i <= Got(data)
    BY <1>2 DEF Got
  <2>2. Answer(b, data) = SubSeq(b, 1, Got(data))
    BY <1>6 DEF Answer
  <2> QED
    BY <1>3, <2>1, <2>2
<1> QED
  BY <1>4, <1>5, <1>6

\* What is printed of a line without its NUL begins with the line too.
LEMMA TextBegins ==
  ASSUME NEW old \in Buffer, NEW data \in Seq(Cell), NEW program,
         program # "udp-8-server", NEW asked \in Seq(Cell), ~Ended(asked),
         Begins(data, asked)
  PROVE  Begins(Text(AfterRecv(program, old, data)), asked)
<1> DEFINE b == AfterRecv(program, old, data)
<1>1. Len(data) \in Nat /\ Len(asked) \in Nat /\ Size \in Nat \ {0}
  BY LenProperties, BufferAssumption
<1>2. \A j \in 1 .. Len(asked) : j < Size => b[j] = asked[j] /\ b[j] # NUL
  <2> SUFFICES ASSUME NEW j \in 1 .. Len(asked), j < Size
               PROVE  b[j] = asked[j] /\ asked[j] # NUL
    OBVIOUS
  <2>1. j <= Len(data) /\ data[j] = asked[j]
    BY DEF Begins
  <2>2. j \in 1 .. Size - 1 /\ j \in 1 .. Size
    BY <1>1
  <2>3. b[j] = data[j]
    BY <2>1, <2>2, ReceivedIs
  <2>4. asked[j] # NUL
    BY <1>1 DEF Ended
  <2> QED
    BY <2>1, <2>3, <2>4
<1>3. b \in Buffer
  BY ReceivedIs
<1> HIDE DEF b
<1>4. b \in Seq(Cell) /\ Len(b) = Size
  BY <1>3, BufferSeq
<1> DEFINE n == StrLen(b)
           t == SubSeq(b, 1, n)
<1>5. n \in 0 .. Size /\ (n < Size => b[n + 1] = NUL)
  BY <1>4, StrLenMeans
<1> HIDE DEF n
<1>a. t \in Seq(Cell) /\ Len(t) = n /\ \A i \in 1 .. n : t[i] = b[i]
  BY <1>1, <1>4, <1>5
<1> HIDE DEF t
<1>6. Len(Text(b)) = n /\ \A i \in 1 .. n : Text(b)[i] = b[i]
  BY <1>a DEF Text, n, t
<1> SUFFICES ASSUME NEW i \in 1 .. Len(asked), i < Size
             PROVE  i <= Len(Text(b)) /\ Text(b)[i] = asked[i]
  BY DEF Begins, b
<1>7. i <= n
  <2> SUFFICES ASSUME n < i PROVE FALSE
    BY <1>1, <1>5
  <2>1. n + 1 \in 1 .. Len(asked) /\ n + 1 < Size /\ n < Size
    BY <1>1, <1>5
  <2> QED
    BY <1>2, <1>5, <2>1
<1> QED
  BY <1>1, <1>2, <1>5, <1>6, <1>7

\* What is printed is the line, or begins with it.
ShowsLine(s) ==
  IF Ended(s.asked)
  THEN /\ Len(s.text) >= StrLen(s.asked)
       /\ \A i \in 1 .. Len(s.text) : i <= Len(s.asked) /\ s.text[i] = s.asked[i]
  ELSE Begins(s.text, s.asked)

LEMMA PrintedIs ==
  ASSUME NEW old \in Buffer, NEW m \in Datagram, NEW program
  PROVE  LET s == Printed(program, m, AfterRecv(program, old, m.data)) IN
         /\ s \in Shown /\ s # <<>> /\ s.line = m.line
         /\ /\ program \notin {"udp-8-server", "udp-8-client"} /\ Plain(m.asked)
            /\ Ended(m.asked) => m.data = m.asked
            /\ Begins(m.data, m.asked)
            => ShowsLine(s)
<1> DEFINE b == AfterRecv(program, old, m.data)
           s == Printed(program, m, b)
<1>1. m.line \in Line /\ m.asked \in Seq(Cell) /\ m.data \in Seq(Cell)
  BY DEF Datagram
<1>2. b \in Buffer
  BY <1>1, ReceivedIs
<1>a. ASSUME program # "udp-8-server", ~Ended(m.asked), Begins(m.data, m.asked)
      PROVE  Begins(Text(b), m.asked)
  BY <1>1, <1>a, TextBegins
<1>3. ASSUME program \notin {"udp-8-server", "udp-8-client"}, Plain(m.asked), Ended(m.asked),
             m.data = m.asked
      PROVE  /\ Len(m.data) \in 1 .. Size /\ StrLen(m.data) = Len(m.data) - 1
             /\ StrLen(b) = Len(m.data) - 1 /\ \A i \in 1 .. Len(m.data) : b[i] = m.data[i]
  BY <1>1, <1>3, LineReceived
<1> HIDE DEF b
<1>4. b \in Seq(Cell) /\ Len(b) = Size /\ StrLen(b) \in 0 .. Size
  <2>1. b \in Seq(Cell) /\ Len(b) = Size
    BY <1>2, BufferSeq
  <2> QED
    BY <2>1, StrLenMeans
<1>5. /\ Text(b) \in Seq(Cell) /\ Len(Text(b)) = StrLen(b)
      /\ \A i \in 1 .. StrLen(b) : Text(b)[i] = b[i]
  BY <1>4, BufferAssumption DEF Text
<1>6. <<>> \in Seq(Cell)
  BY EmptySeq
<1>7. /\ s.line = m.line /\ s.asked = m.asked
      /\ s.text \in {m.data, <<>>, Text(b)} /\ s \in Shown
      /\ s.text = <<>> => s.text \in {m.data, Text(b)} \/ program \in {"udp-8-client", "udp-8-server"}
  BY <1>1, <1>5, <1>6 DEF Printed, Shown
<1>8. s # <<>>
  BY <1>7 DEF Printed
<1>9. ASSUME program \notin {"udp-8-server", "udp-8-client"}, Plain(m.asked),
             Ended(m.asked) => m.data = m.asked, Begins(m.data, m.asked)
      PROVE  ShowsLine(s)
  <2>a. CASE ~Ended(m.asked)
    <3>1. s.text = m.data \/ s.text = Text(b)
      BY <1>7, <1>9
    <3> HIDE DEF s
    <3> QED
      BY <1>7, <1>9, <1>a, <2>a, <3>1 DEF ShowsLine
  <2> SUFFICES ASSUME Ended(m.asked)
               PROVE  /\ Len(s.text) >= StrLen(m.asked)
                      /\ \A i \in 1 .. Len(s.text) : i <= Len(m.asked) /\ s.text[i] = m.asked[i]
    BY <1>7, <2>a DEF ShowsLine
  <2>1. /\ Len(m.asked) \in 1 .. Size /\ StrLen(m.asked) = Len(m.asked) - 1
        /\ StrLen(b) = Len(m.asked) - 1 /\ \A i \in 1 .. Len(m.asked) : b[i] = m.asked[i]
    BY <1>3, <1>9
  <2>2. s.text = m.asked \/ s.text = Text(b)
    BY <1>7, <1>9
  <2> HIDE DEF s
  <2>3. CASE s.text = m.asked
    BY <2>1, <2>3, BufferAssumption
  <2>4. CASE s.text = Text(b)
    BY <1>5, <2>1, <2>4, BufferAssumption
  <2> QED
    BY <2>2, <2>3, <2>4
<1> QED
  BY <1>7, <1>8, <1>9 DEF s, b


-----------------------------------------------------------------------------
(* The types.                                                              *)

LEMMA LeavesType ==
  ASSUME TypeOK, NEW c \in Clients, Leaves(c)
  PROVE  /\ lost' \subseteq Clients
         /\ cpc' \in [Clients -> {"start", "option", "input", "wait", "done"}]
         /\ nsent' \in [Clients -> 0 .. MaxLines]
         /\ reuse' \subseteq bound' /\ bound' \subseteq Clients
         /\ buffer' \in [Peers -> Buffer] /\ input' \in [Clients -> Buffer]
         /\ shown' \in [Peers -> Shown \cup {<<>>}]
         /\ UNCHANGED <<server, kind, running, strays>>
<1>1. c \in Peers /\ Fresh \in Buffer /\ 0 \in 0 .. MaxLines
  BY FreshType, PairsAssumption DEF Peers
<1>2. buffer \in [Peers -> Buffer] /\ input \in [Clients -> Buffer]
  BY DEF TypeOK, Buffer
<1>3. buffer' \in [Peers -> Buffer] /\ input' \in [Clients -> Buffer]
  BY <1>1, <1>2 DEF Leaves
<1> QED
  BY <1>1, <1>3 DEF Leaves, Goto, TypeOK, fixed

LEMMA TypeStep ==
  ASSUME IInv, [Next]_vars
  PROVE  TypeOK'
<1> USE DEF IInv
<1> DEFINE Types == /\ running' \in BOOLEAN
                    /\ net' \subseteq Datagram /\ lost' \subseteq Clients /\ strays' \in 0 .. MaxStrays
                    /\ cpc' \in [Clients -> {"start", "option", "input", "wait", "done"}]
                    /\ nsent' \in [Clients -> 0 .. MaxLines]
                    /\ reuse' \subseteq bound' /\ bound' \subseteq Clients /\ killed' \subseteq Clients
                    /\ buffer' \in [Peers -> Buffer]
                    /\ input' \in [Clients -> Buffer]
                    /\ shown' \in [Peers -> Shown \cup {<<>>}]
<1>1. buffer \in [Peers -> Buffer] /\ input \in [Clients -> Buffer]
  BY DEF TypeOK, Buffer
<1>2. \A c \in Clients : c \in Peers
  BY DEF Peers
<1>a. UNCHANGED fixed
  <2>1. ASSUME NEW c \in Clients, ClientNext(c) PROVE UNCHANGED fixed
    BY <2>1 DEF ClientNext, Bind, BindFails, SetOption, ConnectRaises, Send, Waits, Receive, Refused,
                Quit, Interrupted, Leaves
  <2>2. ASSUME NEW h \in Hosts, Turn(h) PROVE UNCHANGED fixed
    BY <2>2 DEF Turn
  <2> QED
    BY <2>1, <2>2 DEF Next, Stop, Lose, Stray, AtRest, vars
<1>3. ASSUME NEW c \in Clients, ClientNext(c) PROVE Types
  <2>1. CASE Bind(c)
    BY <1>1, <2>1 DEF Bind, Goto, TypeOK, netVars, buffers
  <2>2. CASE BindFails(c)
    BY <1>1, <2>2 DEF BindFails, Goto, TypeOK, netVars, buffers, portVars
  <2>3. CASE SetOption(c)
    <3>1. c \in bound
      BY <2>3 DEF SetOption, PortInv, At, Bound, Contenders, Broadcasts
    <3> QED
      BY <1>1, <2>3, <3>1 DEF SetOption, Goto, TypeOK, netVars, buffers
  <2>4. CASE Leaves(c) /\ net' \subseteq net /\ killed' \subseteq killed \cup {c}
    BY <2>4, LeavesType DEF TypeOK
  <2>5. CASE Send(c)
    <3>1. PICK k \in Lengths :
            LET l == nsent[c] + 1
                data == Outgoing(c, LineOf(c, l, k)) IN
            /\ net' = net \cup {[from |-> c, to |-> h, line |-> <<c, l>>,
                                 asked |-> data, data |-> data] : h \in Hosts}
            /\ input' = IF kind[c] = "udp-8-client"
                        THEN [input EXCEPT ![c] = Typed(c, LineOf(c, l, k))] ELSE input
      BY <2>5 DEF Send
    <3> DEFINE l == nsent[c] + 1
               data == Outgoing(c, LineOf(c, l, k))
               t == Typed(c, LineOf(c, l, k))
    <3>2. l \in Nat /\ k \in Nat /\ l \in 0 .. MaxLines
      BY <2>5, PairsAssumption DEF TypeOK, Send
    <3>3. data \in Seq(Cell) /\ t \in Buffer
      BY <3>2, OutgoingIs
    <3> HIDE DEF data, t
    <3>4. net' = net \cup {[from |-> c, to |-> h, line |-> <<c, l>>,
                            asked |-> data, data |-> data] : h \in Hosts}
      BY <3>1 DEF data
    <3>5. \A h \in Hosts : [from |-> c, to |-> h, line |-> <<c, l>>,
                            asked |-> data, data |-> data] \in Datagram
      BY <1>2, <3>2, <3>3, HostFacts DEF Datagram, Line
    <3>6. net' \subseteq Datagram
      BY <3>4, <3>5 DEF TypeOK
    <3>7. input' = [input EXCEPT ![c] = t] \/ input' = input
      BY <3>1 DEF t
    <3>8. input' \in [Clients -> Buffer]
      BY <1>1, <3>3, <3>7
    <3>9. nsent' \in [Clients -> 0 .. MaxLines]
      BY <2>5, <3>2 DEF Send, TypeOK
    <3> QED
      BY <1>1, <2>5, <3>6, <3>8, <3>9 DEF Send, Goto, TypeOK, portVars
  <2>6. CASE Receive(c)
    <3>1. PICK m \in net :
            LET b == AfterRecv(kind[c], buffer[c], m.data) IN
            /\ net' = net \ {m}
            /\ buffer' = [buffer EXCEPT ![c] = b]
            /\ shown' = [shown EXCEPT ![c] = Printed(kind[c], m, b)]
      BY <2>6 DEF Receive
    <3> DEFINE b == AfterRecv(kind[c], buffer[c], m.data)
               s == Printed(kind[c], m, b)
    <3>2. buffer[c] \in Buffer /\ m \in Datagram /\ m.data \in Seq(Cell)
      BY <1>1, <1>2 DEF TypeOK, Datagram
    <3>3. b \in Buffer /\ s \in Shown
      BY <3>2, ReceivedIs, PrintedIs
    <3>4. buffer' = [buffer EXCEPT ![c] = b] /\ shown' = [shown EXCEPT ![c] = s]
      BY <3>1
    <3> HIDE DEF b, s
    <3>5. buffer' \in [Peers -> Buffer] /\ shown' \in [Peers -> Shown \cup {<<>>}]
      BY <1>1, <1>2, <3>3, <3>4 DEF TypeOK
    <3> QED
      BY <1>1, <2>6, <3>1, <3>5 DEF Receive, Goto, TypeOK, portVars
  <2>7. CASE ConnectRaises(c) \/ Refused(c) \/ Quit(c) \/ Interrupted(c)
    BY <2>4, <2>7 DEF ConnectRaises, Refused, Quit, Interrupted
  <2> QED
    BY <1>3, <2>1, <2>2, <2>3, <2>5, <2>6, <2>7 DEF ClientNext, Waits
<1>4. ASSUME NEW h \in Hosts, Turn(h) PROVE Types
  <2>1. PICK m \in net :
          LET b == AfterRecv(server, buffer[h], m.data) IN
          /\ m.to = h
          /\ buffer' = [buffer EXCEPT ![h] = b]
          /\ shown' = [shown EXCEPT ![h] = Printed(server, m, b)]
          /\ IF Answered(m.data) THEN Returns(h, m, Answer(b, m.data))
                          ELSE net' = net \ {m} /\ UNCHANGED lost
    BY <1>4 DEF Turn
  <2> DEFINE b == AfterRecv(server, buffer[h], m.data)
             s == Printed(server, m, b)
             a == Answer(b, m.data)
  <2>2. h \in Peers /\ buffer[h] \in Buffer /\ m \in Datagram /\ m.data \in Seq(Cell)
    BY <1>1, HostFacts DEF TypeOK, Datagram
  <2>3. b \in Buffer /\ s \in Shown /\ a \in Seq(Cell)
    BY <2>2, ReceivedIs, PrintedIs, AnswerType
  <2>4. /\ buffer' = [buffer EXCEPT ![h] = b] /\ shown' = [shown EXCEPT ![h] = s]
        /\ Returns(h, m, a) \/ (net' = net \ {m} /\ UNCHANGED lost)
    BY <2>1
  <2> HIDE DEF b, s, a
  <2>5. buffer' \in [Peers -> Buffer] /\ shown' \in [Peers -> Shown \cup {<<>>}]
    BY <1>1, <2>2, <2>3, <2>4 DEF TypeOK
  <2>6. net' \subseteq Datagram /\ lost' \subseteq Clients
    <3>1. Waiting(m) \subseteq Clients
      BY DEF Waiting
    <3>2. CASE Returns(h, m, a)
      <4>1. ASSUME NEW x \in Sockets(m.from),
                   net' = (net \ {m}) \cup {[m EXCEPT !.from = h, !.to = x, !.data = a]}
            PROVE  net' \subseteq Datagram
        <5>1. x \in Peers \/ x = Stranger
          BY <2>2, <1>2 DEF Sockets, TypeOK, Datagram
        <5>2. m.from \in Clients
          BY <2>1, HostFacts DEF RouteInv, Request, FromStranger, Reply
        <5>3. x \in Peers
          BY <1>2, <5>2 DEF Sockets, TypeOK
        <5>4. [m EXCEPT !.from = h, !.to = x, !.data = a] \in Datagram
          BY <2>2, <2>3, <5>3 DEF Datagram
        <5> QED
          BY <4>1, <5>4 DEF TypeOK
      <4> QED
        BY <3>1, <3>2, <4>1 DEF Returns, TypeOK
    <3>3. CASE net' = net \ {m} /\ UNCHANGED lost
      BY <3>3 DEF TypeOK
    <3> QED
      BY <2>4, <3>2, <3>3
  <2> QED
    BY <1>1, <1>4, <2>5, <2>6 DEF Turn, TypeOK, portVars
<1>5. ASSUME Stop PROVE Types
  <2>1. buffer' \in [Peers -> Buffer] /\ shown' \in [Peers -> Shown \cup {<<>>}]
    BY <1>1, <1>5, FreshType DEF Stop, TypeOK
  <2> QED
    BY <1>1, <1>5, <2>1 DEF Stop, TypeOK, netVars, portVars
<1>6. ASSUME Lose PROVE Types
  BY <1>1, <1>6 DEF Lose, Waiting, TypeOK, portVars, buffers
<1>7. ASSUME Stray PROVE Types
  <2>1. PICK c \in Clients :
          LET data == CString(LineOf(Stranger, strays + 1, 1)) IN
          net' = net \cup {[from |-> Stranger, to |-> c, line |-> <<Stranger, strays + 1>>,
                            asked |-> data, data |-> data]}
    BY <1>7 DEF Stray
  <2> DEFINE data == CString(LineOf(Stranger, strays + 1, 1))
  <2>2. strays + 1 \in Nat /\ strays + 1 \in 0 .. MaxStrays
    BY <1>7, PairsAssumption DEF Stray, TypeOK
  <2>3. data \in Seq(Cell)
    BY <2>2, CStringIs
  <2> HIDE DEF data
  <2>4. [from |-> Stranger, to |-> c, line |-> <<Stranger, strays + 1>>,
         asked |-> data, data |-> data] \in Datagram
    BY <1>2, <2>2, <2>3 DEF Datagram, Line
  <2>5. net' \subseteq Datagram
    BY <2>1, <2>4 DEF TypeOK, data
  <2> QED
    BY <1>1, <1>7, <2>2, <2>5 DEF Stray, TypeOK, portVars, buffers
<1>8. ASSUME UNCHANGED vars PROVE Types
  BY <1>1, <1>8 DEF vars, netVars, portVars, buffers, TypeOK
<1>9. Types
  <2> HIDE DEF IInv, Types
  <2> QED
    BY <1>3, <1>4, <1>5, <1>6, <1>7, <1>8 DEF Next, AtRest
<1> HIDE DEF IInv
<1> QED
  BY <1>9, <1>a DEF Types, TypeOK, IInv, fixed, Buffer

-----------------------------------------------------------------------------
(* Which programs run, and who has the port.                               *)

\* What a step does to the clients: nothing, unless it is one of theirs.
LEMMA WhoMoves ==
  ASSUME [Next]_vars
  PROVE  /\ UNCHANGED fixed
         /\ \/ \E c \in Clients : ClientNext(c)
            \/ UNCHANGED <<cpc, nsent, portVars>>
<1>1. ASSUME NEW c \in Clients, ClientNext(c) PROVE UNCHANGED fixed
  BY <1>1 DEF ClientNext, Bind, BindFails, SetOption, ConnectRaises, Send, Waits, Receive, Refused,
              Quit, Interrupted, Leaves
<1>2. ASSUME NEW h \in Hosts, Turn(h) PROVE UNCHANGED <<fixed, cpc, nsent, portVars>>
  BY <1>2 DEF Turn
<1>3. Stop \/ Lose \/ Stray \/ AtRest \/ UNCHANGED vars => UNCHANGED <<fixed, cpc, nsent, portVars>>
  BY DEF Stop, Lose, Stray, AtRest, vars
<1> QED
  BY <1>1, <1>2, <1>3, Zenon DEF Next, fixed

LEMMA KindStep ==
  ASSUME IInv, [Next]_vars
  PROVE  KindInv'
  BY WhoMoves DEF IInv, KindInv, fixed

\* What a client's own step does to it, and that it does it to no other.
LEMMA Moves ==
  ASSUME IInv, NEW c \in Clients, ClientNext(c)
  PROVE  /\ \A d \in Clients \ {c} :
              /\ cpc'[d] = cpc[d] /\ nsent'[d] = nsent[d]
              /\ d \in bound' <=> d \in bound
              /\ d \in reuse' <=> d \in reuse
              /\ d \in killed' <=> d \in killed
         /\ \/ Bind(c) /\ c \in bound' /\ cpc'[c] \in {"option", "input"}
            \/ Send(c) /\ cpc'[c] = IF kind[c] \in Senders THEN "input" ELSE "wait"
            \/ Receive(c) /\ cpc'[c] = "input"
            \/ SetOption(c) /\ cpc'[c] = "input"
            \/ cpc'[c] = "done" /\ c \notin bound' /\ c \notin reuse'
         /\ nsent'[c] = nsent[c] \/ Send(c) \/ cpc'[c] = "done"
         /\ nsent'[c] = nsent[c] + 1 \/ ~Send(c)
         /\ ~Bind(c) => bound' \subseteq bound
         /\ cpc[c] # "done"
         /\ c \in killed' => cpc'[c] = "done"
<1> USE DEF portVars
<1>1. /\ cpc \in [Clients -> {"start", "option", "input", "wait", "done"}]
      /\ nsent \in [Clients -> 0 .. MaxLines]
      /\ c \in killed => cpc[c] = "done"
      /\ c \in reuse => c \in bound
      /\ c \in bound => cpc[c] \in {"option", "input", "wait"}
  BY DEF IInv, TypeOK, PortInv, At
<1>2. CASE Bind(c)
  BY <1>1, <1>2 DEF Bind, Goto, At, Send
<1>3. CASE BindFails(c)
  BY <1>1, <1>3 DEF BindFails, Goto, At, Send, Bind
<1>4. CASE SetOption(c)
  BY <1>1, <1>4 DEF SetOption, Goto, At, Send, Bind
<1>5. CASE Send(c)
  BY <1>1, <1>5 DEF Goto, At, Send, Bind
<1>6. CASE Receive(c)
  BY <1>1, <1>6 DEF Receive, Goto, At, Send, Bind
<1>7. CASE ConnectRaises(c) \/ Refused(c) \/ Quit(c) \/ Interrupted(c)
  <2>1. /\ Leaves(c) /\ cpc[c] # "done" /\ cpc[c] # "start"
        /\ killed' \subseteq killed \cup {c} /\ killed \subseteq killed'
    BY <1>7 DEF ConnectRaises, Refused, Quit, Interrupted, At
  <2>2. cpc'[c] = "done" /\ nsent'[c] = 0
    BY <1>1, <2>1 DEF Leaves, Goto
  <2>3. ~Send(c)
    BY <1>1, <2>2 DEF Send, Goto
  <2> QED
    BY <1>1, <2>1, <2>2, <2>3 DEF Leaves, Goto, Bind, At
<1> QED
  BY <1>2, <1>3, <1>4, <1>5, <1>6, <1>7 DEF ClientNext, Waits

LEMMA PortStep ==
  ASSUME IInv, [Next]_vars
  PROVE  PortInv'
<1> USE DEF At
<1>1. kind' = kind
  BY WhoMoves DEF fixed
<1>2. PortInv /\ bound \subseteq Clients /\ bound' \subseteq Clients
  BY TypeStep DEF IInv, TypeOK
<1>3. CASE UNCHANGED <<cpc, nsent, portVars>>
  BY <1>1, <1>2, <1>3 DEF PortInv, portVars, MayShare
<1>4. ASSUME NEW c \in Clients, ClientNext(c)
      PROVE  PortInv'
  <2>1. /\ \A d \in Clients \ {c} :
             /\ cpc'[d] = cpc[d] /\ nsent'[d] = nsent[d]
             /\ d \in bound' <=> d \in bound
             /\ d \in reuse' <=> d \in reuse
             /\ d \in killed' <=> d \in killed
        /\ \/ Bind(c) /\ c \in bound' /\ cpc'[c] \in {"option", "input"}
           \/ Send(c) /\ cpc'[c] = IF kind[c] \in Senders THEN "input" ELSE "wait"
           \/ Receive(c) /\ cpc'[c] = "input"
           \/ SetOption(c) /\ cpc'[c] = "input"
           \/ cpc'[c] = "done" /\ c \notin bound' /\ c \notin reuse'
        /\ ~Bind(c) => bound' \subseteq bound
        /\ c \in killed' => cpc'[c] = "done"
    BY <1>4, Moves
  <2>2. \A d \in Clients \ {c} :
          /\ d \in bound' <=> kind[d] \in Bound /\ cpc'[d] \in {"option", "input", "wait"}
          /\ cpc'[d] = "start" => kind[d] \in Bound
          /\ cpc'[d] \in {"start", "option"} => nsent'[d] = 0
          /\ cpc'[d] = "option" => kind[d] \in {"udp-6-client.py", "udp-7-client.py"}
          /\ d \in reuse' => kind[d] \in OptionFirst \cup {"udp-6-client.py"}
          /\ d \in killed' => cpc'[d] = "done"
    BY <1>2, <2>1 DEF PortInv
  <2>3. /\ c \in bound' <=> kind[c] \in Bound /\ cpc'[c] \in {"option", "input", "wait"}
        /\ cpc'[c] # "start" /\ (cpc'[c] = "option" => nsent'[c] = 0)
        /\ cpc'[c] = "option" => kind[c] \in {"udp-6-client.py", "udp-7-client.py"}
        /\ c \in reuse' => kind[c] \in OptionFirst \cup {"udp-6-client.py"}
    <3>1. cpc \in [Clients -> {"start", "option", "input", "wait", "done"}]
      BY DEF IInv, TypeOK
    <3>2. CASE Bind(c)
      BY <1>2, <2>1, <3>1, <3>2 DEF Bind, Goto, PortInv
    <3>3. CASE Send(c)
      BY <1>2, <2>1, <3>1, <3>3 DEF Send, Goto, PortInv, portVars, Bound, Senders, Contenders, Broadcasts
    <3>4. CASE Receive(c)
      BY <1>2, <2>1, <3>1, <3>4 DEF Receive, Goto, PortInv, portVars
    <3>5. CASE SetOption(c)
      BY <1>2, <2>1, <3>1, <3>5 DEF SetOption, Goto, PortInv, portVars, Bound, Contenders, Broadcasts
    <3> QED
      BY <2>1, <3>2, <3>3, <3>4, <3>5
  <2>4. \A d, e \in bound' : d # e => MayShare(d, e)' /\ {d, e} \subseteq reuse'
    <3>1. \A d, e \in bound : d # e => MayShare(d, e)' /\ {d, e} \subseteq reuse
      BY <1>1, <1>2 DEF PortInv, MayShare
    <3>2. ASSUME Bind(c), NEW d \in bound
          PROVE  MayShare(c, d)' /\ MayShare(d, c)' /\ {c, d} \subseteq reuse'
      <4>1. d \in reuse /\ kind[c] \in OptionFirst /\ c \in reuse' /\ reuse \subseteq reuse'
        BY <3>2 DEF Bind, CanBind
      <4>2. kind[d] \in OptionFirst \cup {"udp-6-client.py"}
        BY <1>2, <4>1 DEF PortInv
      <4> QED
        BY <1>1, <4>1, <4>2 DEF MayShare
    <3>3. CASE Bind(c)
      <4>1. bound' = bound \cup {c} /\ reuse \subseteq reuse'
        BY <3>3 DEF Bind
      <4> QED
        BY <3>1, <3>2, <3>3, <4>1
    <3>4. CASE ~Bind(c)
      <4>1. bound' \subseteq bound /\ \A d \in bound' \cap reuse : d \in reuse'
        <5>1. SetOption(c) \/ Send(c) \/ Receive(c) => reuse \subseteq reuse'
          BY DEF SetOption, Send, Receive, portVars
        <5> QED
          BY <1>2, <2>1, <3>4, <5>1
      <4> QED
        BY <3>1, <4>1
    <3> QED
      BY <3>3, <3>4
  <2> QED
    BY <1>1, <2>1, <2>2, <2>3, <2>4 DEF PortInv
<1> QED
  BY <1>3, <1>4, WhoMoves

-----------------------------------------------------------------------------
(* The datagrams.                                                          *)

\* A datagram is sent, is returned, comes from the stranger; or some go.
SentBy(c, data) ==
  /\ Send(c) /\ data \in Seq(Cell)
  /\ IF kind[c] = "udp-8-client" THEN Len(data) <= Size ELSE Plain(data)
  /\ net' = net \cup {[from |-> c, to |-> h, line |-> <<c, nsent[c] + 1>>,
                       asked |-> data, data |-> data] : h \in Hosts}
  /\ strays' = strays

ReturnedAs(m, r) ==
  /\ UNCHANGED <<cpc, nsent, portVars, strays>>
  /\ Request(m) /\ Hosts = {Server}
  /\ r.from = Server /\ r.to \in Sockets(m.from) /\ r.line = m.line /\ r.asked = m.asked
  /\ net' = (net \ {m}) \cup {r}
  /\ \/ r.data = r.asked
     \/ Len(r.asked) >= Size /\ ~Ended(r.asked)
     \/ server = "udp-server" /\ ~Ended(r.asked)
  /\ Begins(r.data, r.asked)

Strayed(r) ==
  /\ UNCHANGED <<cpc, nsent, portVars>>
  /\ strays' = strays + 1
  /\ r.from = Stranger /\ r.to \in Clients /\ r.line[1] = Stranger
  /\ Plain(r.asked) /\ r.data = r.asked
  /\ net' = net \cup {r}

Went == net' \subseteq net /\ strays' = strays

LEMMA RequestIs ==
  ASSUME IInv, NEW m \in net, m.to \in Hosts
  PROVE  /\ Request(m)
         /\ IF server = "udp-8-server" THEN Len(m.data) <= Size ELSE Plain(m.data)
  BY HostFacts DEF IInv, RouteInv, AskedInv, Request, FromStranger, Reply

LEMMA TurnStep ==
  ASSUME IInv, NEW h \in Hosts, Turn(h)
  PROVE  Went \/ \E m, r \in net \cup net' : m \in net /\ ReturnedAs(m, r)
<1>1. PICK m \in net :
        LET b == AfterRecv(server, buffer[h], m.data) IN
        /\ m.to = h
        /\ IF Answered(m.data) THEN Returns(h, m, Answer(b, m.data))
                        ELSE net' = net \ {m} /\ UNCHANGED lost
  BY DEF Turn
<1> DEFINE b == AfterRecv(server, buffer[h], m.data)
           a == Answer(b, m.data)
<1>2. Request(m) /\ IF server = "udp-8-server" THEN Len(m.data) <= Size ELSE Plain(m.data)
  BY <1>1, RequestIs
<1>3. h \in Peers /\ buffer[h] \in Buffer /\ m \in Datagram /\ m.data \in Seq(Cell)
  BY HostFacts DEF IInv, TypeOK, Datagram, Buffer
<1>4. \/ a = m.data
      \/ Len(m.data) >= Size /\ ~Ended(m.data)
      \/ server = "udp-server" /\ ~Ended(m.data)
  BY <1>2, <1>3, AnswerCarries
<1>a. Begins(a, m.data)
  BY <1>2, <1>3, AnswerBegins
<1>5. \/ net' = net \ {m}
      \/ /\ server # "mcast-recv"
         /\ \E s \in Sockets(m.from) :
              net' = (net \ {m}) \cup {[m EXCEPT !.from = h, !.to = s, !.data = a]}
  BY <1>1 DEF Returns, Answered
<1> HIDE DEF b, a
<1>6. strays' = strays /\ UNCHANGED <<cpc, nsent, portVars>>
  BY DEF Turn
<1>7. ASSUME server # "mcast-recv", NEW s \in Sockets(m.from),
             net' = (net \ {m}) \cup {[m EXCEPT !.from = h, !.to = s, !.data = a]}
      PROVE  \E r \in net' : ReturnedAs(m, r)
  <2> DEFINE r == [m EXCEPT !.from = h, !.to = s, !.data = a]
  <2>1. /\ r.from = h /\ r.to = s /\ r.data = a
        /\ r.line = m.line /\ r.asked = m.asked
    BY <1>3 DEF Datagram
  <2>2. r \in net' /\ net' = (net \ {m}) \cup {r}
    BY <1>7
  <2> HIDE DEF r
  <2>3. h = Server /\ Hosts = {Server} /\ m.data = m.asked
    BY <1>2, <1>7, HostFacts DEF Request
  <2>4. ReturnedAs(m, r)
    BY <1>2, <1>4, <1>a, <1>6, <1>7, <2>1, <2>2, <2>3 DEF ReturnedAs
  <2> QED
    BY <2>2, <2>4
<1> QED
  BY <1>5, <1>6, <1>7 DEF Went

LEMMA SendStep ==
  ASSUME IInv, NEW c \in Clients, Send(c)
  PROVE  \E data \in Seq(Cell) : SentBy(c, data)
<1>1. PICK k \in Lengths :
        LET l == nsent[c] + 1
            data == Outgoing(c, LineOf(c, l, k)) IN
        net' = net \cup {[from |-> c, to |-> h, line |-> <<c, l>>,
                          asked |-> data, data |-> data] : h \in Hosts}
  BY DEF Send
<1> DEFINE data == Outgoing(c, LineOf(c, nsent[c] + 1, k))
<1>2. nsent[c] + 1 \in Nat /\ k \in Nat /\ TypeOK
  BY PairsAssumption DEF IInv, TypeOK
<1>3. data \in Seq(Cell) /\ IF kind[c] = "udp-8-client" THEN Len(data) <= Size ELSE Plain(data)
  BY <1>2, OutgoingIs
<1>4. net' = net \cup {[from |-> c, to |-> h, line |-> <<c, nsent[c] + 1>>,
                        asked |-> data, data |-> data] : h \in Hosts}
  BY <1>1
<1> HIDE DEF data
<1>5. strays' = strays
  BY DEF Send
<1> QED
  BY <1>3, <1>4, <1>5 DEF SentBy

LEMMA StrayStep ==
  ASSUME IInv, Stray
  PROVE  \E r \in net' : Strayed(r)
<1>1. PICK c \in Clients :
        LET data == CString(LineOf(Stranger, strays + 1, 1)) IN
        net' = net \cup {[from |-> Stranger, to |-> c, line |-> <<Stranger, strays + 1>>,
                          asked |-> data, data |-> data]}
  BY DEF Stray
<1> DEFINE data == CString(LineOf(Stranger, strays + 1, 1))
           r == [from |-> Stranger, to |-> c, line |-> <<Stranger, strays + 1>>,
                 asked |-> data, data |-> data]
<1>2. strays + 1 \in Nat
  BY PairsAssumption DEF IInv, TypeOK
<1>3. Plain(data)
  BY <1>2, CStringIs
<1>4. net' = net \cup {r} /\ strays' = strays + 1 /\ UNCHANGED <<cpc, nsent, portVars>>
  BY <1>1 DEF Stray
<1>5. /\ r.from = Stranger /\ r.to = c /\ r.line = <<Stranger, strays + 1>>
      /\ r.asked = data /\ r.data = data
  OBVIOUS
<1> HIDE DEF data, r
<1>6. Strayed(r)
  BY <1>3, <1>4, <1>5 DEF Strayed
<1> QED
  BY <1>4, <1>6

\* What a step does to the datagrams.
LEMMA NetStep ==
  ASSUME IInv, [Next]_vars
  PROVE  \/ Went
         \/ \E c \in Clients : \E data \in Seq(Cell) : SentBy(c, data)
         \/ \E m, r \in net \cup net' : m \in net /\ ReturnedAs(m, r)
         \/ \E r \in net' : Strayed(r)
<1>1. ASSUME NEW c \in Clients, ClientNext(c), ~Send(c) PROVE Went
  BY <1>1 DEF ClientNext, Bind, BindFails, SetOption, ConnectRaises, Waits, Receive, Refused,
              Quit, Interrupted, Leaves, netVars, Went
<1>2. Stop \/ Lose \/ AtRest \/ UNCHANGED vars => Went
  BY DEF Stop, Lose, AtRest, vars, netVars, Went
<1> QED
  BY <1>1, <1>2, TurnStep, SendStep, StrayStep DEF Next

\* Where a datagram goes, and what it carries.
LEMMA RouteStep ==
  ASSUME IInv, [Next]_vars
  PROVE  RouteInv' /\ AskedInv' /\ RepliesCarryTheLine'
<1>1. server' = server /\ kind' = kind /\ Hosts' = Hosts
  BY WhoMoves DEF fixed, Hosts
<1>2. strays \in Nat
  BY DEF IInv, TypeOK
<1> DEFINE Fits(m) == IF server = "udp-8-server" THEN Request(m) => Len(m.asked) <= Size
                      ELSE Plain(m.asked)
           Carries(m) == m.from \in Hosts =>
                           /\ Begins(m.data, m.asked)
                           /\ \/ m.data = m.asked
                              \/ Len(m.asked) >= Size /\ ~Ended(m.asked)
                              \/ server = "udp-server" /\ ~Ended(m.asked)
           Good(m) == (Request(m) \/ FromStranger(m)' \/ Reply(m)) /\ Fits(m) /\ Carries(m)
<1>3. ASSUME \A m \in net' : Good(m) PROVE RouteInv' /\ AskedInv' /\ RepliesCarryTheLine'
  BY <1>1, <1>3 DEF RouteInv, AskedInv, RepliesCarryTheLine, Request, FromStranger, Reply
<1>4. strays' \in Nat /\ strays' >= strays => \A m \in net : Good(m)
  BY <1>2 DEF IInv, RouteInv, AskedInv, RepliesCarryTheLine, FromStranger
<1>5. CASE Went
  BY <1>2, <1>3, <1>4, <1>5 DEF Went
<1>6. ASSUME NEW c \in Clients, NEW data \in Seq(Cell), SentBy(c, data)
      PROVE  \A m \in net' : Good(m)
  <2>0. \A m \in net : Good(m)
    BY <1>2, <1>4, <1>6 DEF SentBy
  <2> HIDE DEF Good
  <2> SUFFICES ASSUME NEW h \in Hosts
               PROVE  Good([from |-> c, to |-> h, line |-> <<c, nsent[c] + 1>>,
                            asked |-> data, data |-> data])
    BY <2>0, <1>6 DEF SentBy
  <2> DEFINE m == [from |-> c, to |-> h, line |-> <<c, nsent[c] + 1>>,
                   asked |-> data, data |-> data]
  <2>1. m.from = c /\ m.to = h /\ m.line[1] = c /\ m.asked = data /\ m.data = data
    OBVIOUS
  <2> HIDE DEF m
  <2>2. Request(m) /\ m.from \notin Hosts
    BY <2>1, HostFacts DEF Request
  <2>3. server = "udp-8-server" <=> kind[c] = "udp-8-client"
    BY KindFacts DEF IInv
  <2> QED
    BY <1>6, <2>1, <2>2, <2>3 DEF SentBy, Good, m
<1>7. ASSUME NEW m \in net, NEW r \in net \cup net', ReturnedAs(m, r)
      PROVE  \A n \in net' : Good(n)
  <2>1. Request(m) /\ Fits(m)
    BY <1>7 DEF ReturnedAs, IInv, AskedInv
  <2>2. m.from \in Clients /\ m.line[1] = m.from
    BY <2>1 DEF Request
  <2>3. /\ r.to \in Clients
        /\ r.to = m.from \/ {kind[r.to], kind[m.from]} \subseteq Bound
    BY <1>7, <2>2 DEF ReturnedAs, Sockets, IInv, TypeOK, PortInv
  <2>4. Reply(r) /\ ~Request(r)
    BY <1>7, <2>2, <2>3, HostFacts DEF ReturnedAs, Reply, Request
  <2>5. Fits(r) /\ Carries(r)
    BY <1>7, <2>1, <2>4 DEF ReturnedAs
  <2> QED
    BY <1>2, <1>4, <1>7, <2>4, <2>5 DEF ReturnedAs
<1>8. ASSUME NEW r \in net', Strayed(r)
      PROVE  \A n \in net' : Good(n)
  <2>1. FromStranger(r)' /\ ~Request(r) /\ r.from \notin Hosts
    BY <1>2, <1>8, HostFacts DEF Strayed, FromStranger, Request
  <2> QED
    BY <1>2, <1>4, <1>8, <2>1 DEF Strayed
<1> QED
  BY <1>3, <1>5, <1>6, <1>7, <1>8, NetStep

\* A line of a client that waits is under way once.
LEMMA LineStep ==
  ASSUME IInv, [Next]_vars
  PROVE  LineInv'
<1> DEFINE Known(m) == m.line[1] \in Clients /\ cpc'[m.line[1]] # "done"
                         => m.line[2] <= nsent'[m.line[1]]
           Once(m, n) == m.line = n.line /\ m.line[1] \in Clients
                         /\ kind[m.line[1]] \notin Senders => m = n
<1>1. kind' = kind /\ LineInv /\ net \subseteq Datagram
  BY WhoMoves DEF fixed, IInv, TypeOK
<1>2. ASSUME \A m \in net' : Known(m), \A m, n \in net' : Once(m, n) PROVE LineInv'
  BY <1>1, <1>2 DEF LineInv, At
<1>3. \A m, n \in net : Once(m, n)
  BY <1>1 DEF LineInv
<1>4. /\ nsent \in [Clients -> 0 .. MaxLines] /\ MaxLines \in Nat
      /\ \A m \in net : m.line[2] \in Nat
  BY <1>1, PairsAssumption DEF IInv, TypeOK, Datagram, Line
<1>5. \A m \in net : Known(m)
  <2>1. CASE UNCHANGED <<cpc, nsent, portVars>>
    BY <1>1, <2>1 DEF LineInv, At
  <2>2. ASSUME NEW c \in Clients, ClientNext(c) PROVE \A m \in net : Known(m)
    <3>1. /\ \A d \in Clients \ {c} : cpc'[d] = cpc[d] /\ nsent'[d] = nsent[d]
          /\ nsent'[c] = nsent[c] \/ nsent'[c] = nsent[c] + 1 \/ cpc'[c] = "done"
          /\ cpc[c] # "done"
      BY <2>2, Moves
    <3> SUFFICES ASSUME NEW m \in net, m.line[1] \in Clients, cpc'[m.line[1]] # "done"
                 PROVE  m.line[2] <= nsent'[m.line[1]]
      OBVIOUS
    <3>2. cpc[m.line[1]] # "done"
      BY <3>1
    <3>3. m.line[2] <= nsent[m.line[1]]
      BY <1>1, <3>2 DEF LineInv, At
    <3>4. nsent[m.line[1]] \in Nat /\ nsent'[m.line[1]] \in {nsent[m.line[1]], nsent[m.line[1]] + 1}
      BY <1>4, <3>1
    <3> QED
      BY <1>4, <3>3, <3>4
  <2> QED
    BY <2>1, <2>2, WhoMoves
<1>6. CASE Went
  BY <1>2, <1>3, <1>5, <1>6 DEF Went
<1>7. ASSUME NEW c \in Clients, NEW data \in Seq(Cell), SentBy(c, data)
      PROVE  LineInv'
  <2>1. /\ cpc[c] # "done" /\ nsent'[c] = nsent[c] + 1
        /\ nsent[c] \in Nat
    BY <1>4, <1>7 DEF SentBy, Send, At
  <2> DEFINE s(h) == [from |-> c, to |-> h, line |-> <<c, nsent[c] + 1>>,
                      asked |-> data, data |-> data]
  <2>2. net' = net \cup {s(h) : h \in Hosts}
    BY <1>7 DEF SentBy
  <2>3. \A h \in Hosts : s(h).line = <<c, nsent[c] + 1>>
    OBVIOUS
  <2> HIDE DEF s
  <2>4. \A h \in Hosts : \A m \in net : m.line # s(h).line
    BY <1>1, <1>4, <2>1, <2>3 DEF LineInv, At
  <2>5. kind[c] \notin Senders => \A g, h \in Hosts : g = h
    <3>1. kind[c] \notin Senders => server # "mcast-recv"
      BY KindFacts DEF IInv
    <3> QED
      BY <3>1, HostFacts
  <2>6. \A h \in Hosts : Known(s(h))
    BY <2>1, <2>3
  <2>7. \A m, n \in net' : Once(m, n)
    BY <1>3, <2>2, <2>3, <2>4, <2>5
  <2> QED
    BY <1>2, <1>5, <2>2, <2>6, <2>7
<1>8. ASSUME NEW m \in net, NEW r \in net \cup net', ReturnedAs(m, r)
      PROVE  LineInv'
  <2>1. r.line = m.line /\ net' = (net \ {m}) \cup {r}
    BY <1>8 DEF ReturnedAs
  <2>2. \A n \in net : n # m => Once(r, n) /\ Once(n, r)
    BY <1>3, <2>1
  <2>3. \A n, p \in net' : Once(n, p)
    BY <1>3, <2>1, <2>2
  <2> QED
    BY <1>2, <1>5, <2>1, <2>3
<1>9. ASSUME NEW r \in net', Strayed(r)
      PROVE  LineInv'
  <2>1. r.line[1] \notin Clients /\ net' = net \cup {r}
    BY <1>9, HostFacts DEF Strayed
  <2> QED
    BY <1>2, <1>3, <1>5, <2>1
<1> QED
  BY <1>6, <1>7, <1>8, <1>9, NetStep

-----------------------------------------------------------------------------
(* The answers a port is waited for at.                                    *)

LEMMA CountLess ==
  ASSUME NEW P, NEW Q, IsFiniteSet(P), Q \subseteq P
  PROVE  IsFiniteSet(Q) /\ Cardinality(Q) <= Cardinality(P) /\ Cardinality(Q) \in Nat
         /\ Cardinality(P) \in Nat
  BY FS_Subset, FS_CardinalityType

LEMMA CountMore ==
  ASSUME NEW P, NEW x, IsFiniteSet(P)
  PROVE  /\ IsFiniteSet(P \cup {x}) /\ IsFiniteSet(P \ {x})
         /\ Cardinality(P) \in Nat
         /\ Cardinality(P \cup {x}) = Cardinality(P) + (IF x \in P THEN 0 ELSE 1)
         /\ Cardinality(P \ {x}) = Cardinality(P) - (IF x \in P THEN 1 ELSE 0)
<1>1. Cardinality(P) \in Nat
  BY FS_CardinalityType
<1>2. /\ IsFiniteSet(P \cup {x})
      /\ Cardinality(P \cup {x}) = IF x \in P THEN Cardinality(P) ELSE Cardinality(P) + 1
  BY FS_AddElement
<1>3. /\ IsFiniteSet(P \ {x})
      /\ Cardinality(P \ {x}) = IF x \in P THEN Cardinality(P) - 1 ELSE Cardinality(P)
  BY FS_RemoveElement
<1> QED
  BY <1>1, <1>2, <1>3

\* The answer that a client with the port takes is pending, and so is its
\* line that meets nobody.
LEMMA TakesPending ==
  ASSUME IInv, NEW c \in Clients, kind[c] \in Bound, NEW m \in net,
         Accepts(c, m) \/ (m.from = c /\ m.to = Server)
  PROVE  m \in Pending
<1>1. c \notin Hosts /\ Server \in Hosts /\ Stranger \notin Clients /\ Stranger # Server /\ Server # c
  BY HostFacts, PairsAssumption
<1>2. kind[c] \in Connected
  BY DEF Connected
<1>3. CASE Accepts(c, m)
  <2>1. m.to = c /\ m.from = Server
    BY <1>2, <1>3 DEF Accepts
  <2>2. Reply(m)
    BY <1>1, <2>1 DEF IInv, RouteInv, Request, FromStranger
  <2> QED
    BY <2>1, <2>2 DEF Reply, Pending
<1>4. CASE m.from = c /\ m.to = Server
  <2>1. Request(m)
    BY <1>1, <1>4 DEF IInv, RouteInv, Reply, FromStranger
  <2> QED
    BY <1>4, <2>1 DEF Request, Pending
<1> QED
  BY <1>3, <1>4

LEMMA CountStep ==
  ASSUME IInv, [Next]_vars
  PROVE  CountInv'
<1> DEFINE Free == \A d \in killed : kind[d] \notin Bound
<1>1. kind' = kind /\ CountInv /\ Hosts' = Hosts
  BY WhoMoves DEF fixed, IInv, Hosts
<1>2. /\ IsFiniteSet(Pending) /\ Cardinality(Pending) \in Nat
      /\ IsFiniteSet(Waiters) /\ Cardinality(Waiters) \in Nat /\ IsFiniteSet(net)
      /\ Free => Cardinality(Pending) <= Cardinality(Waiters)
  <2>1. Pending \subseteq net
    BY DEF Pending
  <2> QED
    BY <1>1, <2>1, CountLess DEF CountInv
<1>3. ASSUME IsFiniteSet(net'), Pending' \subseteq Pending, Waiters' = Waiters, killed' = killed
      PROVE  CountInv'
  <2>1. Cardinality(Pending') <= Cardinality(Pending) /\ Cardinality(Pending') \in Nat
    BY <1>2, <1>3, CountLess
  <2> QED
    BY <1>1, <1>2, <1>3, <2>1 DEF CountInv
<1>4. UNCHANGED <<cpc, nsent, portVars>> => Waiters' = Waiters /\ killed' = killed
  <2> SUFFICES ASSUME UNCHANGED <<cpc, nsent, portVars>>
               PROVE  Waiters' = Waiters /\ killed' = killed
    OBVIOUS
  <2>1. cpc' = cpc /\ killed' = killed
    BY DEF portVars
  <2> QED
    BY <1>1, <2>1 DEF Waiters, At
<1>5. net' \subseteq net => Pending' \subseteq Pending /\ IsFiniteSet(net')
  BY <1>1, <1>2, CountLess DEF Pending
<1>6. ASSUME NEW m \in net, NEW r \in net \cup net', ReturnedAs(m, r)
      PROVE  CountInv'
  <2>1. /\ net' = (net \ {m}) \cup {r} /\ r.line = m.line
        /\ UNCHANGED <<cpc, nsent, portVars>>
    BY <1>6 DEF ReturnedAs
  <2>2. IsFiniteSet(net')
    BY <1>2, <2>1, CountMore
  <2>3. CASE m \notin Pending
    <3>1. Pending' \subseteq Pending
      BY <1>1, <2>1, <2>3 DEF Pending
    <3> QED
      BY <1>3, <1>4, <2>1, <2>2, <3>1
  <2>4. CASE m \in Pending
    <3>1. Pending' = (Pending \ {m}) \cup {r}
      BY <1>1, <2>1, <2>4 DEF Pending
    <3>2. IsFiniteSet(Pending \ {m}) /\ Cardinality(Pending \ {m}) = Cardinality(Pending) - 1
      BY <1>2, <2>4, CountMore
    <3>3. Cardinality(Pending') <= Cardinality(Pending) /\ Cardinality(Pending') \in Nat
      <4>1. Cardinality(Pending') = Cardinality(Pending \ {m}) + (IF r \in Pending \ {m} THEN 0 ELSE 1)
            /\ IsFiniteSet(Pending')
        BY <3>1, <3>2, CountMore
      <4>2. Cardinality(Pending') \in Nat
        BY <4>1, FS_CardinalityType
      <4> QED
        BY <1>2, <3>2, <4>1, <4>2
    <3>4. Waiters' = Waiters /\ killed' = killed
      BY <1>4, <2>1
    <3> QED
      BY <1>1, <1>2, <2>2, <3>3, <3>4 DEF CountInv
  <2> QED
    BY <2>3, <2>4
<1>7. ASSUME NEW r \in net', Strayed(r)
      PROVE  CountInv'
  <2>1. net' = net \cup {r} /\ r.line[1] \notin Clients /\ UNCHANGED <<cpc, nsent, portVars>>
    BY <1>7, HostFacts DEF Strayed
  <2>2. IsFiniteSet(net') /\ Pending' \subseteq Pending
    BY <1>1, <1>2, <2>1, CountMore DEF Pending
  <2> QED
    BY <1>3, <1>4, <2>1, <2>2
<1>8. ASSUME NEW c \in Clients, NEW data \in Seq(Cell), SentBy(c, data)
      PROVE  CountInv'
  <2> DEFINE s(h) == [from |-> c, to |-> h, line |-> <<c, nsent[c] + 1>>,
                      asked |-> data, data |-> data]
  <2>1. net' = net \cup {s(h) : h \in Hosts} /\ \A h \in Hosts : s(h).line[1] = c
    BY <1>8 DEF SentBy
  <2> HIDE DEF s
  <2>2. /\ Send(c) /\ cpc[c] = "input" /\ killed' = killed
        /\ cpc' = [cpc EXCEPT ![c] = IF kind[c] \in Senders THEN "input" ELSE "wait"]
    BY <1>8 DEF SentBy, Send, At, Goto, portVars
  <2>3. cpc \in [Clients -> {"start", "option", "input", "wait", "done"}]
    BY DEF IInv, TypeOK
  <2>4. IsFiniteSet(net')
    <3>1. net' \subseteq net \cup {s(Server)} \cup {s(Member)}
      BY <2>1, HostFacts
    <3>2. IsFiniteSet(net \cup {s(Server)} \cup {s(Member)})
      BY <1>2, CountMore
    <3> QED
      BY <3>1, <3>2, CountLess
  <2>5. CASE kind[c] \notin Bound
    <3>1. Pending' \subseteq Pending
      BY <1>1, <2>1, <2>5 DEF Pending
    <3>2. Waiters' = Waiters
      BY <1>1, <2>2, <2>3, <2>5 DEF Waiters, At
    <3> QED
      BY <1>3, <2>2, <2>4, <3>1, <3>2
  <2>6. CASE kind[c] \in Bound
    <3>1. kind[c] \notin Senders /\ Hosts = {Server}
      BY <2>6, KindFacts, HostFacts DEF IInv
    <3>2. Waiters' = Waiters \cup {c} /\ c \notin Waiters
      BY <1>1, <2>2, <2>3, <2>6, <3>1 DEF Waiters, At
    <3>3. Pending' \subseteq Pending \cup {s(Server)}
      BY <1>1, <2>1, <2>6, <3>1 DEF Pending
    <3>4. Cardinality(Waiters') = Cardinality(Waiters) + 1 /\ IsFiniteSet(Waiters')
      BY <1>2, <3>2, CountMore
    <3>5. Cardinality(Pending') <= Cardinality(Pending) + 1 /\ Cardinality(Pending') \in Nat
      <4>1. IsFiniteSet(Pending \cup {s(Server)})
            /\ Cardinality(Pending \cup {s(Server)}) <= Cardinality(Pending) + 1
        <5>1. /\ IsFiniteSet(Pending \cup {s(Server)})
              /\ Cardinality(Pending \cup {s(Server)})
                   = Cardinality(Pending) + (IF s(Server) \in Pending THEN 0 ELSE 1)
          BY <1>2, CountMore
        <5> QED
          BY <1>2, <5>1
      <4>2. Cardinality(Pending') <= Cardinality(Pending \cup {s(Server)})
            /\ Cardinality(Pending') \in Nat /\ Cardinality(Pending \cup {s(Server)}) \in Nat
        <5> HIDE DEF Pending
        <5> QED
          BY <3>3, <4>1, CountLess, Zenon
      <4> QED
        BY <1>2, <4>1, <4>2
    <3> QED
      BY <1>1, <1>2, <2>2, <2>4, <3>4, <3>5 DEF CountInv
  <2> QED
    BY <2>5, <2>6
<1>9. ASSUME NEW c \in Clients, ClientNext(c), ~Send(c)
      PROVE  CountInv'
  <2> DEFINE Answered1 == \E m \in net : m \in Pending /\ net' = net \ {m}
  <2>1. cpc \in [Clients -> {"start", "option", "input", "wait", "done"}]
    BY DEF IInv, TypeOK
  <2>2. /\ \A d \in Clients \ {c} : cpc'[d] = cpc[d]
        /\ cpc'[c] # "wait"
    BY <1>9, Moves
  <2>3. net' \subseteq net
    BY <1>9 DEF ClientNext, Bind, BindFails, SetOption, ConnectRaises, Waits, Receive, Refused,
                Quit, Interrupted, Leaves, netVars
  <2>4. Waiters' = Waiters \ {c}
    BY <1>1, <2>1, <2>2 DEF Waiters, At
  <2>5. CASE kind[c] \notin Bound
    <3>1. Waiters' = Waiters
      BY <2>4, <2>5 DEF Waiters
    <3>2. killed \subseteq killed' /\ killed' \subseteq killed \cup {c}
      BY <1>9 DEF ClientNext, Bind, BindFails, SetOption, ConnectRaises, Waits, Receive, Refused,
                  Quit, Interrupted, Leaves, portVars
    <3>3. Cardinality(Pending') <= Cardinality(Pending) /\ Cardinality(Pending') \in Nat
      BY <1>2, <1>5, <2>3, CountLess
    <3> QED
      BY <1>1, <1>2, <1>5, <2>3, <2>5, <3>1, <3>2, <3>3 DEF CountInv
  <2>6. CASE kind[c] \in Bound /\ cpc[c] # "wait"
    <3>1. Waiters' = Waiters
      BY <2>4, <2>6 DEF Waiters, At
    <3>2. killed' = killed
      BY <1>9, <2>6 DEF ClientNext, Bind, BindFails, SetOption, ConnectRaises, Waits, Receive, Refused,
                        Quit, Interrupted, Leaves, portVars, At
    <3> QED
      BY <1>3, <1>5, <2>3, <3>1, <3>2
  <2>7. CASE kind[c] \in Bound /\ cpc[c] = "wait"
    <3>1. CASE Interrupted(c)
      <4>1. c \in killed'
        BY <3>1 DEF Interrupted
      <4> QED
        BY <1>1, <1>2, <1>5, <2>3, <2>4, <2>7, <4>1, CountMore DEF CountInv
    <3>2. CASE Receive(c) \/ Refused(c)
      <4>1. PICK m \in net : net' = net \ {m} /\ (Accepts(c, m) \/ (m.from = c /\ m.to = Server))
        BY <3>2 DEF Receive, Refused
      <4>2. m \in Pending
        BY <2>7, <4>1, TakesPending
      <4>3. Pending' = Pending \ {m}
        BY <1>1, <4>1, <4>2 DEF Pending
      <4>4. c \in Waiters /\ killed' = killed
        BY <2>7, <3>2 DEF Waiters, At, Receive, Refused, portVars
      <4>5. /\ Cardinality(Pending') = Cardinality(Pending) - 1
            /\ Cardinality(Waiters') = Cardinality(Waiters) - 1
            /\ IsFiniteSet(Waiters')
        BY <1>2, <2>4, <4>2, <4>3, <4>4, CountMore
      <4> QED
        BY <1>1, <1>2, <1>5, <2>3, <4>4, <4>5 DEF CountInv
    <3>3. Interrupted(c) \/ Receive(c) \/ Refused(c)
      BY <1>9, <2>7 DEF ClientNext, Bind, BindFails, SetOption, ConnectRaises, Waits, Quit, At
    <3> QED
      BY <3>1, <3>2, <3>3
  <2> QED
    BY <2>5, <2>6, <2>7
<1>10. CASE Went /\ UNCHANGED <<cpc, nsent, portVars>>
  BY <1>3, <1>4, <1>5, <1>10 DEF Went
<1>11. ASSUME NEW c \in Clients, Send(c) PROVE \E data \in Seq(Cell) : SentBy(c, data)
  BY <1>11, SendStep
<1> QED
  BY <1>6, <1>7, <1>8, <1>9, <1>10, <1>11, NetStep, WhoMoves

-----------------------------------------------------------------------------
(* In step.                                                                *)

\* Whoever was not disturbed at the end of a step was not before.
LEMMA StaysUndisturbed ==
  ASSUME IInv, [Next]_vars, NEW c \in Clients, Undisturbed(c)'
  PROVE  Undisturbed(c)
<1>1. kind' = kind /\ strays \in Nat
  BY WhoMoves DEF fixed, IInv, TypeOK
<1>2. killed \subseteq killed'
  <2>1. CASE UNCHANGED <<cpc, nsent, portVars>>
    BY <2>1 DEF portVars
  <2>2. ASSUME NEW d \in Clients, ClientNext(d) PROVE killed \subseteq killed'
    <3>1. cpc[d] # "done" /\ \A e \in Clients \ {d} : e \in killed' <=> e \in killed
      BY <2>2, Moves
    <3>2. d \notin killed /\ killed \subseteq Clients
      BY <3>1 DEF IInv, TypeOK, PortInv, At
    <3> QED
      BY <3>1, <3>2
  <2> QED
    BY <2>1, <2>2, WhoMoves
<1>3. strays' = 0 => strays = 0
  BY <1>1, NetStep DEF Went, SentBy, ReturnedAs, Strayed
<1> QED
  BY <1>1, <1>2, <1>3 DEF Undisturbed, MayShare

\* Nobody else changes what a client shows.
LEMMA OthersShow ==
  ASSUME IInv, [Next]_vars, NEW c \in Clients, ~ClientNext(c)
  PROVE  shown'[c] = shown[c]
<1>1. shown \in [Peers -> Shown \cup {<<>>}] /\ c \in Peers /\ c \notin Hosts
  BY HostFacts DEF IInv, TypeOK, Peers
<1>2. ASSUME NEW d \in Clients, ClientNext(d) PROVE shown'[c] = shown[c]
  <2>1. d # c
    BY <1>2
  <2>2. Leaves(d) => shown'[c] = shown[c]
    BY <1>1, <2>1 DEF Leaves
  <2>3. Receive(d) => shown'[c] = shown[c]
    BY <1>1, <2>1 DEF Receive
  <2> QED
    BY <1>2, <2>2, <2>3 DEF ClientNext, Bind, BindFails, SetOption, ConnectRaises, Send, Waits, Refused,
                            Quit, Interrupted
<1>3. ASSUME NEW h \in Hosts, Turn(h) PROVE shown'[c] = shown[c]
  BY <1>1, <1>3 DEF Turn
<1>4. Stop => shown'[c] = shown[c]
  BY <1>1 DEF Stop
<1>5. Lose \/ Stray \/ AtRest \/ UNCHANGED vars => shown'[c] = shown[c]
  BY DEF Lose, Stray, AtRest, vars
<1> QED
  BY <1>2, <1>3, <1>4, <1>5 DEF Next

\* Waits for its line, or shows it.
Steady(c) ==
  /\ \A m \in Own(c) : At(c, "wait") /\ m.line = <<c, nsent[c]>>
  /\ At(c, "input") /\ nsent[c] > 0 => shown[c].line = <<c, nsent[c]>>

\* Nothing is under way when an undisturbed client gets the port: there is
\* nobody who waits at it.
LEMMA FindsNothing ==
  ASSUME IInv, NEW c \in Clients, Bind(c), Undisturbed(c)
  PROVE  Pending = {}
<1>1. kind[c] \in Bound /\ kind[c] \in Connected /\ c \notin killed /\ c \notin bound
  <2>1. kind[c] \in Bound /\ c \notin killed /\ c \notin bound
    BY DEF Bind, IInv, PortInv, At
  <2> QED
    BY <2>1 DEF Connected
<1>2. \A d \in Clients \ {c} : kind[d] \in Bound => ~MayShare(c, d) /\ d \notin killed
  BY <1>1, Zenon DEF Undisturbed
<1>3. bound = {}
  <2> SUFFICES ASSUME NEW d \in bound PROVE FALSE
    OBVIOUS
  <2>1. d \in Clients \ {c} /\ kind[d] \in Bound
    BY <1>1 DEF IInv, TypeOK, PortInv
  <2>2. kind[c] \in OptionFirst /\ kind[d] \in OptionFirst \cup {"udp-6-client.py"}
    BY <2>1 DEF Bind, CanBind, IInv, PortInv
  <2>3. MayShare(c, d)
    BY <2>2 DEF MayShare
  <2> QED
    BY <1>2, <2>1, <2>3
<1>4. Waiters = {}
  BY <1>3 DEF Waiters, IInv, PortInv, At
<1>5. \A d \in killed : kind[d] \notin Bound
  BY <1>1, <1>2 DEF IInv, TypeOK
<1>6. Cardinality(Pending) <= 0 /\ IsFiniteSet(Pending)
  <2>1. Cardinality(Waiters) = 0
    BY <1>4, FS_EmptySet
  <2>2. Pending \subseteq net /\ IsFiniteSet(net)
    BY DEF Pending, IInv, CountInv
  <2>3. IsFiniteSet(Pending)
    BY <2>2, FS_Subset
  <2> QED
    BY <1>5, <2>1, <2>3 DEF IInv, CountInv
<1> QED
  BY <1>6, FS_CardinalityType, FS_EmptySet

\* The reply an undisturbed client takes is its own.
LEMMA TakesOwn ==
  ASSUME IInv, NEW c \in Clients, At(c, "wait"), Undisturbed(c),
         NEW m \in net, Accepts(c, m)
  PROVE  m \in Own(c)
<1>1. c \notin Hosts /\ Server # Stranger
  BY HostFacts, PairsAssumption
<1>2. m.to = c /\ (kind[c] \in Connected => m.from = Server)
  BY DEF Accepts
<1>3. ~Request(m)
  BY <1>1, <1>2 DEF Request
<1>4. ~FromStranger(m)
  <2>1. CASE kind[c] \in Connected
    BY <1>1, <1>2, <2>1 DEF FromStranger
  <2>2. CASE kind[c] \notin Connected
    <3>1. strays = 0
      BY <2>2 DEF Undisturbed
    <3> QED
      BY <3>1 DEF FromStranger
  <2> QED
    BY <2>1, <2>2
<1>5. Reply(m)
  BY <1>3, <1>4 DEF IInv, RouteInv
<1>6. kind[c] \in Bound => c \in bound
  BY DEF IInv, PortInv, At
<1> QED
  BY <1>2, <1>5, <1>6 DEF Reply, Own, Pending

LEMMA StepStep ==
  ASSUME IInv, [Next]_vars
  PROVE  StepInv'
<1>1. kind' = kind /\ server' = server
  BY WhoMoves DEF fixed
<1> SUFFICES ASSUME NEW c \in Clients, kind[c] \notin Senders, Undisturbed(c)', cpc'[c] # "done"
             PROVE  Steady(c)'
  BY <1>1 DEF StepInv, Steady, At
<1>2. Undisturbed(c)
  BY StaysUndisturbed
<1>3. cpc[c] # "done" => Steady(c)
  BY <1>2 DEF IInv, StepInv, Steady, At
<1>4. /\ bound \subseteq Clients /\ cpc \in [Clients -> {"start", "option", "input", "wait", "done"}]
      /\ nsent \in [Clients -> 0 .. MaxLines] /\ shown \in [Peers -> Shown \cup {<<>>}] /\ c \in Peers
  BY DEF IInv, TypeOK, Peers
\* Somebody else's step.
<1>5. ASSUME cpc'[c] = cpc[c], nsent'[c] = nsent[c], shown'[c] = shown[c],
             \A m \in net' : m \in Own(c)' => \E n \in Own(c) : n.line = m.line
      PROVE  Steady(c)'
  <2>1. Own(c)' \subseteq net'
    BY DEF Own
  <2> HIDE DEF Own
  <2> QED
    BY <1>3, <1>5, <2>1 DEF Steady, At
<1>6. CASE ~ClientNext(c)
  <2>1. cpc'[c] = cpc[c] /\ nsent'[c] = nsent[c] /\ (c \in bound' => c \in bound)
    <3>1. CASE UNCHANGED <<cpc, nsent, portVars>>
      BY <3>1 DEF portVars
    <3>2. ASSUME NEW d \in Clients, ClientNext(d)
          PROVE  cpc'[c] = cpc[c] /\ nsent'[c] = nsent[c] /\ (c \in bound' => c \in bound)
      BY <1>6, <3>2, Moves
    <3> QED
      BY <3>1, <3>2, WhoMoves
  <2>2. shown'[c] = shown[c]
    BY <1>6, OthersShow
  <2> SUFFICES ASSUME NEW m \in net', m \in Own(c)'
               PROVE  \E n \in Own(c) : n.line = m.line
    BY <1>5, <2>1, <2>2
  <2>3. /\ m.line[1] = c \/ (c \in bound /\ m.line[1] \in Clients /\ kind[m.line[1]] \in Bound)
        /\ \A n \in net : n.line = m.line => n \in Own(c)
    BY <1>1, <2>1 DEF Own, Pending
  <2>4. CASE Went
    BY <2>3, <2>4 DEF Went
  <2>5. ASSUME NEW n \in net, NEW r \in net \cup net', ReturnedAs(n, r)
        PROVE  \E p \in Own(c) : p.line = m.line
    BY <2>3, <2>5 DEF ReturnedAs
  <2>6. ASSUME NEW r \in net', Strayed(r)
        PROVE  m \in net
    BY <2>3, <2>6, HostFacts DEF Strayed
  <2>7. ASSUME NEW d \in Clients, NEW data \in Seq(Cell), SentBy(d, data)
        PROVE  m \in net
    <3>1. d # c /\ Send(d)
      BY <1>6, <2>7 DEF SentBy, ClientNext
    <3>2. ~(c \in bound /\ kind[d] \in Bound)
      <4> SUFFICES ASSUME c \in bound, kind[d] \in Bound PROVE FALSE
        OBVIOUS
      <4>1. d \in bound /\ kind[c] \in Bound /\ PortInv
        BY <3>1 DEF Send, At, IInv, PortInv
      <4>2. MayShare(c, d)
        BY <3>1, <4>1 DEF PortInv
      <4>3. kind[c] \in Connected
        BY <4>1 DEF Connected
      <4> QED
        BY <1>2, <3>1, <4>1, <4>2, <4>3, Zenon DEF Undisturbed
    <3>3. m \in net \/ m.line = <<d, nsent[d] + 1>>
      BY <2>7 DEF SentBy
    <3> QED
      BY <2>3, <3>1, <3>2, <3>3
  <2> QED
    BY <2>3, <2>4, <2>5, <2>6, <2>7, NetStep
\* Its own.
<1>7. CASE ClientNext(c)
  <2>1. cpc[c] # "done" /\ Steady(c)
    BY <1>3, <1>7, Moves
  <2>2. ASSUME Bind(c) PROVE Steady(c)'
    <3>1. /\ net' = net /\ nsent' = nsent /\ nsent[c] = 0
      BY <2>2 DEF Bind, netVars, IInv, PortInv, At
    <3>2. Pending = {} /\ kind[c] \in Bound
      BY <1>2, <2>2, FindsNothing DEF Bind, IInv, PortInv, At
    <3>3. Own(c)' = {}
      BY <1>1, <3>1, <3>2 DEF Own, Pending
    <3> HIDE DEF Own
    <3> QED
      BY <3>1, <3>3 DEF Steady
  <2>3. ASSUME SetOption(c) PROVE Steady(c)'
    <3>1. net' = net /\ nsent' = nsent /\ bound' = bound /\ nsent[c] = 0 /\ ~At(c, "wait")
      BY <2>3 DEF SetOption, netVars, IInv, PortInv, At
    <3>2. Own(c)' = Own(c)
      BY <1>1, <3>1 DEF Own, Pending
    <3> QED
      BY <2>1, <3>1, <3>2 DEF Steady
  <2>4. ASSUME Send(c) PROVE Steady(c)'
    <3>1. PICK data \in Seq(Cell) : SentBy(c, data)
      BY <2>4, SendStep
    <3>2. cpc'[c] = "wait" /\ nsent'[c] = nsent[c] + 1 /\ bound' = bound /\ cpc[c] = "input"
      BY <1>4, <2>4 DEF Send, Goto, At, portVars
    <3>3. Own(c) = {}
      BY <2>1, <3>2 DEF Steady, At
    <3>4. \A m \in Own(c)' : m \in Own(c) \/ m.line = <<c, nsent[c] + 1>>
      BY <1>1, <3>1, <3>2 DEF SentBy, Own, Pending
    <3> HIDE DEF Own
    <3> QED
      BY <3>2, <3>3, <3>4 DEF Steady, At
  <2>5. ASSUME Receive(c) PROVE Steady(c)'
    <3>1. PICK m \in net :
            /\ Accepts(c, m) /\ net' = net \ {m}
            /\ shown' = [shown EXCEPT ![c] =
                           Printed(kind[c], m, AfterRecv(kind[c], buffer[c], m.data))]
      BY <2>5 DEF Receive
    <3>2. At(c, "wait") /\ cpc'[c] = "input" /\ nsent' = nsent /\ bound' = bound
      BY <1>4, <2>5 DEF Receive, Goto, portVars
    <3>3. m \in Own(c)
      BY <1>2, <3>1, <3>2, TakesOwn
    <3>4. \A n \in Own(c) : n = m
      <4>1. \A n \in Own(c) : n.line = <<c, nsent[c]>> /\ n \in net
        BY <2>1 DEF Steady, Own
      <4> HIDE DEF Own
      <4> QED
        BY <3>3, <4>1 DEF IInv, LineInv
    <3>5. Own(c)' = {}
      BY <1>1, <3>1, <3>2, <3>4 DEF Own, Pending
    <3>6. shown'[c].line = <<c, nsent[c]>>
      <4>1. shown'[c].line = m.line
        BY <1>4, <3>1 DEF Printed
      <4>2. m.line = <<c, nsent[c]>>
        BY <2>1, <3>3 DEF Steady
      <4> QED
        BY <4>1, <4>2
    <3> HIDE DEF Own
    <3> QED
      BY <3>2, <3>5, <3>6 DEF Steady
  <2>6. Bind(c) \/ SetOption(c) \/ Send(c) \/ Receive(c)
    BY <1>7, Moves
  <2> QED
    BY <2>2, <2>3, <2>4, <2>5, <2>6
<1> QED
  BY <1>6, <1>7

-----------------------------------------------------------------------------
(* What is printed.                                                        *)

LEMMA ShowsStep ==
  ASSUME IInv, [Next]_vars
  PROVE  ShowsTheLine'
<1>1. server' = server
  BY WhoMoves DEF fixed
<1> SUFFICES ASSUME server # "udp-8-server"
             PROVE  \A p \in Peers : shown'[p] # <<>> => ShowsLine(shown'[p])
  BY <1>1 DEF ShowsTheLine, ShowsLine
<1> DEFINE Right == \A p \in Peers : shown'[p] # <<>> => ShowsLine(shown'[p])
<1>2. \A p \in Peers : shown[p] # <<>> => ShowsLine(shown[p])
  BY DEF IInv, ShowsTheLine, ShowsLine
<1>3. /\ shown \in [Peers -> Shown \cup {<<>>}] /\ buffer \in [Peers -> Buffer]
      /\ net \subseteq Datagram /\ TypeOK /\ KindInv
      /\ \A m \in net : Plain(m.asked)
  BY DEF IInv, TypeOK, Buffer, AskedInv
<1>4. ASSUME NEW q \in Peers, NEW s, shown' = [shown EXCEPT ![q] = s], s # <<>> => ShowsLine(s)
      PROVE  Right
  BY <1>2, <1>3, <1>4
<1>5. ASSUME NEW c \in Clients, Receive(c) PROVE Right
  <2>1. PICK m \in net :
          /\ Accepts(c, m)
          /\ shown' = [shown EXCEPT ![c] =
                         Printed(kind[c], m, AfterRecv(kind[c], buffer[c], m.data))]
    BY <1>5 DEF Receive
  <2>2. c \in Peers /\ buffer[c] \in Buffer /\ m \in Datagram
    BY <1>3 DEF Peers
  <2>3. kind[c] \notin {"udp-8-server", "udp-8-client"}
    BY <1>3, KindFacts
  <2>4. (Ended(m.asked) => m.data = m.asked) /\ Begins(m.data, m.asked)
    <3>1. FromStranger(m) \/ Reply(m)
      BY <2>1, HostFacts DEF IInv, RouteInv, Request, Accepts
    <3>2. Reply(m) => Begins(m.data, m.asked) /\ (m.data = m.asked \/ ~Ended(m.asked))
      BY HostFacts DEF Reply, IInv, RepliesCarryTheLine
    <3> QED
      BY <1>3, <2>2, <3>1, <3>2, SameBegins DEF FromStranger, Datagram
  <2>5. ShowsLine(Printed(kind[c], m, AfterRecv(kind[c], buffer[c], m.data)))
    BY <1>3, <2>2, <2>3, <2>4, PrintedIs
  <2> QED
    BY <1>4, <2>1, <2>2, <2>5
<1>6. ASSUME NEW h \in Hosts, Turn(h) PROVE Right
  <2>1. PICK m \in net :
          /\ m.to = h
          /\ shown' = [shown EXCEPT ![h] =
                         Printed(server, m, AfterRecv(server, buffer[h], m.data))]
    BY <1>6 DEF Turn
  <2>2. h \in Peers /\ buffer[h] \in Buffer /\ m \in Datagram
    BY <1>3, HostFacts
  <2>3. server # "udp-8-client"
    <3>1. PICK p \in Pairs : server = p[1]
      BY <1>3 DEF KindInv
    <3> QED
      BY <3>1 DEF Pairs
  <2>4. m.data = m.asked /\ Begins(m.data, m.asked)
    BY <2>1, <2>2, RequestIs, SameBegins DEF Request, Datagram
  <2>5. ShowsLine(Printed(server, m, AfterRecv(server, buffer[h], m.data)))
    BY <1>3, <2>2, <2>3, <2>4, PrintedIs
  <2> QED
    BY <1>4, <2>1, <2>2, <2>5
<1>7. ASSUME NEW c \in Clients, Leaves(c) PROVE Right
  BY <1>4, <1>7 DEF Leaves, Peers
<1>8. Stop => Right
  BY <1>2 DEF Stop
<1>9. shown' = shown => Right
  BY <1>2
<1>10. ASSUME NEW c \in Clients, ClientNext(c) PROVE Receive(c) \/ Leaves(c) \/ shown' = shown
  BY <1>10 DEF ClientNext, Bind, BindFails, SetOption, ConnectRaises, Send, Waits, Refused,
               Quit, Interrupted
<1>11. Lose \/ Stray \/ AtRest \/ UNCHANGED vars => shown' = shown
  BY DEF Lose, Stray, AtRest, vars
<1> HIDE DEF Right
<1>12. Right
  BY <1>5, <1>6, <1>7, <1>8, <1>9, <1>10, <1>11 DEF Next
<1> QED
  BY <1>12 DEF Right

-----------------------------------------------------------------------------
(* The invariant, and what follows from it.                                *)

\* The invariant holds when the programs start: nothing was sent, bound or
\* printed.
LEMMA InitInv == Init => IInv
<1> SUFFICES ASSUME Init PROVE IInv
  OBVIOUS
<1>1. \A c \in Clients : <<server, kind[c]>> \in Pairs
  <2>1. \A q \in Pairs : <<q[1], q[2]>> = q
    BY DEF Pairs
  <2>2. \A c \in Clients : \E q \in Pairs : q[1] = server /\ q[2] = kind[c]
    BY DEF Init
  <2> QED
    BY <2>1, <2>2
<1>2. TypeOK
  <2>1. Fresh \in [1 .. Size -> Cell]
    BY FreshType DEF Buffer
  <2>2. /\ strays \in 0 .. MaxStrays /\ nsent \in [Clients -> 0 .. MaxLines]
        /\ cpc \in [Clients -> {"start", "option", "input", "wait", "done"}]
    BY PairsAssumption DEF Init
  <2> QED
    BY <1>1, <2>1, <2>2 DEF Init, TypeOK
<1>3. KindInv
  BY DEF Init, KindInv
<1>4. PortInv
  BY DEF Init, PortInv, At, MayShare
<1>5. RouteInv /\ AskedInv /\ LineInv /\ RepliesCarryTheLine /\ ShowsTheLine
  BY DEF Init, RouteInv, AskedInv, LineInv, RepliesCarryTheLine, ShowsTheLine
<1>6. CountInv
  <2>1. net = {} /\ Pending = {} /\ Waiters = {}
    BY DEF Init, Pending, Waiters, At
  <2>2. IsFiniteSet({}) /\ Cardinality({}) = 0
    BY FS_EmptySet
  <2> QED
    BY <2>1, <2>2 DEF CountInv
<1>7. StepInv
  BY DEF Init, StepInv, Own, At
<1> QED
  BY <1>2, <1>3, <1>4, <1>5, <1>6, <1>7 DEF IInv

LEMMA NextStep == IInv /\ [Next]_vars => IInv'
  BY TypeStep, KindStep, PortStep, RouteStep, LineStep, CountStep, StepStep, ShowsStep DEF IInv

THEOREM Invariance == Spec => []IInv
<1>1. Init => IInv
  BY InitInv
<1>2. IInv /\ [Next]_vars => IInv'
  BY NextStep
<1> QED
  BY <1>1, <1>2, PTL DEF Spec

\* The types are right: the programs only ever pair up as README says, and
\* every buffer keeps its size.
THEOREM TypeCorrect == Spec => []TypeOK
<1>1. IInv => TypeOK
  BY DEF IInv
<1> QED
  BY <1>1, Invariance, PTL

\* Whatever a buffer held before, what is printed of a line that came with
\* its NUL is the line.
THEOREM ShowsWhatWasSent == Spec => []ShowsTheLine
<1>1. IInv => ShowsTheLine
  BY DEF IInv
<1> QED
  BY <1>1, Invariance, PTL

\* A reply is the datagram it answers, byte for byte, but for the two cases
\* that the buffer's size and udp-server.cc's strlen() make.
THEOREM RepliesCarry == Spec => []RepliesCarryTheLine
<1>1. IInv => RepliesCarryTheLine
  BY DEF IInv
<1> QED
  BY <1>1, Invariance, PTL

\* What an undisturbed client shows is the line it sent last, however many
\* others came and went on its port before.
THEOREM KeepsInStep == Spec => []InStep
<1>1. IInv => InStep
  BY DEF IInv, StepInv, InStep, At
<1> QED
  BY <1>1, Invariance, PTL

\* Two clients have the port at once only when each has set SO_REUSEADDR, and
\* one of them before its bind(): never two of udp-5-client.
PortShared ==
  \A c, d \in bound : c # d => MayShare(c, d) /\ {c, d} \subseteq reuse

\* bind() compares the options of the moment, and a Python client sets its own
\* only later: still none shares the port with a client that never set it.
THEOREM SharesThePort == Spec => []PortShared
<1>1. IInv => PortShared
  BY DEF IInv, PortInv, PortShared
<1> QED
  BY <1>1, Invariance, PTL

\* Unless a client with the port was interrupted, there are never more
\* datagrams of theirs under way than there are clients that wait.
NoneLeftOver ==
  (\A c \in killed : kind[c] \notin Bound) => Cardinality(Pending) <= Cardinality(Waiters)

\* Whichever client gets which reply, the next one to bind the port finds no
\* reply of an earlier one, if all of these were answered or refused.
THEOREM LeavesNothingBehind == Spec => []NoneLeftOver
<1>1. IInv => NoneLeftOver
  BY DEF IInv, CountInv, NoneLeftOver
<1> QED
  BY <1>1, Invariance, PTL
=============================================================================
