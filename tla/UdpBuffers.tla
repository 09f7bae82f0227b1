----------------------------- MODULE UdpBuffers -----------------------------
(***************************************************************************)
(* The character buffers of the UDP programs.  A buffer is a local array   *)
(* that no program clears: recvfrom() and fgets() write its first cells,   *)
(* and the others keep what an earlier call left there, or what was on the *)
(* stack (the stack slot of a loop's local array is the same every turn).  *)
(* A buffer is a sequence of Size cells, a datagram a shorter or longer    *)
(* one.  printf("%s") and strlen() see the cells before the first NUL.     *)
(***************************************************************************)
EXTENDS Naturals, Sequences

CONSTANTS
  Size,  \* sizeof(buffer), 1024 in the code
  NUL    \* the cell that ends a C string

ASSUME BufferAssumption == Size \in Nat \ {0}

\* recvfrom(sockfd, buffer, size, ...): what does not fit is cut off.
Received(buf, data) ==
  [i \in 1 .. Size |-> IF i <= Len(data) THEN data[i] ELSE buf[i]]
Got(data) == IF Len(data) <= Size THEN Len(data) ELSE Size

\* Mutant of EndMarked: buffer[size] = 0, past the end.
MarkedPast(buf) == Append(buf, NUL)

\* buffer[size-1] = 0
EndMarked(buf) == [buf EXCEPT ![Size] = NUL]

\* strlen(), and all of buf if there is no NUL, where strlen() would run on.
StrLen(buf) ==
  CHOOSE n \in 0 .. Len(buf) :
    /\ n < Len(buf) => buf[n + 1] = NUL
    /\ \A i \in 1 .. n : buf[i] # NUL

\* Mutant of Text: %.*s with the buffer's size.
WholeText(buf) == SubSeq(buf, 1, Size)

\* What is printed with %s.
Text(buf) == SubSeq(buf, 1, StrLen(buf))

\* What a C program sends of a line: len+1 bytes.
CString(line) == Append(line, NUL)
=============================================================================
