------------------------------- MODULE FdTable -------------------------------
(***************************************************************************)
(* The descriptor table of a single-process server (tcp-5-server.cc,       *)
(* tcp-6-server.cc): external to the repository, modelled from how those   *)
(* servers use descriptors.  0, 1 and 2 are the standard streams, socket() *)
(* returned 3, accept() returns the lowest free descriptor and fails when  *)
(* RLIMIT_NOFILE is reached.                                               *)
(***************************************************************************)
EXTENDS TcpClient

CONSTANTS
  NoConn,   \* not a client: a free descriptor
  LastFd    \* bound: the largest descriptor any run of the server may open

ListenFd == 3
ConnFds == ListenFd + 1 .. LastFd

ASSUME FdAssumption ==
  /\ NoConn \notin Clients
  /\ LastFd \in Nat /\ LastFd >= ListenFd

VARIABLES
  fdt,      \* the connection each descriptor is open on
  nofile    \* RLIMIT_NOFILE - 1, the largest descriptor this run may open

FdTypeOK ==
  /\ fdt \in [ConnFds -> Clients \cup {NoConn}]
  /\ nofile \in ListenFd .. LastFd

FdInit ==
  /\ fdt = [f \in ConnFds |-> NoConn]
  /\ nofile \in ListenFd .. LastFd

OpenFds == {f \in ConnFds : fdt[f] # NoConn}
FreeFds == {f \in ConnFds : f <= nofile} \ OpenFds

\* What select() and poll() (POLLIN) report of an open descriptor.
Ready(f) == IF f = ListenFd THEN backlog # <<>>
            ELSE fdt[f] # NoConn /\ Readable(ssk[fdt[f]], up[fdt[f]])

\* close() of a connection's descriptor, the only one on it.
FdCloses(f) ==
  /\ ServerCloses({fdt[f]})
  /\ fdt' = [fdt EXCEPT ![f] = NoConn]
  /\ UNCHANGED <<backlog, listening>>

\* The process is gone: the kernel closes all it had open, and refuses the
\* connections it had not accepted.
ProcessGone ==
  /\ ServerCloses({fdt[f] : f \in OpenFds} \cup Range(backlog))
  /\ listening' = FALSE /\ backlog' = <<>>
  /\ fdt' = [f \in ConnFds |-> NoConn]

\* No connection has two descriptors, and every connection the kernel still
\* holds for the server is in the backlog or on a descriptor.
FdTableOK ==
  /\ \A f, g \in OpenFds : fdt[f] = fdt[g] => f = g
  /\ \A c \in Clients :
       ssk[c] \notin {"none", "closed"}
         <=> c \in Range(backlog) \cup {fdt[f] : f \in OpenFds}

\* The server ends a conversation only when its client has left, never
\* because of what another client did ("handle multiple clients
\* concurrently", tcp-5-server.cc:17), unless it is out of descriptors.
OnlyFinishedConversationsEnd ==
  [][\A c \in Clients :
       ssk[c] # "closed" /\ ssk'[c] = "closed"
         => csk[c] # "est" \/ FreeFds = {}]_<<tcpVars, clientVars, fdt>>
=============================================================================
