----------------------------- MODULE EpollKernel -----------------------------
(***************************************************************************)
(* The environment of the simple_epoll server: the TCP connections of its  *)
(* clients, the descriptors of the server process and the interest list of *)
(* its level-triggered epoll instance, as far as src/simple_epoll uses     *)
(* them (accept, recv, send, close, epoll_ctl, epoll_wait).  Nothing of    *)
(* this module is code of the repository.                                  *)
(*                                                                         *)
(* A byte is the pair <<connection, position in that connection's stream>>,*)
(* so that a byte which reaches the wrong client, or twice, or out of      *)
(* order can be told from the right one.                                   *)
(***************************************************************************)
EXTENDS Integers, Sequences, FiniteSets

CONSTANTS
  Conns,      \* the connections clients may open, each of them once
  NoConn,     \* not a connection: a descriptor that is not open
  Fds,        \* descriptors accept() can return (the process's limit)
  ListenFd,   \* the listening socket's descriptor
  MaxBytes,   \* bound: bytes a client sends on one connection
  SndBuf,     \* bytes the kernel buffers towards a client
  SndLow,     \* room it must have before it reports EPOLLOUT
  Backlog,    \* the argument of listen(): connections not accepted yet
  Faults      \* the failures this instance of the environment exhibits

FaultKinds == {"epoll_ctl", "epoll_wait", "fcntl", "reset", "startup"}

ASSUME KernelAssumption ==
  /\ NoConn \notin Conns
  /\ ListenFd \notin Fds
  /\ MaxBytes \in Nat
  /\ SndBuf \in Nat
  /\ SndLow \in 1..SndBuf
  /\ Backlog \in Nat \ {0}
  /\ Faults \subseteq FaultKinds

VARIABLES
  peer,       \* what the client did to its end of the connection
  backlog,    \* connections the kernel has established, oldest first
  sock,       \* how far the server has come with the connection
  fdTable,    \* the connection each descriptor of the process refers to
  interest,   \* the epoll interest list
  sent,       \* bytes the client has sent
  rcvd,       \* bytes the server has taken with recv()
  out,        \* bytes the server has passed to send(), in order
  got         \* how many of them the client has read

connVars   == <<peer, backlog, sock, fdTable, sent, rcvd, out, got>>
kernelVars == <<peer, backlog, sock, fdTable, interest, sent, rcvd, out, got>>

EPOLLIN  == "EPOLLIN"
EPOLLOUT == "EPOLLOUT"

AllFds == Fds \cup {ListenFd}

(* "fin": the client has shut its side down.  "rst": it has reset an       *)
(* established connection.  "finrst": it has reset one that was already    *)
(* shut down, after which send() raises SIGPIPE and not ECONNRESET.        *)
PeerStates == {"absent", "up", "fin", "rst", "finrst"}
SockStates == {"none", "backlog", "accepted", "closed"}

Byte == Conns \X (1..MaxBytes)
Bytes(c, from, n) == [i \in 1..n |-> <<c, from + i>>]

(* An entry of the interest list: events and data.ptr.  In this program    *)
(* data.ptr always points into g_events, so it is an index here.           *)
Unregistered == [slot |-> -1, events |-> {}]

-----------------------------------------------------------------------------
(* Readiness, as tcp_poll and the listening socket report it.              *)

Avail(c)    == sent[c] - rcvd[c]
Space(c)    == SndBuf - (Len(out[c]) - got[c])
Readable(c) == Avail(c) > 0 \/ peer[c] \in {"fin", "rst", "finrst"}
Writable(c) == Space(c) >= SndLow \/ peer[c] \in {"rst", "finrst"}

ReadyFlags(fd) ==
  IF fd = ListenFd
  THEN {f \in {EPOLLIN} : backlog # <<>>}
  ELSE {f \in {EPOLLIN, EPOLLOUT} :
          /\ fdTable[fd] # NoConn
          /\ (f = EPOLLIN => Readable(fdTable[fd]))
          /\ (f = EPOLLOUT => Writable(fdTable[fd]))}

(* What epoll_wait would report of a descriptor: readiness, restricted to  *)
(* the registered events.  EPOLLHUP and EPOLLERR come with EPOLLIN and     *)
(* EPOLLOUT on a TCP socket and are ignored by the program: left out.      *)
Reported(fd) == interest[fd].events \cap ReadyFlags(fd)

(* epoll_ctl on the interest list: ADD fails with EEXIST, MOD and DEL with *)
(* ENOENT, and a failed call changes nothing.                              *)
EpollCtl(list, op, fd, entry) ==
  CASE op = "ADD" /\ list[fd] = Unregistered -> [list EXCEPT ![fd] = entry]
    [] op = "MOD" /\ list[fd] # Unregistered -> [list EXCEPT ![fd] = entry]
    [] op = "DEL"                            -> [list EXCEPT ![fd] = Unregistered]
    [] OTHER                                 -> list

(* ENOSPC, ENOMEM: a registration the kernel refuses.                      *)
CtlOutcomes == {TRUE} \cup {b \in {FALSE} : "epoll_ctl" \in Faults}

FreeFds == {fd \in Fds : fdTable[fd] = NoConn}

-----------------------------------------------------------------------------
(* What the clients do.                                                    *)

ClientConnect(c) ==
  /\ peer[c] = "absent"
  /\ Len(backlog) < Backlog
  /\ peer' = [peer EXCEPT ![c] = "up"]
  /\ sock' = [sock EXCEPT ![c] = "backlog"]
  /\ backlog' = Append(backlog, c)
  /\ UNCHANGED <<fdTable, interest, sent, rcvd, out, got>>

ClientSend(c) ==
  /\ peer[c] = "up"
  /\ sock[c] # "closed"
  /\ sent[c] < MaxBytes
  /\ sent' = [sent EXCEPT ![c] = @ + 1]
  /\ UNCHANGED <<peer, backlog, sock, fdTable, interest, rcvd, out, got>>

ClientRead(c) ==
  /\ peer[c] \in {"up", "fin"}
  /\ sock[c] # "closed"
  /\ got[c] < Len(out[c])
  /\ got' = [got EXCEPT ![c] = Len(out[c])]
  /\ UNCHANGED <<peer, backlog, sock, fdTable, interest, sent, rcvd, out>>

ClientHangup(c) ==
  /\ peer[c] = "up"
  /\ sock[c] # "closed"
  /\ peer' = [peer EXCEPT ![c] = "fin"]
  /\ UNCHANGED <<backlog, sock, fdTable, interest, sent, rcvd, out, got>>

ClientReset(c) ==
  /\ "reset" \in Faults
  /\ peer[c] \in {"up", "fin"}
  /\ sock[c] # "closed"
  /\ peer' = [peer EXCEPT ![c] = IF @ = "up" THEN "rst" ELSE "finrst"]
  /\ UNCHANGED <<backlog, sock, fdTable, interest, sent, rcvd, out, got>>

-----------------------------------------------------------------------------

KernelTypeOK ==
  /\ peer \in [Conns -> PeerStates]
  /\ backlog \in Seq(Conns)
  /\ sock \in [Conns -> SockStates]
  /\ fdTable \in [Fds -> Conns \cup {NoConn}]
  /\ sent \in [Conns -> 0..MaxBytes]
  /\ rcvd \in [Conns -> 0..MaxBytes]
  /\ out \in [Conns -> Seq(Byte)]
  /\ got \in [Conns -> Nat]

KernelInit ==
  /\ peer = [c \in Conns |-> "absent"]
  /\ backlog = <<>>
  /\ sock = [c \in Conns |-> "none"]
  /\ fdTable = [fd \in Fds |-> NoConn]
  /\ interest = [fd \in AllFds |-> Unregistered]
  /\ sent = [c \in Conns |-> 0]
  /\ rcvd = [c \in Conns |-> 0]
  /\ out = [c \in Conns |-> <<>>]
  /\ got = [c \in Conns |-> 0]
=============================================================================
