----------------------------- MODULE ServerSocket -----------------------------
(***************************************************************************)
(* src/epoll_server/server_socket.cpp and server_socket.h: objects that    *)
(* carry a descriptor number.                                              *)
(*                                                                         *)
(* A ServerSocket closes its number when it is destroyed.  The class has   *)
(* no copy constructor and no assignment of its own: copies carry the same *)
(* number, and each of them closes it.  The kernel gives out the lowest    *)
(* number that is not open, so a number that was closed once too often may *)
(* be somebody else's by then.                                             *)
(*                                                                         *)
(* System calls that fail leave everything as it is, whether the method    *)
(* throws, returns false, or takes no notice: they are no steps here.  An  *)
(* application works on its objects from several threads, and one object   *)
(* from one thread at a time.                                              *)
(***************************************************************************)
EXTENDS Integers, FiniteSets

CONSTANTS
  Objects,    \* places for ServerSocket objects
  Fds,        \* bound: the descriptor numbers the process can have open
  NoObject    \* there is no object at this place

INVALID_SOCKET == -1

ASSUME ServerSocketAssumption ==
  /\ Fds \subseteq Nat
  /\ NoObject \notin Fds \cup {INVALID_SOCKET}

VARIABLES
  open,        \* numbers that are open
  nonblock,    \* those whose open file has O_NONBLOCK
  sockfd,      \* _sockfd of every object
  blocking,    \* objects whose _blocking is true
  own,         \* history: objects whose number stands for the file they got
  copied,      \* history: objects whose number is another's copy, or was copied
  contested,   \* history: objects whose number others had before, by no copy of it
  overwritten  \* history: open numbers whose last object was assigned over

socketVars == <<open, nonblock, sockfd, blocking, own, copied, contested, overwritten>>

Exists(o)   == sockfd[o] # NoObject
Holders(fd) == {o \in Objects : sockfd[o] = fd}

(* What the kernel returns for a new descriptor. *)
IsNextFd(fd) == fd \in Fds \ open /\ \A x \in Fds \ open : fd <= x

SocketInit ==
  /\ open = {} /\ nonblock = {}
  /\ sockfd = [o \in Objects |-> NoObject]
  /\ blocking = {}
  /\ own = {} /\ copied = {} /\ contested = {} /\ overwritten = {}

(* o gets a descriptor that the kernel has just opened: socket() in        *)
(* initSocket, accept() in acceptConnection.  What is left of an earlier   *)
(* socket may still carry the number: o has to contend with it.            *)
Opened(o, fd) ==
  /\ open' = open \cup {fd}
  /\ sockfd' = [sockfd EXCEPT ![o] = fd]
  /\ own' = own \cup {o}
  /\ copied' = copied \ {o}
  /\ contested' = IF Holders(fd) = {} THEN contested \ {o} ELSE contested \cup {o}
  /\ UNCHANGED overwritten

(* The numbers in nums are closed, and the objects in S lose theirs. *)
Closed(nums, S) ==
  /\ open' = open \ nums
  /\ nonblock' = nonblock \ nums
  /\ own' = {o \in own : sockfd[o] \notin nums}
  /\ overwritten' = overwritten \ nums
  /\ copied' = copied \ S
  /\ contested' = contested \ S

(* The objects in S are destroyed. *)
DestroyAll(S) ==
  /\ Closed({sockfd[o] : o \in S} \cap Fds, S)
  /\ sockfd' = [o \in Objects |-> IF o \in S THEN NoObject ELSE sockfd[o]]
  /\ blocking' = blocking \ S

(* The objects in S are constructed as copies of p. *)
CopyAll(S, p) ==
  /\ sockfd' = [o \in Objects |-> IF o \in S THEN sockfd[p] ELSE sockfd[o]]
  /\ blocking' = IF p \in blocking THEN blocking \cup S ELSE blocking
  /\ own' = IF p \in own THEN own \cup S ELSE own
  /\ copied' = IF sockfd[p] \in Fds THEN copied \cup S \cup {p} ELSE copied
  /\ UNCHANGED <<open, nonblock, contested, overwritten>>

-----------------------------------------------------------------------------

Construct(o) ==
  /\ ~Exists(o)
  /\ sockfd' = [sockfd EXCEPT ![o] = INVALID_SOCKET]
  /\ UNCHANGED <<open, nonblock, blocking, own, copied, contested, overwritten>>

(* ServerSocket(int) takes any number for a descriptor, open or not:       *)
(* EchoServer::main passes its port.                                       *)
ConstructFrom(o, fd) ==
  /\ ~Exists(o)
  /\ sockfd' = [sockfd EXCEPT ![o] = fd]
  /\ contested' = contested \cup {o} \cup Holders(fd)
  /\ UNCHANGED <<open, nonblock, blocking, own, copied, overwritten>>

Copy(o, p) == ~Exists(o) /\ Exists(p) /\ CopyAll({o}, p)

(* The default operator=: what o had stays open. *)
Assign(o, p) ==
  /\ Exists(o) /\ Exists(p) /\ o # p
  /\ sockfd' = [sockfd EXCEPT ![o] = sockfd[p]]
  /\ blocking' = IF p \in blocking THEN blocking \cup {o} ELSE blocking \ {o}
  /\ own' = IF p \in own THEN own \cup {o}
            ELSE IF sockfd[o] = sockfd[p] THEN own ELSE own \ {o}
  /\ copied' = IF sockfd[p] \in Fds THEN copied \cup {o, p} ELSE copied \ {o}
  /\ overwritten' = overwritten \cup {fd \in open : Holders(fd) = {o}}
  /\ UNCHANGED <<open, nonblock, contested>>

Destroy(o) == Exists(o) /\ DestroyAll({o})

(* Mutant: the member keeps its number. *)
CloseKept(o) ==
  /\ Exists(o) /\ sockfd[o] # INVALID_SOCKET
  /\ Closed({sockfd[o]}, {o})
  /\ UNCHANGED <<sockfd, blocking>>

Close(o) ==
  /\ Exists(o) /\ sockfd[o] # INVALID_SOCKET
  /\ Closed({sockfd[o]}, {o})
  /\ sockfd' = [sockfd EXCEPT ![o] = INVALID_SOCKET]
  /\ UNCHANGED blocking

(* Mutant: without the test for a socket that is open. *)
InitSocketAnew(o) ==
  /\ Exists(o)
  /\ \E fd \in Fds : IsNextFd(fd) /\ Opened(o, fd)
  /\ UNCHANGED <<nonblock, blocking>>

(* bind, bind6 and connect open a socket if there is none; whether the     *)
(* binding or the connection succeeds changes nothing else.                *)
InitSocket(o) ==
  /\ sockfd[o] = INVALID_SOCKET
  /\ \E fd \in Fds : IsNextFd(fd) /\ Opened(o, fd)
  /\ UNCHANGED <<nonblock, blocking>>

(* accept() does not hand O_NONBLOCK on to the new descriptor. *)
AcceptConnection(o, q) ==
  /\ Exists(o) /\ sockfd[o] \in open
  /\ ~Exists(q)
  /\ \E fd \in Fds : IsNextFd(fd) /\ Opened(q, fd)
  /\ UNCHANGED <<nonblock, blocking>>

(* fcntl throws on a number that is not open. *)
SetBlocking(o, flag) ==
  /\ Exists(o) /\ sockfd[o] \in open
  /\ nonblock' = IF flag THEN nonblock \ {sockfd[o]} ELSE nonblock \cup {sockfd[o]}
  /\ blocking' = IF flag THEN blocking \cup {o} ELSE blocking \ {o}
  /\ UNCHANGED <<open, sockfd, own, copied, contested, overwritten>>

(* Mutant: O_NONBLOCK is set without setBlocking. *)
ConnectNBFcntl(o) ==
  /\ sockfd[o] = INVALID_SOCKET
  /\ \E fd \in Fds : /\ IsNextFd(fd)
                     /\ Opened(o, fd)
                     /\ nonblock' = nonblock \cup {fd}
  /\ UNCHANGED blocking

(* connectNB on an open socket is setBlocking(false). *)
ConnectNB(o) ==
  /\ sockfd[o] = INVALID_SOCKET
  /\ \E fd \in Fds : /\ IsNextFd(fd)
                     /\ Opened(o, fd)
                     /\ nonblock' = nonblock \cup {fd}
  /\ blocking' = blocking \ {o}

(* What receiveBytes makes of a recv() that failed; 0 stands for an        *)
(* exception, as for any error of sendBytes.  A blocking object tries      *)
(* again after EINTR.                                                      *)
ReceiveBytes(o, errno) ==
  IF sockfd[o] = INVALID_SOCKET \/ (errno = "EAGAIN" /\ o \notin blocking) THEN -1
  ELSE IF errno \in {"EAGAIN", "ETIMEDOUT"} THEN -2
  ELSE 0

SocketNext == \E o \in Objects :
  \/ Construct(o)
  \/ \E fd \in Fds : ConstructFrom(o, fd)
  \/ \E p \in Objects : Copy(o, p) \/ Assign(o, p) \/ AcceptConnection(o, p)
  \/ Destroy(o)
  \/ Close(o)
  \/ InitSocket(o)
  \/ ConnectNB(o)
  \/ \E flag \in BOOLEAN : SetBlocking(o, flag)

SocketSpec == SocketInit /\ [][SocketNext]_socketVars

-----------------------------------------------------------------------------

SocketTypeOK ==
  /\ open \subseteq Fds /\ nonblock \subseteq open /\ overwritten \subseteq open
  /\ sockfd \in [Objects -> Fds \cup {INVALID_SOCKET, NoObject}]
  /\ blocking \subseteq Objects /\ own \subseteq Objects
  /\ copied \subseteq Objects /\ contested \subseteq Objects

(* An object that was given a descriptor, and whose number was never       *)
(* copied, has it until it gives it up itself.  There is one way in which  *)
(* the code takes it away: an object that carries the same number without  *)
(* having this descriptor (left over from an earlier socket, or made from  *)
(* the number) closes it.  Where no such object was about when the number  *)
(* was given out, nor made later, nothing closed or reused takes it.       *)
KeepsDescriptor == [][
  \A o \in own \ copied :
    \/ o \in own'
    \/ sockfd'[o] # sockfd[o]
    \/ o \in contested /\ \E p \in Holders(sockfd[o]) \ own : sockfd'[p] # sockfd[p]]_socketVars

(* The program has an object for every open descriptor, unless the last    *)
(* one was assigned over: nothing else forgets a descriptor.               *)
NoDescriptorLost == \A fd \in open \ overwritten : Holders(fd) # {}

(* recv() on a file with O_NONBLOCK fails with EAGAIN when no data is      *)
(* there.  receiveBytes goes by the _blocking of the object; where no      *)
(* other object ever had the number at the same time, by a copy or left    *)
(* over, this is never taken for a connection that timed out: -1, not -2.  *)
NoDataIsNoTimeout ==
  \A o \in Objects \ (copied \cup contested) :
    sockfd[o] \in nonblock => ReceiveBytes(o, "EAGAIN") = -1
=============================================================================
