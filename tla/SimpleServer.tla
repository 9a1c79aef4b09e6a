----------------------------- MODULE SimpleServer -----------------------------
(***************************************************************************)
(* src/simple_epoll/server.cpp: the single-threaded echo server on top of  *)
(* the event loop.  A handler runs to completion between two steps of its  *)
(* clients: what a client does while it runs commutes with everything the  *)
(* handler does after its one accept, recv or send.                        *)
(***************************************************************************)
EXTENDS EventLoop

vars == <<kernelVars, loopVars>>

(* socket, bind, epoll_create: start_server returns -1 on each failure.    *)
(* The registration of the listening socket is not checked.                *)
StartServer ==
  /\ pc = "start"
  /\ LET ev == SetEvent(g_events[ListenSlot], ListenFd, "handle_accept")
     IN  \E ok \in CtlOutcomes :
           /\ g_events' = [g_events EXCEPT ![ListenSlot] = EventAdd(ev, {EPOLLIN})]
           /\ interest' = EventAddCtl(interest, ListenSlot, ev, {EPOLLIN}, ok)
  /\ pc' = "epoll_wait"
  /\ UNCHANGED <<connVars, batch, cur>>

StartServerError ==
  /\ "startup" \in Faults
  /\ pc = "start"
  /\ pc' = "exit"
  /\ UNCHANGED <<kernelVars, g_events, batch, cur>>

-----------------------------------------------------------------------------
(* The tail every successful handler shares: set_event(ev, fd, call_back,  *)
(* ev) and event_add(events, ev), for an ev that event_del may just have   *)
(* taken out of the interest list.                                         *)
SetAndAdd(s, ev, fd, call_back, events) ==
  LET fresh == SetEvent(ev, fd, call_back)
  IN  \E ok \in CtlOutcomes :
        /\ g_events' = [g_events EXCEPT ![s] = EventAdd(fresh, events)]
        /\ interest' = EventAddCtl(EventDelCtl(interest, g_events[s]),
                                   s, fresh, events, ok)

(* event_del(ev) and close(ev->fd).  Closing the last descriptor of a      *)
(* socket takes it out of the interest list as well.                       *)
DelAndClose(s) ==
  LET ev == g_events[s]
  IN  /\ g_events' = [g_events EXCEPT ![s] = EventDel(ev)]
      /\ interest' = EpollCtl(interest, "DEL", ev.fd, Unregistered)
      /\ fdTable' = [fdTable EXCEPT ![ev.fd] = NoConn]
      /\ sock' = [c \in Conns |-> IF c = fdTable[ev.fd] THEN "closed" ELSE sock[c]]

-----------------------------------------------------------------------------
(* handle_accept *)

(* The search for the first slot that is not in use. *)
FreeSlots == {i \in Slots : g_events[i].status = 0}
FirstFree == {i \in FreeSlots : \A j \in FreeSlots : i <= j}

(* accept() fails: EAGAIN, or EMFILE when the descriptors are used up. *)
AcceptFails ==
  /\ backlog = <<>> \/ FreeFds = {}
  /\ UNCHANGED <<kernelVars, g_events>>

(* With no free slot, or when fcntl fails, the accepted descriptor stays   *)
(* open and is forgotten.                                                  *)
Forgotten == FreeSlots = {} \/ "fcntl" \in Faults

HandleAccept ==
  \/ AcceptFails
  \/ /\ backlog # <<>>
     /\ \E fd \in FreeFds :
          /\ fdTable' = [fdTable EXCEPT ![fd] = Head(backlog)]
          /\ sock' = [sock EXCEPT ![Head(backlog)] = "accepted"]
          /\ \/ \E i \in FirstFree :
                  SetAndAdd(i, g_events[i], fd, "handle_recv", {EPOLLIN})
             \/ Forgotten /\ UNCHANGED <<g_events, interest>>
     /\ backlog' = Tail(backlog)
     /\ UNCHANGED <<peer, sent, rcvd, out, got>>

-----------------------------------------------------------------------------
(* handle_recv *)

RecvLen(c) == IF Avail(c) < BufLen THEN Avail(c) ELSE BufLen

(* ev->len = len; ev->buf[len] = '\0'.  With a full buffer the second      *)
(* assignment is past the array's end, where the low byte of len lies: it  *)
(* is 0 afterwards, unless the compiler orders the assignments the other   *)
(* way round.                                                              *)
StoredLen(len) == IF len = BufLen THEN {0, len} ELSE {len}

(* recv() > 0: turn the event into a send event. *)
RecvData(s, c) ==
  /\ Avail(c) > 0
  /\ rcvd' = [rcvd EXCEPT ![c] = @ + RecvLen(c)]
  /\ \E len \in StoredLen(RecvLen(c)) :
       SetAndAdd(s, [EventDel(g_events[s]) EXCEPT
                       !.len = len, !.buf = Bytes(c, rcvd[c], RecvLen(c))],
                 g_events[s].fd, "handle_send", {EPOLLOUT})
  /\ UNCHANGED <<peer, backlog, sock, fdTable, sent, out, got>>

(* Mutant: event_del without the close. *)
RecvEndsOpen(s, c) ==
  /\ Avail(c) = 0
  /\ g_events' = [g_events EXCEPT ![s] = EventDel(@)]
  /\ interest' = EventDelCtl(interest, g_events[s])
  /\ UNCHANGED <<connVars>>

(* Mutant: a hangup closes before what came ahead of it is read. *)
RecvEndsAtHangup(s, c) ==
  /\ peer[c] # "up"
  /\ DelAndClose(s)
  /\ UNCHANGED <<peer, backlog, sent, rcvd, out, got>>

(* recv() = 0, or recv() < 0 with any errno, EAGAIN included. *)
RecvEnds(s, c) ==
  /\ Avail(c) = 0
  /\ DelAndClose(s)
  /\ UNCHANGED <<peer, backlog, sent, rcvd, out, got>>

HandleRecv(s) ==
  LET c == fdTable[g_events[s].fd] IN RecvData(s, c) \/ RecvEnds(s, c)

-----------------------------------------------------------------------------
(* handle_send *)

(* What send() accepts of len bytes. *)
SendLen(c, len) == IF len < Space(c) THEN len ELSE Space(c)

(* Mutant: the event stays a send event. *)
SendDataAgain(s, c) ==
  /\ peer[c] \in {"up", "fin"}
  /\ SendLen(c, g_events[s].len) > 0
  /\ out' = [out EXCEPT ![c] =
               @ \o SubSeq(g_events[s].buf, 1, SendLen(c, g_events[s].len))]
  /\ SetAndAdd(s, EventDel(g_events[s]), g_events[s].fd, "handle_send", {EPOLLOUT})
  /\ UNCHANGED <<peer, backlog, sock, fdTable, sent, rcvd, got>>

(* send() > 0: go back to receiving.  Bytes send() did not accept are      *)
(* dropped.                                                                *)
SendData(s, c) ==
  /\ peer[c] \in {"up", "fin"}
  /\ SendLen(c, g_events[s].len) > 0
  /\ out' = [out EXCEPT ![c] =
               @ \o SubSeq(g_events[s].buf, 1, SendLen(c, g_events[s].len))]
  /\ SetAndAdd(s, EventDel(g_events[s]), g_events[s].fd, "handle_recv", {EPOLLIN})
  /\ UNCHANGED <<peer, backlog, sock, fdTable, sent, rcvd, got>>

(* send() returns 0 for an empty buffer, or -1 (EAGAIN, ECONNRESET). *)
SendEnds(s, c) ==
  /\ \/ peer[c] = "rst"
     \/ peer[c] \in {"up", "fin"} /\ SendLen(c, g_events[s].len) <= 0
  /\ DelAndClose(s)
  /\ UNCHANGED <<peer, backlog, sent, rcvd, out, got>>

HandleSend(s) ==
  LET c == fdTable[g_events[s].fd] IN SendData(s, c) \/ SendEnds(s, c)

(* EPIPE: the flags are 0 and SIGPIPE keeps its default action.            *)
RaisesSigpipe(s) ==
  /\ g_events[s].call_back = "handle_send"
  /\ peer[fdTable[g_events[s].fd]] = "finrst"

-----------------------------------------------------------------------------
(* The two tests dispatch_events makes of each event, in order, both of    *)
(* them against the interest the event_s has by then.                      *)

(* Mutant: only the interest is tested. *)
WantsUnreported(e, flag) == flag \in g_events[e.slot].events

Wants(e, flag) == flag \in e.events /\ flag \in g_events[e.slot].events

(* ev->call_back(ev->fd, events, ev->arg) *)
CallBack(s, next) ==
  \/ /\ RaisesSigpipe(s)
     /\ pc' = "killed"
     /\ UNCHANGED <<kernelVars, g_events>>
  \/ /\ ~RaisesSigpipe(s)
     /\ \/ g_events[s].call_back = "handle_accept" /\ HandleAccept
        \/ g_events[s].call_back = "handle_recv"   /\ HandleRecv(s)
        \/ g_events[s].call_back = "handle_send"   /\ HandleSend(s)
     /\ pc' = next

DispatchIn ==
  /\ pc = "if_in"
  /\ \E e \in batch :
       /\ cur' = e
       /\ batch' = batch \ {e}
       /\ \/ Wants(e, EPOLLIN) /\ CallBack(e.slot, "if_out")
          \/ /\ ~Wants(e, EPOLLIN)
             /\ pc' = "if_out"
             /\ UNCHANGED <<kernelVars, g_events>>

DispatchOut ==
  /\ pc = "if_out"
  /\ cur' = NoEvent
  /\ UNCHANGED batch
  /\ \/ Wants(cur, EPOLLOUT) /\ CallBack(cur.slot, NextEvent)
     \/ /\ ~Wants(cur, EPOLLOUT)
        /\ pc' = NextEvent
        /\ UNCHANGED <<kernelVars, g_events>>

-----------------------------------------------------------------------------

Serving == pc \in {"epoll_wait", "if_in", "if_out"}

Client ==
  /\ Serving
  /\ \E c \in Conns : \/ ClientConnect(c)
                      \/ ClientSend(c)
                      \/ ClientRead(c)
                      \/ ClientHangup(c)
                      \/ ClientReset(c)
  /\ UNCHANGED loopVars

Server ==
  \/ StartServer
  \/ StartServerError
  \/ EpollWait
  \/ EpollWaitError
  \/ DispatchIn
  \/ DispatchOut

Init == KernelInit /\ LoopInit
Next == Server \/ Client
Spec == Init /\ [][Next]_vars

(* The loop is never blocked by anything but an empty epoll_wait, and the  *)
(* clients of the liveness runs read what they are sent.                   *)
ClientReads(c) == Serving /\ ClientRead(c) /\ UNCHANGED loopVars
FairSpec == Spec /\ WF_vars(Server) /\ \A c \in Conns : WF_vars(ClientReads(c))

-----------------------------------------------------------------------------
(* Safety.                                                                 *)

(* Type correctness of the kernel's and of the loop's state, the buffer of *)
(* an event_s being at most BUFF_LEN long included.                        *)
TypeOK ==
  /\ KernelTypeOK
  /\ LoopTypeOK
  /\ \A s \in AllSlots : Len(g_events[s].buf) <= BufLen

Registered(fd) == interest[fd] # Unregistered

(* The interest list and g_events agree (event_add, event_del): whatever   *)
(* is registered belongs to a slot in use, for the same descriptor and the *)
(* same events; and, unless epoll_ctl fails, the other way round.          *)
RegistrationMatches ==
  /\ \A fd \in AllFds : Registered(fd) =>
       /\ g_events[interest[fd].slot].status = 1
       /\ g_events[interest[fd].slot].fd = fd
       /\ g_events[interest[fd].slot].events = interest[fd].events
  /\ "epoll_ctl" \notin Faults =>
       \A s \in AllSlots : g_events[s].status = 1 => Registered(g_events[s].fd)

(* The events dispatch_events has yet to act upon: a handler already run   *)
(* may have closed, reused or re-armed what they refer to.                 *)
Pending == batch \cup {e \in {cur} : pc = "if_out" /\ Wants(e, EPOLLOUT)}

Fresh(e) ==
  /\ g_events[e.slot].status = 1
  /\ e.events = g_events[e.slot].events
  /\ ConnOf(g_events[e.slot].fd) = e.conn
  /\ g_events[e.slot].call_back = "handle_accept" => backlog # <<>>
  /\ g_events[e.slot].call_back = "handle_recv" => Readable(e.conn)
  /\ g_events[e.slot].call_back = "handle_send" => Writable(e.conn)

(* No handler runs on a stale event: when its turn comes its slot is in    *)
(* use, for the connection epoll_wait reported and the event it reported,  *)
(* and recv, send or accept still has something to do.  The handlers close *)
(* the connection on EAGAIN, so they rely on it.                           *)
FreshBatch == pc \in {"if_in", "if_out"} => \A e \in Pending : Fresh(e)

Owners(fd) == {s \in Slots : g_events[s].status = 1 /\ g_events[s].fd = fd}

(* Slots and descriptors: a slot in use has an open descriptor no other    *)
(* slot has, and a connection has one descriptor from accept() to close(). *)
FdOwnership ==
  /\ \A s \in Slots : g_events[s].status = 1 =>
       /\ g_events[s].fd \in Fds
       /\ fdTable[g_events[s].fd] # NoConn
       /\ Owners(g_events[s].fd) = {s}
  /\ \A fd, gd \in Fds : fdTable[fd] = fdTable[gd] => fd = gd \/ fdTable[fd] = NoConn
  /\ \A c \in Conns : sock[c] = "accepted" <=> \E fd \in Fds : fdTable[fd] = c

(* As long as there are slots for all the clients, finitely many, and      *)
(* fcntl works, every open descriptor is in the table: handle_accept,      *)
(* handle_recv and handle_send lose none on any path.                      *)
NoFdForgotten ==
  (IsFiniteSet(Conns) /\ Cardinality(Conns) <= MaxEvents /\ "fcntl" \notin Faults) =>
    \A fd \in Fds : fdTable[fd] # NoConn => Owners(fd) # {}

(* A client gets its own bytes, in the order it sent them and each once;   *)
(* and all of them up to the last it got, when epoll reports EPOLLOUT only *)
(* with room for a whole buffer: handle_send drops what send() leaves.     *)
EchoFaithful ==
  \A c \in Conns :
    /\ \A i \in 1..Len(out[c]) :
         /\ out[c][i] \in {c} \X (1..rcvd[c])
         /\ i > 1 => out[c][i - 1][2] < out[c][i][2]
    /\ SndLow >= BufLen => out[c] = Bytes(c, 0, Len(out[c]))

-----------------------------------------------------------------------------
(* The server implements EchoProtocol.                                     *)

OwnerOf(c) == {s \in Slots : \E fd \in Fds : fdTable[fd] = c /\ s \in Owners(fd)}
Writing(c) == \E s \in OwnerOf(c) : g_events[s].call_back = "handle_send"

PhaseOf(c) ==
  CASE sock[c] = "none"    -> "idle"
    [] sock[c] = "backlog" -> "queued"
    [] sock[c] = "closed"  -> "closed"
    [] OTHER -> IF OwnerOf(c) = {} THEN "abandoned"
                ELSE IF Writing(c) THEN "writing" ELSE "reading"

SlotFor(c) == CHOOSE s \in OwnerOf(c) : TRUE
ChunkOf(c) == IF Writing(c) THEN g_events[SlotFor(c)].buf ELSE <<>>

Echo == INSTANCE EchoProtocol WITH
  phase <- [c \in Conns |-> PhaseOf(c)],
  queue <- backlog,
  taken <- rcvd,
  chunk <- [c \in Conns |-> ChunkOf(c)],
  reply <- out,
  MaxServed <- MaxEvents,
  MayAbandon <- "fcntl" \in Faults,
  MayTruncate <- SndLow < BufLen

(* Whatever the interleaving of clients, handlers and faults, what a       *)
(* client sees of handle_accept, handle_recv and handle_send is strict     *)
(* half-duplex service: it is turned away only when all MAX_EVENTS slots   *)
(* are in use, and closed only when EchoProtocol says.                     *)
ImplementsEcho == Echo!Spec

-----------------------------------------------------------------------------
(* Liveness, for an environment without faults.                            *)

Open(c) == sock[c] = "accepted"

(* dispatch_events keeps up: what reaches an accepted connection comes     *)
(* back, or the connection is closed.                                      *)
Answered ==
  \A c \in Conns : \A k \in 1..MaxBytes :
    (Open(c) /\ sent[c] >= k) ~> (Len(out[c]) >= k \/ sock[c] = "closed")

(* A client that hangs up is noticed and its descriptor given back.        *)
HangupSeen == \A c \in Conns : (Open(c) /\ peer[c] = "fin") ~> (sock[c] = "closed")

(* Every connection in the listening socket's queue is accepted.           *)
EventuallyAccepted == \A c \in Conns : (sock[c] = "backlog") ~> Open(c)

-----------------------------------------------------------------------------
(* What the repository says and the program does not do.                   *)

(* README.md:42: with level triggering data left unread is notified again, *)
(* so the server closes no connection with data it has not read, unless    *)
(* the client has reset it.                                                *)
LeftoverNotLost ==
  [][\A c \in Conns : (sock[c] = "accepted" /\ sock'[c] = "closed") =>
        Avail(c) = 0 \/ peer[c] \in {"rst", "finrst"}]_vars
=============================================================================
