------------------------------ MODULE EventLoop ------------------------------
(***************************************************************************)
(* src/simple_epoll/event.h and event.cpp: the table g_events of event_s   *)
(* structures, event_add and event_del, which keep it and the epoll        *)
(* interest list in step, and the batch dispatch_events works through.     *)
(*                                                                         *)
(* The code reaches an event_s through the pointer epoll hands back; here  *)
(* it is an index of g_events.  The field arg always points to the         *)
(* structure itself and last_active is written and never read, so both are *)
(* left out; events is the set of the flags or-ed into the int.            *)
(***************************************************************************)
EXTENDS EpollKernel

CONSTANTS
  MaxEvents,  \* MAX_EVENTS: connections the table has room for
  BufLen,     \* BUFF_LEN
  NoFd        \* the descriptor of an event_s never set

ASSUME EventLoopAssumption ==
  /\ MaxEvents \in Nat \ {0}
  /\ BufLen \in 1..255    \* len fits a byte: see StoredLen in SimpleServer
  /\ NoFd \notin AllFds

VARIABLES
  g_events,   \* the event table
  batch,      \* events epoll_wait has returned and the loop has not reached
  cur,        \* the event the loop is at
  pc          \* where the one thread of the server is

loopVars == <<g_events, batch, cur, pc>>

Slots      == 0..(MaxEvents - 1)
ListenSlot == MaxEvents           \* the last one, for the listening socket
AllSlots   == 0..MaxEvents

Handlers == {"none", "handle_accept", "handle_recv", "handle_send"}

EventStruct == [fd: AllFds \cup {NoFd}, events: SUBSET {EPOLLIN, EPOLLOUT},
                call_back: Handlers, status: {0, 1},
                buf: Seq(Byte), len: 0..BufLen]

(* An entry of the array epoll_wait fills.  conn is the connection it was  *)
(* reported for: not in the code, for the properties only.                 *)
EpollEvent == [slot: AllSlots, events: SUBSET {EPOLLIN, EPOLLOUT},
               conn: Conns \cup {NoConn}]
NoEvent == [slot |-> -1, events |-> {}, conn |-> NoConn]

-----------------------------------------------------------------------------
(* set_event, event_add and event_del as what they make of the structure   *)
(* and of the interest list.  Both of the latter ignore epoll_ctl's        *)
(* result.                                                                 *)

SetEvent(ev, fd, call_back) ==
  [ev EXCEPT !.fd = fd, !.call_back = call_back, !.events = {}, !.status = 0]

EventAdd(ev, events) == [ev EXCEPT !.status = 1, !.events = events]

(* Mutant: the two operations swapped. *)
EventAddCtlSwapped(list, slot, ev, events, ok) ==
  IF ok
  THEN EpollCtl(list, IF ev.status = 1 THEN "ADD" ELSE "MOD", ev.fd,
                [slot |-> slot, events |-> events])
  ELSE list

EventAddCtl(list, slot, ev, events, ok) ==
  IF ok
  THEN EpollCtl(list, IF ev.status = 1 THEN "MOD" ELSE "ADD", ev.fd,
                [slot |-> slot, events |-> events])
  ELSE list

(* Mutant: the structure stays marked as in use. *)
EventDelKeepsStatus(ev) == ev

EventDel(ev) == [ev EXCEPT !.status = 0]

(* Mutant: EPOLL_CTL_DEL is forgotten. *)
EventDelCtlForgotten(list, ev) == list

EventDelCtl(list, ev) ==
  IF ev.status = 1 THEN EpollCtl(list, "DEL", ev.fd, Unregistered) ELSE list

-----------------------------------------------------------------------------
(* dispatch_events: one epoll_wait and the loop over what it returned.     *)

ConnOf(fd) == IF fd = ListenFd THEN NoConn ELSE fdTable[fd]

ReadyEvents ==
  {[slot |-> interest[fd].slot, events |-> Reported(fd), conn |-> ConnOf(fd)] :
     fd \in {f \in AllFds : Reported(f) # {}}}

(* Returns as many events as are ready and fit, in an order of the         *)
(* kernel's choice: the batch is a set the loop takes entries from.  With  *)
(* none ready it returns 0 after a second and the loop starts over.        *)
EpollWait ==
  /\ pc = "epoll_wait"
  /\ \E events \in SUBSET ReadyEvents :
       /\ \/ Cardinality(events) = MaxEvents + 1
          \/ events = ReadyEvents /\ Cardinality(events) <= MaxEvents + 1
       /\ batch' = events
       /\ pc' = IF events = {} THEN "epoll_wait" ELSE "if_in"
  /\ UNCHANGED <<kernelVars, g_events, cur>>

(* epoll_wait returns -1 (EINTR after SIGSTOP and SIGCONT, say):           *)
(* dispatch_events returns false, run() breaks and main() returns.         *)
EpollWaitError ==
  /\ "epoll_wait" \in Faults
  /\ pc = "epoll_wait"
  /\ pc' = "exit"
  /\ UNCHANGED <<kernelVars, g_events, batch, cur>>

NextEvent == IF batch = {} THEN "epoll_wait" ELSE "if_in"

-----------------------------------------------------------------------------

LoopTypeOK ==
  /\ g_events \in [AllSlots -> EventStruct]
  /\ interest \in [AllFds -> [slot: AllSlots, events: SUBSET {EPOLLIN, EPOLLOUT}]
                             \cup {Unregistered}]
  /\ batch \in SUBSET EpollEvent
  /\ cur \in EpollEvent \cup {NoEvent}
  /\ pc \in {"start", "epoll_wait", "if_in", "if_out", "exit", "killed"}

LoopInit ==
  /\ g_events = [s \in AllSlots |->
                   [fd |-> NoFd, events |-> {}, call_back |-> "none",
                    status |-> 0, buf |-> <<>>, len |-> 0]]
  /\ batch = {}
  /\ cur = NoEvent
  /\ pc = "start"
=============================================================================
