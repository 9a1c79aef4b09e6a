-------------------------- MODULE SimpleServerProofs --------------------------
(***************************************************************************)
(* The safety properties of SimpleServer, for every value of its constants.*)
(*                                                                         *)
(* None of them is inductive alone: FreshBatch needs to know that no two   *)
(* slots share a descriptor and no two entries of a batch a slot, which    *)
(* follows from the agreement of g_events and the interest list, which a   *)
(* handler keeps only because it runs for a slot in use.  IInv puts them   *)
(* together.                                                               *)
(*                                                                         *)
(* Under IInv each step of the server is a step of EchoProtocol or a       *)
(* stutter.  What is delivered to the clients and which connections are    *)
(* served is then argued about EchoProtocol's steps.                       *)
(***************************************************************************)
EXTENDS SimpleServer, TLAPS, FiniteSetTheorems, FunctionTheorems, SequenceTheorems

(***************************************************************************)
(* The inductive invariant.                                                *)
(***************************************************************************)

InUse(s) == g_events[s].status = 1

(* TypeOK without the loop's place in its batch. *)
TableTypeOK ==
  /\ g_events \in [AllSlots -> EventStruct]
  /\ interest \in [AllFds -> [slot: AllSlots, events: SUBSET {EPOLLIN, EPOLLOUT}]
                             \cup {Unregistered}]
  /\ \A s \in AllSlots : Len(g_events[s].buf) <= BufLen

(* Before start_server has registered the listening socket. *)
NotStarted ==
  pc = "start" =>
    /\ \A s \in AllSlots : ~InUse(s)
    /\ \A fd \in AllFds : ~Registered(fd)

(* The handler of a slot goes with the event it waits for. *)
KindOK(ev) ==
  \/ ev.call_back = "handle_recv" /\ ev.events = {EPOLLIN}
  \/ ev.call_back = "handle_send" /\ ev.events = {EPOLLOUT}

SlotKind ==
  /\ \A s \in Slots : InUse(s) =>
       /\ g_events[s].fd \in Fds
       /\ fdTable[g_events[s].fd] \in Conns
       /\ KindOK(g_events[s])
  /\ InUse(ListenSlot) =>
       /\ g_events[ListenSlot].fd = ListenFd
       /\ g_events[ListenSlot].call_back = "handle_accept"
       /\ g_events[ListenSlot].events = {EPOLLIN}
  /\ \A s \in AllSlots : g_events[s].len <= Len(g_events[s].buf)

OneSlotPerFd ==
  \A s, t \in AllSlots :
    InUse(s) /\ InUse(t) /\ g_events[s].fd = g_events[t].fd => s = t

TableOK == TableTypeOK /\ SlotKind /\ OneSlotPerFd /\ RegistrationMatches

(* Connections, the queue and the descriptor table. *)
ConnsOK ==
  /\ \A c \in Conns : peer[c] = "absent" => sock[c] = "none"
  /\ \A c \in Conns : rcvd[c] <= sent[c]
  /\ \A i \in 1..Len(backlog) : sock[backlog[i]] = "backlog"
  /\ \A i, j \in 1..Len(backlog) : backlog[i] = backlog[j] => i = j
  /\ \A fd, gd \in Fds : fdTable[fd] = fdTable[gd] => fd = gd \/ fdTable[fd] = NoConn
  /\ \A c \in Conns : sock[c] = "accepted" <=> \E fd \in Fds : fdTable[fd] = c

Core == KernelTypeOK /\ ConnsOK /\ TableOK

(* No two events of a batch, nor the current one and one to come, are for  *)
(* the same slot.                                                          *)
OneEventPerSlot ==
  /\ pc \in {"if_in", "if_out"} =>
       \A e, f \in batch : e.slot = f.slot => e = f
  /\ pc = "if_out" => cur \in EpollEvent /\ \A e \in batch : e.slot # cur.slot

BatchTypeOK ==
  /\ batch \in SUBSET EpollEvent
  /\ cur \in EpollEvent \cup {NoEvent}
  /\ pc \in {"start", "epoll_wait", "if_in", "if_out", "exit", "killed"}

IInv == Core /\ BatchTypeOK /\ NotStarted /\ OneEventPerSlot /\ FreshBatch

-----------------------------------------------------------------------------
(***************************************************************************)
(* What a handler does to the table: it sets a slot and registers it, or   *)
(* it takes it out and closes its descriptor.                              *)
(***************************************************************************)

SetShape(s, fd, new) ==
  /\ new \in EventStruct
  /\ new.status = 1 /\ new.fd = fd /\ KindOK(new)
  /\ new.len <= Len(new.buf) /\ Len(new.buf) <= BufLen
  /\ g_events' = [g_events EXCEPT ![s] = new]
  /\ \E entry \in {Unregistered, [slot |-> s, events |-> new.events]} :
       /\ interest' = [interest EXCEPT ![fd] = entry]
       /\ "epoll_ctl" \notin Faults => entry # Unregistered

(* set_event and event_add after event_del, or for a slot and a descriptor *)
(* that are not registered: one entry of the interest list changes.        *)
LEMMA SetAndAddShape ==
  ASSUME Core,
         NEW s \in Slots, NEW ev \in EventStruct, NEW fd \in Fds,
         NEW call_back \in Handlers, NEW events \in SUBSET {EPOLLIN, EPOLLOUT},
         ev.len <= Len(ev.buf), Len(ev.buf) <= BufLen,
         \/ call_back = "handle_recv" /\ events = {EPOLLIN}
         \/ call_back = "handle_send" /\ events = {EPOLLOUT},
         (InUse(s) /\ g_events[s].fd = fd) \/ (~InUse(s) /\ ~Registered(fd)),
         SetAndAdd(s, ev, fd, call_back, events)
  PROVE  SetShape(s, fd, EventAdd(SetEvent(ev, fd, call_back), events))
<1> DEFINE fresh == SetEvent(ev, fd, call_back)
           new   == EventAdd(fresh, events)
           entry == [slot |-> s, events |-> events]
<1>1. /\ fd \in AllFds /\ s \in AllSlots
      /\ interest[fd] \in [slot: AllSlots, events: SUBSET {EPOLLIN, EPOLLOUT}]
                          \cup {Unregistered}
      /\ g_events[s] \in EventStruct
  BY EventLoopAssumption DEF Core, TableOK, TableTypeOK, AllFds, Slots, AllSlots
<1>2. /\ fresh.status = 0 /\ fresh.fd = fd
      /\ new.status = 1 /\ new.fd = fd /\ new.call_back = call_back
      /\ new.events = events /\ new.len = ev.len /\ new.buf = ev.buf
      /\ new \in EventStruct
  BY <1>1 DEF SetEvent, EventAdd, EventStruct
<1>3. PICK ok \in CtlOutcomes :
        /\ g_events' = [g_events EXCEPT ![s] = new]
        /\ interest' = EventAddCtl(EventDelCtl(interest, g_events[s]), s, fresh, events, ok)
  BY DEF SetAndAdd
<1> DEFINE list == EventDelCtl(interest, g_events[s])
<1>4. list = [interest EXCEPT ![fd] = Unregistered]
  <2>1. CASE InUse(s)
    BY <2>1, <1>1 DEF InUse, EventDelCtl, EpollCtl, Registered
  <2>2. CASE ~InUse(s)
    BY <2>2, <1>1 DEF InUse, EventDelCtl, EpollCtl, Registered, Core, TableOK, TableTypeOK
  <2> QED BY <2>1, <2>2
<1>5. list[fd] = Unregistered
  BY <1>4, <1>1 DEF Core, TableOK, TableTypeOK
<1>6. interest' = [interest EXCEPT ![fd] = IF ok THEN entry ELSE Unregistered]
  <2>1. CASE ok
    <3>1. interest' = EpollCtl(list, "ADD", fd, entry)
      BY <2>1, <1>3, <1>2 DEF EventAddCtl
    <3>2. interest' = [list EXCEPT ![fd] = entry]
      BY <3>1, <1>5 DEF EpollCtl
    <3> QED BY <3>2, <1>4, <2>1
  <2>2. CASE ~ok
    BY <2>2, <1>3, <1>4 DEF EventAddCtl
  <2> QED BY <2>1, <2>2
<1>7. "epoll_ctl" \notin Faults => ok
  BY DEF CtlOutcomes
<1>8. entry # Unregistered
  BY <1>1, EventLoopAssumption DEF Unregistered, Slots
<1> QED
  BY <1>2, <1>3, <1>6, <1>7, <1>8 DEF SetShape, KindOK

(* fdTable changes at one descriptor. *)
FdTableAt(fd, c) == fdTable' = [fdTable EXCEPT ![fd] = c]

(* The table is kept when a slot is set for its own descriptor, or a free  *)
(* slot for one that was not open.                                         *)
LEMMA SetKeepsTable ==
  ASSUME TableOK, fdTable \in [Fds -> Conns \cup {NoConn}],
         NEW s \in Slots, NEW fd \in Fds, NEW new, NEW c \in Conns,
         SetShape(s, fd, new), FdTableAt(fd, c),
         (InUse(s) /\ g_events[s].fd = fd) \/ (~InUse(s) /\ fdTable[fd] = NoConn)
  PROVE  TableOK'
<1> USE EventLoopAssumption, KernelAssumption
<1>0. /\ s \in AllSlots /\ ListenSlot \in AllSlots /\ s # ListenSlot /\ fd \in AllFds
      /\ fd # ListenFd /\ ListenFd \in AllFds
      /\ \A t \in AllSlots : t \in Slots \/ t = ListenSlot
  BY DEF Slots, AllSlots, ListenSlot, AllFds
<1>1. PICK entry \in {Unregistered, [slot |-> s, events |-> new.events]} :
        /\ interest' = [interest EXCEPT ![fd] = entry]
        /\ "epoll_ctl" \notin Faults => entry # Unregistered
  BY DEF SetShape
<1>2. /\ new \in EventStruct /\ new.status = 1 /\ new.fd = fd /\ KindOK(new)
      /\ new.len <= Len(new.buf) /\ Len(new.buf) <= BufLen
      /\ g_events' = [g_events EXCEPT ![s] = new]
  BY DEF SetShape
<1>3. /\ g_events'[s] = new
      /\ \A t \in AllSlots : t # s => g_events'[t] = g_events[t]
      /\ interest'[fd] = entry
      /\ \A gd \in AllFds : gd # fd => interest'[gd] = interest[gd]
      /\ fdTable'[fd] = c
      /\ \A gd \in Fds : gd # fd => fdTable'[gd] = fdTable[gd]
  BY <1>0, <1>1, <1>2 DEF TableOK, TableTypeOK, FdTableAt
<1>4. TableTypeOK'
  <2>1. new.events \in SUBSET {EPOLLIN, EPOLLOUT}
    BY <1>2 DEF EventStruct
  <2>2. entry \in [slot: AllSlots, events: SUBSET {EPOLLIN, EPOLLOUT}] \cup {Unregistered}
    BY <2>1, <1>0
  <2> QED BY <2>2, <1>0, <1>1, <1>2, <1>3 DEF TableOK, TableTypeOK
(* No other slot in use has this descriptor. *)
<1>5. \A t \in AllSlots : t # s /\ InUse(t) => g_events[t].fd # fd
  <2>1. CASE InUse(s) /\ g_events[s].fd = fd
    BY <2>1, <1>0 DEF TableOK, OneSlotPerFd
  <2>2. CASE fdTable[fd] = NoConn
    BY <2>2, <1>0 DEF TableOK, SlotKind
  <2> QED BY <2>1, <2>2
<1>6. SlotKind'
  <2>1. \A t \in AllSlots : g_events'[t].len <= Len(g_events'[t].buf)
    BY <1>2, <1>3 DEF TableOK, SlotKind
  <2>2. InUse(ListenSlot)' =>
          /\ g_events'[ListenSlot].fd = ListenFd
          /\ g_events'[ListenSlot].call_back = "handle_accept"
          /\ g_events'[ListenSlot].events = {EPOLLIN}
    BY <1>0, <1>3 DEF TableOK, SlotKind, InUse
  <2>3. ASSUME NEW t \in Slots, InUse(t)'
        PROVE  /\ g_events'[t].fd \in Fds
               /\ fdTable'[g_events'[t].fd] \in Conns
               /\ KindOK(g_events'[t])
    <3>1. CASE t = s
      BY <3>1, <1>2, <1>3
    <3>2. CASE t # s
      <4>1. t \in AllSlots /\ g_events'[t] = g_events[t] /\ InUse(t)
        BY <3>2, <2>3, <1>3 DEF InUse, Slots, AllSlots
      <4> QED BY <4>1, <3>2, <1>3, <1>5 DEF TableOK, SlotKind
    <3> QED BY <3>1, <3>2
  <2> QED BY <2>1, <2>2, <2>3 DEF SlotKind, KindOK
<1>7. OneSlotPerFd'
  BY <1>2, <1>3, <1>5 DEF TableOK, OneSlotPerFd, InUse
<1>8. RegistrationMatches'
  <2>1. ASSUME NEW gd \in AllFds, Registered(gd)'
        PROVE  /\ g_events'[interest'[gd].slot].status = 1
               /\ g_events'[interest'[gd].slot].fd = gd
               /\ g_events'[interest'[gd].slot].events = interest'[gd].events
    <3>1. CASE gd = fd
      <4>1. entry = [slot |-> s, events |-> new.events]
        BY <3>1, <2>1, <1>3 DEF Registered
      <4> QED BY <4>1, <3>1, <1>2, <1>3
    <3>2. CASE gd # fd
      <4>1. interest'[gd] = interest[gd] /\ Registered(gd)
        BY <3>2, <2>1, <1>3 DEF Registered
      <4>2. /\ interest[gd].slot \in AllSlots
            /\ InUse(interest[gd].slot)
            /\ g_events[interest[gd].slot].fd = gd
            /\ g_events[interest[gd].slot].events = interest[gd].events
        BY <4>1 DEF TableOK, TableTypeOK, RegistrationMatches, Registered, InUse
      <4>3. CASE interest[gd].slot # s
        BY <4>1, <4>2, <4>3, <1>3 DEF InUse
      <4>4. CASE interest[gd].slot = s
        BY <4>2, <4>4, <3>2
      <4> QED BY <4>3, <4>4
    <3> QED BY <3>1, <3>2
  <2>2. ASSUME "epoll_ctl" \notin Faults, NEW t \in AllSlots, InUse(t)'
        PROVE  Registered(g_events[t].fd)'
    <3>1. CASE t = s
      BY <3>1, <2>2, <1>1, <1>2, <1>3 DEF Registered
    <3>2. CASE t # s
      <4>1. g_events'[t] = g_events[t] /\ InUse(t)
        BY <3>2, <2>2, <1>3 DEF InUse
      <4>2. Registered(g_events[t].fd) /\ g_events[t].fd # fd
        BY <4>1, <3>2, <2>2, <1>5 DEF TableOK, RegistrationMatches, InUse
      <4>3. g_events[t].fd \in AllFds
        BY <4>1, <1>0 DEF TableOK, SlotKind, AllFds
      <4> QED BY <4>1, <4>2, <4>3, <1>3 DEF Registered
    <3> QED BY <3>1, <3>2
  <2> QED BY <2>1, <2>2 DEF RegistrationMatches, InUse
<1> QED BY <1>4, <1>6, <1>7, <1>8 DEF TableOK

(* event_del clears the status, and leaves the buffer as it is. *)
LEMMA EventDelShape ==
  ASSUME NEW ev \in EventStruct
  PROVE  /\ EventDel(ev) \in EventStruct
         /\ EventDel(ev).status = 0
         /\ EventDel(ev).buf = ev.buf
         /\ EventDel(ev).len = ev.len
  BY DEF EventDel, EventStruct

(* event_del and close. *)
LEMMA CloseKeepsTable ==
  ASSUME TableOK, fdTable \in [Fds -> Conns \cup {NoConn}],
         NEW s \in Slots, InUse(s), DelAndClose(s)
  PROVE  TableOK'
<1> USE EventLoopAssumption, KernelAssumption
<1> DEFINE fd == g_events[s].fd
<1>0. /\ s \in AllSlots /\ ListenSlot \in AllSlots /\ s # ListenSlot
      /\ fd \in AllFds /\ fd # ListenFd /\ fd \in Fds
      /\ \A t \in AllSlots : t \in Slots \/ t = ListenSlot
  BY DEF Slots, AllSlots, ListenSlot, AllFds, TableOK, SlotKind
<1>1. /\ g_events' = [g_events EXCEPT ![s] = EventDel(g_events[s])]
      /\ interest' = [interest EXCEPT ![fd] = Unregistered]
      /\ fdTable' = [fdTable EXCEPT ![fd] = NoConn]
  BY DEF DelAndClose, EpollCtl
<1>2. /\ EventDel(g_events[s]) \in EventStruct
      /\ EventDel(g_events[s]).status = 0
      /\ EventDel(g_events[s]).buf = g_events[s].buf
      /\ EventDel(g_events[s]).len = g_events[s].len
  <2>1. g_events[s] \in EventStruct
    BY <1>0 DEF TableOK, TableTypeOK
  <2> QED BY <2>1, EventDelShape
<1>3. /\ g_events'[s] = EventDel(g_events[s])
      /\ \A t \in AllSlots : t # s => g_events'[t] = g_events[t]
      /\ interest'[fd] = Unregistered
      /\ \A gd \in AllFds : gd # fd => interest'[gd] = interest[gd]
      /\ \A gd \in Fds : gd # fd => fdTable'[gd] = fdTable[gd]
  BY <1>0, <1>1, <1>2 DEF TableOK, TableTypeOK
<1>4. TableTypeOK'
  BY <1>0, <1>1, <1>2, <1>3 DEF TableOK, TableTypeOK
<1>5. \A t \in AllSlots : InUse(t)' => t # s /\ InUse(t) /\ g_events[t].fd # fd
  BY <1>0, <1>2, <1>3 DEF TableOK, OneSlotPerFd, InUse
<1>6. SlotKind'
  <2>1. \A t \in AllSlots : g_events'[t].len <= Len(g_events'[t].buf)
    BY <1>2, <1>3, <1>0 DEF TableOK, SlotKind
  <2>2. ASSUME NEW t \in Slots, InUse(t)'
        PROVE  /\ g_events'[t].fd \in Fds
               /\ fdTable'[g_events'[t].fd] \in Conns
               /\ KindOK(g_events'[t])
    <3>1. t \in AllSlots
      BY DEF Slots, AllSlots
    <3> QED BY <3>1, <2>2, <1>3, <1>5 DEF TableOK, SlotKind
  <2>3. InUse(ListenSlot)' =>
          /\ g_events'[ListenSlot].fd = ListenFd
          /\ g_events'[ListenSlot].call_back = "handle_accept"
          /\ g_events'[ListenSlot].events = {EPOLLIN}
    BY <1>0, <1>3 DEF TableOK, SlotKind, InUse
  <2> QED BY <2>1, <2>2, <2>3 DEF SlotKind, KindOK
<1>7. OneSlotPerFd'
  BY <1>3, <1>5 DEF TableOK, OneSlotPerFd, InUse
<1>8. RegistrationMatches'
  <2>1. ASSUME NEW gd \in AllFds, Registered(gd)'
        PROVE  /\ g_events'[interest'[gd].slot].status = 1
               /\ g_events'[interest'[gd].slot].fd = gd
               /\ g_events'[interest'[gd].slot].events = interest'[gd].events
    <3>1. gd # fd /\ interest'[gd] = interest[gd] /\ Registered(gd)
      BY <2>1, <1>3 DEF Registered
    <3>2. /\ interest[gd].slot \in AllSlots
          /\ InUse(interest[gd].slot)
          /\ g_events[interest[gd].slot].fd = gd
          /\ g_events[interest[gd].slot].events = interest[gd].events
      BY <3>1 DEF TableOK, TableTypeOK, RegistrationMatches, Registered, InUse
    <3> QED BY <3>1, <3>2, <1>3 DEF InUse
  <2>2. ASSUME "epoll_ctl" \notin Faults, NEW t \in AllSlots, InUse(t)'
        PROVE  Registered(g_events[t].fd)'
    <3>1. t # s /\ InUse(t) /\ g_events[t].fd # fd /\ g_events'[t] = g_events[t]
      BY <2>2, <1>3, <1>5
    <3>2. g_events[t].fd \in AllFds /\ Registered(g_events[t].fd)
      BY <3>1, <2>2, <1>0 DEF TableOK, SlotKind, AllFds, RegistrationMatches, InUse
    <3> QED BY <3>1, <3>2, <1>3 DEF Registered
  <2> QED BY <2>1, <2>2 DEF RegistrationMatches, InUse
<1> QED BY <1>4, <1>6, <1>7, <1>8 DEF TableOK
-----------------------------------------------------------------------------
(***************************************************************************)
(* A handler leaves every event fresh that is not for the slot it sets or  *)
(* closes: d is the connection of that slot, fd its descriptor.            *)
(***************************************************************************)
LEMMA OthersStayFresh ==
  ASSUME Core,
         NEW s \in AllSlots, NEW fd \in Fds, NEW d,
         \A t \in AllSlots : t # s => g_events'[t] = g_events[t],
         \A gd \in Fds : gd # fd => fdTable'[gd] = fdTable[gd],
         \A c \in Conns : c # d =>
           /\ peer'[c] = peer[c] /\ sent'[c] = sent[c] /\ rcvd'[c] = rcvd[c]
           /\ out'[c] = out[c] /\ got'[c] = got[c],
         \/ s \in Slots /\ InUse(s) /\ fd = g_events[s].fd /\ d = fdTable[fd]
         \/ fdTable[fd] = NoConn /\ d = NoConn,
         NEW e \in EpollEvent, Fresh(e), e.slot # s,
         backlog' = backlog \/ e.slot # ListenSlot
  PROVE  Fresh(e)'
<1> USE EventLoopAssumption, KernelAssumption
<1> DEFINE t == e.slot
<1>1. t \in AllSlots /\ t # s /\ g_events'[t] = g_events[t] /\ InUse(t)
  BY DEF EpollEvent, Fresh, InUse
<1>2. CASE t = ListenSlot
  <2>1. /\ g_events[t].call_back = "handle_accept" /\ g_events[t].fd = ListenFd
        /\ backlog' = backlog
    BY <1>1, <1>2 DEF Core, TableOK, SlotKind
  <2> QED BY <1>1, <2>1 DEF Fresh, ConnOf
<1>3. CASE t # ListenSlot
  <2> DEFINE gd == g_events[t].fd
  <2>1. t \in Slots
    BY <1>1, <1>3 DEF AllSlots, Slots, ListenSlot
  <2>2. gd \in Fds /\ gd # ListenFd /\ fdTable[gd] \in Conns /\ KindOK(g_events[t])
    BY <1>1, <2>1 DEF Core, TableOK, SlotKind
  <2>3. gd # fd
    BY <1>1, <2>2 DEF Core, TableOK, OneSlotPerFd, Slots, AllSlots
  <2>4. e.conn = fdTable[gd] /\ ConnOf(gd)' = e.conn /\ e.conn \in Conns
    BY <1>1, <2>2, <2>3 DEF Fresh, ConnOf
  <2>5. e.conn # d
    BY <2>2, <2>3, <2>4 DEF Core, ConnsOK, TableOK, SlotKind
  <2>6. Readable(e.conn)' = Readable(e.conn) /\ Writable(e.conn)' = Writable(e.conn)
    BY <2>4, <2>5 DEF Readable, Writable, Avail, Space
  <2>7. g_events[t].call_back # "handle_accept"
    BY <2>2 DEF KindOK
  <2> QED BY <1>1, <2>4, <2>6, <2>7 DEF Fresh
<1> QED BY <1>2, <1>3

OthersFresh(s) == \A e \in EpollEvent : Fresh(e) /\ e.slot # s => Fresh(e)'

-----------------------------------------------------------------------------
(***************************************************************************)
(* The handlers.                                                           *)
(***************************************************************************)

(* A free slot taken for a new descriptor. *)
LEMMA AcceptShape ==
  ASSUME Core, NEW fd \in FreeFds, NEW i \in FirstFree,
         SetAndAdd(i, g_events[i], fd, "handle_recv", {EPOLLIN})
  PROVE  /\ i \in Slots /\ i \in AllSlots /\ i # ListenSlot /\ ~InUse(i)
         /\ \E new : /\ SetShape(i, fd, new)
                     /\ new.call_back = "handle_recv"
<1> USE EventLoopAssumption, KernelAssumption
<1>1. fd \in Fds /\ fdTable[fd] = NoConn /\ fd \in AllFds
  BY DEF FreeFds, AllFds
<1>2. i \in Slots /\ i \in AllSlots /\ i # ListenSlot /\ ~InUse(i)
  BY DEF FirstFree, FreeSlots, Slots, AllSlots, ListenSlot, InUse
<1>3. ~Registered(fd)
  BY <1>1 DEF Core, TableOK, TableTypeOK, RegistrationMatches, SlotKind, Registered,
              AllSlots, Slots, ListenSlot, InUse
<1> DEFINE new == EventAdd(SetEvent(g_events[i], fd, "handle_recv"), {EPOLLIN})
<1>4. /\ g_events[i] \in EventStruct
      /\ g_events[i].len <= Len(g_events[i].buf) /\ Len(g_events[i].buf) <= BufLen
      /\ "handle_recv" \in Handlers /\ {EPOLLIN} \in SUBSET {EPOLLIN, EPOLLOUT}
  BY <1>2 DEF Core, TableOK, TableTypeOK, SlotKind, Handlers
<1>5. SetShape(i, fd, new)
  BY <1>1, <1>2, <1>3, <1>4, SetAndAddShape
<1>6. new.call_back = "handle_recv"
  BY <1>4 DEF EventAdd, SetEvent, EventStruct
<1> HIDE DEF new
<1> QED BY <1>2, <1>5, <1>6

(* handle_accept, with all its early returns. *)
LEMMA AcceptSafe ==
  ASSUME Core, HandleAccept
  PROVE  Core' /\ OthersFresh(ListenSlot)
<1> USE EventLoopAssumption, KernelAssumption
<1>1. CASE AcceptFails
  <2> SUFFICES ASSUME UNCHANGED <<kernelVars, g_events>>
               PROVE  Core' /\ OthersFresh(ListenSlot)
    BY <1>1 DEF AcceptFails
  <2>1. Core'
    BY DEF Core, KernelTypeOK, ConnsOK, TableOK, TableTypeOK, SlotKind, InUse,
           OneSlotPerFd, RegistrationMatches, Registered, kernelVars
  <2>2. OthersFresh(ListenSlot)
    BY DEF OthersFresh, Fresh, ConnOf, Readable, Writable, Avail, Space, kernelVars
  <2> QED BY <2>1, <2>2
<1>2. CASE ~AcceptFails
  <2> DEFINE c == Head(backlog)
  <2>1. PICK fd \in FreeFds :
          /\ fdTable' = [fdTable EXCEPT ![fd] = c]
          /\ sock' = [sock EXCEPT ![c] = "accepted"]
          /\ \/ \E i \in FirstFree :
                  SetAndAdd(i, g_events[i], fd, "handle_recv", {EPOLLIN})
             \/ UNCHANGED <<g_events, interest>>
    BY <1>2 DEF HandleAccept
  <2>2. /\ backlog # <<>> /\ backlog' = Tail(backlog)
        /\ UNCHANGED <<peer, sent, rcvd, out, got>>
    BY <1>2 DEF HandleAccept
  <2>3. fd \in Fds /\ fdTable[fd] = NoConn /\ fd \in AllFds
    BY DEF FreeFds, AllFds
  <2>4. /\ backlog \in Seq(Conns) /\ Len(backlog) \in Nat \ {0} /\ c = backlog[1]
        /\ c \in Conns /\ sock[c] = "backlog"
        /\ Len(backlog') = Len(backlog) - 1
        /\ \A i \in 1..Len(backlog') : backlog'[i] = backlog[i + 1] /\ i + 1 \in 1..Len(backlog)
        /\ backlog' \in Seq(Conns)
    BY <2>2 DEF Core, KernelTypeOK, ConnsOK
  <2>5. KernelTypeOK'
    BY <2>1, <2>2, <2>3, <2>4 DEF Core, KernelTypeOK, SockStates
  <2>6. ConnsOK'
    <3>1. \A x \in Conns : peer'[x] = "absent" => sock'[x] = "none"
      BY <2>1, <2>2, <2>4 DEF Core, ConnsOK, KernelTypeOK
    <3>2. \A x \in Conns : rcvd'[x] <= sent'[x]
      BY <2>2 DEF Core, ConnsOK
    <3>3. ASSUME NEW i \in 1..Len(backlog')
          PROVE  sock'[backlog'[i]] = "backlog"
      <4>1. i \in Nat /\ i + 1 # 1 /\ 1 \in 1..Len(backlog)
        BY <2>4
      <4>2. backlog[i + 1] \in Conns /\ backlog[i + 1] # c /\ sock[backlog[i + 1]] = "backlog"
        BY <2>4, <4>1 DEF Core, ConnsOK
      <4> QED BY <2>1, <2>4, <4>2 DEF Core, KernelTypeOK
    <3>4. ASSUME NEW i \in 1..Len(backlog'), NEW j \in 1..Len(backlog'),
                 backlog'[i] = backlog'[j]
          PROVE  i = j
      <4>1. i + 1 = j + 1
        BY <2>4, <3>4 DEF Core, ConnsOK
      <4> QED BY <4>1
    <3>5. \A gd \in Fds : fdTable[gd] # c
      BY <2>4 DEF Core, ConnsOK
    <3>6. \A gd, hd \in Fds : fdTable'[gd] = fdTable'[hd] => gd = hd \/ fdTable'[gd] = NoConn
      BY <2>1, <2>3, <3>5 DEF Core, ConnsOK, KernelTypeOK
    <3>7. \A x \in Conns : sock'[x] = "accepted" <=> \E gd \in Fds : fdTable'[gd] = x
      <4>1. \A gd \in Fds : fdTable'[gd] = IF gd = fd THEN c ELSE fdTable[gd]
        BY <2>1 DEF Core, KernelTypeOK
      <4>2. \A x \in Conns : sock'[x] = IF x = c THEN "accepted" ELSE sock[x]
        BY <2>1 DEF Core, KernelTypeOK
      <4>3. \A x \in Conns : sock[x] = "accepted" <=> \E gd \in Fds : fdTable[gd] = x
        BY DEF Core, ConnsOK
      <4>4. \A x \in Conns : x # NoConn
        OBVIOUS
      <4> HIDE DEF c
      <4> QED BY <4>1, <4>2, <4>3, <4>4, <3>5, <2>3
    <3> QED BY <3>1, <3>2, <3>3, <3>4, <3>6, <3>7 DEF ConnsOK
  <2>8. CASE \E i \in FirstFree : SetAndAdd(i, g_events[i], fd, "handle_recv", {EPOLLIN})
    <3>1. PICK i \in FirstFree : SetAndAdd(i, g_events[i], fd, "handle_recv", {EPOLLIN})
      BY <2>8
    <3>2. i \in Slots /\ i \in AllSlots /\ i # ListenSlot /\ ~InUse(i)
      BY <3>1, AcceptShape
    <3>3. PICK new : SetShape(i, fd, new)
      BY <3>1, AcceptShape
    <3>4. TableOK'
      BY <3>2, <3>3, <2>1, <2>3, <2>4, SetKeepsTable DEF FdTableAt, Core, KernelTypeOK
    <3>5. /\ \A t \in AllSlots : t # i => g_events'[t] = g_events[t]
          /\ \A gd \in Fds : gd # fd => fdTable'[gd] = fdTable[gd]
      BY <3>3, <2>1 DEF SetShape, Core, TableOK, TableTypeOK, KernelTypeOK
    <3>6. ASSUME NEW e \in EpollEvent, Fresh(e), e.slot # ListenSlot
          PROVE  Fresh(e)'
      <4>1. e.slot # i
        BY <3>2, <3>6 DEF Fresh, InUse
      <4> QED BY ONLY <4>1, <3>2, <3>5, <3>6, <2>2, <2>3, Core, OthersStayFresh
    <3> QED BY <2>5, <2>6, <3>4, <3>6 DEF Core, OthersFresh
  <2>9. CASE UNCHANGED <<g_events, interest>>
    <3>1. TableOK'
      <4>1. \A s \in Slots : InUse(s) => g_events[s].fd # fd
        BY <2>3 DEF Core, TableOK, SlotKind
      <4>2. \A gd \in Fds : gd # fd => fdTable'[gd] = fdTable[gd]
        BY <2>1 DEF Core, KernelTypeOK
      <4>3. SlotKind'
        BY <2>9, <4>1, <4>2 DEF Core, TableOK, SlotKind, InUse, KindOK
      <4> QED BY <2>9, <4>3 DEF Core, TableOK, TableTypeOK, OneSlotPerFd, InUse,
                               RegistrationMatches, Registered
    <3>2. \A gd \in Fds : gd # fd => fdTable'[gd] = fdTable[gd]
      BY <2>1 DEF Core, KernelTypeOK
    <3>3. ListenSlot \in AllSlots
      BY DEF ListenSlot, AllSlots
    <3>4. ASSUME NEW e \in EpollEvent, Fresh(e), e.slot # ListenSlot
          PROVE  Fresh(e)'
      BY ONLY <3>2, <3>3, <3>4, <2>2, <2>3, <2>9, Core, OthersStayFresh
    <3> QED BY <2>5, <2>6, <3>1, <3>4 DEF Core, OthersFresh
  <2> QED BY <2>1, <2>8, <2>9
<1> QED BY <1>1, <1>2

(* The bytes of a stream are a sequence of bytes. *)
LEMMA BytesInSeq ==
  ASSUME NEW c \in Conns, NEW from \in Nat, NEW n \in Nat, from + n <= MaxBytes
  PROVE  Bytes(c, from, n) \in Seq(Byte) /\ Len(Bytes(c, from, n)) = n
<1>1. \A i \in 1..n : from + i \in 1..MaxBytes
  BY KernelAssumption
<1>2. \A i \in 1..n : <<c, from + i>> \in Byte
  BY <1>1 DEF Byte
<1> QED BY <1>2 DEF Bytes

(* A step that only moves bytes. *)
LEMMA CountersKeepConns ==
  ASSUME Core, UNCHANGED <<peer, backlog, sock, fdTable>>,
         sent' \in [Conns -> 0..MaxBytes], rcvd' \in [Conns -> 0..MaxBytes],
         out' \in [Conns -> Seq(Byte)], got' \in [Conns -> Nat],
         \A x \in Conns : rcvd'[x] <= sent'[x]
  PROVE  KernelTypeOK' /\ ConnsOK'
<1>1. KernelTypeOK'
  <2>1. /\ peer \in [Conns -> PeerStates] /\ backlog \in Seq(Conns)
        /\ sock \in [Conns -> SockStates] /\ fdTable \in [Fds -> Conns \cup {NoConn}]
    BY DEF Core, KernelTypeOK
  <2> QED BY <2>1 DEF KernelTypeOK
<1>2. ConnsOK'
  BY DEF Core, ConnsOK
<1> QED BY <1>1, <1>2

(* A slot in use names an open descriptor of one connection. *)
LEMMA SlotConn ==
  ASSUME Core, NEW s \in Slots, InUse(s)
  PROVE  /\ s \in AllSlots /\ s # ListenSlot
         /\ g_events[s].fd \in Fds
         /\ fdTable[g_events[s].fd] \in Conns
         /\ g_events[s] \in EventStruct
         /\ sock[fdTable[g_events[s].fd]] = "accepted"
BY EventLoopAssumption DEF Core, TableOK, TableTypeOK, SlotKind, ConnsOK, Slots,
   AllSlots, ListenSlot

(* event_del and close keep the table and leave the other slots alone. *)
LEMMA CloseSafe ==
  ASSUME Core, NEW s \in Slots, InUse(s), DelAndClose(s),
         UNCHANGED <<peer, backlog, sent, rcvd, out, got>>
  PROVE  Core' /\ OthersFresh(s)
<1> USE EventLoopAssumption, KernelAssumption
<1> DEFINE fd == g_events[s].fd
           c  == fdTable[fd]
<1>1. /\ s \in AllSlots /\ s # ListenSlot /\ fd \in Fds /\ c \in Conns
      /\ sock[c] = "accepted"
  BY SlotConn
<1>2. /\ fdTable' = [fdTable EXCEPT ![fd] = NoConn]
      /\ sock' = [x \in Conns |-> IF x = c THEN "closed" ELSE sock[x]]
      /\ g_events' = [g_events EXCEPT ![s] = EventDel(g_events[s])]
  BY DEF DelAndClose
<1>3. KernelTypeOK'
  BY <1>1, <1>2 DEF Core, KernelTypeOK, SockStates
<1>4. ConnsOK'
  <2>1. \A x \in Conns : peer'[x] = "absent" => sock'[x] = "none"
    BY <1>1, <1>2 DEF Core, ConnsOK
  <2>2. ASSUME NEW i \in 1..Len(backlog)
        PROVE  sock'[backlog[i]] = "backlog"
    <3>1. sock[backlog[i]] = "backlog"
      BY DEF Core, ConnsOK
    <3>2. backlog[i] \in Conns
      BY DEF Core, KernelTypeOK
    <3> QED BY <3>1, <3>2, <1>1, <1>2
  <2>3. \A gd, hd \in Fds : fdTable'[gd] = fdTable'[hd] => gd = hd \/ fdTable'[gd] = NoConn
    BY <1>1, <1>2 DEF Core, ConnsOK, KernelTypeOK
  <2>4. ASSUME NEW x \in Conns
        PROVE  sock'[x] = "accepted" <=> \E gd \in Fds : fdTable'[gd] = x
    <3>1. sock[x] = "accepted" <=> \E gd \in Fds : fdTable[gd] = x
      BY DEF Core, ConnsOK
    <3>2. \A gd \in Fds : fdTable'[gd] = IF gd = fd THEN NoConn ELSE fdTable[gd]
      BY <1>2 DEF Core, KernelTypeOK
    <3>3. \A gd \in Fds : fdTable[gd] = c => gd = fd
      BY <1>1 DEF Core, ConnsOK
    <3>4. sock'[x] = IF x = c THEN "closed" ELSE sock[x]
      BY <1>2
    <3> QED BY <3>1, <3>2, <3>3, <3>4, <1>1
  <2> QED BY <2>1, <2>2, <2>3, <2>4 DEF Core, ConnsOK
<1>5. TableOK'
  BY CloseKeepsTable DEF Core, KernelTypeOK
<1>6. /\ \A t \in AllSlots : t # s => g_events'[t] = g_events[t]
      /\ \A gd \in Fds : gd # fd => fdTable'[gd] = fdTable[gd]
  BY <1>2 DEF Core, TableOK, TableTypeOK, KernelTypeOK
<1>7. ASSUME NEW e \in EpollEvent, Fresh(e), e.slot # s
      PROVE  Fresh(e)'
  BY ONLY <1>1, <1>6, <1>7, Core, InUse(s), OthersStayFresh,
          UNCHANGED <<peer, backlog, sent, rcvd, out, got>>
<1> QED BY <1>3, <1>4, <1>5, <1>7 DEF Core, OthersFresh

(* The events that stay fresh when a slot is set again. *)
LEMMA RearmFresh ==
  ASSUME Core, NEW s \in Slots, InUse(s), NEW new, SetShape(s, g_events[s].fd, new),
         UNCHANGED <<peer, backlog, fdTable, sent, got>>,
         \A c \in Conns : c # fdTable[g_events[s].fd] =>
           rcvd'[c] = rcvd[c] /\ out'[c] = out[c]
  PROVE  OthersFresh(s)
<1>1. s \in AllSlots /\ g_events[s].fd \in Fds
  BY SlotConn
<1>2. \A t \in AllSlots : t # s => g_events'[t] = g_events[t]
  BY DEF SetShape, Core, TableOK, TableTypeOK
<1>3. ASSUME NEW e \in EpollEvent, Fresh(e), e.slot # s
      PROVE  Fresh(e)'
  BY <1>1, <1>2, <1>3, OthersStayFresh
<1> QED BY <1>3 DEF OthersFresh

(* What RecvData stores: the bytes read, and their number, or 0 if they    *)
(* filled the buffer.                                                      *)
StoredOK(ev) ==
  \/ ev.len \in 1..BufLen /\ Len(ev.buf) = ev.len
  \/ ev.len = 0 /\ Len(ev.buf) = BufLen

(* What handle_recv makes of an event_s after a recv() that got data. *)
LEMMA RecvDataShape ==
  ASSUME Core, NEW s \in Slots, InUse(s), NEW c, c = fdTable[g_events[s].fd],
         RecvData(s, c)
  PROVE  /\ RecvLen(c) \in 1..BufLen /\ rcvd[c] + RecvLen(c) <= sent[c]
         /\ rcvd[c] \in 0..MaxBytes /\ sent[c] \in 0..MaxBytes
         /\ \E new : /\ SetShape(s, g_events[s].fd, new)
                     /\ new.call_back = "handle_send"
                     /\ new.buf = Bytes(c, rcvd[c], RecvLen(c))
                     /\ StoredOK(new)
<1> USE EventLoopAssumption, KernelAssumption
<1> DEFINE fd == g_events[s].fd
           n  == RecvLen(c)
<1>0. /\ s \in AllSlots /\ fd \in Fds /\ c \in Conns /\ g_events[s] \in EventStruct
  BY SlotConn
<1>1. PICK len \in StoredLen(n) :
        SetAndAdd(s, [EventDel(g_events[s]) EXCEPT !.len = len, !.buf = Bytes(c, rcvd[c], n)],
                  fd, "handle_send", {EPOLLOUT})
  BY Zenon DEF RecvData
<1>2. Avail(c) > 0
  BY DEF RecvData
<1> DEFINE ev  == [EventDel(g_events[s]) EXCEPT !.len = len, !.buf = Bytes(c, rcvd[c], n)]
           new == EventAdd(SetEvent(ev, fd, "handle_send"), {EPOLLOUT})
<1>3. /\ rcvd[c] \in 0..MaxBytes /\ sent[c] \in 0..MaxBytes
      /\ n \in 1..BufLen /\ rcvd[c] + n <= sent[c]
  <2>1. /\ rcvd[c] \in 0..MaxBytes /\ sent[c] \in 0..MaxBytes
        /\ rcvd[c] <= sent[c]
    BY <1>0 DEF Core, KernelTypeOK, ConnsOK
  <2>2. Avail(c) = sent[c] - rcvd[c]
    BY DEF Avail
  <2> QED BY ONLY <2>1, <2>2, <1>2, EventLoopAssumption, KernelAssumption DEF RecvLen
<1>4. len \in 0..n /\ (len = 0 => n = BufLen) /\ (len # 0 => len = n)
  BY <1>3 DEF StoredLen
<1>5. Bytes(c, rcvd[c], n) \in Seq(Byte) /\ Len(Bytes(c, rcvd[c], n)) = n
  <2> HIDE DEF n
  <2>1. c \in Conns /\ rcvd[c] \in Nat /\ n \in Nat /\ rcvd[c] + n <= MaxBytes
    BY <1>0, <1>3
  <2> QED BY ONLY <2>1, BytesInSeq
<1>6. ev \in EventStruct /\ ev.len = len /\ ev.buf = Bytes(c, rcvd[c], n)
  <2>1. EventDel(g_events[s]) \in EventStruct
    BY <1>0, EventDelShape
  <2>2. len \in 0..BufLen
    BY <1>3, <1>4
  <2> HIDE DEF n
  <2> QED BY <2>1, <2>2, <1>5 DEF EventStruct
<1>7. SetShape(s, fd, new)
  <2>1. ev.len <= Len(ev.buf) /\ Len(ev.buf) <= BufLen
    BY <1>3, <1>4, <1>5, <1>6
  <2>2. "handle_send" \in Handlers /\ {EPOLLOUT} \in SUBSET {EPOLLIN, EPOLLOUT}
    BY DEF Handlers
  <2> HIDE DEF ev
  <2> QED BY <1>0, <1>1, <1>6, <2>1, <2>2, SetAndAddShape DEF ev
<1>8. new.call_back = "handle_send" /\ new.buf = ev.buf /\ new.len = ev.len
  <2> HIDE DEF ev
  <2> QED BY <1>6 DEF EventAdd, SetEvent, EventStruct
<1>9. StoredOK(new)
  <2> HIDE DEF ev, new, n
  <2> QED BY <1>3, <1>4, <1>5, <1>6, <1>8 DEF StoredOK
<1> HIDE DEF new
<1> QED BY <1>3, <1>6, <1>7, <1>8, <1>9

(* SendData turns the slot back. *)
LEMMA SendDataShape ==
  ASSUME Core, NEW s \in Slots, InUse(s), NEW c, c = fdTable[g_events[s].fd],
         SendData(s, c)
  PROVE  /\ SendLen(c, g_events[s].len) \in 1..Len(g_events[s].buf)
         /\ \E new : /\ SetShape(s, g_events[s].fd, new)
                     /\ new.call_back = "handle_recv"
<1> USE EventLoopAssumption, KernelAssumption
<1> DEFINE fd  == g_events[s].fd
           ev  == EventDel(g_events[s])
           new == EventAdd(SetEvent(ev, fd, "handle_recv"), {EPOLLIN})
<1>1. /\ s \in AllSlots /\ fd \in Fds /\ c \in Conns /\ g_events[s] \in EventStruct
  BY SlotConn
<1>2. /\ SendLen(c, g_events[s].len) > 0
      /\ SetAndAdd(s, ev, fd, "handle_recv", {EPOLLIN})
  BY DEF SendData
<1>3. /\ g_events[s].buf \in Seq(Byte) /\ g_events[s].len \in 0..BufLen
      /\ g_events[s].len <= Len(g_events[s].buf) /\ Len(g_events[s].buf) <= BufLen
  BY <1>1 DEF Core, TableOK, TableTypeOK, SlotKind, EventStruct
<1>4. ev \in EventStruct /\ ev.len = g_events[s].len /\ ev.buf = g_events[s].buf
  BY <1>1, EventDelShape
<1>5. SetShape(s, fd, new)
  <2>1. "handle_recv" \in Handlers /\ {EPOLLIN} \in SUBSET {EPOLLIN, EPOLLOUT}
    BY DEF Handlers
  <2> HIDE DEF ev
  <2> QED BY <1>1, <1>2, <1>3, <1>4, <2>1, SetAndAddShape DEF ev
<1>6. new.call_back = "handle_recv"
  <2> HIDE DEF ev
  <2> QED BY <1>4 DEF EventAdd, SetEvent, EventStruct
<1>7. SendLen(c, g_events[s].len) \in 1..Len(g_events[s].buf)
  <2>1. Space(c) \in Int
    BY <1>1 DEF Space, Core, KernelTypeOK
  <2> QED BY <2>1, <1>2, <1>3 DEF SendLen
<1> HIDE DEF new
<1> QED BY <1>5, <1>6, <1>7

(* handle_recv. *)
LEMMA RecvSafe ==
  ASSUME Core, NEW s \in Slots, InUse(s), HandleRecv(s)
  PROVE  Core' /\ OthersFresh(s)
<1> USE EventLoopAssumption, KernelAssumption
<1> DEFINE fd == g_events[s].fd
           c  == fdTable[fd]
           n  == RecvLen(c)
<1>1. /\ s \in AllSlots /\ fd \in Fds /\ c \in Conns
  BY SlotConn
<1>2. CASE RecvEnds(s, c)
  BY <1>2, CloseSafe DEF RecvEnds
<1>3. CASE RecvData(s, c)
  <2>1. /\ rcvd' = [rcvd EXCEPT ![c] = @ + n]
        /\ UNCHANGED <<peer, backlog, sock, fdTable, sent, out, got>>
    BY <1>3 DEF RecvData
  <2>2. /\ rcvd[c] \in 0..MaxBytes /\ sent[c] \in 0..MaxBytes
        /\ n \in 1..BufLen /\ rcvd[c] + n <= sent[c]
    BY <1>3, RecvDataShape
  <2>3. PICK new : SetShape(s, fd, new)
    BY <1>3, RecvDataShape
  <2>4. TableOK'
    <3>1. FdTableAt(fd, c)
      BY <1>1, <2>1 DEF FdTableAt, Core, KernelTypeOK
    <3> QED BY <1>1, <2>3, <3>1, SetKeepsTable DEF Core, KernelTypeOK
  <2>5. KernelTypeOK' /\ ConnsOK'
    <3>1. /\ sent \in [Conns -> 0..MaxBytes] /\ rcvd \in [Conns -> 0..MaxBytes]
          /\ out \in [Conns -> Seq(Byte)] /\ got \in [Conns -> Nat]
          /\ \A x \in Conns : rcvd[x] <= sent[x]
      BY DEF Core, KernelTypeOK, ConnsOK
    <3>2. rcvd[c] + n \in 0..MaxBytes
      <4> HIDE DEF c, n
      <4> QED BY <2>2
    <3>3. rcvd' \in [Conns -> 0..MaxBytes] /\ \A x \in Conns : rcvd'[x] <= sent[x]
      <4> HIDE DEF c, n
      <4> QED BY <3>1, <3>2, <2>1, <2>2
    <3> QED BY <3>1, <3>3, <2>1, CountersKeepConns
  <2>6. OthersFresh(s)
    <3>1. \A d \in Conns : d # c => rcvd'[d] = rcvd[d] /\ out'[d] = out[d]
      BY <2>1 DEF Core, KernelTypeOK
    <3> QED BY <2>1, <2>3, <3>1, RearmFresh
  <2> QED BY <2>4, <2>5, <2>6 DEF Core
<1> QED BY <1>2, <1>3 DEF HandleRecv

(* handle_send. *)
LEMMA SendSafe ==
  ASSUME Core, NEW s \in Slots, InUse(s), HandleSend(s)
  PROVE  Core' /\ OthersFresh(s)
<1> USE EventLoopAssumption, KernelAssumption
<1> DEFINE fd == g_events[s].fd
           c  == fdTable[fd]
           n  == SendLen(c, g_events[s].len)
<1>1. /\ s \in AllSlots /\ fd \in Fds /\ c \in Conns
      /\ g_events[s].buf \in Seq(Byte)
  BY SlotConn DEF EventStruct
<1>2. CASE SendEnds(s, c)
  BY <1>2, CloseSafe DEF SendEnds
<1>3. CASE SendData(s, c)
  <2>1. /\ out' = [out EXCEPT ![c] = @ \o SubSeq(g_events[s].buf, 1, n)]
        /\ UNCHANGED <<peer, backlog, sock, fdTable, sent, rcvd, got>>
    BY <1>3 DEF SendData
  <2>2. n \in 1..Len(g_events[s].buf)
    BY <1>3, SendDataShape
  <2>3. PICK new : SetShape(s, fd, new)
    BY <1>3, SendDataShape
  <2>4. TableOK'
    <3>1. FdTableAt(fd, c)
      BY <1>1, <2>1 DEF FdTableAt, Core, KernelTypeOK
    <3> QED BY <1>1, <2>3, <3>1, SetKeepsTable DEF Core, KernelTypeOK
  <2>5. KernelTypeOK' /\ ConnsOK'
    <3>1. /\ sent \in [Conns -> 0..MaxBytes] /\ rcvd \in [Conns -> 0..MaxBytes]
          /\ out \in [Conns -> Seq(Byte)] /\ got \in [Conns -> Nat]
          /\ \A x \in Conns : rcvd[x] <= sent[x]
      BY DEF Core, KernelTypeOK, ConnsOK
    <3> DEFINE chunk == SubSeq(g_events[s].buf, 1, n)
    <3>2. out[c] \o chunk \in Seq(Byte)
      <4>1. out[c] \in Seq(Byte)
        BY <3>1, <1>1
      <4>2. chunk \in Seq(Byte)
        BY <1>1, <2>2
      <4> HIDE DEF chunk, c
      <4> QED BY <4>1, <4>2
    <3>3. out' \in [Conns -> Seq(Byte)]
      <4> HIDE DEF chunk, c
      <4> QED BY <3>1, <3>2, <2>1 DEF chunk
    <3> QED BY <3>1, <3>3, <2>1, CountersKeepConns
  <2>6. OthersFresh(s)
    <3>1. \A d \in Conns : d # c => rcvd'[d] = rcvd[d] /\ out'[d] = out[d]
      BY <2>1 DEF Core, KernelTypeOK
    <3> QED BY <2>1, <2>3, <3>1, RearmFresh
  <2> QED BY <2>4, <2>5, <2>6 DEF Core
<1> QED BY <1>2, <1>3 DEF HandleSend

(* Whatever handler runs for a slot in use. *)
LEMMA CallBackSafe ==
  ASSUME Core, NEW s \in AllSlots, InUse(s), NEW next, CallBack(s, next)
  PROVE  Core' /\ OthersFresh(s)
<1> USE EventLoopAssumption, KernelAssumption
<1>1. CASE UNCHANGED <<kernelVars, g_events>>
  BY <1>1 DEF Core, KernelTypeOK, ConnsOK, TableOK, TableTypeOK, SlotKind, InUse,
     OneSlotPerFd, RegistrationMatches, Registered, kernelVars, OthersFresh, Fresh,
     ConnOf, Readable, Writable, Avail, Space
<1>2. CASE s = ListenSlot
  <2>1. g_events[s].call_back = "handle_accept"
    BY <1>2 DEF Core, TableOK, SlotKind
  <2>2. HandleAccept \/ UNCHANGED <<kernelVars, g_events>>
    BY <2>1 DEF CallBack
  <2> QED BY <1>1, <1>2, <2>2, AcceptSafe
<1>3. CASE s # ListenSlot
  <2>1. s \in Slots
    BY <1>3 DEF Slots, AllSlots, ListenSlot
  <2>2. g_events[s].call_back # "handle_accept"
    BY <2>1 DEF Core, TableOK, SlotKind, KindOK
  <2>3. HandleRecv(s) \/ HandleSend(s) \/ UNCHANGED <<kernelVars, g_events>>
    BY <2>2 DEF CallBack
  <2> QED BY <1>1, <2>1, <2>3, RecvSafe, SendSafe
<1> QED BY <1>2, <1>3

(* The server has not started. *)
LEMMA InitIInv == Init => IInv
<1> SUFFICES ASSUME Init PROVE IInv
  OBVIOUS
<1> USE KernelAssumption, EventLoopAssumption DEF Init, KernelInit, LoopInit
<1>1. KernelTypeOK
  BY DEF KernelTypeOK, PeerStates, SockStates
<1>2. ConnsOK
  BY DEF ConnsOK
<1>3. TableTypeOK
  BY DEF TableTypeOK, EventStruct, Handlers
<1>4. SlotKind
  <2>1. ListenSlot \in AllSlots /\ Slots \subseteq AllSlots
    BY DEF ListenSlot, AllSlots, Slots
  <2> QED BY <2>1 DEF SlotKind, InUse
<1>5. OneSlotPerFd /\ RegistrationMatches
  BY DEF OneSlotPerFd, RegistrationMatches, Registered, InUse
<1>6. BatchTypeOK /\ NotStarted /\ OneEventPerSlot /\ FreshBatch
  BY DEF BatchTypeOK, NotStarted, OneEventPerSlot, FreshBatch, InUse, Registered, AllFds
<1> QED BY <1>1, <1>2, <1>3, <1>4, <1>5, <1>6 DEF IInv, Core, TableOK

-----------------------------------------------------------------------------
(***************************************************************************)
(* The steps of the server and of its clients.                             *)
(***************************************************************************)

(* start_server. *)
LEMMA StartIInv == IInv /\ StartServer => IInv'
<1> SUFFICES ASSUME IInv, StartServer PROVE IInv'
  OBVIOUS
<1> USE EventLoopAssumption, KernelAssumption
<1> DEFINE s   == ListenSlot
           ev  == SetEvent(g_events[s], ListenFd, "handle_accept")
           new == EventAdd(ev, {EPOLLIN})
           entry == [slot |-> s, events |-> {EPOLLIN}]
<1>0. /\ s \in AllSlots /\ ListenFd \in AllFds /\ g_events[s] \in EventStruct
      /\ \A t \in Slots : t \in AllSlots /\ t # s
  BY DEF ListenSlot, AllSlots, Slots, AllFds, IInv, Core, TableOK, TableTypeOK
<1>1. PICK ok \in CtlOutcomes :
        /\ g_events' = [g_events EXCEPT ![s] = new]
        /\ interest' = EventAddCtl(interest, s, ev, {EPOLLIN}, ok)
  BY DEF StartServer
<1>2. pc = "start" /\ pc' = "epoll_wait" /\ UNCHANGED <<connVars, batch, cur>>
  BY DEF StartServer
<1>3. /\ \A t \in AllSlots : ~InUse(t)
      /\ \A fd \in AllFds : interest[fd] = Unregistered
  BY <1>2 DEF IInv, NotStarted, Registered
<1>4. /\ new \in EventStruct /\ new.status = 1 /\ new.fd = ListenFd
      /\ new.call_back = "handle_accept" /\ new.events = {EPOLLIN}
      /\ new.buf = g_events[s].buf /\ new.len = g_events[s].len
      /\ ev.status = 0 /\ ev.fd = ListenFd
  BY <1>0 DEF EventAdd, SetEvent, EventStruct, Handlers
<1> DEFINE made == IF ok THEN entry ELSE Unregistered
<1>5. interest' = [interest EXCEPT ![ListenFd] = made]
  <2>1. CASE ok
    <3>1. interest' = EpollCtl(interest, "ADD", ListenFd, entry)
      BY <2>1, <1>1, <1>4 DEF EventAddCtl
    <3>2. interest' = [interest EXCEPT ![ListenFd] = entry]
      BY <3>1, <1>0, <1>3 DEF EpollCtl
    <3>3. made = entry
      BY <2>1
    <3> HIDE DEF made, entry
    <3> QED BY <3>2, <3>3
  <2>2. CASE ~ok
    <3>1. interest' = interest
      BY <2>2, <1>1 DEF EventAddCtl
    <3>2. made = interest[ListenFd]
      BY <2>2, <1>0, <1>3
    <3>3. [interest EXCEPT ![ListenFd] = interest[ListenFd]] = interest
      BY <1>0 DEF IInv, Core, TableOK, TableTypeOK
    <3> HIDE DEF made
    <3> QED BY <3>1, <3>2, <3>3
  <2> QED BY <2>1, <2>2
<1>6. ok \in BOOLEAN /\ ("epoll_ctl" \notin Faults => ok) /\ entry # Unregistered
  BY DEF CtlOutcomes, Unregistered, ListenSlot
<1>7. /\ g_events'[s] = new
      /\ \A t \in AllSlots : t # s => g_events'[t] = g_events[t]
      /\ \A t \in AllSlots : InUse(t)' => t = s
      /\ interest'[ListenFd] = made
      /\ \A fd \in AllFds : Registered(fd)' => fd = ListenFd
  <2> HIDE DEF new, made, ev, entry
  <2>1. DOMAIN g_events = AllSlots /\ DOMAIN interest = AllFds
    BY DEF IInv, Core, TableOK, TableTypeOK
  <2>2. g_events'[s] = new /\ \A t \in AllSlots : t # s => g_events'[t] = g_events[t]
    BY <2>1, <1>0, <1>1
  <2>3. \A t \in AllSlots : InUse(t)' => t = s
    BY <2>2, <1>3 DEF InUse
  <2>4. interest'[ListenFd] = made /\ \A fd \in AllFds : fd # ListenFd => interest'[fd] = interest[fd]
    BY <2>1, <1>0, <1>5
  <2>5. \A fd \in AllFds : Registered(fd)' => fd = ListenFd
    BY <2>4, <1>3 DEF Registered
  <2> QED BY <2>2, <2>3, <2>4, <2>5
<1>8. KernelTypeOK' /\ ConnsOK'
  BY <1>2 DEF IInv, Core, KernelTypeOK, ConnsOK, connVars
<1>9. TableTypeOK'
  <2>1. made \in [slot: AllSlots, events: SUBSET {EPOLLIN, EPOLLOUT}]
                 \cup {Unregistered}
    BY <1>0, <1>6
  <2>2. \A t \in AllSlots : Len(g_events'[t].buf) <= BufLen
    BY <1>0, <1>4, <1>7 DEF IInv, Core, TableOK, TableTypeOK
  <2>3. g_events' \in [AllSlots -> EventStruct]
    BY <1>1, <1>4 DEF IInv, Core, TableOK, TableTypeOK
  <2>4. interest' \in [AllFds -> [slot: AllSlots, events: SUBSET {EPOLLIN, EPOLLOUT}]
                                 \cup {Unregistered}]
    BY <2>1, <1>5 DEF IInv, Core, TableOK, TableTypeOK
  <2> QED BY <2>2, <2>3, <2>4 DEF TableTypeOK
<1>10. SlotKind'
  <2> HIDE DEF new, ev
  <2>1. \A t \in Slots : ~InUse(t)'
    BY <1>0, <1>7
  <2>2. \A t \in AllSlots : g_events[t].len <= Len(g_events[t].buf)
    BY DEF IInv, Core, TableOK, SlotKind
  <2>3. \A t \in AllSlots : g_events'[t].len <= Len(g_events'[t].buf)
    <3> SUFFICES ASSUME NEW t \in AllSlots
                 PROVE  g_events'[t].len <= Len(g_events'[t].buf)
      OBVIOUS
    <3>1. g_events'[t].len = g_events[t].len /\ g_events'[t].buf = g_events[t].buf
      BY <1>4, <1>7
    <3> QED BY <3>1, <2>2
  <2>4. /\ g_events'[s].fd = ListenFd /\ g_events'[s].call_back = "handle_accept"
        /\ g_events'[s].events = {EPOLLIN}
    BY <1>4, <1>7
  <2> QED BY <2>1, <2>3, <2>4 DEF SlotKind
<1>11. OneSlotPerFd' /\ RegistrationMatches'
  <2>1. OneSlotPerFd'
    BY <1>7 DEF OneSlotPerFd
  <2>2. ASSUME NEW fd \in AllFds, Registered(fd)'
        PROVE  /\ g_events'[interest'[fd].slot].status = 1
               /\ g_events'[interest'[fd].slot].fd = fd
               /\ g_events'[interest'[fd].slot].events = interest'[fd].events
    <3>1. fd = ListenFd /\ interest'[fd] = entry
      BY <2>2, <1>6, <1>7 DEF Registered
    <3>2. entry.slot = s /\ entry.events = {EPOLLIN}
      OBVIOUS
    <3> HIDE DEF new, entry
    <3> QED BY <3>1, <3>2, <1>4, <1>7
  <2>3. ASSUME "epoll_ctl" \notin Faults, NEW t \in AllSlots, InUse(t)'
        PROVE  Registered(g_events[t].fd)'
    BY <2>3, <1>4, <1>6, <1>7 DEF Registered
  <2> QED BY <2>1, <2>2, <2>3 DEF RegistrationMatches, InUse
<1>12. (BatchTypeOK /\ NotStarted /\ OneEventPerSlot /\ FreshBatch)'
  BY <1>2 DEF IInv, BatchTypeOK, NotStarted, OneEventPerSlot, FreshBatch
<1> QED BY <1>8, <1>9, <1>10, <1>11, <1>12 DEF IInv, Core, TableOK

(* Steps that leave the tables as they are. *)
LEMMA CoreUnchanged ==
  ASSUME UNCHANGED <<kernelVars, g_events>>
  PROVE  (Core => Core') /\ \A e : Fresh(e) => Fresh(e)'
<1>1. /\ KernelTypeOK => KernelTypeOK'
      /\ ConnsOK => ConnsOK'
      /\ TableTypeOK => TableTypeOK'
  BY DEF KernelTypeOK, ConnsOK, TableTypeOK, kernelVars
<1>2. /\ SlotKind => SlotKind'
      /\ OneSlotPerFd => OneSlotPerFd'
      /\ RegistrationMatches => RegistrationMatches'
  BY DEF SlotKind, InUse, OneSlotPerFd, RegistrationMatches, Registered, kernelVars
<1>3. \A e : Fresh(e) => Fresh(e)'
  BY DEF kernelVars, Fresh, ConnOf, Readable, Writable, Avail, Space
<1> QED BY <1>1, <1>2, <1>3 DEF Core, TableOK

(* start_server or epoll_wait fails. *)
LEMMA ErrorIInv == IInv /\ (StartServerError \/ EpollWaitError) => IInv'
<1> SUFFICES ASSUME IInv, UNCHANGED <<kernelVars, g_events, batch, cur>>, pc' = "exit"
             PROVE  IInv'
  BY DEF StartServerError, EpollWaitError
<1>1. Core'
  BY CoreUnchanged DEF IInv
<1>2. (BatchTypeOK /\ NotStarted /\ OneEventPerSlot /\ FreshBatch)'
  BY DEF IInv, BatchTypeOK, NotStarted, OneEventPerSlot, FreshBatch
<1> QED BY <1>1, <1>2 DEF IInv

(* What epoll_wait returns is fresh when it returns, one event to a slot:  *)
(* the interest list and the table agree.                                  *)
LEMMA EpollWaitIInv == IInv /\ EpollWait => IInv'
<1> SUFFICES ASSUME IInv, EpollWait PROVE IInv'
  OBVIOUS
<1> USE EventLoopAssumption, KernelAssumption
<1>1. /\ batch' \subseteq ReadyEvents /\ pc' \in {"epoll_wait", "if_in"}
      /\ UNCHANGED <<kernelVars, g_events, cur>>
  BY DEF EpollWait
<1>2. Core /\ Core'
  BY <1>1, CoreUnchanged DEF IInv
<1>3. ASSUME NEW e \in ReadyEvents
      PROVE  /\ e \in EpollEvent /\ Fresh(e)
             /\ e.conn = ConnOf(g_events[e.slot].fd)
             /\ e.events = Reported(g_events[e.slot].fd)
  <2>1. PICK fd \in AllFds :
          /\ Reported(fd) # {}
          /\ e = [slot |-> interest[fd].slot, events |-> Reported(fd), conn |-> ConnOf(fd)]
    BY DEF ReadyEvents
  <2> DEFINE s == interest[fd].slot
  <2>2. Registered(fd)
    BY <2>1 DEF Reported, Registered, Unregistered
  <2>3. /\ s \in AllSlots /\ interest[fd].events \in SUBSET {EPOLLIN, EPOLLOUT}
        /\ InUse(s) /\ g_events[s].fd = fd /\ g_events[s].events = interest[fd].events
    BY <1>2, <2>2 DEF Core, TableOK, TableTypeOK, RegistrationMatches, Registered, InUse
  <2>4. e.slot = s /\ e.events = Reported(fd) /\ e.conn = ConnOf(fd)
    BY <2>1
  <2>5. e.events \subseteq g_events[s].events /\ e.events \subseteq ReadyFlags(fd)
    BY <2>3, <2>4 DEF Reported
  <2>6. CASE s = ListenSlot
    <3>1. /\ fd = ListenFd /\ g_events[s].call_back = "handle_accept"
          /\ g_events[s].events = {EPOLLIN}
      BY <1>2, <2>3, <2>6 DEF Core, TableOK, SlotKind
    <3>2. e.events = {EPOLLIN} /\ backlog # <<>>
      BY <2>1, <2>4, <2>5, <3>1 DEF ReadyFlags
    <3>3. e.conn = NoConn
      BY <2>4, <3>1 DEF ConnOf
    <3>4. e \in EpollEvent
      BY <2>1, <2>3, <2>4, <3>2, <3>3 DEF EpollEvent
    <3> QED BY <2>3, <2>4, <3>1, <3>2, <3>4 DEF Fresh, InUse
  <2>7. CASE s # ListenSlot
    <3>1. s \in Slots
      BY <2>3, <2>7 DEF Slots, AllSlots, ListenSlot
    <3>2. fd \in Fds /\ fd # ListenFd /\ fdTable[fd] \in Conns /\ KindOK(g_events[s])
      BY <1>2, <2>3, <3>1 DEF Core, TableOK, SlotKind
    <3>3. e.conn = fdTable[fd] /\ e.conn \in Conns
      BY <2>4, <3>2 DEF ConnOf
    <3>4. e.events = g_events[s].events
      <4>1. e.events # {}
        BY <2>1, <2>4
      <4> QED BY ONLY <4>1, <2>5, <3>2 DEF KindOK
    <3>5. e \in EpollEvent
      BY <2>1, <2>3, <2>4, <3>3, <3>4 DEF EpollEvent
    <3>6. /\ EPOLLIN \in e.events => Readable(e.conn)
          /\ EPOLLOUT \in e.events => Writable(e.conn)
      BY <2>5, <3>2, <3>3 DEF ReadyFlags
    <3> QED BY <2>3, <2>4, <3>2, <3>4, <3>5, <3>6 DEF Fresh, InUse, KindOK
  <2> QED BY <2>6, <2>7
<1>4. \A e, f \in batch' : e.slot = f.slot => e = f
  <2> SUFFICES ASSUME NEW e \in batch', NEW f \in batch', e.slot = f.slot PROVE e = f
    OBVIOUS
  <2>1. e \in EpollEvent /\ f \in EpollEvent /\ e.conn = f.conn /\ e.events = f.events
    BY <1>1, <1>3
  <2> QED BY <2>1 DEF EpollEvent
<1>5. \A e \in batch' : e \in EpollEvent /\ Fresh(e)'
  BY <1>1, <1>3, CoreUnchanged
<1>6. (BatchTypeOK /\ NotStarted)'
  BY <1>1, <1>5 DEF IInv, BatchTypeOK, NotStarted
<1>7. (OneEventPerSlot /\ FreshBatch)'
  BY <1>1, <1>4, <1>5 DEF OneEventPerSlot, FreshBatch, Pending
<1> QED BY <1>2, <1>6, <1>7 DEF IInv
(* A fresh event is for a slot in use and has one flag. *)
LEMMA FreshEvent ==
  ASSUME Core, NEW e \in EpollEvent, Fresh(e)
  PROVE  /\ e.slot \in AllSlots /\ InUse(e.slot)
         /\ e.events = g_events[e.slot].events
         /\ e.events = {EPOLLIN} \/ e.events = {EPOLLOUT}
<1>1. e.slot \in AllSlots /\ InUse(e.slot) /\ e.events = g_events[e.slot].events
  BY DEF EpollEvent, Fresh, InUse
<1>2. e.slot \in Slots \/ e.slot = ListenSlot
  BY <1>1, EventLoopAssumption DEF Slots, AllSlots, ListenSlot
<1> QED BY <1>1, <1>2 DEF Core, TableOK, SlotKind, KindOK

(* The first if of an entry: EPOLLIN. *)
LEMMA DispatchInIInv == IInv /\ DispatchIn => IInv'
<1> SUFFICES ASSUME IInv, DispatchIn PROVE IInv'
  OBVIOUS
<1>1. pc = "if_in"
  BY DEF DispatchIn
<1>2. PICK e \in batch :
        /\ cur' = e
        /\ batch' = batch \ {e}
        /\ \/ Wants(e, EPOLLIN) /\ CallBack(e.slot, "if_out")
           \/ /\ ~Wants(e, EPOLLIN)
              /\ pc' = "if_out"
              /\ UNCHANGED <<kernelVars, g_events>>
  BY DEF DispatchIn
<1>3. /\ Core /\ e \in EpollEvent
      /\ \A f \in batch : f \in EpollEvent /\ Fresh(f)
      /\ \A f \in batch' : f.slot # e.slot
      /\ \A f, g \in batch' : f.slot = g.slot => f = g
  BY <1>1, <1>2 DEF IInv, BatchTypeOK, OneEventPerSlot, FreshBatch, Pending
<1>4. /\ e.slot \in AllSlots /\ InUse(e.slot)
      /\ e.events = {EPOLLIN} \/ e.events = {EPOLLOUT}
      /\ e.events = g_events[e.slot].events
  BY <1>2, <1>3, FreshEvent
<1>5. CASE Wants(e, EPOLLIN) /\ CallBack(e.slot, "if_out")
  <2>1. Core' /\ OthersFresh(e.slot)
    BY <1>3, <1>4, <1>5, CallBackSafe
  <2>2. \A f \in batch' : Fresh(f)'
    BY <2>1, <1>2, <1>3 DEF OthersFresh
  <2>3. pc' \in {"if_out", "killed"}
    BY <1>5 DEF CallBack
  <2>4. EPOLLOUT \notin e.events
    BY <1>4, <1>5 DEF Wants, EPOLLIN, EPOLLOUT
  <2>5. Pending' = batch'
    BY <2>4, <1>2 DEF Pending, Wants
  <2>6. (BatchTypeOK /\ NotStarted /\ OneEventPerSlot /\ FreshBatch)'
    BY <2>2, <2>3, <2>5, <1>2, <1>3
       DEF IInv, BatchTypeOK, NotStarted, OneEventPerSlot, FreshBatch
  <2> QED BY <2>1, <2>6 DEF IInv
<1>6. CASE pc' = "if_out" /\ UNCHANGED <<kernelVars, g_events>>
  <2>1. Core' /\ Fresh(e)' /\ \A f \in batch' : Fresh(f)'
    BY <1>2, <1>3, <1>6, CoreUnchanged
  <2>2. \A f \in Pending' : Fresh(f)'
    BY <2>1, <1>2 DEF Pending
  <2>3. (BatchTypeOK /\ NotStarted /\ OneEventPerSlot /\ FreshBatch)'
    BY <2>2, <1>2, <1>3, <1>6
       DEF IInv, BatchTypeOK, NotStarted, OneEventPerSlot, FreshBatch
  <2> QED BY <2>1, <2>3 DEF IInv
<1> QED BY <1>2, <1>5, <1>6

(* The second if of an entry: EPOLLOUT. *)
LEMMA DispatchOutIInv == IInv /\ DispatchOut => IInv'
<1> SUFFICES ASSUME IInv, DispatchOut PROVE IInv'
  OBVIOUS
<1>1. pc = "if_out" /\ cur' = NoEvent /\ batch' = batch
  BY DEF DispatchOut
<1>2. /\ Core /\ cur \in EpollEvent /\ batch \in SUBSET EpollEvent
      /\ \A f \in batch : f.slot # cur.slot /\ Fresh(f)
      /\ \A f, g \in batch : f.slot = g.slot => f = g
  BY <1>1 DEF IInv, BatchTypeOK, OneEventPerSlot, FreshBatch, Pending
<1>3. NextEvent \in {"epoll_wait", "if_in"}
  BY DEF NextEvent
<1>4. /\ Core'
      /\ \A f \in batch : Fresh(f)'
      /\ pc' \in {"epoll_wait", "if_in", "killed"}
  <2>1. CASE Wants(cur, EPOLLOUT) /\ CallBack(cur.slot, NextEvent)
    <3>1. Fresh(cur)
      BY <2>1, <1>1 DEF IInv, FreshBatch, Pending
    <3>2. cur.slot \in AllSlots /\ InUse(cur.slot)
      BY <3>1, <1>2, FreshEvent
    <3>3. Core' /\ OthersFresh(cur.slot)
      BY <2>1, <3>2, <1>2, CallBackSafe
    <3>4. pc' \in {"epoll_wait", "if_in", "killed"}
      BY <2>1, <1>3 DEF CallBack
    <3> QED BY <3>3, <3>4, <1>2 DEF OthersFresh
  <2>2. CASE pc' = NextEvent /\ UNCHANGED <<kernelVars, g_events>>
    BY <2>2, <1>2, <1>3, CoreUnchanged
  <2> QED BY <2>1, <2>2 DEF DispatchOut
<1>5. pc' = "if_in" => Pending' = batch
  BY <1>1 DEF Pending
<1>6. (BatchTypeOK /\ NotStarted /\ OneEventPerSlot /\ FreshBatch)'
  BY <1>1, <1>2, <1>4, <1>5
     DEF IInv, BatchTypeOK, NotStarted, OneEventPerSlot, FreshBatch
<1> QED BY <1>4, <1>6 DEF IInv

(* Clients only ever make more ready. *)
LEMMA ClientsKeepReadiness ==
  ASSUME Core, NEW c \in Conns,
         ClientConnect(c) \/ ClientSend(c) \/ ClientRead(c)
           \/ ClientHangup(c) \/ ClientReset(c)
  PROVE  /\ KernelTypeOK' /\ ConnsOK' /\ UNCHANGED <<fdTable, interest>>
         /\ backlog # <<>> => backlog' # <<>>
         /\ \A d \in Conns : /\ Readable(d) => Readable(d)'
                             /\ Writable(d) => Writable(d)'
<1> USE KernelAssumption
<1>1. CASE ClientConnect(c)
  <2>1. /\ peer[c] = "absent" /\ sock[c] = "none"
        /\ peer' = [peer EXCEPT ![c] = "up"]
        /\ sock' = [sock EXCEPT ![c] = "backlog"]
        /\ backlog' = Append(backlog, c)
        /\ UNCHANGED <<fdTable, interest, sent, rcvd, out, got>>
    BY <1>1 DEF ClientConnect, Core, ConnsOK
  <2>2. /\ backlog \in Seq(Conns) /\ Len(backlog) \in Nat /\ backlog' \in Seq(Conns)
        /\ Len(backlog') = Len(backlog) + 1 /\ backlog'[Len(backlog) + 1] = c
        /\ \A i \in 1..Len(backlog) : backlog'[i] = backlog[i] /\ backlog[i] \in Conns
    BY <2>1 DEF Core, KernelTypeOK
  <2>3. \A i \in 1..Len(backlog) : backlog[i] # c
    BY <2>1 DEF Core, ConnsOK
  <2>4. KernelTypeOK'
    BY <2>1, <2>2 DEF Core, KernelTypeOK, PeerStates, SockStates
  <2>5. \A i \in 1..Len(backlog') : i \in 1..Len(backlog) \/ i = Len(backlog) + 1
    BY <2>2
  <2>6. ASSUME NEW i \in 1..Len(backlog')
        PROVE  sock'[backlog'[i]] = "backlog"
    <3>1. \A d \in Conns : sock'[d] = IF d = c THEN "backlog" ELSE sock[d]
      BY <2>1 DEF Core, KernelTypeOK
    <3>2. CASE i \in 1..Len(backlog)
      <4>1. sock[backlog[i]] = "backlog" /\ backlog'[i] = backlog[i] /\ backlog[i] \in Conns
        BY <2>2, <3>2 DEF Core, ConnsOK
      <4> QED BY <3>1, <4>1
    <3>3. CASE i = Len(backlog) + 1
      BY <2>2, <3>1, <3>3
    <3> QED BY <2>5, <3>2, <3>3
  <2>7. \A i, j \in 1..Len(backlog') : backlog'[i] = backlog'[j] => i = j
    BY <2>2, <2>3, <2>5 DEF Core, ConnsOK
  <2>8. /\ \A x \in Conns : peer'[x] = "absent" => sock'[x] = "none"
        /\ \A x \in Conns : sock'[x] = "accepted" <=> sock[x] = "accepted"
    BY <2>1 DEF Core, KernelTypeOK, ConnsOK
  <2>9. ConnsOK'
    BY <2>1, <2>6, <2>7, <2>8 DEF Core, ConnsOK
  <2>10. \A d \in Conns : /\ Readable(d) => Readable(d)'
                          /\ Writable(d) => Writable(d)'
    BY <2>1 DEF Readable, Writable, Avail, Space, Core, KernelTypeOK
  <2> QED BY <2>1, <2>2, <2>4, <2>9, <2>10
<1>2. CASE ClientSend(c)
  <2>1. /\ sent[c] < MaxBytes /\ sent' = [sent EXCEPT ![c] = @ + 1]
        /\ UNCHANGED <<peer, backlog, sock, fdTable, interest, rcvd, out, got>>
    BY <1>2 DEF ClientSend
  <2>2. KernelTypeOK' /\ ConnsOK'
    <3>1. /\ sent \in [Conns -> 0..MaxBytes] /\ rcvd \in [Conns -> 0..MaxBytes]
          /\ out \in [Conns -> Seq(Byte)] /\ got \in [Conns -> Nat]
          /\ \A x \in Conns : rcvd[x] <= sent[x]
      BY DEF Core, KernelTypeOK, ConnsOK
    <3>2. sent' \in [Conns -> 0..MaxBytes] /\ \A x \in Conns : rcvd[x] <= sent'[x]
      BY ONLY <3>1, <2>1, KernelAssumption DEF KernelAssumption
    <3> QED BY <3>1, <3>2, <2>1, CountersKeepConns
  <2>3. \A d \in Conns : Avail(d) > 0 => Avail(d)' > 0
    BY <2>1 DEF Avail, Core, KernelTypeOK
  <2>4. \A d \in Conns : /\ Readable(d) => Readable(d)'
                         /\ Writable(d) => Writable(d)'
    BY <2>1, <2>3 DEF Readable, Writable, Space
  <2> QED BY <2>1, <2>2, <2>4
<1>3. CASE ClientRead(c)
  <2>1. /\ got[c] < Len(out[c]) /\ got' = [got EXCEPT ![c] = Len(out[c])]
        /\ UNCHANGED <<peer, backlog, sock, fdTable, interest, sent, rcvd, out>>
    BY <1>3 DEF ClientRead
  <2>2. \A d \in Conns : Len(out[d]) \in Nat /\ got[d] \in Nat
    BY DEF Core, KernelTypeOK
  <2>3. KernelTypeOK' /\ ConnsOK'
    <3>1. /\ sent \in [Conns -> 0..MaxBytes] /\ rcvd \in [Conns -> 0..MaxBytes]
          /\ out \in [Conns -> Seq(Byte)] /\ got \in [Conns -> Nat]
          /\ \A x \in Conns : rcvd[x] <= sent[x]
      BY DEF Core, KernelTypeOK, ConnsOK
    <3>2. got' \in [Conns -> Nat]
      BY <3>1, <2>1, <2>2
    <3> QED BY <3>1, <3>2, <2>1, CountersKeepConns
  <2>4. \A d \in Conns : Space(d) >= SndLow => Space(d)' >= SndLow
    BY <2>1, <2>2 DEF Space, Core, KernelTypeOK
  <2>5. \A d \in Conns : /\ Readable(d) => Readable(d)'
                         /\ Writable(d) => Writable(d)'
    BY <2>1, <2>4 DEF Readable, Writable, Avail
  <2> QED BY <2>1, <2>3, <2>5
<1>4. CASE ClientHangup(c) \/ ClientReset(c)
  <2>1. /\ peer[c] \in {"up", "fin"}
        /\ \/ peer[c] = "up" /\ peer' = [peer EXCEPT ![c] = "fin"]
           \/ peer' = [peer EXCEPT ![c] = IF peer[c] = "up" THEN "rst" ELSE "finrst"]
        /\ UNCHANGED <<backlog, sock, fdTable, interest, sent, rcvd, out, got>>
    BY <1>4 DEF ClientHangup, ClientReset
  <2>2. KernelTypeOK' /\ ConnsOK'
    <3>1. \A d \in Conns : peer'[d] # peer[d] => peer[d] # "absent" /\ peer'[d] # "absent"
      BY <2>1 DEF Core, KernelTypeOK
    <3>2. peer' \in [Conns -> PeerStates]
      <4>1. CASE peer' = [peer EXCEPT ![c] = "fin"]
        BY <4>1 DEF Core, KernelTypeOK, PeerStates
      <4>2. CASE peer' = [peer EXCEPT ![c] = IF peer[c] = "up" THEN "rst" ELSE "finrst"]
        BY <4>2 DEF Core, KernelTypeOK, PeerStates
      <4> QED BY <2>1, <4>1, <4>2
    <3>3. \A d \in Conns : peer'[d] = "absent" => sock[d] = "none"
      BY <3>1 DEF Core, ConnsOK
    <3>4. UNCHANGED <<backlog, sock, fdTable, sent, rcvd, out, got>>
      BY <2>1
    <3>5. KernelTypeOK'
      BY ONLY <3>2, <3>4, Core DEF Core, KernelTypeOK
    <3>6. ConnsOK'
      BY ONLY <3>3, <3>4, Core DEF Core, ConnsOK
    <3> QED BY <3>5, <3>6
  <2>3. ASSUME NEW d \in Conns
        PROVE  /\ Readable(d) => Readable(d)'
               /\ Writable(d) => Writable(d)'
    <3>1. CASE d = c
      BY <3>1, <2>1 DEF Readable, Writable, Avail, Space, Core, KernelTypeOK
    <3>2. CASE d # c
      BY <3>2, <2>1 DEF Readable, Writable, Avail, Space, Core, KernelTypeOK
    <3> QED BY <3>1, <3>2
  <2> QED BY <2>1, <2>2, <2>3
<1> QED BY <1>1, <1>2, <1>3, <1>4

(* The steps of clients. *)
LEMMA ClientIInv == IInv /\ Client => IInv'
<1> SUFFICES ASSUME IInv, Client PROVE IInv'
  OBVIOUS
<1>1. PICK c \in Conns : \/ ClientConnect(c) \/ ClientSend(c) \/ ClientRead(c)
                         \/ ClientHangup(c) \/ ClientReset(c)
  BY DEF Client
<1>2. /\ UNCHANGED <<g_events, batch, cur, pc>>
      /\ pc # "start"
  BY DEF Client, loopVars, Serving
<1>3. /\ KernelTypeOK' /\ ConnsOK' /\ UNCHANGED <<fdTable, interest>>
      /\ backlog # <<>> => backlog' # <<>>
      /\ \A d \in Conns : /\ Readable(d) => Readable(d)'
                          /\ Writable(d) => Writable(d)'
  BY <1>1, ClientsKeepReadiness DEF IInv
<1>4. TableOK'
  BY <1>2, <1>3 DEF IInv, Core, TableOK, TableTypeOK, SlotKind, InUse, OneSlotPerFd,
     RegistrationMatches, Registered
<1>5. ASSUME NEW e \in EpollEvent, Fresh(e)
      PROVE  Fresh(e)'
  <2>1. e.slot \in AllSlots /\ InUse(e.slot)
    BY <1>5, FreshEvent DEF IInv
  <2>2. g_events[e.slot].call_back # "handle_accept" => e.conn \in Conns
    <3>1. e.slot \in Slots \/ e.slot = ListenSlot
      BY <2>1, EventLoopAssumption DEF Slots, AllSlots, ListenSlot
    <3>2. e.slot \in Slots => g_events[e.slot].fd # ListenFd
      BY <2>1, KernelAssumption DEF IInv, Core, TableOK, SlotKind
    <3> QED BY <3>1, <3>2, <2>1, <1>5 DEF IInv, Core, TableOK, SlotKind, Fresh, ConnOf
  <2>3. ConnOf(g_events[e.slot].fd)' = ConnOf(g_events[e.slot].fd)
    BY <1>2, <1>3 DEF ConnOf
  <2> QED BY <2>2, <2>3, <1>2, <1>3, <1>5 DEF Fresh
<1>6. Pending' = Pending /\ (pc \in {"if_in", "if_out"} => Pending \in SUBSET EpollEvent)
  BY <1>2 DEF Pending, Wants, IInv, BatchTypeOK, OneEventPerSlot
<1>7. (BatchTypeOK /\ NotStarted /\ OneEventPerSlot /\ FreshBatch)'
  BY <1>2, <1>5, <1>6 DEF IInv, BatchTypeOK, NotStarted, OneEventPerSlot, FreshBatch
<1> QED BY <1>3, <1>4, <1>7 DEF IInv, Core

-----------------------------------------------------------------------------
(***************************************************************************)
(* The theorems.                                                           *)
(***************************************************************************)

(* Every step of the server and of its clients keeps IInv. *)
LEMMA StepIInv == IInv /\ [Next]_vars => IInv'
<1>1. IInv /\ Server => IInv'
  BY StartIInv, ErrorIInv, EpollWaitIInv, DispatchInIInv, DispatchOutIInv DEF Server
<1>2. IInv /\ UNCHANGED vars => IInv'
  <2> SUFFICES ASSUME IInv, UNCHANGED <<kernelVars, loopVars>> PROVE IInv'
    BY DEF vars
  <2>1. Core' /\ \A e : Fresh(e) => Fresh(e)'
    BY CoreUnchanged DEF IInv, loopVars
  <2>2. (BatchTypeOK /\ NotStarted /\ OneEventPerSlot)' /\ Pending' = Pending
    BY DEF IInv, BatchTypeOK, NotStarted, OneEventPerSlot, InUse, Registered, loopVars,
           kernelVars, Pending, Wants
  <2> QED BY <2>1, <2>2 DEF IInv, FreshBatch, loopVars
<1> QED BY <1>1, <1>2, ClientIInv DEF Next

(* IInv is an inductive invariant of the server and its clients.           *)
THEOREM Invariance == Spec => []IInv
BY InitIInv, StepIInv, PTL DEF Spec

(* Type correctness: in particular what handle_recv puts into an event_s   *)
(* fits its buffer.                                                        *)
THEOREM TypeCorrect == Spec => []TypeOK
<1>1. IInv => TypeOK
  BY DEF IInv, Core, TableOK, TableTypeOK, BatchTypeOK, TypeOK, LoopTypeOK
<1> QED BY <1>1, Invariance, PTL

(* Whatever the number of clients, slots and descriptors and whatever      *)
(* fails, g_events and the interest list agree.                            *)
THEOREM RegistrationAgrees == Spec => []RegistrationMatches
<1>1. IInv => RegistrationMatches
  BY DEF IInv, Core, TableOK
<1> QED BY <1>1, Invariance, PTL

(* No handler is ever called for a connection that was closed, replaced or *)
(* is not ready, whatever batch epoll_wait returns and in whatever order.  *)
THEOREM NoStaleCallback == Spec => []FreshBatch
<1>1. IInv => FreshBatch
  BY DEF IInv
<1> QED BY <1>1, Invariance, PTL

(* No two slots share a descriptor, none has a closed one, and every       *)
(* accepted connection has exactly one.                                    *)
THEOREM DescriptorsOwned == Spec => []FdOwnership
<1>1. IInv => FdOwnership
  <2> SUFFICES ASSUME IInv PROVE FdOwnership
    OBVIOUS
  <2>1. ASSUME NEW s \in Slots, g_events[s].status = 1
        PROVE  /\ g_events[s].fd \in Fds
               /\ fdTable[g_events[s].fd] # NoConn
               /\ Owners(g_events[s].fd) = {s}
    <3>1. /\ g_events[s].fd \in Fds /\ fdTable[g_events[s].fd] \in Conns
      BY <2>1, SlotConn DEF IInv, InUse
    <3>2. \A t \in Slots : g_events[t].status = 1 /\ g_events[t].fd = g_events[s].fd => t = s
      <4>1. Slots \subseteq AllSlots
        BY EventLoopAssumption DEF Slots, AllSlots
      <4> QED BY <2>1, <4>1 DEF IInv, Core, TableOK, OneSlotPerFd, InUse
    <3> QED BY <3>1, <3>2, <2>1, KernelAssumption DEF Owners
  <2> QED BY <2>1 DEF FdOwnership, IInv, Core, ConnsOK
<1> QED BY <1>1, Invariance, PTL

-----------------------------------------------------------------------------
(***************************************************************************)
(* The refinement: what EchoProtocol sees of a connection.                 *)
(***************************************************************************)
SlotOf(s) == fdTable[g_events[s].fd]

(* What EchoProtocol sees of a connection, in terms of its slot. *)
SlotViews ==
  /\ \A c \in Conns : OwnerOf(c) = {s \in Slots : InUse(s) /\ SlotOf(s) = c}
  /\ \A s \in Slots : InUse(s) =>
       /\ OwnerOf(SlotOf(s)) = {s}
       /\ SlotOf(s) \in Conns
       /\ sock[SlotOf(s)] = "accepted"
       /\ PhaseOf(SlotOf(s)) =
            IF g_events[s].call_back = "handle_send" THEN "writing" ELSE "reading"
       /\ ChunkOf(SlotOf(s)) =
            IF g_events[s].call_back = "handle_send" THEN g_events[s].buf ELSE <<>>
  /\ \A c \in Conns : sock[c] # "accepted" => OwnerOf(c) = {}
  /\ \A c \in Conns : OwnerOf(c) = {} => ChunkOf(c) = <<>>

(* The slots tell what each connection is doing. *)
LEMMA CoreGivesViews == Core => SlotViews
<1> SUFFICES ASSUME Core PROVE SlotViews
  OBVIOUS
<1> USE KernelAssumption
<1>1. ASSUME NEW c \in Conns
      PROVE  OwnerOf(c) = {s \in Slots : InUse(s) /\ SlotOf(s) = c}
  <2>1. \A s \in Slots : InUse(s) => g_events[s].fd \in Fds
    BY DEF Core, TableOK, SlotKind
  <2> QED BY <2>1 DEF OwnerOf, Owners, SlotOf, InUse
<1>2. ASSUME NEW s \in Slots, InUse(s)
      PROVE  /\ OwnerOf(SlotOf(s)) = {s}
             /\ SlotOf(s) \in Conns
             /\ sock[SlotOf(s)] = "accepted"
             /\ PhaseOf(SlotOf(s)) =
                  IF g_events[s].call_back = "handle_send" THEN "writing" ELSE "reading"
             /\ ChunkOf(SlotOf(s)) =
                  IF g_events[s].call_back = "handle_send" THEN g_events[s].buf ELSE <<>>
  <2>1. SlotOf(s) \in Conns /\ sock[SlotOf(s)] = "accepted"
    BY <1>2, SlotConn DEF SlotOf
  <2>2. ASSUME NEW t \in Slots, InUse(t), SlotOf(t) = SlotOf(s)
        PROVE  t = s
    <3>1. /\ g_events[s].fd \in Fds /\ g_events[t].fd \in Fds
          /\ s \in AllSlots /\ t \in AllSlots
      BY <1>2, <2>2, SlotConn
    <3>2. g_events[s].fd = g_events[t].fd
      BY <3>1, <2>1, <2>2 DEF SlotOf, Core, ConnsOK
    <3> QED BY <3>1, <3>2, <1>2, <2>2 DEF Core, TableOK, OneSlotPerFd
  <2>3. OwnerOf(SlotOf(s)) = {s}
    BY <1>1, <1>2, <2>1, <2>2
  <2>4. Writing(SlotOf(s)) <=> g_events[s].call_back = "handle_send"
    BY <2>3 DEF Writing
  <2> DEFINE c == SlotOf(s)
  <2>5. PhaseOf(c) = IF Writing(c) THEN "writing" ELSE "reading"
    <3> HIDE DEF c
    <3> QED BY <2>1, <2>3 DEF PhaseOf, c
  <2>6. ChunkOf(c) = IF Writing(c) THEN g_events[s].buf ELSE <<>>
    <3> HIDE DEF c
    <3>1. SlotFor(c) = s
      BY <2>3 DEF c, SlotFor
    <3> QED BY <3>1 DEF ChunkOf
  <2> QED BY <2>1, <2>3, <2>4, <2>5, <2>6
<1>3. ASSUME NEW c \in Conns, sock[c] # "accepted"
      PROVE  OwnerOf(c) = {}
  BY <1>1, <1>2, <1>3
<1>4. ASSUME NEW c \in Conns, OwnerOf(c) = {}
      PROVE  ChunkOf(c) = <<>>
  BY <1>4 DEF ChunkOf, Writing
<1> QED BY <1>1, <1>2, <1>3, <1>4 DEF SlotViews

(* The same after a step. *)
LEMMA CoreGivesViewsNext == Core' => SlotViews'
BY CoreGivesViews, PTL

(* A step about one descriptor and one slot, both of connection c or of    *)
(* none, is not seen by the other connections.                             *)
LEMMA OthersKeepView ==
  ASSUME Core, Core', NEW s \in AllSlots, NEW fd \in Fds, NEW c,
         \A t \in AllSlots : t # s => g_events'[t] = g_events[t],
         \A gd \in Fds : gd # fd => fdTable'[gd] = fdTable[gd],
         fdTable[fd] \in {c, NoConn}, fdTable'[fd] \in {c, NoConn},
         s \in Slots /\ InUse(s) => g_events[s].fd = fd,
         s \in Slots /\ InUse(s)' => g_events'[s].fd = fd,
         NEW d \in Conns, d # c, sock'[d] = sock[d]
  PROVE  PhaseOf(d)' = PhaseOf(d) /\ ChunkOf(d)' = ChunkOf(d)
<1> USE KernelAssumption
<1>1. SlotViews /\ SlotViews'
  BY CoreGivesViews, CoreGivesViewsNext
<1>2. fdTable[fd] # d /\ fdTable'[fd] # d
  OBVIOUS
<1>3. ASSUME NEW t \in Slots
      PROVE  /\ t \in OwnerOf(d) <=> t \in OwnerOf(d)'
             /\ t \in OwnerOf(d) => g_events'[t] = g_events[t]
  <2>0. t \in AllSlots
    BY EventLoopAssumption DEF Slots, AllSlots
  <2>1. /\ t \in OwnerOf(d) <=> InUse(t) /\ SlotOf(t) = d
        /\ t \in OwnerOf(d)' <=> InUse(t)' /\ SlotOf(t)' = d
    BY <1>1 DEF SlotViews
  <2>2. CASE t = s
    BY <2>1, <2>2, <1>2 DEF SlotOf
  <2>3. CASE t # s
    <3>1. g_events'[t] = g_events[t]
      BY <2>0, <2>3
    <3>2. InUse(t) => g_events[t].fd \in Fds
      BY SlotConn
    <3> QED BY <2>1, <3>1, <3>2, <1>2 DEF SlotOf, InUse
  <2> QED BY <2>2, <2>3
<1>4. OwnerOf(d) \subseteq Slots /\ OwnerOf(d)' \subseteq Slots
  BY <1>1 DEF SlotViews
<1>5. OwnerOf(d)' = OwnerOf(d)
  BY <1>3, <1>4
<1>6. Writing(d)' = Writing(d)
  BY <1>3, <1>4, <1>5 DEF Writing
<1>7. PhaseOf(d)' = PhaseOf(d)
  BY <1>5, <1>6 DEF PhaseOf
<1>8. ChunkOf(d)' = ChunkOf(d)
  <2>1. CASE Writing(d)
    <3>1. SlotFor(d) \in OwnerOf(d)
      BY <2>1 DEF Writing, SlotFor
    <3>2. g_events'[SlotFor(d)] = g_events[SlotFor(d)]
      BY <3>1, <1>3, <1>4
    <3>3. SlotFor(d)' = SlotFor(d)
      BY <1>5 DEF SlotFor
    <3> QED BY <2>1, <1>6, <3>2, <3>3 DEF ChunkOf
  <2>2. CASE ~Writing(d)
    BY <2>2, <1>6 DEF ChunkOf
  <2> QED BY <2>1, <2>2
<1> QED BY <1>7, <1>8
-----------------------------------------------------------------------------
(***************************************************************************)
(* How the three table operations show in EchoProtocol.                    *)
(***************************************************************************)
Phases == [c \in Conns |-> PhaseOf(c)]
Chunks == [c \in Conns |-> ChunkOf(c)]

PhaseFor(ev) == IF ev.call_back = "handle_send" THEN "writing" ELSE "reading"
ChunkFor(ev) == IF ev.call_back = "handle_send" THEN ev.buf ELSE <<>>

(* When one connection is seen to change, the functions change there. *)
LEMMA OneViewChanges ==
  ASSUME NEW c \in Conns, NEW phase, NEW chunk,
         PhaseOf(c)' = phase, ChunkOf(c)' = chunk,
         \A d \in Conns : d # c => PhaseOf(d)' = PhaseOf(d) /\ ChunkOf(d)' = ChunkOf(d)
  PROVE  /\ Phases' = [Phases EXCEPT ![c] = phase]
         /\ Chunks' = [Chunks EXCEPT ![c] = chunk]
<1>1. Phases' = [Phases EXCEPT ![c] = phase]
  BY DEF Phases
<1>2. Chunks' = [Chunks EXCEPT ![c] = chunk]
  BY DEF Chunks
<1> QED BY <1>1, <1>2

(* event_set and event_add of a slot in use: only its connection changes. *)
LEMMA RearmViews ==
  ASSUME Core, Core', NEW s \in Slots, InUse(s), NEW c, c = SlotOf(s), NEW new,
         SetShape(s, g_events[s].fd, new), UNCHANGED <<fdTable, sock>>
  PROVE  /\ Phases' = [Phases EXCEPT ![c] = PhaseFor(new)]
         /\ Chunks' = [Chunks EXCEPT ![c] = ChunkFor(new)]
<1> DEFINE fd == g_events[s].fd
<1>1. /\ s \in AllSlots /\ fd \in Fds /\ c \in Conns
      /\ fdTable[fd] = c
  BY SlotConn DEF SlotOf
<1>2. /\ g_events'[s] = new /\ new.fd = fd /\ new.status = 1
      /\ \A t \in AllSlots : t # s => g_events'[t] = g_events[t]
  BY <1>1 DEF SetShape, Core, TableOK, TableTypeOK
<1>3. InUse(s)' /\ SlotOf(s)' = c
  BY <1>2 DEF InUse, SlotOf
<1>4. /\ PhaseOf(c)' = PhaseFor(new)
      /\ ChunkOf(c)' = ChunkFor(new)
  BY <1>2, <1>3, CoreGivesViewsNext DEF SlotViews, PhaseFor, ChunkFor
<1>5. ASSUME NEW d \in Conns, d # c
      PROVE  PhaseOf(d)' = PhaseOf(d) /\ ChunkOf(d)' = ChunkOf(d)
  BY <1>1, <1>2, <1>5, OthersKeepView
<1> QED BY <1>1, <1>4, <1>5, OneViewChanges

(* event_del and close. *)
LEMMA CloseViews ==
  ASSUME Core, Core', NEW s \in Slots, InUse(s), NEW c, c = SlotOf(s), DelAndClose(s)
  PROVE  /\ Phases' = [Phases EXCEPT ![c] = "closed"]
         /\ Chunks' = [Chunks EXCEPT ![c] = <<>>]
<1> DEFINE fd == g_events[s].fd
<1>1. /\ s \in AllSlots /\ fd \in Fds /\ c \in Conns
      /\ fdTable[fd] = c /\ g_events[s] \in EventStruct
  BY SlotConn DEF SlotOf
<1>2. /\ g_events' = [g_events EXCEPT ![s] = EventDel(g_events[s])]
      /\ fdTable' = [fdTable EXCEPT ![fd] = NoConn]
      /\ sock' = [x \in Conns |-> IF x = c THEN "closed" ELSE sock[x]]
  BY DEF DelAndClose, SlotOf
<1>3. /\ \A t \in AllSlots : t # s => g_events'[t] = g_events[t]
      /\ \A gd \in Fds : gd # fd => fdTable'[gd] = fdTable[gd]
      /\ fdTable'[fd] = NoConn
      /\ ~InUse(s)'
      /\ sock'[c] = "closed"
      /\ \A d \in Conns : d # c => sock'[d] = sock[d]
  BY <1>1, <1>2, EventDelShape DEF Core, TableOK, TableTypeOK, KernelTypeOK, InUse
<1>4. PhaseOf(c)' = "closed" /\ ChunkOf(c)' = <<>>
  BY <1>1, <1>3, CoreGivesViewsNext DEF SlotViews, PhaseOf
<1>5. ASSUME NEW d \in Conns, d # c
      PROVE  PhaseOf(d)' = PhaseOf(d) /\ ChunkOf(d)' = ChunkOf(d)
  BY <1>1, <1>3, <1>5, OthersKeepView
<1> QED BY <1>1, <1>4, <1>5, OneViewChanges

(* accept() and what becomes of the new descriptor. *)
LEMMA AcceptViews ==
  ASSUME Core, Core', backlog # <<>>, NEW c, c = Head(backlog), NEW fd \in FreeFds,
         fdTable' = [fdTable EXCEPT ![fd] = c],
         sock' = [sock EXCEPT ![c] = "accepted"],
         \/ \E i \in FirstFree : SetAndAdd(i, g_events[i], fd, "handle_recv", {EPOLLIN})
         \/ UNCHANGED <<g_events, interest>>
  PROVE  /\ c \in Conns /\ sock[c] = "backlog"
         /\ Chunks' = Chunks
         /\ \/ FreeSlots # {} /\ Phases' = [Phases EXCEPT ![c] = "reading"]
            \/ UNCHANGED g_events /\ Phases' = [Phases EXCEPT ![c] = "abandoned"]
<1> USE KernelAssumption, EventLoopAssumption
<1>1. fd \in Fds /\ fdTable[fd] = NoConn
  BY DEF FreeFds
<1>2. c \in Conns /\ sock[c] = "backlog"
  BY DEF Core, KernelTypeOK, ConnsOK
<1>3. /\ \A gd \in Fds : gd # fd => fdTable'[gd] = fdTable[gd]
      /\ fdTable'[fd] = c
      /\ sock'[c] = "accepted"
      /\ \A d \in Conns : d # c => sock'[d] = sock[d]
  BY <1>1, <1>2 DEF Core, KernelTypeOK
<1>4. ChunkOf(c) = <<>>
  BY <1>2, CoreGivesViews DEF SlotViews
<1>5. [Chunks EXCEPT ![c] = <<>>] = Chunks
  BY <1>2, <1>4 DEF Chunks
<1>6. ASSUME NEW i \in FirstFree,
             SetAndAdd(i, g_events[i], fd, "handle_recv", {EPOLLIN})
      PROVE  /\ FreeSlots # {} /\ Phases' = [Phases EXCEPT ![c] = "reading"]
             /\ Chunks' = Chunks
  <2>1. i \in Slots /\ i \in AllSlots /\ ~InUse(i)
    BY <1>6, AcceptShape
  <2>2. PICK new : SetShape(i, fd, new) /\ new.call_back = "handle_recv"
    BY <1>6, AcceptShape
  <2>3. /\ g_events'[i] = new /\ new.fd = fd /\ new.status = 1
        /\ \A t \in AllSlots : t # i => g_events'[t] = g_events[t]
    BY <2>1, <2>2 DEF SetShape, Core, TableOK, TableTypeOK
  <2>4. InUse(i)' /\ SlotOf(i)' = c
    BY <2>3, <1>3 DEF InUse, SlotOf
  <2>5. PhaseOf(c)' = "reading" /\ ChunkOf(c)' = <<>>
    BY <2>1, <2>2, <2>3, <2>4, CoreGivesViewsNext DEF SlotViews
  <2>6. ASSUME NEW d \in Conns, d # c
        PROVE  PhaseOf(d)' = PhaseOf(d) /\ ChunkOf(d)' = ChunkOf(d)
    BY <1>1, <1>3, <2>1, <2>3, <2>6, OthersKeepView
  <2>7. /\ Phases' = [Phases EXCEPT ![c] = "reading"]
        /\ Chunks' = [Chunks EXCEPT ![c] = <<>>]
    BY <1>2, <2>5, <2>6, OneViewChanges
  <2> QED BY <2>7, <1>5 DEF FirstFree
<1>7. ASSUME UNCHANGED <<g_events, interest>>
      PROVE  Phases' = [Phases EXCEPT ![c] = "abandoned"] /\ Chunks' = Chunks
  <2>1. OwnerOf(c)' = {}
    <3>1. \A s \in Slots : InUse(s) => g_events[s].fd \in Fds /\ SlotOf(s) \in Conns /\ SlotOf(s) # c
      BY <1>2, SlotConn DEF SlotOf
    <3>2. \A s \in Slots : InUse(s)' => SlotOf(s)' # c
      BY <3>1, <1>1, <1>3, <1>7 DEF SlotOf, InUse
    <3> QED BY <1>2, <3>2, CoreGivesViewsNext DEF SlotViews
  <2>2. PhaseOf(c)' = "abandoned" /\ ChunkOf(c)' = <<>>
    BY <2>1, <1>2, <1>3, CoreGivesViewsNext DEF SlotViews, PhaseOf
  <2>3. ListenSlot \in AllSlots /\ ListenSlot \notin Slots
    BY DEF ListenSlot, AllSlots, Slots
  <2>4. ASSUME NEW d \in Conns, d # c
        PROVE  PhaseOf(d)' = PhaseOf(d) /\ ChunkOf(d)' = ChunkOf(d)
    BY <1>1, <1>3, <1>7, <2>3, <2>4, OthersKeepView
  <2>5. /\ Phases' = [Phases EXCEPT ![c] = "abandoned"]
        /\ Chunks' = [Chunks EXCEPT ![c] = <<>>]
    BY <1>2, <2>2, <2>4, OneViewChanges
  <2> QED BY <2>5, <1>5
<1> QED BY <1>2, <1>6, <1>7

(* EchoProtocol counts with its own instance of the operator. *)
LEMMA EchoCardinality ==
  ASSUME NEW S
  PROVE  Echo!Cardinality(S) = Cardinality(S)
BY DEF Echo!Cardinality, Cardinality

(* As many connections are served as slots are in use. *)
LEMMA ServedBySlots ==
  ASSUME Core
  PROVE  /\ FreeSlots # {} => Cardinality(Echo!Served) < MaxEvents
         /\ FreeSlots = {} => Cardinality(Echo!Served) >= MaxEvents
<1> USE EventLoopAssumption
<1> DEFINE Used == {s \in Slots : InUse(s)}
           conn == [s \in Used |-> SlotOf(s)]
<1>1. SlotViews
  BY CoreGivesViews
<1>2. Echo!Served = {c \in Conns : PhaseOf(c) \in {"reading", "writing"}}
  BY DEF Echo!Served
<1>3. \A c \in Conns : PhaseOf(c) \in {"reading", "writing"} <=> OwnerOf(c) # {}
  <2>1. \A c \in Conns : OwnerOf(c) # {} => sock[c] = "accepted"
    BY <1>1 DEF SlotViews
  <2>2. \A c \in Conns : sock[c] \in SockStates
    BY DEF Core, KernelTypeOK
  <2> QED BY <2>1, <2>2 DEF PhaseOf, SockStates
<1>4. Echo!Served = {c \in Conns : \E s \in Used : SlotOf(s) = c}
  BY <1>1, <1>2, <1>3 DEF SlotViews
<1>5. conn \in Bijection(Used, Echo!Served)
  <2>1. conn \in [Used -> Echo!Served]
    BY <1>1, <1>4 DEF SlotViews
  <2>2. \A s, t \in Used : conn[s] = conn[t] => s = t
    BY <1>1 DEF SlotViews
  <2>3. \A c \in Echo!Served : \E s \in Used : conn[s] = c
    BY <1>4
  <2> HIDE DEF conn, Used
  <2> QED BY <2>1, <2>2, <2>3, Fun_IsBij
<1>6. /\ IsFiniteSet(Slots) /\ Cardinality(Slots) = MaxEvents
      /\ IsFiniteSet(Used) /\ Cardinality(Used) <= Cardinality(Slots)
      /\ Cardinality(Slots) = Cardinality(Used) => Slots = Used
      /\ Cardinality(Used) \in Nat
  <2>1. IsFiniteSet(Slots) /\ Cardinality(Slots) = MaxEvents
    <3>1. 0 \in Int /\ MaxEvents - 1 \in Int /\ MaxEvents - 1 - 0 + 1 = MaxEvents
          /\ ~(0 > MaxEvents - 1)
      OBVIOUS
    <3> QED BY <3>1, FS_Interval DEF Slots
  <2>2. Used \in SUBSET Slots
    OBVIOUS
  <2> HIDE DEF Used
  <2> QED BY <2>1, <2>2, FS_Subset, FS_CardinalityType
<1>7. Cardinality(Echo!Served) = Cardinality(Used)
  <2>1. ExistsBijection(Used, Echo!Served)
    BY <1>5, Fun_ExistsBij
  <2> HIDE DEF Used
  <2> QED BY <1>6, <2>1, FS_Bijection
<1>8. FreeSlots = Slots \ Used
  <2>1. \A s \in Slots : s \in AllSlots
    BY DEF Slots, AllSlots
  <2>2. \A s \in AllSlots : g_events[s].status \in {0, 1}
    BY DEF Core, TableOK, TableTypeOK, EventStruct
  <2> QED BY <2>1, <2>2 DEF FreeSlots, InUse
<1>9. Used \subseteq Slots
  OBVIOUS
<1>10. CASE FreeSlots = {}
  <2>1. Used = Slots
    BY <1>8, <1>9, <1>10
  <2> QED BY <2>1, <1>6, <1>7, <1>10
<1>11. CASE FreeSlots # {}
  <2>1. Used # Slots
    BY <1>8, <1>11
  <2> HIDE DEF Used
  <2>2. Cardinality(Used) < MaxEvents
    BY <2>1, <1>6
  <2> QED BY <2>2, <1>7, <1>11
<1> QED BY <1>10, <1>11

-----------------------------------------------------------------------------
(***************************************************************************)
(* Every step of the server is a step of EchoProtocol, or none.            *)
(***************************************************************************)
EchoStep == Echo!Next \/ UNCHANGED Echo!vars

(* The buffer of a send event: how the answer to a chunk can be lost.      *)
StoredInv ==
  \A s \in Slots :
    InUse(s) /\ g_events[s].call_back = "handle_send" => StoredOK(g_events[s])

(* StoredInv is kept when the slot that changes keeps it. *)
LEMMA StoredInvKept ==
  ASSUME Core, StoredInv, NEW s \in Slots, NEW new,
         g_events' = [g_events EXCEPT ![s] = new],
         new.status = 1 /\ new.call_back = "handle_send" => StoredOK(new)
  PROVE  StoredInv'
<1>1. ASSUME NEW t \in Slots, InUse(t)', g_events'[t].call_back = "handle_send"
      PROVE  StoredOK(g_events'[t])
  <2>1. t \in AllSlots
    BY EventLoopAssumption DEF Slots, AllSlots
  <2>2. CASE t = s
    BY <1>1, <2>1, <2>2 DEF Core, TableOK, TableTypeOK, InUse
  <2>3. CASE t # s
    BY <1>1, <2>1, <2>3 DEF Core, TableOK, TableTypeOK, InUse, StoredInv
  <2> QED BY <2>2, <2>3
<1> QED BY <1>1 DEF StoredInv, StoredOK

(* A slot that is given up stores no answer. *)
LEMMA StoredInvClosed ==
  ASSUME Core, StoredInv, NEW s \in Slots, InUse(s), DelAndClose(s)
  PROVE  StoredInv'
<1>1. PICK new : new = EventDel(g_events[s])
  OBVIOUS
<1>2. new.status = 0
  BY <1>1, SlotConn, EventDelShape
<1>3. g_events' = [g_events EXCEPT ![s] = new]
  BY <1>1 DEF DelAndClose
<1>4. new.status = 1 /\ new.call_back = "handle_send" => StoredOK(new)
  BY <1>2
<1> QED BY <1>3, <1>4, StoredInvKept

(* handle_recv reads a chunk or closes, or changes nothing that is seen. *)
LEMMA RecvImplements ==
  ASSUME Core, Core', StoredInv, NEW s \in Slots, InUse(s), HandleRecv(s),
         g_events[s].call_back = "handle_recv", Readable(SlotOf(s))
  PROVE  EchoStep /\ StoredInv'
<1> USE KernelAssumption, EventLoopAssumption
<1>1. PICK c \in Conns : c = SlotOf(s)
  BY SlotConn DEF SlotOf
<1>2. Phases[c] = "reading" /\ PhaseOf(c) = "reading"
  BY <1>1, CoreGivesViews DEF SlotViews, Phases
<1>3. peer[c] \in PeerStates /\ sent[c] \in Nat /\ rcvd[c] \in Nat
  BY DEF Core, KernelTypeOK
<1>4. CASE RecvData(s, c)
  <2>1. /\ rcvd' = [rcvd EXCEPT ![c] = @ + RecvLen(c)]
        /\ UNCHANGED <<peer, backlog, sock, fdTable, sent, out>>
    BY <1>4 DEF RecvData
  <2>2. RecvLen(c) \in 1..BufLen /\ rcvd[c] + RecvLen(c) <= sent[c]
    BY <1>1, <1>4, RecvDataShape DEF SlotOf
  <2>3. PICK new : /\ SetShape(s, g_events[s].fd, new)
                   /\ new.call_back = "handle_send"
                   /\ new.buf = Bytes(c, rcvd[c], RecvLen(c))
                   /\ StoredOK(new)
    BY <1>1, <1>4, RecvDataShape DEF SlotOf
  <2>4. StoredInv'
    BY <2>3, StoredInvKept DEF SetShape
  <2>5. /\ Phases' = [Phases EXCEPT ![c] = "writing"]
        /\ Chunks' = [Chunks EXCEPT ![c] = Bytes(c, rcvd[c], RecvLen(c))]
    BY <1>1, <2>1, <2>3, RearmViews DEF PhaseFor, ChunkFor
  <2>6. Echo!Read(c)
    BY <1>2, <2>1, <2>2, <2>5 DEF Echo!Read, Phases, Chunks, Bytes
  <2> QED BY <2>4, <2>6 DEF EchoStep, Echo!Next
<1>5. CASE RecvEnds(s, c)
  <2>1. /\ Avail(c) = 0 /\ DelAndClose(s)
        /\ UNCHANGED <<peer, backlog, sent, rcvd, out>>
    BY <1>5 DEF RecvEnds
  <2>2. peer[c] # "up" /\ rcvd[c] = sent[c]
    BY <1>1, <1>3, <2>1 DEF Readable, Avail
  <2>3. /\ Phases' = [Phases EXCEPT ![c] = "closed"]
        /\ Chunks' = [Chunks EXCEPT ![c] = <<>>]
    BY <1>1, <2>1, CloseViews
  <2>4. Echo!Close(c)
    BY <1>2, <2>1, <2>2, <2>3 DEF Echo!Close, Phases, Chunks
  <2>5. StoredInv'
    BY <2>1, StoredInvClosed
  <2> QED BY <2>4, <2>5 DEF EchoStep, Echo!Next
<1> QED BY <1>1, <1>4, <1>5 DEF HandleRecv, SlotOf

(* handle_send answers the chunk or closes. *)
LEMMA SendImplements ==
  ASSUME Core, Core', StoredInv, NEW s \in Slots, InUse(s), HandleSend(s),
         g_events[s].call_back = "handle_send", Writable(SlotOf(s)), ~RaisesSigpipe(s)
  PROVE  EchoStep /\ StoredInv'
<1> USE KernelAssumption, EventLoopAssumption
<1> DEFINE ev == g_events[s]
<1>1. PICK c \in Conns : c = SlotOf(s)
  BY SlotConn DEF SlotOf
<1>2. PhaseOf(c) = "writing" /\ ChunkOf(c) = ev.buf
  BY <1>1, CoreGivesViews DEF SlotViews
<1>3. /\ peer[c] \in PeerStates /\ peer[c] # "finrst" /\ Space(c) \in Int
      /\ ev \in EventStruct /\ StoredOK(ev) /\ Len(ev.buf) \in Nat
  <2>1. peer[c] \in PeerStates /\ Space(c) \in Int
    BY DEF Core, KernelTypeOK, Space
  <2>2. peer[c] # "finrst"
    BY <1>1 DEF RaisesSigpipe, SlotOf
  <2>3. ev \in EventStruct /\ StoredOK(ev)
    BY SlotConn DEF StoredInv
  <2>4. Len(ev.buf) \in Nat
    BY <2>3 DEF EventStruct
  <2> QED BY <2>1, <2>2, <2>3, <2>4
<1>4. CASE SendData(s, c)
  <2> DEFINE n == SendLen(c, ev.len)
  <2>1. /\ peer[c] \in {"up", "fin"}
        /\ out' = [out EXCEPT ![c] = @ \o SubSeq(ev.buf, 1, n)]
        /\ UNCHANGED <<peer, backlog, sock, fdTable, sent, rcvd>>
    BY <1>4 DEF SendData
  <2>2. n \in 1..Len(ev.buf)
    BY <1>1, <1>4, SendDataShape DEF SlotOf
  <2>3. PICK new : /\ SetShape(s, g_events[s].fd, new)
                   /\ new.call_back = "handle_recv"
    BY <1>1, <1>4, SendDataShape DEF SlotOf
  <2>4. StoredInv'
    BY <2>3, StoredInvKept DEF SetShape
  <2>5. /\ Phases' = [Phases EXCEPT ![c] = "reading"]
        /\ Chunks' = [Chunks EXCEPT ![c] = <<>>]
    BY <1>1, <2>1, <2>3, RearmViews DEF PhaseFor, ChunkFor
  <2>6. n = Len(ev.buf) \/ SndLow < BufLen
    <3>1. Space(c) >= SndLow
      BY <1>1, <2>1 DEF Writable
    <3> DEFINE len   == ev.len
               total == Len(ev.buf)
               room  == Space(c)
    <3>2. n = IF len < room THEN len ELSE room
      BY DEF SendLen
    <3>3. \/ len \in 1..BufLen /\ total = len
          \/ len = 0 /\ total = BufLen
      BY <1>3 DEF StoredOK
    <3>4. n \in 1..total /\ room \in Int /\ room >= SndLow
      BY <1>3, <2>2, <3>1
    <3>5. n = total \/ SndLow < BufLen
      <4> HIDE DEF n, len, total, room
      <4> QED BY ONLY <3>2, <3>3, <3>4, KernelAssumption, EventLoopAssumption
    <3> QED BY <3>5
  <2>7. Echo!Answer(c)
    <3> HIDE DEF n
    <3> QED BY <1>2, <2>1, <2>2, <2>5, <2>6 DEF Echo!Answer, Phases, Chunks
  <2> QED BY <2>4, <2>7 DEF EchoStep, Echo!Next
<1>5. CASE SendEnds(s, c)
  <2>1. /\ \/ peer[c] = "rst"
           \/ peer[c] \in {"up", "fin"} /\ SendLen(c, ev.len) <= 0
        /\ DelAndClose(s)
        /\ UNCHANGED <<peer, backlog, sent, rcvd, out>>
    BY <1>5 DEF SendEnds
  <2>2. peer[c] = "rst" \/ Len(ev.buf) = BufLen
    <3>1. peer[c] # "rst" => Space(c) >= SndLow
      BY <1>1, <1>3 DEF Writable
    <3> QED BY <1>3, <2>1, <3>1 DEF SendLen, StoredOK
  <2>3. /\ Phases' = [Phases EXCEPT ![c] = "closed"]
        /\ Chunks' = [Chunks EXCEPT ![c] = <<>>]
    BY <1>1, <2>1, CloseViews
  <2>4. Echo!Close(c)
    BY <1>2, <2>1, <2>2, <2>3 DEF Echo!Close, Phases, Chunks
  <2>5. StoredInv'
    BY <2>1, StoredInvClosed
  <2> QED BY <2>4, <2>5 DEF EchoStep, Echo!Next
<1> QED BY <1>1, <1>4, <1>5 DEF HandleSend, SlotOf

(* The views depend on the slots, the descriptors and the sockets only. *)
LEMMA SameTable ==
  ASSUME \A s \in Slots : g_events'[s] = g_events[s], fdTable' = fdTable
  PROVE  /\ \A c \in Conns : ChunkOf(c)' = ChunkOf(c)
         /\ \A c \in Conns : sock'[c] = sock[c] => PhaseOf(c)' = PhaseOf(c)
         /\ StoredInv => StoredInv'
<1>1. ASSUME NEW c \in Conns
      PROVE  OwnerOf(c)' = OwnerOf(c) /\ Writing(c)' = Writing(c)
  <2>1. OwnerOf(c)' = OwnerOf(c)
    BY DEF OwnerOf, Owners
  <2>2. OwnerOf(c) \subseteq Slots
    BY DEF OwnerOf
  <2> QED BY <2>1, <2>2 DEF Writing
<1>2. ASSUME NEW c \in Conns
      PROVE  ChunkOf(c)' = ChunkOf(c)
  <2>1. CASE Writing(c)
    <3>1. SlotFor(c)' = SlotFor(c) /\ SlotFor(c) \in Slots
      BY <1>1, <2>1 DEF Writing, SlotFor, OwnerOf
    <3> QED BY <1>1, <2>1, <3>1 DEF ChunkOf
  <2>2. CASE ~Writing(c)
    BY <1>1, <2>2 DEF ChunkOf
  <2> QED BY <2>1, <2>2
<1>3. ASSUME NEW c \in Conns, sock'[c] = sock[c]
      PROVE  PhaseOf(c)' = PhaseOf(c)
  BY <1>1, <1>3 DEF PhaseOf
<1>4. StoredInv => StoredInv'
  BY DEF StoredInv, InUse
<1> QED BY <1>2, <1>3, <1>4

(* A step that leaves slots, sockets and bytes alone is not seen. *)
LEMMA Stutters ==
  ASSUME \A s \in Slots : g_events'[s] = g_events[s],
         UNCHANGED <<fdTable, sock, backlog, peer, sent, rcvd, out>>
  PROVE  UNCHANGED Echo!vars /\ (StoredInv => StoredInv')
<1>1. Phases' = Phases /\ Chunks' = Chunks /\ (StoredInv => StoredInv')
  BY SameTable DEF Phases, Chunks
<1> QED BY <1>1 DEF Echo!vars, Phases, Chunks

(* handle_accept serves or abandons the first of the backlog. *)
LEMMA AcceptImplements ==
  ASSUME Core, Core', StoredInv, HandleAccept
  PROVE  EchoStep /\ StoredInv'
<1> USE KernelAssumption, EventLoopAssumption
<1>1. CASE AcceptFails
  BY <1>1, Stutters DEF AcceptFails, kernelVars, EchoStep
<1>2. CASE ~AcceptFails
  <2>1. PICK fd \in FreeFds :
          /\ fdTable' = [fdTable EXCEPT ![fd] = Head(backlog)]
          /\ sock' = [sock EXCEPT ![Head(backlog)] = "accepted"]
          /\ \/ \E i \in FirstFree :
                  SetAndAdd(i, g_events[i], fd, "handle_recv", {EPOLLIN})
             \/ Forgotten /\ UNCHANGED <<g_events, interest>>
    BY <1>2 DEF HandleAccept
  <2>2. /\ backlog # <<>> /\ backlog' = Tail(backlog)
        /\ UNCHANGED <<peer, sent, rcvd, out, got>>
    BY <1>2 DEF HandleAccept
  <2>3. PICK c \in Conns : c = Head(backlog)
    BY <2>2 DEF Core, KernelTypeOK
  <2>4. CASE \E i \in FirstFree : SetAndAdd(i, g_events[i], fd, "handle_recv", {EPOLLIN})
    <3>1. PICK i \in FirstFree : SetAndAdd(i, g_events[i], fd, "handle_recv", {EPOLLIN})
      BY <2>4
    <3>2. PICK new : SetShape(i, fd, new) /\ new.call_back = "handle_recv"
      BY <3>1, AcceptShape
    <3>3. i \in Slots /\ ~InUse(i) /\ FreeSlots # {}
      BY <3>1, AcceptShape DEF FirstFree
    <3>4. StoredInv'
      BY <3>2, <3>3, StoredInvKept DEF SetShape
    <3>5. g_events' # g_events
      <4>1. g_events'[i].status = 1
        BY <3>2, <3>3, AcceptShape, <3>1 DEF SetShape, Core, TableOK, TableTypeOK
      <4> QED BY <4>1, <3>3 DEF InUse
    <3>6. Chunks' = Chunks /\ Phases' = [Phases EXCEPT ![c] = "reading"]
      BY <2>1, <2>2, <2>3, <2>4, <3>5, AcceptViews
    <3>7. Cardinality(Echo!Served) < MaxEvents
      BY <3>3, ServedBySlots
    <3>8. Echo!Serve(c)
      BY <2>2, <2>3, <3>6, <3>7, EchoCardinality DEF Echo!Serve, Phases, Chunks
    <3> QED BY <3>4, <3>8 DEF EchoStep, Echo!Next
  <2>5. CASE Forgotten /\ UNCHANGED <<g_events, interest>>
    <3>1. StoredInv'
      BY <2>5 DEF StoredInv, InUse
    <3>2. /\ Chunks' = Chunks
          /\ \/ FreeSlots # {} /\ Phases' = [Phases EXCEPT ![c] = "reading"]
             \/ Phases' = [Phases EXCEPT ![c] = "abandoned"]
      BY <2>1, <2>2, <2>3, <2>5, AcceptViews
    <3>3. FreeSlots # {} => Cardinality(Echo!Served) < MaxEvents
      BY ServedBySlots
    <3>4. Cardinality(Echo!Served) >= MaxEvents \/ "fcntl" \in Faults
      BY <2>5, ServedBySlots DEF Forgotten
    <3>5. Echo!Serve(c)
      BY <2>2, <2>3, <3>2, <3>3, <3>4, EchoCardinality DEF Echo!Serve, Phases, Chunks
    <3> QED BY <3>1, <3>5 DEF EchoStep, Echo!Next
  <2> QED BY <2>1, <2>4, <2>5
<1> QED BY <1>1, <1>2

(* A handler called for a fresh event. *)
LEMMA CallBackImplements ==
  ASSUME Core, Core', StoredInv, NEW e \in EpollEvent, Fresh(e),
         NEW next, CallBack(e.slot, next)
  PROVE  EchoStep /\ StoredInv'
<1> USE KernelAssumption, EventLoopAssumption
<1> DEFINE s == e.slot
<1>1. s \in AllSlots /\ InUse(s)
  BY FreshEvent
<1>2. CASE RaisesSigpipe(s)
  BY <1>2, Stutters DEF CallBack, kernelVars, EchoStep
<1>3. CASE s = ListenSlot /\ ~RaisesSigpipe(s)
  <2>1. g_events[s].call_back = "handle_accept"
    BY <1>1, <1>3 DEF Core, TableOK, SlotKind
  <2>2. HandleAccept
    BY <2>1, <1>3 DEF CallBack
  <2> QED BY <2>2, AcceptImplements
<1>4. CASE s # ListenSlot /\ ~RaisesSigpipe(s)
  <2>1. s \in Slots
    BY <1>1, <1>4 DEF Slots, AllSlots, ListenSlot
  <2>2. KindOK(g_events[s]) /\ g_events[s].fd \in Fds /\ g_events[s].fd # ListenFd
    BY <1>1, <2>1 DEF Core, TableOK, SlotKind
  <2>3. e.conn = SlotOf(s)
    BY <2>2 DEF Fresh, ConnOf, SlotOf
  <2>4. /\ g_events[s].call_back = "handle_recv" => Readable(SlotOf(s))
        /\ g_events[s].call_back = "handle_send" => Writable(SlotOf(s))
    BY <2>3 DEF Fresh
  <2>5. \/ g_events[s].call_back = "handle_recv" /\ HandleRecv(s)
        \/ g_events[s].call_back = "handle_send" /\ HandleSend(s)
    BY <1>4, <2>2 DEF CallBack, KindOK
  <2> QED BY <1>1, <1>4, <2>1, <2>4, <2>5, RecvImplements, SendImplements
<1> QED BY <1>2, <1>3, <1>4

(* What clients do is what EchoProtocol lets them do. *)
LEMMA ClientImplements ==
  ASSUME Core, StoredInv, Client
  PROVE  EchoStep /\ StoredInv'
<1> USE KernelAssumption, EventLoopAssumption
<1>1. PICK c \in Conns : \/ ClientConnect(c) \/ ClientSend(c) \/ ClientRead(c)
                         \/ ClientHangup(c) \/ ClientReset(c)
  BY DEF Client
<1>2. g_events' = g_events /\ fdTable' = fdTable
  BY <1>1 DEF Client, loopVars, ClientConnect, ClientSend, ClientRead, ClientHangup,
              ClientReset
<1>3. Chunks' = Chunks /\ StoredInv' /\ (sock' = sock => Phases' = Phases)
  BY <1>2, SameTable DEF Chunks, Phases
<1>4. sock[c] # "closed" => Phases[c] # "closed"
  BY DEF Phases, PhaseOf
<1>5. CASE ClientConnect(c)
  <2>1. /\ sock' = [sock EXCEPT ![c] = "backlog"]
        /\ sock \in [Conns -> SockStates]
    BY <1>5 DEF ClientConnect, Core, KernelTypeOK
  <2>2. PhaseOf(c)' = "queued"
    BY <2>1 DEF PhaseOf
  <2>3. \A d \in Conns : d # c => PhaseOf(d)' = PhaseOf(d)
    BY <1>2, <2>1, SameTable
  <2>4. Phases' = [Phases EXCEPT ![c] = "queued"]
    BY <2>2, <2>3 DEF Phases
  <2>5. Echo!Connect(c)
    BY <1>3, <1>5, <2>4 DEF ClientConnect, Echo!Connect, Phases, Chunks
  <2> QED BY <1>3, <2>5 DEF EchoStep, Echo!Next
<1>6. CASE ClientSend(c)
  <2>1. Echo!Send(c)
    BY <1>3, <1>4, <1>6 DEF ClientSend, Echo!Send, Phases, Chunks
  <2> QED BY <1>3, <2>1 DEF EchoStep, Echo!Next
<1>7. CASE ClientRead(c)
  BY <1>2, <1>7, Stutters DEF ClientRead, EchoStep
<1>8. CASE ClientHangup(c) \/ ClientReset(c)
  <2>1. Echo!Leave(c)
    BY <1>3, <1>4, <1>8 DEF ClientHangup, ClientReset, Echo!Leave, Phases, Chunks
  <2> QED BY <1>3, <2>1 DEF EchoStep, Echo!Next
<1> QED BY <1>1, <1>5, <1>6, <1>7, <1>8

(* The server starts where EchoProtocol does. *)
LEMMA InitImplements == Init => Echo!Init /\ StoredInv
<1> SUFFICES ASSUME Init PROVE Echo!Init /\ StoredInv
  OBVIOUS
<1>1. IInv
  BY InitIInv
<1>2. \A s \in Slots : ~InUse(s)
  BY EventLoopAssumption DEF Init, LoopInit, InUse, Slots, AllSlots
<1>3. \A c \in Conns : PhaseOf(c) = "idle"
  BY DEF Init, KernelInit, PhaseOf
<1>4. \A c \in Conns : ChunkOf(c) = <<>>
  BY <1>1, <1>2, CoreGivesViews DEF IInv, SlotViews
<1>5. Echo!Init
  BY <1>3, <1>4 DEF Init, KernelInit, Echo!Init
<1> QED BY <1>2, <1>5 DEF StoredInv

(* Every step of the server is a step of EchoProtocol or a stutter. *)
LEMMA StepImplements ==
  IInv /\ IInv' /\ StoredInv /\ [Next]_vars => EchoStep /\ StoredInv'
<1> SUFFICES ASSUME IInv, IInv', StoredInv, [Next]_vars PROVE EchoStep /\ StoredInv'
  OBVIOUS
<1> USE KernelAssumption, EventLoopAssumption
<1>0. Core /\ Core'
  BY DEF IInv
<1>1. CASE UNCHANGED <<kernelVars, g_events>>
  BY <1>1, Stutters DEF kernelVars, EchoStep
<1>2. CASE StartServer
  <2>1. \A s \in Slots : g_events'[s] = g_events[s]
    BY <1>0, <1>2 DEF StartServer, Core, TableOK, TableTypeOK, Slots, AllSlots, ListenSlot
  <2> QED BY <2>1, <1>2, Stutters DEF StartServer, connVars, EchoStep
<1>3. CASE DispatchIn
  <2>1. PICK e \in batch : \/ CallBack(e.slot, "if_out")
                           \/ UNCHANGED <<kernelVars, g_events>>
    BY <1>3 DEF DispatchIn
  <2>2. e \in EpollEvent /\ Fresh(e)
    BY <1>3 DEF DispatchIn, IInv, BatchTypeOK, FreshBatch, Pending
  <2> QED BY <1>0, <1>1, <2>1, <2>2, CallBackImplements
<1>4. CASE DispatchOut
  <2>1. \/ Wants(cur, EPOLLOUT) /\ CallBack(cur.slot, NextEvent)
        \/ UNCHANGED <<kernelVars, g_events>>
    BY <1>4 DEF DispatchOut
  <2>2. CASE Wants(cur, EPOLLOUT) /\ CallBack(cur.slot, NextEvent)
    <3>1. cur \in EpollEvent /\ Fresh(cur)
      BY <1>4, <2>2 DEF DispatchOut, IInv, OneEventPerSlot, FreshBatch, Pending
    <3>2. PICK e \in EpollEvent : e = cur
      BY <3>1
    <3>3. PICK next : next = NextEvent
      OBVIOUS
    <3> QED BY <1>0, <2>2, <3>1, <3>2, <3>3, CallBackImplements
  <2> QED BY <1>1, <2>1, <2>2
<1>5. CASE Client
  BY <1>0, <1>5, ClientImplements
<1> QED
  BY <1>1, <1>2, <1>3, <1>4, <1>5
     DEF Next, Server, StartServerError, EpollWait, EpollWaitError, vars, loopVars

(* The server implements EchoProtocol: the call-backs, the slots and the  *)
(* interest list of simple_epoll do, for every number of clients, slots    *)
(* and descriptors, what the protocol promises each client.                *)
THEOREM ServerImplementsEcho == Spec => ImplementsEcho
<1>1. IInv /\ IInv' /\ StoredInv /\ [Next]_vars => [Echo!Next]_Echo!vars /\ StoredInv'
  BY StepImplements DEF EchoStep
<1> QED
  BY <1>1, InitImplements, Invariance, PTL DEF Spec, ImplementsEcho, Echo!Spec

-----------------------------------------------------------------------------
(***************************************************************************)
(* What EchoProtocol does to the bytes of a connection.                    *)
(***************************************************************************)
ByteSeq == Seq(Conns \X Nat)

(* The chunk is the last thing read, and what is answered are bytes read   *)
(* before it, in order; with SndLow >= BufLen all of them.                 *)
ChunkOK(c, taken, chunk) ==
  /\ chunk \in ByteSeq /\ Len(chunk) <= taken
  /\ \A i \in 1..Len(chunk) : chunk[i] = <<c, taken - Len(chunk) + i>>

ReplyOK(c, answered, reply) ==
  /\ reply \in ByteSeq
  /\ \A i \in 1..Len(reply) : reply[i] \in {c} \X (1..answered)
  /\ \A i \in 1..Len(reply) : i > 1 => reply[i - 1][2] < reply[i][2]

Complete(c, reply) == \A i \in 1..Len(reply) : reply[i] = <<c, i>>

Delivered(c, phase, taken, chunk, reply) ==
  /\ taken \in Nat
  /\ ChunkOK(c, taken, chunk)
  /\ phase # "writing" => chunk = <<>>
  /\ ReplyOK(c, taken - Len(chunk), reply)
  /\ SndLow >= BufLen =>
       /\ Complete(c, reply)
       /\ phase # "closed" => Len(reply) = taken - Len(chunk)

(* Before the first byte. *)
LEMMA NothingDelivered ==
  ASSUME NEW c \in Conns
  PROVE  Delivered(c, "idle", 0, <<>>, <<>>)
<1>1. Len(<<>>) = 0 /\ 0 - 0 = 0
  BY EmptySeq
<1>2. ChunkOK(c, 0, <<>>) /\ ReplyOK(c, 0, <<>>) /\ Complete(c, <<>>)
  BY DEF ChunkOK, ReplyOK, Complete, ByteSeq
<1> QED BY <1>1, <1>2 DEF Delivered

(* Reading: the chunk is what follows the bytes taken so far. *)
LEMMA ReadDelivers ==
  ASSUME NEW c \in Conns, NEW taken, NEW chunk, NEW reply,
         Delivered(c, "reading", taken, chunk, reply), NEW n \in Nat
  PROVE  Delivered(c, "writing", taken + n, [i \in 1..n |-> <<c, taken + i>>], reply)
<1> DEFINE new == [i \in 1..n |-> <<c, taken + i>>]
<1>1. taken \in Nat /\ chunk = <<>> /\ Len(chunk) = 0
  BY DEF Delivered
<1>2. new \in ByteSeq /\ Len(new) = n
  BY <1>1 DEF ByteSeq
<1>3. ChunkOK(c, taken + n, new)
  BY <1>1, <1>2 DEF ChunkOK
<1> DEFINE before == taken - Len(chunk)
<1>4. (taken + n) - Len(new) = before /\ taken + n \in Nat
  BY <1>1, <1>2
<1>5. /\ ReplyOK(c, before, reply)
      /\ SndLow >= BufLen => Complete(c, reply) /\ Len(reply) = before
  BY DEF Delivered
<1>6. Delivered(c, "writing", taken + n, new, reply)
  <2> HIDE DEF new, before
  <2> QED BY <1>3, <1>4, <1>5 DEF Delivered
<1> QED BY <1>6

(* Closing: the chunk is lost, the reply stands. *)
LEMMA CloseDelivers ==
  ASSUME NEW c \in Conns, NEW phase, NEW taken, NEW chunk, NEW reply,
         Delivered(c, phase, taken, chunk, reply)
  PROVE  Delivered(c, "closed", taken, <<>>, reply)
<1>1. taken \in Nat /\ Len(chunk) \in Nat /\ Len(chunk) <= taken
  BY DEF Delivered, ChunkOK, ByteSeq
<1>2. ChunkOK(c, taken, <<>>)
  BY <1>1 DEF ChunkOK, ByteSeq
<1>3. ReplyOK(c, taken, reply)
  BY <1>1 DEF Delivered, ReplyOK
<1> QED BY <1>1, <1>2, <1>3 DEF Delivered

(* Answering: the reply grows by a prefix of the chunk, all of it unless  *)
(* the socket takes less than a buffer.                                    *)
LEMMA AnswerDelivers ==
  ASSUME NEW c \in Conns, NEW taken, NEW chunk, NEW reply,
         Delivered(c, "writing", taken, chunk, reply),
         NEW n \in 1..Len(chunk), n = Len(chunk) \/ SndLow < BufLen
  PROVE  Delivered(c, "reading", taken, <<>>, reply \o SubSeq(chunk, 1, n))
<1> USE KernelAssumption, EventLoopAssumption
<1> DEFINE part == SubSeq(chunk, 1, n)
           new  == reply \o part
           L    == Len(chunk)
           R    == Len(reply)
<1>1. /\ taken \in Nat /\ L \in Nat /\ R \in Nat /\ L <= taken /\ n \in Nat /\ n <= L
      /\ chunk \in ByteSeq /\ reply \in ByteSeq
      /\ \A i \in 1..L : chunk[i] = <<c, taken - L + i>>
      /\ \A i \in 1..R : reply[i] \in {c} \X (1..(taken - L))
      /\ \A i \in 1..R : i > 1 => reply[i - 1][2] < reply[i][2]
  BY DEF Delivered, ChunkOK, ReplyOK, ByteSeq
<1>2. /\ part \in ByteSeq /\ Len(part) = n
      /\ \A i \in 1..n : part[i] = chunk[i]
  BY <1>1 DEF ByteSeq
<1>3. /\ new \in ByteSeq /\ Len(new) = R + n
      /\ \A i \in 1..R : new[i] = reply[i]
      /\ \A i \in (R + 1)..(R + n) : new[i] = part[i - R]
  <2> HIDE DEF part
  <2>1. reply \in Seq(Conns \X Nat) /\ part \in Seq(Conns \X Nat)
    BY <1>1, <1>2 DEF ByteSeq
  <2>2. /\ new \in Seq(Conns \X Nat)
        /\ Len(new) = Len(reply) + Len(part)
        /\ \A i \in 1..(Len(reply) + Len(part)) :
             new[i] = IF i <= Len(reply) THEN reply[i] ELSE part[i - Len(reply)]
    BY ONLY <2>1, ConcatProperties
  <2> HIDE DEF new
  <2>3. \A i \in 1..(R + n) : new[i] = IF i <= R THEN reply[i] ELSE part[i - R]
    BY <2>2, <1>2
  <2>4. new \in ByteSeq /\ Len(new) = R + n
    BY <2>2, <1>2 DEF ByteSeq
  <2> HIDE DEF R
  <2> QED BY <2>3, <2>4, <1>1
<1> HIDE DEF part, new, L, R
<1>4. ASSUME NEW i \in (R + 1)..(R + n)
      PROVE  new[i] = <<c, taken - L + (i - R)>>
  <2>1. i - R \in 1..n /\ i - R \in 1..L
    BY <1>1
  <2> QED BY <2>1, <1>1, <1>2, <1>3
<1>5. ASSUME NEW i \in 1..Len(new)
      PROVE  new[i] \in {c} \X (1..taken)
  <2>1. CASE i \in 1..R
    <3>1. new[i] \in {c} \X (1..(taken - L))
      BY <2>1, <1>1, <1>3
    <3>2. 1..(taken - L) \subseteq 1..taken
      BY <1>1
    <3> QED BY <3>1, <3>2
  <2>2. CASE i \in (R + 1)..(R + n)
    <3>1. taken - L + (i - R) \in 1..taken
      BY <2>2, <1>1
    <3>2. new[i] = <<c, taken - L + (i - R)>>
      BY <2>2, <1>4
    <3> QED BY <3>1, <3>2
  <2> QED BY <2>1, <2>2, <1>1, <1>3
<1>6. ASSUME NEW i \in 1..Len(new), i > 1
      PROVE  new[i - 1][2] < new[i][2]
  <2>1. CASE i \in 1..R
    <3>1. i - 1 \in 1..R
      BY <2>1, <1>1, <1>6
    <3>2. new[i] = reply[i] /\ new[i - 1] = reply[i - 1]
      BY <2>1, <3>1, <1>3
    <3> QED BY <2>1, <3>2, <1>1, <1>6
  <2>2. CASE i = R + 1
    <3>1. new[i - 1] = reply[R] /\ reply[R] \in {c} \X (1..(taken - L))
      BY <2>2, <1>1, <1>3, <1>6
    <3>2. new[i] = <<c, taken - L + 1>>
      BY <2>2, <1>1, <1>4
    <3> QED BY <3>1, <3>2, <1>1
  <2>3. CASE i \in (R + 2)..(R + n)
    <3>1. /\ new[i - 1] = <<c, taken - L + (i - 1 - R)>>
          /\ new[i] = <<c, taken - L + (i - R)>>
      BY <2>3, <1>1, <1>4
    <3> QED BY <3>1, <2>3, <1>1
  <2> QED BY <2>1, <2>2, <2>3, <1>1, <1>3
<1>7. ASSUME SndLow >= BufLen
      PROVE  Complete(c, new) /\ Len(new) = taken
  <2>1. n = L
    BY <1>7 DEF L
  <2>2. R = taken - L /\ \A i \in 1..R : reply[i] = <<c, i>>
    BY <1>7 DEF Delivered, Complete, L, R
  <2>3. ASSUME NEW i \in 1..Len(new)
        PROVE  new[i] = <<c, i>>
    <3>1. CASE i \in 1..R
      BY <3>1, <2>2, <1>3
    <3>2. CASE i \in (R + 1)..(R + n)
      <4>1. taken - L + (i - R) = i
        BY <3>2, <2>2, <1>1
      <4> QED BY <3>2, <4>1, <1>4
    <3> QED BY <3>1, <3>2, <1>1, <1>3
  <2> QED BY <2>1, <2>2, <2>3, <1>1, <1>3 DEF Complete
<1>8. ChunkOK(c, taken, <<>>) /\ Len(<<>>) = 0
  BY <1>1 DEF ChunkOK, ByteSeq
<1>9. ReplyOK(c, taken, new)
  BY <1>3, <1>5, <1>6 DEF ReplyOK
<1> QED BY <1>1, <1>7, <1>8, <1>9 DEF Delivered, new, part

(* Without a chunk to answer the phase may change. *)
LEMMA PhaseDelivers ==
  ASSUME NEW c \in Conns, NEW phase, NEW next, NEW taken, NEW chunk, NEW reply,
         Delivered(c, phase, taken, chunk, reply), phase \notin {"writing", "closed"}
  PROVE  Delivered(c, next, taken, chunk, reply)
BY DEF Delivered

EchoInv == \A c \in Conns : Delivered(c, Phases[c], rcvd[c], Chunks[c], out[c])

(* What a step does to the connection c it is about. *)
ChangesAt(c, phase, taken, chunk, reply) ==
  /\ Phases' = [Phases EXCEPT ![c] = phase]
  /\ rcvd' = [rcvd EXCEPT ![c] = taken]
  /\ Chunks' = [Chunks EXCEPT ![c] = chunk]
  /\ out' = [out EXCEPT ![c] = reply]

(* One connection changes, and keeps Delivered. *)
LEMMA ChangeDelivers ==
  ASSUME Core, EchoInv, NEW c \in Conns,
         NEW phase, NEW taken, NEW chunk, NEW reply,
         ChangesAt(c, phase, taken, chunk, reply),
         Delivered(c, phase, taken, chunk, reply)
  PROVE  EchoInv'
<1>1. /\ DOMAIN Phases = Conns /\ DOMAIN Chunks = Conns
      /\ DOMAIN rcvd = Conns /\ DOMAIN out = Conns
  BY DEF Phases, Chunks, Core, KernelTypeOK
<1>2. ASSUME NEW d \in Conns
      PROVE  Delivered(d, Phases'[d], rcvd'[d], Chunks'[d], out'[d])
  <2>1. CASE d = c
    <3>1. /\ Phases'[d] = phase /\ rcvd'[d] = taken
          /\ Chunks'[d] = chunk /\ out'[d] = reply
      BY <1>1, <2>1 DEF ChangesAt
    <3> QED BY <2>1, <3>1
  <2>2. CASE d # c
    <3>1. /\ Phases'[d] = Phases[d] /\ rcvd'[d] = rcvd[d]
          /\ Chunks'[d] = Chunks[d] /\ out'[d] = out[d]
      BY <1>1, <2>2 DEF ChangesAt
    <3>2. Delivered(d, Phases[d], rcvd[d], Chunks[d], out[d])
      BY DEF EchoInv
    <3> QED BY <3>1, <3>2
  <2> QED BY <2>1, <2>2
<1> QED BY <1>2 DEF EchoInv

(* Every step of EchoProtocol delivers.  The phases before Connect and     *)
(* Serve are the server's: EchoProtocol does not ask for them.             *)
LEMMA EchoStepDelivers ==
  ASSUME Core, EchoInv, EchoStep
  PROVE  EchoInv'
<1> USE KernelAssumption, EventLoopAssumption
<1>1. CASE UNCHANGED Echo!vars
  <2>1. UNCHANGED <<Phases, Chunks, rcvd, out>>
    BY <1>1 DEF Echo!vars, Phases, Chunks
  <2> QED BY <2>1 DEF EchoInv
<1>2. CASE Echo!Next
  <2>1. PICK c \in Conns : \/ Echo!Connect(c) \/ Echo!Send(c) \/ Echo!Leave(c)
                           \/ Echo!Serve(c) \/ Echo!Read(c) \/ Echo!Answer(c)
                           \/ Echo!Close(c)
    BY <1>2 DEF Echo!Next
  <2>2. Delivered(c, Phases[c], rcvd[c], Chunks[c], out[c])
    BY DEF EchoInv
  <2>3. /\ [rcvd EXCEPT ![c] = rcvd[c]] = rcvd
        /\ [Chunks EXCEPT ![c] = Chunks[c]] = Chunks
        /\ [out EXCEPT ![c] = out[c]] = out
    BY DEF Chunks, Core, KernelTypeOK
  <2>4. PICK taken, chunk, reply : taken = rcvd[c] /\ chunk = Chunks[c] /\ reply = out[c]
    OBVIOUS
  <2>5. CASE Echo!Send(c) \/ Echo!Leave(c)
    <3>1. UNCHANGED <<Phases, Chunks, rcvd, out>>
      BY <2>5 DEF Echo!Send, Echo!Leave, Phases, Chunks
    <3> QED BY <3>1 DEF EchoInv
  <2>6. CASE Echo!Connect(c)
    <3>1. Phases' = [Phases EXCEPT ![c] = "queued"] /\ UNCHANGED <<Chunks, rcvd, out>>
      BY <2>6 DEF Echo!Connect, Phases, Chunks
    <3>2. ChangesAt(c, "queued", taken, chunk, reply)
      BY <2>3, <2>4, <3>1 DEF ChangesAt
    <3>3. Phases[c] = "idle"
      BY <2>6 DEF Echo!Connect, Core, ConnsOK, Phases, PhaseOf
    <3>4. Delivered(c, "queued", taken, chunk, reply)
      BY <2>2, <2>4, <3>3, PhaseDelivers
    <3> QED BY <3>2, <3>4, ChangeDelivers
  <2>7. CASE Echo!Serve(c)
    <3>1. PICK phase \in {"reading", "abandoned"} :
            Phases' = [Phases EXCEPT ![c] = phase] /\ UNCHANGED <<Chunks, rcvd, out>>
      BY <2>7 DEF Echo!Serve, Phases, Chunks
    <3>2. ChangesAt(c, phase, taken, chunk, reply)
      BY <2>3, <2>4, <3>1 DEF ChangesAt
    <3>3. Phases[c] = "queued"
      <4>1. backlog # <<>> /\ c = Head(backlog)
        BY <2>7 DEF Echo!Serve
      <4>2. sock[c] = "backlog"
        BY <4>1 DEF Core, KernelTypeOK, ConnsOK
      <4> QED BY <4>2 DEF Phases, PhaseOf
    <3>4. Delivered(c, phase, taken, chunk, reply)
      BY <2>2, <2>4, <3>3, PhaseDelivers
    <3> QED BY <3>2, <3>4, ChangeDelivers
  <2>8. CASE Echo!Read(c)
    <3>1. PICK n \in 1..BufLen :
            /\ rcvd' = [rcvd EXCEPT ![c] = @ + n]
            /\ Chunks' = [Chunks EXCEPT ![c] = [i \in 1..n |-> <<c, rcvd[c] + i>>]]
      BY <2>8 DEF Echo!Read, Chunks
    <3>2. /\ Phases[c] = "reading" /\ Phases' = [Phases EXCEPT ![c] = "writing"]
          /\ UNCHANGED out
      BY <2>8 DEF Echo!Read, Phases
    <3>3. ChangesAt(c, "writing", taken + n, [i \in 1..n |-> <<c, taken + i>>], reply)
      BY <2>3, <2>4, <3>1, <3>2 DEF ChangesAt
    <3>4. Delivered(c, "writing", taken + n, [i \in 1..n |-> <<c, taken + i>>], reply)
      BY <2>2, <2>4, <3>2, ReadDelivers
    <3> QED BY <3>3, <3>4, ChangeDelivers
  <2>9. CASE Echo!Answer(c)
    <3>1. PICK n \in 1..Len(Chunks[c]) :
            /\ n = Len(Chunks[c]) \/ SndLow < BufLen
            /\ out' = [out EXCEPT ![c] = @ \o SubSeq(Chunks[c], 1, n)]
      BY <2>9 DEF Echo!Answer, Chunks
    <3>2. /\ Phases[c] = "writing" /\ Phases' = [Phases EXCEPT ![c] = "reading"]
          /\ Chunks' = [Chunks EXCEPT ![c] = <<>>]
          /\ UNCHANGED rcvd
      BY <2>9 DEF Echo!Answer, Phases, Chunks
    <3>3. ChangesAt(c, "reading", taken, <<>>, reply \o SubSeq(chunk, 1, n))
      BY <2>3, <2>4, <3>1, <3>2 DEF ChangesAt
    <3>4. Delivered(c, "reading", taken, <<>>, reply \o SubSeq(chunk, 1, n))
      BY <2>2, <2>4, <3>1, <3>2, AnswerDelivers
    <3> QED BY <3>3, <3>4, ChangeDelivers
  <2>10. CASE Echo!Close(c)
    <3>1. /\ Phases' = [Phases EXCEPT ![c] = "closed"]
          /\ Chunks' = [Chunks EXCEPT ![c] = <<>>]
          /\ UNCHANGED <<rcvd, out>>
      BY <2>10 DEF Echo!Close, Phases, Chunks
    <3>2. ChangesAt(c, "closed", taken, <<>>, reply)
      BY <2>3, <2>4, <3>1 DEF ChangesAt
    <3>3. Delivered(c, "closed", taken, <<>>, reply)
      BY <2>2, <2>4, CloseDelivers
    <3> QED BY <3>2, <3>3, ChangeDelivers
  <2> QED BY <2>1, <2>5, <2>6, <2>7, <2>8, <2>9, <2>10
<1> QED BY <1>1, <1>2 DEF EchoStep

(* Nothing is delivered at the start. *)
LEMMA InitDelivers == Init => EchoInv
<1> SUFFICES ASSUME Init, NEW c \in Conns
             PROVE  Delivered(c, Phases[c], rcvd[c], Chunks[c], out[c])
  BY DEF EchoInv
<1>1. Phases[c] = "idle" /\ Chunks[c] = <<>> /\ rcvd[c] = 0 /\ out[c] = <<>>
  BY InitImplements DEF Echo!Init, Phases, Chunks
<1>2. Delivered(c, "idle", 0, <<>>, <<>>)
  BY NothingDelivered
<1> QED BY <1>1, <1>2

(* What Delivered says of each connection is what EchoFaithful asks. *)
LEMMA DeliveredFaithfully == IInv /\ EchoInv => EchoFaithful
<1> SUFFICES ASSUME IInv, EchoInv, NEW c \in Conns
             PROVE  /\ \A i \in 1..Len(out[c]) :
                         /\ out[c][i] \in {c} \X (1..rcvd[c])
                         /\ i > 1 => out[c][i - 1][2] < out[c][i][2]
                    /\ SndLow >= BufLen => out[c] = Bytes(c, 0, Len(out[c]))
  BY DEF EchoFaithful
<1>1. PICK taken, chunk, reply : taken = rcvd[c] /\ chunk = Chunks[c] /\ reply = out[c]
  OBVIOUS
<1>2. Delivered(c, Phases[c], taken, chunk, reply)
  BY <1>1 DEF EchoInv
<1>3. /\ taken \in Nat /\ Len(chunk) \in Nat
      /\ reply \in ByteSeq
      /\ \A i \in 1..Len(reply) : reply[i] \in {c} \X (1..(taken - Len(chunk)))
      /\ \A i \in 1..Len(reply) : i > 1 => reply[i - 1][2] < reply[i][2]
      /\ SndLow >= BufLen => \A i \in 1..Len(reply) : reply[i] = <<c, i>>
  BY <1>2 DEF Delivered, ChunkOK, ReplyOK, Complete, ByteSeq
<1>4. 1..(taken - Len(chunk)) \subseteq 1..taken
  BY <1>3
<1>5. SndLow >= BufLen => reply = Bytes(c, 0, Len(reply))
  <2> SUFFICES ASSUME SndLow >= BufLen PROVE reply = Bytes(c, 0, Len(reply))
    OBVIOUS
  <2>1. reply = [i \in 1..Len(reply) |-> reply[i]]
    BY <1>3 DEF ByteSeq
  <2>2. \A i \in 1..Len(reply) : reply[i] = <<c, 0 + i>>
    BY <1>3
  <2> QED BY <2>1, <2>2 DEF Bytes
<1> QED BY <1>1, <1>3, <1>4, <1>5

(* With a slot for every client the server never runs out of them. *)
SlotsSuffice ==
  IsFiniteSet(Conns) /\ Cardinality(Conns) <= MaxEvents /\ "fcntl" \notin Faults

NoneAbandoned == SlotsSuffice => \A c \in Conns : Phases[c] # "abandoned"

(* A connection that is waiting is not counted among the served, so there *)
(* is a slot left for it.                                                  *)
LEMMA NoneGetsAbandoned ==
  ASSUME Core, NoneAbandoned, EchoStep
  PROVE  NoneAbandoned'
<1> SUFFICES ASSUME SlotsSuffice, NEW d \in Conns
             PROVE  Phases'[d] # "abandoned"
  BY DEF NoneAbandoned, SlotsSuffice
<1>0. Phases[d] # "abandoned" /\ DOMAIN Phases = Conns
  BY DEF NoneAbandoned, Phases
<1>1. CASE UNCHANGED Echo!vars
  BY <1>0, <1>1 DEF Echo!vars, Phases
<1>2. ASSUME NEW c \in Conns,
             \/ Echo!Connect(c) \/ Echo!Send(c) \/ Echo!Leave(c)
             \/ Echo!Read(c) \/ Echo!Answer(c) \/ Echo!Close(c)
      PROVE  Phases'[d] # "abandoned"
  <2>1. \/ Phases' = Phases
        \/ \E p \in {"queued", "reading", "writing", "closed"} :
             Phases' = [Phases EXCEPT ![c] = p]
    BY <1>2 DEF Echo!Connect, Echo!Send, Echo!Leave, Echo!Read, Echo!Answer, Echo!Close,
                Phases
  <2> QED BY <2>1, <1>0
<1>3. ASSUME NEW c \in Conns, Echo!Serve(c)
      PROVE  Phases'[d] # "abandoned"
  <2>1. /\ backlog # <<>> /\ c = Head(backlog)
        /\ \/ Phases' = [Phases EXCEPT ![c] = "reading"]
           \/ Cardinality(Echo!Served) >= MaxEvents \/ "fcntl" \in Faults
    BY <1>3, EchoCardinality DEF Echo!Serve, Phases
  <2>2. sock[c] = "backlog"
    BY <2>1 DEF Core, KernelTypeOK, ConnsOK
  <2>3. Echo!Served \in SUBSET (Conns \ {c})
    BY <2>2 DEF Echo!Served, PhaseOf
  <2>4. Cardinality(Echo!Served) < MaxEvents
    <3>1. /\ IsFiniteSet(Conns \ {c}) /\ Cardinality(Conns \ {c}) = Cardinality(Conns) - 1
          /\ Cardinality(Conns) \in Nat /\ Cardinality(Conns) <= MaxEvents
      BY FS_RemoveElement, FS_CardinalityType DEF SlotsSuffice
    <3>2. /\ Cardinality(Echo!Served) <= Cardinality(Conns \ {c})
          /\ Cardinality(Echo!Served) \in Nat
      BY <2>3, <3>1, FS_Subset, FS_CardinalityType
    <3> QED BY <3>1, <3>2, EventLoopAssumption
  <2>5. Phases' = [Phases EXCEPT ![c] = "reading"]
    <3>1. Cardinality(Echo!Served) \in Nat
      BY <2>3, FS_RemoveElement, FS_Subset, FS_CardinalityType DEF SlotsSuffice
    <3> QED BY <2>1, <2>4, <3>1, EventLoopAssumption DEF SlotsSuffice
  <2> QED BY <1>0, <2>5
<1> QED BY <1>1, <1>2, <1>3 DEF EchoStep, Echo!Next

(* A descriptor that no slot has belongs to an abandoned connection. *)
LEMMA NoneAbandonedNoneForgotten == IInv /\ NoneAbandoned => NoFdForgotten
<1> SUFFICES ASSUME IInv, NoneAbandoned, SlotsSuffice,
                    NEW fd \in Fds, fdTable[fd] # NoConn
             PROVE  Owners(fd) # {}
  BY DEF NoFdForgotten, SlotsSuffice
<1>1. PICK c \in Conns : c = fdTable[fd]
  BY DEF IInv, Core, KernelTypeOK
<1>2. sock[c] = "accepted"
  BY <1>1 DEF IInv, Core, ConnsOK
<1>3. OwnerOf(c) # {}
  BY <1>2 DEF NoneAbandoned, Phases, PhaseOf
<1>4. PICK gd \in Fds : fdTable[gd] = c /\ Owners(gd) # {}
  BY <1>3 DEF OwnerOf
<1>5. gd = fd
  BY <1>1, <1>4 DEF IInv, Core, ConnsOK
<1> QED BY <1>4, <1>5

DeliveryInv == StoredInv /\ EchoInv /\ NoneAbandoned

(* The three invariants carried along the steps of EchoProtocol. *)
LEMMA DeliveryInvariance == Spec => []DeliveryInv
<1>1. Init => DeliveryInv
  <2>1. Init => NoneAbandoned
    BY InitImplements DEF Echo!Init, NoneAbandoned, Phases
  <2> QED BY <2>1, InitImplements, InitDelivers DEF DeliveryInv
<1>2. IInv /\ IInv' /\ DeliveryInv /\ [Next]_vars => DeliveryInv'
  BY StepImplements, EchoStepDelivers, NoneGetsAbandoned DEF DeliveryInv, IInv
<1> QED BY <1>1, <1>2, Invariance, PTL DEF Spec

(* A client gets back its own bytes, each once and in the order it sent    *)
(* them, and no byte is skipped when the socket takes a whole buffer.      *)
THEOREM EchoIsFaithful == Spec => []EchoFaithful
<1>1. IInv /\ DeliveryInv => EchoFaithful
  BY DeliveredFaithfully DEF DeliveryInv
<1> QED BY <1>1, Invariance, DeliveryInvariance, PTL

(* With a slot for every client and no fcntl that fails, each descriptor   *)
(* accept() returned is in a slot until it is closed.                      *)
THEOREM NoDescriptorForgotten == Spec => []NoFdForgotten
<1>1. IInv /\ DeliveryInv => NoFdForgotten
  BY NoneAbandonedNoneForgotten DEF DeliveryInv
<1> QED BY <1>1, Invariance, DeliveryInvariance, PTL
=============================================================================
