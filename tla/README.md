# test_reactor in TLA+

The repository holds several small servers built around the reactor pattern:
a level-triggered epoll server in one thread (`src/simple_epoll`), a framework
of sockets, buffers, notifications and a reactor in the style of Poco with an
echo server on top (`src/epoll_server`), a libevent server
(`src/simple_libevent`) and a client (`src/raw_echo_client`).  This directory
models them in TLA+, checks small instances with TLC and proves safety
properties for all instances with TLAPS.

Read `SimpleServer.tla` first, and `ServerSocket.tla` before `SocketReactor.tla`;
the other components stand alone.

## 1. The system

| component | state | operations | talks to | what is hard |
|---|---|---|---|---|
| simple_epoll event loop (`event.h`, `event.cpp`) | the table `g_events`, the interest list, the batch | `set_event`, `event_add`, `event_del`, `dispatch_events` | the handlers, through pointers epoll hands back | an entry of a batch goes stale when an earlier handler closes, re-arms or reuses its slot; results of `epoll_ctl` are ignored |
| simple_epoll server (`server.cpp`, `main.cpp`) | one `event_s` per client: descriptor, buffer, call-back | `start_server`, `run`, `handle_accept`, `handle_recv`, `handle_send` | the event loop, clients over TCP | short sends, full buffers, resets, half-closed clients, descriptors lost on error paths, a table that fills up |
| CEvent (`event.h/.cpp`) | flag, mutex, condition variable | `set`, `reset`, `wait`, `wait(ms)`, `tryWait` | any number of threads | lost wakeups, a timeout racing a `set`, several waiters of one auto-reset event |
| NotificationCenter, observers | list of observers, a mutex in the center and in each observer | `addObserver`, `removeObserver`, `postNotification`, `hasObserver`; `notify`, `disable` | posting threads, call-backs which call the center again | stale copies of the list, lock order, self-removal |
| BasicFIFOBuffer (`fifo_buffer.h`) | memory, window (`_begin`, `_used`), `_eof`, `_error`, two signals | `begin`/`advance`, `drain`, `resize`, `setError`, `setEOF`, and `read`, `write`, `copy`, `next` | its reader and writer (through the signals), `ServerSocket` | the window after a partial drain, edge-triggered signals, a mutex that is not recursive |
| Buffer (`buffer.h`) | pointer, capacity, used, whether the memory is its own | constructors, assignments, `swap`, `resize`, `setCapacity`, `assign`, `append`, `clear` | FIFO buffer, other Buffers it is copied or moved to | who deletes what; the object appended to itself |
| ServerSocket | a descriptor and a `_blocking` flag, copied with the object; every destructor closes the descriptor | construct, copy, assign, `close`, `bind`, `connect`, `connectNB`, `acceptConnection`, `setBlocking`, `receiveBytes`, `sendBytes` | acceptor, handlers, reactor, the kernel, which gives out closed numbers again | a number closed by one copy and reused before the next one closes it; descriptors nobody closes; a flag of the object that disagrees with one of the file |
| SocketReactor, SocketNotifier, PollSet | map of sockets to notifiers, list of observers of each, epoll set, stop flag | `addEventHandler`, `hasEventHandler`, `removeEventHandler`, `run`, `stop`, dispatch | acceptors, ServerSocket (keys and notifiers are copies), threads | calls that look up under the mutex and act without it; an entry erased while another thread works on its notifier |
| SocketAcceptor | a copy of a socket, registered with the reactor | constructors, `registerAcceptor`, `unregisterAcceptor`, destructor, `onAccept` | reactor | the descriptor it shares with the map's copies |
| EchoServiceHandler | two FIFO buffers, a socket | `onSocketReadable`, `onSocketWritable`, `onFIFOOut...` | reactor, buffers | deletes itself in its own call-back |
| ServerApplication, echo_server main | exit code, `_initialized`, the signal mask, the reactor's thread | `run`, `initialize`, `main`, `uninitialize`, `waitForTerminationRequest`, `terminate`, `beDaemon` | the process's signals, the application | signals that arrive before they are blocked, or in a thread that does not block them; which step failed |
| simple_libevent server | a bufferevent per client | accept, read, event and signal call-backs | libevent | freeing with output queued, input left over, exit on SIGINT under load, SIGPIPE |
| raw_echo_client | a socket | connect, send, recv | any of the servers | nothing that runs: the `memcpy` at `main.cpp:29` writes into a string literal, and the process ends there, before it connects |

`src/simple_epoll` and `src/simple_libevent` compile and run, and their models have
been compared with the running programs where the program is not what the
repository says (section 5) and where a client can end the libevent server
(section 2).
`src/epoll_server` does not compile as committed (`shared_ptr` from a raw
`new Observer`, a misspelt `NObserver` constructor call, a boost header that is
not part of the repository); its modules model the code as it is written,
one translation unit at a time, and leave out what has no meaning.

### Properties that make the components correct

* event loop: whatever a batch holds, a handler runs only for the connection
  and for the event that epoll reported (`FreshBatch`); the table and the
  interest list agree (`RegistrationMatches`).
* server: every descriptor has one owner and is closed in the end
  (`FdOwnership`, `NoFdForgotten`, `HangupSeen`); clients get their own bytes in
  order (`EchoFaithful`); it is half-duplex service (`ImplementsEcho`); everybody
  is accepted and answered (`EventuallyAccepted`, `Answered`).
* CEvent: no lost wakeup (`NoLostWakeup`, `SetReleases`), one wait per `set` of
  an auto-reset event (`OneWaitPerSet`), time limits hold (`TryWaitReturns`).
* NotificationCenter: an object is not called after its removal has returned
  (`CalledWhileRegistered`, `StaleCopiesDisabled`), never twice at a time
  (`OneCallbackPerObserver`), and what the lock order allows
  (`DeadlockNeedsRemoval`, `SelfRemovalHangs`).
* FIFO buffer: it is a queue (`FifoFaithful`) and its signals tell the truth
  (`ReadableSignalled`, `RoomSignalled`).
* Buffer: between two calls memory has one owner, through copies, moves and swaps
  (`OwnedOnce`), and keeps what was stored (`ContentKept`).  (Inside one call,
  `append` of a Buffer to itself, it does read what it has deleted.)
* ServerSocket: an object whose number was never copied keeps its descriptor
  until it gives it up itself, or until an object left over from an earlier
  socket with the number, or made from the number, closes it (`KeepsDescriptor`);
  descriptors are forgotten by assignment only (`NoDescriptorLost`); missing
  data is no timeout (`NoDataIsNoTimeout`).
* SocketReactor: a registered handler is found until it is removed
  (`RegistrationKept`) and not after (`RemovedNotFound`), is registered once
  (`RegisteredOnce`), and the map has no notifier without observers
  (`NoEmptyEntry`) - each but for the overlapping calls it names.  Nobody closes
  its descriptor but those `RegisteredOpen` names, and they are many: acceptors
  of one socket share the descriptor, and the destructor of either closes it.
* ServerApplication: the exit code is the one `main` returned or tells which
  step failed (`ReturnTells`),
  shutting down is not cut short by another signal (`KilledUnprotected`), and a
  request to terminate ends the process (`RequestServed`).
* libevent server: who has not hung up is served on (`ServedUntilHangup`) and
  answered once for each read (`AnswersEarned`), who connects is greeted
  (`Greeted`), who hangs up is let go (`HangupSeen`), and SIGINT ends it all
  (`InterruptEnds`).

## 2. The modules

| module | what it is | code |
|---|---|---|
| `EpollKernel` | environment: clients, TCP connections, descriptors, a level-triggered epoll instance | external: what `src/simple_epoll` uses of it |
| `EventLoop` | the event table, `event_add`, `event_del`, `epoll_wait` and the batch | `simple_epoll/event.h`, `event.cpp` |
| `SimpleServer` | the whole server: start, handlers, dispatch, clients | `simple_epoll/server.cpp`, `event.cpp` |
| `EchoProtocol` | abstract specification: half-duplex service of a queue of clients | what `SimpleServer` implements |
| `SimpleServerProofs` | the inductive invariant, the refinement and the theorems | |
| `CEvent`, `CEventProofs` | the event, its theorems | `epoll_server/event.h`, `event.cpp` |
| `NotificationCenter`, `NotificationCenterProofs` | center and observers, with threads as stacks of calls, its theorems | `epoll_server/notification_center.cpp`, `observer.h` |
| `FifoBuffer`, `FifoBufferProofs` | the buffer as a queue, its theorems | `epoll_server/fifo_buffer.h`, `buffer.h` |
| `Buffer`, `BufferProofs` | several Buffer objects and the heap, its theorems | `epoll_server/buffer.h` |
| `ServerSocket` | socket objects and descriptor numbers | `epoll_server/server_socket.cpp`, `server_socket.h` |
| `SocketReactor` | the registry, its users' calls step by step, and the loop, over `ServerSocket` | `epoll_server/socket_reactor.cpp`, `socket_notifier.cpp`, `poll_set.cpp`, `socket_acceptor.h` |
| `SocketProofs` | the theorems of ServerSocket and of SocketReactor | |
| `ServerApplication`, `ServerApplicationProofs` | the frame of a server process, its theorems | `epoll_server/server_application.cpp`, `echo_server.h` (main) |
| `LibeventServer`, `LibeventServerProofs` | the libevent server and its clients, its theorems | `simple_libevent/main.cpp`; libevent external |
| `MCSimpleServer`, `MCNotificationCenter`, `MCSocketReactor`, `MCLibevent` | symmetry sets and bounds for TLC | |

`EventLoop` extends `EpollKernel`, `SimpleServer` extends `EventLoop` and
instantiates `EchoProtocol` under a refinement mapping (`Echo`).
`SocketReactor` extends `ServerSocket`: its acceptors, keys and notifiers are
ServerSocket objects, and what destroys one of them closes its number.

### How the state corresponds to the code

**SimpleServer.** `g_events` is the array of that name, an `event_s` a record and
a pointer to one an index; slot `MaxEvents` is the listening socket's.  `interest`
is the kernel's side of `epoll_ctl`: per descriptor the events and the
`data.ptr`.  `batch`, `cur` and `pc` are `dispatch_events`: `batch` holds the
entries of `events[]` the loop has yet to reach, and the two `if` statements
of an entry are two steps (`DispatchIn`, `DispatchOut`) because the first may run
a handler which changes what the second one tests.  Handlers are one step: the
process has one thread, and what a client does during a handler commutes with
everything the handler does after its only `accept`, `recv` or `send`.
Clients act between any two steps, those of one batch included.  A byte is a
pair of its connection and its position in that connection's stream.

What the C language leaves open is a choice: `ev->buf[len] = '\0'` with
`len = sizeof(buf)` writes the low byte of `ev->len`, so `StoredLen` allows both
the value 0 and the old one (a compiler may order the two assignments either
way).  `BufLen` is at most 255 in the assumption, for this byte is the whole of
`len` then; the code has 128.

**CEvent.** A step reaches from taking the mutex to giving it back or to
blocking in the condition variable.  `Wake` needs no notification (spurious
wakeups).  `expired` threads are those whose deadline has passed:
`wait_until` then reports a timeout whatever the flag is.

**NotificationCenter.** A thread is a stack of calls: a call-back may call the
center, and `Call` pushes.  A mutex has no variable: the center's is held by
the threads that wait in `disable()`, an observer's by those which run its
call-back, everything else happens under the mutex without blocking.
A clone is used again only when nothing refers to it (`SharedPtr`).

**FifoBuffer.** `mem` is the memory up to its capacity, items are numbered as
they are put in.  `queue` is what a user believes to be in the buffer; it is no
variable of the code.  `Put` is the way in which leaves no mutex locked:
`begin()`, storing at `begin() + used()`, `advance(n)`; it is one step because
the handlers that do this all run in the reactor's thread.  The buffer is one
constructed with `notify` set, as both of `EchoServiceHandler` are; `setNotify`
is left out.  All the operations that lock `_mutex` a second time are
disjuncts of `LockTwice`, after which nobody gets at the buffer.

**Buffer.** `buf` has the four members of each object; `memory` is the heap,
whose addresses `new[]` hands out again once they are deleted, so that a pointer
kept too long points to another object's memory.  `Junk` is what memory holds
that nothing was stored in, and what `append` of a Buffer to itself copies when it
has to grow (`AppendSelf`): it reads the memory it has just deleted, which no
property forbids, for nothing in the repository says what that call promises.  `content` is what the user stored and is no variable
of the code.  A call the code answers with an exception is not enabled.

**ServerSocket.** `sockfd` and `blocking` are the members of each object; `open`
and `nonblock` are the process's descriptor table.  The kernel gives out the
lowest number that is free.  `ConstructFrom` is `ServerSocket(int)` with any
number, open or not: `EchoServer::main` passes its port.  Four variables are history:
`own`, the objects whose number still stands for the file they got; `copied`,
those whose number is another's copy or was copied; `contested`, those whose number
others carried already when the kernel gave it out, or were made from;
`overwritten`, the descriptors whose last object was assigned over.  The class has no copy
constructor, so a copy and its original both close the number, and of those
`KeepsDescriptor` says nothing.  It does speak of the victims: when a copy is
destroyed, its number given to a new object, and then the original is destroyed, the
new object loses its descriptor.  That is what the code does, so the property
says who may take a descriptor from an object nobody copied, and that it takes such
a leftover, rather than that nobody does.

**SocketReactor.** A record in `calls` is what one thread is doing; each call is
split where it gives the reactor's mutex back or takes the notifier's.  `met`
is history: the calls on the same number that a call overlapped.  A notifier is destroyed, and its
copy of the socket with it, when neither the map nor a call refers to it
(`Release`).  As committed the notifications of the reactor
(`socket_reactor.cpp:100`) are null pointers: no observer accepts one, so a
notifier's poll mode is 0, nothing is ever added to the poll set, `remove` and
`update` are refused by `epoll_ctl` and throw (`PollRefuses`), and the first turn of the loop with a
handler registered writes through the null pointer (`Dispatch`).  The model has
these as the code has them; what works is the registry.  Acceptors are made of sockets with
a number: those with -1 would all share one entry.

**ServerApplication.** `pc` is the step of `run()`; `main` is any application's
that starts at most one thread, may wait for a request, and may join the thread,
in any order: `EchoServer::main` does so in one.  It may return any code
(`MainCodes`), those that `run()` uses for failures included, or throw; when
it leaves the thread running, the destructor of `std::thread` ends the program
(`aborted`).  A pending signal is taken by a thread that does not block it (`Killed`) or by
`sigwait`.  `failure` names the step that failed, `returned` is what `main` returned; they are no variables of the code.
`beDaemon()` throws outside of `run()`'s try block, hence `aborted`, though
`server_application.h:27` has `EXIT_OSERR` for "can't fork".

**LibeventServer.** Messages and bytes are counted, not named.  libevent reads up
to `ReadMax` (4096) bytes into a bufferevent's `input` and calls `handle_recv`,
which takes `ReadLen` (1024) of them: what is left over waits for the client to
send more.  `accepting` holds while the listener empties its queue in one
call-back.  `finrst` is a client that shut down and then reset the connection: a
write to it raises SIGPIPE, which nothing ignores, and the process ends
(`killed`); clients that connect, send and close at once do this to the running
program.

## 3. The runs

Bounds are constants of the modules, and every one is in the `.cfg`.

| run | what it asks | bounds and why they are enough |
|---|---|---|
| `server` | the server without faults: safety, refinement, and liveness under fairness | 2 clients of 2 bytes, 2 slots, a buffer of 2: a batch of three events, one client may starve the other, slots and descriptors are freed and reused, a read fills the buffer |
| `server_limits` | the refinement when things fail: too few slots (1 of 3 clients), too few descriptors (2), short sends (`SndLow` 1), resets, failing `epoll_ctl`, `fcntl`, `epoll_wait` and start-up | every limit is hit and left again: the table is full, `accept` fails, descriptors are forgotten. Most invariants are theorems for every set of faults and need no run here; `NoFdForgotten` supposes room for everybody |
| `server_leftover` | a claim of the repository which the program breaks (section 5) | the smallest instance that shows it |
| `event` | CEvent, safety and liveness | 4 threads: two compete for an event, others set, reset or time out; 3 calls of `set` |
| `notification_center` | center and observers | 3 threads, 2 targets, 3 clones, stacks of 3 calls: a call-back that calls the center, which calls back, while other threads post and remove |
| `fifo` | the buffer, through any sequence of calls | sizes 1, 2 and 4, growth to 5 and 6 in either order, 8 items: the window wanders over the memory twice. Shrinking is the subject of `fifo_resize` and of the theorem `ContentKept` |
| `server_socket` | ServerSocket, any sequence of operations | 3 objects: two copies and a stranger that gets their number after the first close and may lose it by the second, or an object made from a number that is open; 2 numbers, one of them 0 |
| `reactor` | the registry under concurrent calls, against `run`, `stop` and the destructor | 2 threads on 2 acceptors of 1 number, 2 notifiers (one erased while in use, one made anew), 1 socket of the application that closes and reuses the number. Calls on different numbers meet in nothing but the mutex, and every race found is between two calls; 3 threads or 2 numbers are beyond what TLC finishes here. `VIEW` leaves out `copied` and `contested`, which only ServerSocket's properties read |
| `fifo_resize` | a claim of the repository on `resize` which the code breaks (section 5) | 3 items, sizes 2 to 4 |
| `buffer` | Buffer objects through any sequence of operations | 2 objects, 3 heap blocks (two in use and the one `new[]` returns before the old one is deleted), 1 array of the caller, 2 items, lengths up to 2: growth, shrinking to nothing, and addresses that are used again |
| `application` | ServerApplication, safety and liveness | every fault, every signal, and five codes of `main`: two of its own and the three that `run()` uses |
| `libevent` | the libevent server, safety and liveness, with every fault | 2 clients, one of 3 bytes and one of none, `ReadLen` 2 below `ReadMax` 3, so that input is left over; `SndBuf` 1, so that output has to wait |

`CHECK_DEADLOCK FALSE` stands where the program may stop: the server exits
(`StartServerError`, `EpollWaitError`) or is killed by SIGPIPE, and in
`server_limits` all clients may be left alone with nothing more to do; in `notification_center` threads do deadlock, which is the subject
of two properties; in `fifo` a caller may wait for a mutex it holds;
`application` and `libevent` end, and so does `reactor`, with the crash or the
destructor; in `server_socket` all places may hold closed numbers.

Type invariants are no properties of the runs, because they are proved; those
of `NotificationCenter` and `Buffer` are also conjuncts of `StaleCopiesDisabled`
and `OwnedOnce`.

Symmetry is used where nothing orders the members of the set and no liveness
property is checked.

Each property has a mutant in `PROJECT.json`: a plausible bug in a definition of
the code (written next to it, marked "Mutant") for which TLC finds the property violated.

### Fairness

`SimpleServer!FairSpec` assumes weak fairness of the server as a whole and of clients
reading what they are sent.  The process has one thread, its sockets do not
block, and nothing but an empty `epoll_wait` stops it, so it always goes on to
its next step.  No client has to send, hang up or connect.  A client that never
reads is a legal client (and safety is checked with it), but it would have
`handle_send` wait for ever by right, so the liveness run leaves it out, and
resets, failed registrations and the like.

`CEvent!FairSpec` assumes that time passes for a thread with a time limit and
that a thread which was notified, or whose time is up, runs in the end.  Nobody
has to call `set`, and nothing has to wake up without a reason.

`ServerApplication!FairSpec` assumes that the main thread runs and that the system
delivers signals; nobody has to send one, and `main` need not wait for any.

`LibeventServer!FairSpec` assumes weak fairness of each call-back that is due
(libevent's loop polls and runs all active events of its one priority in every
iteration), that the delay of two seconds passes, and that clients read.
`Greeted` excepts the wait for a free descriptor.

## 4. The proofs

| theorem | says |
|---|---|
| `SimpleServerProofs!Invariance`, `TypeCorrect` | `IInv` is an inductive invariant; `Spec => []TypeOK`: no buffer overfilled by `recv` |
| `SimpleServerProofs!RegistrationAgrees` | `Spec => []RegistrationMatches` |
| `SimpleServerProofs!NoStaleCallback` | `Spec => []FreshBatch` |
| `SimpleServerProofs!DescriptorsOwned` | `Spec => []FdOwnership` |
| `SimpleServerProofs!ServerImplementsEcho` | `Spec => ImplementsEcho`: the server implements `EchoProtocol` |
| `SimpleServerProofs!EchoIsFaithful` | `Spec => []EchoFaithful` |
| `SimpleServerProofs!NoDescriptorForgotten` | `Spec => []NoFdForgotten` |
| `CEventProofs!WakeupsNotLost`, `WaitsCounted`, `TypeCorrect` | the three invariants of CEvent |
| `NotificationCenterProofs!Invariance`, `TypeCorrect` | `IInv` is an inductive invariant; `Spec => []TypeOK` |
| `NotificationCenterProofs!CallsReachTheRegistered` | `Spec => []CalledWhileRegistered` |
| `NotificationCenterProofs!StaleCopiesAreDisabled` | `Spec => []StaleCopiesDisabled` |
| `NotificationCenterProofs!CallbacksExclude` | `Spec => []OneCallbackPerObserver` |
| `NotificationCenterProofs!DeadlocksNeedCallbacks` | `Spec => []DeadlockNeedsRemoval` |
| `NotificationCenterProofs!RemovingOneselfHangs` | `Spec => SelfRemovalHangs`, an action property |
| `FifoBufferProofs!SignalRight` | `Spec => []ReadableSignalled` |
| `FifoBufferProofs!RoomTold` | `Spec => RoomSignalled`, an action property |
| `FifoBufferProofs!ContentKept` | `Spec /\ [][WindowFits]_vars => []FifoFaithful`: for any sizes, as long as no `resize` ends before the window does |
| `BufferProofs!Invariance` | `IInv` is an inductive invariant |
| `BufferProofs!MemoryIsOwnedOnce` | `Spec => []OwnedOnce` |
| `BufferProofs!BufferKeepsContent` | `Spec => []ContentKept` |
| `SocketProofs!SocketInvariance` | `SocketInv`, the inductive invariant of ServerSocket |
| `SocketProofs!DescriptorsStay`, `DescriptorsKept`, `TimeoutsTold` | `SocketSpec => KeepsDescriptor` (an action property), `[]NoDescriptorLost`, `[]NoDataIsNoTimeout` |
| `SocketProofs!ReactorInvariance` | types and `IInv` of SocketReactor |
| `SocketProofs!RegistrationsLast`, `ListedOnce`, `RemovalsWork`, `EntriesHaveObservers`, `HandlersHaveDescriptors` | the five action properties of SocketReactor: `Spec => RegistrationKept`, `RegisteredOnce`, `RemovedNotFound`, `NoEmptyEntry`, `RegisteredOpen` |
| `SocketProofs!ReactorKeepsSockets` | for the `Spec` of SocketReactor: `KeepsDescriptor`, which speaks of sockets no acceptor was made of, and every open descriptor has an object. Acceptors, keys and notifiers are copies: what holds of their descriptors is `RegisteredOpen` |
| `ServerApplicationProofs!TypeCorrect` | `Spec => []TypeOK` |
| `ServerApplicationProofs!CodeTells` | `Spec => []ReturnTells` |
| `ServerApplicationProofs!ProtectedOnceWaiting` | `Spec => []KilledUnprotected` |
| `LibeventServerProofs!Invariance`, `TypeCorrect` | the inductive invariant; `Spec => []TypeOK` |
| `LibeventServerProofs!EveryReadAnswered` | `Spec => []AnswersEarned` |
| `LibeventServerProofs!NoneDropped` | `Spec => []ServedUntilHangup` |

They hold for any number of connections, descriptors, slots, bytes, threads,
items, observers and socket objects, and for every set of faults.  Assumed are only
the named `...Assumption`s of the modules, which TLC evaluates in every run: constants are
numbers, sentinels (`NoConn`, `NoFd`, `ListenFd`, `NoObject`, `Null`) are no members of
the sets they stand outside of, `len` fits a byte, and the places of socket
objects in the reactor are told apart.

**Why `IInv`.** `FreshBatch` is what the program relies on and is not inductive.
That a handler leaves the other entries of the batch fresh needs that no two
slots share a descriptor (`OneSlotPerFd`) and no two connections
(`ConnsOK`), else closing one would change another; that no two entries are for one slot
(`OneEventPerSlot`), else the handler of the first would spoil the second; that a handler's event is the one its
call-back is for (`SlotKind`), so that "readable" is what a receiving slot waits for.
That a batch is fresh when `epoll_wait` returns it needs
`RegistrationMatches`: epoll hands back the slot that is registered for the
descriptor.  And that a handler keeps all this needs that it runs for a slot in use, which
is `FreshBatch` again: so they are proved together.  The proof has one lemma for what
a handler does to the table (`SetKeepsTable`, `CloseKeepsTable`), one for what it
leaves alone (`OthersStayFresh`), one per handler (`AcceptSafe`, `RecvSafe`,
`SendSafe`) and one per action of `Next`.  Clients only ever make more ready
(`ClientsKeepReadiness`), which is why a batch does not age.

**The refinement** uses that, under `Core`, the slots tell what every connection
is doing: a connection has at most one slot, and the slot's call-back is its phase
(`SlotViews`, `CoreGivesViews`).  Each handler then changes one connection's view,
and there is one lemma for each way it can: accepted, refused, read, answered,
hung up.  One fact about the code is needed that `IInv` does not have: what an
`event_s` may hold while its answer is due (`StoredInv`), for `buf[len] = '\0'` may
have cleared `len`, and `handle_send` then takes the client for gone.

**`EchoFaithful`** is argued over the abstract steps: every step of the server
is one of `EchoProtocol`'s or none (`EchoStep`), so that `EchoInv` is
proved for the few actions of the protocol instead of every path through the handlers.
`Delivered` is the part of it for one connection: the chunk is the last thing read,
and what was answered lies before it, in order.  That nobody is abandoned
(`NoneAbandoned`, for `NoFdForgotten`) is counting: the connection being accepted is
not among those with slots, of which there are fewer than clients then.  `Conns` has to be
finite for this, as `NoFdForgotten` says.

CEvent's three invariants are inductive together (`CEventProofs!IInv`).

**NotificationCenter's invariant** is about frames, the calls on the stacks of the threads:
a step adds, replaces or drops the top frame of one stack, and most of the invariant is
facts about every frame (`FrameOK`: an object is called through an enabled clone).
`CalledWhileRegistered` needs beside it that a clone is enabled as long as it is in the
list and no longer (`ListedOK`), and that both mutexes exclude (`OneRemover`, `OneHolder`).

**Buffer's invariant** needs, beside its two properties, what the source does not
say: an object without memory has no capacity (`Good`), and one that is not
constructed, or was destroyed, owns nothing (`OnlyLive`), so that a move or a swap can leave
it to its destructor.

`FifoBufferProofs!ContentKept` supposes of the steps that one which makes the
buffer smaller does not cut the window (`WindowFits`); growing, by any
`resize` to any size, is free.  Without it the property is false (section 5).

The codes of ServerApplication are those of the step reached last, or what
`main` returned (`CodeInv`);
its masks need that a thread which inherited a mask was started after the main
thread had it (`MaskInv`).

ServerSocket's invariants are inductive together with `Owners`
(`SocketProofs!SocketInv`): an object nobody copied is the only owner of its number, and
one that is not in `contested` either is the only one that carries it.  When the
kernel gives a number out anew, it follows that whoever still carries it is no
owner, and is a copy or in `contested` (`StaleAreTold`).  An owner then loses its descriptor
only to one that is no owner, which is `Keeps`.  There is
one lemma for opening a number, one for closing it, one for destroying objects and one
for copying to several of them, each of which keeps the invariant and is a step
of `Keeps`, and the actions are instances of these.  So are the steps of
the reactor, where a key never exists outside of the map (`KeysOK`), so that the
places a new entry copies to are free, and nothing is assigned over:
`ReactorKeepsSockets`.

**SocketReactor's invariant.** A call reads the map or a list in one step and
uses the answer in a later one, so the invariant says what is still true of the
answer then.  Calls on one number that overlap know of each other, in both directions
(`PairOK`): this makes `met`, which is history, tell what can have happened.  A
registration that met no removal finds its notifier still in the map (`AddOK`).
A removal that met no registration finds the notifier it looked up or none,
and, undisturbed, an entry it is about to erase has no observer but its own
(`RemovalOK`).  What a step of one call does to another is the same for all steps (`Effect`:
one entry, one list, one number), so that `OthersKeep` is proved once.  A notifier that left
the map has lost its number (`NotifiersOK`), which is why its destructor closes nobody's
descriptor but in the cases `RegisteredOpen` names.  Among those is the end of any
`~SocketAcceptor` on the number: its copy of the socket closes the descriptor of
every other acceptor made of the same socket.  The lists are sequences from which
`removeObserver` takes the first occurrence: `WithoutOne`.

For the libevent server, `AnswersEarned` is about clients that were answered;
that it holds when the greeting is written needs that nothing was read before
(`Untouched`), and that a read keeps it needs that an open connection was greeted
(`ConnInv`).  The invariant is split into what it says of one client (`Safe`), of
the types and of the number of descriptors (`Parts`), so that each action is
proved for its own client only (`StepOf`).  The arithmetic of a read, where
`ReadLen` times the answers has to grow by one bufferful, is a lemma of its own
(`ReadEarns`).

**Only model-checked** is liveness (`Answered`, `HangupSeen`, `EventuallyAccepted`,
`TryWaitReturns`, `SetReleases`, `RequestServed`, `InterruptEnds`, `Greeted`): it is out
of the prover's reach, which has neither `ENABLED` nor fairness.  All other properties
of the passing runs are theorems, `FifoFaithful` under the condition named above.  Out of reach are also recursive definitions and induction
over data, which is why no module here has a `RECURSIVE` operator.

## 5. Where the program is not what the repository says

Each has a run whose property TLC finds violated.

* `server_leftover`: a client which sends 128 bytes in one go and waits is
  disconnected, for the terminating zero overwrites `len`
  (`server.cpp:76`).  The running program does it.  What it had not read by
  then is lost, though `src/simple_epoll/README.md:42` promises another notification.
* `fifo_resize`: `resize(n, true)` throws when it "can not resize FIFO
  without data loss" (`fifo_buffer.h:46`), and loses data otherwise: after a
  partial `drain` the window does not start at the front, a smaller size cuts
  it off, and the next growth copies only the smaller size.  Compiled on its own, the
  template does it.

## 6. What is not modelled

* **FIFO buffer:** `setNotify`; the handlers construct their buffers with it
  set.  That `ServerSocket::receiveBytes` and `sendBytes` always lock the mutex of a
  buffer twice is part of `LockTwice` (`ReceiveRelocks`, `SendRelocks`).
* **ServerSocket:** options, `listen`, `shutdown`, `ioctl`, `poll` and the address calls are one
  system call each and change neither an object nor the open descriptors;
  nothing calls `setSockfd` and `invalidate`.
* **SocketNotification, onAccept, EchoServiceHandler:** reached through a
  notification nobody creates (section 2).  What the handler's `delete this` in
  a call-back does to the center is `SelfRemovalHangs`.
* **PollSet:** it stays empty. `add` is not reached, and `poll` asks a map
  keyed by `void*` for a ServerSocket, which has no meaning.
* **SocketConnector:** no code instantiates it.
* **raw_echo_client:** ends before it connects.
* **Idle connections of simple_epoll:** `last_active` is "for timeout handling"
  (`event.h:19`), and nothing reads it: there is no such behaviour to model.
* **An empty argument list:** `server_application.cpp:187` reads `args[0]`.
* **Logging and address formatting:** no property depends on them.
* **EPOLLHUP and EPOLLERR without EPOLLIN or EPOLLOUT:** the loop ignores
  them, and on a TCP socket they come together.

## 7. Plan

Done: the event loop and the server of simple_epoll with its abstract
specification and inductive invariant; `CEvent`, `NotificationCenter`,
`FifoBuffer`, `Buffer`; `ServerApplication` and the libevent server;
`ServerSocket` and `SocketReactor`.

All safety properties and the refinement are proved.  Left is
`FairSpec` of the server against a fair `EchoProtocol`: which steps of the protocol
the server's fairness implies, by TLC.
