----------------------------- MODULE SocketReactor -----------------------------
(***************************************************************************)
(* src/epoll_server/socket_reactor.cpp with socket_notifier.cpp,           *)
(* poll_set.cpp and the acceptors of socket_acceptor.h: the registry of    *)
(* event handlers, used by several threads, and the loop of run().         *)
(*                                                                         *)
(* _handlers maps a ServerSocket, compared by its number, to a notifier    *)
(* with a list of observers.  Key and notifier each hold a copy of the     *)
(* socket, which closes the number when it is destroyed: see ServerSocket. *)
(* A notifier lives as long as the map or a call refers to it.  Calls look *)
(* a notifier up under the reactor's mutex and work on it without, so each *)
(* call is a sequence of steps here.                                       *)
(*                                                                         *)
(* As committed, nothing ever creates the notifications of the reactor: no *)
(* observer accepts a null notification, the mode of a socket is 0,        *)
(* nothing is added to the poll set, and its epoll_ctl refuses whatever    *)
(* else is asked of it.  run() finds no socket to poll and dispatches a    *)
(* null notification to whoever is registered, which ends the process.     *)
(* The acceptors' call-backs are therefore never made.                     *)
(***************************************************************************)
EXTENDS ServerSocket, SequencesExt

CONSTANTS
  Threads,     \* threads of the application, beside the one in run()
  Acceptors,   \* SocketAcceptor objects, each with one observer
  Sockets,     \* ServerSocket objects of the application
  Notifiers,   \* bound: SocketNotifier objects alive at one time
  NoNotifier

(* Where ServerSocket objects are: the members of acceptors, and, for each *)
(* notifier, its own copy and the key of its entry.                        *)
Key(n)    == <<n, "key">>
Member(n) == <<n, "socket">>

ASSUME SocketReactorAssumption ==
  /\ NoNotifier \notin Notifiers
  /\ Acceptors \cap Sockets = {}
  /\ \A n \in Notifiers : {Key(n), Member(n)} \cap (Acceptors \cup Sockets) = {}
  /\ Objects = Acceptors \cup Sockets \cup {Key(n) : n \in Notifiers}
                                    \cup {Member(n) : n \in Notifiers}

VARIABLES
  handlers,   \* _handlers: the notifier of each number
  observers,  \* the observer list of each notifier, by acceptor
  calls,      \* what each thread is doing
  loop,       \* where run() is
  stopping    \* _stop

reactorVars == <<handlers, observers, calls, loop, stopping>>
vars == <<socketVars, reactorVars>>

(* a: the acceptor; at: the next step; n: the notifier the call refers to. *)
(* met is history: what overlapped the call and could disturb it.          *)
Idle == [op |-> "none", a |-> NoObject, at |-> "none", n |-> NoNotifier, met |-> {}]
Adds     == {"construct", "register"}
Removals == {"unregister", "destruct"}

Num(t)   == sockfd[calls[t].a]
At(t, w) == calls[t].at = w
Busy(a, ops) == {t \in Threads : calls[t].a = a /\ calls[t].op \in ops}

HasObserver(n, a)  == a \in ToSet(observers[n])
CountObservers(n)  == Len(observers[n])

Registered(a) == \E n \in Notifiers :
  Exists(a) /\ handlers[sockfd[a]] = n /\ HasObserver(n, a)

Init ==
  /\ SocketInit
  /\ handlers = [k \in Fds |-> NoNotifier]
  /\ observers = [n \in Notifiers |-> <<>>]
  /\ calls = [t \in Threads |-> Idle]
  /\ loop = "off"
  /\ stopping = FALSE

-----------------------------------------------------------------------------
(* Who refers to notifiers.                                                *)

InMap(h)   == {h[k] : k \in Fds} \ {NoNotifier}
InCalls(c) == {c[t].n : t \in Threads} \ {NoNotifier}
Living     == {n \in Notifiers : Exists(Member(n))}

(* The new map, calls and lists.  The objects in S are destroyed, and with *)
(* them the keys of entries that are gone and the notifiers nobody refers  *)
(* to any more.                                                            *)
Release(h, c, obs, S) ==
  LET dead == Living \ (InMap(h) \cup InCalls(c))
      gone == S \cup {Key(n) : n \in InMap(handlers) \ InMap(h)} \cup {Member(n) : n \in dead}
  IN  /\ handlers' = h /\ calls' = c
      /\ observers' = [n \in Notifiers |-> IF n \in dead THEN <<>> ELSE obs[n]]
      /\ IF gone = {} THEN UNCHANGED socketVars ELSE DestroyAll(gone)

(* The call of t goes on at w, with the notifier n. *)
Continue(t, w, n) ==
  /\ Release(handlers, [calls EXCEPT ![t].at = w, ![t].n = n], observers, {})
  /\ UNCHANGED <<loop, stopping>>

(* The call of t returns or throws.  ~SocketAcceptor catches, and destroys *)
(* its socket.                                                             *)
EndCall(t, obs) ==
  /\ Release(handlers, [calls EXCEPT ![t] = Idle], obs,
             IF calls[t].op = "destruct" THEN {calls[t].a} ELSE {})
  /\ UNCHANGED <<loop, stopping>>

(* PollSet::remove and update throw: no number is in the interest list.    *)
PollRefuses(t, obs) == EndCall(t, obs)

(* SocketNotifier::addObserver and removeObserver.  No observer accepts a  *)
(* notification that is null, so the notifier has no events.               *)
FirstOf(s, a) == CHOOSE i \in DOMAIN s : s[i] = a /\ \A j \in DOMAIN s : s[j] = a => i <= j
Without(s, a) == IF a \in ToSet(s) THEN RemoveAt(s, FirstOf(s, a)) ELSE s

Added(n, a)   == [observers EXCEPT ![n] = Append(@, a)]
Removed(n, a) == [observers EXCEPT ![n] = Without(@, a)]

-----------------------------------------------------------------------------
(* The acceptors, and the calls their methods make.                        *)

Kind(op) == IF op \in Adds THEN "add" ELSE "removal"

(* A call on the acceptor a, whose number is k, meets the calls on that    *)
(* number that it overlaps.                                                *)
StartCall(t, op, a, w, k) ==
  LET others == {u \in Threads : calls[u] # Idle /\ Num(u) = k}
  IN  /\ calls[t] = Idle
      /\ Busy(a, {"construct", "destruct"}) = {}
      /\ op = "destruct" => Busy(a, Adds \cup Removals) = {}
      /\ calls' = [u \in Threads |->
           IF u = t THEN [op |-> op, a |-> a, at |-> w, n |-> NoNotifier,
                          met |-> {<<Kind(calls[x].op), calls[x].a>> : x \in others}]
           ELSE IF u \in others THEN [calls[u] EXCEPT !.met = @ \cup {<<Kind(op), a>>}]
           ELSE calls[u]]
      /\ UNCHANGED <<handlers, observers, loop, stopping>>

(* SocketAcceptor(socket, reactor), with a socket that has a number.  Made *)
(* without a reactor, an acceptor is just another ServerSocket until it is *)
(* given to one.                                                           *)
AcceptorConstruct(t, a, s) ==
  /\ sockfd[s] \in Fds
  /\ Copy(a, s)
  /\ StartCall(t, "construct", a, "getNew", sockfd[s])

RegisterAcceptor(t, a) ==
  /\ Exists(a)
  /\ StartCall(t, "register", a, "has", sockfd[a])
  /\ UNCHANGED socketVars

(* unregisterAcceptor and ~SocketAcceptor. *)
RemoveAcceptor(t, a, op) ==
  /\ Exists(a)
  /\ StartCall(t, op, a, "get", sockfd[a])
  /\ UNCHANGED socketVars

-----------------------------------------------------------------------------
(* hasEventHandler, in registerAcceptor.                                   *)

HasGet(t) ==
  /\ At(t, "has")
  /\ LET n == handlers[Num(t)]
     IN  Continue(t, IF n = NoNotifier THEN "getNew" ELSE "hasTest", n)

HasTest(t) ==
  /\ At(t, "hasTest")
  /\ IF HasObserver(calls[t].n, calls[t].a)
     THEN EndCall(t, observers)
     ELSE Continue(t, "getNew", NoNotifier)

(* addEventHandler. *)
GetNotifier(t) ==
  /\ At(t, "getNew")
  /\ handlers[Num(t)] # NoNotifier
  /\ Continue(t, "addTest", handlers[Num(t)])

(* The key and the notifier copy the socket. *)
MakeNotifier(t) ==
  /\ At(t, "getNew")
  /\ handlers[Num(t)] = NoNotifier
  /\ \E n \in Notifiers \ Living :
       /\ CopyAll({Key(n), Member(n)}, calls[t].a)
       /\ handlers' = [handlers EXCEPT ![Num(t)] = n]
       /\ calls' = [calls EXCEPT ![t].at = "addTest", ![t].n = n]
  /\ UNCHANGED <<observers, loop, stopping>>

(* Mutant: without the test. *)
AddTestNot(t) == At(t, "addTest") /\ Continue(t, "add", calls[t].n)

AddTest(t) ==
  /\ At(t, "addTest")
  /\ IF HasObserver(calls[t].n, calls[t].a)
     THEN EndCall(t, observers)
     ELSE Continue(t, "add", calls[t].n)

AddObserver(t) ==
  /\ At(t, "add")
  /\ EndCall(t, Added(calls[t].n, calls[t].a))

(* removeEventHandler. *)
RemoveGet(t) ==
  /\ At(t, "get")
  /\ IF handlers[Num(t)] = NoNotifier
     THEN EndCall(t, observers)
     ELSE Continue(t, "test", handlers[Num(t)])

RemoveTest(t) ==
  /\ At(t, "test")
  /\ IF HasObserver(calls[t].n, calls[t].a)
     THEN Continue(t, "count", calls[t].n)
     ELSE EndCall(t, observers)

(* Mutant: the entry goes with any observer, not with the last one. *)
RemoveCountAny(t) ==
  /\ At(t, "count")
  /\ Continue(t, "erase", calls[t].n)

(* Mutant: the last observer is removed like any other. *)
RemoveCountNever(t) ==
  /\ At(t, "count")
  /\ Continue(t, "remove", calls[t].n)

RemoveCount(t) ==
  /\ At(t, "count")
  /\ Continue(t, IF CountObservers(calls[t].n) = 1 THEN "erase" ELSE "remove", calls[t].n)

(* Mutant: the poll set is asked first, and its exception ends the call. *)
RemoveEraseLate(t) ==
  /\ At(t, "erase")
  /\ EndCall(t, observers)

(* The entry of the number goes, whatever notifier it has by now. *)
RemoveErase(t) ==
  /\ At(t, "erase")
  /\ Release([handlers EXCEPT ![Num(t)] = NoNotifier],
             [calls EXCEPT ![t].at = "unpoll"], observers, {})
  /\ UNCHANGED <<loop, stopping>>

(* The observer stays in the list of a notifier that is in no map. *)
RemoveUnpoll(t) ==
  /\ At(t, "unpoll")
  /\ PollRefuses(t, observers)

(* With nobody left, or the number 0, the poll set is not asked.           *)
RemoveObserver(t) ==
  /\ At(t, "remove")
  /\ PollRefuses(t, Removed(calls[t].n, calls[t].a))

Call(t) ==
  \/ HasGet(t) \/ HasTest(t) \/ GetNotifier(t) \/ MakeNotifier(t) \/ AddTest(t) \/ AddObserver(t)
  \/ RemoveGet(t) \/ RemoveTest(t) \/ RemoveCount(t) \/ RemoveErase(t) \/ RemoveUnpoll(t)
  \/ RemoveObserver(t)

-----------------------------------------------------------------------------
(* run(), stop() and ~SocketReactor.                                       *)

Goto(from, to) ==
  loop = from /\ loop' = to /\ UNCHANGED <<socketVars, handlers, observers, calls>>

Run == Goto("off", "running") /\ UNCHANGED stopping

(* Whom the loop dispatches onIdle or onShutdown to, and what becomes of   *)
(* the first: it writes through the null notification.                     *)
Delegates == InMap(handlers)
Dispatch  == Delegates # {} /\ Goto("running", "crashed")

(* One turn of the loop, or the shutdown after it, at the moment it copies *)
(* the notifiers.  hasSocketHandlers is false: the poll set is empty.      *)
Pass ==
  /\ Dispatch \/ (Delegates = {} /\ stopping /\ Goto("running", "done"))
  /\ UNCHANGED stopping

Stop == ~stopping /\ stopping' = TRUE /\ Goto(loop, loop)

Destruct ==
  /\ loop \in {"off", "done"}
  /\ \A t \in Threads : calls[t] = Idle
  /\ \A a \in Acceptors : ~Exists(a)
  /\ loop' = "gone"
  /\ Release([k \in Fds |-> NoNotifier], calls, observers, {})
  /\ UNCHANGED stopping

-----------------------------------------------------------------------------
(* What the application does with sockets of its own.                      *)

SocketStep(s) ==
  /\ \/ Construct(s) \/ InitSocket(s) \/ Close(s) \/ Destroy(s)
     \/ \E fd \in Fds : ConstructFrom(s, fd)
  /\ UNCHANGED reactorVars

Next ==
  /\ loop \notin {"crashed", "gone"}
  /\ \/ \E s \in Sockets : SocketStep(s)
     \/ \E t \in Threads, a \in Acceptors :
          \/ \E s \in Sockets : AcceptorConstruct(t, a, s)
          \/ RegisterAcceptor(t, a)
          \/ \E op \in Removals : RemoveAcceptor(t, a, op)
     \/ \E t \in Threads : Call(t)
     \/ Run \/ Pass \/ Stop \/ Destruct

Spec == Init /\ [][Next]_vars

-----------------------------------------------------------------------------

Ends(t, ops) == calls[t].op \in ops /\ calls[t]' = Idle
Removing(t)  == calls[t].op \in Removals /\ calls[t]' # calls[t]
Met(t, kind) == {m[2] : m \in {x \in calls[t].met : x[1] = kind}}

(* A removal that can hit others: it overlapped a registration on its      *)
(* number, or another removal of its own acceptor.                         *)
Disturbed(t) == Met(t, "add") # {} \/ calls[t].a \in Met(t, "removal")

(* An acceptor that was registered without a removal on its number at the  *)
(* same time is found afterwards, and nobody but its own removal undoes    *)
(* that, unless it is disturbed.                                           *)
RegistrationKept == [][
  \A a \in Acceptors :
    /\ \A t \in Busy(a, Adds) : Ends(t, Adds) /\ Met(t, "removal") = {} => Registered(a)'
    /\ Registered(a) /\ ~Registered(a)' /\ loop' # "gone" =>
         \E t \in Threads : Removing(t) /\ (calls[t].a = a \/ Disturbed(t))]_vars

(* One acceptor gets into a list twice only when two threads register it   *)
(* at a time.                                                              *)
RegisteredOnce == [][
  \A t \in Threads : Ends(t, Adds) /\ calls[t].a \notin Met(t, "add") =>
    \A n \in Notifiers : Len(observers'[n]) > Len(observers[n]) =>
      calls[t].a \notin ToSet(observers[n])]_vars

(* An acceptor that was removed is not found any more, unless it was       *)
(* registered at the same time or had been registered twice.               *)
RemovedNotFound == [][
  \A a \in Acceptors : \A t \in Busy(a, Removals) :
    Ends(t, Removals) /\ a \notin Met(t, "add") =>
      \/ ~Registered(a)'
      \/ \E n \in Notifiers : \E i, j \in DOMAIN observers[n] :
           i # j /\ observers[n][i] = a /\ observers[n][j] = a]_vars

(* A notifier does not stay in the map without observers, which would keep *)
(* its copies of the socket for good and end the process at the next turn  *)
(* of the loop: only two calls on one number at a time leave it there.     *)
NoEmptyEntry == [][
  \A n \in InMap(handlers') :
    observers[n] # <<>> /\ observers'[n] = <<>> =>
      \E t \in Threads : Removing(t) /\ calls[t].met # {}]_vars

(* Who closes the descriptor of a registered acceptor: the application,    *)
(* with a socket of the same number; the destructor of any acceptor made   *)
(* of the same socket, for copies share the descriptor; its own removal or *)
(* a disturbed one; and what is left over from an earlier socket with the  *)
(* number.  No other step of any call does: dropping the keys and the      *)
(* notifiers, copies too, closes nothing under a registered acceptor.      *)
RegisteredOpen == [][
  \A a \in Acceptors :
    Registered(a) /\ a \in own /\ a \notin own' /\ loop' # "gone" =>
      \/ \E o \in Holders(sockfd[a]) \ own : sockfd'[o] # sockfd[o]
      \/ \E s \in Sockets : sockfd[s] = sockfd[a] /\ sockfd'[s] # sockfd[s]
      \/ \E t \in Threads :
           /\ Removing(t) /\ Num(t) = sockfd[a]
           /\ calls[t].a = a \/ Disturbed(t) \/ Ends(t, {"destruct"})]_vars
=============================================================================
