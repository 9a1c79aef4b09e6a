-------------------------- MODULE NotificationCenter --------------------------
(***************************************************************************)
(* src/epoll_server/notification_center.cpp and observer.h: a list of      *)
(* observers under a mutex of its own, each observer with another one.     *)
(*                                                                         *)
(* Posting copies the list under the center's mutex and calls the copies'  *)
(* observers one by one, each under its own mutex, which is held while the *)
(* observer's callback runs.  Removing holds the center's mutex, finds the *)
(* observer, and waits for the observer's mutex to disable it.  A callback *)
(* may call the center again: a thread is a stack of calls.                *)
(*                                                                         *)
(* What is done under a mutex without blocking is one step with taking and *)
(* giving back the mutex, so the mutexes need no variables: the center's   *)
(* is held by a thread that waits in disable(), an observer's by a thread  *)
(* that runs its callback.                                                 *)
(***************************************************************************)
EXTENDS Integers, FiniteSets, SequencesExt

CONSTANTS
  Threads,
  Targets,    \* pairs of an object and a method: what Observer::equals compares
  NoTarget,   \* _pObject of a disabled observer
  Ids,        \* bound: the clones addObserver makes, alive at one time
  MaxDepth    \* bound: calls on one thread's stack

ASSUME NotificationCenterAssumption ==
  /\ NoTarget \notin Targets \cup Ids
  /\ IsFiniteSet(Ids)
  /\ MaxDepth \in Nat \ {0}

VARIABLES
  observers,  \* _observers
  target,     \* _pObject and _method of every clone
  calls       \* the stack of each thread, innermost call first

vars == <<observers, target, calls>>

Ops == {"addObserver", "removeObserver", "postNotification", "hasObserver"}

(* at: where the call is.  "lock": it is about to take the center's mutex; *)
(* "disable" and "notify": that of the observer id, or of the first one of *)
(* todo; "callback": in the callback of id.                                *)
CallType == [op: Ops, arg: Targets \cup {NoTarget},
             at: {"lock", "disable", "notify", "callback"},
             id: Ids \cup {NoTarget}, todo: Seq(Ids)]

Top(t)   == Head(calls[t])
At(t, w) == calls[t] # <<>> /\ Top(t).at = w
Doing(t, op, w) == At(t, w) /\ Top(t).op = op

Step(t, call) == calls' = [calls EXCEPT ![t] = <<call>> \o Tail(@)]
Return(t)     == calls' = [calls EXCEPT ![t] = Tail(@)]

Frames(t) == ToSet(calls[t])

(* Mutant: the list is not copied, the mutex held while posting. *)
CenterHeldPosting ==
  {t \in Threads : \E f \in Frames(t) : f.at \in {"disable", "callback"}}

CenterHolders == {t \in Threads : At(t, "disable")}
ObserverHolders(id) ==
  {t \in Threads : \E f \in Frames(t) : f.at = "callback" /\ f.id = id}

(* Clones that are referred to by the list, a copy of it or a call. *)
Refs(f) == ToSet(f.todo) \cup ({f.id} \cap Ids)
Alive == ToSet(observers) \cup UNION {UNION {Refs(f) : f \in Frames(t)} : t \in Threads}
Adding == {p \in Threads \X (1..MaxDepth) :
             p[2] \in DOMAIN calls[p[1]] /\ calls[p[1]][p[2]].op = "addObserver"}

Init ==
  /\ observers = <<>>
  /\ target = [id \in Ids |-> NoTarget]
  /\ calls = [t \in Threads |-> <<>>]

(* A thread calls the center, from outside or from a callback.             *)
Call(t, op, x) ==
  /\ calls[t] = <<>> \/ At(t, "callback")
  /\ Len(calls[t]) < MaxDepth
  /\ op = "addObserver" => Cardinality(Alive) + Cardinality(Adding) < Cardinality(Ids)
  /\ calls' = [calls EXCEPT ![t] =
       <<[op |-> op, arg |-> x, at |-> "lock", id |-> NoTarget, todo |-> <<>>]>> \o @]
  /\ UNCHANGED <<observers, target>>

AddObserver(t) ==
  /\ Doing(t, "addObserver", "lock")
  /\ CenterHolders = {}
  /\ \E id \in Ids \ Alive : /\ observers' = Append(observers, id)
                             /\ target' = [target EXCEPT ![id] = Top(t).arg]
  /\ Return(t)

(* hasObserver; hasObservers and countObservers take the mutex likewise. *)
HasObserver(t) ==
  /\ Doing(t, "hasObserver", "lock")
  /\ CenterHolders = {}
  /\ Return(t)
  /\ UNCHANGED <<observers, target>>

(* The observers in the list that equal the argument. *)
Equal(t) == {i \in DOMAIN observers : target[observers[i]] = Top(t).arg}

RemoveObserver(t) ==
  /\ Doing(t, "removeObserver", "lock")
  /\ CenterHolders = {}
  /\ \/ Equal(t) = {} /\ Return(t)
     \/ \E i \in Equal(t) :
          /\ \A j \in Equal(t) : i <= j
          /\ Step(t, [Top(t) EXCEPT !.at = "disable", !.id = observers[i]])
  /\ UNCHANGED <<observers, target>>

Erase(id) == \E i \in DOMAIN observers :
               observers[i] = id /\ observers' = RemoveAt(observers, i)

(* Mutant: disable() does not take the observer's mutex. *)
DisableUnlocked(t) ==
  /\ At(t, "disable")
  /\ target' = [target EXCEPT ![Top(t).id] = NoTarget]
  /\ Erase(Top(t).id)
  /\ Return(t)

(* Mutant: the observer is erased and not disabled. *)
DisableForgotten(t) ==
  /\ At(t, "disable")
  /\ ObserverHolders(Top(t).id) = {}
  /\ Erase(Top(t).id)
  /\ Return(t)
  /\ UNCHANGED target

(* Mutant: the observer's mutex is recursive. *)
DisableRecursive(t) ==
  /\ At(t, "disable")
  /\ ObserverHolders(Top(t).id) \subseteq {t}
  /\ target' = [target EXCEPT ![Top(t).id] = NoTarget]
  /\ Erase(Top(t).id)
  /\ Return(t)

(* disable(), erase and return, which gives the center's mutex back. *)
Disable(t) ==
  /\ At(t, "disable")
  /\ ObserverHolders(Top(t).id) = {}
  /\ target' = [target EXCEPT ![Top(t).id] = NoTarget]
  /\ Erase(Top(t).id)
  /\ Return(t)

PostNotification(t) ==
  /\ Doing(t, "postNotification", "lock")
  /\ CenterHolders = {}
  /\ Step(t, [Top(t) EXCEPT !.at = "notify", !.todo = observers])
  /\ UNCHANGED <<observers, target>>

(* Mutant: notify() does not take the observer's mutex. *)
NotifyUnlocked(t) ==
  /\ At(t, "notify")
  /\ Top(t).todo # <<>>
  /\ LET id == Head(Top(t).todo)
     IN  /\ target[id] # NoTarget
         /\ Step(t, [Top(t) EXCEPT !.todo = Tail(@), !.at = "callback", !.id = id])
  /\ UNCHANGED <<observers, target>>

(* Observer::notify: nothing is called when the observer is disabled or    *)
(* the notification is not of its type.                                    *)
Notify(t) ==
  /\ At(t, "notify")
  /\ Top(t).todo # <<>>
  /\ LET id == Head(Top(t).todo)
     IN  /\ ObserverHolders(id) = {}
         /\ \/ Step(t, [Top(t) EXCEPT !.todo = Tail(@)])
            \/ /\ target[id] # NoTarget
               /\ Step(t, [Top(t) EXCEPT !.todo = Tail(@), !.at = "callback", !.id = id])
  /\ UNCHANGED <<observers, target>>

CallbackReturns(t) ==
  /\ At(t, "callback")
  /\ Step(t, [Top(t) EXCEPT !.at = "notify", !.id = NoTarget])
  /\ UNCHANGED <<observers, target>>

(* The callback throws: nothing in between catches, the rest of the copy   *)
(* is not notified.  A callback around the call may catch or throw on.     *)
CallbackThrows(t) ==
  /\ At(t, "callback")
  /\ Return(t)
  /\ UNCHANGED <<observers, target>>

PostReturns(t) ==
  /\ At(t, "notify")
  /\ Top(t).todo = <<>>
  /\ Return(t)
  /\ UNCHANGED <<observers, target>>

Next == \E t \in Threads :
  \/ \E x \in Targets : Call(t, "addObserver", x) \/ Call(t, "removeObserver", x)
  \/ Call(t, "postNotification", NoTarget)
  \/ Call(t, "hasObserver", NoTarget)
  \/ AddObserver(t)
  \/ HasObserver(t)
  \/ RemoveObserver(t)
  \/ Disable(t)
  \/ PostNotification(t)
  \/ Notify(t)
  \/ CallbackReturns(t)
  \/ CallbackThrows(t)
  \/ PostReturns(t)

Spec == Init /\ [][Next]_vars

-----------------------------------------------------------------------------

TypeOK ==
  /\ observers \in Seq(Ids) /\ IsInjective(observers)
  /\ target \in [Ids -> Targets \cup {NoTarget}]
  /\ \A t \in Threads : /\ calls[t] \in Seq(CallType)
                        /\ Len(calls[t]) <= MaxDepth

(* An object is called only while it is registered: removeObserver returns *)
(* after the last callback of the observer it removed, though posting      *)
(* threads hold copies of the list.                                        *)
CalledWhileRegistered ==
  \A id \in Ids : ObserverHolders(id) # {} =>
    id \in ToSet(observers) /\ target[id] # NoTarget

(* No clone is in the list twice (TypeOK).  The copies of the list may be  *)
(* stale, and an observer that is in a copy only is disabled: the callers  *)
(* of the copy do not reach its object.                                    *)
StaleCopiesDisabled ==
  /\ TypeOK
  /\ \A id \in Alive : target[id] # NoTarget <=> id \in ToSet(observers)

(* No two callbacks of one observer run at a time.                         *)
OneCallbackPerObserver == \A id \in Ids : Cardinality(ObserverHolders(id)) <= 1

(* Who a thread waits for.                                                 *)
WaitsFor(t) ==
  IF At(t, "lock") THEN CenterHolders
  ELSE IF At(t, "disable") THEN ObserverHolders(Top(t).id)
  ELSE IF At(t, "notify") /\ Top(t).todo # <<>> THEN ObserverHolders(Head(Top(t).todo))
  ELSE {}

Deadlocked(S) == S # {} /\ \A t \in S : WaitsFor(t) \cap S # {}
InCallback(t) == \E f \in Frames(t) : f.at = "callback"

(* Threads wait for each other only when one of them has called the center *)
(* from a callback, and then only around a removeObserver or a nested      *)
(* postNotification: since posting works on a copy of the list, a callback *)
(* may add observers and ask for them.                                     *)
DeadlockNeedsRemoval ==
  \A S \in SUBSET Threads : Deadlocked(S) =>
    /\ \E t \in S : Len(calls[t]) > 1 /\ InCallback(t)
    /\ \E t \in S : At(t, "disable") \/ (At(t, "notify") /\ Len(calls[t]) > 1)

(* A callback that removes its own observer (EchoServiceHandler's does, by *)
(* "delete this") waits for the mutex its own thread holds: it never       *)
(* returns, and neither does any later call of the center.                 *)
SelfRemoval(t) == At(t, "disable") /\ t \in ObserverHolders(Top(t).id)
SelfRemovalHangs == [][\A t \in Threads : SelfRemoval(t) =>
                         SelfRemoval(t)' /\ observers' = observers]_vars
=============================================================================
