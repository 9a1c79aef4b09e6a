------------------------------- MODULE CEvent -------------------------------
(***************************************************************************)
(* src/epoll_server/event.h and event.cpp: an event threads set, reset and *)
(* wait for, made of a flag, a mutex and a condition variable.             *)
(*                                                                         *)
(* Every operation holds the mutex from its first statement to its last,   *)
(* except while it is blocked in the condition variable.  What it does     *)
(* between two such points is one step.                                    *)
(***************************************************************************)
EXTENDS Integers, FiniteSets

CONSTANTS
  Threads,   \* the threads that use the event
  MaxSets    \* bound: calls of set()

ASSUME CEventAssumption == MaxSets \in Nat /\ IsFiniteSet(Threads)

VARIABLES
  auto,      \* _auto: EVENT_AUTORESET
  ready,     \* _ready
  state,     \* what each thread is doing
  notified,  \* blocked threads the condition variable has been notified for
  expired,   \* threads in tryWait whose timeout_time has passed
  sets,      \* calls of set() so far
  takes      \* waits an auto-reset event has released

vars == <<auto, ready, state, notified, expired, sets, takes>>

(* "wait" and "tryWait": blocked in _cond.                                 *)
States == {"running", "wait", "tryWait"}
Blocked == {t \in Threads : state[t] # "running"}

Init ==
  /\ auto \in BOOLEAN
  /\ ready = FALSE
  /\ state = [t \in Threads |-> "running"]
  /\ notified = {}
  /\ expired = {}
  /\ sets = 0
  /\ takes = 0

(* Mutant: notify_one. *)
NotifyOne == IF Blocked \subseteq notified THEN Blocked
             ELSE notified \cup {CHOOSE t \in Blocked : t \notin notified}

(* _cond.notify_all() *)
NotifyAll == Blocked

Set(t) ==
  /\ state[t] = "running" /\ sets < MaxSets
  /\ ready' = TRUE
  /\ notified' = NotifyAll
  /\ sets' = sets + 1
  /\ UNCHANGED <<auto, state, expired, takes>>

Reset(t) ==
  /\ state[t] = "running"
  /\ ready' = FALSE
  /\ UNCHANGED <<auto, state, notified, expired, sets, takes>>

(* The wait is over, with the event set. *)
Take(t) ==
  /\ ready
  /\ ready' = ~auto
  /\ takes' = IF auto THEN takes + 1 ELSE takes
  /\ state' = [state EXCEPT ![t] = "running"]
  /\ UNCHANGED <<auto, sets>>

(* wait() and tryWait() up to their first block. *)
Call(t, op) ==
  /\ state[t] = "running"
  /\ \/ Take(t)
     \/ /\ ~ready
        /\ state' = [state EXCEPT ![t] = op]
        /\ UNCHANGED <<auto, ready, sets, takes>>
  /\ UNCHANGED <<notified, expired>>

Wait(t)    == Call(t, "wait")
TryWait(t) == Call(t, "tryWait")

(* wait_until compares the clock with the deadline once it has the mutex   *)
(* back: after the deadline it returns timeout, notified or not.           *)
Expire(t) ==
  /\ state[t] = "tryWait" /\ t \notin expired
  /\ expired' = expired \cup {t}
  /\ UNCHANGED <<auto, ready, state, notified, sets, takes>>

(* Mutant: the result is that of the flag, which stays set. *)
TimesOutTaking(t) ==
  /\ t \in expired
  /\ takes' = IF auto /\ ready THEN takes + 1 ELSE takes
  /\ state' = [state EXCEPT ![t] = "running"]
  /\ UNCHANGED <<auto, ready, sets>>

(* Mutant: the break after the timeout is missing. *)
TimesOutWaiting(t) ==
  /\ t \in expired /\ ~ready
  /\ UNCHANGED <<auto, ready, state, sets, takes>>

(* tryWait returns false (and wait(ms) throws), whatever _ready is. *)
TimesOut(t) ==
  /\ t \in expired
  /\ state' = [state EXCEPT ![t] = "running"]
  /\ UNCHANGED <<auto, ready, sets, takes>>

(* The condition variable lets the thread go: notified, timed out or for   *)
(* no reason.  It has the mutex again and tests _ready.                    *)
Wake(t) ==
  /\ t \in Blocked
  /\ notified' = notified \ {t}
  /\ expired' = expired \ {t}
  /\ \/ TimesOut(t)
     \/ t \notin expired /\ Take(t)
     \/ /\ t \notin expired /\ ~ready
        /\ UNCHANGED <<auto, ready, state, sets, takes>>

Next == \E t \in Threads :
  \/ Set(t) \/ Reset(t) \/ Wait(t) \/ TryWait(t) \/ Expire(t) \/ Wake(t)

Spec == Init /\ [][Next]_vars

(* Time passes, and a thread that was notified or timed out runs.  Nobody  *)
(* has to call anything, and nothing wakes up for no reason.               *)
WakeForReason(t) == (t \in notified \/ t \in expired) /\ Wake(t)
FairSpec ==
  Spec /\ \A t \in Threads : WF_vars(Expire(t)) /\ WF_vars(WakeForReason(t))

-----------------------------------------------------------------------------

TypeOK ==
  /\ auto \in BOOLEAN /\ ready \in BOOLEAN
  /\ state \in [Threads -> States]
  /\ notified \subseteq Blocked
  /\ expired \subseteq {t \in Threads : state[t] = "tryWait"}
  /\ sets \in 0..MaxSets /\ takes \in Nat

(* No wakeup is lost: no thread sleeps on, without a notification on its   *)
(* way, once the event is set.  set() takes the mutex and wait() and       *)
(* tryWait() test the flag under it, so none can test it before and go to  *)
(* sleep after the notification.                                           *)
NoLostWakeup == ready => Blocked \subseteq notified

(* An auto-reset event releases at most one wait for each set(), however   *)
(* many threads notify_all() wakes and whatever they race with.            *)
OneWaitPerSet == auto => takes + (IF ready THEN 1 ELSE 0) <= sets

(* A call with a time limit returns.                                       *)
TryWaitReturns == \A t \in Threads : (state[t] = "tryWait") ~> (state[t] = "running")

(* An event that is set does not stay set with a thread in wait(): some    *)
(* thread takes it, or it is reset.  A manual-reset event lets them all    *)
(* go.                                                                     *)
SetReleases ==
  \A t \in Threads :
    (ready /\ state[t] = "wait") ~> (state[t] = "running" \/ ~ready)
=============================================================================
