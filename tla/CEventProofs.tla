----------------------------- MODULE CEventProofs -----------------------------
(***************************************************************************)
(* The safety properties of CEvent, for any number of threads and of calls *)
(* of set().  Their conjunction is inductive: that no wakeup is lost needs *)
(* notified to hold nobody but blocked threads, which TypeOK says.         *)
(***************************************************************************)
EXTENDS CEvent, TLAPS

IInv == TypeOK /\ NoLostWakeup /\ OneWaitPerSet

(* Nobody waits. *)
LEMMA InitIInv == Init => IInv
<1> SUFFICES ASSUME Init PROVE IInv
  OBVIOUS
<1> USE DEF Init
<1>1. Blocked = {}
  BY DEF Blocked
<1>2. TypeOK
  <2>1. state \in [Threads -> States] /\ notified \subseteq Blocked
    BY DEF States
  <2>2. sets \in 0..MaxSets /\ takes \in Nat
    BY CEventAssumption
  <2> QED BY <2>1, <2>2 DEF TypeOK
<1>3. NoLostWakeup
  BY <1>1 DEF NoLostWakeup
<1>4. OneWaitPerSet
  BY DEF OneWaitPerSet
<1> QED BY <1>2, <1>3, <1>4 DEF IInv

(* A call that takes the event, before it blocks or after.  Whoever stays  *)
(* blocked stays notified.                                                 *)
LEMMA TakeSafe ==
  ASSUME IInv, NEW t \in Threads, Take(t),
         notified' \in {notified, notified \ {t}}, expired' = expired \ {t},
         t \notin notified'
  PROVE  IInv'
<1> USE DEF IInv, Take
<1>1. Blocked' = Blocked \ {t} /\ state' \in [Threads -> States]
  BY DEF TypeOK, Blocked, States
<1>2. TypeOK'
  <2>1. expired' \subseteq {u \in Threads : state'[u] = "tryWait"}
    BY DEF TypeOK
  <2>2. notified' \subseteq Blocked'
    BY <1>1 DEF TypeOK
  <2> QED BY <1>1, <2>1, <2>2 DEF TypeOK
<1>3. NoLostWakeup'
  BY <1>1 DEF NoLostWakeup
<1>4. OneWaitPerSet'
  <2>1. CASE auto
    <3>1. auto' /\ ~ready' /\ takes' = takes + 1 /\ sets' = sets
      BY <2>1
    <3>2. takes + 1 <= sets
      BY <2>1 DEF OneWaitPerSet
    <3> QED BY <3>1, <3>2 DEF OneWaitPerSet, TypeOK
  <2>2. CASE ~auto
    BY <2>2 DEF OneWaitPerSet
  <2> QED BY <2>1, <2>2
<1> QED BY <1>2, <1>3, <1>4

(* Every step, the spurious wakeups included. *)
LEMMA NextIInv == IInv /\ [Next]_vars => IInv'
<1> SUFFICES ASSUME IInv, [Next]_vars PROVE IInv'
  OBVIOUS
<1> USE DEF IInv
<1>1. CASE UNCHANGED vars
  BY <1>1 DEF vars, TypeOK, NoLostWakeup, OneWaitPerSet, Blocked
<1>2. CASE Next
  <2>1. PICK t \in Threads : Set(t) \/ Reset(t) \/ Wait(t) \/ TryWait(t) \/ Expire(t) \/ Wake(t)
    BY <1>2 DEF Next
  <2>2. CASE Set(t)
    <3>1. TypeOK' /\ NoLostWakeup'
      BY <2>2, CEventAssumption DEF Set, NotifyAll, TypeOK, NoLostWakeup, Blocked
    <3>2. OneWaitPerSet'
      <4>1. takes <= sets \/ ~auto
        <5>1. CASE ready
          BY <5>1 DEF OneWaitPerSet, TypeOK
        <5>2. CASE ~ready
          BY <5>2 DEF OneWaitPerSet, TypeOK
        <5> QED BY <5>1, <5>2
      <4>2. ready' /\ takes' = takes /\ sets' = sets + 1 /\ auto' = auto
        BY <2>2 DEF Set
      <4> QED BY <4>1, <4>2 DEF TypeOK, OneWaitPerSet
    <3> QED BY <3>1, <3>2
  <2>3. CASE Reset(t)
    <3>1. TypeOK' /\ NoLostWakeup'
      BY <2>3 DEF Reset, TypeOK, NoLostWakeup, Blocked
    <3>2. OneWaitPerSet'
      <4>1. CASE auto
        <5>1. takes <= sets
          BY <4>1 DEF OneWaitPerSet, TypeOK
        <5>2. ~ready' /\ takes' = takes /\ sets' = sets
          BY <2>3 DEF Reset
        <5> QED BY <5>1, <5>2 DEF OneWaitPerSet, TypeOK
      <4>2. CASE ~auto
        BY <2>3, <4>2 DEF Reset, OneWaitPerSet
      <4> QED BY <4>1, <4>2
    <3> QED BY <3>1, <3>2
  <2>4. CASE Wait(t) \/ TryWait(t)
    <3>1. PICK op \in {"wait", "tryWait"} : Call(t, op)
      BY <2>4 DEF Wait, TryWait
    <3>2. t \notin notified /\ t \notin expired
      BY <3>1 DEF Call, TypeOK, Blocked
    <3>3. CASE Take(t)
      BY <3>1, <3>2, <3>3, TakeSafe DEF Call
    <3>4. CASE ~ready /\ state' = [state EXCEPT ![t] = op]
                /\ UNCHANGED <<auto, ready, sets, takes>>
      <4>1. Blocked' = Blocked \cup {t} /\ state' \in [Threads -> States]
        BY <3>4 DEF TypeOK, Blocked, States
      <4>2. UNCHANGED <<notified, expired>>
        BY <3>1 DEF Call
      <4>3. expired' \subseteq {u \in Threads : state'[u] = "tryWait"}
        BY <3>2, <3>4, <4>2 DEF TypeOK
      <4>4. TypeOK'
        BY <3>4, <4>1, <4>2, <4>3 DEF TypeOK
      <4>5. NoLostWakeup' /\ OneWaitPerSet'
        BY <3>4 DEF NoLostWakeup, OneWaitPerSet
      <4> QED BY <4>4, <4>5
    <3> QED BY <3>1, <3>3, <3>4 DEF Call
  <2>5. CASE Expire(t)
    BY <2>5 DEF Expire, TypeOK, NoLostWakeup, OneWaitPerSet, Blocked
  <2>6. CASE Wake(t)
    <3>1. CASE TimesOut(t)
      <4>1. Blocked' = Blocked \ {t} /\ state' \in [Threads -> States]
        BY <3>1 DEF TimesOut, TypeOK, Blocked, States
      <4>2. TypeOK'
        BY <2>6, <3>1, <4>1 DEF Wake, TimesOut, TypeOK
      <4>3. NoLostWakeup' /\ OneWaitPerSet'
        BY <2>6, <3>1, <4>1 DEF Wake, TimesOut, NoLostWakeup, OneWaitPerSet
      <4> QED BY <4>2, <4>3
    <3>2. CASE Take(t)
      BY <2>6, <3>2, TakeSafe DEF Wake
    <3>3. CASE ~ready /\ UNCHANGED <<auto, ready, state, sets, takes>>
      BY <2>6, <3>3 DEF Wake, TypeOK, NoLostWakeup, OneWaitPerSet, Blocked
    <3> QED BY <2>6, <3>1, <3>2, <3>3 DEF Wake
  <2> QED BY <2>1, <2>2, <2>3, <2>4, <2>5, <2>6
<1> QED BY <1>1, <1>2

(* The inductive invariant holds in every reachable state.                 *)
THEOREM Invariance == Spec => []IInv
  BY InitIInv, NextIInv, PTL DEF Spec

(* event.cpp: set() loses no wakeup, whatever wait(), tryWait() and        *)
(* reset() it races with.                                                  *)
THEOREM WakeupsNotLost == Spec => []NoLostWakeup
  BY Invariance, PTL DEF IInv

(* event.cpp: an auto-reset event releases at most one wait for each set().*)
THEOREM WaitsCounted == Spec => []OneWaitPerSet
  BY Invariance, PTL DEF IInv

(* The type invariant of CEvent.                                           *)
THEOREM TypeCorrect == Spec => []TypeOK
  BY Invariance, PTL DEF IInv
=============================================================================
