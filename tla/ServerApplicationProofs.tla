----------------------- MODULE ServerApplicationProofs -----------------------
(***************************************************************************)
(* What the code that ServerApplication's run() returns tells, and what the*)
(* signal mask is worth that waitForTerminationRequest() sets, for every   *)
(* set of faults and of codes that main() may return.                      *)
(***************************************************************************)
EXTENDS ServerApplication, TLAPS

(* The codes are those of the step that was reached last. *)
CodeInv ==
  /\ pc \in {"run", "init", "initialize"} => ~initialized /\ rc = EXIT_CONFIG
  /\ pc \in {"main", "sigwait", "waited"} => rc = EXIT_SOFTWARE
  /\ pc \in {"run", "init", "initialize", "main", "sigwait", "waited"} =>
       failure = "none" /\ returned = {}
  /\ pc = "uninitialize" =>
       \/ rc = EXIT_CONFIG /\ failure = "initialize" /\ returned = {}
       \/ rc = EXIT_SOFTWARE /\ failure = "main" /\ returned = {}
       \/ returned = {rc} /\ failure = "none"
  /\ ReturnTells

(* The signals are blocked from the wait on, and a thread that started     *)
(* then has inherited it.                                                  *)
MaskInv ==
  /\ pc \in {"run", "init", "initialize", "main"} => blocked = {}
  /\ worker = "running" /\ workerBlocked # {} => blocked # {}
  /\ KilledUnprotected

IInv == TypeOK /\ CodeInv /\ MaskInv

(* The process starts. *)
LEMMA InitInv == Init => IInv
BY DEF Init, IInv, TypeOK, CodeInv, MaskInv, ReturnTells, KilledUnprotected,
       EXIT_SOFTWARE, EXIT_OSERR, EXIT_CONFIG

(* Every step keeps the types. *)
LEMMA TypeStep == TypeOK /\ [Next]_vars => TypeOK'
<1> SUFFICES ASSUME TypeOK, [Next]_vars PROVE TypeOK'
    OBVIOUS
<1> USE DEF TypeOK, frame, threads, TerminationSet
<1>1. CASE Daemonize BY <1>1 DEF Daemonize, FaultKinds
<1>2. CASE InitArgs BY <1>2 DEF InitArgs, FaultKinds
<1>3. CASE Initialize BY <1>3 DEF Initialize, FaultKinds
<1>4. CASE Uninitialize BY <1>4 DEF Uninitialize
<1>5. CASE StartThread BY <1>5 DEF StartThread
<1>6. CASE JoinThread BY <1>6 DEF JoinThread
<1>7. CASE LeaveMain BY <1>7 DEF LeaveMain, FaultKinds
<1>8. CASE BlockSignals BY <1>8 DEF BlockSignals
<1>9. CASE SigWait BY <1>9 DEF SigWait
<1>10. ASSUME NEW s \in Signals, Kill(s) PROVE TypeOK'
    BY <1>10 DEF Kill
<1>11. CASE Killed BY <1>11 DEF Killed
<1>12. CASE UNCHANGED vars BY <1>12 DEF vars
<1> QED
    BY <1>1, <1>2, <1>3, <1>4, <1>5, <1>6, <1>7, <1>8, <1>9, <1>10, <1>11, <1>12
       DEF Next, MainThread

(* Leaving a step sets the code that belongs to the next one.              *)
LEMMA CodeStep == TypeOK /\ CodeInv /\ [Next]_vars => CodeInv'
<1> SUFFICES ASSUME TypeOK, CodeInv, [Next]_vars PROVE CodeInv'
    OBVIOUS
<1> USE DEF CodeInv, ReturnTells, frame, threads,
            EXIT_SOFTWARE, EXIT_OSERR, EXIT_CONFIG
<1>1. CASE Daemonize BY <1>1 DEF Daemonize
<1>2. CASE InitArgs BY <1>2 DEF InitArgs
<1>3. CASE Initialize BY <1>3 DEF Initialize
<1>4. CASE Uninitialize BY <1>4 DEF Uninitialize
<1>5. CASE StartThread BY <1>5 DEF StartThread
<1>6. CASE JoinThread BY <1>6 DEF JoinThread
<1>7. CASE LeaveMain BY <1>7 DEF LeaveMain
<1>8. CASE BlockSignals BY <1>8 DEF BlockSignals
<1>9. CASE SigWait BY <1>9 DEF SigWait
<1>10. ASSUME NEW s \in Signals, Kill(s) PROVE CodeInv'
    BY <1>10 DEF Kill
<1>11. CASE Killed BY <1>11 DEF Killed
<1>12. CASE UNCHANGED vars BY <1>12 DEF vars
<1> QED
    BY <1>1, <1>2, <1>3, <1>4, <1>5, <1>6, <1>7, <1>8, <1>9, <1>10, <1>11, <1>12
       DEF Next, MainThread

(* A signal that may kill the process is one that some thread has not      *)
(* blocked: the main thread blocks all of the set or nothing, and so does a*)
(* thread it starts.                                                       *)
LEMMA KillNeedsGap ==
  ASSUME TypeOK, MaskInv, NEW s \in pending, Unblocked(s), blocked # {}
  PROVE  \/ worker = "running" /\ workerBlocked = {}
         \/ debugger /\ "SIGINT" \in pending
<1>1. blocked = TerminationSet
  BY DEF TypeOK
<1>2. CASE s \notin TerminationSet
  BY <1>2 DEF TypeOK, TerminationSet, Signals
<1>3. CASE s \in TerminationSet
  BY <1>1, <1>3 DEF TypeOK, Unblocked
<1> QED
  BY <1>2, <1>3

(* Every step keeps the masks: threads inherit the one of their creator. *)
LEMMA MaskStep == TypeOK /\ MaskInv /\ [Next]_vars => MaskInv'
<1> SUFFICES ASSUME TypeOK, MaskInv, [Next]_vars PROVE MaskInv'
    OBVIOUS
<1> USE DEF MaskInv, KilledUnprotected, frame, threads
<1>1. CASE Daemonize BY <1>1 DEF Daemonize
<1>2. CASE InitArgs BY <1>2 DEF InitArgs
<1>3. CASE Initialize BY <1>3 DEF Initialize
<1>4. CASE Uninitialize BY <1>4 DEF Uninitialize
<1>5. CASE StartThread BY <1>5 DEF StartThread
<1>6. CASE JoinThread BY <1>6 DEF JoinThread
<1>7. CASE LeaveMain BY <1>7 DEF LeaveMain
<1>8. CASE BlockSignals BY <1>8 DEF BlockSignals, TerminationSet, Signals
<1>9. CASE SigWait BY <1>9 DEF SigWait
<1>10. ASSUME NEW s \in Signals, Kill(s) PROVE MaskInv'
    BY <1>10 DEF Kill, Ended
<1>11. CASE Killed
  <2>1. blocked # {} => \/ worker = "running" /\ workerBlocked = {}
                        \/ debugger /\ "SIGINT" \in pending
    BY <1>11, KillNeedsGap DEF Killed
  <2> QED
    BY <1>11, <2>1 DEF Killed
<1>12. CASE UNCHANGED vars BY <1>12 DEF vars
<1> QED
    BY <1>1, <1>2, <1>3, <1>4, <1>5, <1>6, <1>7, <1>8, <1>9, <1>10, <1>11, <1>12
       DEF Next, MainThread

(* The three parts hold in every reachable state.                          *)
THEOREM Invariance == Spec => []IInv
<1>1. IInv /\ [Next]_vars => IInv'
  BY TypeStep, CodeStep, MaskStep DEF IInv
<1> QED
  BY InitInv, <1>1, PTL DEF Spec

(* Every variable keeps its type; the masks are what was waited for.       *)
THEOREM TypeCorrect == Spec => []TypeOK
<1>1. IInv => TypeOK
  BY DEF IInv
<1> QED
  BY <1>1, Invariance, PTL

(* When run() returns, nothing is left initialized, and its code is the    *)
(* one main() has returned, any at all, or tells which step has failed.    *)
THEOREM CodeTells == Spec => []ReturnTells
<1>1. IInv => ReturnTells
  BY DEF IInv, CodeInv
<1> QED
  BY Invariance, <1>1, PTL

(* After waitForTerminationRequest() has blocked them, the signals do not  *)
(* kill the process through a thread that was started afterwards.          *)
THEOREM ProtectedOnceWaiting == Spec => []KilledUnprotected
<1>1. IInv => KilledUnprotected
  BY DEF IInv, MaskInv
<1> QED
  BY Invariance, <1>1, PTL
=============================================================================
