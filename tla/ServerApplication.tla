-------------------------- MODULE ServerApplication --------------------------
(***************************************************************************)
(* src/epoll_server/server_application.cpp: the frame a server runs in.    *)
(* run() becomes a daemon, initializes, calls the application's main(),    *)
(* whatever becomes of it uninitializes, and returns an exit code.         *)
(* waitForTerminationRequest() blocks the termination signals in the       *)
(* calling thread and waits for one of them.                               *)
(*                                                                         *)
(* main() is the application's: like EchoServer::main it may start a       *)
(* thread, wait for termination and join the thread, but it may leave any  *)
(* of it out, return whatever code it likes, or throw.  A signal is sent   *)
(* to the process; the system lets any thread that does not block it take  *)
(* it.                                                                     *)
(***************************************************************************)
EXTENDS Integers, FiniteSets

CONSTANTS
  Faults,      \* what goes wrong in this instance's environment
  MainCodes    \* what main() may return: any int, those of enum ExitCode included

FaultKinds == {"fork", "freopen", "path", "chdir", "initialize", "main"}

ASSUME ServerApplicationAssumption == Faults \subseteq FaultKinds /\ MainCodes \subseteq Int

Signals == {"SIGINT", "SIGQUIT", "SIGTERM"}

EXIT_SOFTWARE == 70
EXIT_OSERR    == 71
EXIT_CONFIG   == 78

VARIABLES
  pc,            \* where the main thread is
  daemon,        \* --daemon was given
  debugger,      \* ENABLE_DEBUGGER is in the environment
  initialized,   \* _initialized
  rc,            \* the code run() returns
  failure,       \* history: the step that has failed
  returned,      \* history: the code main() has returned, if it has
  blocked,       \* the main thread's signal mask
  worker,        \* the thread main() has started
  workerBlocked, \* and its signal mask
  pending        \* signals sent to the process that no thread has taken

frame   == <<daemon, debugger, initialized, rc, failure, returned>>
threads == <<blocked, worker, workerBlocked>>
vars == <<pc, frame, threads, pending>>

Ended == pc \in {"returned", "aborted", "killed"}

Init ==
  /\ pc = "run"
  /\ daemon \in BOOLEAN /\ debugger \in BOOLEAN
  /\ initialized = FALSE /\ rc = EXIT_CONFIG /\ failure = "none" /\ returned = {}
  /\ blocked = {} /\ worker = "none" /\ workerBlocked = {}
  /\ pending = {}

-----------------------------------------------------------------------------
(* run() *)

(* isDaemon() and beDaemon(): in the child, once it has left its session   *)
(* and its terminal.  Both exceptions leave run(), which calls beDaemon()  *)
(* outside of its try block, and end the program.                          *)
Daemonize ==
  /\ pc = "run"
  /\ \/ pc' = "init" /\ UNCHANGED failure
     \/ /\ daemon
        /\ failure' \in Faults \cap {"fork", "freopen"}
        /\ pc' = "aborted"
  /\ UNCHANGED <<daemon, debugger, initialized, rc, returned, threads, pending>>

(* init(), and chdir() for a daemon. *)
InitArgs ==
  /\ pc = "init"
  /\ \/ pc' = "initialize" /\ UNCHANGED <<rc, failure>>
     \/ /\ "path" \in Faults
        /\ failure' = "path" /\ rc' = EXIT_CONFIG /\ pc' = "returned"
     \/ /\ daemon /\ "chdir" \in Faults
        /\ failure' = "chdir" /\ rc' = EXIT_OSERR /\ pc' = "returned"
  /\ UNCHANGED <<daemon, debugger, initialized, returned, threads, pending>>

(* Mutant: rc is set once main() has been left. *)
InitializeEarly ==
  /\ pc = "initialize"
  /\ \/ pc' = "main" /\ initialized' = TRUE /\ UNCHANGED <<rc, failure>>
     \/ /\ "initialize" \in Faults
        /\ failure' = "initialize" /\ initialized' \in BOOLEAN
        /\ pc' = "uninitialize"
        /\ UNCHANGED rc
  /\ UNCHANGED <<daemon, debugger, returned, threads, pending>>

(* initialize(), which an application overrides: it may throw before or    *)
(* after it has called the one of ServerApplication.                       *)
Initialize ==
  /\ pc = "initialize"
  /\ \/ pc' = "main" /\ initialized' = TRUE /\ rc' = EXIT_SOFTWARE /\ UNCHANGED failure
     \/ /\ "initialize" \in Faults
        /\ failure' = "initialize" /\ initialized' \in BOOLEAN
        /\ pc' = "uninitialize"
        /\ UNCHANGED rc
  /\ UNCHANGED <<daemon, debugger, returned, threads, pending>>

Uninitialize ==
  /\ pc = "uninitialize"
  /\ initialized' = FALSE
  /\ pc' = "returned"
  /\ UNCHANGED <<daemon, debugger, rc, failure, returned, threads, pending>>

-----------------------------------------------------------------------------
(* The application's main().                                               *)

(* A thread inherits the mask of the one that starts it. *)
StartThread ==
  /\ pc \in {"main", "waited"} /\ worker = "none"
  /\ worker' = "running" /\ workerBlocked' = blocked
  /\ UNCHANGED <<pc, frame, blocked, pending>>

JoinThread ==
  /\ pc \in {"main", "waited"} /\ worker = "running"
  /\ worker' = "joined"
  /\ UNCHANGED <<pc, frame, blocked, workerBlocked, pending>>

(* main() returns or throws.  It takes its std::thread with it, and if     *)
(* nobody has joined that one, its destructor ends the program.            *)
LeaveMain ==
  /\ pc \in {"main", "waited"}
  /\ \/ rc' \in MainCodes /\ returned' = {rc'} /\ UNCHANGED failure
     \/ "main" \in Faults /\ failure' = "main" /\ UNCHANGED <<rc, returned>>
  /\ pc' = IF worker = "running" THEN "aborted" ELSE "uninitialize"
  /\ UNCHANGED <<daemon, debugger, initialized, threads, pending>>

(* Mutant: SIGTERM is not in the set. *)
TerminationSetShort == IF debugger THEN {"SIGQUIT"} ELSE {"SIGINT", "SIGQUIT"}

TerminationSet == IF debugger THEN {"SIGQUIT", "SIGTERM"} ELSE Signals

(* waitForTerminationRequest(): sigprocmask, which blocks signals for the  *)
(* calling thread only, *)
BlockSignals ==
  /\ pc = "main"
  /\ blocked' = blocked \cup TerminationSet
  /\ pc' = "sigwait"
  /\ UNCHANGED <<frame, worker, workerBlocked, pending>>

(* Mutant: sigwait is called for SIGINT alone. *)
SigWaitInterrupt ==
  /\ pc = "sigwait" /\ "SIGINT" \in pending
  /\ pending' = pending \ {"SIGINT"}
  /\ pc' = "waited"
  /\ UNCHANGED <<frame, threads>>

(* and sigwait. *)
SigWait ==
  /\ pc = "sigwait"
  /\ \E s \in pending \cap TerminationSet : pending' = pending \ {s}
  /\ pc' = "waited"
  /\ UNCHANGED <<frame, threads>>

-----------------------------------------------------------------------------
(* Signals.                                                                *)

(* kill() from outside, and terminate(), which sends SIGINT. *)
Kill(s) ==
  /\ ~Ended
  /\ pending' = pending \cup {s}
  /\ UNCHANGED <<pc, frame, threads>>

Unblocked(s) == s \notin blocked \/ (worker = "running" /\ s \notin workerBlocked)

(* The default action of all of them. *)
Killed ==
  /\ ~Ended
  /\ \E s \in pending : Unblocked(s)
  /\ pc' = "killed"
  /\ UNCHANGED <<frame, threads, pending>>

MainThread ==
  \/ Daemonize
  \/ InitArgs
  \/ Initialize
  \/ Uninitialize
  \/ StartThread
  \/ JoinThread
  \/ LeaveMain
  \/ BlockSignals
  \/ SigWait

Next ==
  \/ MainThread
  \/ \E s \in Signals : Kill(s)
  \/ Killed

Spec == Init /\ [][Next]_vars

(* The main thread runs whenever it can, and a signal that some thread     *)
(* takes is delivered.                                                     *)
FairSpec == Spec /\ WF_vars(MainThread) /\ WF_vars(Killed)

-----------------------------------------------------------------------------

TypeOK ==
  /\ pc \in {"run", "init", "initialize", "main", "sigwait", "waited",
             "uninitialize", "returned", "aborted", "killed"}
  /\ daemon \in BOOLEAN /\ debugger \in BOOLEAN /\ initialized \in BOOLEAN
  /\ rc \in MainCodes \cup {EXIT_SOFTWARE, EXIT_OSERR, EXIT_CONFIG}
  /\ failure \in FaultKinds \cup {"none"} /\ returned \subseteq MainCodes
  /\ blocked \in {{}, TerminationSet}
  /\ worker \in {"none", "running", "joined"}
  /\ workerBlocked \in {{}, TerminationSet}
  /\ pending \subseteq Signals

(* When run() returns, nothing is left initialized.  If main() has         *)
(* returned, its code is passed on, whatever it is.  If not, the code      *)
(* tells which step has failed: EXIT_CONFIG before main(), EXIT_OSERR for  *)
(* chdir(), EXIT_SOFTWARE for an exception of main().                      *)
ReturnTells ==
  pc = "returned" =>
    /\ ~initialized
    /\ returned # {} => returned = {rc} /\ failure = "none"
    /\ returned = {} =>
         \/ rc = EXIT_CONFIG /\ failure \in {"path", "initialize"}
         \/ rc = EXIT_OSERR /\ failure = "chdir"
         \/ rc = EXIT_SOFTWARE /\ failure = "main"

(* Once main() has waited for termination, no request kills the process    *)
(* while it shuts down, unless a thread was started before (EchoServer's   *)
(* is, and does not block the signals) or SIGINT was left to a debugger.   *)
KilledUnprotected ==
  pc = "killed" /\ blocked # {} =>
    \/ worker = "running" /\ workerBlocked = {}
    \/ debugger /\ "SIGINT" \in pending

(* A termination request ends the process, wherever main() is.             *)
RequestServed == \A s \in Signals : s \in pending ~> Ended
=============================================================================
