---------------------------- MODULE LibeventServer ----------------------------
(***************************************************************************)
(* src/simple_libevent/main.cpp: a server on a libevent bufferevent for    *)
(* each client.  It greets a client, answers every read with the same      *)
(* message, and leaves its loop two seconds after SIGINT.                  *)
(*                                                                         *)
(* libevent runs one call-back at a time, in the one thread, and none of a *)
(* bufferevent that was freed.  Read and Write are its call-backs of a     *)
(* socket, with the handlers of main.cpp they call.  Of what is sent to a  *)
(* client only the number of messages matters, of what it sends only the   *)
(* number of bytes.                                                        *)
(***************************************************************************)
EXTENDS Integers, FiniteSets

CONSTANTS
  Clients,
  MaxFds,     \* descriptors the process has for connections
  MaxBytes,   \* bound: bytes each client sends
  ReadLen,    \* sizeof(buf) in handle_recv
  ReadMax,    \* bytes libevent takes from a socket at a time
  SndBuf,     \* messages the kernel buffers towards a client
  Faults      \* the failures of this instance's environment

FaultKinds == {"setup", "nomem", "reset"}

ASSUME LibeventAssumption ==
  /\ IsFiniteSet(Clients)
  /\ MaxFds \in Nat \ {0} /\ MaxBytes \in [Clients -> Nat]
  /\ ReadLen \in Nat \ {0} /\ ReadMax \in Nat \ {0} /\ SndBuf \in Nat \ {0}
  /\ Faults \subseteq FaultKinds

VARIABLES
  server,     \* where main() is
  broken,     \* event_base_loopbreak() was called
  accepting,  \* the listener's call-back is taking connections
  sigint,     \* SIGINT has arrived, handle_signal has not run
  timer,      \* event_base_loopexit's delay is running
  gotterm,    \* it is over
  peer,       \* what the client did to its end
  conn,       \* what the server has of the connection
  sent,       \* bytes the client has sent
  unread,     \* those the kernel holds
  input,      \* those in the bufferevent's input
  output,     \* messages in its output, not wholly sent
  answers,    \* messages written to it
  inflight    \* messages sent which the client has not read

loopVars == <<server, broken, accepting, sigint, timer, gotterm>>
connVars == <<peer, conn, sent, unread, input, output, answers, inflight>>
vars == <<loopVars, connVars>>

(* "lost": accepted, but without a bufferevent. *)
ConnStates == {"none", "queued", "open", "closed", "lost"}
Ended == server \in {"returned", "failed", "killed"}

Least(m, n) == IF m < n THEN m ELSE n
Fds == {c \in Clients : conn[c] \in {"open", "lost"}}
Queued == {c \in Clients : conn[c] = "queued"}

(* A call-back may run: not while another one does, not after a loopbreak. *)
CallBack == server = "loop" /\ ~broken /\ ~accepting

Init ==
  /\ server = "setup"
  /\ broken = FALSE /\ accepting = FALSE
  /\ sigint = FALSE /\ timer = FALSE /\ gotterm = FALSE
  /\ peer = [c \in Clients |-> "absent"] /\ conn = [c \in Clients |-> "none"]
  /\ sent = [c \in Clients |-> 0] /\ unread = [c \in Clients |-> 0]
  /\ input = [c \in Clients |-> 0] /\ output = [c \in Clients |-> 0]
  /\ answers = [c \in Clients |-> 0] /\ inflight = [c \in Clients |-> 0]

-----------------------------------------------------------------------------
(* The clients, and whoever sends the signal.                              *)

Connect(c) ==
  /\ server \in {"listening", "loop"} /\ peer[c] = "absent"
  /\ peer' = [peer EXCEPT ![c] = "up"] /\ conn' = [conn EXCEPT ![c] = "queued"]
  /\ UNCHANGED <<loopVars, sent, unread, input, output, answers, inflight>>

Send(c) ==
  /\ ~Ended /\ peer[c] = "up" /\ conn[c] # "closed" /\ sent[c] < MaxBytes[c]
  /\ sent' = [sent EXCEPT ![c] = @ + 1] /\ unread' = [unread EXCEPT ![c] = @ + 1]
  /\ UNCHANGED <<loopVars, peer, conn, input, output, answers, inflight>>

ReadAnswers(c) ==
  /\ ~Ended /\ peer[c] \in {"up", "fin"} /\ inflight[c] > 0
  /\ inflight' = [inflight EXCEPT ![c] = 0]
  /\ UNCHANGED <<loopVars, peer, conn, sent, unread, input, output, answers>>

(* "finrst": the reset of a connection that was shut down before. *)
Hangup(c) ==
  /\ ~Ended /\ conn[c] # "closed"
  /\ \/ peer[c] = "up" /\ peer' = [peer EXCEPT ![c] = "fin"]
     \/ "reset" \in Faults /\ peer[c] = "up" /\ peer' = [peer EXCEPT ![c] = "rst"]
     \/ "reset" \in Faults /\ peer[c] = "fin" /\ peer' = [peer EXCEPT ![c] = "finrst"]
  /\ UNCHANGED <<loopVars, conn, sent, unread, input, output, answers, inflight>>

(* SIGINT, which ends the process as long as the loop does not catch it.   *)
Interrupt ==
  /\ ~Ended
  /\ IF server = "loop" THEN sigint' = TRUE /\ UNCHANGED server
                        ELSE server' = "killed" /\ UNCHANGED sigint
  /\ UNCHANGED <<broken, accepting, timer, gotterm, connVars>>

-----------------------------------------------------------------------------

(* main() up to the loop: the listener takes connections from the kernel   *)
(* before the signal has a handler.                                        *)
Setup ==
  /\ \/ server = "setup" /\ server' = "listening"
     \/ server = "listening" /\ server' = "loop"
     \/ "setup" \in Faults /\ server \in {"setup", "listening"} /\ server' = "failed"
  /\ UNCHANGED <<broken, accepting, sigint, timer, gotterm, connVars>>

(* Mutant: the greeting is not written. *)
HandleAcceptSilent(c) ==
  /\ CallBack \/ accepting
  /\ conn[c] = "queued" /\ Cardinality(Fds) < MaxFds
  /\ accepting' = TRUE
  /\ conn' = [conn EXCEPT ![c] = "open"]
  /\ UNCHANGED <<server, broken, sigint, timer, gotterm, peer, sent, unread, input,
                 output, answers, inflight>>

(* handle_accept for a connection the listener has accepted.  libevent     *)
(* accepts until there is none left, after a loopbreak, too.               *)
HandleAccept(c) ==
  /\ CallBack \/ accepting
  /\ conn[c] = "queued" /\ Cardinality(Fds) < MaxFds
  /\ accepting' = TRUE
  /\ \/ /\ conn' = [conn EXCEPT ![c] = "open"]
        /\ output' = [output EXCEPT ![c] = 1]
        /\ answers' = [answers EXCEPT ![c] = 1]
        /\ UNCHANGED broken
     \/ /\ "nomem" \in Faults
        /\ conn' = [conn EXCEPT ![c] = "lost"]
        /\ broken' = TRUE
        /\ UNCHANGED <<output, answers>>
  /\ UNCHANGED <<server, sigint, timer, gotterm, peer, sent, unread, input, inflight>>

AcceptEnds ==
  /\ accepting
  /\ Queued = {} \/ Cardinality(Fds) = MaxFds
  /\ accepting' = FALSE
  /\ UNCHANGED <<server, broken, sigint, timer, gotterm, connVars>>

(* Mutant: the write is not queued when an answer is on its way already. *)
HandleRecvOnce(c, n) ==
  /\ input' = [input EXCEPT ![c] = @ + n - Least(@ + n, ReadLen)]
  /\ output' = [output EXCEPT ![c] = 1]
  /\ answers' = [answers EXCEPT ![c] = @ + (IF output[c] = 0 THEN 1 ELSE 0)]

(* handle_recv, of n bytes more than the input had: reads one bufferful of *)
(* them, and nothing calls it for the rest.                                *)
HandleRecv(c, n) ==
  /\ input' = [input EXCEPT ![c] = @ + n - Least(@ + n, ReadLen)]
  /\ output' = [output EXCEPT ![c] = @ + 1]
  /\ answers' = [answers EXCEPT ![c] = @ + 1]

(* Mutant: BEV_EVENT_EOF is reported and the bufferevent kept. *)
HandleEventKept(c) == conn' = conn

(* handle_event: whatever the event is, the bufferevent is freed, and its  *)
(* descriptor closed with it.                                              *)
HandleEvent(c) == conn' = [conn EXCEPT ![c] = "closed"]

(* A socket is readable: data, or the end of it, or an error. *)
Read(c) ==
  /\ CallBack /\ conn[c] = "open"
  /\ \/ /\ unread[c] > 0
        /\ LET n == Least(unread[c], ReadMax)
           IN  unread' = [unread EXCEPT ![c] = @ - n] /\ HandleRecv(c, n)
        /\ UNCHANGED conn
     \/ /\ unread[c] = 0 /\ peer[c] # "up"
        /\ HandleEvent(c)
        /\ UNCHANGED <<unread, input, output, answers>>
  /\ UNCHANGED <<loopVars, peer, sent, inflight>>

(* Mutant: handle_send is the call-back for what has been written. *)
AfterWriteFreed(c) ==
  conn' = IF output'[c] = 0 THEN [conn EXCEPT ![c] = "closed"] ELSE conn

(* bufferevent_setcb() is given no call-back for writing: handle_send,     *)
(* which would free the bufferevent, is never called.                      *)
AfterWrite(c) == UNCHANGED conn

(* There is output and the socket takes it.  Nothing ignores SIGPIPE,      *)
(* which a reset after a shutdown raises.                                  *)
Write(c) ==
  /\ CallBack /\ conn[c] = "open" /\ output[c] > 0
  /\ \/ /\ peer[c] \in {"up", "fin"}
        /\ \E n \in 1..Least(output[c], SndBuf - inflight[c]) :
             /\ output' = [output EXCEPT ![c] = @ - n]
             /\ inflight' = [inflight EXCEPT ![c] = @ + n]
        /\ AfterWrite(c)
        /\ UNCHANGED server
     \/ peer[c] = "rst" /\ HandleEvent(c) /\ UNCHANGED <<server, output, inflight>>
     \/ peer[c] = "finrst" /\ server' = "killed" /\ UNCHANGED <<conn, output, inflight>>
  /\ UNCHANGED <<broken, accepting, sigint, timer, gotterm, peer, sent, unread, input, answers>>

(* Mutant: each signal starts the delay anew. *)
HandleSignalAnew ==
  /\ CallBack /\ sigint
  /\ sigint' = FALSE /\ timer' = TRUE /\ gotterm' = FALSE
  /\ UNCHANGED <<server, broken, accepting, connVars>>

HandleSignal ==
  /\ CallBack /\ sigint
  /\ sigint' = FALSE /\ timer' = TRUE
  /\ UNCHANGED <<server, broken, accepting, gotterm, connVars>>

TimerExpires ==
  /\ CallBack /\ timer
  /\ timer' = FALSE /\ gotterm' = TRUE
  /\ UNCHANGED <<server, broken, accepting, sigint, connVars>>

(* The loop ends, main() frees the listener, the signal's event and the    *)
(* base and returns 0; connections are closed by the end of the process.   *)
LeaveLoop ==
  /\ server = "loop" /\ ~accepting /\ (broken \/ gotterm)
  /\ server' = "returned"
  /\ UNCHANGED <<broken, accepting, sigint, timer, gotterm, connVars>>

Next ==
  \/ \E c \in Clients : Connect(c) \/ Send(c) \/ ReadAnswers(c) \/ Hangup(c)
  \/ Interrupt
  \/ Setup
  \/ \E c \in Clients : HandleAccept(c) \/ Read(c) \/ Write(c)
  \/ AcceptEnds
  \/ HandleSignal
  \/ TimerExpires
  \/ LeaveLoop

Spec == Init /\ [][Next]_vars

(* Every iteration of libevent's loop runs all the call-backs that are due.*)
(* Clients read in the end; nobody has to send, hang up or interrupt.      *)
Fairness ==
  /\ WF_vars(Setup) /\ WF_vars(AcceptEnds) /\ WF_vars(HandleSignal)
  /\ WF_vars(TimerExpires) /\ WF_vars(LeaveLoop)
  /\ \A c \in Clients : /\ WF_vars(HandleAccept(c)) /\ WF_vars(Read(c))
                        /\ WF_vars(Write(c)) /\ WF_vars(ReadAnswers(c))

FairSpec == Spec /\ Fairness

-----------------------------------------------------------------------------

TypeOK ==
  /\ server \in {"setup", "listening", "loop", "returned", "failed", "killed"}
  /\ broken \in BOOLEAN /\ accepting \in BOOLEAN
  /\ sigint \in BOOLEAN /\ timer \in BOOLEAN /\ gotterm \in BOOLEAN
  /\ peer \in [Clients -> {"absent", "up", "fin", "rst", "finrst"}]
  /\ conn \in [Clients -> ConnStates]
  /\ sent \in [Clients -> Nat] /\ unread \in [Clients -> Nat]
  /\ input \in [Clients -> Nat]
  /\ output \in [Clients -> Nat] /\ answers \in [Clients -> Nat]
  /\ inflight \in [Clients -> 0..SndBuf]
  /\ \A c \in Clients : /\ sent[c] <= MaxBytes[c]
                        /\ unread[c] + input[c] <= sent[c]
                        /\ output[c] <= answers[c]
  /\ Cardinality(Fds) <= MaxFds

(* A client that has not hung up keeps its connection until the process    *)
(* ends: an answer that is all sent does not end it, as handle_send would. *)
ServedUntilHangup ==
  \A c \in Clients : conn[c] = "closed" => peer[c] # "up"

(* What a client has sent is in the kernel, in the input, or was answered, *)
(* and an answer stands for one byte at least and one bufferful at most.   *)
AnswersEarned ==
  \A c \in Clients : answers[c] > 0 =>
    LET taken == sent[c] - unread[c] - input[c]
    IN  taken \in answers[c] - 1..ReadLen * (answers[c] - 1)

(* SIGINT ends the process, whatever the clients do.                       *)
InterruptEnds == sigint ~> Ended

(* Whoever connects is accepted while there is a descriptor for it, and    *)
(* then greeted, if it does not hang up and the process does not end.      *)
Greeted == \A c \in Clients :
  /\ conn[c] = "queued" ~>
       conn[c] # "queued" \/ Ended \/ Cardinality(Fds) = MaxFds
  /\ conn[c] = "open" ~> answers[c] > output[c] \/ conn[c] = "closed" \/ Ended

(* The descriptor of a client that has hung up is closed.                  *)
HangupSeen == \A c \in Clients :
  conn[c] = "open" /\ peer[c] # "up" ~> conn[c] = "closed" \/ Ended
=============================================================================
