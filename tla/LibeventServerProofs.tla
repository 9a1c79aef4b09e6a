------------------------- MODULE LibeventServerProofs -------------------------
(***************************************************************************)
(* The safety properties of the libevent server, for any number of clients,*)
(* bytes, descriptors and any sizes of the buffers.                        *)
(***************************************************************************)
EXTENDS LibeventServer, FiniteSetTheorems, TLAPS

(* Before a bufferevent takes them, the bytes of a client are in the       *)
(* kernel; from then on each was answered or waits.                        *)
Untouched(c) == answers[c] = 0 /\ input[c] = 0 /\ unread[c] = sent[c]

ConnInv ==
  \A c \in Clients :
    /\ peer[c] = "absent" => conn[c] = "none"
    /\ conn[c] \in {"none", "queued", "lost"} => Untouched(c)
    /\ conn[c] = "open" => answers[c] > 0

IInv == TypeOK /\ ConnInv /\ ServedUntilHangup /\ AnswersEarned

Earned(c) ==
  answers[c] > 0 => sent[c] - unread[c] - input[c]
                      \in answers[c] - 1..ReadLen * (answers[c] - 1)

Safe(c) ==
  /\ sent[c] <= MaxBytes[c] /\ unread[c] + input[c] <= sent[c]
  /\ output[c] <= answers[c]
  /\ peer[c] = "absent" => conn[c] = "none"
  /\ conn[c] \in {"none", "queued", "lost"} => Untouched(c)
  /\ conn[c] = "open" => answers[c] > 0
  /\ conn[c] = "closed" => peer[c] # "up"
  /\ Earned(c)

Types ==
  /\ server \in {"setup", "listening", "loop", "returned", "failed", "killed"}
  /\ broken \in BOOLEAN /\ accepting \in BOOLEAN
  /\ sigint \in BOOLEAN /\ timer \in BOOLEAN /\ gotterm \in BOOLEAN
  /\ peer \in [Clients -> {"absent", "up", "fin", "rst", "finrst"}]
  /\ conn \in [Clients -> ConnStates]
  /\ sent \in [Clients -> Nat] /\ unread \in [Clients -> Nat]
  /\ input \in [Clients -> Nat]
  /\ output \in [Clients -> Nat] /\ answers \in [Clients -> Nat]
  /\ inflight \in [Clients -> 0..SndBuf]

FdsFit == Cardinality(Fds) <= MaxFds

(* The invariant says something of the types, of each client alone, and of *)
(* the number of descriptors.                                              *)
LEMMA Parts == IInv <=> Types /\ (\A c \in Clients : Safe(c)) /\ FdsFit
BY DEF IInv, TypeOK, ConnInv, ServedUntilHangup, AnswersEarned, Types, Safe, Earned, FdsFit

(* The parts of the invariant, after a step. *)
LEMMA PartsNext ==
  ASSUME Types', \A c \in Clients : Safe(c)', FdsFit'
  PROVE  IInv'
BY DEF IInv, TypeOK, ConnInv, ServedUntilHangup, AnswersEarned, Types, Safe, Earned, FdsFit

(* Nobody has connected. *)
LEMMA InitInv == Init => IInv
<1> SUFFICES ASSUME Init PROVE IInv
    OBVIOUS
<1>1. Types
  <2>1. 0 \in Nat /\ 0 \in 0..SndBuf
    BY LibeventAssumption
  <2>2. inflight \in [Clients -> 0..SndBuf]
    BY <2>1, Zenon DEF Init
  <2> QED
    BY <2>1, <2>2 DEF Init, Types, ConnStates
<1>4. ASSUME NEW c \in Clients PROVE Safe(c)
  <2>1. MaxBytes[c] \in Nat
    BY LibeventAssumption
  <2>2. /\ sent[c] = 0 /\ unread[c] = 0 /\ input[c] = 0 /\ output[c] = 0
        /\ answers[c] = 0 /\ conn[c] = "none"
    BY DEF Init
  <2> QED
    BY <2>1, <2>2 DEF Safe, Earned, Untouched
<1>2. Fds = {}
  BY DEF Init, Fds
<1>3. FdsFit
  BY <1>2, FS_EmptySet, LibeventAssumption DEF FdsFit
<1> QED
  BY <1>1, <1>3, <1>4, Parts

(* A step that leaves a client's variables alone leaves it safe. *)
LEMMA OthersSafe ==
  ASSUME NEW c \in Clients, Safe(c),
         peer'[c] = peer[c], conn'[c] = conn[c], sent'[c] = sent[c], unread'[c] = unread[c],
         input'[c] = input[c], output'[c] = output[c], answers'[c] = answers[c]
  PROVE  Safe(c)'
BY DEF Safe, Earned, Untouched

(* Descriptors are only used up by HandleAccept. *)
LEMMA FewerFds ==
  ASSUME FdsFit, Fds' \subseteq Fds
  PROVE  FdsFit'
<1>1. IsFiniteSet(Fds)
  BY FS_Subset, LibeventAssumption DEF Fds
<1>2. Cardinality(Fds') <= Cardinality(Fds) /\ Cardinality(Fds) \in Nat /\ Cardinality(Fds') \in Nat
  BY <1>1, FS_Subset, FS_CardinalityType
<1> QED
  BY <1>2, LibeventAssumption DEF FdsFit

(* A step of one client, d, keeps the invariant if it keeps the types and  *)
(* d safe and leaves descriptors enough.                                   *)
LEMMA StepOf ==
  ASSUME IInv, NEW d \in Clients, Types', Safe(d)', FdsFit',
         \A c \in Clients \ {d} :
           /\ peer'[c] = peer[c] /\ conn'[c] = conn[c] /\ sent'[c] = sent[c]
           /\ unread'[c] = unread[c] /\ input'[c] = input[c]
           /\ output'[c] = output[c] /\ answers'[c] = answers[c]
  PROVE  IInv'
<1>1. \A c \in Clients : Safe(c)
  BY Parts
<1>2. \A c \in Clients : Safe(c)'
  BY <1>1, OthersSafe
<1> QED
  BY <1>2, PartsNext

(* What a client is owed depends on its own state only. *)
LEMMA EarnedKept ==
  ASSUME NEW d, Earned(d), sent'[d] = sent[d], unread'[d] = unread[d],
         input'[d] = input[d], answers'[d] = answers[d]
  PROVE  Earned(d)'
BY DEF Earned

-----------------------------------------------------------------------------

(* Steps that touch no connection. *)
LEMMA LoopStep ==
  ASSUME IInv, Types', UNCHANGED connVars
  PROVE  IInv'
<1>1. (\A c \in Clients : Safe(c)) /\ FdsFit
  BY Parts
<1>2. ASSUME NEW c \in Clients PROVE Safe(c)'
  BY <1>1, OthersSafe DEF connVars
<1>3. FdsFit'
  BY <1>1 DEF FdsFit, Fds, connVars
<1> QED
  BY <1>2, <1>3, PartsNext

(* A client connects. *)
LEMMA ConnectInv ==
  ASSUME IInv, NEW d \in Clients, Connect(d)
  PROVE  IInv'
<1>1. Types /\ Safe(d) /\ FdsFit
  BY Parts
<1>2. Types'
  BY <1>1 DEF Types, Connect, ConnStates, loopVars
<1>3. Safe(d)'
  <2>1. /\ peer'[d] = "up" /\ conn'[d] = "queued"
        /\ UNCHANGED <<sent, unread, input, output, answers>>
    BY <1>1 DEF Types, Connect
  <2>2. conn[d] = "none"
    BY <1>1 DEF Connect, Safe
  <2> QED
    BY <1>1, <2>1, <2>2, EarnedKept DEF Safe, Untouched
<1>4. Fds' \subseteq Fds
  BY <1>1 DEF Types, Connect, Fds
<1> QED
  BY <1>1, <1>2, <1>3, <1>4, FewerFds, StepOf DEF Types, Connect

(* A client sends. *)
LEMMA SendInv ==
  ASSUME IInv, NEW d \in Clients, Send(d)
  PROVE  IInv'
<1>1. Types /\ Safe(d) /\ FdsFit
  BY Parts
<1>2. Types'
  BY <1>1 DEF Types, Send, loopVars
<1>3. Safe(d)'
  <2>1. /\ sent'[d] = sent[d] + 1 /\ unread'[d] = unread[d] + 1
        /\ UNCHANGED <<peer, conn, input, output, answers>>
    BY <1>1 DEF Types, Send
  <2>2. sent'[d] <= MaxBytes[d]
    BY <1>1, <2>1, LibeventAssumption DEF Send, Types
  <2>3. sent'[d] - unread'[d] - input'[d] = sent[d] - unread[d] - input[d]
    BY <1>1, <2>1 DEF Types
  <2>4. Earned(d)'
    BY <1>1, <2>1, <2>3, Zenon DEF Safe, Earned
  <2>5. unread'[d] + input'[d] <= sent'[d]
    BY <1>1, <2>1 DEF Types, Safe
  <2>6. Untouched(d) => Untouched(d)'
    BY <2>1 DEF Untouched
  <2> QED
    BY <1>1, <2>1, <2>2, <2>4, <2>5, <2>6 DEF Safe
<1>4. Fds' = Fds
  BY DEF Send, Fds
<1> QED
  BY <1>1, <1>2, <1>3, <1>4, FewerFds, StepOf DEF Types, Send

(* A client reads. *)
LEMMA ReadAnswersInv ==
  ASSUME IInv, NEW d \in Clients, ReadAnswers(d)
  PROVE  IInv'
<1>1. Types /\ Safe(d) /\ FdsFit
  BY Parts
<1>2. Types'
  <2>1. 0 \in 0..SndBuf
    BY LibeventAssumption
  <2> QED
    BY <1>1, <2>1 DEF Types, ReadAnswers, loopVars
<1>3. Safe(d)'
  BY <1>1, OthersSafe DEF ReadAnswers
<1>4. Fds' = Fds
  BY DEF ReadAnswers, Fds
<1> QED
  BY <1>1, <1>2, <1>3, <1>4, FewerFds, StepOf DEF ReadAnswers

(* A client shuts down or resets. *)
LEMMA HangupInv ==
  ASSUME IInv, NEW d \in Clients, Hangup(d)
  PROVE  IInv'
<1>1. Types /\ Safe(d) /\ FdsFit
  BY Parts
<1>2. Types'
  BY <1>1 DEF Types, Hangup, loopVars
<1>3. Safe(d)'
  <2>1. /\ peer'[d] \in {"fin", "rst", "finrst"}
        /\ UNCHANGED <<conn, sent, unread, input, output, answers>>
    BY <1>1 DEF Types, Hangup
  <2> QED
    BY <1>1, <2>1, EarnedKept DEF Safe, Untouched
<1>4. Fds' = Fds
  BY DEF Hangup, Fds
<1> QED
  BY <1>1, <1>2, <1>3, <1>4, FewerFds, StepOf DEF Types, Hangup

(* handle_accept: the greeting is written. *)
LEMMA HandleAcceptInv ==
  ASSUME IInv, NEW d \in Clients, HandleAccept(d)
  PROVE  IInv'
<1>1. Types /\ Safe(d) /\ FdsFit
  BY Parts
<1>2. conn[d] = "queued" /\ Untouched(d)
  BY <1>1 DEF HandleAccept, Safe
<1>3. \/ conn'[d] = "open" /\ output'[d] = 1 /\ answers'[d] = 1
      \/ conn'[d] = "lost" /\ UNCHANGED <<output, answers>>
  BY <1>1 DEF Types, HandleAccept
<1>4. UNCHANGED <<peer, sent, unread, input>>
  BY DEF HandleAccept
<1>5. Types'
  <2>1. /\ conn' \in [Clients -> ConnStates] /\ output' \in [Clients -> Nat]
        /\ answers' \in [Clients -> Nat] /\ broken' \in BOOLEAN
    <3>1. CASE /\ conn' = [conn EXCEPT ![d] = "open"]
               /\ output' = [output EXCEPT ![d] = 1]
               /\ answers' = [answers EXCEPT ![d] = 1]
               /\ UNCHANGED broken
      BY <1>1, <3>1 DEF Types, ConnStates
    <3>2. CASE /\ conn' = [conn EXCEPT ![d] = "lost"]
               /\ broken' = TRUE
               /\ UNCHANGED <<output, answers>>
      BY <1>1, <3>2 DEF Types, ConnStates
    <3> QED
      BY <3>1, <3>2 DEF HandleAccept
  <2> QED
    BY <1>1, <2>1 DEF Types, HandleAccept
<1>6. Safe(d)'
  <2>1. CASE conn'[d] = "lost" /\ UNCHANGED <<output, answers>>
    BY <1>1, <1>2, <1>4, <2>1, EarnedKept DEF Safe, Untouched
  <2>2. CASE conn'[d] = "open" /\ output'[d] = 1 /\ answers'[d] = 1
    <3>1. answers'[d] - 1..ReadLen * (answers'[d] - 1) = 0..0
      BY <2>2, LibeventAssumption
    <3>2. sent'[d] - unread'[d] - input'[d] = 0
      BY <1>1, <1>2, <1>4 DEF Types, Untouched
    <3>3. Earned(d)'
      BY <3>1, <3>2 DEF Earned
    <3> QED
      BY <1>1, <1>2, <1>4, <2>2, <3>3 DEF Safe
  <2> QED
    BY <1>3, <2>1, <2>2
<1>7. FdsFit'
  <2>1. Fds' = Fds \cup {d} /\ d \notin Fds
    BY <1>1, <1>2, <1>3 DEF Types, HandleAccept, Fds
  <2>2. IsFiniteSet(Fds)
    BY FS_Subset, LibeventAssumption DEF Fds
  <2>3. Cardinality(Fds') = Cardinality(Fds) + 1 /\ Cardinality(Fds) \in Nat
    BY <2>1, <2>2, FS_AddElement, FS_CardinalityType
  <2>4. Cardinality(Fds) < MaxFds
    BY DEF HandleAccept
  <2> QED
    BY <2>3, <2>4, LibeventAssumption DEF FdsFit
<1> QED
  BY <1>1, <1>4, <1>5, <1>6, <1>7, StepOf DEF Types, HandleAccept

(* What a read takes is answered once, and is no more than a bufferful. *)
LEMMA ReadEarns ==
  ASSUME NEW s \in Nat, NEW u \in Nat, NEW i \in Nat, NEW a \in Nat \ {0},
         NEW n \in 1..u, NEW t \in 1..ReadLen,
         s - u - i \in a - 1..ReadLen * (a - 1)
  PROVE  s - (u - n) - (i + n - t) \in (a + 1) - 1..ReadLen * ((a + 1) - 1)
<1>1. ReadLen \in Nat
  BY LibeventAssumption
<1>2. ReadLen * ((a + 1) - 1) = ReadLen * (a - 1) + ReadLen
  BY <1>1
<1>3. s - (u - n) - (i + n - t) = (s - u - i) + t
  BY <1>1
<1>4. ReadLen * (a - 1) \in Int
  BY <1>1
<1>5. ASSUME NEW x \in Int, s - u - i \in a - 1..x
      PROVE  (s - u - i) + t \in (a + 1) - 1..x + ReadLen
  BY <1>1, <1>5
<1> QED
  BY <1>2, <1>3, <1>4, <1>5

(* libevent reads, and handle_recv answers. *)
LEMMA ReadInv ==
  ASSUME IInv, NEW d \in Clients, Read(d)
  PROVE  IInv'
<1>1. Types /\ Safe(d) /\ FdsFit
  BY Parts
<1>2. conn[d] = "open" /\ answers[d] > 0 /\ UNCHANGED <<peer, sent>>
  BY <1>1 DEF Read, Safe
<1>3. CASE unread[d] > 0 /\ UNCHANGED conn
  <2> DEFINE n == Least(unread[d], ReadMax)
             t == Least(input[d] + n, ReadLen)
  <2>1. n \in 1..unread[d]
    <3>1. unread[d] \in Nat /\ unread[d] > 0 /\ ReadMax \in Nat /\ ReadMax > 0
      BY <1>1, <1>3, LibeventAssumption DEF Types
    <3> QED
      BY <3>1 DEF Least
  <2>2. t \in 1..ReadLen /\ t <= input[d] + n
    <3> HIDE DEF n
    <3>1. ReadLen \in Nat /\ ReadLen > 0 /\ input[d] \in Nat
      BY <1>1, LibeventAssumption DEF Types
    <3>2. input[d] + n \in Nat /\ input[d] + n > 0
      BY <1>1, <2>1, <3>1 DEF Types
    <3> QED
      BY <3>1, <3>2 DEF Least
  <2>3. /\ unread' = [unread EXCEPT ![d] = @ - n]
        /\ input' = [input EXCEPT ![d] = @ + n - t]
        /\ output' = [output EXCEPT ![d] = @ + 1]
        /\ answers' = [answers EXCEPT ![d] = @ + 1]
    BY <1>1, <1>3 DEF Read, HandleRecv, Types
  <2> HIDE DEF n, t
  <2>4. /\ unread[d] - n \in Nat /\ input[d] + n - t \in Nat
        /\ output[d] + 1 \in Nat /\ answers[d] + 1 \in Nat
    BY <1>1, <2>1, <2>2, LibeventAssumption DEF Types
  <2>5. Types'
    BY <1>1, <1>2, <1>3, <2>3, <2>4 DEF Types, Read, loopVars
  <2>6. /\ unread'[d] = unread[d] - n /\ input'[d] = input[d] + n - t
        /\ output'[d] = output[d] + 1 /\ answers'[d] = answers[d] + 1
    BY <1>1, <2>3 DEF Types
  <2>7. Earned(d)'
    <3>1. sent[d] - unread[d] - input[d] \in answers[d] - 1..ReadLen * (answers[d] - 1)
      BY <1>1, <1>2, Zenon DEF Safe, Earned
    <3>2. /\ sent[d] \in Nat /\ unread[d] \in Nat /\ input[d] \in Nat
          /\ answers[d] \in Nat \ {0}
      BY <1>1, <1>2 DEF Types
    <3>3. sent[d] - (unread[d] - n) - (input[d] + n - t)
            \in (answers[d] + 1) - 1..ReadLen * ((answers[d] + 1) - 1)
      BY <2>1, <2>2, <3>1, <3>2, ReadEarns
    <3> QED
      BY <1>2, <2>6, <3>3, Zenon DEF Earned
  <2>8. /\ unread'[d] + input'[d] <= sent'[d] /\ output'[d] <= answers'[d]
        /\ answers'[d] > 0
    BY <1>1, <1>2, <2>1, <2>2, <2>6, LibeventAssumption DEF Types, Safe
  <2>9. Safe(d)'
    BY <1>1, <1>2, <1>3, <2>7, <2>8 DEF Safe
  <2>10. Fds' = Fds
    BY <1>3 DEF Fds
  <2> QED
    BY <1>1, <1>2, <1>3, <2>3, <2>5, <2>9, <2>10, FewerFds, StepOf DEF Types
<1>4. CASE /\ unread[d] = 0 /\ peer[d] # "up" /\ HandleEvent(d)
           /\ UNCHANGED <<unread, input, output, answers>>
  <2>1. Types'
    BY <1>1, <1>2, <1>4 DEF Types, Read, HandleEvent, ConnStates, loopVars
  <2>2. conn'[d] = "closed"
    BY <1>1, <1>4 DEF Types, HandleEvent
  <2>3. Safe(d)'
    BY <1>1, <1>2, <1>4, <2>2, EarnedKept DEF Safe
  <2>4. Fds' \subseteq Fds
    BY <1>1, <1>4 DEF Types, HandleEvent, Fds
  <2> QED
    BY <1>1, <1>2, <1>4, <2>1, <2>3, <2>4, FewerFds, StepOf DEF Types, HandleEvent
<1> QED
  BY <1>3, <1>4 DEF Read

(* libevent writes: the connection stays, or SIGPIPE ends the process. *)
LEMMA WriteInv ==
  ASSUME IInv, NEW d \in Clients, Write(d)
  PROVE  IInv'
<1>1. Types /\ Safe(d) /\ FdsFit
  BY Parts
<1>2. conn[d] = "open" /\ UNCHANGED <<peer, sent, unread, input, answers>>
  BY DEF Write
<1>3. CASE /\ \E n \in 1..Least(output[d], SndBuf - inflight[d]) :
                /\ output' = [output EXCEPT ![d] = @ - n]
                /\ inflight' = [inflight EXCEPT ![d] = @ + n]
           /\ UNCHANGED <<conn, server>>
  <2>1. PICK n \in 1..Least(output[d], SndBuf - inflight[d]) :
                /\ output' = [output EXCEPT ![d] = @ - n]
                /\ inflight' = [inflight EXCEPT ![d] = @ + n]
    BY <1>3
  <2>2. /\ output[d] \in Nat /\ inflight[d] \in 0..SndBuf /\ SndBuf \in Nat
        /\ SndBuf - inflight[d] \in Nat
    BY <1>1, LibeventAssumption DEF Types
  <2>3. n \in Nat /\ n <= output[d] /\ n <= SndBuf - inflight[d]
    BY <2>2 DEF Least
  <2>4. output[d] - n \in Nat /\ inflight[d] + n \in 0..SndBuf
    BY <2>2, <2>3
  <2>5. Types'
    BY <1>1, <1>2, <1>3, <2>1, <2>4 DEF Types, Write
  <2>6. output'[d] = output[d] - n
    BY <1>1, <2>1 DEF Types
  <2>7. output'[d] <= answers'[d]
    BY <1>1, <1>2, <2>2, <2>3, <2>6 DEF Safe, Types
  <2>8. Safe(d)'
    BY <1>1, <1>2, <1>3, <2>7, EarnedKept DEF Safe
  <2>9. Fds' = Fds
    BY <1>3 DEF Fds
  <2> QED
    BY <1>1, <1>2, <1>3, <2>1, <2>5, <2>8, <2>9, FewerFds, StepOf DEF Types
<1>4. CASE peer[d] = "rst" /\ HandleEvent(d) /\ UNCHANGED <<server, output, inflight>>
  <2>1. Types'
    BY <1>1, <1>2, <1>4 DEF Types, Write, HandleEvent, ConnStates
  <2>2. conn'[d] = "closed"
    BY <1>1, <1>4 DEF Types, HandleEvent
  <2>3. Safe(d)'
    BY <1>1, <1>2, <1>4, <2>2, EarnedKept DEF Safe
  <2>4. Fds' \subseteq Fds
    BY <1>1, <1>4 DEF Types, HandleEvent, Fds
  <2> QED
    BY <1>1, <1>2, <1>4, <2>1, <2>3, <2>4, FewerFds, StepOf DEF Types, HandleEvent
<1>5. CASE peer[d] = "finrst" /\ server' = "killed" /\ UNCHANGED <<conn, output, inflight>>
  <2>1. Types'
    BY <1>1, <1>2, <1>5 DEF Types, Write
  <2>2. UNCHANGED connVars
    BY <1>2, <1>5 DEF connVars
  <2> QED
    BY <2>1, <2>2, LoopStep
<1> QED
  BY <1>3, <1>4, <1>5 DEF Write, AfterWrite

-----------------------------------------------------------------------------

(* Every step. *)
LEMMA NextInv == IInv /\ [Next]_vars => IInv'
<1> SUFFICES ASSUME IInv, [Next]_vars PROVE IInv'
    OBVIOUS
<1>1. Types
  BY Parts
<1>2. CASE \E d \in Clients : Connect(d) \/ Send(d) \/ ReadAnswers(d) \/ Hangup(d)
  BY <1>2, ConnectInv, SendInv, ReadAnswersInv, HangupInv
<1>3. CASE \E d \in Clients : HandleAccept(d) \/ Read(d) \/ Write(d)
  BY <1>3, HandleAcceptInv, ReadInv, WriteInv
<1>4. CASE Interrupt
  BY <1>1, <1>4, LoopStep DEF Interrupt, Types, connVars
<1>5. CASE Setup
  BY <1>1, <1>5, LoopStep DEF Setup, Types, connVars
<1>6. CASE AcceptEnds
  BY <1>1, <1>6, LoopStep DEF AcceptEnds, Types, connVars
<1>7. CASE HandleSignal
  BY <1>1, <1>7, LoopStep DEF HandleSignal, Types, connVars
<1>8. CASE TimerExpires
  BY <1>1, <1>8, LoopStep DEF TimerExpires, Types, connVars
<1>9. CASE LeaveLoop
  BY <1>1, <1>9, LoopStep DEF LeaveLoop, Types, connVars
<1>10. CASE UNCHANGED vars
  BY <1>1, <1>10, LoopStep DEF vars, loopVars, Types, connVars
<1> QED
  BY <1>2, <1>3, <1>4, <1>5, <1>6, <1>7, <1>8, <1>9, <1>10 DEF Next

(* IInv is an inductive invariant of the server.                           *)
THEOREM Invariance == Spec => []IInv
BY InitInv, NextInv, PTL DEF Spec

(* No counter leaves its bounds, and no more descriptors are open than the *)
(* process may have, for accepted connections without a bufferevent, too.  *)
THEOREM TypeCorrect == Spec => []TypeOK
<1>1. IInv => TypeOK
  BY DEF IInv
<1> QED
  BY <1>1, Invariance, PTL

(* Every message to a client but the greeting answers one read of 1 to     *)
(* ReadLen bytes: handle_recv neither answers twice nor for nothing.       *)
THEOREM EveryReadAnswered == Spec => []AnswersEarned
<1>1. IInv => AnswersEarned
  BY DEF IInv
<1> QED
  BY <1>1, Invariance, PTL

(* The server closes no connection whose client has not hung up.           *)
THEOREM NoneDropped == Spec => []ServedUntilHangup
<1>1. IInv => ServedUntilHangup
  BY DEF IInv
<1> QED
  BY <1>1, Invariance, PTL
=============================================================================
