----------------------------- MODULE EchoProtocol -----------------------------
(***************************************************************************)
(* What the simple_epoll server promises its clients, with no descriptors, *)
(* no table of events and no epoll: every connection is served half-duplex,*)
(* at most BufLen bytes are read, answered, and only then the next are     *)
(* read.  SimpleServer is checked to implement it.                         *)
(***************************************************************************)
EXTENDS Integers, Sequences, FiniteSets

CONSTANTS
  Conns, MaxBytes,
  BufLen,       \* bytes read at a time
  MaxServed,    \* connections served at a time
  MayAbandon,   \* accepted connections may be forgotten below that limit
  MayTruncate   \* an answer may be cut short

VARIABLES
  phase,   \* how far the service has come with the connection
  queue,   \* connections waiting, oldest first
  peer,    \* what the client did to its end
  sent,    \* bytes the client has sent
  taken,   \* bytes the service has read
  chunk,   \* the bytes read and not answered yet
  reply    \* the bytes answered

vars == <<phase, queue, peer, sent, taken, chunk, reply>>

Served == {c \in Conns : phase[c] \in {"reading", "writing"}}

Init ==
  /\ phase = [c \in Conns |-> "idle"]
  /\ queue = <<>>
  /\ peer = [c \in Conns |-> "absent"]
  /\ sent = [c \in Conns |-> 0]
  /\ taken = [c \in Conns |-> 0]
  /\ chunk = [c \in Conns |-> <<>>]
  /\ reply = [c \in Conns |-> <<>>]

Connect(c) ==
  /\ peer[c] = "absent"
  /\ peer' = [peer EXCEPT ![c] = "up"]
  /\ phase' = [phase EXCEPT ![c] = "queued"]
  /\ queue' = Append(queue, c)
  /\ UNCHANGED <<sent, taken, chunk, reply>>

Send(c) ==
  /\ peer[c] = "up" /\ phase[c] # "closed" /\ sent[c] < MaxBytes
  /\ sent' = [sent EXCEPT ![c] = @ + 1]
  /\ UNCHANGED <<phase, queue, peer, taken, chunk, reply>>

(* The client hangs up, or resets the connection. *)
Leave(c) ==
  /\ peer[c] \in {"up", "fin"} /\ phase[c] # "closed"
  /\ \/ peer[c] = "up"  /\ \E p \in {"fin", "rst"} : peer' = [peer EXCEPT ![c] = p]
     \/ peer[c] = "fin" /\ peer' = [peer EXCEPT ![c] = "finrst"]
  /\ UNCHANGED <<phase, queue, sent, taken, chunk, reply>>

(* The oldest waiting connection is taken up, or, with all places taken,   *)
(* accepted and never looked at again.                                     *)
Serve(c) ==
  /\ queue # <<>> /\ c = Head(queue)
  /\ queue' = Tail(queue)
  /\ \/ Cardinality(Served) < MaxServed /\ phase' = [phase EXCEPT ![c] = "reading"]
     \/ /\ Cardinality(Served) >= MaxServed \/ MayAbandon
        /\ phase' = [phase EXCEPT ![c] = "abandoned"]
  /\ UNCHANGED <<peer, sent, taken, chunk, reply>>

Read(c) ==
  /\ phase[c] = "reading"
  /\ phase' = [phase EXCEPT ![c] = "writing"]
  /\ \E n \in 1..BufLen :
       /\ taken[c] + n <= sent[c]
       /\ taken' = [taken EXCEPT ![c] = @ + n]
       /\ chunk' = [chunk EXCEPT ![c] = [i \in 1..n |-> <<c, taken[c] + i>>]]
  /\ UNCHANGED <<queue, peer, sent, reply>>

Answer(c) ==
  /\ phase[c] = "writing" /\ peer[c] \in {"up", "fin"}
  /\ phase' = [phase EXCEPT ![c] = "reading"]
  /\ \E n \in 1..Len(chunk[c]) :
       /\ n = Len(chunk[c]) \/ MayTruncate
       /\ reply' = [reply EXCEPT ![c] = @ \o SubSeq(chunk[c], 1, n)]
  /\ chunk' = [chunk EXCEPT ![c] = <<>>]
  /\ UNCHANGED <<queue, peer, sent, taken>>

(* A connection is closed only when its client is gone and everything it   *)
(* sent has been read, when it cannot be answered any more, or instead of  *)
(* the answer to a chunk that filled the buffer.                           *)
Close(c) ==
  /\ \/ phase[c] = "reading" /\ peer[c] # "up" /\ taken[c] = sent[c]
     \/ phase[c] = "writing" /\ (peer[c] = "rst" \/ Len(chunk[c]) = BufLen)
  /\ phase' = [phase EXCEPT ![c] = "closed"]
  /\ chunk' = [chunk EXCEPT ![c] = <<>>]
  /\ UNCHANGED <<queue, peer, sent, taken, reply>>

Next == \E c \in Conns :
  \/ Connect(c) \/ Send(c) \/ Leave(c)
  \/ Serve(c) \/ Read(c) \/ Answer(c) \/ Close(c)

Spec == Init /\ [][Next]_vars
=============================================================================
