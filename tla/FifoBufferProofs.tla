--------------------------- MODULE FifoBufferProofs ---------------------------
(***************************************************************************)
(* Two properties of FifoBuffer for every size and number of items: the    *)
(* reader's signal is right after any calls, and the content is, as long   *)
(* as no resize() makes the buffer smaller than where its window ends.     *)
(*                                                                         *)
(* The second one is inductive with the fact that the window ends within   *)
(* the size the Buffer has, which is what a growing Buffer copies.         *)
(***************************************************************************)
EXTENDS FifoBuffer, SequenceTheorems, TLAPS

-----------------------------------------------------------------------------
(* The signals. *)

Flags ==
  /\ size \in Nat \ {0} /\ used \in Nat
  /\ error \in BOOLEAN /\ readable \in BOOLEAN
  /\ error => used = 0
(* Whichever call it is that locks twice, nothing else changes.            *)
LEMMA LockTwiceIs == LockTwice => Relock
BY DEF LockTwice, ReadRelocks, WriteRelocks, CopyRelocks, AdvanceRelocks,
       NextRelocks, ReceiveRelocks, SendRelocks


(* notify() tells a reader of the first item, and of the last one gone. *)
LEMMA NotifyReadable ==
  ASSUME Flags, ReadableSignalled, NEW n \in Nat, NEW sz,
         Notify(used, n, sz), error' = error, used' = n, error => n = 0
  PROVE  readable' \in BOOLEAN /\ ReadableSignalled'
<1> DEFINE had == used > 0
           has == n > 0
<1>1. /\ used = 0 <=> ~had
      /\ n = 0 <=> ~has
  BY DEF Flags
<1>2. readable' = IF ~had /\ has THEN TRUE ELSE IF had /\ ~has THEN FALSE ELSE readable
  <2> HIDE DEF had, has
  <2>1. /\ used = 0 /\ n > 0 <=> ~had /\ has
        /\ used > 0 /\ n = 0 <=> had /\ ~has
    BY <1>1 DEF had, has
  <2> QED BY <2>1, Zenon DEF Notify
<1>3. /\ readable <=> had /\ ~error
      /\ ReadableSignalled' <=> (readable' <=> has /\ ~error)
  BY DEF ReadableSignalled, IsReadable
<1>4. error => ~has
  OBVIOUS
<1>5. readable \in BOOLEAN /\ error \in BOOLEAN /\ (error => ~had)
  BY DEF Flags
<1> HIDE DEF had, has
<1>6. readable' \in BOOLEAN
  BY <1>2, <1>5
<1> QED BY <1>2, <1>3, <1>4, <1>5, <1>6

SignalInv == Flags /\ ReadableSignalled

(* The buffer is empty and writable. *)
LEMMA InitSignal == Init => SignalInv
<1> SUFFICES ASSUME Init PROVE SignalInv
  OBVIOUS
<1>1. size \in Nat \ {0}
  BY FifoBufferAssumption DEF Init
<1>2. used \in {0, size} /\ error = FALSE /\ readable = IsReadable
  BY DEF Init
<1>3. IsReadable \in BOOLEAN
  BY <1>2 DEF IsReadable
<1>4. /\ used \in Nat
      /\ error \in BOOLEAN /\ (error => used = 0)
  <2>1. used \in Nat
    BY <1>1, <1>2
  <2>2. error \in BOOLEAN /\ ~error
    BY <1>2, Zenon
  <2> QED BY <2>1, <2>2
<1>5. readable \in BOOLEAN /\ (readable <=> IsReadable)
  BY <1>2, <1>3, Zenon
<1> QED BY <1>1, <1>4, <1>5 DEF SignalInv, Flags, ReadableSignalled

(* Every step keeps the signals right. *)
LEMMA NextSignal == SignalInv /\ [Next]_vars => SignalInv'
<1> SUFFICES ASSUME SignalInv, [Next]_vars PROVE SignalInv'
  OBVIOUS
<1> USE DEF SignalInv
<1>1. CASE UNCHANGED vars
  BY <1>1 DEF vars, signals, Flags, ReadableSignalled, IsReadable
<1>2. CASE Begin
  BY <1>2 DEF Begin, signals, Flags, ReadableSignalled, IsReadable
<1>3. ASSUME NEW n \in 1..MaxItems, Put(n) PROVE SignalInv'
  <2>1. size' = size /\ error' = error
    BY <1>3 DEF Put
  <2>2. CASE IsWritable /\ used' = used + n /\ Notify(used, used + n, size)
    <3>1. ~error /\ used + n \in Nat
      BY <2>2 DEF IsWritable, Flags
    <3>2. readable' \in BOOLEAN /\ ReadableSignalled'
      BY <2>1, <2>2, <3>1, NotifyReadable DEF Flags
    <3> QED BY <2>1, <2>2, <3>1, <3>2 DEF Flags
  <2>3. CASE UNCHANGED <<used, signals>>
    BY <2>1, <2>3 DEF signals, Flags, ReadableSignalled, IsReadable
  <2> QED BY <1>3, <2>2, <2>3 DEF Put
<1>4. ASSUME NEW n \in 0..MaxItems, Drain(n) PROVE SignalInv'
  <2>1. size' = size /\ error' = error /\ Notify(used, used', size)
    BY <1>4 DEF Drain
  <2>2. used' \in Nat /\ (error => used' = 0)
    BY <1>4, FifoBufferAssumption DEF Drain, Flags
  <2>3. readable' \in BOOLEAN /\ ReadableSignalled'
    BY <2>1, <2>2, NotifyReadable DEF Flags
  <2> QED BY <2>1, <2>2, <2>3 DEF Flags
<1>5. ASSUME NEW n \in ResizeTo, NEW preserve \in BOOLEAN, Resize(n, preserve)
      PROVE SignalInv'
  <2>1. size' = n /\ error' = error /\ Notify(used, used', n) /\ n \in Nat \ {0}
    BY <1>5, FifoBufferAssumption DEF Resize
  <2>2. used' \in Nat /\ (error => used' = 0)
    BY <1>5 DEF Resize, Flags
  <2>3. readable' \in BOOLEAN /\ ReadableSignalled'
    BY <2>1, <2>2, NotifyReadable
  <2> QED BY <2>1, <2>2, <2>3 DEF Flags
<1>6. CASE SetError
  <2>1. size' = size /\ used' = 0 /\ error' = TRUE
    BY <1>6 DEF SetError
  <2>2. readable' = FALSE
    <3>1. readable' = IF IsReadable THEN FALSE ELSE readable
      BY <1>6 DEF SetError
    <3>2. readable \in BOOLEAN /\ (readable <=> IsReadable)
      BY DEF Flags, ReadableSignalled
    <3> QED BY <3>1, <3>2
  <2>3. ~IsReadable'
    BY <2>1 DEF IsReadable
  <2> QED BY <2>1, <2>2, <2>3 DEF Flags, ReadableSignalled
<1>7. CASE ClearError
  <2>1. error' = FALSE /\ UNCHANGED <<size, used, readable>>
    BY <1>7 DEF ClearError
  <2>2. IsReadable' <=> used > 0
    BY <2>1 DEF IsReadable
  <2>3. IsReadable <=> used > 0 /\ ~error
    BY DEF IsReadable
  <2>4. used > 0 => ~error
    BY DEF Flags
  <2>5. ReadableSignalled'
    BY <2>1, <2>2, <2>3, <2>4 DEF ReadableSignalled
  <2> QED BY <2>1, <2>5 DEF Flags
<1>8. ASSUME NEW b \in BOOLEAN, SetEOF(b) PROVE SignalInv'
  BY <1>8 DEF SetEOF, Flags, ReadableSignalled, IsReadable
<1>9. CASE LockTwice
  BY <1>9, LockTwiceIs DEF Relock, signals, Flags, ReadableSignalled, IsReadable
<1> QED BY <1>1, <1>2, <1>3, <1>4, <1>5, <1>6, <1>7, <1>8, <1>9 DEF Next

(* fifo_buffer.h, notify() and setError(): the reader's last signal is     *)
(* right after any sequence of calls, resize() included.                   *)
THEOREM SignalRight == Spec => []ReadableSignalled
<1>1. Spec => []SignalInv
  BY InitSignal, NextSignal, PTL DEF Spec
<1> QED BY <1>1, PTL DEF SignalInv

(* Whenever there is room again the writer's last signal says so.          *)
LEMMA RoomStep ==
  ASSUME SignalInv, Next, ~IsWritable, IsWritable', size' = size
  PROVE  writable'
<1>1. /\ size \in Nat \ {0} /\ used \in Nat
      /\ used' # size /\ ~error' /\ ~eof'
  BY DEF SignalInv, Flags, IsWritable
<1>2. ASSUME used = size, used' < size, Notify(used, used', size)
      PROVE  writable'
  BY <1>1, <1>2 DEF Notify
<1>3. CASE UNCHANGED <<used, error, eof>>
  BY <1>3 DEF IsWritable
<1>4. ASSUME NEW n \in 1..MaxItems, Put(n) PROVE writable'
  <2>1. UNCHANGED <<used, error, eof>>
    BY <1>4 DEF Put
  <2> QED BY <2>1, <1>3
<1>5. ASSUME NEW n \in 0..MaxItems, Drain(n) PROVE writable'
  <2>1. Notify(used, used', size) /\ UNCHANGED <<error, eof>>
    BY <1>5 DEF Drain
  <2>2. used = size
    BY <2>1 DEF IsWritable
  <2>3. n \in Nat
    BY FifoBufferAssumption
  <2>4. used' < size
    BY <1>1, <1>5, <2>2, <2>3 DEF Drain
  <2> QED BY <1>2, <2>1, <2>2, <2>4
<1>6. ASSUME NEW n \in ResizeTo, NEW preserve \in BOOLEAN, Resize(n, preserve)
      PROVE  writable'
  <2>1. Notify(used, used', size) /\ UNCHANGED <<error, eof>>
    BY <1>6 DEF Resize
  <2>2. used' = used \/ used' = 0
    BY <1>6 DEF Resize
  <2>3. used = size
    BY <2>1 DEF IsWritable
  <2> QED BY <1>1, <1>2, <2>1, <2>2, <2>3
<1>7. CASE SetError
  BY <1>1, <1>7 DEF SetError
<1>8. CASE ClearError
  BY <1>1, <1>8 DEF ClearError
<1>9. ASSUME NEW b \in BOOLEAN, SetEOF(b) PROVE writable'
  BY <1>1, <1>9 DEF SetEOF
<1>10. CASE Begin \/ LockTwice
  BY <1>3, <1>10, LockTwiceIs DEF Begin, Relock
<1> QED BY <1>4, <1>5, <1>6, <1>7, <1>8, <1>9, <1>10 DEF Next

(* fifo_buffer.h, notify(), setError(false) and setEOF(false): a writer    *)
(* which follows its signals does not wait while there is room.            *)
THEOREM RoomTold == Spec => RoomSignalled
<1>1. SignalInv /\ [Next]_vars =>
        [~IsWritable /\ IsWritable' /\ size' = size => writable']_vars
  <2> SUFFICES ASSUME SignalInv, Next
               PROVE  ~IsWritable /\ IsWritable' /\ size' = size => writable'
    OBVIOUS
  <2> QED BY RoomStep
<1>2. Spec => []SignalInv
  BY InitSignal, NextSignal, PTL DEF Spec
<1> QED BY <1>1, <1>2, PTL DEF Spec, RoomSignalled

-----------------------------------------------------------------------------
(* The content. *)

(* A step that makes the buffer smaller does not cut its window: only      *)
(* resize() is one, and who calls begin() before it is on the safe side.   *)
WindowFits == size' < size => begin + used' <= size'

ContentInv ==
  /\ size \in Sizes \cup ResizeTo
  /\ mem \in Seq(Nat) /\ size <= Len(mem)
  /\ begin \in Nat /\ used \in Nat /\ begin + used <= size
  /\ puts \in Nat
  /\ queue \in Seq(Nat) /\ Len(queue) = used
  /\ \A i \in 1..used : mem[begin + i] = queue[i]

(* Sizes are positive. *)
LEMMA SizesNat == Sizes \cup ResizeTo \subseteq Nat \ {0}
  BY FifoBufferAssumption

(* The parts of ContentInv that speak of numbers only. *)
LEMMA ContentNumbers ==
  ASSUME ContentInv
  PROVE  /\ size \in Nat \ {0} /\ begin \in Nat /\ used \in Nat /\ puts \in Nat
         /\ begin + used <= size /\ size <= Len(mem)
         /\ Len(mem) \in Nat /\ DOMAIN mem = 1..Len(mem) /\ Len(queue) = used
  BY SizesNat DEF ContentInv

(* ContentInv is strong enough. *)
LEMMA ContentFaithful == ContentInv => FifoFaithful
<1> SUFFICES ASSUME ContentInv PROVE FifoFaithful
  OBVIOUS
<1>2. queue = [i \in 1..used |-> queue[i]]
  BY DEF ContentInv
<1>3. Window = [i \in 1..used |-> At(begin + i)]
  BY DEF Window
<1>4. \A i \in 1..used : At(begin + i) = queue[i]
  <2> SUFFICES ASSUME NEW i \in 1..used PROVE At(begin + i) = queue[i]
    OBVIOUS
  <2>1. begin + i \in 1..Len(mem) /\ DOMAIN mem = 1..Len(mem)
    BY ContentNumbers
  <2> QED BY <2>1 DEF ContentInv, At
<1> QED BY <1>2, <1>3, <1>4 DEF FifoFaithful

(* Nothing is in the buffer. *)
LEMMA InitContent == Init => ContentInv
<1> SUFFICES ASSUME Init PROVE ContentInv
  OBVIOUS
<1>1. size \in Nat \ {0}
  BY SizesNat DEF Init
<1>2. CASE used = 0 /\ mem = [i \in 1..size |-> Junk]
  BY <1>1, <1>2 DEF Init, ContentInv, Numbers, Junk
<1>3. CASE used = size /\ mem = Numbers(0, size)
  BY <1>1, <1>3 DEF Init, ContentInv, Numbers
<1> QED BY <1>2, <1>3 DEF Init

(* begin() moves the window and leaves what is in it.                      *)
LEMMA MovedShape ==
  ASSUME ContentInv
  PROVE  /\ Moved \in Seq(Nat) /\ Len(Moved) = Len(mem)
         /\ \A i \in 1..used : Moved[i] = queue[i]
<1>1. DOMAIN mem = 1..Len(mem) /\ Len(mem) \in Nat /\ size \in Nat
  BY ContentNumbers
<1>2. \A i \in DOMAIN mem : Moved[i] \in Nat
  <2>1. \A i \in DOMAIN mem : mem[i] \in Nat
    BY <1>1 DEF ContentInv
  <2>2. \A i : At(i) \in Nat
    BY <2>1 DEF At, Junk
  <2> QED BY <2>1, <2>2 DEF Moved
<1>3. Moved = [i \in 1..Len(mem) |-> Moved[i]]
  BY <1>1 DEF Moved
<1>4. Moved \in Seq(Nat) /\ Len(Moved) = Len(mem)
  BY <1>1, <1>2, <1>3
<1>5. ASSUME NEW i \in 1..used PROVE Moved[i] = queue[i]
  <2>1. i \in DOMAIN mem /\ begin + i \in DOMAIN mem
    BY <1>1 DEF ContentInv
  <2>2. CASE begin = 0
    BY <2>1, <2>2 DEF Moved, ContentInv
  <2>3. CASE begin # 0
    BY <2>1, <2>3 DEF Moved, At, ContentInv
  <2> QED BY <2>2, <2>3
<1> QED BY <1>4, <1>5

(* Concatenation, item by item. *)
LEMMA ConcatShape ==
  ASSUME NEW q \in Seq(Nat), NEW r \in Seq(Nat)
  PROVE  /\ q \o r \in Seq(Nat) /\ Len(q \o r) = Len(q) + Len(r)
         /\ \A i \in 1..Len(q) : (q \o r)[i] = q[i]
         /\ \A i \in 1..Len(r) : (q \o r)[Len(q) + i] = r[i]
  OBVIOUS

(* What is left after n items were taken. *)
LEMMA RestShape ==
  ASSUME NEW q \in Seq(Nat), NEW n \in 0..Len(q)
  PROVE  LET rest == SubSeq(q, n + 1, Len(q))
         IN  /\ rest \in Seq(Nat) /\ Len(rest) = Len(q) - n
             /\ \A i \in 1..Len(q) - n : rest[i] = q[n + i]
<1> DEFINE rest == SubSeq(q, n + 1, Len(q))
<1>1. /\ n + 1 \in Int /\ Len(q) \in Int
      /\ \A i \in n + 1..Len(q) : q[i] \in Nat
  OBVIOUS
<1>2. /\ rest \in Seq(Nat)
      /\ Len(rest) = IF n + 1 <= Len(q) THEN Len(q) - (n + 1) + 1 ELSE 0
      /\ \A i \in 1..Len(q) - (n + 1) + 1 : rest[i] = q[(n + 1) + i - 1]
  BY ONLY <1>1, SubSeqProperties
<1> HIDE DEF rest
<1>3. Len(rest) = Len(q) - n
  BY <1>2
<1>4. ASSUME NEW i \in 1..Len(q) - n PROVE rest[i] = q[n + i]
  <2>1. i \in 1..Len(q) - (n + 1) + 1 /\ (n + 1) + i - 1 = n + i
    OBVIOUS
  <2> QED BY <2>1, <1>2
<1> QED BY <1>2, <1>3, <1>4 DEF rest

(* The items put in at one time are numbered in order. *)
LEMMA NumbersShape ==
  ASSUME NEW from \in Nat, NEW n \in Nat
  PROVE  /\ Numbers(from, n) \in Seq(Nat) /\ Len(Numbers(from, n)) = n
         /\ \A i \in 1..n : Numbers(from, n)[i] = from + i
<1>1. \A i \in 1..n : from + i \in Nat
  OBVIOUS
<1> QED BY <1>1 DEF Numbers

(* begin() + used(), then advance(n). *)
LEMMA PutContent ==
  ASSUME ContentInv, NEW n \in 1..MaxItems, Put(n)
  PROVE  ContentInv'
<1>0. n \in Nat \ {0}
  BY FifoBufferAssumption
<1>1. n <= size - used /\ used + n <= size
  BY <1>0, ContentNumbers DEF Put
<1>2. /\ mem' = [i \in 1..Len(mem) |-> IF i \in used + 1..used + n
                                       THEN puts + i - used ELSE Moved[i]]
      /\ begin' = 0 /\ puts' = puts + n /\ size' = size
  BY ContentNumbers DEF Put
<1>3. \A i \in 1..Len(mem) : Moved[i] \in Nat
  BY MovedShape, ContentNumbers
<1>4. mem' \in Seq(Nat) /\ Len(mem') = Len(mem)
  <2>1. \A i \in 1..Len(mem) :
          (IF i \in used + 1..used + n THEN puts + i - used ELSE Moved[i]) \in Nat
    BY <1>0, <1>3, ContentNumbers
  <2> QED BY <1>2, <2>1, ContentNumbers
<1>5. \A i \in 1..used : mem'[i] = queue[i]
  <2> SUFFICES ASSUME NEW i \in 1..used PROVE mem'[i] = queue[i]
    OBVIOUS
  <2>1. i \in 1..Len(mem) /\ i \notin used + 1..used + n
    BY <1>0, ContentNumbers
  <2> QED BY <1>2, <2>1, MovedShape
<1>6. CASE used' = used + n /\ queue' = queue \o Numbers(puts, n)
  <2>1. queue \in Seq(Nat) /\ Len(queue) = used
    BY DEF ContentInv
  <2>2. /\ Numbers(puts, n) \in Seq(Nat) /\ Len(Numbers(puts, n)) = n
        /\ \A i \in 1..n : Numbers(puts, n)[i] = puts + i
    BY <1>0, NumbersShape, ContentNumbers
  <2>3. /\ queue' \in Seq(Nat) /\ Len(queue') = used + n
        /\ \A i \in 1..used : queue'[i] = queue[i]
        /\ \A i \in 1..n : queue'[used + i] = Numbers(puts, n)[i]
    <3> DEFINE r == Numbers(puts, n)
    <3> HIDE DEF r
    <3>1. queue' = queue \o r /\ r \in Seq(Nat) /\ Len(r) = n
      BY <1>6, <2>2 DEF r
    <3>2. /\ queue \o r \in Seq(Nat) /\ Len(queue \o r) = Len(queue) + Len(r)
          /\ \A i \in 1..Len(queue) : (queue \o r)[i] = queue[i]
          /\ \A i \in 1..Len(r) : (queue \o r)[Len(queue) + i] = r[i]
      BY ONLY <2>1, <3>1, ConcatShape
    <3>3. \A i \in 1..n : queue'[used + i] = r[i]
      BY <3>1, <3>2, <2>1
    <3> QED BY <2>1, <3>1, <3>2, <3>3 DEF r
  <2>4. ASSUME NEW i \in 1..used + n PROVE mem'[i] = queue'[i]
    <3>1. CASE i \in 1..used
      BY <1>5, <2>3, <3>1
    <3>2. CASE i \notin 1..used
      <4> DEFINE j == i - used
      <4>1. i \in used + 1..used + n /\ i \in 1..Len(mem) /\ j \in 1..n /\ i = used + j
        BY <1>0, <1>1, <3>2, ContentNumbers
      <4>2. mem'[i] = puts + i - used
        BY <1>2, <4>1
      <4>3. queue'[used + j] = puts + j
        BY <2>2, <2>3, <4>1
      <4>4. puts + i - used = puts + j
        BY <4>1, ContentNumbers
      <4> QED BY <4>1, <4>2, <4>3, <4>4
    <3> QED BY <3>1, <3>2
  <2>5. /\ size' \in Sizes \cup ResizeTo /\ size' <= Len(mem') /\ begin' \in Nat
        /\ used' \in Nat /\ begin' + used' <= size' /\ puts' \in Nat
    BY <1>0, <1>1, <1>2, <1>4, <1>6, ContentNumbers DEF ContentInv
  <2>6. ASSUME NEW i \in 1..used' PROVE mem'[begin' + i] = queue'[i]
    <3>1. i \in 1..used + n /\ begin' + i = i
      BY <1>2, <1>6, <1>0, ContentNumbers
    <3> QED BY <3>1, <2>4
  <2> QED BY <1>4, <1>6, <2>3, <2>5, <2>6 DEF ContentInv
<1>7. CASE UNCHANGED <<used, queue>>
  <2>1. /\ size' \in Sizes \cup ResizeTo /\ size' <= Len(mem') /\ begin' \in Nat
        /\ used' \in Nat /\ begin' + used' <= size' /\ puts' \in Nat
        /\ queue' \in Seq(Nat) /\ Len(queue') = used'
    BY <1>0, <1>1, <1>2, <1>4, <1>7, ContentNumbers DEF ContentInv
  <2>2. ASSUME NEW i \in 1..used' PROVE mem'[begin' + i] = queue'[i]
    <3>1. i \in 1..used /\ begin' + i = i /\ queue' = queue
      BY <1>2, <1>7, ContentNumbers
    <3> QED BY <3>1, <1>5
  <2> QED BY <1>4, <2>1, <2>2 DEF ContentInv
<1> QED BY <1>6, <1>7 DEF Put

(* drain: the window moves, or starts anew when it is empty. *)
LEMMA DrainContent ==
  ASSUME ContentInv, NEW n \in 0..MaxItems, Drain(n)
  PROVE  ContentInv'
<1>0. n \in Nat
  BY FifoBufferAssumption
<1>1. UNCHANGED <<mem, size, puts>>
  BY DEF Drain
<1>2. CASE n = 0 \/ n >= used
  <2>1. begin' = 0 /\ used' = 0 /\ queue' = <<>>
    BY <1>2 DEF Drain, DrainedBegin
  <2>2. /\ size' \in Sizes \cup ResizeTo /\ mem' \in Seq(Nat) /\ size' <= Len(mem')
        /\ 0 + 0 <= size' /\ puts' \in Nat
    BY <1>1, ContentNumbers DEF ContentInv
  <2> QED BY <2>1, <2>2 DEF ContentInv
<1>3. CASE ~(n = 0 \/ n >= used)
  <2>1. /\ begin' = begin + n /\ used' = used - n
        /\ queue' = SubSeq(queue, n + 1, Len(queue))
    BY <1>3, Zenon DEF Drain, DrainedBegin
  <2>2. queue \in Seq(Nat) /\ Len(queue) = used /\ n \in 0..Len(queue)
    BY <1>0, <1>3, ContentNumbers DEF ContentInv
  <2>3. /\ queue' \in Seq(Nat) /\ Len(queue') = used - n
        /\ \A i \in 1..used - n : queue'[i] = queue[n + i]
    BY <2>1, <2>2, RestShape
  <2>4. ASSUME NEW i \in 1..used - n
        PROVE  mem[begin + n + i] = queue[n + i]
    <3>1. n + i \in 1..used /\ begin + (n + i) = begin + n + i
      BY <1>0, <2>2, ContentNumbers
    <3> QED BY <3>1 DEF ContentInv
  <2>5. /\ size' \in Sizes \cup ResizeTo /\ mem' \in Seq(Nat) /\ size' <= Len(mem')
        /\ begin' \in Nat /\ used' \in Nat /\ begin' + used' <= size' /\ puts' \in Nat
    BY <1>0, <1>1, <2>1, <2>2, ContentNumbers DEF ContentInv
  <2>6. \A i \in 1..used' : mem'[begin' + i] = queue'[i]
    BY <1>1, <2>1, <2>3, <2>4
  <2> QED BY <2>1, <2>3, <2>5, <2>6 DEF ContentInv
<1> QED BY <1>2, <1>3

(* resize, where it does not cut the window. *)
LEMMA ResizeContent ==
  ASSUME WindowFits, ContentInv, NEW n \in ResizeTo, NEW preserve \in BOOLEAN,
         Resize(n, preserve)
  PROVE  ContentInv'
<1>1. /\ size \in Nat /\ n \in Nat /\ size <= Len(mem) /\ Len(mem) \in Nat
      /\ DOMAIN mem = 1..Len(mem)
      /\ size' = n /\ mem' = Resized(n, preserve) /\ UNCHANGED <<begin, puts>>
  BY SizesNat DEF Resize, ContentInv
<1>5. used' \in Nat /\ begin' + used' <= size'
  <2>1. begin \in Nat /\ used \in Nat /\ begin + used <= size
    BY DEF ContentInv
  <2>2. used' = 0 \/ used' = used
    BY DEF Resize
  <2>3. used' \in Nat /\ used' <= used
    BY <2>1, <2>2
  <2>4. begin' = begin /\ size' = n
    BY <1>1
  <2> DEFINE left == used'
  <2>7. left \in Nat /\ left <= used /\ size \in Nat /\ n \in Nat
    BY <1>1, <2>3
  <2>8. n < size => begin + left <= n
    BY <2>4 DEF WindowFits
  <2> HIDE DEF left
  <2>9. begin + left <= n
    BY ONLY <2>1, <2>7, <2>8
  <2> USE DEF left
  <2> QED BY <2>3, <2>4, <2>9
<1>2. /\ mem' \in Seq(Nat) /\ n <= Len(mem')
      /\ preserve => \A i \in 1..size : mem'[i] = mem[i]
  <2>1. CASE n <= Len(mem)
    BY <1>1, <2>1 DEF Resized, ContentInv
  <2>2. CASE n > Len(mem)
    <3>1. mem' = [i \in 1..n |-> IF preserve /\ i <= size THEN At(i) ELSE Junk]
      BY <1>1, <2>2 DEF Resized
    <3>2. \A i \in 1..n : At(i) \in Nat
      BY <1>1 DEF At, Junk, ContentInv
    <3>3. mem' \in Seq(Nat) /\ Len(mem') = n
      BY <1>1, <3>1, <3>2 DEF Junk
    <3>4. preserve => \A i \in 1..size : mem'[i] = mem[i]
      BY <1>1, <2>2, <3>1 DEF At, ContentInv
    <3> QED BY <1>1, <3>3, <3>4
  <2> QED BY <1>1, <2>1, <2>2
<1>3. CASE preserve
  <2>1. used' = used /\ queue' = queue
    BY <1>3 DEF Resize
  <2>2. \A i \in 1..used : begin + i \in 1..size
    BY <1>1 DEF ContentInv
  <2>3. \A i \in 1..used : mem'[begin + i] = queue[i]
    BY <1>2, <1>3, <2>2 DEF ContentInv
  <2> QED BY <1>1, <1>2, <1>5, <2>1, <2>3 DEF ContentInv
<1>4. CASE ~preserve
  <2>1. used' = 0 /\ queue' = <<>>
    BY <1>4 DEF Resize
  <2> QED BY <1>1, <1>2, <1>5, <2>1 DEF ContentInv
<1> QED BY <1>3, <1>4

(* Every step, as long as no resize cuts the window. *)
LEMMA NextContent == ContentInv /\ [Next]_vars /\ [WindowFits]_vars => ContentInv'
<1> SUFFICES ASSUME ContentInv, [Next]_vars, [WindowFits]_vars PROVE ContentInv'
  OBVIOUS
<1>1. CASE UNCHANGED <<mem, size, begin, used, puts, queue>>
  BY <1>1 DEF ContentInv
<1>2. CASE Begin
  <2>1. mem' = Moved /\ begin' = 0 /\ UNCHANGED <<size, used, puts, queue>>
    BY <1>2 DEF Begin
  <2> QED BY <2>1, MovedShape, SizesNat DEF ContentInv
<1>3. CASE SetError
  BY <1>3, SizesNat DEF SetError, ContentInv
<1>4. CASE UNCHANGED vars \/ ClearError \/ (\E b \in BOOLEAN : SetEOF(b)) \/ LockTwice
  BY <1>1, <1>4, LockTwiceIs DEF vars, ClearError, SetEOF, Relock
<1>5. ASSUME NEW n \in ResizeTo, NEW preserve \in BOOLEAN, Resize(n, preserve)
      PROVE  ContentInv'
  <2>1. CASE WindowFits
    BY <1>5, <2>1, ResizeContent
  <2>2. CASE UNCHANGED vars
    BY <1>4, <2>2
  <2> QED BY <2>1, <2>2
<1> QED BY <1>2, <1>3, <1>4, <1>5, PutContent, DrainContent DEF Next

(* fifo_buffer.h: what the buffer holds is what was put in and not         *)
(* drained, whatever sizes it is made with and resized to, larger or       *)
(* smaller, as long as no resize() ends before its window does.            *)
THEOREM ContentKept == Spec /\ [][WindowFits]_vars => []FifoFaithful
<1>1. Spec /\ [][WindowFits]_vars => []ContentInv
  BY InitContent, NextContent, PTL DEF Spec
<1> QED BY <1>1, ContentFaithful, PTL
=============================================================================
