------------------------------ MODULE FifoBuffer ------------------------------
(***************************************************************************)
(* src/epoll_server/fifo_buffer.h on top of buffer.h: a queue of items in a*)
(* window of a Buffer's memory, with a signal to its reader and one to its *)
(* writer.  It is constructed with notify set, as echo_server.h does it.   *)
(*                                                                         *)
(* Items are put in with begin(), used() and advance(): every other way in *)
(* (write, copy, next) locks the buffer's mutex, which is not recursive, a *)
(* second time.                                                            *)
(***************************************************************************)
EXTENDS Integers, Sequences

CONSTANTS
  Sizes,      \* sizes it is constructed with
  ResizeTo,   \* sizes it is resized to
  MaxItems    \* bound: items put in, those of the constructor included

ASSUME FifoBufferAssumption ==
  /\ Sizes \subseteq Nat \ {0}
  /\ ResizeTo \subseteq Nat \ {0}      \* asserted by Buffer::resize
  /\ MaxItems \in Nat /\ \A n \in Sizes : n <= MaxItems

VARIABLES
  mem,        \* _buffer._ptr[0 .. _capacity - 1]
  size,       \* _buffer._used
  ownMem,     \* _buffer._ownMem
  begin,      \* _begin
  used,       \* _used
  eof,        \* _eof
  error,      \* _error
  stuck,      \* a call waits for the mutex it holds
  readable,   \* the last values of the two signals, at first what holds
  writable,
  puts,       \* items put in so far: they are 1, 2, ...
  queue       \* those in the buffer, as its user counts: not in the code

signals == <<readable, writable>>
vars == <<mem, size, ownMem, begin, used, eof, error, stuck, signals, puts, queue>>

(* Memory no item was stored in. *)
Junk == 0

IsReadable == used > 0 /\ ~error
IsWritable == used # size /\ ~error /\ ~eof

At(i)  == IF i \in DOMAIN mem THEN mem[i] ELSE Junk
(* What peek() and operator[] return. *)
Window == [i \in 1..used |-> At(begin + i)]

Numbers(from, n) == [i \in 1..n |-> from + i]

(* The three constructors: of memory of its own or of the caller's, empty, *)
(* or of a copy of the caller's items, full.                               *)
Init ==
  /\ size \in Sizes
  /\ \/ ownMem \in BOOLEAN /\ used = 0 /\ mem = [i \in 1..size |-> Junk]
     \/ ownMem = TRUE /\ used = size /\ mem = Numbers(0, size)
  /\ begin = 0
  /\ eof = FALSE /\ error = FALSE /\ stuck = FALSE
  /\ readable = IsReadable /\ writable = IsWritable
  /\ puts = used /\ queue = Numbers(0, used)

-----------------------------------------------------------------------------

(* Mutant: every read signals that there is nothing left. *)
NotifyEager(usedBefore, now, sz) ==
  /\ readable' = IF usedBefore = 0 /\ now > 0 THEN TRUE
                 ELSE IF usedBefore > 0 /\ now < usedBefore THEN FALSE ELSE readable
  /\ writable' = IF usedBefore = sz /\ now < sz THEN TRUE
                 ELSE IF usedBefore < sz /\ now = sz THEN FALSE ELSE writable

(* Mutant: the writer is told when the last item is gone. *)
NotifyEmptied(usedBefore, now, sz) ==
  /\ readable' = IF usedBefore = 0 /\ now > 0 THEN TRUE
                 ELSE IF usedBefore > 0 /\ now = 0 THEN FALSE ELSE readable
  /\ writable' = IF usedBefore = sz /\ now = 0 THEN TRUE
                 ELSE IF usedBefore < sz /\ now = sz THEN FALSE ELSE writable

(* notify(usedBefore), with the values of _used and of the size by then. *)
Notify(usedBefore, now, sz) ==
  /\ readable' = IF usedBefore = 0 /\ now > 0 THEN TRUE
                 ELSE IF usedBefore > 0 /\ now = 0 THEN FALSE ELSE readable
  /\ writable' = IF usedBefore = sz /\ now < sz THEN TRUE
                 ELSE IF usedBefore < sz /\ now = sz THEN FALSE ELSE writable

(* begin(): the window moved to the front. *)
Moved == [i \in DOMAIN mem |-> IF begin # 0 /\ i <= used THEN At(begin + i) ELSE mem[i]]

Begin ==
  /\ ~stuck
  /\ mem' = Moved /\ begin' = 0
  /\ UNCHANGED <<size, ownMem, used, eof, error, stuck, signals, puts, queue>>

(* A caller asks for begin(), stores n items behind the used() ones there  *)
(* and calls advance(n), which in the one thread of a reactor nobody comes *)
(* between.  That throws, with nothing changed but what begin()            *)
(* and the caller did, when the buffer is not writable.                    *)
Put(n) ==
  /\ ~stuck
  /\ n <= size - used /\ puts + n <= MaxItems
  /\ mem' = [i \in DOMAIN mem |-> IF i \in used + 1..used + n
                                  THEN puts + i - used ELSE Moved[i]]
  /\ begin' = 0
  /\ puts' = puts + n
  /\ \/ /\ IsWritable
        /\ used' = used + n
        /\ Notify(used, used + n, size)
        /\ queue' = queue \o Numbers(puts, n)
     \/ ~IsWritable /\ UNCHANGED <<used, signals, queue>>
  /\ UNCHANGED <<size, ownMem, eof, error, stuck>>

(* Mutant: _begin stays where it is. *)
DrainedInPlace(n) == begin

(* Where drain leaves the window. *)
DrainedBegin(n) == IF n = 0 \/ n >= used THEN 0 ELSE begin + n

Drain(n) ==
  /\ ~stuck
  /\ begin' = DrainedBegin(n)
  /\ used' = IF n = 0 \/ n >= used THEN 0 ELSE used - n
  /\ queue' = IF n = 0 \/ n >= used THEN <<>> ELSE SubSeq(queue, n + 1, Len(queue))
  /\ Notify(used, used', size)
  /\ UNCHANGED <<mem, size, ownMem, eof, error, stuck, puts>>

(* Buffer::resize copies what its old size covers, and only when the       *)
(* memory has to grow.                                                     *)
Resized(newSize, preserve) ==
  IF newSize <= Len(mem) THEN mem
  ELSE [i \in 1..newSize |-> IF preserve /\ i <= size THEN At(i) ELSE Junk]

(* resize(): throws when items would be lost and when the memory is not    *)
(* the buffer's own.  The window stays where it is.                        *)
Resize(newSize, preserve) ==
  /\ ~stuck
  /\ ownMem /\ (preserve => newSize >= used)
  /\ mem' = Resized(newSize, preserve)
  /\ size' = newSize
  /\ used' = IF preserve THEN used ELSE 0
  /\ queue' = IF preserve THEN queue ELSE <<>>
  /\ Notify(used, used', newSize)
  /\ UNCHANGED <<ownMem, begin, eof, error, stuck, puts>>

SetError ==
  /\ ~stuck
  /\ readable' = IF IsReadable THEN FALSE ELSE readable
  /\ writable' = IF IsWritable THEN FALSE ELSE writable
  /\ error' = TRUE /\ used' = 0 /\ queue' = <<>>
  /\ UNCHANGED <<mem, size, ownMem, begin, eof, stuck, puts>>

ClearError ==
  /\ ~stuck
  /\ error' = FALSE
  /\ writable' = IF eof THEN writable ELSE TRUE
  /\ UNCHANGED <<mem, size, ownMem, begin, used, eof, stuck, readable, puts, queue>>

SetEOF(b) ==
  /\ ~stuck
  /\ eof' = b /\ writable' = ~b
  /\ UNCHANGED <<mem, size, ownMem, begin, used, error, stuck, readable, puts, queue>>

(* A call locks the mutex again while it holds it.  From there on the      *)
(* buffer is of no use to anybody.                                         *)
Relock ==
  /\ ~stuck
  /\ stuck' = TRUE
  /\ UNCHANGED <<mem, size, ownMem, begin, used, eof, error, signals, puts, queue>>

(* peek(Buffer&) and both read()s, which call peek(). *)
ReadRelocks == IsReadable /\ Relock

(* write() and copy() of what fits, which call begin(), as advance() does  *)
(* when what is behind the window is too little.                           *)
WriteRelocks   == IsWritable /\ Relock
CopyRelocks    == IsWritable /\ Relock
AdvanceRelocks == IsWritable /\ begin > 0 /\ begin + used <= size /\ Relock

(* next() always calls begin(), and the transfers of ServerSocket call     *)
(* next() and begin() with the buffer's mutex locked.                      *)
NextRelocks    == Relock
ReceiveRelocks == Relock
SendRelocks    == Relock

LockTwice ==
  \/ ReadRelocks
  \/ WriteRelocks
  \/ CopyRelocks
  \/ AdvanceRelocks
  \/ NextRelocks
  \/ ReceiveRelocks
  \/ SendRelocks

Next ==
  \/ Begin
  \/ \E n \in 1..MaxItems : Put(n)
  \/ \E n \in 0..MaxItems : Drain(n)
  \/ \E n \in ResizeTo, preserve \in BOOLEAN : Resize(n, preserve)
  \/ SetError
  \/ ClearError
  \/ \E b \in BOOLEAN : SetEOF(b)
  \/ LockTwice

Spec == Init /\ [][Next]_vars

-----------------------------------------------------------------------------

(* What the buffer holds is what was put in and not drained, in order,     *)
(* through any sequence of drain(), begin(), advance() and resize().       *)
FifoFaithful == Window = queue

(* The reader's last signal, of notify() or setError(), tells whether      *)
(* there is something to read, after any sequence of calls.                *)
ReadableSignalled == readable <=> IsReadable

(* Nor does the writer that follows them wait while there is room: when    *)
(* the buffer drains, ends no more, or recovers from an error, the last    *)
(* signal it got says so.  (A full buffer that is resized tells nobody.)   *)
RoomSignalled ==
  [][~IsWritable /\ IsWritable' /\ size' = size => writable']_vars
=============================================================================
