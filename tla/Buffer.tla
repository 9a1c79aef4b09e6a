-------------------------------- MODULE Buffer --------------------------------
(***************************************************************************)
(* src/epoll_server/buffer.h: an array with a capacity, on memory of its   *)
(* own or of its caller.  The model has several Buffer objects and the heap*)
(* they take their memory from, for what can go wrong is between them: two *)
(* that delete the same memory, or none that does, or one that still points*)
(* to what another has deleted.                                            *)
(***************************************************************************)
EXTENDS Integers, Sequences

CONSTANTS
  Bufs,       \* the Buffer objects
  Blocks,     \* bound: the addresses new[] returns
  Null,       \* the null pointer
  CallerMem,  \* arrays of the caller
  Items,      \* what is stored
  Zero,       \* the item of which every byte is 0
  MaxLen      \* bound: the length of a Buffer

ASSUME BufferAssumption ==
  /\ Blocks \cap CallerMem = {} /\ Null \notin Blocks \cup CallerMem
  /\ Zero \in Items
  /\ MaxLen \in Nat \ {0}

(* Memory nothing was stored in, or that was deleted: it may read as       *)
(* anything.                                                               *)
CONSTANT Junk
ASSUME JunkAssumption == Junk \notin Items

VARIABLES
  live,       \* the objects that exist
  buf,        \* their _ptr, _capacity, _used and _ownMem
  memory,     \* the heap and the caller's arrays; <<>> is not allocated
  content     \* what each object's user has stored: not in the code

vars == <<live, buf, memory, content>>

Addresses == Blocks \cup CallerMem
Fill(n) == [i \in 1..n |-> Junk]
Arrays(n) == [1..n -> Items]

(* A Buffer of no memory: what is left of one that was moved away.         *)
Empty == [ptr |-> Null, capacity |-> 0, used |-> 0, ownMem |-> FALSE]

FreeBlocks == {p \in Blocks : memory[p] = <<>>}
(* Where new[n] may be, or a null pointer where the code asks for nothing. *)
NewPtr(n) == IF n = 0 THEN {Null} ELSE FreeBlocks

(* Memory m with the array s at p, with p deleted. *)
With(m, p, s)  == IF p = Null THEN m ELSE [m EXCEPT ![p] = s]
Without(m, p)  == IF p = Null THEN m ELSE [m EXCEPT ![p] = <<>>]
Deleted(m, b)  == IF buf[b].ownMem THEN Without(m, buf[b].ptr) ELSE m

(* The first n items at p; what is beyond the array is not defined.        *)
Read(m, p, n) ==
  [i \in 1..n |-> IF p # Null /\ i \in DOMAIN m[p] THEN m[p][i] ELSE Junk]

Overwritten(s, from, new) ==
  [i \in DOMAIN s |-> IF i - from \in DOMAIN new THEN new[i - from] ELSE s[i]]

Init ==
  /\ live = {}
  /\ buf = [b \in Bufs |-> Empty]
  /\ content = [b \in Bufs |-> <<>>]
  /\ \E n \in 1..MaxLen : memory \in
       {[p \in Addresses |-> IF p \in CallerMem THEN s ELSE <<>>] : s \in Arrays(n)}

-----------------------------------------------------------------------------
(* Construction, assignment and destruction.                               *)

(* Buffer(length) *)
Construct(b, n) ==
  /\ b \notin live
  /\ \E p \in NewPtr(n) :
       /\ buf' = [buf EXCEPT ![b] = [ptr |-> p, capacity |-> n, used |-> n, ownMem |-> TRUE]]
       /\ memory' = With(memory, p, Fill(n))
  /\ live' = live \cup {b}
  /\ content' = [content EXCEPT ![b] = Fill(n)]

(* Buffer(T*, length), on an array that no other Buffer is on. *)
ConstructOn(b, p) ==
  /\ b \notin live
  /\ \A o \in live : buf[o].ptr # p
  /\ buf' = [buf EXCEPT ![b] = [ptr |-> p, capacity |-> Len(memory[p]),
                                used |-> Len(memory[p]), ownMem |-> FALSE]]
  /\ live' = live \cup {b}
  /\ content' = [content EXCEPT ![b] = memory[p]]
  /\ UNCHANGED memory

(* Buffer(const T*, length) *)
ConstructFrom(b, s) ==
  /\ b \notin live
  /\ \E p \in NewPtr(Len(s)) :
       /\ buf' = [buf EXCEPT ![b] = [ptr |-> p, capacity |-> Len(s),
                                     used |-> Len(s), ownMem |-> TRUE]]
       /\ memory' = With(memory, p, s)
  /\ live' = live \cup {b}
  /\ content' = [content EXCEPT ![b] = s]

(* The copy constructor: room for what is used, not for the capacity. *)
CopyConstruct(b, o) ==
  /\ b \notin live /\ o \in live
  /\ LET n == buf[o].used
     IN  \E p \in NewPtr(n) :
           /\ buf' = [buf EXCEPT ![b] = [ptr |-> p, capacity |-> n, used |-> n, ownMem |-> TRUE]]
           /\ memory' = With(memory, p, Read(memory, buf[o].ptr, n))
  /\ live' = live \cup {b}
  /\ content' = [content EXCEPT ![b] = content[o]]

(* Mutant: the source keeps its pointer and what it says of it. *)
MovedKept(o) == buf[o]

(* What the move leaves of its source. *)
Moved(o) == Empty

MoveConstruct(b, o) ==
  /\ b \notin live /\ o \in live
  /\ buf' = [buf EXCEPT ![b] = buf[o], ![o] = Moved(o)]
  /\ live' = live \cup {b}
  /\ content' = [content EXCEPT ![b] = content[o], ![o] = <<>>]
  /\ UNCHANGED memory

(* operator=(const Buffer&): copies, swaps with the copy, destroys it.     *)
CopyAssign(b, o) ==
  /\ {b, o} \subseteq live /\ b # o
  /\ LET n == buf[o].used
     IN  \E p \in NewPtr(n) :
           /\ buf' = [buf EXCEPT ![b] = [ptr |-> p, capacity |-> n, used |-> n, ownMem |-> TRUE]]
           /\ memory' = Deleted(With(memory, p, Read(memory, buf[o].ptr, n)), b)
  /\ content' = [content EXCEPT ![b] = content[o]]
  /\ UNCHANGED live

(* operator=(Buffer&&), which a Buffer moved to itself does not survive.   *)
MoveAssign(b, o) ==
  /\ {b, o} \subseteq live
  /\ memory' = Deleted(memory, b)
  /\ buf' = [buf EXCEPT ![b] = buf[o], ![o] = Moved(o)]
  /\ content' = [content EXCEPT ![b] = content[o], ![o] = <<>>]
  /\ UNCHANGED live

Swap(b, o) ==
  /\ {b, o} \subseteq live
  /\ buf' = [buf EXCEPT ![b] = buf[o], ![o] = buf[b]]
  /\ content' = [content EXCEPT ![b] = content[o], ![o] = content[b]]
  /\ UNCHANGED <<live, memory>>

Destroy(b) ==
  /\ b \in live
  /\ live' = live \ {b}
  /\ memory' = Deleted(memory, b)
  /\ buf' = [buf EXCEPT ![b] = Empty]
  /\ content' = [content EXCEPT ![b] = <<>>]

-----------------------------------------------------------------------------
(* Operations on one Buffer.  Those that may have to allocate throw, and   *)
(* change nothing, when the memory is the caller's.                        *)

(* resize(n, preserve): the capacity only grows. *)
Resized(b, n, preserve, p) ==
  IF n <= buf[b].capacity
  THEN [m |-> memory, r |-> [buf[b] EXCEPT !.used = n]]
  ELSE [m |-> With(Deleted(memory, b), p,
                   Overwritten(Fill(n), 0,
                     IF preserve THEN Read(memory, buf[b].ptr, buf[b].used) ELSE <<>>)),
        r |-> [buf[b] EXCEPT !.ptr = p, !.capacity = n, !.used = n]]

GrowPtr(b, n) == NewPtr(IF n <= buf[b].capacity THEN 0 ELSE n)

Resize(b, n, preserve) ==
  /\ b \in live /\ buf[b].ownMem
  /\ \E p \in GrowPtr(b, n) :
       /\ buf' = [buf EXCEPT ![b] = Resized(b, n, preserve, p).r]
       /\ memory' = Resized(b, n, preserve, p).m
  /\ content' = [content EXCEPT ![b] =
       [i \in 1..n |-> IF preserve /\ i \in DOMAIN content[b] THEN content[b][i] ELSE Junk]]
  /\ UNCHANGED live

Cut(u, n) == IF n < u THEN n ELSE u

SetCapacity(b, n, preserve) ==
  /\ b \in live /\ buf[b].ownMem
  /\ IF n = buf[b].capacity THEN UNCHANGED <<buf, memory, content>>
     ELSE LET u == Cut(buf[b].used, n)
          IN  /\ \E p \in NewPtr(n) :
                   /\ buf' = [buf EXCEPT ![b] = [@ EXCEPT !.ptr = p, !.capacity = n, !.used = u]]
                   /\ memory' = With(Deleted(memory, b), p,
                        Overwritten(Fill(n), 0,
                          IF preserve THEN Read(memory, buf[b].ptr, u) ELSE <<>>))
              /\ content' = [content EXCEPT ![b] =
                   [i \in 1..u |-> IF preserve THEN content[b][i] ELSE Junk]]
  /\ UNCHANGED live

(* assign(s, n), of n > 0 items that are not the Buffer's own. *)
Assign(b, s) ==
  /\ b \in live /\ s # <<>>
  /\ Len(s) > buf[b].capacity => buf[b].ownMem
  /\ \E p \in GrowPtr(b, Len(s)) :
       LET new == Resized(b, Len(s), FALSE, p)
       IN  /\ buf' = [buf EXCEPT ![b] = new.r]
           /\ memory' = With(new.m, new.r.ptr, Overwritten(new.m[new.r.ptr], 0, s))
  /\ content' = [content EXCEPT ![b] = s]
  /\ UNCHANGED live

(* Mutant: the items are copied behind the end, to _ptr + _used. *)
AppendAtEnd(used, n) == used + n

(* _ptr + _used - sz, with the new _used. *)
AppendAt(used, n) == used

(* append(s, n), append(T) and append(const Buffer&) of another one.       *)
AppendItems(b, s) ==
  /\ b \in live /\ buf[b].ownMem /\ s # <<>>
  /\ buf[b].used + Len(s) <= MaxLen
  /\ \E p \in GrowPtr(b, buf[b].used + Len(s)) :
       LET new == Resized(b, buf[b].used + Len(s), TRUE, p)
       IN  /\ buf' = [buf EXCEPT ![b] = new.r]
           /\ memory' = With(new.m, new.r.ptr,
                Overwritten(new.m[new.r.ptr], AppendAt(buf[b].used, Len(s)), s))
  /\ content' = [content EXCEPT ![b] = @ \o s]
  /\ UNCHANGED live

AppendOther(b, o) ==
  /\ o \in live \ {b}
  /\ AppendItems(b, Read(memory, buf[o].ptr, buf[o].used))

(* append(const Buffer&) of the Buffer itself: begin() is taken before the *)
(* resize, which deletes what it points to when the memory has to grow.    *)
AppendSelf(b) ==
  /\ b \in live /\ buf[b].ownMem /\ buf[b].used > 0
  /\ 2 * buf[b].used <= MaxLen
  /\ LET u == buf[b].used
         grows == 2 * u > buf[b].capacity
     IN  /\ \E p \in GrowPtr(b, 2 * u) :
              LET new == Resized(b, 2 * u, TRUE, p)
                  s == IF grows THEN Fill(u) ELSE Read(memory, buf[b].ptr, u)
              IN  /\ buf' = [buf EXCEPT ![b] = new.r]
                  /\ memory' = With(new.m, new.r.ptr, Overwritten(new.m[new.r.ptr], u, s))
         /\ content' = [content EXCEPT ![b] = @ \o (IF grows THEN Fill(u) ELSE @)]
  /\ UNCHANGED live

(* operator[], begin(): the user stores an item. *)
Store(b, i, x) ==
  /\ b \in live /\ i \in 1..buf[b].used
  /\ memory' = [memory EXCEPT ![buf[b].ptr][i] = x]
  /\ content' = [content EXCEPT ![b][i] = x]
  /\ UNCHANGED <<live, buf>>

Clear(b) ==
  /\ b \in live
  /\ memory' = With(memory, buf[b].ptr,
       Overwritten(Read(memory, buf[b].ptr, buf[b].capacity), 0,
                   [i \in 1..buf[b].used |-> Zero]))
  /\ content' = [content EXCEPT ![b] = [i \in DOMAIN @ |-> Zero]]
  /\ UNCHANGED <<live, buf>>

Strings == UNION {Arrays(n) : n \in 1..MaxLen}

Next ==
  \/ \E b \in Bufs, n \in 0..MaxLen : Construct(b, n)
  \/ \E b \in Bufs, p \in CallerMem : ConstructOn(b, p)
  \/ \E b \in Bufs, s \in Strings : ConstructFrom(b, s)
  \/ \E b, o \in Bufs : \/ CopyConstruct(b, o)
                        \/ MoveConstruct(b, o)
                        \/ CopyAssign(b, o)
                        \/ MoveAssign(b, o)
                        \/ Swap(b, o)
                        \/ AppendOther(b, o)
  \/ \E b \in Bufs : Destroy(b) \/ AppendSelf(b) \/ Clear(b)
  \/ \E b \in Bufs, n \in 1..MaxLen, preserve \in BOOLEAN : Resize(b, n, preserve)
  \/ \E b \in Bufs, n \in 0..MaxLen, preserve \in BOOLEAN : SetCapacity(b, n, preserve)
  \/ \E b \in Bufs, s \in Strings : Assign(b, s) \/ AppendItems(b, s)
  \/ \E b \in Bufs, i \in 1..MaxLen, x \in Items : Store(b, i, x)

Spec == Init /\ [][Next]_vars

-----------------------------------------------------------------------------

TypeOK ==
  /\ live \subseteq Bufs
  /\ buf \in [Bufs -> [ptr: Addresses \cup {Null}, capacity: 0..MaxLen,
                       used: 0..MaxLen, ownMem: BOOLEAN]]
  /\ \A b \in Bufs : buf[b].used <= buf[b].capacity
  /\ memory \in [Addresses -> Seq(Items \cup {Junk})]
  /\ content \in [Bufs -> Seq(Items \cup {Junk})]

(* Between two calls no memory is deleted twice, lost, or still pointed to *)
(* after it was deleted: what is allocated belongs to one Buffer, which    *)
(* knows its size and uses no more of it, through any copies, moves and    *)
(* swaps.  This does not look inside a call: one that has to grow for what *)
(* it appends to itself reads memory it has just deleted (AppendSelf).     *)
OwnedOnce ==
  /\ TypeOK
  /\ \A b \in Bufs : buf[b].ptr # Null =>
       /\ b \in live
       /\ buf[b].capacity = Len(memory[buf[b].ptr])
       /\ memory[buf[b].ptr] # <<>>
       /\ buf[b].ownMem <=> buf[b].ptr \in Blocks
  /\ \A b, o \in Bufs : buf[b].ptr = buf[o].ptr /\ buf[b].ptr # Null => b = o
  /\ \A p \in Blocks : memory[p] # <<>> => \E b \in live : buf[b].ptr = p

(* A Buffer holds what was stored in it.  (Of one that was appended to     *)
(* itself and had to grow, the second half may be anything.)               *)
ContentKept ==
  \A b \in live :
    /\ buf[b].used = Len(content[b])
    /\ \A i \in DOMAIN content[b] :
         content[b][i] # Junk => memory[buf[b].ptr][i] = content[b][i]
=============================================================================
