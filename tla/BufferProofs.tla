----------------------------- MODULE BufferProofs -----------------------------
(***************************************************************************)
(* Proofs about Buffer, for any number of objects, any heap, any items and *)
(* any length: the memory is owned once and what was stored is kept.       *)
(*                                                                         *)
(* Both are inductive only together, and with what the source does not say *)
(* anywhere: that an object without memory has no capacity, and that one   *)
(* that is not constructed, or was destroyed, owns nothing.                *)
(***************************************************************************)
EXTENDS Buffer, SequenceTheorems, TLAPS

Values == Items \cup {Junk}
Records == [ptr: Addresses \cup {Null}, capacity: 0..MaxLen, used: 0..MaxLen,
            ownMem: BOOLEAN]
Memories == [Addresses -> Seq(Values)]

(* The Buffer r, in memory m, into which s was stored.                     *)
Good(r, m, s) ==
  /\ r.used <= r.capacity /\ r.used = Len(s)
  /\ r.ptr = Null => r.capacity = 0
  /\ r.ptr # Null =>
       /\ m[r.ptr] # <<>> /\ r.capacity = Len(m[r.ptr])
       /\ r.ownMem <=> r.ptr \in Blocks
  /\ \A i \in 1..r.used : s[i] # Junk => m[r.ptr][i] = s[i]

Shape ==
  /\ live \subseteq Bufs
  /\ buf \in [Bufs -> Records]
  /\ content \in [Bufs -> Seq(Values)]
  /\ memory \in Memories
AllGood == \A b \in Bufs : Good(buf[b], memory, content[b])
OnlyLive == \A b \in Bufs \ live : buf[b] = Empty
Distinct == \A b, o \in Bufs : buf[b].ptr = buf[o].ptr /\ buf[b].ptr # Null => b = o
NoneLost == \A p \in Blocks : memory[p] # <<>> => \E b \in live : buf[b].ptr = p
CallersArrays == \A p \in CallerMem : memory[p] # <<>> /\ Len(memory[p]) <= MaxLen

IInv ==
  /\ Shape
  /\ AllGood
  /\ OnlyLive
  /\ Distinct
  /\ NoneLost
  /\ CallersArrays

-----------------------------------------------------------------------------
(* Arrays: what new[] returns, what memcpy reads and what it writes.       *)

(* A function on 1..n is a sequence. *)
LEMMA SeqFromFunction ==
  ASSUME NEW S, NEW n \in Nat, NEW f \in [1..n -> S]
  PROVE  f \in Seq(S) /\ Len(f) = n /\ DOMAIN f = 1..n
<1>1. f \in Seq(S)
  BY SeqDef
<1>2. Len(f) \in Nat /\ DOMAIN f = 1..Len(f) /\ DOMAIN f = 1..n
  BY <1>1, LenProperties
<1> QED BY <1>1, <1>2

(* new[] returns memory nobody has stored in. *)
LEMMA FillShape ==
  ASSUME NEW n \in Nat
  PROVE  Fill(n) \in Seq(Values) /\ Len(Fill(n)) = n /\ \A i \in 1..n : Fill(n)[i] = Junk
<1>1. Fill(n) \in [1..n -> Values]
  BY DEF Fill, Values
<1> QED BY <1>1, SeqFromFunction DEF Fill

(* What is read of memory that is long enough is what it holds. *)
LEMMA ReadShape ==
  ASSUME NEW m \in Memories, NEW p \in Addresses \cup {Null}, NEW n \in Nat
  PROVE  /\ Read(m, p, n) \in Seq(Values) /\ Len(Read(m, p, n)) = n
         /\ p # Null => \A i \in 1..n : i <= Len(m[p]) => Read(m, p, n)[i] = m[p][i]
<1>1. p # Null => m[p] \in Seq(Values)
  BY DEF Memories
<1>2. p # Null => DOMAIN m[p] = 1..Len(m[p]) /\ Len(m[p]) \in Nat
  BY <1>1, LenProperties
<1>3. p # Null => \A i \in DOMAIN m[p] : m[p][i] \in Values
  BY <1>1, <1>2, ElementOfSeq
<1>4. Read(m, p, n) \in [1..n -> Values]
  BY <1>3 DEF Read, Values
<1>5. Read(m, p, n) \in Seq(Values) /\ Len(Read(m, p, n)) = n
  BY <1>4, SeqFromFunction
<1> QED BY <1>2, <1>5 DEF Read

(* memcpy changes the bytes it writes, and no length. *)
LEMMA OverwrittenShape ==
  ASSUME NEW s \in Seq(Values), NEW from \in Nat, NEW new \in Seq(Values)
  PROVE  /\ Overwritten(s, from, new) \in Seq(Values)
         /\ Len(Overwritten(s, from, new)) = Len(s)
         /\ \A i \in 1..Len(s) : Overwritten(s, from, new)[i] =
                                   IF i - from \in 1..Len(new) THEN new[i - from] ELSE s[i]
<1>1. /\ DOMAIN s = 1..Len(s) /\ Len(s) \in Nat
      /\ DOMAIN new = 1..Len(new)
  BY LenProperties
<1>2. /\ \A i \in DOMAIN s : s[i] \in Values
      /\ \A i \in DOMAIN new : new[i] \in Values
  BY <1>1, ElementOfSeq
<1>3. Overwritten(s, from, new) \in [1..Len(s) -> Values]
  BY <1>1, <1>2 DEF Overwritten
<1>4. /\ Overwritten(s, from, new) \in Seq(Values)
      /\ Len(Overwritten(s, from, new)) = Len(s)
  BY <1>1, <1>3, SeqFromFunction
<1> QED BY <1>1, <1>4 DEF Overwritten

(* Concatenation, byte by byte. *)
LEMMA Joined ==
  ASSUME NEW x \in Seq(Values), NEW y \in Seq(Values)
  PROVE  /\ x \o y \in Seq(Values) /\ Len(x \o y) = Len(x) + Len(y)
         /\ \A i \in 1..Len(x) : (x \o y)[i] = x[i]
         /\ \A i \in 1..Len(y) : (x \o y)[Len(x) + i] = y[i]
<1>1. /\ x \o y \in Seq(Values) /\ Len(x \o y) = Len(x) + Len(y)
      /\ \A i \in 1..Len(x) + Len(y) : (x \o y)[i] = IF i <= Len(x) THEN x[i] ELSE y[i - Len(x)]
  BY ConcatProperties
<1>2. Len(x) \in Nat /\ Len(y) \in Nat
  BY LenProperties
<1> QED BY <1>1, <1>2

-----------------------------------------------------------------------------
(* Steps that change one object and the memory it has or gets.             *)

(* What makes the other objects keep what they have: the new memory is     *)
(* nobody else's, and what is neither old nor new is not touched.          *)
Change(b, r, m, s) ==
  /\ Good(r, m, s)
  /\ \A p \in Addresses : p # buf[b].ptr /\ p # r.ptr => m[p] = memory[p]
  /\ r.ptr # Null => \A o \in Bufs \ {b} : buf[o].ptr # r.ptr
  /\ buf[b].ptr # r.ptr =>
       /\ buf[b].ptr \in Blocks => m[buf[b].ptr] = <<>>
       /\ buf[b].ptr \in CallerMem => m[buf[b].ptr] = memory[buf[b].ptr]
  /\ buf' = [buf EXCEPT ![b] = r]
  /\ memory' = m
  /\ content' = [content EXCEPT ![b] = s]
  /\ live' \subseteq Bufs /\ live' \ {b} = live \ {b} /\ (b \notin live' => r = Empty)

(* One object changes, and its memory with it. *)
LEMMA OneChanged ==
  ASSUME IInv, NEW b \in Bufs, NEW r \in Records, NEW m \in Memories, NEW s \in Seq(Values),
         Change(b, r, m, s)
  PROVE  IInv'
<1> USE BufferAssumption DEF Change
<1>1. Shape'
  BY DEF IInv, Shape
<1>2. /\ buf'[b] = r /\ content'[b] = s
      /\ \A o \in Bufs \ {b} : buf'[o] = buf[o] /\ content'[o] = content[o]
  BY DEF IInv, Shape
<1>3. AllGood'
  <2> SUFFICES ASSUME NEW o \in Bufs \ {b} PROVE Good(buf[o], m, content[o])
    BY <1>2 DEF AllGood
  <2>1. Good(buf[o], memory, content[o]) /\ buf[o] \in Records
    BY DEF IInv, AllGood, Shape
  <2>2. CASE buf[o].ptr = Null
    <3>1. buf[o].used = 0
      BY <2>1, <2>2 DEF Good, Records
    <3> QED BY <2>1, <2>2, <3>1 DEF Good
  <2>3. CASE buf[o].ptr # Null
    <3>1. buf[o].ptr # buf[b].ptr /\ buf[o].ptr # r.ptr
      BY <2>3 DEF IInv, Distinct
    <3>2. m[buf[o].ptr] = memory[buf[o].ptr]
      BY <2>1, <2>3, <3>1 DEF Records
    <3> QED BY <2>1, <3>2 DEF Good
  <2> QED BY <2>2, <2>3
<1>4. OnlyLive'
  BY <1>2 DEF IInv, OnlyLive
<1>5. Distinct'
  BY <1>2 DEF IInv, Distinct
<1>6. NoneLost'
  <2> SUFFICES ASSUME NEW p \in Blocks, m[p] # <<>>
               PROVE  \E o \in live' : buf'[o].ptr = p
    BY DEF NoneLost
  <2>1. CASE p = r.ptr
    <3>1. b \in live'
      BY <2>1 DEF Empty
    <3> QED BY <1>2, <2>1, <3>1
  <2>2. CASE p # r.ptr
    <3>1. p # buf[b].ptr
      BY <2>2
    <3>2. memory[p] # <<>>
      BY <2>2, <3>1 DEF Addresses
    <3>3. PICK o \in live : buf[o].ptr = p
      BY <3>2 DEF IInv, NoneLost
    <3>4. o # b /\ o \in live' /\ o \in Bufs
      BY <3>1, <3>3
    <3> QED BY <1>2, <3>3, <3>4
  <2> QED BY <2>1, <2>2
<1>7. CallersArrays'
  <2> SUFFICES ASSUME NEW p \in CallerMem PROVE m[p] # <<>> /\ Len(m[p]) <= MaxLen
    BY DEF CallersArrays
  <2>1. CASE p = r.ptr
    BY <2>1 DEF Good, Records
  <2>2. CASE p # r.ptr
    BY <2>2 DEF IInv, CallersArrays, Addresses
  <2> QED BY <2>1, <2>2
<1> QED BY <1>1, <1>3, <1>4, <1>5, <1>6, <1>7 DEF IInv

(* Where an object's memory is and what happens to it.                     *)
LEMMA WhereItIs ==
  ASSUME IInv, NEW b \in Bufs
  PROVE  /\ buf[b] \in Records /\ content[b] \in Seq(Values)
         /\ Good(buf[b], memory, content[b])
         /\ buf[b].ptr \in Addresses \cup {Null}
         /\ buf[b].used \in Nat /\ buf[b].capacity \in Nat
         /\ buf[b].ptr # Null => /\ memory[buf[b].ptr] \in Seq(Values)
                                 /\ buf[b].capacity # 0
         /\ buf[b].ownMem => buf[b].ptr \in Blocks \cup {Null}
         /\ ~buf[b].ownMem => buf[b].ptr \in CallerMem \cup {Null}
<1>1. buf[b] \in Records /\ content[b] \in Seq(Values) /\ memory \in Memories
  BY DEF IInv, Shape
<1>2. Good(buf[b], memory, content[b])
  BY DEF IInv, AllGood
<1>3. /\ buf[b].ptr \in Addresses \cup {Null}
      /\ buf[b].used \in Nat /\ buf[b].capacity \in Nat
  BY <1>1, BufferAssumption DEF Records
<1>4. buf[b].ptr # Null => memory[buf[b].ptr] \in Seq(Values) /\ buf[b].capacity # 0
  <2> SUFFICES ASSUME buf[b].ptr # Null
               PROVE  memory[buf[b].ptr] \in Seq(Values) /\ buf[b].capacity # 0
    OBVIOUS
  <2>1. memory[buf[b].ptr] \in Seq(Values)
    BY <1>1, <1>3 DEF Memories
  <2> QED BY <1>2, <2>1, EmptySeq DEF Good
<1> QED BY <1>1, <1>2, <1>3, <1>4 DEF Good, Addresses

(* Memory changes at one address. *)
LEMMA WithShape ==
  ASSUME NEW m \in Memories, NEW p \in Addresses \cup {Null}, NEW d \in Seq(Values)
  PROVE  /\ With(m, p, d) \in Memories
         /\ p # Null => With(m, p, d)[p] = d
         /\ \A q \in Addresses : q # p => With(m, p, d)[q] = m[q]
BY BufferAssumption DEF With, Memories, Addresses

(* delete[] frees what the object owns, and nothing else. *)
LEMMA DeletedShape ==
  ASSUME IInv, NEW b \in Bufs, NEW m \in Memories
  PROVE  /\ Deleted(m, b) \in Memories
         /\ \A q \in Addresses : q # buf[b].ptr => Deleted(m, b)[q] = m[q]
         /\ buf[b].ptr \in Blocks => Deleted(m, b)[buf[b].ptr] = <<>>
         /\ ~buf[b].ownMem => Deleted(m, b) = m
<1>1. <<>> \in Seq(Values)
  BY EmptySeq
<1>2. buf[b].ptr \in Blocks => buf[b].ownMem /\ buf[b].ptr # Null
  BY WhereItIs, BufferAssumption
<1> QED BY <1>1, <1>2, WhereItIs DEF Deleted, Without, Memories, Addresses

(* new[], memcpy and delete[] of the old memory: a new capacity of Len(d). *)
(* m is the memory after it, p the new array and d what is in it.          *)
Reallocate(b, p, d, s, m) ==
  /\ (p = Null /\ Len(d) = 0) \/ (p \in FreeBlocks /\ Len(d) # 0)
  /\ Len(d) <= MaxLen /\ Len(s) <= Len(d)
  /\ \A i \in 1..Len(s) : s[i] # Junk => d[i] = s[i]
  /\ p # Null => m[p] = d
  /\ \A q \in Addresses : q # p => m[q] = Deleted(memory, b)[q]
  /\ buf' = [buf EXCEPT ![b] = [ptr |-> p, capacity |-> Len(d), used |-> Len(s),
                                ownMem |-> TRUE]]
  /\ memory' = m
  /\ content' = [content EXCEPT ![b] = s]
  /\ live' = live \cup {b}

(* An object gets new memory, and deletes what it had. *)
LEMMA Reallocated ==
  ASSUME IInv, NEW b \in Bufs, NEW p, NEW d \in Seq(Values), NEW s \in Seq(Values),
         NEW m \in Memories, Reallocate(b, p, d, s, m)
  PROVE  IInv'
<1> USE BufferAssumption DEF Reallocate
<1> DEFINE r == [ptr |-> p, capacity |-> Len(d), used |-> Len(s), ownMem |-> TRUE]
<1>1. Len(d) \in Nat /\ Len(s) \in Nat
  BY LenProperties
<1>2. p \in Addresses \cup {Null} /\ (p # Null => p \in Blocks)
  BY DEF FreeBlocks, Addresses
<1>3. r \in Records
  BY <1>1, <1>2 DEF Records
<1>4. \A o \in Bufs : p # Null => buf[o].ptr # p
  BY <1>2, WhereItIs DEF Good, FreeBlocks
<1>5. /\ m \in Memories
      /\ p # Null => m[p] = d
      /\ \A q \in Addresses : q # p => m[q] = Deleted(memory, b)[q]
  OBVIOUS
<1>6. /\ \A q \in Addresses : q # buf[b].ptr => Deleted(memory, b)[q] = memory[q]
      /\ buf[b].ptr \in Blocks => Deleted(memory, b)[buf[b].ptr] = <<>>
      /\ ~buf[b].ownMem => Deleted(memory, b) = memory
  <2>1. memory \in Memories
    BY DEF IInv, Shape
  <2> QED BY <2>1, DeletedShape
<1>7. Good(r, m, s)
  <2>1. p # Null => d # <<>>
    BY EmptySeq
  <2>2. p = Null => Len(s) = 0 /\ Len(d) = 0
    BY <1>1, <1>2 DEF FreeBlocks
  <2> QED BY <1>1, <1>2, <1>5, <2>1, <2>2 DEF Good
<1>8. /\ r.ptr = p
      /\ r.ptr # Null => \A o \in Bufs \ {b} : buf[o].ptr # r.ptr
  BY <1>4
<1>9. buf[b].ptr \in CallerMem => ~buf[b].ownMem
  BY WhereItIs
<1>10. live' \subseteq Bufs /\ live' \ {b} = live \ {b} /\ (b \notin live' => r = Empty)
  BY DEF IInv, Shape
<1>11. \A q \in Addresses : q # buf[b].ptr /\ q # r.ptr => m[q] = memory[q]
  BY <1>5, <1>6, <1>8
<1>12. /\ buf[b].ptr # r.ptr /\ buf[b].ptr \in Blocks => m[buf[b].ptr] = <<>>
       /\ buf[b].ptr # r.ptr /\ buf[b].ptr \in CallerMem => m[buf[b].ptr] = memory[buf[b].ptr]
  BY <1>5, <1>6, <1>8, <1>9 DEF Addresses
<1>13. buf' = [buf EXCEPT ![b] = r] /\ memory' = m
  OBVIOUS
<1> HIDE DEF r
<1>14. Change(b, r, m, s)
  BY <1>5, <1>7, <1>8, <1>10, <1>11, <1>12, <1>13 DEF Change
<1> QED BY <1>3, <1>5, <1>14, OneChanged

(* Items are stored, or the end is moved, within the capacity.             *)
StoreInPlace(b, m, s) ==
  /\ b \in live
  /\ Len(s) <= buf[b].capacity
  /\ \A q \in Addresses : q # buf[b].ptr => m[q] = memory[q]
  /\ buf[b].ptr # Null => Len(m[buf[b].ptr]) = Len(memory[buf[b].ptr])
  /\ \A i \in 1..Len(s) : s[i] # Junk => m[buf[b].ptr][i] = s[i]
  /\ buf' = [buf EXCEPT ![b].used = Len(s)]
  /\ memory' = m
  /\ content' = [content EXCEPT ![b] = s]
  /\ live' = live

(* An object stores into the memory it has. *)
LEMMA InPlace ==
  ASSUME IInv, NEW b \in Bufs, NEW m \in Memories, NEW s \in Seq(Values),
         StoreInPlace(b, m, s)
  PROVE  IInv'
<1> USE BufferAssumption DEF StoreInPlace
<1>1. b \in Bufs
  OBVIOUS
<1> PICK r : r = [buf[b] EXCEPT !.used = Len(s)]
  OBVIOUS
<1>2. buf[b] \in Records /\ Good(buf[b], memory, content[b]) /\ Len(s) \in Nat
  BY <1>1, WhereItIs, LenProperties
<1>3. /\ r \in Records /\ r.ptr = buf[b].ptr /\ r.capacity = buf[b].capacity
      /\ r.used = Len(s) /\ r.ownMem = buf[b].ownMem
  <2>1. Len(s) \in 0..MaxLen
    BY <1>2 DEF Records
  <2> QED BY <1>2, <2>1 DEF Records
<1>4. buf' = [buf EXCEPT ![b] = r]
  BY <1>1 DEF IInv, Shape
<1>5. r.ptr # Null => m[r.ptr] # <<>>
  <2> SUFFICES ASSUME r.ptr # Null PROVE m[r.ptr] # <<>>
    OBVIOUS
  <2>1. Len(m[r.ptr]) = buf[b].capacity /\ buf[b].capacity # 0
    BY <1>1, <1>2, <1>3, WhereItIs DEF Good
  <2> QED BY <2>1, EmptySeq
<1>6. Good(r, m, s)
  BY <1>2, <1>3, <1>5 DEF Good
<1>7. r.ptr # Null => \A o \in Bufs \ {b} : buf[o].ptr # r.ptr
  BY <1>1, <1>3 DEF IInv, Distinct
<1>8. live' \subseteq Bufs /\ live' \ {b} = live \ {b} /\ (b \notin live' => r = Empty)
  BY DEF IInv, Shape
<1>9. /\ \A q \in Addresses : q # buf[b].ptr /\ q # r.ptr => m[q] = memory[q]
      /\ buf[b].ptr # r.ptr /\ buf[b].ptr \in Blocks => m[buf[b].ptr] = <<>>
      /\ buf[b].ptr # r.ptr /\ buf[b].ptr \in CallerMem => m[buf[b].ptr] = memory[buf[b].ptr]
  BY <1>3
<1>10. Change(b, r, m, s)
  BY <1>4, <1>6, <1>7, <1>8, <1>9 DEF Change
<1> QED BY <1>1, <1>3, <1>10, OneChanged

-----------------------------------------------------------------------------
(* Construction, assignment and destruction.                               *)

(* There is nothing to delete where no object is. *)
LEMMA NotLive ==
  ASSUME IInv, NEW b \in Bufs, b \notin live
  PROVE  /\ buf[b] = Empty /\ content[b] = <<>>
         /\ \A m : Deleted(m, b) = m
<1>1. buf[b] = Empty
  BY DEF IInv, OnlyLive
<1>2. content[b] \in Seq(Values) /\ Len(content[b]) = 0
  BY <1>1, WhereItIs DEF Good, Empty
<1> QED BY <1>1, <1>2, EmptySeq DEF Deleted, Empty

(* What is copied from a Buffer is what was stored in it.                  *)
LEMMA ReadContent ==
  ASSUME IInv, NEW o \in Bufs, NEW n \in Nat, n <= buf[o].used
  PROVE  /\ Read(memory, buf[o].ptr, n) \in Seq(Values)
         /\ Len(Read(memory, buf[o].ptr, n)) = n
         /\ \A i \in 1..n : content[o][i] # Junk =>
                              Read(memory, buf[o].ptr, n)[i] = content[o][i]
<1>1. /\ memory \in Memories /\ buf[o].ptr \in Addresses \cup {Null}
      /\ Good(buf[o], memory, content[o]) /\ buf[o] \in Records
  BY WhereItIs DEF IInv, Shape
<1>2. PICK p \in Addresses \cup {Null} : p = buf[o].ptr
  BY <1>1
<1>3. PICK m \in Memories : m = memory
  BY <1>1
<1>4. /\ Read(m, p, n) \in Seq(Values) /\ Len(Read(m, p, n)) = n
      /\ p # Null => \A i \in 1..n : i <= Len(m[p]) => Read(m, p, n)[i] = m[p][i]
  BY ReadShape
<1>5. ASSUME NEW i \in 1..n, content[o][i] # Junk
      PROVE  Read(m, p, n)[i] = content[o][i]
  <2>1. i \in 1..buf[o].used /\ i <= buf[o].capacity /\ p # Null
    BY <1>1, <1>2 DEF Good, Records
  <2>2. m[p][i] = content[o][i] /\ i <= Len(m[p])
    BY <1>1, <1>2, <1>3, <1>5, <2>1 DEF Good
  <2> QED BY <1>4, <2>1, <2>2
<1> QED BY <1>2, <1>3, <1>4, <1>5

(* A constructor that takes memory for d and fills it.                     *)
LEMMA Constructed ==
  ASSUME IInv, NEW b \in Bufs, b \notin live, NEW d \in Seq(Values), NEW s \in Seq(Values),
         Len(d) <= MaxLen, Len(s) = Len(d),
         \A i \in 1..Len(s) : s[i] # Junk => d[i] = s[i],
         NEW p \in NewPtr(Len(d)),
         buf' = [buf EXCEPT ![b] = [ptr |-> p, capacity |-> Len(d), used |-> Len(d),
                                    ownMem |-> TRUE]],
         memory' = With(memory, p, d),
         content' = [content EXCEPT ![b] = s],
         live' = live \cup {b}
  PROVE  IInv'
<1>1. (p = Null /\ Len(d) = 0) \/ (p \in FreeBlocks /\ Len(d) # 0)
  BY DEF NewPtr
<1>2. p \in Addresses \cup {Null}
  BY <1>1 DEF FreeBlocks, Addresses
<1>3. PICK m : m = With(memory, p, d)
  OBVIOUS
<1>4. /\ m \in Memories
      /\ p # Null => m[p] = d
      /\ \A q \in Addresses : q # p => m[q] = Deleted(memory, b)[q]
  <2>1. memory \in Memories
    BY DEF IInv, Shape
  <2>2. Deleted(memory, b) = memory
    BY NotLive
  <2>3. /\ With(memory, p, d) \in Memories
        /\ p # Null => With(memory, p, d)[p] = d
        /\ \A q \in Addresses : q # p => With(memory, p, d)[q] = memory[q]
    BY <1>2, <2>1, WithShape
  <2> QED BY <1>3, <2>2, <2>3
<1>5. Len(s) <= Len(d)
  BY LenProperties
<1>6. /\ buf' = [buf EXCEPT ![b] = [ptr |-> p, capacity |-> Len(d), used |-> Len(s),
                                     ownMem |-> TRUE]]
      /\ memory' = m
  BY <1>3
<1>7. Reallocate(b, p, d, s, m)
  BY <1>1, <1>4, <1>5, <1>6 DEF Reallocate
<1> QED BY <1>4, <1>7, Reallocated

(* Buffer(length). *)
LEMMA ConstructKeeps ==
  ASSUME IInv, NEW b \in Bufs, NEW n \in 0..MaxLen, Construct(b, n)
  PROVE  IInv'
<1>1. n \in Nat /\ n <= MaxLen
  BY BufferAssumption
<1>2. Fill(n) \in Seq(Values) /\ Len(Fill(n)) = n
  BY <1>1, FillShape
<1> QED BY <1>1, <1>2, Constructed DEF Construct

(* Buffer(const T*, length), which copies. *)
LEMMA ConstructFromKeeps ==
  ASSUME IInv, NEW b \in Bufs, NEW s \in Seq(Values), Len(s) <= MaxLen, ConstructFrom(b, s)
  PROVE  IInv'
BY Constructed DEF ConstructFrom

(* Buffer(const Buffer&). *)
LEMMA CopyConstructKeeps ==
  ASSUME IInv, NEW b \in Bufs, NEW o \in Bufs, CopyConstruct(b, o)
  PROVE  IInv'
<1>1. PICK n : n = buf[o].used
  OBVIOUS
<1>2. PICK d : d = Read(memory, buf[o].ptr, n)
  OBVIOUS
<1>3. PICK s : s = content[o]
  OBVIOUS
<1>4. n \in Nat /\ n <= MaxLen /\ n <= buf[o].used /\ s \in Seq(Values) /\ Len(s) = n
  BY <1>1, <1>3, WhereItIs, BufferAssumption DEF Records, Good
<1>5. d \in Seq(Values) /\ Len(d) = n /\ \A i \in 1..n : s[i] # Junk => d[i] = s[i]
  BY <1>2, <1>3, <1>4, ReadContent
<1>6. PICK p \in NewPtr(Len(d)) :
        /\ buf' = [buf EXCEPT ![b] = [ptr |-> p, capacity |-> Len(d), used |-> Len(d),
                                      ownMem |-> TRUE]]
        /\ memory' = With(memory, p, d)
  BY <1>1, <1>2, <1>5 DEF CopyConstruct
<1>7. b \notin live /\ content' = [content EXCEPT ![b] = s] /\ live' = live \cup {b}
  BY <1>3 DEF CopyConstruct
<1> QED BY <1>4, <1>5, <1>6, <1>7, Constructed

(* operator=(const Buffer&). *)
LEMMA CopyAssignKeeps ==
  ASSUME IInv, NEW b \in Bufs, NEW o \in Bufs, CopyAssign(b, o)
  PROVE  IInv'
<1>1. PICK n : n = buf[o].used
  OBVIOUS
<1>2. PICK d : d = Read(memory, buf[o].ptr, n)
  OBVIOUS
<1>3. PICK s : s = content[o]
  OBVIOUS
<1>4. n \in Nat /\ n <= MaxLen /\ n <= buf[o].used /\ s \in Seq(Values) /\ Len(s) = n
  BY <1>1, <1>3, WhereItIs, BufferAssumption DEF Records, Good
<1>5. d \in Seq(Values) /\ Len(d) = n /\ \A i \in 1..n : s[i] # Junk => d[i] = s[i]
  BY <1>2, <1>3, <1>4, ReadContent
<1>6. PICK p \in NewPtr(Len(d)) :
        /\ buf' = [buf EXCEPT ![b] = [ptr |-> p, capacity |-> Len(d), used |-> Len(s),
                                      ownMem |-> TRUE]]
        /\ memory' = Deleted(With(memory, p, d), b)
  BY <1>1, <1>2, <1>4, <1>5 DEF CopyAssign
<1>7. b \in live /\ content' = [content EXCEPT ![b] = s] /\ live' = live \cup {b}
  BY <1>3 DEF CopyAssign
<1>8. (p = Null /\ Len(d) = 0) \/ (p \in FreeBlocks /\ Len(d) # 0)
  BY <1>6 DEF NewPtr
<1>9. p \in Addresses \cup {Null} /\ (p # Null => p # buf[b].ptr)
  BY <1>8, WhereItIs, BufferAssumption DEF FreeBlocks, Addresses, Good
<1>10. /\ With(memory, p, d) \in Memories
       /\ p # Null => With(memory, p, d)[p] = d
       /\ \A q \in Addresses : q # p => With(memory, p, d)[q] = memory[q]
  BY <1>5, <1>9, WithShape DEF IInv, Shape
<1>11. PICK m : m = Deleted(With(memory, p, d), b)
  OBVIOUS
<1>12. m \in Memories /\ memory' = m
  BY <1>6, <1>10, <1>11, DeletedShape
<1>13. p # Null => m[p] = d
  BY <1>8, <1>9, <1>10, <1>11, DeletedShape
<1>14. \A q \in Addresses : q # p => m[q] = Deleted(memory, b)[q]
  BY <1>9, <1>10, <1>11 DEF Deleted, Without, With, IInv, Shape, Memories
<1>15. Len(s) <= Len(d) /\ Len(d) <= MaxLen /\ \A i \in 1..Len(s) : s[i] # Junk => d[i] = s[i]
  BY <1>4, <1>5
<1>16. /\ buf' = [buf EXCEPT ![b] = [ptr |-> p, capacity |-> Len(d), used |-> Len(s),
                                      ownMem |-> TRUE]]
       /\ content' = [content EXCEPT ![b] = s] /\ live' = live \cup {b}
  BY <1>6, <1>7
<1>17. d \in Seq(Values) /\ s \in Seq(Values)
  BY <1>4, <1>5
<1>18. Reallocate(b, p, d, s, m)
  BY <1>8, <1>12, <1>13, <1>14, <1>15, <1>16 DEF Reallocate
<1> QED BY <1>12, <1>17, <1>18, Reallocated

(* Buffer(T*, length), on the caller's array. *)
LEMMA ConstructOnKeeps ==
  ASSUME IInv, NEW b \in Bufs, NEW p \in CallerMem, ConstructOn(b, p)
  PROVE  IInv'
<1> USE BufferAssumption
<1> PICK m : m = memory
  OBVIOUS
<1> PICK s : s = memory[p]
  OBVIOUS
<1> PICK r : r = [ptr |-> p, capacity |-> Len(s), used |-> Len(s), ownMem |-> FALSE]
  OBVIOUS
<1>1. /\ p \in Addresses /\ p # Null /\ p \notin Blocks
      /\ m \in Memories /\ s \in Seq(Values) /\ s # <<>> /\ Len(s) <= MaxLen
  BY DEF IInv, Shape, Memories, CallersArrays, Addresses
<1>2. r \in Records
  BY <1>1, LenProperties DEF Records
<1>3. Good(r, m, s)
  BY <1>1, LenProperties DEF Good
<1>4. \A o \in Bufs \ {b} : buf[o].ptr # p
  BY <1>1 DEF ConstructOn, IInv, OnlyLive, Empty
<1>5. /\ buf' = [buf EXCEPT ![b] = r] /\ memory' = m
      /\ content' = [content EXCEPT ![b] = s] /\ live' = live \cup {b}
  BY DEF ConstructOn
<1>6. buf[b].ptr = Null
  BY NotLive DEF ConstructOn, Empty
<1>7. live' \subseteq Bufs /\ live' \ {b} = live \ {b} /\ b \in live'
  BY <1>5 DEF IInv, Shape
<1>8. Change(b, r, m, s)
  BY <1>1, <1>3, <1>4, <1>5, <1>6, <1>7 DEF Change
<1> QED BY <1>1, <1>2, <1>8, OneChanged

(* ~Buffer. *)
LEMMA DestroyKeeps ==
  ASSUME IInv, NEW b \in Bufs, Destroy(b)
  PROVE  IInv'
<1> USE BufferAssumption
<1> PICK m : m = Deleted(memory, b)
  OBVIOUS
<1>1. memory \in Memories
  BY DEF IInv, Shape
<1>2. /\ m \in Memories
      /\ \A q \in Addresses : q # buf[b].ptr => m[q] = memory[q]
      /\ buf[b].ptr \in Blocks => m[buf[b].ptr] = <<>>
      /\ ~buf[b].ownMem => m = memory
  BY <1>1, DeletedShape
<1>3. buf[b].ptr \in CallerMem => ~buf[b].ownMem
  BY WhereItIs
<1>4. Empty \in Records /\ Empty.ptr = Null /\ <<>> \in Seq(Values) /\ Good(Empty, m, <<>>)
  BY EmptySeq DEF Empty, Records, Good
<1>5. /\ buf' = [buf EXCEPT ![b] = Empty] /\ memory' = m
      /\ content' = [content EXCEPT ![b] = <<>>] /\ live' = live \ {b}
  BY DEF Destroy
<1>6. live' \subseteq Bufs /\ live' \ {b} = live \ {b}
  BY <1>5 DEF IInv, Shape
<1>7. Change(b, Empty, m, <<>>)
  BY <1>2, <1>3, <1>4, <1>5, <1>6 DEF Change
<1> QED BY <1>2, <1>4, <1>7, OneChanged

(* b and o exchange what they have: swap(), and a move to an object that   *)
(* has nothing.                                                            *)
LEMMA Exchanged ==
  ASSUME IInv, NEW b \in Bufs, NEW o \in Bufs,
         buf' = [buf EXCEPT ![b] = buf[o], ![o] = buf[b]],
         content' = [content EXCEPT ![b] = content[o], ![o] = content[b]],
         memory' = memory, live' = live \cup {b}, o \in live
  PROVE  IInv'
<1>1. Shape'
  BY DEF IInv, Shape
<1> DEFINE other(x) == IF x = b THEN o ELSE IF x = o THEN b ELSE x
<1>2. \A x \in Bufs : /\ buf'[x] = buf[other(x)] /\ content'[x] = content[other(x)]
                      /\ other(x) \in Bufs /\ other(other(x)) = x
  BY DEF IInv, Shape
<1>3. \A x \in live : other(x) \in live'
  BY DEF IInv, Shape
<1>4. \A x \in Bufs \ live' : x \notin live /\ other(x) = x
  BY DEF IInv, Shape
<1> HIDE DEF other
<1>5. AllGood'
  BY <1>2 DEF IInv, AllGood
<1>6. OnlyLive'
  BY <1>2, <1>4 DEF IInv, OnlyLive
<1>7. Distinct'
  <2> SUFFICES ASSUME NEW x \in Bufs, NEW y \in Bufs, buf'[x].ptr = buf'[y].ptr, buf'[x].ptr # Null
               PROVE  x = y
    BY DEF Distinct
  <2>1. buf[other(x)].ptr = buf[other(y)].ptr /\ buf[other(x)].ptr # Null
    BY <1>2
  <2>2. other(x) = other(y)
    BY <1>2, <2>1 DEF IInv, Distinct
  <2> QED BY <1>2, <2>2
<1>8. NoneLost'
  <2> SUFFICES ASSUME NEW p \in Blocks, memory[p] # <<>> PROVE \E x \in live' : buf'[x].ptr = p
    BY DEF NoneLost
  <2>1. PICK x \in live : buf[x].ptr = p
    BY DEF IInv, NoneLost
  <2>2. x \in Bufs
    BY DEF IInv, Shape
  <2>3. other(x) \in live' /\ buf'[other(x)] = buf[x]
    BY <1>2, <1>3, <2>2
  <2> QED BY <2>1, <2>3
<1>9. CallersArrays'
  BY DEF IInv, CallersArrays
<1> QED BY <1>1, <1>5, <1>6, <1>7, <1>8, <1>9 DEF IInv

(* swap: no memory moves, and each object still has one. *)
LEMMA SwapKeeps ==
  ASSUME IInv, NEW b \in Bufs, NEW o \in Bufs, Swap(b, o)
  PROVE  IInv'
<1>1. live' = live \cup {b} /\ memory' = memory /\ o \in live
  BY DEF Swap
<1> QED BY <1>1, Exchanged DEF Swap

(* Buffer(Buffer&&): the old object is left with nothing. *)
LEMMA MoveConstructKeeps ==
  ASSUME IInv, NEW b \in Bufs, NEW o \in Bufs, MoveConstruct(b, o)
  PROVE  IInv'
<1>1. buf[b] = Empty /\ content[b] = <<>>
  BY NotLive DEF MoveConstruct
<1>2. /\ buf' = [buf EXCEPT ![b] = buf[o], ![o] = buf[b]]
      /\ content' = [content EXCEPT ![b] = content[o], ![o] = content[b]]
      /\ memory' = memory /\ live' = live \cup {b} /\ o \in live
  BY <1>1 DEF MoveConstruct, Moved
<1> QED BY <1>2, Exchanged

(* What b had is deleted, what o had is b's.                               *)
LEMMA MoveAssignKeeps ==
  ASSUME IInv, NEW b \in Bufs, NEW o \in Bufs, MoveAssign(b, o)
  PROVE  IInv'
<1> USE BufferAssumption
<1> PICK m : m = Deleted(memory, b)
  OBVIOUS
<1>1. memory \in Memories
  BY DEF IInv, Shape
<1>2. /\ m \in Memories
      /\ \A q \in Addresses : q # buf[b].ptr => m[q] = memory[q]
      /\ buf[b].ptr \in Blocks => m[buf[b].ptr] = <<>>
      /\ ~buf[b].ownMem => m = memory
  BY <1>1, DeletedShape
<1>3. buf[b].ptr \in CallerMem => m = memory
  BY <1>2, WhereItIs
<1>4. /\ buf' = [buf EXCEPT ![b] = buf[o], ![o] = Empty]
      /\ content' = [content EXCEPT ![b] = content[o], ![o] = <<>>]
      /\ memory' = m /\ live' = live /\ b \in live /\ o \in live
  BY DEF MoveAssign, Moved
<1>5. Empty \in Records /\ Empty.ptr = Null /\ <<>> \in Seq(Values) /\ Good(Empty, m, <<>>)
  BY EmptySeq DEF Empty, Records, Good
<1>6. /\ buf'[o] = Empty /\ content'[o] = <<>>
      /\ b # o => buf'[b] = buf[o] /\ content'[b] = content[o]
      /\ \A x \in Bufs \ {b, o} : buf'[x] = buf[x] /\ content'[x] = content[x]
  BY <1>4 DEF IInv, Shape
<1>7. Shape'
  <2>1. \A x \in Bufs : buf'[x] \in Records /\ content'[x] \in Seq(Values)
    BY <1>5, <1>6 DEF IInv, Shape
  <2>2. live' \subseteq Bufs /\ memory' \in Memories
    BY <1>2, <1>4 DEF IInv, Shape
  <2>3. DOMAIN buf' = Bufs /\ DOMAIN content' = Bufs
    BY <1>4 DEF IInv, Shape
  <2>4. buf' = [x \in Bufs |-> buf'[x]] /\ content' = [x \in Bufs |-> content'[x]]
    BY <1>4 DEF IInv, Shape
  <2> QED BY <2>1, <2>2, <2>4 DEF Shape
<1>8. ASSUME NEW x \in Bufs \ {b}
      PROVE  Good(buf[x], m, content[x])
  <2>1. Good(buf[x], memory, content[x]) /\ buf[x] \in Records
    BY WhereItIs
  <2>2. CASE buf[x].ptr = Null
    <3>1. buf[x].used = 0
      BY <2>1, <2>2 DEF Good, Records
    <3> QED BY <2>1, <2>2, <3>1 DEF Good
  <2>3. CASE buf[x].ptr # Null
    <3>1. buf[x].ptr # buf[b].ptr
      BY <2>3 DEF IInv, Distinct
    <3>2. m[buf[x].ptr] = memory[buf[x].ptr]
      BY <1>2, <2>1, <2>3, <3>1 DEF Records
    <3> QED BY <2>1, <3>2 DEF Good
  <2> QED BY <2>2, <2>3
<1>9. AllGood'
  BY <1>4, <1>5, <1>6, <1>8 DEF AllGood
<1>10. OnlyLive'
  BY <1>4, <1>6 DEF IInv, OnlyLive
<1>11. Distinct'
  <2> SUFFICES ASSUME NEW x \in Bufs, NEW y \in Bufs, buf'[x].ptr = buf'[y].ptr, buf'[x].ptr # Null
               PROVE  x = y
    BY DEF Distinct
  <2>1. x # o /\ y # o
    BY <1>5, <1>6
  <2> QED BY <1>6, <2>1 DEF IInv, Distinct
<1>12. NoneLost'
  <2> SUFFICES ASSUME NEW p \in Blocks, m[p] # <<>> PROVE \E x \in live : buf'[x].ptr = p
    BY <1>4 DEF NoneLost
  <2>1. p # buf[b].ptr /\ p # Null
    BY <1>2
  <2>2. memory[p] # <<>>
    BY <1>2, <2>1 DEF Addresses
  <2>3. PICK x \in live : buf[x].ptr = p
    BY <2>2 DEF IInv, NoneLost
  <2>4. x # b /\ x \in Bufs
    BY <2>1, <2>3 DEF IInv, Shape
  <2> QED BY <1>4, <1>6, <2>3, <2>4
<1>13. CallersArrays'
  BY <1>2, <1>3, <1>4 DEF IInv, CallersArrays, Addresses
<1> QED BY <1>7, <1>9, <1>10, <1>11, <1>12, <1>13 DEF IInv

-----------------------------------------------------------------------------
(* resize(), and what is stored after it.                                  *)

Resizable(b, n, p) ==
  /\ b \in live /\ n \in 1..MaxLen
  /\ p \in GrowPtr(b, n)
  /\ n > buf[b].capacity => buf[b].ownMem

IsResized(b, n, preserve, p, m, r) ==
  m = Resized(b, n, preserve, p).m /\ r = Resized(b, n, preserve, p).r

(* What is left of the old content in the new array.                       *)
IsPreserved(b, n, k, preserve, d) ==
  /\ k <= n /\ k <= buf[b].used
  /\ d = Overwritten(Fill(n), 0, IF preserve THEN Read(memory, buf[b].ptr, k) ELSE <<>>)

(* The items that resize and setCapacity copy over. *)
LEMMA Preserved ==
  ASSUME IInv, NEW b \in Bufs, NEW n \in Nat, NEW k \in Nat,
         NEW preserve \in BOOLEAN, NEW d, IsPreserved(b, n, k, preserve, d)
  PROVE  /\ d \in Seq(Values) /\ Len(d) = n
         /\ preserve => \A i \in 1..k : content[b][i] # Junk => d[i] = content[b][i]
<1> USE DEF IsPreserved
<1>1. Fill(n) \in Seq(Values) /\ Len(Fill(n)) = n
  BY FillShape
<1>2. CASE preserve
  <2> PICK s : s = Read(memory, buf[b].ptr, k)
    OBVIOUS
  <2>1. /\ s \in Seq(Values) /\ Len(s) = k
        /\ \A i \in 1..k : content[b][i] # Junk => s[i] = content[b][i]
    BY ReadContent
  <2>2. d = Overwritten(Fill(n), 0, s)
    BY <1>2
  <2>3. /\ d \in Seq(Values) /\ Len(d) = n
        /\ \A i \in 1..n : d[i] = IF i - 0 \in 1..Len(s) THEN s[i - 0] ELSE Fill(n)[i]
    BY <1>1, <2>1, <2>2, OverwrittenShape
  <2>4. \A i \in 1..k : d[i] = s[i]
    BY <2>1, <2>3
  <2> QED BY <2>1, <2>3, <2>4
<1>3. CASE ~preserve
  <2> PICK e \in Seq(Values) : e = <<>>
    BY EmptySeq
  <2>1. d = Overwritten(Fill(n), 0, e)
    BY <1>3
  <2>2. /\ Overwritten(Fill(n), 0, e) \in Seq(Values)
        /\ Len(Overwritten(Fill(n), 0, e)) = Len(Fill(n))
    BY <1>1, OverwrittenShape
  <2> QED BY <1>1, <1>3, <2>1, <2>2
<1> QED BY <1>2, <1>3

(* After resize there is room, and what was to be preserved is there. *)
LEMMA ResizeGives ==
  ASSUME IInv, NEW b \in Bufs, NEW n, NEW p, Resizable(b, n, p), NEW preserve \in BOOLEAN,
         NEW m, NEW r, IsResized(b, n, preserve, p, m, r)
  PROVE  /\ m \in Memories /\ r \in Records
         /\ r.used = n /\ n \in Nat \ {0} /\ n <= r.capacity
         /\ r.ptr \in Addresses /\ r.ptr # Null
         /\ m[r.ptr] \in Seq(Values) /\ Len(m[r.ptr]) = r.capacity
         /\ preserve => \A i \in 1..n : i <= buf[b].used /\ content[b][i] # Junk =>
                                          m[r.ptr][i] = content[b][i]
         /\ n <= buf[b].capacity => m = memory /\ r = [buf[b] EXCEPT !.used = n]
         /\ n > buf[b].capacity =>
              /\ p \in FreeBlocks
              /\ r = [ptr |-> p, capacity |-> n, used |-> n, ownMem |-> TRUE]
              /\ \A q \in Addresses : q # p => m[q] = Deleted(memory, b)[q]
<1> USE BufferAssumption DEF IsResized
<1>1. /\ n \in Nat \ {0} /\ n \in 0..MaxLen /\ memory \in Memories
      /\ buf[b] \in Records /\ Good(buf[b], memory, content[b])
      /\ buf[b].ptr \in Addresses \cup {Null}
      /\ buf[b].capacity \in Nat /\ buf[b].used \in Nat
  BY WhereItIs DEF Resizable, IInv, Shape
<1>2. CASE n <= buf[b].capacity
  <2>1. m = memory /\ r = [buf[b] EXCEPT !.used = n]
    BY <1>2 DEF Resized
  <2>2. r \in Records /\ r.used = n /\ r.capacity = buf[b].capacity /\ r.ptr = buf[b].ptr
    BY <1>1, <2>1 DEF Records
  <2>3. r.ptr # Null
    BY <1>1, <1>2, <2>2 DEF Good
  <2>4. m[r.ptr] \in Seq(Values) /\ Len(m[r.ptr]) = r.capacity
    BY <1>1, <2>1, <2>2, <2>3 DEF Good, Memories
  <2>5. \A i \in 1..n : i <= buf[b].used /\ content[b][i] # Junk => m[r.ptr][i] = content[b][i]
    BY <1>1, <2>1, <2>2 DEF Good
  <2> QED BY <1>1, <1>2, <2>1, <2>2, <2>3, <2>4, <2>5
<1>3. CASE n > buf[b].capacity
  <2> PICK k \in Nat : k = buf[b].used
    BY <1>1
  <2> PICK d : d = Overwritten(Fill(n), 0,
                     IF preserve THEN Read(memory, buf[b].ptr, k) ELSE <<>>)
    OBVIOUS
  <2>1. ~(n <= buf[b].capacity)
    BY <1>1, <1>3
  <2>2. m = With(Deleted(memory, b), p, d) /\ r = [buf[b] EXCEPT !.ptr = p, !.capacity = n, !.used = n]
    BY <2>1 DEF Resized
  <2>3. p \in FreeBlocks
    BY <1>1, <2>1 DEF Resizable, GrowPtr, NewPtr
  <2>4. p \in Addresses /\ p # Null
    BY <2>3 DEF FreeBlocks, Addresses
  <2>5. k <= n /\ k <= buf[b].used /\ n \in Nat
    BY <1>1, <1>3 DEF Good
  <2>6. /\ d \in Seq(Values) /\ Len(d) = n
        /\ preserve => \A i \in 1..buf[b].used : content[b][i] # Junk => d[i] = content[b][i]
    <3>1. IsPreserved(b, n, k, preserve, d)
      BY <2>5 DEF IsPreserved
    <3>2. /\ d \in Seq(Values) /\ Len(d) = n
          /\ preserve => \A i \in 1..k : content[b][i] # Junk => d[i] = content[b][i]
      BY <2>5, <3>1, Preserved
    <3> QED BY <3>2
  <2>7. Deleted(memory, b) \in Memories
    BY <1>1, DeletedShape
  <2>8. /\ m \in Memories /\ m[p] = d
        /\ \A q \in Addresses : q # p => m[q] = Deleted(memory, b)[q]
    BY <2>2, <2>4, <2>6, <2>7, WithShape
  <2>9. buf[b].ownMem = TRUE
    BY <1>3 DEF Resizable
  <2>10. r = [ptr |-> p, capacity |-> n, used |-> n, ownMem |-> TRUE] /\ r \in Records
    BY <1>1, <2>2, <2>4, <2>9 DEF Records
  <2> QED BY <1>1, <1>3, <2>1, <2>3, <2>4, <2>6, <2>8, <2>10
<1> QED BY <1>1, <1>2, <1>3

(* m is the memory when s has been stored, after resize(n).                *)
StoreResized(b, n, preserve, p, m, s) ==
  /\ Len(s) = n
  /\ \A q \in Addresses : q # Resized(b, n, preserve, p).r.ptr =>
       m[q] = Resized(b, n, preserve, p).m[q]
  /\ Len(m[Resized(b, n, preserve, p).r.ptr]) =
       Len(Resized(b, n, preserve, p).m[Resized(b, n, preserve, p).r.ptr])
  /\ \A i \in 1..n : s[i] # Junk => m[Resized(b, n, preserve, p).r.ptr][i] = s[i]
  /\ buf' = [buf EXCEPT ![b] = Resized(b, n, preserve, p).r]
  /\ memory' = m
  /\ content' = [content EXCEPT ![b] = s]
  /\ live' = live

(* resize, and what is stored after it. *)
LEMMA ResizedAndStored ==
  ASSUME IInv, NEW b \in Bufs, NEW n, NEW p, Resizable(b, n, p), NEW preserve \in BOOLEAN,
         NEW m \in Memories, NEW s \in Seq(Values), StoreResized(b, n, preserve, p, m, s)
  PROVE  IInv'
<1> PICK m0, r : IsResized(b, n, preserve, p, m0, r)
  BY DEF IsResized
<1>1. /\ m0 \in Memories /\ r \in Records
      /\ r.used = n /\ n \in Nat \ {0} /\ n <= r.capacity
      /\ r.ptr \in Addresses /\ r.ptr # Null
      /\ Len(m0[r.ptr]) = r.capacity
      /\ n <= buf[b].capacity => m0 = memory /\ r = [buf[b] EXCEPT !.used = n]
      /\ n > buf[b].capacity =>
           /\ p \in FreeBlocks
           /\ r = [ptr |-> p, capacity |-> n, used |-> n, ownMem |-> TRUE]
           /\ \A q \in Addresses : q # p => m0[q] = Deleted(memory, b)[q]
  BY ResizeGives
<1>2. /\ Len(s) = n
      /\ \A q \in Addresses : q # r.ptr => m[q] = m0[q]
      /\ Len(m[r.ptr]) = Len(m0[r.ptr])
      /\ \A i \in 1..n : s[i] # Junk => m[r.ptr][i] = s[i]
      /\ buf' = [buf EXCEPT ![b] = r] /\ memory' = m
      /\ content' = [content EXCEPT ![b] = s] /\ live' = live
  BY DEF StoreResized, IsResized
<1>3. b \in live /\ n \in 1..MaxLen
  BY DEF Resizable
<1>4. buf[b].capacity \in Nat
  BY WhereItIs
<1>5. CASE n <= buf[b].capacity
  <2>1. m0 = memory /\ r = [buf[b] EXCEPT !.used = n]
    BY <1>1, <1>5
  <2>2. r.ptr = buf[b].ptr /\ r.capacity = buf[b].capacity
    BY <2>1, WhereItIs DEF Records
  <2>3. buf' = [buf EXCEPT ![b].used = Len(s)]
    BY <1>2, <2>1 DEF IInv, Shape
  <2>4. StoreInPlace(b, m, s)
    BY <1>1, <1>2, <1>3, <1>5, <2>1, <2>2, <2>3 DEF StoreInPlace
  <2> QED BY <2>4, InPlace
<1>6. CASE n > buf[b].capacity
  <2>1. /\ p \in FreeBlocks
        /\ r = [ptr |-> p, capacity |-> n, used |-> n, ownMem |-> TRUE]
        /\ \A q \in Addresses : q # p => m0[q] = Deleted(memory, b)[q]
    BY <1>1, <1>6
  <2>2. r.ptr = p /\ r.capacity = n
    BY <2>1
  <2> PICK d : d = m[p]
    OBVIOUS
  <2>3. d \in Seq(Values) /\ Len(d) = n
    BY <1>1, <1>2, <2>2 DEF Memories
  <2>4. Reallocate(b, p, d, s, m)
    BY <1>1, <1>2, <1>3, <2>1, <2>2, <2>3, BufferAssumption DEF Reallocate
  <2> QED BY <2>3, <2>4, Reallocated
<1> QED BY <1>1, <1>4, <1>5, <1>6

(* resize. *)
LEMMA ResizeKeeps ==
  ASSUME IInv, NEW b \in Bufs, NEW n \in 1..MaxLen, NEW preserve \in BOOLEAN,
         Resize(b, n, preserve)
  PROVE  IInv'
<1>1. PICK p \in GrowPtr(b, n) : /\ buf' = [buf EXCEPT ![b] = Resized(b, n, preserve, p).r]
                                 /\ memory' = Resized(b, n, preserve, p).m
  BY DEF Resize
<1>2. PICK m, r : IsResized(b, n, preserve, p, m, r)
  BY DEF IsResized
<1>3. Resizable(b, n, p)
  BY DEF Resizable, Resize
<1>4. /\ m \in Memories /\ n \in Nat \ {0}
      /\ preserve => \A i \in 1..n : i <= buf[b].used /\ content[b][i] # Junk =>
                                       m[r.ptr][i] = content[b][i]
  BY <1>2, <1>3, ResizeGives
<1> PICK s : s = [i \in 1..n |-> IF preserve /\ i \in DOMAIN content[b] THEN content[b][i] ELSE Junk]
  OBVIOUS
<1>5. /\ content[b] \in Seq(Values) /\ DOMAIN content[b] = 1..Len(content[b])
      /\ Len(content[b]) = buf[b].used /\ buf[b].used \in Nat
  BY WhereItIs, LenProperties DEF Good
<1>6. s \in Seq(Values) /\ Len(s) = n
  <2>1. s \in [1..n -> Values]
    BY <1>5, ElementOfSeq DEF Values
  <2> QED BY <1>4, <2>1, SeqFromFunction
<1>7. \A i \in 1..n : s[i] # Junk => m[r.ptr][i] = s[i]
  BY <1>4, <1>5
<1>8. live' = live /\ content' = [content EXCEPT ![b] = s]
  BY DEF Resize
<1>9. StoreResized(b, n, preserve, p, m, s)
  BY <1>1, <1>2, <1>6, <1>7, <1>8 DEF StoreResized, IsResized
<1> QED BY <1>3, <1>4, <1>6, <1>9, ResizedAndStored

(* setCapacity. *)
LEMMA SetCapacityKeeps ==
  ASSUME IInv, NEW b \in Bufs, NEW n \in 0..MaxLen, NEW preserve \in BOOLEAN,
         SetCapacity(b, n, preserve)
  PROVE  IInv'
<1> USE BufferAssumption
<1>1. CASE n = buf[b].capacity
  BY <1>1 DEF SetCapacity, IInv, Shape, AllGood, Good, OnlyLive, Distinct, NoneLost, CallersArrays
<1>2. CASE n # buf[b].capacity
  <2>1. PICK k : k = Cut(buf[b].used, n)
    OBVIOUS
  <2>2. /\ buf[b] \in Records /\ Good(buf[b], memory, content[b])
        /\ content[b] \in Seq(Values) /\ DOMAIN content[b] = 1..Len(content[b])
        /\ Len(content[b]) = buf[b].used /\ buf[b].used \in Nat
        /\ memory \in Memories /\ n \in Nat
    <3>1. content[b] \in Seq(Values)
      BY WhereItIs
    <3> QED BY <3>1, WhereItIs, LenProperties DEF Good, IInv, Shape
  <2>3. k \in Nat /\ k <= n /\ k <= buf[b].used
    BY <2>1, <2>2 DEF Cut
  <2> PICK d : d = Overwritten(Fill(n), 0,
                     IF preserve THEN Read(memory, buf[b].ptr, k) ELSE <<>>)
    OBVIOUS
  <2> PICK s : s = [i \in 1..k |-> IF preserve THEN content[b][i] ELSE Junk]
    OBVIOUS
  <2>4. /\ d \in Seq(Values) /\ Len(d) = n
        /\ preserve => \A i \in 1..k : content[b][i] # Junk => d[i] = content[b][i]
    <3>1. IsPreserved(b, n, k, preserve, d)
      BY <2>3 DEF IsPreserved
    <3> QED BY <2>2, <2>3, <3>1, Preserved
  <2>5. s \in Seq(Values) /\ Len(s) = k
    <3>1. s \in [1..k -> Values]
      BY <2>2, <2>3, ElementOfSeq DEF Values
    <3> QED BY <2>3, <3>1, SeqFromFunction
  <2>6. PICK p \in NewPtr(n) :
          /\ buf' = [buf EXCEPT ![b] = [@ EXCEPT !.ptr = p, !.capacity = n, !.used = k]]
          /\ memory' = With(Deleted(memory, b), p, d)
    BY <1>2, <2>1 DEF SetCapacity
  <2>7. /\ live' = live /\ b \in live
        /\ content' = [content EXCEPT ![b] = s]
    BY <1>2, <2>1 DEF SetCapacity
  <2>8. (p = Null /\ Len(d) = 0) \/ (p \in FreeBlocks /\ Len(d) # 0)
    BY <2>4, <2>6 DEF NewPtr
  <2>9. p \in Addresses \cup {Null}
    BY <2>8 DEF FreeBlocks, Addresses
  <2>10. Deleted(memory, b) \in Memories
    BY <2>2, DeletedShape
  <2> PICK m : m = With(Deleted(memory, b), p, d)
    OBVIOUS
  <2>11. /\ m \in Memories /\ (p # Null => m[p] = d)
         /\ \A q \in Addresses : q # p => m[q] = Deleted(memory, b)[q]
    BY <2>4, <2>9, <2>10, WithShape
  <2>12. buf' = [buf EXCEPT ![b] = [ptr |-> p, capacity |-> Len(d), used |-> Len(s),
                                    ownMem |-> TRUE]]
    <3>1. buf[b].ownMem = TRUE
      BY DEF SetCapacity
    <3>2. [buf[b] EXCEPT !.ptr = p, !.capacity = n, !.used = k] =
            [ptr |-> p, capacity |-> n, used |-> k, ownMem |-> TRUE]
      <4> PICK r : r = [buf[b] EXCEPT !.ptr = p, !.capacity = n, !.used = k]
        OBVIOUS
      <4>1. k \in 0..MaxLen
        BY <2>2, <2>3
      <4>2. buf[b] \in Records
        BY <2>2
      <4>3. r \in Records /\ r.ptr = p /\ r.capacity = n /\ r.used = k /\ r.ownMem = TRUE
        BY <2>9, <3>1, <4>1, <4>2 DEF Records
      <4>4. r = [ptr |-> p, capacity |-> n, used |-> k, ownMem |-> TRUE]
        BY <4>3 DEF Records
      <4> QED BY <4>4
    <3> QED BY <2>4, <2>5, <2>6, <3>2 DEF IInv, Shape
  <2>13. Reallocate(b, p, d, s, m)
    <3>1. Len(d) <= MaxLen /\ Len(s) <= Len(d)
      BY <2>2, <2>3, <2>4, <2>5
    <3>2. \A i \in 1..Len(s) : s[i] # Junk => d[i] = s[i]
      BY <2>4, <2>5
    <3>3. live' = live \cup {b}
      BY <2>7
    <3> QED BY <2>6, <2>7, <2>8, <2>11, <2>12, <3>1, <3>2, <3>3 DEF Reallocate
  <2> QED BY <2>4, <2>5, <2>11, <2>13, Reallocated
<1> QED BY <1>1, <1>2

(* resize(), then memcpy of new to the items after from, which keeps what  *)
(* is before them: assign() and append().                                  *)
Copied(b, n, preserve, p, from, new, s) ==
  LET z == Resized(b, n, preserve, p)
  IN  /\ Len(s) = n /\ from + Len(new) = n /\ from <= buf[b].used
      /\ from > 0 => preserve
      /\ \A i \in 1..from : s[i] = content[b][i]
      /\ \A i \in 1..Len(new) : s[from + i] # Junk => new[i] = s[from + i]
      /\ buf' = [buf EXCEPT ![b] = z.r]
      /\ memory' = With(z.m, z.r.ptr, Overwritten(z.m[z.r.ptr], from, new))
      /\ content' = [content EXCEPT ![b] = s]
      /\ live' = live

(* resize, and a memcpy into the result: assign and append. *)
LEMMA CopiedKeeps ==
  ASSUME IInv, NEW b \in Bufs, NEW n, NEW p, Resizable(b, n, p), NEW preserve \in BOOLEAN,
         NEW from \in Nat, NEW new \in Seq(Values), NEW s \in Seq(Values),
         Copied(b, n, preserve, p, from, new, s)
  PROVE  IInv'
<1>1. PICK m0, r : IsResized(b, n, preserve, p, m0, r)
  BY DEF IsResized
<1>2. /\ m0 \in Memories /\ r \in Records
      /\ r.used = n /\ n \in Nat \ {0} /\ n <= r.capacity
      /\ r.ptr \in Addresses /\ r.ptr # Null
      /\ m0[r.ptr] \in Seq(Values) /\ Len(m0[r.ptr]) = r.capacity
      /\ preserve => \A i \in 1..n : i <= buf[b].used /\ content[b][i] # Junk =>
                                       m0[r.ptr][i] = content[b][i]
  BY <1>1, ResizeGives
<1>3. /\ Len(s) = n /\ from + Len(new) = n /\ from <= buf[b].used
      /\ from > 0 => preserve
      /\ \A i \in 1..from : s[i] = content[b][i]
      /\ \A i \in 1..Len(new) : s[from + i] # Junk => new[i] = s[from + i]
      /\ buf' = [buf EXCEPT ![b] = r]
      /\ memory' = With(m0, r.ptr, Overwritten(m0[r.ptr], from, new))
      /\ content' = [content EXCEPT ![b] = s] /\ live' = live
  BY <1>1 DEF Copied, IsResized
<1> PICK d : d = Overwritten(m0[r.ptr], from, new)
  OBVIOUS
<1>4. Len(new) \in Nat /\ r.capacity \in Nat /\ buf[b].used \in Nat
  BY LenProperties, <1>2, WhereItIs
<1>5. /\ d \in Seq(Values) /\ Len(d) = r.capacity
      /\ \A i \in 1..r.capacity : d[i] =
           IF i - from \in 1..Len(new) THEN new[i - from] ELSE m0[r.ptr][i]
  BY <1>2, OverwrittenShape
<1> PICK m : m = With(m0, r.ptr, d)
  OBVIOUS
<1>6. /\ m \in Memories /\ m[r.ptr] = d
      /\ \A q \in Addresses : q # r.ptr => m[q] = m0[q]
  BY <1>2, <1>5, WithShape
<1>7. ASSUME NEW i \in 1..n, s[i] # Junk
      PROVE  d[i] = s[i]
  <2>1. CASE i <= from
    <3>1. i \in 1..from /\ ~(i - from \in 1..Len(new)) /\ i \in 1..r.capacity
      BY <1>2, <1>4, <2>1
    <3>2. preserve /\ i <= buf[b].used /\ s[i] = content[b][i]
      BY <1>2, <1>3, <1>4, <3>1
    <3> QED BY <1>2, <1>5, <1>7, <3>1, <3>2
  <2>2. CASE ~(i <= from)
    <3>1. i - from \in 1..Len(new) /\ from + (i - from) = i /\ i \in 1..r.capacity
      BY <1>2, <1>3, <1>4, <2>2
    <3>2. new[i - from] = s[i]
      BY <1>3, <1>7, <3>1
    <3> QED BY <1>5, <3>1, <3>2
  <2> QED BY <2>1, <2>2
<1>8. memory' = m
  BY <1>3
<1>9. StoreResized(b, n, preserve, p, m, s)
  BY <1>1, <1>2, <1>3, <1>5, <1>6, <1>7, <1>8 DEF StoreResized, IsResized
<1> QED BY <1>6, <1>9, ResizedAndStored

(* assign. *)
LEMMA AssignKeeps ==
  ASSUME IInv, NEW b \in Bufs, NEW s \in Seq(Values), Len(s) <= MaxLen, Assign(b, s)
  PROVE  IInv'
<1>1. Len(s) \in 1..MaxLen /\ Len(s) \in Nat
  BY EmptySeq, BufferAssumption DEF Assign
<1>2. PICK p \in GrowPtr(b, Len(s)) :
        /\ buf' = [buf EXCEPT ![b] = Resized(b, Len(s), FALSE, p).r]
        /\ memory' = With(Resized(b, Len(s), FALSE, p).m, Resized(b, Len(s), FALSE, p).r.ptr,
             Overwritten(Resized(b, Len(s), FALSE, p).m[Resized(b, Len(s), FALSE, p).r.ptr], 0, s))
  BY DEF Assign
<1>3. Resizable(b, Len(s), p)
  BY <1>1 DEF Assign, Resizable
<1>4. buf[b].used \in Nat
  BY WhereItIs
<1>5. Copied(b, Len(s), FALSE, p, 0, s, s)
  <2>1. 0 + Len(s) = Len(s) /\ 0 <= buf[b].used /\ ~(0 > 0) /\ 1..0 = {}
    BY <1>1, <1>4
  <2>2. \A i \in 1..Len(s) : 0 + i = i
    OBVIOUS
  <2>3. live' = live /\ content' = [content EXCEPT ![b] = s]
    BY DEF Assign
  <2> QED BY <1>2, <2>1, <2>2, <2>3 DEF Copied
<1> QED BY <1>3, <1>5, CopiedKeeps

(* append(s, n), append(T) and append(const Buffer&) of another one. *)
LEMMA AppendItemsKeeps ==
  ASSUME IInv, NEW b \in Bufs, NEW s \in Seq(Values), AppendItems(b, s)
  PROVE  IInv'
<1>1. PICK n : n = buf[b].used + Len(s)
  OBVIOUS
<1>2. PICK u \in Nat : u = buf[b].used
  BY WhereItIs
<1>3. /\ Len(s) \in Nat \ {0} /\ n \in 1..MaxLen /\ b \in live /\ buf[b].ownMem
  BY <1>1, <1>2, EmptySeq, BufferAssumption DEF AppendItems
<1>4. PICK p \in GrowPtr(b, n) :
        /\ buf' = [buf EXCEPT ![b] = Resized(b, n, TRUE, p).r]
        /\ memory' = With(Resized(b, n, TRUE, p).m, Resized(b, n, TRUE, p).r.ptr,
             Overwritten(Resized(b, n, TRUE, p).m[Resized(b, n, TRUE, p).r.ptr], u, s))
  BY <1>1, <1>2 DEF AppendItems, AppendAt
<1>5. Resizable(b, n, p)
  BY <1>3, <1>4 DEF Resizable
<1> PICK c : c = content[b] \o s
  OBVIOUS
<1>6. /\ c \in Seq(Values) /\ Len(c) = n
      /\ \A i \in 1..u : c[i] = content[b][i]
      /\ \A i \in 1..Len(s) : c[u + i] = s[i]
  <2>1. content[b] \in Seq(Values) /\ Len(content[b]) = u
    BY <1>2, WhereItIs DEF Good
  <2>2. PICK x \in Seq(Values) : x = content[b]
    BY <2>1
  <2>3. /\ x \o s \in Seq(Values) /\ Len(x \o s) = Len(x) + Len(s)
        /\ \A i \in 1..Len(x) : (x \o s)[i] = x[i]
        /\ \A i \in 1..Len(s) : (x \o s)[Len(x) + i] = s[i]
    BY Joined
  <2> QED BY <1>1, <1>2, <2>1, <2>2, <2>3
<1>7. live' = live /\ content' = [content EXCEPT ![b] = c]
  BY DEF AppendItems
<1>8. u + Len(s) = n /\ u <= buf[b].used
  BY <1>1, <1>2
<1>9. Copied(b, n, TRUE, p, u, s, c)
  BY <1>4, <1>6, <1>7, <1>8 DEF Copied
<1> QED BY <1>5, <1>6, <1>9, CopiedKeeps

(* append(const Buffer&). *)
LEMMA AppendOtherKeeps ==
  ASSUME IInv, NEW b \in Bufs, NEW o \in Bufs, AppendOther(b, o)
  PROVE  IInv'
<1>1. PICK n \in Nat : n = buf[o].used
  BY WhereItIs
<1>2. PICK s : s = Read(memory, buf[o].ptr, n)
  OBVIOUS
<1>3. s \in Seq(Values)
  BY <1>1, <1>2, ReadContent
<1>4. AppendItems(b, s)
  BY <1>1, <1>2 DEF AppendOther
<1> QED BY <1>3, <1>4, AppendItemsKeeps

(* Of what is appended from memory that was deleted nothing is claimed.    *)
LEMMA AppendSelfKeeps ==
  ASSUME IInv, NEW b \in Bufs, AppendSelf(b)
  PROVE  IInv'
<1>1. PICK u \in Nat : u = buf[b].used
  BY WhereItIs
<1>2. PICK grows : grows = (2 * u > buf[b].capacity)
  OBVIOUS
<1>3. u > 0 /\ 2 * u \in 1..MaxLen /\ b \in live /\ buf[b].ownMem
  BY <1>1, BufferAssumption DEF AppendSelf
<1> PICK s : s = IF grows THEN Fill(u) ELSE Read(memory, buf[b].ptr, u)
  OBVIOUS
<1> PICK t : t = IF grows THEN Fill(u) ELSE content[b]
  OBVIOUS
<1> PICK c : c = content[b] \o t
  OBVIOUS
<1>4. content[b] \in Seq(Values) /\ Len(content[b]) = u
  BY <1>1, WhereItIs DEF Good
<1>5. /\ s \in Seq(Values) /\ Len(s) = u
      /\ t \in Seq(Values) /\ Len(t) = u
      /\ \A i \in 1..u : t[i] # Junk => s[i] = t[i]
  <2>1. CASE grows
    BY <2>1, FillShape
  <2>2. CASE ~grows
    <3>1. u <= buf[b].used
      BY <1>1
    <3> QED BY <1>4, <2>2, <3>1, ReadContent
  <2> QED BY <2>1, <2>2
<1>6. PICK p \in GrowPtr(b, 2 * u) :
        /\ buf' = [buf EXCEPT ![b] = Resized(b, 2 * u, TRUE, p).r]
        /\ memory' = With(Resized(b, 2 * u, TRUE, p).m, Resized(b, 2 * u, TRUE, p).r.ptr,
             Overwritten(Resized(b, 2 * u, TRUE, p).m[Resized(b, 2 * u, TRUE, p).r.ptr], u, s))
  BY <1>1, <1>2 DEF AppendSelf
<1>7. live' = live /\ content' = [content EXCEPT ![b] = c]
  BY <1>1, <1>2 DEF AppendSelf
<1>8. Resizable(b, 2 * u, p)
  BY <1>3, <1>6 DEF Resizable
<1>9. /\ c \in Seq(Values) /\ Len(c) = 2 * u
      /\ \A i \in 1..u : c[i] = content[b][i]
      /\ \A i \in 1..u : c[u + i] = t[i]
  <2>1. PICK x \in Seq(Values) : x = content[b]
    BY <1>4
  <2>2. PICK y \in Seq(Values) : y = t
    BY <1>5
  <2>3. /\ x \o y \in Seq(Values) /\ Len(x \o y) = Len(x) + Len(y)
        /\ \A i \in 1..Len(x) : (x \o y)[i] = x[i]
        /\ \A i \in 1..Len(y) : (x \o y)[Len(x) + i] = y[i]
    BY Joined
  <2>4. c = x \o y /\ Len(x) = u /\ Len(y) = u
    BY <1>4, <1>5, <2>1, <2>2
  <2>5. Len(c) = 2 * u
    BY ONLY u \in Nat, <2>3, <2>4
  <2>6. /\ \A i \in 1..u : c[i] = x[i]
        /\ \A i \in 1..u : c[u + i] = y[i]
    BY ONLY <2>3, <2>4
  <2> QED BY <2>1, <2>2, <2>3, <2>4, <2>5, <2>6
<1>10. PICK n : n = 2 * u
  OBVIOUS
<1>11. Copied(b, n, TRUE, p, u, s, c)
  <2>1. u + Len(s) = n /\ u <= buf[b].used
    BY <1>1, <1>5, <1>10
  <2>2. \A i \in 1..Len(s) : c[u + i] # Junk => s[i] = c[u + i]
    BY <1>5, <1>9
  <2> QED BY <1>6, <1>7, <1>9, <1>10, <2>1, <2>2 DEF Copied
<1> QED BY <1>5, <1>8, <1>9, <1>10, <1>11, CopiedKeeps

(* An object whose end does not move.                                      *)
LEMMA SameEnd ==
  ASSUME IInv, NEW b \in Bufs
  PROVE  buf = [buf EXCEPT ![b].used = buf[b].used]
<1>1. [buf[b] EXCEPT !.used = buf[b].used] = buf[b]
  BY WhereItIs DEF Records
<1> QED BY <1>1 DEF IInv, Shape

(* operator[], begin(): the user stores an item. *)
LEMMA StoreKeeps ==
  ASSUME IInv, NEW b \in Bufs, NEW i \in 1..MaxLen, NEW x \in Items, Store(b, i, x)
  PROVE  IInv'
<1>1. /\ buf[b] \in Records /\ Good(buf[b], memory, content[b])
      /\ content[b] \in Seq(Values) /\ memory \in Memories
      /\ buf[b].used \in Nat /\ buf[b].capacity \in Nat
      /\ i \in 1..buf[b].used /\ b \in live
  BY WhereItIs DEF Store, IInv, Shape
<1>2. buf[b].ptr # Null /\ buf[b].ptr \in Addresses
  BY <1>1 DEF Good, Records
<1>3. PICK a \in Addresses : a = buf[b].ptr
  BY <1>2
<1>4. PICK d \in Seq(Values) : d = memory[a]
  BY <1>1 DEF Memories
<1>5. i \in 1..Len(d) /\ i \in 1..Len(content[b]) /\ x \in Values
  BY <1>1, <1>2, <1>3, <1>4 DEF Good, Values
<1> PICK e : e = [d EXCEPT ![i] = x]
  OBVIOUS
<1> PICK s : s = [content[b] EXCEPT ![i] = x]
  OBVIOUS
<1>6. /\ e \in Seq(Values) /\ Len(e) = Len(d)
      /\ \A j \in 1..Len(d) : e[j] = IF j = i THEN x ELSE d[j]
  BY <1>5, ExceptSeq
<1>7. /\ s \in Seq(Values) /\ Len(s) = Len(content[b])
      /\ \A j \in 1..Len(content[b]) : s[j] = IF j = i THEN x ELSE content[b][j]
  BY <1>1, <1>5, ExceptSeq
<1> PICK m : m = [memory EXCEPT ![a] = e]
  OBVIOUS
<1>8. /\ m \in Memories /\ m[a] = e
      /\ \A q \in Addresses : q # a => m[q] = memory[q]
  BY <1>1, <1>6 DEF Memories
<1>9. /\ memory' = m /\ content' = [content EXCEPT ![b] = s] /\ live' = live /\ buf' = buf
  BY <1>3, <1>4 DEF Store
<1>10. Len(s) = buf[b].used /\ Len(s) <= buf[b].capacity
  BY <1>1, <1>7 DEF Good
<1>11. \A j \in 1..Len(s) : s[j] # Junk => e[j] = s[j]
  BY <1>1, <1>3, <1>4, <1>6, <1>7, <1>10 DEF Good
<1>12. buf' = [buf EXCEPT ![b].used = Len(s)]
  BY <1>9, <1>10, SameEnd
<1>13. Len(m[a]) = Len(memory[a])
  BY <1>4, <1>6, <1>8
<1>14. StoreInPlace(b, m, s)
  <2>1. \A j \in 1..Len(s) : s[j] # Junk => m[a][j] = s[j]
    BY <1>8, <1>11
  <2> QED BY <1>1, <1>3, <1>8, <1>9, <1>10, <1>12, <1>13, <2>1 DEF StoreInPlace
<1> QED BY <1>7, <1>8, <1>14, InPlace

(* clear. *)
LEMMA ClearKeeps ==
  ASSUME IInv, NEW b \in Bufs, Clear(b)
  PROVE  IInv'
<1>1. /\ buf[b] \in Records /\ Good(buf[b], memory, content[b])
      /\ content[b] \in Seq(Values) /\ memory \in Memories
      /\ buf[b].used \in Nat /\ buf[b].capacity \in Nat /\ b \in live
  BY WhereItIs DEF Clear, IInv, Shape
<1>2. PICK a \in Addresses \cup {Null} : a = buf[b].ptr
  BY WhereItIs
<1>3. PICK u \in Nat : u = buf[b].used
  BY <1>1
<1>4. PICK k \in Nat : k = buf[b].capacity
  BY <1>1
<1> PICK z : z = [i \in 1..u |-> Zero]
  OBVIOUS
<1>5. z \in Seq(Values) /\ Len(z) = u
  <2>1. z \in [1..u -> Values]
    BY BufferAssumption DEF Values
  <2> QED BY <2>1, SeqFromFunction
<1>6. PICK old : old = Read(memory, a, k)
  OBVIOUS
<1>7. old \in Seq(Values) /\ Len(old) = k
  <2>1. PICK mm \in Memories : mm = memory
    BY <1>1
  <2>2. Read(mm, a, k) \in Seq(Values) /\ Len(Read(mm, a, k)) = k
    BY ReadShape
  <2> QED BY <1>6, <2>1, <2>2
<1> PICK d : d = Overwritten(old, 0, z)
  OBVIOUS
<1>8. /\ d \in Seq(Values) /\ Len(d) = k
      /\ \A i \in 1..k : d[i] = IF i - 0 \in 1..u THEN z[i - 0] ELSE old[i]
  <2>1. /\ Overwritten(old, 0, z) \in Seq(Values) /\ Len(Overwritten(old, 0, z)) = Len(old)
        /\ \A i \in 1..Len(old) : Overwritten(old, 0, z)[i] =
             IF i - 0 \in 1..Len(z) THEN z[i - 0] ELSE old[i]
    <3>1. z \in Seq(Values) /\ old \in Seq(Values)
      BY <1>5, <1>7
    <3> QED BY ONLY <3>1, OverwrittenShape
  <2> QED BY <1>5, <1>7, <2>1
<1> PICK m : m = With(memory, a, d)
  OBVIOUS
<1>9. /\ m \in Memories /\ (a # Null => m[a] = d)
      /\ \A q \in Addresses : q # a => m[q] = memory[q]
  BY <1>1, <1>8, WithShape
<1>10. memory' = m /\ live' = live /\ buf' = buf
  BY <1>2, <1>3, <1>4, <1>6 DEF Clear
<1>11. DOMAIN content[b] = 1..u /\ Len(content[b]) = u /\ u <= k
  BY <1>1, <1>3, <1>4, LenProperties DEF Good
<1>12. content' = [content EXCEPT ![b] = z]
  BY <1>11 DEF Clear
<1>13. \A i \in 1..u : a # Null /\ m[a][i] = z[i]
  <2> SUFFICES ASSUME NEW i \in 1..u PROVE a # Null /\ m[a][i] = z[i]
    OBVIOUS
  <2>1. a # Null
    BY <1>1, <1>2, <1>4, <1>11 DEF Good
  <2>2. i \in 1..k /\ i - 0 = i
    BY <1>11
  <2> QED BY <1>8, <1>9, <2>1, <2>2
<1>14. buf' = [buf EXCEPT ![b].used = Len(z)]
  BY <1>3, <1>5, <1>10, SameEnd
<1>15. a # Null => Len(m[a]) = Len(memory[a])
  BY <1>1, <1>2, <1>4, <1>8, <1>9 DEF Good
<1>16. StoreInPlace(b, m, z)
  BY <1>1, <1>2, <1>4, <1>5, <1>9, <1>10, <1>11, <1>12, <1>13, <1>14, <1>15 DEF StoreInPlace
<1> QED BY <1>5, <1>9, <1>16, InPlace

-----------------------------------------------------------------------------

(* No object is constructed and no memory allocated. *)
LEMMA InitIInv == Init => IInv
<1> SUFFICES ASSUME Init PROVE IInv
  OBVIOUS
<1> USE BufferAssumption
<1>1. PICK n \in 1..MaxLen : \E s \in Arrays(n) :
        memory = [p \in Addresses |-> IF p \in CallerMem THEN s ELSE <<>>]
  BY DEF Init
<1>2. PICK s \in Arrays(n) : memory = [p \in Addresses |-> IF p \in CallerMem THEN s ELSE <<>>]
  BY <1>1
<1>3. s \in Seq(Values) /\ Len(s) = n /\ n <= MaxLen /\ s # <<>>
  <2>1. s \in [1..n -> Values]
    BY DEF Arrays, Values
  <2>2. s \in Seq(Values) /\ Len(s) = n
    BY <2>1, SeqFromFunction
  <2> QED BY <2>2, EmptySeq
<1>4. <<>> \in Seq(Values) /\ Len(<<>>) = 0
  BY EmptySeq
<1>5. Empty \in Records /\ Empty.ptr = Null
  BY DEF Empty, Records
<1>6. /\ live = {} /\ \A b \in Bufs : buf[b] = Empty /\ content[b] = <<>>
      /\ \A p \in Blocks : memory[p] = <<>>
      /\ \A p \in CallerMem : memory[p] = s
  BY <1>2 DEF Init, Addresses
<1>7. Shape
  BY <1>2, <1>3, <1>4, <1>5 DEF Init, Shape, Memories
<1>8. AllGood
  <2>1. Good(Empty, memory, <<>>)
    BY <1>4 DEF Good, Empty
  <2> QED BY <1>6, <2>1 DEF AllGood
<1>9. OnlyLive /\ Distinct /\ NoneLost /\ CallersArrays
  BY <1>3, <1>5, <1>6 DEF OnlyLive, Distinct, NoneLost, CallersArrays
<1> QED BY <1>7, <1>8, <1>9 DEF IInv

(* The strings the user gives are arrays of items.                         *)
LEMMA StringsShape ==
  ASSUME NEW s \in Strings
  PROVE  s \in Seq(Values) /\ Len(s) <= MaxLen
<1>1. PICK n \in 1..MaxLen : s \in Arrays(n)
  BY DEF Strings
<1>2. s \in [1..n -> Values]
  BY <1>1 DEF Arrays, Values
<1>3. n \in Nat /\ n <= MaxLen
  BY BufferAssumption
<1> QED BY <1>2, <1>3, SeqFromFunction

(* A step that changes nothing. *)
LEMMA StutteringKeeps == IInv /\ UNCHANGED vars => IInv'
BY DEF vars, IInv, Shape, AllGood, OnlyLive, Distinct, NoneLost, CallersArrays

(* The invariant is inductive: through any copies, moves, swaps, resizes   *)
(* and stores, of any objects in any order.                                *)
THEOREM Invariance == Spec => []IInv
<1>1. IInv /\ [Next]_vars => IInv'
  <2> SUFFICES ASSUME IInv, [Next]_vars PROVE IInv'
    OBVIOUS
  <2>1. CASE UNCHANGED vars
    BY <2>1, StutteringKeeps
  <2>2. ASSUME NEW b \in Bufs, NEW n \in 0..MaxLen, Construct(b, n) PROVE IInv'
    BY <2>2, ConstructKeeps
  <2>3. ASSUME NEW b \in Bufs, NEW p \in CallerMem, ConstructOn(b, p) PROVE IInv'
    BY <2>3, ConstructOnKeeps
  <2>4. ASSUME NEW b \in Bufs, NEW s \in Strings, ConstructFrom(b, s) PROVE IInv'
    BY <2>4, StringsShape, ConstructFromKeeps
  <2>5. ASSUME NEW b \in Bufs, NEW o \in Bufs, CopyConstruct(b, o) \/ MoveConstruct(b, o)
        PROVE  IInv'
    BY <2>5, CopyConstructKeeps, MoveConstructKeeps
  <2>6. ASSUME NEW b \in Bufs, NEW o \in Bufs, CopyAssign(b, o) \/ MoveAssign(b, o) \/ Swap(b, o)
        PROVE  IInv'
    BY <2>6, CopyAssignKeeps, MoveAssignKeeps, SwapKeeps
  <2>7. ASSUME NEW b \in Bufs, NEW o \in Bufs, AppendOther(b, o) PROVE IInv'
    BY <2>7, AppendOtherKeeps
  <2>8. ASSUME NEW b \in Bufs, Destroy(b) \/ AppendSelf(b) \/ Clear(b) PROVE IInv'
    BY <2>8, DestroyKeeps, AppendSelfKeeps, ClearKeeps
  <2>9. ASSUME NEW b \in Bufs, NEW n \in 1..MaxLen, NEW preserve \in BOOLEAN, Resize(b, n, preserve)
        PROVE  IInv'
    BY <2>9, ResizeKeeps
  <2>10. ASSUME NEW b \in Bufs, NEW n \in 0..MaxLen, NEW preserve \in BOOLEAN,
                SetCapacity(b, n, preserve)
         PROVE  IInv'
    BY <2>10, SetCapacityKeeps
  <2>11. ASSUME NEW b \in Bufs, NEW s \in Strings, Assign(b, s) \/ AppendItems(b, s) PROVE IInv'
    BY <2>11, StringsShape, AssignKeeps, AppendItemsKeeps
  <2>12. ASSUME NEW b \in Bufs, NEW i \in 1..MaxLen, NEW x \in Items, Store(b, i, x) PROVE IInv'
    BY <2>12, StoreKeeps
  <2> QED BY <2>1, <2>2, <2>3, <2>4, <2>5, <2>6, <2>7, <2>8, <2>9, <2>10, <2>11, <2>12 DEF Next
<1> QED BY <1>1, InitIInv, PTL DEF Spec

(* Between two calls every array that is allocated belongs to one Buffer,  *)
(* the one that will delete it, and no Buffer reaches beyond its array or  *)
(* points to one that was deleted.                                         *)
THEOREM MemoryIsOwnedOnce == Spec => []OwnedOnce
<1>1. IInv => OwnedOnce
  <2> SUFFICES ASSUME IInv PROVE OwnedOnce
    OBVIOUS
  <2>1. TypeOK
    BY DEF IInv, Shape, AllGood, Good, TypeOK, Records, Memories, Values
  <2>2. ASSUME NEW b \in Bufs, buf[b].ptr # Null
        PROVE  /\ b \in live
               /\ buf[b].capacity = Len(memory[buf[b].ptr])
               /\ memory[buf[b].ptr] # <<>>
               /\ buf[b].ownMem <=> buf[b].ptr \in Blocks
    <3>1. b \in live
      BY <2>2 DEF IInv, OnlyLive, Empty
    <3> QED BY <2>2, <3>1 DEF IInv, AllGood, Good
  <2> QED BY <2>1, <2>2 DEF IInv, Distinct, NoneLost, OwnedOnce
<1> QED BY <1>1, Invariance, PTL

(* A Buffer holds what its user stored in it, wherever the array has moved *)
(* and whatever the other objects did.                                     *)
THEOREM BufferKeepsContent == Spec => []ContentKept
<1>1. IInv => ContentKept
  <2> SUFFICES ASSUME IInv, NEW b \in live
               PROVE  /\ buf[b].used = Len(content[b])
                      /\ \A i \in DOMAIN content[b] :
                           content[b][i] # Junk => memory[buf[b].ptr][i] = content[b][i]
    BY DEF ContentKept
  <2>1. b \in Bufs
    BY DEF IInv, Shape
  <2>2. Good(buf[b], memory, content[b]) /\ content[b] \in Seq(Values)
    BY <2>1, WhereItIs
  <2>3. DOMAIN content[b] = 1..Len(content[b])
    BY <2>2, LenProperties
  <2> QED BY <2>2, <2>3 DEF Good
<1> QED BY <1>1, Invariance, PTL
==============================================================================
