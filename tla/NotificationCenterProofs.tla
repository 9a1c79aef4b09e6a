----------------------- MODULE NotificationCenterProofs -----------------------
(***************************************************************************)
(* Proofs about NotificationCenter, for every set of threads, targets and  *)
(* clones and every depth of calls.                                        *)
(*                                                                         *)
(* The inductive invariant speaks of frames, the calls on the threads'     *)
(* stacks, more than of threads: a step of a thread adds at most one frame *)
(* to its stack, keeps or drops the others and leaves the other stacks     *)
(* alone, and most of the invariant is a fact about every frame.           *)
(***************************************************************************)
EXTENDS NotificationCenter, FiniteSetTheorems, SequenceTheorems, TLAPS

(* Only the innermost call of a thread is anywhere but in a callback.      *)
StackOK ==
  /\ calls \in [Threads -> Seq(CallType)]
  /\ \A t \in Threads : /\ Len(calls[t]) <= MaxDepth
                        /\ \A i \in 2..Len(calls[t]) : calls[t][i].at = "callback"

ListOK ==
  /\ observers \in Seq(Ids) /\ IsInjective(observers)
  /\ target \in [Ids -> Targets \cup {NoTarget}]

(* An object is called through a clone that has not been disabled.         *)
FrameOK(f) ==
  /\ f.op = "addObserver" => f.arg \in Targets
  /\ f.at = "callback" => f.id \in Ids /\ target[f.id] # NoTarget
FramesOK == \A t \in Threads : \A f \in Frames(t) : FrameOK(f)

ListedOK == \A id \in Alive : target[id] # NoTarget <=> id \in ToSet(observers)

(* The two mutexes exclude.                                                *)
OneRemover == \A t, u \in CenterHolders : t = u
OneHolder == \A id \in Ids : \A t, u \in ObserverHolders(id) : t = u

IInv == /\ StackOK
        /\ ListOK
        /\ FramesOK
        /\ ListedOK
        /\ OneRemover
        /\ OneHolder

-----------------------------------------------------------------------------
(* Sequences: the innermost call is replaced, pushed or popped, an element *)
(* of the list is erased or appended.                                      *)

(* A stack whose innermost call was replaced by c.                         *)
LEMMA ReplaceTop ==
  ASSUME NEW S, NEW s \in Seq(S), s # <<>>, NEW c \in S
  PROVE  LET r == <<c>> \o Tail(s)
         IN  /\ r \in Seq(S) /\ r # <<>> /\ Head(r) = c
             /\ Len(r) = Len(s)
             /\ \A i \in 2..Len(r) : r[i] = s[i]
             /\ ToSet(r) \subseteq ToSet(s) \cup {c}
<1> PICK r : r = <<c>> \o Tail(s)
  OBVIOUS
<1>1. /\ Tail(s) \in Seq(S)
      /\ Len(Tail(s)) = Len(s) - 1
      /\ \A i \in 1..Len(Tail(s)) : Tail(s)[i] = s[i + 1]
  BY HeadTailProperties
<1>2. <<c>> \in Seq(S) /\ Len(<<c>>) = 1 /\ <<c>>[1] = c
  OBVIOUS
<1>3. Len(s) \in Nat \ {0}
  BY EmptySeq
<1>4. /\ r \in Seq(S)
      /\ Len(r) = 1 + Len(Tail(s))
      /\ \A i \in 1..1 + Len(Tail(s)) : r[i] = IF i <= 1 THEN <<c>>[i] ELSE Tail(s)[i - 1]
  BY <1>1, <1>2, ConcatProperties
<1>5. Len(r) = Len(s)
  BY <1>1, <1>3, <1>4
<1>6. r[1] = c
  BY <1>2, <1>3, <1>4, <1>5
<1>7. \A i \in 2..Len(r) : r[i] = s[i]
  <2> TAKE i \in 2..Len(r)
  <2>1. r[i] = Tail(s)[i - 1]
    BY <1>1, <1>3, <1>4
  <2>2. i - 1 \in 1..Len(Tail(s)) /\ (i - 1) + 1 = i
    BY <1>1, <1>3, <1>5
  <2> QED BY <1>1, <2>1, <2>2
<1>8. r # <<>> /\ Head(r) = c
  BY <1>3, <1>4, <1>5, <1>6, EmptySeq
<1>9. ToSet(r) \subseteq ToSet(s) \cup {c}
  <2> SUFFICES ASSUME NEW i \in DOMAIN r PROVE r[i] \in ToSet(s) \cup {c}
    BY DEF ToSet
  <2>1. i \in 1..Len(r) /\ DOMAIN s = 1..Len(s)
    BY <1>4, LenProperties
  <2>2. i = 1 \/ (i \in 2..Len(r) /\ i \in DOMAIN s)
    BY <1>3, <1>5, <2>1
  <2> QED BY <1>6, <1>7, <2>2 DEF ToSet
<1> QED BY <1>4, <1>5, <1>7, <1>8, <1>9

(* A stack on which c was pushed.                                          *)
LEMMA PushTop ==
  ASSUME NEW S, NEW s \in Seq(S), NEW c \in S
  PROVE  LET r == <<c>> \o s
         IN  /\ r \in Seq(S) /\ r # <<>> /\ Head(r) = c
             /\ Len(r) = Len(s) + 1
             /\ \A i \in 2..Len(r) : i - 1 \in 1..Len(s) /\ r[i] = s[i - 1]
             /\ ToSet(r) \subseteq ToSet(s) \cup {c}
<1> PICK r : r = <<c>> \o s
  OBVIOUS
<1>2. <<c>> \in Seq(S) /\ Len(<<c>>) = 1 /\ <<c>>[1] = c
  OBVIOUS
<1>3. Len(s) \in Nat /\ DOMAIN s = 1..Len(s)
  BY LenProperties
<1>4. /\ r \in Seq(S)
      /\ Len(r) = 1 + Len(s)
      /\ \A i \in 1..1 + Len(s) : r[i] = IF i <= 1 THEN <<c>>[i] ELSE s[i - 1]
  BY <1>2, ConcatProperties
<1>6. r[1] = c
  BY <1>2, <1>3, <1>4
<1>7. \A i \in 2..Len(r) : i - 1 \in 1..Len(s) /\ r[i] = s[i - 1]
  BY <1>3, <1>4
<1>8. r # <<>> /\ Head(r) = c
  BY <1>3, <1>4, <1>6, EmptySeq
<1>9. ToSet(r) \subseteq ToSet(s) \cup {c}
  <2> SUFFICES ASSUME NEW i \in DOMAIN r PROVE r[i] \in ToSet(s) \cup {c}
    BY DEF ToSet
  <2>1. i \in 1..Len(r)
    BY <1>4, LenProperties
  <2>2. i = 1 \/ i \in 2..Len(r)
    BY <1>3, <1>4, <2>1
  <2> QED BY <1>3, <1>6, <1>7, <2>2 DEF ToSet
<1> QED BY <1>3, <1>4, <1>7, <1>8, <1>9

(* A stack whose innermost call returned.                                  *)
LEMMA PopTop ==
  ASSUME NEW S, NEW s \in Seq(S), s # <<>>
  PROVE  LET r == Tail(s)
         IN  /\ r \in Seq(S)
             /\ Len(r) = Len(s) - 1
             /\ \A i \in 1..Len(r) : i + 1 \in 2..Len(s) /\ r[i] = s[i + 1]
             /\ ToSet(r) \subseteq ToSet(s)
<1> PICK r : r = Tail(s)
  OBVIOUS
<1>1. /\ r \in Seq(S)
      /\ Len(r) = Len(s) - 1
      /\ \A i \in 1..Len(r) : r[i] = s[i + 1]
  BY HeadTailProperties
<1>2. Len(s) \in Nat \ {0} /\ DOMAIN s = 1..Len(s) /\ DOMAIN r = 1..Len(r)
  BY <1>1, EmptySeq, LenProperties
<1>3. \A i \in 1..Len(r) : i + 1 \in 2..Len(s) /\ r[i] = s[i + 1]
  BY <1>1, <1>2
<1>4. ToSet(r) \subseteq ToSet(s)
  <2> SUFFICES ASSUME NEW i \in DOMAIN r PROVE r[i] \in ToSet(s)
    BY DEF ToSet
  <2>1. i + 1 \in DOMAIN s /\ r[i] = s[i + 1]
    BY <1>2, <1>3
  <2> QED BY <2>1 DEF ToSet
<1> QED BY <1>1, <1>3, <1>4

(* The list after push_back of a clone that is not in it.                  *)
LEMMA Appended ==
  ASSUME NEW S, NEW s \in Seq(S), IsInjective(s), NEW e \in S, e \notin ToSet(s)
  PROVE  /\ Append(s, e) \in Seq(S)
         /\ IsInjective(Append(s, e))
         /\ ToSet(Append(s, e)) = ToSet(s) \cup {e}
<1> DEFINE r == Append(s, e)
<1>1. /\ r \in Seq(S) /\ Len(r) = Len(s) + 1
      /\ \A i \in 1..Len(s) : r[i] = s[i]
      /\ r[Len(s) + 1] = e
  BY AppendProperties
<1>2. Len(s) \in Nat /\ DOMAIN s = 1..Len(s) /\ DOMAIN r = 1..Len(s) + 1
  BY <1>1, LenProperties
<1>3. \A i \in DOMAIN r : (i \in DOMAIN s /\ r[i] = s[i]) \/ (i = Len(s) + 1 /\ r[i] = e)
  BY <1>1, <1>2
<1>4. DOMAIN s \subseteq DOMAIN r /\ Len(s) + 1 \in DOMAIN r
  BY <1>2
<1>5. \A i \in DOMAIN s : r[i] = s[i]
  BY <1>1, <1>2
<1>6. \A i \in DOMAIN s : s[i] # e
  BY DEF ToSet
<1> HIDE DEF r
<1>7. IsInjective(r)
  BY <1>3, <1>6 DEF IsInjective
<1>8. ToSet(r) = ToSet(s) \cup {e}
  BY <1>1, <1>3, <1>4, <1>5 DEF ToSet
<1> QED BY <1>1, <1>7, <1>8 DEF r

(* The list after erase.                                                   *)
LEMMA Erased ==
  ASSUME NEW S, NEW s \in Seq(S), IsInjective(s), NEW k \in DOMAIN s
  PROVE  /\ RemoveAt(s, k) \in Seq(S)
         /\ IsInjective(RemoveAt(s, k))
         /\ ToSet(RemoveAt(s, k)) = ToSet(s) \ {s[k]}
<1> DEFINE r == RemoveAt(s, k)
           a == SubSeq(s, 1, k - 1)
           b == SubSeq(s, k + 1, Len(s))
<1>1. Len(s) \in Nat /\ DOMAIN s = 1..Len(s) /\ k \in 1..Len(s)
  BY LenProperties
<1>2. \A i \in 1..Len(s) : s[i] \in S
  BY ElementOfSeq
<1>3. /\ a \in Seq(S)
      /\ Len(a) = k - 1
      /\ \A i \in 1..k - 1 : a[i] = s[i]
  <2>1. \A i \in 1..k - 1 : s[i] \in S
    BY <1>1, <1>2
  <2>2. /\ SubSeq(s, 1, k - 1) \in Seq(S)
        /\ Len(SubSeq(s, 1, k - 1)) = IF 1 <= k - 1 THEN (k - 1) - 1 + 1 ELSE 0
        /\ \A i \in 1..(k - 1) - 1 + 1 : SubSeq(s, 1, k - 1)[i] = s[1 + i - 1]
    BY <1>1, <2>1, SubSeqProperties
  <2> QED BY <1>1, <2>2
<1>4. /\ b \in Seq(S)
      /\ Len(b) = Len(s) - k
      /\ \A i \in 1..Len(s) - k : b[i] = s[k + i]
  <2>1. \A i \in k + 1..Len(s) : s[i] \in S
    BY <1>1, <1>2
  <2>2. /\ SubSeq(s, k + 1, Len(s)) \in Seq(S)
        /\ Len(SubSeq(s, k + 1, Len(s))) =
             IF k + 1 <= Len(s) THEN Len(s) - (k + 1) + 1 ELSE 0
        /\ \A i \in 1..Len(s) - (k + 1) + 1 : SubSeq(s, k + 1, Len(s))[i] = s[(k + 1) + i - 1]
    BY <1>1, <2>1, SubSeqProperties
  <2> QED BY <1>1, <2>2
<1>5. r = a \o b
  BY DEF RemoveAt
<1> HIDE DEF a, b, r
<1>6. /\ r \in Seq(S)
      /\ Len(r) = Len(a) + Len(b)
      /\ \A i \in 1..Len(a) + Len(b) : r[i] = IF i <= Len(a) THEN a[i] ELSE b[i - Len(a)]
  BY <1>3, <1>4, <1>5, ConcatProperties
<1>7. DOMAIN r = 1..Len(s) - 1
  BY <1>1, <1>3, <1>4, <1>6, LenProperties
<1>8. \A i \in DOMAIN r : r[i] = IF i < k THEN s[i] ELSE s[i + 1]
  <2> TAKE i \in DOMAIN r
  <2>1. i \in 1..Len(s) - 1
    BY <1>7
  <2>2. CASE i < k
    BY <1>1, <1>3, <1>4, <1>6, <2>1, <2>2
  <2>3. CASE ~(i < k)
    <3>1. r[i] = b[i - Len(a)]
      BY <1>1, <1>3, <1>4, <1>6, <2>1, <2>3
    <3>2. i - Len(a) \in 1..Len(s) - k /\ k + (i - Len(a)) = i + 1
      BY <1>1, <1>3, <2>1, <2>3
    <3> QED BY <1>4, <2>3, <3>1, <3>2
  <2> QED BY <2>2, <2>3
<1>9. IsInjective(r)
  <2> SUFFICES ASSUME NEW i \in DOMAIN r, NEW j \in DOMAIN r, r[i] = r[j] PROVE i = j
    BY DEF IsInjective
  <2> DEFINE m(x) == IF x < k THEN x ELSE x + 1
  <2>1. m(i) \in DOMAIN s /\ m(j) \in DOMAIN s /\ (m(i) = m(j) => i = j)
    BY <1>1, <1>7
  <2>2. r[i] = s[m(i)] /\ r[j] = s[m(j)]
    BY <1>8
  <2> QED BY <2>1, <2>2 DEF IsInjective
<1>10. ToSet(r) \subseteq ToSet(s) \ {s[k]}
  <2> SUFFICES ASSUME NEW i \in DOMAIN r PROVE r[i] \in ToSet(s) \ {s[k]}
    BY DEF ToSet
  <2>1. (i < k /\ i \in DOMAIN s) \/ (~(i < k) /\ i + 1 \in DOMAIN s /\ i + 1 # k)
    BY <1>1, <1>7
  <2>2. i < k => i # k
    BY <1>1, <1>7
  <2> QED BY <1>8, <2>1, <2>2 DEF ToSet, IsInjective
<1>11. ToSet(s) \ {s[k]} \subseteq ToSet(r)
  <2> SUFFICES ASSUME NEW i \in DOMAIN s, i # k PROVE s[i] \in ToSet(r)
    BY DEF ToSet
  <2>1. CASE i < k
    <3>1. i \in DOMAIN r
      BY <1>1, <1>7, <2>1
    <3> QED BY <1>8, <2>1, <3>1 DEF ToSet
  <2>2. CASE ~(i < k)
    <3>1. i - 1 \in DOMAIN r /\ ~(i - 1 < k) /\ (i - 1) + 1 = i
      BY <1>1, <1>7, <2>2
    <3>2. r[i - 1] = s[i]
      BY <1>8, <3>1
    <3> QED BY <3>1, <3>2 DEF ToSet
  <2> QED BY <2>1, <2>2
<1> QED BY <1>6, <1>9, <1>10, <1>11 DEF r

-----------------------------------------------------------------------------
(* What a step of one thread does to the frames.                           *)

OthersKeepStacks(t) == \A u \in Threads \ {t} : calls'[u] = calls[u]
NewFrame(t, c) == Frames(t)' \subseteq Frames(t) \cup {c}

(* The thread's innermost call goes on.                                    *)
LEMMA CallGoesOn ==
  ASSUME StackOK, NEW t \in Threads, calls[t] # <<>>, NEW c \in CallType, Step(t, c)
  PROVE  /\ StackOK' /\ OthersKeepStacks(t) /\ NewFrame(t, c)
         /\ calls'[t] # <<>> /\ Top(t)' = c
<1> PICK s \in Seq(CallType) : s = calls[t]
  BY DEF StackOK
<1> PICK r : r = <<c>> \o Tail(s)
  OBVIOUS
<1>1. /\ r \in Seq(CallType) /\ r # <<>> /\ Head(r) = c
      /\ Len(r) = Len(s)
      /\ \A i \in 2..Len(r) : r[i] = s[i]
      /\ ToSet(r) \subseteq ToSet(s) \cup {c}
  BY ReplaceTop
<1>2. /\ calls' = [calls EXCEPT ![t] = r]
      /\ calls'[t] = r
      /\ \A u \in Threads \ {t} : calls'[u] = calls[u]
  BY DEF Step, StackOK
<1>3. StackOK'
  <2>1. calls' \in [Threads -> Seq(CallType)]
    BY <1>1, <1>2 DEF StackOK
  <2>2. ASSUME NEW u \in Threads
        PROVE  Len(calls'[u]) <= MaxDepth /\ \A i \in 2..Len(calls'[u]) : calls'[u][i].at = "callback"
    <3>1. CASE u = t
      BY <1>1, <1>2, <3>1 DEF StackOK
    <3>2. CASE u # t
      BY <1>2, <3>2 DEF StackOK
    <3> QED BY <3>1, <3>2
  <2> QED BY <2>1, <2>2 DEF StackOK
<1> QED BY <1>1, <1>2, <1>3 DEF OthersKeepStacks, NewFrame, Frames, Top

(* The thread calls the center.                                            *)
LEMMA CallBegins ==
  ASSUME StackOK, NEW t \in Threads, calls[t] = <<>> \/ At(t, "callback"),
         Len(calls[t]) < MaxDepth, NEW c \in CallType,
         calls' = [calls EXCEPT ![t] = <<c>> \o @]
  PROVE  /\ StackOK' /\ OthersKeepStacks(t) /\ NewFrame(t, c)
         /\ calls'[t] # <<>> /\ Top(t)' = c
<1> USE NotificationCenterAssumption
<1> PICK s \in Seq(CallType) : s = calls[t]
  BY DEF StackOK
<1> PICK r : r = <<c>> \o s
  OBVIOUS
<1>1. /\ r \in Seq(CallType) /\ r # <<>> /\ Head(r) = c
      /\ Len(r) = Len(s) + 1
      /\ \A i \in 2..Len(r) : i - 1 \in 1..Len(s) /\ r[i] = s[i - 1]
      /\ ToSet(r) \subseteq ToSet(s) \cup {c}
  BY PushTop
<1>2. /\ calls' = [calls EXCEPT ![t] = r]
      /\ calls'[t] = r
      /\ \A u \in Threads \ {t} : calls'[u] = calls[u]
  BY DEF StackOK
<1>3. \A i \in 1..Len(s) : s[i].at = "callback"
  <2> TAKE i \in 1..Len(s)
  <2>1. s # <<>> /\ Len(s) \in Nat
    BY EmptySeq, LenProperties
  <2>2. Head(s).at = "callback"
    BY <2>1 DEF At, Top
  <2>3. i = 1 \/ i \in 2..Len(s)
    BY <2>1
  <2> QED BY <2>1, <2>2, <2>3 DEF StackOK
<1>4. StackOK'
  <2>1. calls' \in [Threads -> Seq(CallType)]
    BY <1>1, <1>2 DEF StackOK
  <2>2. ASSUME NEW u \in Threads
        PROVE  Len(calls'[u]) <= MaxDepth /\ \A i \in 2..Len(calls'[u]) : calls'[u][i].at = "callback"
    <3>1. CASE u = t
      <4>1. Len(s) \in Nat
        BY LenProperties
      <4> QED BY <1>1, <1>2, <1>3, <3>1, <4>1 DEF StackOK
    <3>2. CASE u # t
      BY <1>2, <3>2 DEF StackOK
    <3> QED BY <3>1, <3>2
  <2> QED BY <2>1, <2>2 DEF StackOK
<1> QED BY <1>1, <1>2, <1>4 DEF OthersKeepStacks, NewFrame, Frames, Top

(* The innermost call returns, or an exception leaves it: the thread is in *)
(* the callback the call was made from, or outside.                        *)
LEMMA CallEnds ==
  ASSUME StackOK, NEW t \in Threads, calls[t] # <<>>, Return(t)
  PROVE  /\ StackOK' /\ OthersKeepStacks(t)
         /\ Frames(t)' \subseteq Frames(t)
         /\ calls'[t] = <<>> \/ At(t, "callback")'
<1> PICK s \in Seq(CallType) : s = calls[t]
  BY DEF StackOK
<1> PICK r : r = Tail(s)
  OBVIOUS
<1>1. /\ r \in Seq(CallType)
      /\ Len(r) = Len(s) - 1
      /\ \A i \in 1..Len(r) : i + 1 \in 2..Len(s) /\ r[i] = s[i + 1]
      /\ ToSet(r) \subseteq ToSet(s)
  BY PopTop
<1>2. /\ calls' = [calls EXCEPT ![t] = r]
      /\ calls'[t] = r
      /\ \A u \in Threads \ {t} : calls'[u] = calls[u]
  BY DEF Return, StackOK
<1>3. \A i \in 1..Len(r) : r[i].at = "callback"
  BY <1>1 DEF StackOK
<1>4. Len(r) \in Nat /\ Len(s) \in Nat
  BY <1>1, LenProperties
<1>5. StackOK'
  <2>1. calls' \in [Threads -> Seq(CallType)]
    BY <1>1, <1>2 DEF StackOK
  <2>2. ASSUME NEW u \in Threads
        PROVE  Len(calls'[u]) <= MaxDepth /\ \A i \in 2..Len(calls'[u]) : calls'[u][i].at = "callback"
    <3>1. CASE u = t
      <4>1. Len(s) <= MaxDepth
        BY DEF StackOK
      <4>2. Len(r) <= MaxDepth
        BY <1>1, <1>4, <4>1, NotificationCenterAssumption
      <4>3. \A i \in 2..Len(r) : r[i].at = "callback"
        BY <1>3, <1>4
      <4> QED BY <1>2, <3>1, <4>2, <4>3
    <3>2. CASE u # t
      BY <1>2, <3>2 DEF StackOK
    <3> QED BY <3>1, <3>2
  <2> QED BY <2>1, <2>2 DEF StackOK
<1>6. r = <<>> \/ Head(r).at = "callback"
  <2> SUFFICES ASSUME r # <<>> PROVE Head(r).at = "callback"
    OBVIOUS
  <2>1. 1 \in 1..Len(r)
    BY <1>1, EmptySeq
  <2>2. Head(r) = r[1]
    OBVIOUS
  <2> QED BY <1>3, <2>1, <2>2
<1> QED BY <1>1, <1>2, <1>5, <1>6 DEF OthersKeepStacks, Frames, At, Top

(* The innermost call is a frame.                                          *)
LEMMA TopIsFrame ==
  ASSUME StackOK, NEW t \in Threads, calls[t] # <<>>
  PROVE  Top(t) \in CallType /\ Top(t) \in Frames(t)
<1>1. calls[t] \in Seq(CallType)
  BY DEF StackOK
<1>2. Len(calls[t]) \in Nat \ {0} /\ DOMAIN calls[t] = 1..Len(calls[t])
  BY <1>1, EmptySeq, LenProperties
<1>3. Top(t) = calls[t][1] /\ calls[t][1] \in CallType
  BY <1>1, <1>2, ElementOfSeq DEF Top
<1> QED BY <1>2, <1>3 DEF Frames, ToSet

(* A clone that is referred to after the step was referred to before, or   *)
(* is in the list, or the new call refers to it.                           *)
LEMMA AliveFrom ==
  ASSUME NEW t \in Threads, NEW c, OthersKeepStacks(t), NewFrame(t, c)
  PROVE  Alive' \subseteq ToSet(observers)' \cup Alive \cup Refs(c)
<1> SUFFICES ASSUME NEW u \in Threads, NEW f \in Frames(u)'
             PROVE  Refs(f) \subseteq Alive \cup Refs(c)
  BY DEF Alive
<1>1. f \in Frames(u) \/ f = c
  BY DEF OthersKeepStacks, NewFrame, Frames
<1> QED BY <1>1 DEF Alive

(* A call that ends leaves fewer frames: the mutexes it held are free.     *)
LEMMA HeldBefore ==
  ASSUME NEW t \in Threads, OthersKeepStacks(t), Frames(t)' \subseteq Frames(t),
         calls'[t] = <<>> \/ At(t, "callback")'
  PROVE  /\ CenterHolders' \subseteq CenterHolders \ {t}
         /\ \A id : ObserverHolders(id)' \subseteq ObserverHolders(id)
         /\ Alive' \subseteq ToSet(observers)' \cup Alive
<1>1. CenterHolders' \subseteq CenterHolders \ {t}
  BY DEF CenterHolders, At, Top, OthersKeepStacks
<1>2. \A u \in Threads : Frames(u)' \subseteq Frames(u)
  BY DEF OthersKeepStacks, Frames
<1>3. \A id : ObserverHolders(id)' \subseteq ObserverHolders(id)
  BY <1>2 DEF ObserverHolders
<1>4. Alive' \subseteq ToSet(observers)' \cup Alive
  BY <1>2 DEF Alive
<1> QED BY <1>1, <1>3, <1>4

(* A step that takes a mutex nobody holds, or none, and refers to clones   *)
(* that are referred to keeps the invariant.                               *)
LEMMA FrameAdded ==
  ASSUME IInv, NEW t \in Threads, NEW c \in CallType,
         StackOK', OthersKeepStacks(t), NewFrame(t, c), Top(t)' = c,
         UNCHANGED <<observers, target>>,
         FrameOK(c), Refs(c) \subseteq Alive,
         c.at = "callback" => ObserverHolders(c.id) = {},
         c.at = "disable" => CenterHolders = {}
  PROVE  IInv'
<1>1. ListOK'
  BY DEF IInv, ListOK
<1>2. \A u \in Threads : \A f \in Frames(u)' : f \in Frames(u) \/ (u = t /\ f = c)
  BY DEF OthersKeepStacks, NewFrame, Frames
<1>3. FramesOK'
  BY <1>2 DEF IInv, FramesOK, FrameOK
<1>4. ListedOK'
  <2>1. Alive' \subseteq Alive
    BY AliveFrom DEF Alive
  <2> QED BY <2>1 DEF IInv, ListedOK
<1>5. OneRemover'
  <2>1. CASE c.at = "disable"
    BY <2>1 DEF OneRemover, CenterHolders, At, Top, OthersKeepStacks
  <2>2. CASE c.at # "disable"
    BY <2>2 DEF IInv, OneRemover, CenterHolders, At, Top, OthersKeepStacks
  <2> QED BY <2>1, <2>2
<1>6. OneHolder'
  <2> SUFFICES ASSUME NEW id \in Ids, NEW u \in ObserverHolders(id)', NEW v \in ObserverHolders(id)'
               PROVE  u = v
    BY DEF OneHolder
  <2>1. CASE c.at = "callback" /\ c.id = id
    BY <1>2, <2>1 DEF ObserverHolders
  <2>2. CASE ~(c.at = "callback" /\ c.id = id)
    BY <1>2, <2>2 DEF IInv, OneHolder, ObserverHolders
  <2> QED BY <2>1, <2>2
<1> QED BY <1>1, <1>3, <1>4, <1>5, <1>6 DEF IInv

(* A call that ends and changes nothing else keeps the invariant.          *)
LEMMA FrameDropped ==
  ASSUME IInv, NEW t \in Threads, calls[t] # <<>>, Return(t),
         UNCHANGED <<observers, target>>
  PROVE  IInv'
<1>1. /\ StackOK' /\ OthersKeepStacks(t) /\ Frames(t)' \subseteq Frames(t)
      /\ calls'[t] = <<>> \/ At(t, "callback")'
  BY CallEnds DEF IInv
<1>2. /\ CenterHolders' \subseteq CenterHolders \ {t}
      /\ \A id : ObserverHolders(id)' \subseteq ObserverHolders(id)
      /\ Alive' \subseteq ToSet(observers)' \cup Alive
  BY <1>1, HeldBefore
<1>3. ListOK'
  BY DEF IInv, ListOK
<1>4. FramesOK'
  <2>1. \A u \in Threads : Frames(u)' \subseteq Frames(u)
    BY <1>1 DEF OthersKeepStacks, Frames
  <2> QED BY <2>1 DEF IInv, FramesOK, FrameOK
<1>5. ListedOK'
  <2>1. Alive' \subseteq Alive
    BY <1>2 DEF Alive
  <2> QED BY <2>1 DEF IInv, ListedOK
<1>6. OneRemover' /\ OneHolder'
  BY <1>2 DEF IInv, OneRemover, OneHolder
<1> QED BY <1>1, <1>3, <1>4, <1>5, <1>6 DEF IInv

-----------------------------------------------------------------------------
(* The invariant holds: one lemma per kind of action.                      *)

(* What the innermost call is and refers to.                               *)
LEMMA TopOK ==
  ASSUME IInv, NEW t \in Threads, calls[t] # <<>>
  PROVE  Top(t) \in CallType /\ FrameOK(Top(t)) /\ Refs(Top(t)) \subseteq Alive
<1>1. Top(t) \in CallType /\ Top(t) \in Frames(t)
  BY TopIsFrame DEF IInv
<1> QED BY <1>1 DEF IInv, FramesOK, Alive

(* The clones that something refers to are clones. *)
LEMMA AliveAreIds ==
  ASSUME IInv
  PROVE  Alive \subseteq Ids
<1>1. ToSet(observers) \subseteq Ids
  BY LenProperties DEF IInv, ListOK, ToSet
<1>2. ASSUME NEW t \in Threads, NEW f \in Frames(t)
      PROVE  Refs(f) \subseteq Ids
  <2>1. calls[t] \in Seq(CallType)
    BY DEF IInv, StackOK
  <2>2. f \in CallType
    BY <2>1, LenProperties DEF Frames, ToSet
  <2>3. f.todo \in Seq(Ids)
    BY <2>2 DEF CallType
  <2>4. ToSet(f.todo) \subseteq Ids
    BY <2>3, LenProperties DEF ToSet
  <2> QED BY <2>4 DEF Refs
<1> QED BY <1>1, <1>2 DEF Alive

(* No thread calls, and the list is empty. *)
LEMMA InitIInv == Init => IInv
<1> SUFFICES ASSUME Init PROVE IInv
  OBVIOUS
<1> USE NotificationCenterAssumption
<1>1. <<>> \in Seq(CallType) /\ <<>> \in Seq(Ids) /\ Len(<<>>) = 0 /\ DOMAIN <<>> = {}
  BY EmptySeq
<1>2. \A t \in Threads : calls[t] = <<>>
  BY DEF Init
<1>3. StackOK
  BY <1>1, <1>2 DEF StackOK, Init
<1>4. ListOK
  BY <1>1 DEF ListOK, Init, IsInjective
<1>5. \A t \in Threads : Frames(t) = {}
  BY <1>1, <1>2 DEF Frames, ToSet
<1>6. FramesOK /\ Alive = {}
  BY <1>1, <1>5 DEF FramesOK, Alive, Init, ToSet
<1>7. CenterHolders = {} /\ \A id : ObserverHolders(id) = {}
  BY <1>2, <1>5 DEF CenterHolders, ObserverHolders, At
<1> QED BY <1>3, <1>4, <1>6, <1>7 DEF IInv, ListedOK, OneRemover, OneHolder

(* A call starts, from outside or from a callback. *)
LEMMA CallKeeps ==
  ASSUME IInv, NEW t \in Threads, NEW op \in Ops, NEW x \in Targets \cup {NoTarget},
         op = "addObserver" => x \in Targets, Call(t, op, x)
  PROVE  IInv'
<1> DEFINE c == [op |-> op, arg |-> x, at |-> "lock", id |-> NoTarget, todo |-> <<>>]
<1>1. c \in CallType
  BY EmptySeq DEF CallType
<1>2. StackOK' /\ OthersKeepStacks(t) /\ NewFrame(t, c) /\ Top(t)' = c
  BY <1>1, CallBegins DEF IInv, Call
<1>3. FrameOK(c)
  BY DEF FrameOK
<1>4. Refs(c) = {}
  BY NotificationCenterAssumption, EmptySeq DEF Refs, ToSet
<1>5. c.at = "lock" /\ UNCHANGED <<observers, target>>
  BY DEF Call
<1> HIDE DEF c
<1> QED BY <1>1, <1>2, <1>3, <1>4, <1>5, FrameAdded

(* addObserver: a clone nothing refers to goes into the list. *)
LEMMA AddObserverKeeps ==
  ASSUME IInv, NEW t \in Threads, AddObserver(t)
  PROVE  IInv'
<1>1. calls[t] # <<>> /\ Return(t)
  BY DEF AddObserver, Doing, At
<1>2. /\ StackOK' /\ OthersKeepStacks(t) /\ Frames(t)' \subseteq Frames(t)
      /\ calls'[t] = <<>> \/ At(t, "callback")'
  BY <1>1, CallEnds DEF IInv
<1>3. /\ CenterHolders' \subseteq CenterHolders \ {t}
      /\ \A id : ObserverHolders(id)' \subseteq ObserverHolders(id)
      /\ Alive' \subseteq ToSet(observers)' \cup Alive
  BY <1>2, HeldBefore
<1>4. PICK id \in Ids \ Alive : /\ observers' = Append(observers, id)
                                /\ target' = [target EXCEPT ![id] = Top(t).arg]
  BY DEF AddObserver
<1>5. Top(t).arg \in Targets /\ Top(t).arg # NoTarget
  <2>1. FrameOK(Top(t)) /\ Top(t).op = "addObserver"
    BY <1>1, TopOK DEF AddObserver, Doing
  <2> QED BY <2>1, NotificationCenterAssumption DEF FrameOK
<1>6. /\ observers' \in Seq(Ids) /\ IsInjective(observers')
      /\ ToSet(observers') = ToSet(observers) \cup {id}
  BY <1>4, Appended DEF IInv, ListOK, Alive
<1>7. /\ target' \in [Ids -> Targets \cup {NoTarget}]
      /\ target'[id] # NoTarget
      /\ \A i \in Ids \ {id} : target'[i] = target[i]
  BY <1>4, <1>5 DEF IInv, ListOK
<1>8. ListOK'
  BY <1>6, <1>7 DEF ListOK
<1>9. FramesOK'
  <2> SUFFICES ASSUME NEW u \in Threads, NEW f \in Frames(u)' PROVE FrameOK(f)'
    BY DEF FramesOK
  <2>1. f \in Frames(u)
    BY <1>2 DEF OthersKeepStacks, Frames
  <2> QED BY <1>7, <2>1 DEF IInv, FramesOK, FrameOK
<1>10. ListedOK'
  <2> SUFFICES ASSUME NEW i \in Alive' PROVE (target[i] # NoTarget <=> i \in ToSet(observers))'
    BY DEF ListedOK
  <2>1. i = id \/ (i \in Alive /\ i # id)
    BY <1>3, <1>4, <1>6 DEF Alive
  <2>2. i \in Alive => i \in Ids
    BY AliveAreIds
  <2> QED BY <1>6, <1>7, <2>1, <2>2 DEF IInv, ListedOK
<1>11. OneRemover' /\ OneHolder'
  BY <1>3 DEF IInv, OneRemover, OneHolder
<1> QED BY <1>2, <1>8, <1>9, <1>10, <1>11 DEF IInv

(* hasObserver. *)
LEMMA HasObserverKeeps ==
  ASSUME IInv, NEW t \in Threads, HasObserver(t)
  PROVE  IInv'
BY FrameDropped DEF HasObserver, Doing, At

(* removeObserver, up to disable(), with the center's mutex. *)
LEMMA RemoveObserverKeeps ==
  ASSUME IInv, NEW t \in Threads, RemoveObserver(t)
  PROVE  IInv'
<1>1. calls[t] # <<>> /\ UNCHANGED <<observers, target>> /\ CenterHolders = {}
  BY DEF RemoveObserver, Doing, At
<1>2. CASE Return(t)
  BY <1>1, <1>2, FrameDropped
<1>3. ASSUME NEW i \in Equal(t),
             Step(t, [Top(t) EXCEPT !.at = "disable", !.id = observers[i]])
      PROVE  IInv'
  <2> PICK c : c = [Top(t) EXCEPT !.at = "disable", !.id = observers[i]]
    OBVIOUS
  <2>1. observers[i] \in Ids /\ observers[i] \in ToSet(observers)
    BY LenProperties, ElementOfSeq DEF Equal, IInv, ListOK, ToSet
  <2>2. Top(t) \in CallType /\ FrameOK(Top(t)) /\ Refs(Top(t)) \subseteq Alive
    BY <1>1, TopOK
  <2>3. c \in CallType /\ c.at = "disable"
    BY <2>1, <2>2 DEF CallType
  <2>4. FrameOK(c)
    BY <2>2, <2>3 DEF FrameOK, CallType
  <2>5. Refs(c) \subseteq Alive
    BY <2>1, <2>2 DEF Refs, CallType, Alive
  <2>6. Step(t, c)
    BY <1>3
  <2>7. StackOK' /\ OthersKeepStacks(t) /\ NewFrame(t, c) /\ Top(t)' = c
    BY <1>1, <2>3, <2>6, CallGoesOn DEF IInv
  <2> QED BY <1>1, <2>3, <2>4, <2>5, <2>7, FrameAdded
<1> QED BY <1>2, <1>3 DEF RemoveObserver

(* disable() gets the observer's mutex: the clone is out of the list. *)
LEMMA DisableKeeps ==
  ASSUME IInv, NEW t \in Threads, Disable(t)
  PROVE  IInv'
<1>1. calls[t] # <<>> /\ Return(t) /\ t \in CenterHolders
  BY DEF Disable, At, CenterHolders
<1>2. /\ StackOK' /\ OthersKeepStacks(t) /\ Frames(t)' \subseteq Frames(t)
      /\ calls'[t] = <<>> \/ At(t, "callback")'
  BY <1>1, CallEnds DEF IInv
<1>3. /\ CenterHolders' \subseteq CenterHolders \ {t}
      /\ \A id : ObserverHolders(id)' \subseteq ObserverHolders(id)
      /\ Alive' \subseteq ToSet(observers)' \cup Alive
  BY <1>2, HeldBefore
<1>4. PICK id : id = Top(t).id
  OBVIOUS
<1>5. /\ ObserverHolders(id) = {}
      /\ target' = [target EXCEPT ![id] = NoTarget]
      /\ Erase(id)
  BY <1>4 DEF Disable
<1>6. PICK k \in DOMAIN observers : observers[k] = id /\ observers' = RemoveAt(observers, k)
  BY <1>5 DEF Erase
<1>7. id \in Ids
  BY <1>6, LenProperties, ElementOfSeq DEF IInv, ListOK
<1>8. /\ observers' \in Seq(Ids) /\ IsInjective(observers')
      /\ ToSet(observers') = ToSet(observers) \ {id}
  BY <1>6, Erased DEF IInv, ListOK
<1>9. /\ target' \in [Ids -> Targets \cup {NoTarget}]
      /\ target'[id] = NoTarget
      /\ \A i \in Ids \ {id} : target'[i] = target[i]
  BY <1>5, <1>7 DEF IInv, ListOK
<1>10. ListOK'
  BY <1>8, <1>9 DEF ListOK
<1>11. FramesOK'
  <2> SUFFICES ASSUME NEW u \in Threads, NEW f \in Frames(u)' PROVE FrameOK(f)'
    BY DEF FramesOK
  <2>1. f \in Frames(u)
    BY <1>2 DEF OthersKeepStacks, Frames
  <2>2. f.at = "callback" => f.id # id
    BY <1>5, <2>1 DEF ObserverHolders
  <2> QED BY <1>9, <2>1, <2>2 DEF IInv, FramesOK, FrameOK
<1>12. ListedOK'
  <2>1. Alive' \subseteq Alive /\ Alive \subseteq Ids
    BY <1>3, <1>8, AliveAreIds DEF Alive
  <2> QED BY <1>8, <1>9, <2>1 DEF IInv, ListedOK
<1>13. OneRemover' /\ OneHolder'
  BY <1>3 DEF IInv, OneRemover, OneHolder
<1> QED BY <1>2, <1>10, <1>11, <1>12, <1>13 DEF IInv

(* postNotification copies the list. *)
LEMMA PostNotificationKeeps ==
  ASSUME IInv, NEW t \in Threads, PostNotification(t)
  PROVE  IInv'
<1>1. /\ calls[t] # <<>> /\ UNCHANGED <<observers, target>>
      /\ Top(t).at = "lock"
  BY DEF PostNotification, Doing, At
<1> PICK c : c = [Top(t) EXCEPT !.at = "notify", !.todo = observers]
  OBVIOUS
<1>2. Top(t) \in CallType /\ FrameOK(Top(t)) /\ Refs(Top(t)) \subseteq Alive
  BY <1>1, TopOK
<1>3. c \in CallType /\ c.at = "notify" /\ c.todo = observers
  BY <1>2 DEF CallType, IInv, ListOK
<1>4. FrameOK(c)
  BY <1>2, <1>3 DEF FrameOK, CallType
<1>5. Refs(c) \subseteq Alive
  BY <1>2, <1>3 DEF Refs, CallType, Alive
<1>6. Step(t, c)
  BY DEF PostNotification
<1>7. StackOK' /\ OthersKeepStacks(t) /\ NewFrame(t, c) /\ Top(t)' = c
  BY <1>1, <1>3, <1>6, CallGoesOn DEF IInv
<1> QED BY <1>1, <1>3, <1>4, <1>5, <1>7, FrameAdded

(* notify: it skips a clone that is disabled, or enters the callback. *)
LEMMA NotifyKeeps ==
  ASSUME IInv, NEW t \in Threads, Notify(t)
  PROVE  IInv'
<1>1. /\ calls[t] # <<>> /\ UNCHANGED <<observers, target>>
      /\ Top(t).at = "notify" /\ Top(t).todo # <<>>
  BY DEF Notify, At
<1>2. PICK id : id = Head(Top(t).todo)
  OBVIOUS
<1>3. Top(t) \in CallType /\ FrameOK(Top(t)) /\ Refs(Top(t)) \subseteq Alive
  BY <1>1, TopOK
<1>4. /\ Top(t).todo \in Seq(Ids) /\ Tail(Top(t).todo) \in Seq(Ids)
      /\ id \in Ids /\ id \in ToSet(Top(t).todo)
      /\ ToSet(Tail(Top(t).todo)) \subseteq ToSet(Top(t).todo)
  <2>1. Top(t).todo \in Seq(Ids)
    BY <1>3 DEF CallType
  <2>2. /\ Tail(Top(t).todo) \in Seq(Ids)
        /\ ToSet(Tail(Top(t).todo)) \subseteq ToSet(Top(t).todo)
    BY <1>1, <2>1, PopTop
  <2>3. 1 \in DOMAIN Top(t).todo /\ id = Top(t).todo[1]
    BY <1>1, <1>2, <2>1, EmptySeq, LenProperties
  <2>4. id \in ToSet(Top(t).todo) /\ id \in Ids
    BY <2>1, <2>3, LenProperties DEF ToSet
  <2> QED BY <2>1, <2>2, <2>4
<1>5. CASE Step(t, [Top(t) EXCEPT !.todo = Tail(@)])
  <2> PICK c : c = [Top(t) EXCEPT !.todo = Tail(@)]
    OBVIOUS
  <2>1. c \in CallType /\ c.at = "notify"
    BY <1>1, <1>3, <1>4 DEF CallType
  <2>2. FrameOK(c)
    BY <1>3, <2>1 DEF FrameOK, CallType
  <2>3. Refs(c) \subseteq Alive
    BY <1>3, <1>4 DEF Refs, CallType
  <2>4. Step(t, c)
    BY <1>5
  <2>5. StackOK' /\ OthersKeepStacks(t) /\ NewFrame(t, c) /\ Top(t)' = c
    BY <1>1, <2>1, <2>4, CallGoesOn DEF IInv
  <2> QED BY <1>1, <2>1, <2>2, <2>3, <2>5, FrameAdded
<1>6. CASE /\ target[id] # NoTarget
           /\ Step(t, [Top(t) EXCEPT !.todo = Tail(@), !.at = "callback", !.id = id])
  <2> PICK c : c = [Top(t) EXCEPT !.todo = Tail(@), !.at = "callback", !.id = id]
    OBVIOUS
  <2>1. c \in CallType /\ c.at = "callback" /\ c.id = id
    BY <1>3, <1>4 DEF CallType
  <2>2. FrameOK(c)
    BY <1>3, <1>4, <1>6, <2>1 DEF FrameOK, CallType
  <2>3. Refs(c) \subseteq Alive
    BY <1>3, <1>4 DEF Refs, CallType
  <2>4. Step(t, c)
    BY <1>6
  <2>5. StackOK' /\ OthersKeepStacks(t) /\ NewFrame(t, c) /\ Top(t)' = c
    BY <1>1, <2>1, <2>4, CallGoesOn DEF IInv
  <2>6. ObserverHolders(id) = {}
    BY <1>2 DEF Notify
  <2> QED BY <1>1, <2>1, <2>2, <2>3, <2>5, <2>6, FrameAdded
<1> QED BY <1>2, <1>5, <1>6 DEF Notify

(* The callback returns, and the loop goes on. *)
LEMMA CallbackReturnsKeeps ==
  ASSUME IInv, NEW t \in Threads, CallbackReturns(t)
  PROVE  IInv'
<1>1. /\ calls[t] # <<>> /\ UNCHANGED <<observers, target>>
      /\ Top(t).at = "callback"
  BY DEF CallbackReturns, At
<1> PICK c : c = [Top(t) EXCEPT !.at = "notify", !.id = NoTarget]
  OBVIOUS
<1>2. Top(t) \in CallType /\ FrameOK(Top(t)) /\ Refs(Top(t)) \subseteq Alive
  BY <1>1, TopOK
<1>3. c \in CallType /\ c.at = "notify" /\ c.id = NoTarget
  BY <1>2 DEF CallType
<1>4. FrameOK(c)
  BY <1>2, <1>3 DEF FrameOK, CallType
<1>5. Refs(c) \subseteq Alive
  BY <1>2, <1>3, NotificationCenterAssumption DEF Refs, CallType
<1>6. Step(t, c)
  BY DEF CallbackReturns
<1>7. StackOK' /\ OthersKeepStacks(t) /\ NewFrame(t, c) /\ Top(t)' = c
  BY <1>1, <1>3, <1>6, CallGoesOn DEF IInv
<1> QED BY <1>1, <1>3, <1>4, <1>5, <1>7, FrameAdded

(* A step that changes nothing. *)
LEMMA StutteringKeeps == IInv /\ UNCHANGED vars => IInv'
BY DEF vars, IInv, StackOK, ListOK, FramesOK, FrameOK, ListedOK, OneRemover, OneHolder,
       Alive, Refs, Frames, CenterHolders, ObserverHolders, At, Top

(* The invariant is inductive.                                             *)
THEOREM Invariance == Spec => []IInv
<1>1. IInv /\ [Next]_vars => IInv'
  <2> SUFFICES ASSUME IInv, [Next]_vars PROVE IInv'
    OBVIOUS
  <2>1. CASE UNCHANGED vars
    BY <2>1, StutteringKeeps
  <2>2. ASSUME NEW t \in Threads, NEW x \in Targets,
               Call(t, "addObserver", x) \/ Call(t, "removeObserver", x)
        PROVE  IInv'
    BY <2>2, CallKeeps DEF Ops
  <2>3. ASSUME NEW t \in Threads,
               Call(t, "postNotification", NoTarget) \/ Call(t, "hasObserver", NoTarget)
        PROVE  IInv'
    BY <2>3, CallKeeps DEF Ops
  <2>4. ASSUME NEW t \in Threads, AddObserver(t) PROVE IInv'
    BY <2>4, AddObserverKeeps
  <2>5. ASSUME NEW t \in Threads, HasObserver(t) PROVE IInv'
    BY <2>5, HasObserverKeeps
  <2>6. ASSUME NEW t \in Threads, RemoveObserver(t) PROVE IInv'
    BY <2>6, RemoveObserverKeeps
  <2>7. ASSUME NEW t \in Threads, Disable(t) PROVE IInv'
    BY <2>7, DisableKeeps
  <2>8. ASSUME NEW t \in Threads, PostNotification(t) PROVE IInv'
    BY <2>8, PostNotificationKeeps
  <2>9. ASSUME NEW t \in Threads, Notify(t) PROVE IInv'
    BY <2>9, NotifyKeeps
  <2>10. ASSUME NEW t \in Threads, CallbackReturns(t) PROVE IInv'
    BY <2>10, CallbackReturnsKeeps
  <2>11. ASSUME NEW t \in Threads, CallbackThrows(t) \/ PostReturns(t) PROVE IInv'
    BY <2>11, FrameDropped DEF CallbackThrows, PostReturns, At
  <2> QED BY <2>1, <2>2, <2>3, <2>4, <2>5, <2>6, <2>7, <2>8, <2>9, <2>10, <2>11 DEF Next
<1> QED BY <1>1, InitIInv, PTL DEF Spec

-----------------------------------------------------------------------------
(* What the runs check.                                                    *)

(* The list and the copies of it are well formed: no clone is in the list  *)
(* twice.                                                                  *)
THEOREM TypeCorrect == Spec => []TypeOK
<1>1. IInv => TypeOK
  BY DEF IInv, StackOK, ListOK, TypeOK
<1> QED BY <1>1, Invariance, PTL

(* Observer::notify calls no object whose removeObserver has returned:     *)
(* the observer's mutex is held while the callback runs and disable()      *)
(* waits for it before the observer is erased.                             *)
THEOREM CallsReachTheRegistered == Spec => []CalledWhileRegistered
<1>1. IInv => CalledWhileRegistered
  <2> SUFFICES ASSUME IInv, NEW id \in Ids, NEW t \in ObserverHolders(id)
               PROVE  id \in ToSet(observers) /\ target[id] # NoTarget
    BY DEF CalledWhileRegistered
  <2>1. PICK f \in Frames(t) : f.at = "callback" /\ f.id = id
    BY DEF ObserverHolders
  <2>2. t \in Threads
    BY DEF ObserverHolders
  <2>3. target[id] # NoTarget
    BY <2>1, <2>2 DEF IInv, FramesOK, FrameOK
  <2>4. id \in Alive
    BY <2>1, <2>2 DEF Alive, Refs
  <2> QED BY <2>3, <2>4 DEF IInv, ListedOK
<1> QED BY <1>1, Invariance, PTL

(* postNotification calls from a copy of the list that may be stale: the   *)
(* observers that are only in a copy are disabled.                         *)
THEOREM StaleCopiesAreDisabled == Spec => []StaleCopiesDisabled
<1>1. IInv => StaleCopiesDisabled
  BY DEF IInv, StackOK, ListOK, TypeOK, ListedOK, StaleCopiesDisabled
<1> QED BY <1>1, Invariance, PTL

(* The observer's mutex lets one thread at a time into its callback.       *)
THEOREM CallbacksExclude == Spec => []OneCallbackPerObserver
<1>1. IInv => OneCallbackPerObserver
  <2> SUFFICES ASSUME IInv, NEW id \in Ids PROVE Cardinality(ObserverHolders(id)) <= 1
    BY DEF OneCallbackPerObserver
  <2>1. CASE ObserverHolders(id) = {}
    BY <2>1, FS_EmptySet
  <2>2. ASSUME NEW t \in ObserverHolders(id) PROVE Cardinality(ObserverHolders(id)) = 1
    <3>1. ObserverHolders(id) = {t}
      BY DEF IInv, OneHolder
    <3> QED BY <3>1, FS_Singleton
  <2> QED BY <2>1, <2>2
<1> QED BY <1>1, Invariance, PTL

(* Threads that wait for each other hold mutexes, and a thread that waits  *)
(* holds an observer's only if it has called the center from the callback. *)
LEMMA WaitingInCallback ==
  ASSUME StackOK, NEW S \in SUBSET Threads, Deadlocked(S), NEW id, NEW u \in S,
         u \in ObserverHolders(id)
  PROVE  Len(calls[u]) > 1 /\ InCallback(u)
<1>1. PICK f \in Frames(u) : f.at = "callback"
  BY DEF ObserverHolders
<1>2. InCallback(u)
  BY <1>1 DEF InCallback
<1>3. calls[u] \in Seq(CallType)
  BY DEF StackOK
<1>4. PICK i \in 1..Len(calls[u]) : f = calls[u][i]
  BY <1>3, LenProperties DEF Frames, ToSet
<1>5. ~At(u, "callback")
  BY DEF Deadlocked, WaitsFor, At
<1>6. Len(calls[u]) \in Nat
  BY <1>3, LenProperties
<1>7. calls[u] # <<>>
  BY <1>4, EmptySeq
<1>8. calls[u][1].at # "callback"
  BY <1>5, <1>7 DEF At, Top
<1>9. i # 1
  BY <1>1, <1>4, <1>8
<1> QED BY <1>2, <1>4, <1>6, <1>9

(* Somebody in a deadlock is in a callback and calls the center from it,   *)
(* and somebody waits in disable() or in a nested postNotification: the    *)
(* mutex of the center alone never closes a circle, since posting gives it *)
(* back before it calls.                                                   *)
THEOREM DeadlocksNeedCallbacks == Spec => []DeadlockNeedsRemoval
<1>1. IInv => DeadlockNeedsRemoval
  <2> SUFFICES ASSUME IInv, NEW S \in SUBSET Threads, Deadlocked(S)
               PROVE  /\ \E t \in S : Len(calls[t]) > 1 /\ InCallback(t)
                      /\ \E t \in S : At(t, "disable") \/ (At(t, "notify") /\ Len(calls[t]) > 1)
    BY DEF DeadlockNeedsRemoval
  <2> USE DEF IInv
  <2>1. ASSUME NEW t \in S
        PROVE  \/ At(t, "lock") /\ \E u \in S : At(u, "disable")
               \/ (At(t, "disable") \/ At(t, "notify")) /\ \E id : \E u \in S : u \in ObserverHolders(id)
    BY DEF Deadlocked, WaitsFor, CenterHolders
  <2>2. \E id : \E u \in S : u \in ObserverHolders(id)
    <3>1. PICK t \in S : TRUE
      BY DEF Deadlocked
    <3>2. ASSUME NEW u \in S, At(u, "disable")
          PROVE  \E id : \E v \in S : v \in ObserverHolders(id)
      <4>1. ~At(u, "lock")
        BY <3>2 DEF At
      <4> QED BY <2>1, <4>1
    <3> QED BY <2>1, <3>1, <3>2
  <2>3. PICK id : \E u \in S : u \in ObserverHolders(id)
    BY <2>2
  <2>4. PICK u \in S : Len(calls[u]) > 1 /\ InCallback(u)
    BY <2>3, WaitingInCallback
  <2>5. \E t \in S : At(t, "disable") \/ (At(t, "notify") /\ Len(calls[t]) > 1)
    BY <2>1, <2>4
  <2> QED BY <2>4, <2>5
<1> QED BY <1>1, Invariance, PTL

(* A callback that removes its own observer waits in disable() for the     *)
(* mutex of the callback itself: no step of any thread ends the wait, and  *)
(* the list stays as it is, for its thread keeps the center's mutex.       *)
THEOREM RemovingOneselfHangs == Spec => SelfRemovalHangs
<1>1. IInv /\ [Next]_vars => [\A t \in Threads : SelfRemoval(t) =>
                                SelfRemoval(t)' /\ observers' = observers]_vars
  <2> SUFFICES ASSUME IInv, [Next]_vars, NEW t \in Threads, SelfRemoval(t)
               PROVE  SelfRemoval(t)' /\ observers' = observers
    OBVIOUS
  <2>1. At(t, "disable") /\ t \in CenterHolders /\ ObserverHolders(Top(t).id) # {}
    BY DEF SelfRemoval, CenterHolders
  <2>2. calls[t] # <<>> /\ Top(t).at = "disable"
    BY <2>1 DEF At
  <2>3. CASE UNCHANGED vars
    BY <2>3 DEF vars, SelfRemoval, At, Top, ObserverHolders, Frames
  <2>4. ASSUME observers' = observers, calls'[t] = calls[t]
        PROVE  SelfRemoval(t)' /\ observers' = observers
    BY <2>4 DEF SelfRemoval, At, Top, ObserverHolders, Frames
  <2>5. ASSUME NEW u \in Threads \ {t}, Step(u, [Top(u) EXCEPT !.at = "lock"]) \/ Return(u)
        PROVE  calls'[t] = calls[t]
    BY <2>5 DEF Step, Return, IInv, StackOK
  <2>6. ASSUME NEW u \in Threads, NEW op, NEW x, Call(u, op, x)
        PROVE  observers' = observers /\ calls'[t] = calls[t]
    <3>1. u # t
      BY <2>2, <2>6 DEF Call, At
    <3> QED BY <2>6, <3>1 DEF Call, IInv, StackOK
  <2>7. ASSUME NEW u \in Threads, AddObserver(u) \/ HasObserver(u) \/ RemoveObserver(u) \/ PostNotification(u)
        PROVE  FALSE
    BY <2>1, <2>7 DEF AddObserver, HasObserver, RemoveObserver, PostNotification
  <2>8. ASSUME NEW u \in Threads, Disable(u)
        PROVE  FALSE
    <3>1. u = t
      BY <2>1, <2>8 DEF Disable, CenterHolders, IInv, OneRemover
    <3> QED BY <2>1, <2>8, <3>1 DEF Disable
  <2>9. ASSUME NEW u \in Threads, Notify(u)
        PROVE  observers' = observers /\ calls'[t] = calls[t]
    <3>1. u # t
      BY <2>2, <2>9 DEF Notify, At
    <3>2. PICK c : Step(u, c)
      BY <2>9 DEF Notify
    <3> QED BY <2>9, <3>1, <3>2 DEF Notify, Step, IInv, StackOK
  <2>10. ASSUME NEW u \in Threads, CallbackReturns(u)
         PROVE  observers' = observers /\ calls'[t] = calls[t]
    <3>1. u # t
      BY <2>2, <2>10 DEF CallbackReturns, At
    <3> QED BY <2>10, <3>1 DEF CallbackReturns, Step, IInv, StackOK
  <2>11. ASSUME NEW u \in Threads, CallbackThrows(u) \/ PostReturns(u)
         PROVE  observers' = observers /\ calls'[t] = calls[t]
    <3>1. u # t
      BY <2>2, <2>11 DEF CallbackThrows, PostReturns, At
    <3> QED BY <2>11, <3>1 DEF CallbackThrows, PostReturns, Return, IInv, StackOK
  <2> QED BY <2>3, <2>4, <2>6, <2>7, <2>8, <2>9, <2>10, <2>11 DEF Next
<1> QED BY <1>1, Invariance, PTL DEF Spec, SelfRemovalHangs
==============================================================================
