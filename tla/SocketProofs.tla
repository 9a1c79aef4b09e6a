------------------------------ MODULE SocketProofs ------------------------------
(***************************************************************************)
(* The invariants of ServerSocket and the action properties of             *)
(* SocketReactor, for any number of objects, descriptors, threads,         *)
(* acceptors and notifiers.                                                *)
(*                                                                         *)
(* ServerSocket: a number stands for one file at a time.  Those who own    *)
(* the file together are copies of each other; whoever else carries the    *)
(* number has it from an earlier socket, and the owner is in contested.    *)
(*                                                                         *)
(* SocketReactor: calls look a notifier up and work on it later, so the    *)
(* argument is about what is still true of it by then.  Calls at the same  *)
(* time on one number know of each other (PairOK), and a call that met     *)
(* none that could disturb it may rely on what it read (AddOK, RemovalOK). *)
(* Each step of a call changes one entry of the map, one list and one call *)
(* (Effect), which is all the others' invariants need to know.             *)
(***************************************************************************)
EXTENDS SocketReactor, TLAPS, SequenceTheorems, NaturalsInduction, WellFoundedInduction

-----------------------------------------------------------------------------
(* The observer lists.                                                     *)

(* find() of a list that has a returns a place where it is. *)
LEMMA FirstThere ==
  ASSUME NEW s \in Seq(Acceptors), NEW a \in ToSet(s)
  PROVE  FirstOf(s, a) \in DOMAIN s /\ s[FirstOf(s, a)] = a
<1> DEFINE I == {i \in DOMAIN s : s[i] = a}
<1>1. I # {} /\ I \subseteq Nat
  <2>1. DOMAIN s = 1..Len(s) /\ Len(s) \in Nat
    BY LenProperties
  <2>2. \E i \in DOMAIN s : s[i] = a
    BY DEF ToSet
  <2> QED BY <2>1, <2>2
<1>2. PICK i \in I : \A j \in I : <<j, i>> \notin OpToRel(<, Nat)
  BY <1>1, WFMin, NatLessThanWellFounded, Zenon
<1>3. \A j \in I : ~(j < i)
  BY <1>1, <1>2, Zenon DEF OpToRel
<1>4. \A j \in I : i <= j
  BY <1>1, <1>3
<1>5. i \in DOMAIN s /\ s[i] = a /\ \A j \in DOMAIN s : s[j] = a => i <= j
  BY <1>4
<1> QED BY <1>5, Zenon DEF FirstOf

(* removeObserver takes one occurrence of a out of the list, if there is one. *)
LEMMA WithoutOne ==
  ASSUME NEW s \in Seq(Acceptors), NEW a
  PROVE  LET r == Without(s, a)
         IN  /\ r \in Seq(Acceptors)
             /\ Len(r) \in Nat /\ Len(s) \in Nat /\ Len(s) - 1 <= Len(r) /\ Len(r) <= Len(s)
             /\ ToSet(r) \subseteq ToSet(s)
             /\ ToSet(s) \ {a} \subseteq ToSet(r)
             /\ a \in ToSet(r) => \E i, j \in DOMAIN s : i # j /\ s[i] = a /\ s[j] = a
<1>1. CASE a \notin ToSet(s)
  <2>1. Without(s, a) = s /\ Len(s) \in Nat
    BY <1>1 DEF Without
  <2> QED BY <1>1, <2>1
<1>2. CASE a \in ToSet(s)
  <2>1. PICK k : k = FirstOf(s, a)
    OBVIOUS
  <2>2. k \in DOMAIN s /\ s[k] = a
    BY <1>2, <2>1, FirstThere
  <2>3. PICK r : r = RemoveAt(s, k)
    OBVIOUS
  <2>4. Without(s, a) = r
    BY <1>2, <2>1, <2>3 DEF Without
  <2>5. Len(s) \in Nat /\ DOMAIN s = 1..Len(s) /\ k \in 1..Len(s)
    BY <2>2, LenProperties
  <2>6. \A i \in 1..Len(s) : s[i] \in Acceptors
    BY ElementOfSeq
  <2> DEFINE before == SubSeq(s, 1, k - 1)
             after  == SubSeq(s, k + 1, Len(s))
  <2>7. /\ before \in Seq(Acceptors) /\ Len(before) = k - 1
        /\ \A i \in 1..k - 1 : before[i] = s[i]
    <3>1. \A i \in 1..k - 1 : s[i] \in Acceptors
      BY <2>5, <2>6
    <3>2. /\ SubSeq(s, 1, k - 1) \in Seq(Acceptors)
          /\ Len(SubSeq(s, 1, k - 1)) = IF 1 <= k - 1 THEN (k - 1) - 1 + 1 ELSE 0
          /\ \A i \in 1..(k - 1) - 1 + 1 : SubSeq(s, 1, k - 1)[i] = s[1 + i - 1]
      BY <2>5, <3>1, SubSeqProperties
    <3> QED BY <2>5, <3>2
  <2>8. /\ after \in Seq(Acceptors) /\ Len(after) = Len(s) - k
        /\ \A i \in 1..Len(s) - k : after[i] = s[k + i]
    <3>1. \A i \in k + 1..Len(s) : s[i] \in Acceptors
      BY <2>5, <2>6
    <3>2. /\ SubSeq(s, k + 1, Len(s)) \in Seq(Acceptors)
          /\ Len(SubSeq(s, k + 1, Len(s))) =
               IF k + 1 <= Len(s) THEN Len(s) - (k + 1) + 1 ELSE 0
          /\ \A i \in 1..Len(s) - (k + 1) + 1 : SubSeq(s, k + 1, Len(s))[i] = s[(k + 1) + i - 1]
      BY <2>5, <3>1, SubSeqProperties
    <3>3. k \in Nat /\ 1 <= k /\ k <= Len(s) /\ Len(s) \in Nat
      BY <2>5
    <3>4. Len(s) - (k + 1) + 1 = Len(s) - k
      BY <2>5, <3>3
    <3>5. ~(k + 1 <= Len(s)) => Len(s) - k = 0
      BY ONLY <3>3
    <3>6. \A i \in 1..Len(s) - k : (k + 1) + i - 1 = k + i
      BY <2>5, <3>3
    <3> QED BY <3>2, <3>4, <3>5, <3>6
  <2>9. r = before \o after
    BY <2>3 DEF RemoveAt
  <2> HIDE DEF before, after
  <2>10. /\ r \in Seq(Acceptors)
         /\ Len(r) = Len(before) + Len(after)
         /\ \A i \in 1..Len(before) + Len(after) :
              r[i] = IF i <= Len(before) THEN before[i] ELSE after[i - Len(before)]
    BY <2>7, <2>8, <2>9, ConcatProperties
  <2>11. Len(r) = Len(s) - 1 /\ DOMAIN r = 1..Len(s) - 1
    BY <2>5, <2>7, <2>8, <2>10, LenProperties
  <2>12. \A i \in DOMAIN r : r[i] = IF i < k THEN s[i] ELSE s[i + 1]
    <3> TAKE i \in DOMAIN r
    <3>1. i \in 1..Len(s) - 1
      BY <2>11
    <3>2. CASE i < k
      BY <2>5, <2>7, <2>8, <2>10, <3>1, <3>2
    <3>3. CASE ~(i < k)
      <4>1. r[i] = after[i - Len(before)]
        BY <2>5, <2>7, <2>8, <2>10, <3>1, <3>3
      <4>2. i - Len(before) \in 1..Len(s) - k /\ k + (i - Len(before)) = i + 1
        BY <2>5, <2>7, <3>1, <3>3
      <4> QED BY <2>8, <3>3, <4>1, <4>2
    <3> QED BY <3>2, <3>3
  <2>13. \A i \in DOMAIN r : \E j \in DOMAIN s : j # k /\ s[j] = r[i]
    <3> TAKE i \in DOMAIN r
    <3>1. CASE i < k
      BY <2>5, <2>11, <2>12, <3>1
    <3>2. CASE ~(i < k)
      <4>1. i + 1 \in DOMAIN s /\ i + 1 # k
        BY <2>5, <2>11, <3>2
      <4> QED BY <2>12, <3>2, <4>1
    <3> QED BY <3>1, <3>2
  <2>14. ToSet(s) \ {a} \subseteq ToSet(r)
    <3> SUFFICES ASSUME NEW i \in DOMAIN s, s[i] # a PROVE s[i] \in ToSet(r)
      BY DEF ToSet
    <3>1. CASE i < k
      <4>1. i \in DOMAIN r
        BY <2>5, <2>11, <3>1
      <4> QED BY <2>12, <3>1, <4>1 DEF ToSet
    <3>2. CASE ~(i < k)
      <4>1. i - 1 \in DOMAIN r /\ ~(i - 1 < k) /\ (i - 1) + 1 = i
        BY <2>2, <2>5, <2>11, <3>2
      <4>2. r[i - 1] = s[i]
        BY <2>12, <4>1
      <4> QED BY <4>1, <4>2 DEF ToSet
    <3> QED BY <3>1, <3>2
  <2>15. ToSet(r) \subseteq ToSet(s)
    BY <2>13 DEF ToSet
  <2>16. a \in ToSet(r) => \E i, j \in DOMAIN s : i # j /\ s[i] = a /\ s[j] = a
    BY <2>2, <2>13 DEF ToSet
  <2>17. Len(r) \in Nat /\ Len(s) - 1 <= Len(r) /\ Len(r) <= Len(s)
    BY <2>5, <2>11
  <2> QED BY <2>4, <2>5, <2>10, <2>14, <2>15, <2>16, <2>17
<1> QED BY <1>1, <1>2

(* addObserver: push_back. *)
LEMMA AppendOne ==
  ASSUME NEW s \in Seq(Acceptors), NEW a \in Acceptors
  PROVE  /\ Append(s, a) \in Seq(Acceptors)
         /\ Len(Append(s, a)) = Len(s) + 1 /\ Len(s) \in Nat
         /\ ToSet(Append(s, a)) = ToSet(s) \cup {a}
<1> PICK r : r = Append(s, a)
  OBVIOUS
<1>1. /\ r \in Seq(Acceptors) /\ Len(r) = Len(s) + 1
      /\ \A i \in 1..Len(s) : r[i] = s[i]
      /\ r[Len(s) + 1] = a
  BY AppendProperties
<1>2. Len(s) \in Nat /\ DOMAIN s = 1..Len(s) /\ DOMAIN r = 1..Len(s) + 1
  BY <1>1, LenProperties
<1>3. \A i \in DOMAIN r : (i \in DOMAIN s /\ r[i] = s[i]) \/ r[i] = a
  BY <1>1, <1>2
<1>4. DOMAIN s \subseteq DOMAIN r /\ Len(s) + 1 \in DOMAIN r
  BY <1>2
<1>5. \A i \in DOMAIN s : r[i] = s[i]
  BY <1>1, <1>2
<1>6. ToSet(r) = ToSet(s) \cup {a}
  BY <1>1, <1>3, <1>4, <1>5 DEF ToSet
<1> QED BY <1>1, <1>2, <1>6

(* Nobody is in the empty list. *)
LEMMA EmptyList ==
  /\ <<>> \in Seq(Acceptors) /\ Len(<<>>) = 0
  /\ \A a : a \notin ToSet(<<>>)
<1>1. <<>> \in Seq(Acceptors) /\ Len(<<>>) = 0 /\ DOMAIN <<>> = {}
  BY EmptySeq
<1> QED BY <1>1 DEF ToSet

(* A list of one acceptor. *)
LEMMA OneElement ==
  ASSUME NEW s \in Seq(Acceptors), Len(s) = 1, NEW a \in ToSet(s)
  PROVE  ToSet(s) \subseteq {a}
<1>1. DOMAIN s = {1}
  BY LenProperties
<1> QED BY <1>1 DEF ToSet

-----------------------------------------------------------------------------
(* ServerSocket.                                                           *)

USE ServerSocketAssumption DEF INVALID_SOCKET

(* A number that is some file's has one owner, or its owners are copies of *)
(* each other; and who shares a number otherwise is in contested.          *)
Owners ==
  /\ \A o \in own : sockfd[o] \in open
  /\ \A o \in own \ copied : Holders(sockfd[o]) \cap own = {o}
  /\ \A o \in Objects \ (copied \cup contested) :
       sockfd[o] \in Fds => o \in own /\ Holders(sockfd[o]) = {o}

(* What is proved of ServerSocket. *)
SocketInv ==
  /\ SocketTypeOK
  /\ Owners
  /\ NoDescriptorLost
  /\ NoDataIsNoTimeout

(* An object with a number, reading from a file without data. *)
LEMMA ReceiveTells ==
  ASSUME NEW o \in Objects, sockfd[o] # INVALID_SOCKET
  PROVE  ReceiveBytes(o, "EAGAIN") = -1 <=> o \notin blocking
BY DEF ReceiveBytes

(* NoDataIsNoTimeout in terms of the state alone. *)
FlagRight == \A o \in Objects \ (copied \cup contested) :
  sockfd[o] \in nonblock => o \notin blocking

(* FlagRight is NoDataIsNoTimeout. *)
LEMMA FlagIsEnough ==
  ASSUME SocketTypeOK
  PROVE  NoDataIsNoTimeout <=> FlagRight
<1>1. \A o \in Objects : sockfd[o] \in nonblock => sockfd[o] # INVALID_SOCKET
  BY DEF SocketTypeOK
<1> QED BY <1>1, ReceiveTells DEF NoDataIsNoTimeout, FlagRight

(* No object exists and no number is open. *)
LEMMA Initially == SocketInit => SocketInv
<1> SUFFICES ASSUME SocketInit PROVE SocketInv
  OBVIOUS
<1>1. SocketTypeOK
  BY DEF SocketInit, SocketTypeOK
<1>2. Owners
  BY DEF SocketInit, Owners
<1>3. NoDescriptorLost
  BY DEF SocketInit, NoDescriptorLost
<1>4. NoDataIsNoTimeout
  BY DEF SocketInit, NoDataIsNoTimeout
<1> QED BY <1>1, <1>2, <1>3, <1>4 DEF SocketInv

(* The parts of the invariant a step has to restore, as facts about it.    *)
Core == SocketTypeOK /\ Owners /\ NoDescriptorLost /\ FlagRight

(* The steps keep Core, which says the same. *)
LEMMA CoreIsSocketInv == SocketInv <=> Core
BY FlagIsEnough DEF SocketInv, Core

(* What a step may do to an owner: the action of KeepsDescriptor. *)
Keeps ==
  \A o \in own \ copied :
    \/ o \in own'
    \/ sockfd'[o] # sockfd[o]
    \/ o \in contested /\ \E p \in Holders(sockfd[o]) \ own : sockfd'[p] # sockfd[p]

(* Whoever carries a number that is not open will contend with the next    *)
(* socket that gets it, unless it is a copy.                               *)
LEMMA StaleAreTold ==
  ASSUME Core, NEW fd \in Fds \ open
  PROVE  /\ Holders(fd) \subseteq copied \cup contested
         /\ Holders(fd) \cap own = {}
BY DEF Core, Owners, Holders, SocketTypeOK

-----------------------------------------------------------------------------
(* The steps.                                                              *)

(* A descriptor opened for o, which had none, with flags set or not. *)
LEMMA OpenedKeeps ==
  ASSUME Core, NEW o \in Objects, sockfd[o] \notin Fds,
         NEW fd \in Fds \ open, Opened(o, fd),
         \/ UNCHANGED <<nonblock, blocking>>
         \/ nonblock' = nonblock \cup {fd} /\ blocking' = blocking \ {o}
  PROVE  Core' /\ Keeps
<1>1. Holders(fd) \subseteq copied \cup contested /\ Holders(fd) \cap own = {}
  BY StaleAreTold
<1>2. SocketTypeOK'
  BY DEF Core, SocketTypeOK, Opened
<1>3. /\ sockfd'[o] = fd /\ open' = open \cup {fd} /\ own' = own \cup {o} /\ o \notin own
      /\ \A x \in Objects \ {o} : sockfd'[x] = sockfd[x]
  BY DEF Core, SocketTypeOK, Opened, Owners
<1>4. Holders(fd)' = Holders(fd) \cup {o}
  BY <1>3 DEF Holders
<1>5. \A x \in own : x # o /\ sockfd[x] # fd /\ sockfd'[x] = sockfd[x]
  BY <1>3 DEF Core, Owners, SocketTypeOK
<1>6. \A k \in Fds \ {fd} : Holders(k)' = Holders(k)
  BY <1>3 DEF Holders
<1>7. \A x \in own' : sockfd'[x] \in open'
  BY <1>3, <1>5 DEF Core, Owners
<1>8. ASSUME NEW x \in own' \ copied' PROVE Holders(sockfd[x])' \cap own' = {x}
  <2>1. CASE x = o
    BY <1>1, <1>3, <1>4, <2>1
  <2>2. CASE x # o
    <3>1. x \in own \ copied /\ sockfd[x] \in Fds \ {fd}
      BY <1>3, <1>5, <1>8, <2>2 DEF Opened, Core, Owners, SocketTypeOK
    <3>2. Holders(sockfd[x])' = Holders(sockfd[x]) /\ o \notin Holders(sockfd[x])
      BY <1>5, <1>6, <3>1 DEF Holders
    <3> QED BY <1>3, <3>1, <3>2 DEF Core, Owners
  <2> QED BY <2>1, <2>2
<1>9. ASSUME NEW x \in Objects, x \notin copied', x \notin contested', sockfd'[x] \in Fds
      PROVE  x \in own' /\ Holders(sockfd[x])' = {x}
  <2>1. CASE x = o
    <3>1. Holders(fd) = {}
      BY <1>9, <2>1 DEF Opened
    <3> QED BY <1>3, <1>4, <2>1, <3>1
  <2>2. CASE x # o
    <3>1. x \notin copied /\ x \notin contested /\ sockfd[x] \in Fds
      BY <1>3, <1>9, <2>2 DEF Opened
    <3>2. x \in own /\ Holders(sockfd[x]) = {x}
      BY <3>1 DEF Core, Owners
    <3> QED BY <1>3, <1>5, <1>6, <3>1, <3>2
  <2> QED BY <2>1, <2>2
<1>10. Owners'
  BY <1>7, <1>8, <1>9 DEF Owners
<1>11. NoDescriptorLost'
  BY DEF Core, NoDescriptorLost, Opened, Holders, SocketTypeOK
<1>12. FlagRight'
  <2> SUFFICES ASSUME NEW x \in Objects, x \notin copied', x \notin contested',
                      sockfd'[x] \in nonblock'
               PROVE  x \notin blocking'
    BY DEF FlagRight
  <2>1. CASE x = o
    BY <1>3, <2>1 DEF Core, SocketTypeOK
  <2>2. CASE x # o
    <3>1. x \notin copied /\ x \notin contested /\ sockfd'[x] = sockfd[x]
      BY <1>3, <2>2 DEF Opened
    <3>2. sockfd[x] # fd
      BY <1>1, <3>1 DEF Holders
    <3> QED BY <3>1, <3>2 DEF Core, FlagRight
  <2> QED BY <2>1, <2>2
<1>13. Keeps
  BY <1>3 DEF Keeps
<1> QED BY <1>2, <1>10, <1>11, <1>12, <1>13 DEF Core

(* The numbers of the objects in S are closed, and these keep none. *)
LEMMA ClosedKeeps ==
  ASSUME Core, NEW S \in SUBSET Objects, NEW none \in {INVALID_SOCKET, NoObject},
         Closed({sockfd[o] : o \in S} \cap Fds, S),
         sockfd' = [o \in Objects |-> IF o \in S THEN none ELSE sockfd[o]],
         blocking' \subseteq blocking
  PROVE  Core' /\ Keeps
<1>1. SocketTypeOK'
  BY DEF Core, SocketTypeOK, Closed
<1>2. PICK nums : nums = {sockfd[o] : o \in S} \cap Fds
  OBVIOUS
<1>3. /\ open' = open \ nums /\ own' = {o \in own : sockfd[o] \notin nums}
      /\ copied' = copied \ S /\ contested' = contested \ S
      /\ overwritten' = overwritten \ nums /\ nonblock' = nonblock \ nums
  BY <1>2 DEF Closed
<1>4. \A x \in own : sockfd[x] \in open /\ sockfd[x] \in Fds
  BY DEF Core, Owners, SocketTypeOK
<1>5. \A x \in own' : x \in own /\ x \notin S /\ sockfd'[x] = sockfd[x]
  BY <1>2, <1>3, <1>4 DEF Core, SocketTypeOK
<1>6. none \notin Fds
  BY DEF Core
<1>7. \A k \in Fds : Holders(k)' = Holders(k) \ S
  BY <1>6 DEF Holders
<1>8. \A x \in own' : sockfd'[x] \in open'
  BY <1>3, <1>4, <1>5
<1>9. ASSUME NEW x \in own' \ copied' PROVE Holders(sockfd[x])' \cap own' = {x}
  <2>1. x \in own \ copied /\ x \notin S /\ sockfd'[x] = sockfd[x] /\ sockfd[x] \in Fds
    BY <1>3, <1>4, <1>5, <1>9
  <2>2. Holders(sockfd[x])' = Holders(sockfd[x]) \ S
    BY <1>7, <2>1
  <2>3. Holders(sockfd[x]) \cap own = {x}
    BY <2>1 DEF Core, Owners
  <2> QED BY <1>5, <1>9, <2>1, <2>2, <2>3
<1>10. ASSUME NEW x \in Objects, x \notin copied', x \notin contested', sockfd'[x] \in Fds
       PROVE  x \in own' /\ Holders(sockfd[x])' = {x}
  <2>1. x \notin S /\ sockfd'[x] = sockfd[x]
    BY <1>6, <1>10
  <2>2. x \notin copied /\ x \notin contested /\ sockfd[x] \in Fds
    BY <1>3, <1>10, <2>1
  <2>3. x \in own /\ Holders(sockfd[x]) = {x}
    BY <2>2 DEF Core, Owners
  <2>4. sockfd[x] \notin nums
    BY <1>2, <2>1, <2>3 DEF Holders
  <2> QED BY <1>3, <1>7, <2>1, <2>2, <2>3, <2>4
<1>11. Owners'
  BY <1>8, <1>9, <1>10 DEF Owners
<1>12. NoDescriptorLost'
  <2> SUFFICES ASSUME NEW fd \in open', fd \notin overwritten' PROVE Holders(fd)' # {}
    BY DEF NoDescriptorLost
  <2>1. fd \in open /\ fd \notin overwritten /\ fd \notin nums
    BY <1>3
  <2>2. PICK x \in Objects : sockfd[x] = fd
    BY <2>1 DEF Core, NoDescriptorLost, Holders
  <2>3. x \notin S
    BY <1>2, <2>1, <2>2 DEF Core, SocketTypeOK
  <2> QED BY <2>2, <2>3 DEF Holders
<1>13. FlagRight'
  <2> SUFFICES ASSUME NEW x \in Objects, x \notin copied', x \notin contested',
                      sockfd'[x] \in nonblock'
               PROVE  x \notin blocking'
    BY DEF FlagRight
  <2>1. x \notin S /\ sockfd'[x] = sockfd[x]
    BY <1>1, <1>6 DEF SocketTypeOK
  <2> QED BY <1>3, <2>1 DEF Core, FlagRight
<1>14. Keeps
  <2> SUFFICES ASSUME NEW o \in own \ copied, o \notin own', sockfd'[o] = sockfd[o]
               PROVE  o \in contested /\ \E p \in Holders(sockfd[o]) \ own : sockfd'[p] # sockfd[p]
    BY DEF Keeps
  <2>1. sockfd[o] \in Fds /\ sockfd[o] \in nums /\ o \in Objects
    BY <1>3, <1>4 DEF Core, SocketTypeOK
  <2>2. PICK p \in S : sockfd[p] = sockfd[o]
    BY <1>2, <2>1
  <2>3. sockfd'[p] # sockfd[p] /\ p # o /\ p \in Holders(sockfd[o])
    BY <1>6, <2>1, <2>2 DEF Holders
  <2>4. p \notin own
    BY <2>3 DEF Core, Owners
  <2>5. o \in contested
    BY <2>1, <2>3 DEF Core, Owners
  <2> QED BY <2>3, <2>4, <2>5
<1> QED BY <1>1, <1>11, <1>12, <1>13, <1>14 DEF Core

(* Objects that are destroyed at a time take their numbers with them. *)
LEMMA DestroyAllKeeps ==
  ASSUME Core, NEW S \in SUBSET Objects, DestroyAll(S)
  PROVE  Core' /\ Keeps
<1>1. blocking' \subseteq blocking /\ NoObject \in {INVALID_SOCKET, NoObject}
  BY DEF DestroyAll
<1> QED BY <1>1, ClosedKeeps DEF DestroyAll

(* Copies and what they are made of are in copied. *)
LEMMA CopyAllKeeps ==
  ASSUME Core, NEW S \in SUBSET Objects, \A o \in S : ~Exists(o),
         NEW p \in Objects, Exists(p), CopyAll(S, p)
  PROVE  Core' /\ Keeps
<1>1. p \notin S /\ \A o \in S : sockfd[o] \notin Fds
  BY DEF Exists
<1>2. SocketTypeOK'
  BY DEF Core, SocketTypeOK, CopyAll
<1>3. /\ \A x \in S : sockfd'[x] = sockfd[p]
      /\ \A x \in Objects \ S : sockfd'[x] = sockfd[x]
  BY DEF CopyAll
<1>4. \A x \in own : x \notin S /\ sockfd[x] \in open /\ sockfd[x] \in Fds
  BY <1>1 DEF Core, Owners, SocketTypeOK
<1>5. \A x \in own' : x \in own \/ (x \in S /\ p \in own)
  BY DEF CopyAll
<1>6. \A x \in own' : sockfd'[x] \in open'
  BY <1>3, <1>4, <1>5 DEF CopyAll, Core, SocketTypeOK
<1>7. ASSUME NEW x \in own' \ copied' PROVE Holders(sockfd[x])' \cap own' = {x}
  <2>1. x \in own \ copied /\ x \notin S /\ (p \in own => x # p)
    BY <1>4, <1>5, <1>7 DEF CopyAll
  <2>2. sockfd'[x] = sockfd[x] /\ x \in Objects
    BY <1>3, <2>1 DEF Core, SocketTypeOK
  <2>3. Holders(sockfd[x]) \cap own = {x}
    BY <2>1 DEF Core, Owners
  <2>4. p \in own => sockfd[p] # sockfd[x]
    BY <2>1, <2>3 DEF Holders
  <2>5. ASSUME NEW y \in Holders(sockfd[x])', y \in own' PROVE y = x
    <3>1. y \in Objects /\ sockfd'[y] = sockfd[x]
      BY <2>2, <2>5 DEF Holders
    <3>2. CASE y \in S
      BY <1>3, <1>4, <1>5, <2>4, <2>5, <3>1, <3>2
    <3>3. CASE y \notin S
      BY <1>3, <1>5, <2>3, <2>5, <3>1, <3>3 DEF Holders
    <3> QED BY <3>2, <3>3
  <2>6. x \in Holders(sockfd[x])'
    BY <2>2 DEF Holders
  <2> QED BY <1>7, <2>5, <2>6
<1>8. ASSUME NEW x \in Objects, x \notin copied', x \notin contested', sockfd'[x] \in Fds
      PROVE  x \in own' /\ Holders(sockfd[x])' = {x}
  <2>1. x \notin S /\ x \notin copied /\ x \notin contested
    BY <1>3, <1>8 DEF CopyAll
  <2>2. sockfd'[x] = sockfd[x]
    BY <1>3, <2>1
  <2>3. x \in own /\ Holders(sockfd[x]) = {x}
    BY <1>8, <2>1, <2>2 DEF Core, Owners
  <2>4. sockfd[p] # sockfd[x]
    <3> SUFFICES ASSUME sockfd[p] = sockfd[x] PROVE FALSE
      OBVIOUS
    <3>1. p = x
      BY <2>3 DEF Holders
    <3> QED BY <1>8, <2>2, <3>1 DEF CopyAll
  <2> QED BY <1>3, <2>2, <2>3, <2>4 DEF CopyAll, Holders
<1>9. Owners'
  BY <1>6, <1>7, <1>8 DEF Owners
<1>10. NoDescriptorLost'
  BY <1>1 DEF Core, NoDescriptorLost, CopyAll, Holders, SocketTypeOK
<1>11. FlagRight'
  <2> SUFFICES ASSUME NEW x \in Objects, x \notin copied', x \notin contested',
                      sockfd'[x] \in nonblock'
               PROVE  x \notin blocking'
    BY DEF FlagRight
  <2>1. sockfd'[x] \in Fds
    BY <1>2 DEF SocketTypeOK
  <2>2. x \notin S /\ x \notin copied /\ x \notin contested
    BY <1>3, <2>1 DEF CopyAll
  <2> QED BY <1>3, <2>2 DEF Core, FlagRight, CopyAll
<1>12. Keeps
  BY DEF Keeps, CopyAll
<1> QED BY <1>2, <1>9, <1>10, <1>11, <1>12 DEF Core

(* operator= makes the two objects copies, and may lose a descriptor. *)
LEMMA AssignKeeps ==
  ASSUME Core, NEW o \in Objects, NEW p \in Objects, Assign(o, p)
  PROVE  Core' /\ Keeps
<1>1. SocketTypeOK'
  BY DEF Core, SocketTypeOK, Assign
<1>2. /\ o # p /\ sockfd'[o] = sockfd[p]
      /\ \A x \in Objects \ {o} : sockfd'[x] = sockfd[x]
  BY DEF Core, SocketTypeOK, Assign
<1>3. \A x \in own : sockfd[x] \in open /\ sockfd[x] \in Fds
  BY DEF Core, Owners, SocketTypeOK
<1>4. /\ \A x \in own' : x # o => x \in own
      /\ o \in own' => p \in own \/ (o \in own /\ sockfd[o] = sockfd[p])
  BY DEF Assign
<1>5. \A x \in own' : sockfd'[x] \in open'
  BY <1>2, <1>3, <1>4 DEF Assign, Core, SocketTypeOK
<1>6. sockfd[p] \in Fds => o \in copied' /\ p \in copied'
  BY DEF Assign
<1>7. ASSUME NEW x \in Objects, x \notin copied', sockfd'[x] \in Fds
      PROVE  x # o /\ x \notin copied /\ sockfd'[x] = sockfd[x] /\ (sockfd[p] \in Fds => x # p)
  BY <1>2, <1>6, <1>7 DEF Assign
<1>8. ASSUME NEW x \in own' \ copied' PROVE Holders(sockfd[x])' \cap own' = {x}
  <2>1. x \in Objects /\ sockfd'[x] \in Fds
    BY <1>1, <1>5, <1>8 DEF SocketTypeOK
  <2>2. x # o /\ x \notin copied /\ sockfd'[x] = sockfd[x] /\ (sockfd[p] \in Fds => x # p)
    BY <1>7, <1>8, <2>1
  <2>3. Holders(sockfd[x]) \cap own = {x}
    BY <1>4, <1>8, <2>2 DEF Core, Owners
  <2>4. ~(o \in own' /\ sockfd'[o] = sockfd[x])
    BY <1>2, <1>4, <2>1, <2>2, <2>3 DEF Holders
  <2>5. ASSUME NEW y \in Holders(sockfd[x])', y \in own' PROVE y = x
    BY <1>2, <1>4, <2>2, <2>3, <2>4, <2>5 DEF Holders
  <2>6. x \in Holders(sockfd[x])'
    BY <2>1 DEF Holders
  <2> QED BY <1>8, <2>5, <2>6
<1>9. ASSUME NEW x \in Objects, x \notin copied', x \notin contested', sockfd'[x] \in Fds
      PROVE  x \in own' /\ Holders(sockfd[x])' = {x}
  <2>1. x # o /\ x \notin copied /\ sockfd'[x] = sockfd[x] /\ (sockfd[p] \in Fds => x # p)
    BY <1>7, <1>9
  <2>2. x \notin contested
    BY <1>9 DEF Assign
  <2>3. x \in own /\ Holders(sockfd[x]) = {x}
    BY <1>9, <2>1, <2>2 DEF Core, Owners
  <2>4. sockfd[p] # sockfd[x]
    BY <1>9, <2>1, <2>3 DEF Holders
  <2>5. x \in own'
    BY <2>1, <2>3 DEF Assign
  <2> QED BY <1>2, <2>1, <2>3, <2>4, <2>5 DEF Holders
<1>10. Owners'
  BY <1>5, <1>8, <1>9 DEF Owners
<1>11. NoDescriptorLost'
  <2> SUFFICES ASSUME NEW fd \in open, fd \notin overwritten', Holders(fd) # {o}
               PROVE  Holders(fd)' # {}
    BY DEF NoDescriptorLost, Assign
  <2>1. PICK x \in Objects : x # o /\ sockfd[x] = fd
    BY DEF Core, NoDescriptorLost, Assign, Holders
  <2> QED BY <2>1 DEF Assign, Holders, Core, SocketTypeOK
<1>12. FlagRight'
  <2> SUFFICES ASSUME NEW x \in Objects, x \notin copied', x \notin contested',
                      sockfd'[x] \in nonblock'
               PROVE  x \notin blocking'
    BY DEF FlagRight
  <2>1. sockfd'[x] \in Fds
    BY <1>1 DEF SocketTypeOK
  <2>2. x # o /\ x \notin copied /\ sockfd'[x] = sockfd[x]
    BY <1>7, <2>1
  <2> QED BY <2>2 DEF Core, FlagRight, Assign
<1>13. Keeps
  BY <1>2 DEF Keeps, Assign
<1> QED BY <1>1, <1>10, <1>11, <1>12, <1>13 DEF Core

(* A new object with no number, or with any. *)
LEMMA ConstructKeeps ==
  ASSUME Core, NEW o \in Objects,
         Construct(o) \/ \E fd \in Fds : ConstructFrom(o, fd)
  PROVE  Core' /\ Keeps
<1>1. CASE Construct(o)
  <2>1. SocketTypeOK'
    BY <1>1 DEF Core, SocketTypeOK, Construct
  <2>2. Owners'
    <3>1. o \notin own /\ sockfd'[o] = INVALID_SOCKET /\ own' = own /\ open' = open
          /\ copied' = copied /\ contested' = contested
      BY <1>1 DEF Core, Owners, Construct, Exists, SocketTypeOK
    <3>2. \A x \in Objects \ {o} : sockfd'[x] = sockfd[x]
      BY <1>1 DEF Core, SocketTypeOK, Construct
    <3>3. \A k \in Fds : Holders(k)' = Holders(k)
      BY <1>1, <3>1, <3>2 DEF Holders, Construct, Exists
    <3>4. \A x \in own : x # o /\ sockfd[x] \in open /\ sockfd'[x] = sockfd[x] /\ sockfd[x] \in Fds
      BY <3>1, <3>2 DEF Core, Owners, SocketTypeOK
    <3>5. \A x \in own' \ copied' : Holders(sockfd[x])' \cap own' = {x}
      BY <3>1, <3>3, <3>4 DEF Core, Owners
    <3>6. ASSUME NEW x \in Objects, x \notin copied', x \notin contested', sockfd'[x] \in Fds
          PROVE  x \in own' /\ Holders(sockfd[x])' = {x}
      <4>1. INVALID_SOCKET \notin Fds
        BY ServerSocketAssumption
      <4>2. x # o /\ sockfd'[x] = sockfd[x]
        BY <3>1, <3>2, <3>6, <4>1
      <4>3. x \in own /\ Holders(sockfd[x]) = {x}
        BY <3>1, <3>6, <4>2 DEF Core, Owners
      <4> QED BY <3>1, <3>3, <3>6, <4>2, <4>3
    <3> QED BY <3>1, <3>4, <3>5, <3>6 DEF Owners
  <2>3. NoDescriptorLost' /\ FlagRight' /\ Keeps
    BY <1>1 DEF Core, Owners, NoDescriptorLost, FlagRight, Keeps, Construct, Exists, Holders,
                SocketTypeOK
  <2> QED BY <2>1, <2>2, <2>3 DEF Core
<1>2. ASSUME NEW fd \in Fds, ConstructFrom(o, fd) PROVE Core' /\ Keeps
  <2>1. SocketTypeOK'
    BY <1>2 DEF Core, SocketTypeOK, ConstructFrom, Holders
  <2>2. o \notin own /\ \A x \in Objects \ {o} : sockfd'[x] = sockfd[x]
    <3>1. sockfd[o] = NoObject /\ NoObject \notin open
      BY <1>2 DEF Core, ConstructFrom, Exists, SocketTypeOK
    <3> QED BY <1>2, <3>1 DEF Core, Owners, ConstructFrom, SocketTypeOK
  <2>3. \A x \in own : sockfd'[x] \in open'
    BY <1>2, <2>2 DEF Core, Owners, ConstructFrom, SocketTypeOK
  <2>4. \A x \in own \ copied : Holders(sockfd[x])' \cap own = {x}
    BY <1>2, <2>2 DEF Core, Owners, Holders, SocketTypeOK
  <2>5. ASSUME NEW x \in Objects, x \notin copied', x \notin contested', sockfd'[x] \in Fds
        PROVE  x \in own' /\ Holders(sockfd[x])' = {x}
    <3>1. x # o /\ x \notin copied /\ x \notin contested /\ sockfd[x] # fd
      BY <1>2, <2>5 DEF ConstructFrom, Holders
    <3>2. x \in own /\ Holders(sockfd[x]) = {x}
      BY <2>2, <2>5, <3>1 DEF Core, Owners
    <3> QED BY <1>2, <2>2, <3>1, <3>2 DEF ConstructFrom, Holders, Core, SocketTypeOK
  <2>6. Owners'
    BY <1>2, <2>3, <2>4, <2>5 DEF Owners, ConstructFrom
  <2>7. NoDescriptorLost' /\ FlagRight' /\ Keeps
    BY <1>2, <2>2 DEF Core, NoDescriptorLost, FlagRight, Keeps, ConstructFrom, Exists, Holders,
                      SocketTypeOK
  <2> QED BY <2>1, <2>6, <2>7 DEF Core
<1> QED BY <1>1, <1>2

(* setBlocking changes the file and one of the objects that have it. *)
LEMMA SetBlockingKeeps ==
  ASSUME Core, NEW o \in Objects, NEW flag \in BOOLEAN, SetBlocking(o, flag)
  PROVE  Core' /\ Keeps
<1>1. UNCHANGED <<open, sockfd, own, copied, contested, overwritten>>
  BY DEF SetBlocking
<1>2. SocketTypeOK'
  BY <1>1 DEF Core, SocketTypeOK, SetBlocking
<1>3. Owners' /\ NoDescriptorLost' /\ Keeps
  BY <1>1 DEF Core, Owners, NoDescriptorLost, Holders, Keeps
<1>4. FlagRight'
  <2> SUFFICES ASSUME NEW x \in Objects, x \notin copied, x \notin contested,
                      sockfd[x] \in nonblock'
               PROVE  x \notin blocking'
    BY <1>1 DEF FlagRight
  <2>1. CASE x = o
    BY <2>1 DEF SetBlocking
  <2>2. CASE x # o
    <3>1. sockfd[x] \in Fds
      BY <1>1, <1>2 DEF SocketTypeOK
    <3>2. Holders(sockfd[x]) = {x}
      BY <3>1 DEF Core, Owners
    <3>3. sockfd[x] # sockfd[o]
      BY <2>2, <3>2 DEF Holders
    <3> QED BY <2>2, <3>3 DEF Core, FlagRight, SetBlocking
  <2> QED BY <2>1, <2>2
<1> QED BY <1>2, <1>3, <1>4 DEF Core

(* Every step of ServerSocket. *)
LEMMA StepKeeps == Core /\ [SocketNext]_socketVars => Core' /\ Keeps
<1> SUFFICES ASSUME Core, [SocketNext]_socketVars PROVE Core' /\ Keeps
  OBVIOUS
<1>1. CASE UNCHANGED socketVars
  BY <1>1 DEF Core, SocketTypeOK, Owners, NoDescriptorLost, FlagRight, Holders, Keeps, socketVars
<1>2. ASSUME NEW o \in Objects, Construct(o) \/ \E fd \in Fds : ConstructFrom(o, fd)
      PROVE  Core' /\ Keeps
  BY <1>2, ConstructKeeps
<1>3. ASSUME NEW o \in Objects, NEW p \in Objects, Copy(o, p) PROVE Core' /\ Keeps
  <2>1. Exists(p) /\ (\A x \in {o} : ~Exists(x)) /\ CopyAll({o}, p)
    BY <1>3 DEF Copy
  <2> QED BY <2>1, CopyAllKeeps
<1>4. ASSUME NEW o \in Objects, NEW p \in Objects, Assign(o, p) PROVE Core' /\ Keeps
  BY <1>4, AssignKeeps
<1>5. ASSUME NEW o \in Objects, NEW q \in Objects, AcceptConnection(o, q) PROVE Core' /\ Keeps
  <2>1. PICK fd \in Fds : IsNextFd(fd) /\ Opened(q, fd)
    BY <1>5 DEF AcceptConnection
  <2> QED BY <1>5, <2>1, OpenedKeeps DEF AcceptConnection, IsNextFd, Exists
<1>6. ASSUME NEW o \in Objects, Destroy(o) PROVE Core' /\ Keeps
  BY <1>6, DestroyAllKeeps DEF Destroy
<1>7. ASSUME NEW o \in Objects, Close(o) PROVE Core' /\ Keeps
  <2>1. {sockfd[x] : x \in {o}} \cap Fds = {sockfd[o]}
    BY <1>7 DEF Close, Exists, Core, SocketTypeOK
  <2>2. sockfd' = [x \in Objects |-> IF x \in {o} THEN INVALID_SOCKET ELSE sockfd[x]]
    BY <1>7 DEF Close, Core, SocketTypeOK
  <2>3. Closed({sockfd[x] : x \in {o}} \cap Fds, {o}) /\ blocking' \subseteq blocking
    BY <1>7, <2>1 DEF Close
  <2> QED BY <2>2, <2>3, ClosedKeeps
<1>8. ASSUME NEW o \in Objects, InitSocket(o) PROVE Core' /\ Keeps
  <2>1. PICK fd \in Fds : IsNextFd(fd) /\ Opened(o, fd)
    BY <1>8 DEF InitSocket
  <2> QED BY <1>8, <2>1, OpenedKeeps DEF InitSocket, IsNextFd
<1>9. ASSUME NEW o \in Objects, ConnectNB(o) PROVE Core' /\ Keeps
  <2>1. PICK fd \in Fds : IsNextFd(fd) /\ Opened(o, fd) /\ nonblock' = nonblock \cup {fd}
    BY <1>9 DEF ConnectNB
  <2> QED BY <1>9, <2>1, OpenedKeeps DEF ConnectNB, IsNextFd
<1>10. ASSUME NEW o \in Objects, NEW flag \in BOOLEAN, SetBlocking(o, flag) PROVE Core' /\ Keeps
  BY <1>10, SetBlockingKeeps
<1> QED BY <1>1, <1>2, <1>3, <1>4, <1>5, <1>6, <1>7, <1>8, <1>9, <1>10 DEF SocketNext

(* The invariant of ServerSocket: what follows rests on it. *)
THEOREM SocketInvariance == SocketSpec => []SocketInv
<1>1. SocketInit => SocketInv
  BY Initially
<1>2. SocketInv /\ [SocketNext]_socketVars => SocketInv'
  <2> SUFFICES ASSUME SocketInv, [SocketNext]_socketVars PROVE SocketInv'
    OBVIOUS
  <2>1. Core'
    BY CoreIsSocketInv, StepKeeps
  <2>2. SocketTypeOK' /\ FlagRight'
    BY <2>1 DEF Core
  <2>3. NoDataIsNoTimeout'
    <3>1. \A o \in Objects : sockfd'[o] \in nonblock' => sockfd'[o] # INVALID_SOCKET
      BY <2>2 DEF SocketTypeOK
    <3> QED BY <2>2, <3>1 DEF NoDataIsNoTimeout, FlagRight, ReceiveBytes
  <2> QED BY <2>1, <2>3 DEF Core, SocketInv
<1> QED BY <1>1, <1>2, PTL DEF SocketSpec

(* An object whose number nobody copied loses its descriptor to nobody but *)
(* to an object that carries the number of an earlier socket, or was made  *)
(* from the number, for any number of objects and descriptors.             *)
THEOREM DescriptorsStay == SocketSpec => KeepsDescriptor
<1>1. SocketInv /\ [SocketNext]_socketVars =>
        [\A o \in own \ copied :
           \/ o \in own'
           \/ sockfd'[o] # sockfd[o]
           \/ o \in contested /\ \E p \in Holders(sockfd[o]) \ own : sockfd'[p] # sockfd[p]]_socketVars
  BY CoreIsSocketInv, StepKeeps DEF Keeps
<1> QED BY <1>1, SocketInvariance, PTL DEF SocketSpec, KeepsDescriptor

(* Only an assignment forgets a descriptor. *)
THEOREM DescriptorsKept == SocketSpec => []NoDescriptorLost
<1>1. SocketInv => NoDescriptorLost
  BY DEF SocketInv
<1> QED BY <1>1, SocketInvariance, PTL

(* _blocking says what the file says, for objects whose number no other    *)
(* object had at the same time.                                            *)
THEOREM TimeoutsTold == SocketSpec => []NoDataIsNoTimeout
<1>1. SocketInv => NoDataIsNoTimeout
  BY DEF SocketInv
<1> QED BY <1>1, SocketInvariance, PTL

-----------------------------------------------------------------------------
(* SocketReactor: the invariant.                                           *)

(* Where a call can be. *)
Steps(op) == IF op \in Adds THEN {"has", "hasTest", "getNew", "addTest", "add"}
             ELSE {"get", "test", "count", "erase", "unpoll", "remove"}

AllSteps == {"none", "has", "hasTest", "getNew", "addTest", "add",
             "get", "test", "count", "erase", "unpoll", "remove"}

CallType == [op  : Adds \cup Removals \cup {"none"},
             a   : Acceptors \cup {NoObject},
             at  : AllSteps,
             n   : Notifiers \cup {NoNotifier},
             met : SUBSET ({"add", "removal"} \X Acceptors)]

(* Types. *)
ReactorTypeOK ==
  /\ sockfd \in [Objects -> Fds \cup {INVALID_SOCKET, NoObject}]
  /\ own \subseteq Objects
  /\ handlers \in [Fds -> Notifiers \cup {NoNotifier}]
  /\ observers \in [Notifiers -> Seq(Acceptors)]
  /\ calls \in [Threads -> CallType]

(* Acceptors are made of sockets with a number, and keep it. *)
NumbersOK == \A a \in Acceptors : Exists(a) => sockfd[a] \in Fds

(* The copies of a notifier and of its key have the number of the entry. *)
MapOK == \A k \in Fds : handlers[k] # NoNotifier =>
           sockfd[Key(handlers[k])] = k /\ sockfd[Member(handlers[k])] = k

(* A notifier that is not alive has no observers; of those alive the ones  *)
(* that were taken out of the map have lost their number.                  *)
NotifiersOK ==
  /\ \A n \in Notifiers \ Living : observers[n] = <<>>
  /\ \A n \in Living : /\ sockfd[Member(n)] \in Fds
                       /\ Member(n) \in own => handlers[sockfd[Member(n)]] = n

(* A call keeps its acceptor, and the notifier it refers to has its number. *)
CallOK(t) ==
  calls[t] # Idle =>
    /\ calls[t].op # "none"
    /\ calls[t].a \in Acceptors /\ Num(t) \in Fds
    /\ calls[t].at \in Steps(calls[t].op)
    /\ calls[t].at \in {"has", "getNew", "get"} <=> calls[t].n = NoNotifier
    /\ calls[t].n # NoNotifier => sockfd[Member(calls[t].n)] = Num(t)

(* Calls at the same time on one number know of each other, and nobody     *)
(* calls on an acceptor that is being destroyed.                           *)
PairOK(t, u) ==
  t # u /\ calls[t] # Idle /\ calls[u] # Idle =>
    /\ calls[t].op = "destruct" => calls[u].a # calls[t].a
    /\ Num(t) = Num(u) => <<Kind(calls[u].op), calls[u].a>> \in calls[t].met

(* A registration that no removal overlapped finds its notifier still in   *)
(* the map, and the answer of hasObserver() is still right unless another  *)
(* thread registers the same acceptor.                                     *)
AddOK(t) ==
  calls[t].op \in Adds /\ calls[t].n # NoNotifier =>
    /\ Met(t, "removal") = {} => handlers[Num(t)] = calls[t].n
    /\ At(t, "add") /\ calls[t].a \notin Met(t, "add") => ~HasObserver(calls[t].n, calls[t].a)

(* A removal that met no registration finds the notifier it looked up in   *)
(* the map, or none.  What it learned from hasObserver() and from          *)
(* countObservers() is still right when it erases the entry, unless it is  *)
(* disturbed.                                                              *)
RemovalOK(t) ==
  calls[t].op \in Removals /\ calls[t].n # NoNotifier =>
    /\ Met(t, "add") = {} => handlers[Num(t)] \in {calls[t].n, NoNotifier}
    /\ calls[t].a \notin Met(t, "add") /\ handlers[Num(t)] \notin {calls[t].n, NoNotifier} =>
         ~HasObserver(handlers[Num(t)], calls[t].a)
    /\ At(t, "unpoll") => handlers[Num(t)] # calls[t].n
    /\ At(t, "count") /\ ~Disturbed(t) => HasObserver(calls[t].n, calls[t].a)
    /\ At(t, "erase") /\ ~Disturbed(t) => ToSet(observers[calls[t].n]) \subseteq {calls[t].a}
    /\ At(t, "remove") /\ calls[t].met = {} => CountObservers(calls[t].n) # 1

(* The inductive invariant. *)
IInv ==
  /\ NumbersOK /\ MapOK /\ NotifiersOK
  /\ \A t \in Threads : CallOK(t) /\ AddOK(t) /\ RemovalOK(t)
  /\ \A t, u \in Threads : PairOK(t, u)

-----------------------------------------------------------------------------
(* The objects of notifiers and of keys are told apart.                    *)
LEMMA Places ==
  /\ NoNotifier \notin Notifiers
  /\ \A a \in Acceptors : a \in Objects
  /\ \A n \in Notifiers : /\ Key(n) \in Objects /\ Member(n) \in Objects
                          /\ Key(n) \notin Acceptors \cup Sockets
                          /\ Member(n) \notin Acceptors \cup Sockets
  /\ \A n, m \in Notifiers : /\ Key(n) = Key(m) => n = m
                             /\ Member(n) = Member(m) => n = m
                             /\ Key(n) # Member(m)
<1>1. \A n, m : /\ Key(n) = Key(m) => n = m
                /\ Member(n) = Member(m) => n = m
                /\ Key(n) # Member(m)
  BY DEF Key, Member
<1> QED BY <1>1, SocketReactorAssumption

Cited(h, c) == InMap(h) \cup InCalls(c)

(* What Release does to the objects, told by where they are. *)
Released(h, c, obs, S) ==
  /\ handlers' = h /\ calls' = c
  /\ sockfd' \in [Objects -> Fds \cup {INVALID_SOCKET, NoObject}]
  /\ own' \subseteq own
  /\ \A o \in Objects : sockfd'[o] = sockfd[o] \/ sockfd'[o] = NoObject
  /\ \A a \in Acceptors : sockfd'[a] = IF a \in S THEN NoObject ELSE sockfd[a]
  /\ \A n \in Notifiers : n \in InMap(h) => sockfd'[Key(n)] = sockfd[Key(n)]
  /\ \A n \in Notifiers : n \in Cited(h, c) =>
       sockfd'[Member(n)] = sockfd[Member(n)] /\ observers'[n] = obs[n]
  /\ \A n \in Notifiers : n \notin Cited(h, c) =>
       /\ sockfd'[Member(n)] = NoObject
       /\ observers'[n] = IF n \in Living THEN <<>> ELSE obs[n]
  /\ observers' \in [Notifiers -> Seq(Acceptors)]
  /\ \A n \in InMap(handlers) \ InMap(h) : sockfd[Key(n)] \in Fds =>
       \A o \in own' : sockfd[o] # sockfd[Key(n)]
  /\ \A o \in own \ own' :
       \/ \E a \in S : sockfd[a] = sockfd[o]
       \/ \E n \in InMap(handlers) \ InMap(h) : sockfd[Key(n)] = sockfd[o]
       \/ \E n \in Living \ Cited(h, c) : sockfd[Member(n)] = sockfd[o]

(* Release is what Released says. *)
LEMMA ReleaseDoes ==
  ASSUME ReactorTypeOK, NEW h \in [Fds -> Notifiers \cup {NoNotifier}], NEW c,
         NEW obs \in [Notifiers -> Seq(Acceptors)], NEW S \in SUBSET Acceptors,
         Release(h, c, obs, S)
  PROVE  Released(h, c, obs, S)
<1> USE Places
<1>1. PICK dead : dead = Living \ Cited(h, c)
  OBVIOUS
<1>2. PICK erased : erased = InMap(handlers) \ InMap(h)
  OBVIOUS
<1>3. PICK gone : gone = S \cup {Key(n) : n \in erased} \cup {Member(n) : n \in dead}
  OBVIOUS
<1>0. dead \subseteq Notifiers /\ erased \subseteq Notifiers
  BY <1>1, <1>2 DEF Living, InMap, ReactorTypeOK
<1>4. /\ handlers' = h /\ calls' = c
      /\ observers' = [n \in Notifiers |-> IF n \in dead THEN <<>> ELSE obs[n]]
      /\ IF gone = {} THEN UNCHANGED socketVars ELSE DestroyAll(gone)
  BY <1>1, <1>2, <1>3 DEF Release, Cited
<1>5. sockfd' = [o \in Objects |-> IF o \in gone THEN NoObject ELSE sockfd[o]]
  BY <1>4 DEF DestroyAll, socketVars, ReactorTypeOK
<1>6. own' = {o \in own : \A g \in gone : sockfd[g] \in Fds => sockfd[o] # sockfd[g]}
  BY <1>4 DEF DestroyAll, Closed, socketVars
<1>7. \A a \in Acceptors : a \in gone <=> a \in S
  BY <1>0, <1>3
<1>8. \A n \in Notifiers : /\ Key(n) \in gone <=> n \in erased
                           /\ Member(n) \in gone <=> n \in dead
  BY <1>0, <1>3
<1>9. \A n \in Notifiers : n \notin Living => sockfd[Member(n)] = NoObject
  BY DEF Living, Exists
<1>10. \A n \in Notifiers : n \in InMap(h) => n \notin erased /\ n \notin dead
  BY <1>1, <1>2 DEF Cited
<1>11. sockfd' \in [Objects -> Fds \cup {INVALID_SOCKET, NoObject}]
  BY <1>5 DEF ReactorTypeOK
<1>12. observers' \in [Notifiers -> Seq(Acceptors)]
  BY <1>4, EmptyList
<1>13. \A n \in Notifiers : n \in Cited(h, c) =>
         sockfd'[Member(n)] = sockfd[Member(n)] /\ observers'[n] = obs[n]
  BY <1>1, <1>4, <1>5, <1>8
<1>14. \A n \in Notifiers : n \notin Cited(h, c) =>
         /\ sockfd'[Member(n)] = NoObject
         /\ observers'[n] = IF n \in Living THEN <<>> ELSE obs[n]
  BY <1>1, <1>4, <1>5, <1>8, <1>9
<1>15. \A n \in InMap(handlers) \ InMap(h) : sockfd[Key(n)] \in Fds =>
         \A o \in own' : sockfd[o] # sockfd[Key(n)]
  BY <1>0, <1>2, <1>6, <1>8
<1>16. ASSUME NEW o \in own \ own'
       PROVE  \/ \E a \in S : sockfd[a] = sockfd[o]
              \/ \E n \in InMap(handlers) \ InMap(h) : sockfd[Key(n)] = sockfd[o]
              \/ \E n \in Living \ Cited(h, c) : sockfd[Member(n)] = sockfd[o]
  <2>1. PICK g \in gone : sockfd[g] = sockfd[o]
    BY <1>6, <1>16
  <2> QED BY <1>1, <1>2, <1>3, <2>1
<1>17. own' \subseteq own
  BY <1>6
<1>18. \A n \in Notifiers : n \in InMap(h) => sockfd'[Key(n)] = sockfd[Key(n)]
  BY <1>5, <1>8, <1>10
<1>19. \A a \in Acceptors : sockfd'[a] = IF a \in S THEN NoObject ELSE sockfd[a]
  BY <1>5, <1>7
<1>20. \A o \in Objects : sockfd'[o] = sockfd[o] \/ sockfd'[o] = NoObject
  BY <1>5
<1> QED
  BY <1>4, <1>11, <1>12, <1>13, <1>14, <1>15, <1>16, <1>17, <1>18, <1>19, <1>20 DEF Released

-----------------------------------------------------------------------------
(* What a step of a call does to the map, the lists and the numbers, as    *)
(* far as the other calls can tell.                                        *)

Active(t) == calls[t] # Idle

HandlerEffect(t) ==
  /\ \A k \in Fds : k # Num(t) => handlers'[k] = handlers[k]
  /\ handlers'[Num(t)] # handlers[Num(t)] =>
       IF calls[t].op \in Adds
       THEN /\ handlers[Num(t)] = NoNotifier
            /\ handlers'[Num(t)] \in Notifiers \ Living
            /\ observers'[handlers'[Num(t)]] = <<>>
       ELSE handlers'[Num(t)] = NoNotifier

ListEffect(t) ==
  \A n \in Living : n \in Cited(handlers', calls') =>
    \/ observers'[n] = observers[n]
    \/ /\ n = calls[t].n
       /\ observers'[n] = IF calls[t].op \in Adds THEN Append(observers[n], calls[t].a)
                                                  ELSE Without(observers[n], calls[t].a)

Effect(t, r) ==
  /\ calls' = [calls EXCEPT ![t] = r]
  /\ HandlerEffect(t)
  /\ ListEffect(t)
  /\ \A u \in Threads \ {t} : Active(u) => sockfd'[calls[u].a] = sockfd[calls[u].a]
  /\ \A n \in Living : n \in Cited(handlers', calls') => sockfd'[Member(n)] = sockfd[Member(n)]

(* Met(t, kind) without the comprehension. *)
LEMMA MetHas ==
  ASSUME NEW t, NEW a, NEW kind
  PROVE  <<kind, a>> \in calls[t].met => a \in Met(t, kind)
<1> SUFFICES ASSUME <<kind, a>> \in calls[t].met PROVE a \in Met(t, kind)
  OBVIOUS
<1>1. <<kind, a>> \in {x \in calls[t].met : x[1] = kind}
  OBVIOUS
<1>2. <<kind, a>>[2] = a
  OBVIOUS
<1> QED BY <1>1, <1>2 DEF Met

(* Lists before and after, as sets. *)
LEMMA ListsAsSets ==
  ASSUME ReactorTypeOK, NEW t \in Threads, calls[t].a \in Acceptors, ListEffect(t),
         NEW n \in Living, n \in Cited(handlers', calls')
  PROVE  \/ observers'[n] = observers[n]
         \/ /\ n = calls[t].n
            /\ calls[t].op \in Adds
            /\ ToSet(observers'[n]) = ToSet(observers[n]) \cup {calls[t].a}
         \/ /\ n = calls[t].n
            /\ calls[t].op \notin Adds
            /\ ToSet(observers'[n]) \subseteq ToSet(observers[n])
            /\ ToSet(observers[n]) \ {calls[t].a} \subseteq ToSet(observers'[n])
<1>1. observers[n] \in Seq(Acceptors)
  BY DEF ReactorTypeOK, Living
<1>2. PICK a : a = calls[t].a
  OBVIOUS
<1>3. PICK s : s = observers[n]
  OBVIOUS
<1>4. CASE observers'[n] = observers[n]
  BY <1>4
<1>5. CASE n = calls[t].n /\ calls[t].op \in Adds /\ observers'[n] = Append(s, a)
  BY <1>1, <1>2, <1>3, <1>5, AppendOne
<1>6. CASE n = calls[t].n /\ calls[t].op \notin Adds /\ observers'[n] = Without(s, a)
  BY <1>1, <1>2, <1>3, <1>6, WithoutOne
<1> QED BY <1>2, <1>3, <1>4, <1>5, <1>6 DEF ListEffect

(* The invariant of another call. *)
LEMMA OthersKeep ==
  ASSUME ReactorTypeOK, IInv, NEW t \in Threads, Active(t), NEW r, Effect(t, r),
         NEW u \in Threads, u # t
  PROVE  CallOK(u)' /\ AddOK(u)' /\ RemovalOK(u)'
<1> USE Places
<1>0. SUFFICES ASSUME Active(u) PROVE CallOK(u)' /\ AddOK(u)' /\ RemovalOK(u)'
  <2>1. ~Active(u) => calls'[u] = Idle
    BY DEF Effect, Active, ReactorTypeOK
  <2>2. Idle.op = "none" /\ Idle.n = NoNotifier
    BY DEF Idle
  <2> QED BY <2>1, <2>2 DEF CallOK, AddOK, RemovalOK, Active, Adds, Removals
<1>1. /\ CallOK(t) /\ CallOK(u) /\ AddOK(u) /\ RemovalOK(u) /\ PairOK(u, t)
      /\ MapOK
  BY DEF IInv
<1>2. /\ calls[t].a \in Acceptors /\ Num(t) \in Fds /\ calls[t].op \in Adds \cup Removals
      /\ calls[u].a \in Acceptors /\ Num(u) \in Fds /\ calls[u].op \in Adds \cup Removals
  BY <1>0, <1>1 DEF CallOK, Active, ReactorTypeOK, CallType
<1>3. calls'[u] = calls[u] /\ Num(u)' = Num(u)
  BY <1>0 DEF Effect, ReactorTypeOK, Num
<1>4. ASSUME calls[u].n # NoNotifier
      PROVE  /\ calls[u].n \in Living /\ calls[u].n \in Cited(handlers', calls')
             /\ sockfd[Member(calls[u].n)] = Num(u)
  <2>1. calls[u].n \in Notifiers /\ sockfd[Member(calls[u].n)] = Num(u)
    BY <1>0, <1>1, <1>4 DEF CallOK, Active, ReactorTypeOK, CallType
  <2>2. calls[u].n \in Living
    BY <1>2, <2>1 DEF Living, Exists
  <2> QED BY <1>3, <1>4, <2>1, <2>2 DEF Cited, InCalls
<1>5. CallOK(u)'
  <2>1. calls[u].n # NoNotifier => sockfd'[Member(calls[u].n)] = Num(u)
    BY <1>4 DEF Effect
  <2> QED BY <1>0, <1>1, <1>2, <1>3, <2>1 DEF CallOK, Active, At
<1>6. Num(t) = Num(u) => <<Kind(calls[t].op), calls[t].a>> \in calls[u].met
  BY <1>0, <1>1 DEF PairOK, Active
<1>7. PICK k \in Fds : k = Num(u)
  BY <1>2
<1>8. Kind(calls[t].op) = IF calls[t].op \in Adds THEN "add" ELSE "removal"
  BY DEF Kind
<1>9. k = Num(t) =>
        IF calls[t].op \in Adds THEN calls[t].a \in Met(u, "add")
                                ELSE calls[t].a \in Met(u, "removal") /\ calls[u].met # {}
  <2>1. k = Num(t) => calls[t].a \in Met(u, Kind(calls[t].op))
    BY <1>6, <1>7, MetHas
  <2> QED BY <1>6, <1>7, <1>8, <2>1
<1>10. Met(u, "add")' = Met(u, "add") /\ Met(u, "removal")' = Met(u, "removal")
       /\ (Disturbed(u)' <=> Disturbed(u))
  BY <1>3 DEF Met, Disturbed
(* The entry of u's number. *)
<1>11. \/ handlers'[k] = handlers[k]
       \/ k = Num(t) /\ calls[t].op \in Adds /\ handlers[k] = NoNotifier
          /\ handlers'[k] \in Notifiers \ Living /\ observers'[handlers'[k]] = <<>>
       \/ k = Num(t) /\ calls[t].op \notin Adds /\ handlers'[k] = NoNotifier
  BY DEF Effect, HandlerEffect
<1>12. ASSUME handlers[k] # NoNotifier, handlers'[k] = handlers[k]
       PROVE  /\ handlers[k] \in Living /\ handlers[k] \in Cited(handlers', calls')
              /\ sockfd[Member(handlers[k])] = k
  <2>1. handlers[k] \in Notifiers /\ sockfd[Member(handlers[k])] = k
    BY <1>1, <1>12 DEF MapOK, ReactorTypeOK
  <2> QED BY <1>12, <2>1 DEF Living, Exists, Cited, InMap
(* The lists of the notifiers with u's number. *)
<1>13. ASSUME NEW m \in Living, m \in Cited(handlers', calls'), sockfd[Member(m)] = k
       PROVE  \/ observers'[m] = observers[m]
              \/ /\ k = Num(t) /\ calls[t].op \in Adds
                 /\ ToSet(observers'[m]) = ToSet(observers[m]) \cup {calls[t].a}
              \/ /\ k = Num(t) /\ calls[t].op \notin Adds
                 /\ ToSet(observers'[m]) \subseteq ToSet(observers[m])
                 /\ ToSet(observers[m]) \ {calls[t].a} \subseteq ToSet(observers'[m])
  <2>1. m = calls[t].n => k = Num(t)
    BY <1>1, <1>13 DEF CallOK, Active, Living
  <2> QED BY <1>2, <1>13, <2>1, ListsAsSets DEF Effect
<1>14. AddOK(u)'
  <2> SUFFICES ASSUME calls[u].op \in Adds, calls[u].n # NoNotifier
               PROVE  /\ Met(u, "removal") = {} => handlers'[k] = calls[u].n
                      /\ At(u, "add") /\ calls[u].a \notin Met(u, "add") =>
                           calls[u].a \notin ToSet(observers'[calls[u].n])
    BY <1>3, <1>7, <1>10 DEF AddOK, At, HasObserver
  <2>1. Met(u, "removal") = {} => handlers'[k] = calls[u].n
    BY <1>1, <1>7, <1>9, <1>11 DEF AddOK
  <2>2. ASSUME At(u, "add"), calls[u].a \notin Met(u, "add")
        PROVE  calls[u].a \notin ToSet(observers'[calls[u].n])
    <3>1. calls[u].a \notin ToSet(observers[calls[u].n])
      BY <1>1, <2>2 DEF AddOK, HasObserver
    <3> QED BY <1>4, <1>7, <1>9, <1>13, <2>2, <3>1
  <2> QED BY <2>1, <2>2
<1>15. RemovalOK(u)'
  <2> SUFFICES ASSUME calls[u].op \in Removals, calls[u].n # NoNotifier
               PROVE  RemovalOK(u)'
    BY <1>3 DEF RemovalOK
  <2>0. PICK n \in Living : n = calls[u].n /\ n # NoNotifier
    BY <1>4
  <2>1. PICK a \in Acceptors : a = calls[u].a
    BY <1>2
  <2>2. ASSUME Met(u, "add") = {}
        PROVE  handlers'[k] \in {n, NoNotifier}
    BY <1>1, <1>7, <1>9, <1>11, <2>0, <2>2 DEF RemovalOK
  <2>3. ASSUME a \notin Met(u, "add"), handlers'[k] \notin {n, NoNotifier}
        PROVE  a \notin ToSet(observers'[handlers'[k]])
    <3>1. CASE handlers'[k] = handlers[k]
      <4>1. a \notin ToSet(observers[handlers[k]])
        BY <1>1, <1>7, <2>0, <2>1, <2>3, <3>1 DEF RemovalOK, HasObserver
      <4> QED BY <1>9, <1>12, <1>13, <2>1, <2>3, <3>1, <4>1
    <3>2. CASE handlers'[k] # handlers[k]
      <4>1. observers'[handlers'[k]] = <<>>
        BY <1>11, <2>3, <3>2
      <4> QED BY <4>1, EmptyList
    <3> QED BY <3>1, <3>2
  <2>4. ASSUME At(u, "unpoll")
        PROVE  handlers'[k] # n
    BY <1>1, <1>7, <1>11, <2>0, <2>4 DEF RemovalOK
  <2>5. ASSUME At(u, "count"), ~Disturbed(u)
        PROVE  a \in ToSet(observers'[n])
    <3>1. a \in ToSet(observers[n])
      BY <1>1, <2>0, <2>1, <2>5 DEF RemovalOK, HasObserver
    <3>2. k = Num(t) => calls[t].op \notin Adds /\ calls[t].a # a
      BY <1>9, <2>1, <2>5 DEF Disturbed
    <3> QED BY <1>4, <1>7, <1>13, <2>0, <3>1, <3>2
  <2>6. ASSUME At(u, "erase"), ~Disturbed(u)
        PROVE  ToSet(observers'[n]) \subseteq {a}
    <3>1. ToSet(observers[n]) \subseteq {a}
      BY <1>1, <2>0, <2>1, <2>6 DEF RemovalOK
    <3>2. k = Num(t) => calls[t].op \notin Adds
      BY <1>9, <2>6 DEF Disturbed
    <3> QED BY <1>4, <1>7, <1>13, <2>0, <3>1, <3>2
  <2>7. ASSUME At(u, "remove"), calls[u].met = {}
        PROVE  Len(observers'[n]) # 1
    <3>1. Len(observers[n]) # 1
      BY <1>1, <2>0, <2>7 DEF RemovalOK, CountObservers
    <3>2. k # Num(t)
      BY <1>9, <2>7 DEF Met
    <3> QED BY <1>4, <1>7, <1>13, <2>0, <3>1, <3>2
  <2> QED
    BY <1>3, <1>7, <1>10, <2>0, <2>1, <2>2, <2>3, <2>4, <2>5, <2>6, <2>7
       DEF RemovalOK, At, HasObserver, CountObservers
<1> QED BY <1>5, <1>14, <1>15

-----------------------------------------------------------------------------
(* A step of t's call that releases what its new record r does not cite.   *)
CallRelease(t, r, h, obs, S) ==
  /\ Release(h, [calls EXCEPT ![t] = r], obs, S)
  /\ h = handlers \/ (calls[t].op \notin Adds /\ h = [handlers EXCEPT ![Num(t)] = NoNotifier])
  /\ obs = observers \/ obs = IF calls[t].op \in Adds THEN Added(calls[t].n, calls[t].a)
                                                      ELSE Removed(calls[t].n, calls[t].a)
  /\ S = {} \/ (calls[t].op = "destruct" /\ S = {calls[t].a})

(* A step of a call that goes on, ends or erases: the data. *)
LEMMA CallReleaseKeeps ==
  ASSUME ReactorTypeOK, IInv, NEW t \in Threads, Active(t), NEW r \in CallType,
         NEW h, NEW obs, NEW S, CallRelease(t, r, h, obs, S)
  PROVE  /\ Effect(t, r)
         /\ Released(h, [calls EXCEPT ![t] = r], obs, S)
         /\ ReactorTypeOK' /\ NumbersOK' /\ MapOK' /\ NotifiersOK'
<1> USE Places
<1>1. /\ CallOK(t) /\ NumbersOK /\ MapOK /\ NotifiersOK
  BY DEF IInv
<1>2. PICK a \in Acceptors : a = calls[t].a
  BY <1>1 DEF CallOK, Active
<1>3. PICK n \in Notifiers \cup {NoNotifier} : n = calls[t].n
  BY DEF ReactorTypeOK, CallType
<1>4. PICK k \in Fds : k = Num(t)
  BY <1>1 DEF CallOK, Active
<1>5. PICK c : c = [calls EXCEPT ![t] = r]
  OBVIOUS
<1>6. c \in [Threads -> CallType] /\ \A u \in Threads \ {t} : c[u] = calls[u]
  BY <1>5 DEF ReactorTypeOK
<1>7. h \in [Fds -> Notifiers \cup {NoNotifier}]
  BY DEF CallRelease, ReactorTypeOK
<1>8. S \in SUBSET Acceptors
  BY <1>2 DEF CallRelease
<1>9. obs \in [Notifiers -> Seq(Acceptors)]
  <2>1. \A m \in Notifiers : /\ Append(observers[m], a) \in Seq(Acceptors)
                             /\ Without(observers[m], a) \in Seq(Acceptors)
    BY AppendOne, WithoutOne DEF ReactorTypeOK
  <2>2. /\ Added(n, a) \in [Notifiers -> Seq(Acceptors)]
        /\ Removed(n, a) \in [Notifiers -> Seq(Acceptors)]
    BY <2>1 DEF Added, Removed, ReactorTypeOK
  <2> QED BY <1>2, <1>3, <2>2 DEF CallRelease, ReactorTypeOK
<1>10. Released(h, c, obs, S)
  BY <1>5, <1>7, <1>8, <1>9, ReleaseDoes DEF CallRelease
<1>11. n # NoNotifier => n \in Living
  BY <1>1, <1>3, <1>4 DEF CallOK, Active, Living, Exists
<1>12. \A m \in Notifiers : m # n => obs[m] = observers[m]
  BY <1>3 DEF CallRelease, Added, Removed, ReactorTypeOK
<1>13. /\ h[k] = handlers[k] \/ (calls[t].op \notin Adds /\ h[k] = NoNotifier)
       /\ \A j \in Fds : j # k => h[j] = handlers[j]
  BY <1>4 DEF CallRelease, ReactorTypeOK
<1>14. ReactorTypeOK'
  BY <1>6, <1>7, <1>10 DEF Released, ReactorTypeOK
<1>15. NumbersOK'
  BY <1>1, <1>8, <1>10 DEF NumbersOK, Released, Exists
<1>16. MapOK'
  <2> SUFFICES ASSUME NEW j \in Fds, h[j] # NoNotifier
               PROVE  sockfd'[Key(h[j])] = j /\ sockfd'[Member(h[j])] = j
    BY <1>10 DEF MapOK, Released
  <2>1. h[j] = handlers[j] /\ h[j] \in Notifiers /\ h[j] \in InMap(h)
    BY <1>7, <1>13 DEF InMap
  <2> QED BY <1>1, <1>10, <2>1 DEF MapOK, Released, Cited
<1>17. ASSUME NEW m \in Living' PROVE m \in Cited(h, c) /\ m \in Living
  BY <1>10 DEF Released, Living, Exists
<1>18. NotifiersOK'
  <2>1. ASSUME NEW m \in Notifiers, m \notin Living' PROVE observers'[m] = <<>>
    <3>1. m \in Cited(h, c) => m \notin Living
      BY <1>10, <2>1 DEF Released, Living, Exists
    <3>2. m \notin Living => obs[m] = <<>>
      BY <1>1, <1>11, <1>12 DEF NotifiersOK
    <3> QED BY <1>10, <3>1, <3>2 DEF Released
  <2>2. ASSUME NEW m \in Living'
        PROVE  /\ sockfd'[Member(m)] \in Fds
               /\ Member(m) \in own' => handlers'[sockfd'[Member(m)]] = m
    <3>1. m \in Living /\ m \in Notifiers /\ sockfd'[Member(m)] = sockfd[Member(m)]
      BY <1>10, <1>17 DEF Released, Living
    <3>2. PICK j \in Fds : j = sockfd[Member(m)]
      BY <1>1, <3>1 DEF NotifiersOK
    <3>3. ASSUME Member(m) \in own' PROVE h[j] = m
      <4>1. handlers[j] = m
        BY <1>1, <1>10, <3>1, <3>2, <3>3 DEF NotifiersOK, Released
      <4>2. SUFFICES ASSUME h[j] # m PROVE FALSE
        OBVIOUS
      <4>3. m \notin InMap(h)
        <5> SUFFICES ASSUME NEW i \in Fds, h[i] = m PROVE FALSE
          BY DEF InMap
        <5>1. handlers[i] = m
          BY <1>13, <3>1
        <5>2. i = j
          BY <1>1, <3>1, <3>2, <5>1 DEF MapOK
        <5> QED BY <4>2, <5>2
      <4>4. m \in InMap(handlers) /\ sockfd[Key(m)] = j
        BY <1>1, <3>1, <4>1 DEF InMap, MapOK
      <4> QED BY <1>10, <3>2, <3>3, <4>3, <4>4 DEF Released
    <3> QED BY <1>10, <3>1, <3>2, <3>3 DEF Released
  <2> QED BY <2>1, <2>2 DEF NotifiersOK
<1>19. HandlerEffect(t)
  BY <1>4, <1>10, <1>13 DEF HandlerEffect, Released
<1>20. ListEffect(t)
  <2> SUFFICES ASSUME NEW m \in Living, m \in Cited(h, c)
               PROVE  \/ observers'[m] = observers[m]
                      \/ /\ m = n
                         /\ observers'[m] = IF calls[t].op \in Adds
                                            THEN Append(observers[m], a)
                                            ELSE Without(observers[m], a)
    BY <1>2, <1>3, <1>10 DEF ListEffect, Released
  <2>1. observers'[m] = obs[m] /\ m \in Notifiers
    BY <1>10 DEF Released, Living
  <2>2. CASE m # n
    BY <1>12, <2>1, <2>2
  <2>3. CASE m = n
    BY <1>2, <1>3, <2>1, <2>3 DEF CallRelease, Added, Removed, ReactorTypeOK
  <2> QED BY <2>2, <2>3
<1>21. \A u \in Threads \ {t} : Active(u) => sockfd'[calls[u].a] = sockfd[calls[u].a]
  <2> TAKE u \in Threads \ {t}
  <2>1. Active(u) => calls[u].a \in Acceptors \ S
    BY DEF IInv, CallOK, PairOK, Active, CallRelease
  <2> QED BY <1>10, <2>1 DEF Released
<1>22. Effect(t, r)
  BY <1>5, <1>10, <1>19, <1>20, <1>21 DEF Effect, Released, Living
<1> QED BY <1>5, <1>10, <1>14, <1>15, <1>16, <1>18, <1>22

(* A record that goes on at w. *)
WentOn(c, w, n) == [c EXCEPT !.at = w, !.n = n]

(* The call after Continue. *)
LEMMA GoesOn ==
  ASSUME NEW c \in CallType, NEW w \in AllSteps, NEW n \in Notifiers \cup {NoNotifier}
  PROVE  /\ WentOn(c, w, n) \in CallType
         /\ WentOn(c, w, n).op = c.op /\ WentOn(c, w, n).a = c.a
         /\ WentOn(c, w, n).at = w /\ WentOn(c, w, n).n = n
         /\ WentOn(c, w, n).met = c.met
BY DEF CallType, WentOn

(* getNotifier makes a notifier for a number that has none. *)
LEMMA MakeNotifierKeeps ==
  ASSUME ReactorTypeOK, IInv, NEW t \in Threads, MakeNotifier(t)
  PROVE  \E n \in Notifiers \ Living :
           /\ Effect(t, [calls[t] EXCEPT !.at = "addTest", !.n = n])
           /\ handlers'[Num(t)] = n /\ sockfd'[Member(n)] = Num(t)
           /\ sockfd'[calls[t].a] = sockfd[calls[t].a]
           /\ own \subseteq own' /\ observers' = observers
           /\ handlers' = [handlers EXCEPT ![Num(t)] = n]
           /\ \A a \in Acceptors : sockfd'[a] = sockfd[a]
           /\ ReactorTypeOK' /\ NumbersOK' /\ MapOK' /\ NotifiersOK'
<1> USE Places
<1>1. Active(t) /\ calls[t].at = "getNew" /\ CallOK(t)
  BY DEF MakeNotifier, At, IInv, Active, Idle
<1>2. PICK n \in Notifiers \ Living :
        /\ CopyAll({Key(n), Member(n)}, calls[t].a)
        /\ handlers' = [handlers EXCEPT ![Num(t)] = n]
        /\ calls' = [calls EXCEPT ![t].at = "addTest", ![t].n = n]
  BY DEF MakeNotifier
<1>3. PICK k \in Fds : k = Num(t)
  BY <1>1 DEF CallOK, Active
<1>4. PICK a \in Acceptors : a = calls[t].a
  BY <1>1 DEF CallOK, Active
<1>5. calls[t].op \in Adds /\ handlers[k] = NoNotifier /\ observers' = observers
  BY <1>1, <1>3 DEF MakeNotifier, CallOK, Active, Steps, ReactorTypeOK, CallType
<1>6. PICK r : r = [calls[t] EXCEPT !.at = "addTest", !.n = n]
  OBVIOUS
<1>7. r \in CallType
  <2>1. PICK c \in CallType : c = calls[t]
    BY DEF ReactorTypeOK
  <2>2. "addTest" \in AllSteps
    BY DEF AllSteps
  <2>3. r = WentOn(c, "addTest", n)
    BY <1>6, <2>1 DEF WentOn
  <2> QED BY <2>1, <2>2, <2>3, GoesOn
<1>8. calls' = [calls EXCEPT ![t] = r]
  BY <1>2, <1>6 DEF ReactorTypeOK
<1>9. sockfd[a] = k /\ k # NoObject
  BY <1>3, <1>4 DEF Num
<1>10. sockfd' = [o \in Objects |-> IF o \in {Key(n), Member(n)} THEN k ELSE sockfd[o]]
  BY <1>2, <1>4, <1>9 DEF CopyAll
<1>11. /\ sockfd'[Key(n)] = k /\ sockfd'[Member(n)] = k
       /\ \A m \in Notifiers : m # n =>
            sockfd'[Key(m)] = sockfd[Key(m)] /\ sockfd'[Member(m)] = sockfd[Member(m)]
       /\ \A b \in Acceptors : sockfd'[b] = sockfd[b]
  BY <1>10
<1>12. own' \subseteq own \cup {Key(n), Member(n)} /\ own \subseteq own'
  BY <1>2 DEF CopyAll
<1>13. ReactorTypeOK'
  <2>1. sockfd' \in [Objects -> Fds \cup {INVALID_SOCKET, NoObject}]
    BY <1>10 DEF ReactorTypeOK
  <2>2. own' \subseteq Objects
    BY <1>12 DEF ReactorTypeOK
  <2>3. handlers' \in [Fds -> Notifiers \cup {NoNotifier}]
    BY <1>2, <1>3 DEF ReactorTypeOK
  <2>4. calls' \in [Threads -> CallType]
    BY <1>7, <1>8 DEF ReactorTypeOK
  <2> QED BY <1>5, <2>1, <2>2, <2>3, <2>4 DEF ReactorTypeOK
<1>14. NumbersOK'
  BY <1>11 DEF IInv, NumbersOK, Exists
<1>15. handlers'[k] = n /\ \A j \in Fds : j # k => handlers'[j] = handlers[j]
  BY <1>2, <1>3 DEF ReactorTypeOK
<1>16. \A j \in Fds : handlers[j] # n
  BY DEF IInv, MapOK, Living, Exists
<1>17. MapOK'
  <2> SUFFICES ASSUME NEW j \in Fds, handlers'[j] # NoNotifier
               PROVE  sockfd'[Key(handlers'[j])] = j /\ sockfd'[Member(handlers'[j])] = j
    BY DEF MapOK
  <2>1. CASE j = k
    BY <1>11, <1>15, <2>1
  <2>2. CASE j # k
    <3>1. handlers'[j] = handlers[j] /\ handlers[j] \in Notifiers /\ handlers[j] # n
      BY <1>15, <1>16, <2>2 DEF ReactorTypeOK
    <3> QED BY <1>11, <3>1 DEF IInv, MapOK
  <2> QED BY <2>1, <2>2
<1>18. Living' = Living \cup {n}
  BY <1>9, <1>11 DEF Living, Exists
<1>19. NotifiersOK'
  <2>1. \A m \in Notifiers \ Living' : observers'[m] = <<>>
    BY <1>5, <1>18 DEF IInv, NotifiersOK
  <2>2. ASSUME NEW m \in Living'
        PROVE  /\ sockfd'[Member(m)] \in Fds
               /\ Member(m) \in own' => handlers'[sockfd'[Member(m)]] = m
    <3>1. CASE m = n
      BY <1>11, <1>15, <3>1
    <3>2. CASE m # n
      <4>1. m \in Living /\ m \in Notifiers /\ sockfd'[Member(m)] = sockfd[Member(m)]
            /\ (Member(m) \in own' => Member(m) \in own)
        BY <1>11, <1>12, <1>18, <3>2 DEF Living
      <4>2. PICK j \in Fds : j = sockfd[Member(m)]
        BY <4>1 DEF IInv, NotifiersOK
      <4>3. Member(m) \in own' => handlers[j] = m
        BY <4>1, <4>2 DEF IInv, NotifiersOK
      <4> QED BY <1>5, <1>15, <4>1, <4>2, <4>3
    <3> QED BY <3>1, <3>2
  <2> QED BY <2>1, <2>2 DEF NotifiersOK
<1>20. HandlerEffect(t)
  BY <1>3, <1>5, <1>15 DEF HandlerEffect, IInv, NotifiersOK
<1>21. ListEffect(t)
  BY <1>5 DEF ListEffect
<1>22. \A u \in Threads \ {t} : Active(u) => sockfd'[calls[u].a] = sockfd[calls[u].a]
  BY <1>11 DEF IInv, CallOK, Active
<1>23. \A m \in Living : sockfd'[Member(m)] = sockfd[Member(m)]
  BY <1>11 DEF Living
<1>24. Effect(t, r)
  BY <1>8, <1>20, <1>21, <1>22, <1>23 DEF Effect
<1> QED
  BY <1>2, <1>3, <1>4, <1>5, <1>6, <1>11, <1>12, <1>13, <1>14, <1>15, <1>17, <1>19, <1>24

(* What is left to show of a step of t's call. *)
LEMMA CallKeeps ==
  ASSUME ReactorTypeOK, IInv, NEW t \in Threads, Active(t), NEW r, Effect(t, r),
         NumbersOK', MapOK', NotifiersOK',
         r # Idle => /\ r.op = calls[t].op /\ r.a = calls[t].a /\ r.met = calls[t].met
                     /\ sockfd'[calls[t].a] = sockfd[calls[t].a]
                     /\ CallOK(t)' /\ AddOK(t)' /\ RemovalOK(t)'
  PROVE  IInv'
<1>1. calls'[t] = r /\ \A u \in Threads \ {t} : calls'[u] = calls[u]
  BY DEF Effect, ReactorTypeOK
<1>2. ASSUME NEW u \in Threads PROVE CallOK(u)' /\ AddOK(u)' /\ RemovalOK(u)'
  <2>1. CASE u # t
    BY <2>1, OthersKeep
  <2>2. CASE u = t /\ r # Idle
    BY <2>2
  <2>3. CASE u = t /\ r = Idle
    <3>1. Idle.op = "none"
      BY DEF Idle
    <3> QED BY <1>1, <2>3, <3>1 DEF CallOK, AddOK, RemovalOK, Adds, Removals
  <2> QED BY <2>1, <2>2, <2>3
<1>3. ASSUME NEW u \in Threads, Active(u)'
      PROVE  /\ Active(u) /\ calls'[u].op = calls[u].op /\ calls'[u].a = calls[u].a
             /\ calls'[u].met = calls[u].met /\ Num(u)' = Num(u)
  <2>1. CASE u = t
    BY <1>1, <1>3, <2>1 DEF Active, Num
  <2>2. CASE u # t
    BY <1>1, <1>3, <2>2 DEF Active, Num, Effect
  <2> QED BY <2>1, <2>2
<1>4. ASSUME NEW u \in Threads, NEW x \in Threads PROVE PairOK(u, x)'
  <2>1. PairOK(u, x)
    BY DEF IInv
  <2> QED BY <1>3, <2>1 DEF PairOK, Active
<1> QED BY <1>2, <1>4 DEF IInv

(* AddOK and RemovalOK of a call that goes on at w with the notifier n.    *)
GoesOnOK(t, w, n) ==
  n # NoNotifier =>
    /\ sockfd[Member(n)] = Num(t)
    /\ calls[t].op \in Adds =>
         /\ Met(t, "removal") = {} => handlers[Num(t)] = n
         /\ w = "add" => ~HasObserver(n, calls[t].a)
    /\ calls[t].op \in Removals =>
         /\ w \in {"test", "count", "erase", "remove"}
         /\ Met(t, "add") = {} => handlers[Num(t)] \in {n, NoNotifier}
         /\ calls[t].a \notin Met(t, "add") /\ handlers[Num(t)] \notin {n, NoNotifier} =>
              ~HasObserver(handlers[Num(t)], calls[t].a)
         /\ w = "count" /\ ~Disturbed(t) => HasObserver(n, calls[t].a)
         /\ w = "erase" /\ ~Disturbed(t) => ToSet(observers[n]) \subseteq {calls[t].a}
         /\ w = "remove" /\ calls[t].met = {} => CountObservers(n) # 1

(* The ways in which a step of t's call can go. *)
Continued(t) ==
  /\ Effect(t, calls'[t]) /\ calls'[t] # Idle
  /\ Released(handlers, calls', observers, {})

Ended(t, obs) ==
  /\ Effect(t, Idle) /\ calls'[t] = Idle
  /\ Released(handlers, calls', obs, IF calls[t].op = "destruct" THEN {calls[t].a} ELSE {})

Erased(t) ==
  /\ At(t, "erase") /\ calls[t].op \in Removals
  /\ Effect(t, calls'[t]) /\ calls'[t] # calls[t] /\ calls'[t] # Idle
  /\ Released([handlers EXCEPT ![Num(t)] = NoNotifier], calls', observers, {})

(* A step after which the call goes on. *)
LEMMA ContinueKeeps ==
  ASSUME ReactorTypeOK, IInv, NEW t \in Threads, Active(t),
         NEW w \in Steps(calls[t].op), NEW n \in Notifiers \cup {NoNotifier},
         w \in {"has", "getNew", "get"} <=> n = NoNotifier,
         GoesOnOK(t, w, n), Continue(t, w, n)
  PROVE  IInv' /\ ReactorTypeOK' /\ Continued(t)
<1> USE Places
<1>1. PICK c \in CallType : c = calls[t]
  BY DEF ReactorTypeOK
<1>2. PICK r : r = WentOn(c, w, n)
  OBVIOUS
<1>3. r \in CallType /\ r.op = c.op /\ r.a = c.a /\ r.at = w /\ r.n = n /\ r.met = c.met
  <2>1. w \in AllSteps
    BY DEF Steps, AllSteps
  <2> QED BY <1>2, <2>1, GoesOn
<1>4. [calls EXCEPT ![t].at = w, ![t].n = n] = [calls EXCEPT ![t] = r]
  BY <1>1, <1>2 DEF ReactorTypeOK, WentOn
<1>5. CallRelease(t, r, handlers, observers, {})
  BY <1>4 DEF Continue, CallRelease
<1>6. PICK h : h = handlers
  OBVIOUS
<1>7. PICK obs : obs = observers
  OBVIOUS
<1>8. /\ Effect(t, r) /\ ReactorTypeOK' /\ NumbersOK' /\ MapOK' /\ NotifiersOK'
      /\ Released(handlers, [calls EXCEPT ![t] = r], observers, {})
  BY <1>3, <1>5, <1>6, <1>7, CallReleaseKeeps
<1>9. CallOK(t) /\ calls[t].op # "none" /\ calls[t].a \in Acceptors /\ Num(t) \in Fds
  BY DEF IInv, CallOK, Active
<1>10. /\ calls'[t] = r /\ handlers' = handlers /\ Num(t)' = Num(t)
       /\ sockfd'[calls[t].a] = sockfd[calls[t].a]
  BY <1>1, <1>3, <1>8, <1>9 DEF Released, Num, ReactorTypeOK
<1>11. /\ Met(t, "add")' = Met(t, "add") /\ Met(t, "removal")' = Met(t, "removal")
       /\ (Disturbed(t)' <=> Disturbed(t))
  BY <1>1, <1>3, <1>10 DEF Met, Disturbed
<1>12. n # NoNotifier => observers'[n] = observers[n] /\ sockfd'[Member(n)] = sockfd[Member(n)]
  <2>1. n # NoNotifier => n \in Cited(handlers, [calls EXCEPT ![t] = r])
    BY <1>3 DEF Cited, InCalls, ReactorTypeOK
  <2> QED BY <1>8, <2>1 DEF Released
<1>13. handlers[Num(t)] # NoNotifier => observers'[handlers[Num(t)]] = observers[handlers[Num(t)]]
  <2>1. handlers[Num(t)] # NoNotifier =>
          /\ handlers[Num(t)] \in Notifiers
          /\ handlers[Num(t)] \in Cited(handlers, [calls EXCEPT ![t] = r])
    BY <1>9 DEF Cited, InMap, ReactorTypeOK
  <2> QED BY <1>8, <2>1 DEF Released
<1>14. CallOK(t)'
  BY <1>1, <1>3, <1>9, <1>10, <1>12 DEF CallOK, GoesOnOK
<1>15. AddOK(t)'
  BY <1>1, <1>3, <1>10, <1>11, <1>12 DEF AddOK, GoesOnOK, At, HasObserver
<1>16. RemovalOK(t)'
  BY <1>1, <1>3, <1>10, <1>11, <1>12, <1>13
     DEF RemovalOK, GoesOnOK, At, HasObserver, CountObservers
<1>17. IInv'
  BY <1>1, <1>3, <1>8, <1>10, <1>14, <1>15, <1>16, CallKeeps
<1>18. r # Idle
  BY <1>1, <1>3, <1>9 DEF Idle
<1>19. calls' = [calls EXCEPT ![t] = r]
  BY <1>8 DEF Released
<1> QED BY <1>8, <1>10, <1>17, <1>18, <1>19 DEF Continued

(* A step that ends the call. *)
LEMMA EndCallKeeps ==
  ASSUME ReactorTypeOK, IInv, NEW t \in Threads, Active(t), NEW obs, EndCall(t, obs),
         obs = observers \/ obs = IF calls[t].op \in Adds THEN Added(calls[t].n, calls[t].a)
                                                         ELSE Removed(calls[t].n, calls[t].a)
  PROVE  IInv' /\ ReactorTypeOK' /\ Ended(t, obs)
<1>1. Idle \in CallType
  BY DEF Idle, CallType, AllSteps
<1>2. PICK S : S = IF calls[t].op = "destruct" THEN {calls[t].a} ELSE {}
  OBVIOUS
<1>3. CallRelease(t, Idle, handlers, obs, S)
  BY <1>2 DEF EndCall, CallRelease
<1>4. PICK h : h = handlers
  OBVIOUS
<1>5. PICK r : r = Idle
  OBVIOUS
<1>6. /\ Effect(t, r) /\ ReactorTypeOK' /\ NumbersOK' /\ MapOK' /\ NotifiersOK'
      /\ Released(handlers, [calls EXCEPT ![t] = r], obs, S)
  BY <1>1, <1>3, <1>4, <1>5, CallReleaseKeeps
<1>7. IInv'
  BY <1>5, <1>6, CallKeeps
<1>8. calls' = [calls EXCEPT ![t] = r] /\ calls'[t] = Idle
  BY <1>5, <1>6 DEF Released, ReactorTypeOK
<1> QED BY <1>2, <1>5, <1>6, <1>7, <1>8 DEF Ended

(* The entry of the number is erased. *)
LEMMA RemoveEraseKeeps ==
  ASSUME ReactorTypeOK, IInv, NEW t \in Threads, RemoveErase(t)
  PROVE  IInv' /\ ReactorTypeOK' /\ Erased(t)
<1> USE Places
<1>1. Active(t) /\ calls[t].at = "erase" /\ CallOK(t) /\ RemovalOK(t)
  BY DEF RemoveErase, At, IInv, Active, Idle
<1>2. /\ calls[t].op \in Removals /\ calls[t].a \in Acceptors /\ Num(t) \in Fds
      /\ calls[t].n \in Notifiers /\ calls[t].n # NoNotifier
      /\ sockfd[Member(calls[t].n)] = Num(t)
  BY <1>1 DEF CallOK, Active, Steps, ReactorTypeOK, CallType
<1>3. calls[t].op \notin Adds
  BY <1>2 DEF Adds, Removals
<1>4. PICK c \in CallType : c = calls[t]
  BY DEF ReactorTypeOK
<1>5. PICK n \in Notifiers : n = calls[t].n
  BY <1>2
<1>6. PICK r : r = WentOn(c, "unpoll", n)
  OBVIOUS
<1>7. /\ r \in CallType /\ r.op = c.op /\ r.a = c.a /\ r.at = "unpoll" /\ r.n = n
      /\ r.met = c.met
  <2>1. "unpoll" \in AllSteps
    BY DEF AllSteps
  <2> QED BY <1>6, <2>1, GoesOn
<1>8. [calls EXCEPT ![t].at = "unpoll"] = [calls EXCEPT ![t] = r]
  BY <1>4, <1>5, <1>6 DEF ReactorTypeOK, WentOn, CallType
<1>9. PICK h : h = [handlers EXCEPT ![Num(t)] = NoNotifier]
  OBVIOUS
<1>10. PICK obs : obs = observers
  OBVIOUS
<1>11. PICK S : S = {}
  OBVIOUS
<1>12. CallRelease(t, r, h, obs, S)
  BY <1>3, <1>8, <1>9, <1>10, <1>11 DEF RemoveErase, CallRelease
<1>13. /\ Effect(t, r) /\ ReactorTypeOK' /\ NumbersOK' /\ MapOK' /\ NotifiersOK'
       /\ Released(h, [calls EXCEPT ![t] = r], obs, S)
  BY <1>1, <1>7, <1>12, CallReleaseKeeps
<1>14. /\ calls' = [calls EXCEPT ![t] = r] /\ calls'[t] = r /\ Num(t)' = Num(t)
       /\ sockfd'[calls[t].a] = sockfd[calls[t].a] /\ handlers'[Num(t)] = NoNotifier
  BY <1>2, <1>4, <1>7, <1>9, <1>11, <1>13 DEF Released, Num, ReactorTypeOK
<1>15. sockfd'[Member(n)] = sockfd[Member(n)]
  <2>1. n \in Cited(h, [calls EXCEPT ![t] = r])
    BY <1>5, <1>7 DEF Cited, InCalls, ReactorTypeOK
  <2> QED BY <1>13, <2>1 DEF Released
<1>16. CallOK(t)'
  BY <1>2, <1>4, <1>5, <1>7, <1>14, <1>15 DEF CallOK, Steps, Adds, Removals
<1>17. AddOK(t)'
  BY <1>3, <1>4, <1>7, <1>14 DEF AddOK
<1>18. RemovalOK(t)'
  BY <1>5, <1>7, <1>14 DEF RemovalOK, At
<1>19. IInv'
  BY <1>1, <1>4, <1>7, <1>13, <1>14, <1>16, <1>17, <1>18, CallKeeps
<1>20. r # Idle /\ r # calls[t]
  BY <1>1, <1>2, <1>4, <1>7 DEF Idle, Removals
<1> QED
  BY <1>1, <1>2, <1>9, <1>10, <1>11, <1>13, <1>14, <1>19, <1>20 DEF Erased, At

-----------------------------------------------------------------------------
(* The steps of a call, one by one. *)
Made(t) ==
  /\ calls[t].op \in Adds /\ handlers[Num(t)] = NoNotifier
  /\ Effect(t, calls'[t]) /\ calls'[t] # Idle
  /\ observers' = observers /\ own \subseteq own'
  /\ \A a \in Acceptors : sockfd'[a] = sockfd[a]
  /\ \E n \in Notifiers \ Living : handlers' = [handlers EXCEPT ![Num(t)] = n]

AddEnded(t) ==
  \/ /\ Ended(t, observers) /\ calls[t].n # NoNotifier
     /\ HasObserver(calls[t].n, calls[t].a)
  \/ At(t, "add") /\ Ended(t, Added(calls[t].n, calls[t].a))

RemovalEnded(t) ==
  \/ At(t, "get") /\ handlers[Num(t)] = NoNotifier /\ Ended(t, observers)
  \/ At(t, "test") /\ ~HasObserver(calls[t].n, calls[t].a) /\ Ended(t, observers)
  \/ At(t, "unpoll") /\ Ended(t, observers)
  \/ At(t, "remove") /\ Ended(t, Removed(calls[t].n, calls[t].a))

CallDone(t) ==
  \/ Continued(t)
  \/ Made(t)
  \/ Erased(t)
  \/ calls[t].op \in Adds /\ AddEnded(t)
  \/ calls[t].op \in Removals /\ RemovalEnded(t)

(* A call that refers to a notifier, or does not yet. *)
LEMMA Where ==
  ASSUME ReactorTypeOK, IInv, NEW t \in Threads, ~At(t, "none")
  PROVE  /\ Active(t) /\ calls[t].a \in Acceptors /\ Num(t) \in Fds
         /\ calls[t].op \in Adds \cup Removals
         /\ (calls[t].op \in Adds <=> calls[t].op \notin Removals)
         /\ calls[t].at \in Steps(calls[t].op)
         /\ IF calls[t].at \in {"has", "getNew", "get"} THEN calls[t].n = NoNotifier
            ELSE /\ calls[t].n \in Notifiers /\ calls[t].n # NoNotifier
                 /\ sockfd[Member(calls[t].n)] = Num(t)
         /\ handlers[Num(t)] # NoNotifier =>
              /\ handlers[Num(t)] \in Notifiers
              /\ sockfd[Member(handlers[Num(t)])] = Num(t)
<1>1. Active(t) /\ CallOK(t) /\ MapOK
  BY DEF At, IInv, Active, Idle
<1>2. calls[t] \in CallType
  BY DEF ReactorTypeOK
<1>3. /\ calls[t].op \in Adds \cup Removals
      /\ calls[t].op \in Adds <=> calls[t].op \notin Removals
  BY <1>1, <1>2 DEF CallOK, Active, CallType, Adds, Removals
<1>4. /\ calls[t].a \in Acceptors /\ Num(t) \in Fds
      /\ calls[t].at \in Steps(calls[t].op)
      /\ IF calls[t].at \in {"has", "getNew", "get"} THEN calls[t].n = NoNotifier
         ELSE /\ calls[t].n \in Notifiers /\ calls[t].n # NoNotifier
              /\ sockfd[Member(calls[t].n)] = Num(t)
  BY <1>1, <1>2 DEF CallOK, Active, CallType
<1>5. handlers[Num(t)] # NoNotifier =>
        /\ handlers[Num(t)] \in Notifiers
        /\ sockfd[Member(handlers[Num(t)])] = Num(t)
  BY <1>1, <1>4 DEF MapOK, ReactorTypeOK
<1> QED BY <1>1, <1>3, <1>4, <1>5

(* The steps of registerAcceptor and addEventHandler. *)
LEMMA AddKeeps ==
  ASSUME ReactorTypeOK, IInv, NEW t \in Threads,
         \/ HasGet(t) \/ HasTest(t) \/ GetNotifier(t) \/ MakeNotifier(t)
         \/ AddTest(t) \/ AddObserver(t)
  PROVE  IInv' /\ ReactorTypeOK' /\ CallDone(t)
<1>0. /\ ~At(t, "none") /\ AddOK(t)
      /\ calls[t].at \in {"has", "hasTest", "getNew", "addTest", "add"}
  BY DEF HasGet, HasTest, GetNotifier, MakeNotifier, AddTest, AddObserver, At, IInv
<1>1. calls[t].op \in Adds /\ Steps(calls[t].op) = {"has", "hasTest", "getNew", "addTest", "add"}
  BY <1>0, Where DEF Steps
<1>2. PICK n \in Notifiers \cup {NoNotifier} : n = calls[t].n
  BY DEF ReactorTypeOK, CallType
<1>3. PICK m \in Notifiers \cup {NoNotifier} : m = handlers[Num(t)]
  BY <1>0, Where
<1>4. CASE HasGet(t)
  <2>1. PICK w \in Steps(calls[t].op) : w = IF m = NoNotifier THEN "getNew" ELSE "hasTest"
    BY <1>1
  <2>2. Continue(t, w, m)
    BY <1>3, <1>4, <2>1 DEF HasGet
  <2>3. GoesOnOK(t, w, m)
    BY <1>0, <1>1, <1>3, <2>1, Where DEF GoesOnOK
  <2>4. w \in {"has", "getNew", "get"} <=> m = NoNotifier
    BY <2>1
  <2> QED BY <1>0, <2>2, <2>3, <2>4, Where, ContinueKeeps DEF CallDone
<1>5. CASE HasTest(t)
  <2>1. CASE HasObserver(calls[t].n, calls[t].a)
    <3>1. PICK obs : obs = observers
      OBVIOUS
    <3>2. EndCall(t, obs)
      BY <1>5, <2>1, <3>1 DEF HasTest
    <3>3. calls[t].n # NoNotifier
      BY <1>0, <1>5, Where DEF HasTest, At
    <3> QED BY <1>0, <1>1, <2>1, <3>1, <3>2, <3>3, Where, EndCallKeeps DEF CallDone, AddEnded
  <2>2. CASE ~HasObserver(calls[t].n, calls[t].a)
    <3>1. Continue(t, "getNew", NoNotifier)
      BY <1>5, <2>2 DEF HasTest
    <3>2. GoesOnOK(t, "getNew", NoNotifier)
      BY DEF GoesOnOK
    <3> QED BY <1>0, <1>1, <3>1, <3>2, Where, ContinueKeeps DEF CallDone
  <2> QED BY <2>1, <2>2
<1>6. CASE GetNotifier(t)
  <2>1. m # NoNotifier /\ Continue(t, "addTest", m)
    BY <1>3, <1>6 DEF GetNotifier
  <2>2. GoesOnOK(t, "addTest", m)
    BY <1>0, <1>1, <1>3, <2>1, Where DEF GoesOnOK
  <2> QED BY <1>0, <1>1, <2>1, <2>2, Where, ContinueKeeps DEF CallDone
<1>7. CASE MakeNotifier(t)
  <2>1. PICK k \in Notifiers \ Living :
           /\ Effect(t, [calls[t] EXCEPT !.at = "addTest", !.n = k])
           /\ handlers'[Num(t)] = k /\ sockfd'[Member(k)] = Num(t)
           /\ sockfd'[calls[t].a] = sockfd[calls[t].a]
           /\ own \subseteq own' /\ observers' = observers
           /\ handlers' = [handlers EXCEPT ![Num(t)] = k]
           /\ \A a \in Acceptors : sockfd'[a] = sockfd[a]
           /\ ReactorTypeOK' /\ NumbersOK' /\ MapOK' /\ NotifiersOK'
    BY <1>7, MakeNotifierKeeps
  <2>2. PICK c \in CallType : c = calls[t]
    BY DEF ReactorTypeOK
  <2>3. PICK r : r = WentOn(c, "addTest", k)
    OBVIOUS
  <2>4. /\ r \in CallType /\ r.op = c.op /\ r.a = c.a /\ r.at = "addTest" /\ r.n = k
        /\ r.met = c.met
    <3>1. "addTest" \in AllSteps
      BY DEF AllSteps
    <3> QED BY <2>3, <3>1, GoesOn
  <2>5. Effect(t, r) /\ calls' = [calls EXCEPT ![t] = r] /\ calls'[t] = r
    BY <2>1, <2>2, <2>3 DEF WentOn, Effect, ReactorTypeOK
  <2>6. k # NoNotifier
    BY Places
  <2>7. Num(t)' = Num(t) /\ calls[t].a \in Acceptors /\ Num(t) \in Fds
    BY <1>0, <2>1, <2>2, <2>4, <2>5, Where DEF Num
  <2>8. CallOK(t)'
    BY <1>1, <2>1, <2>2, <2>4, <2>5, <2>6, <2>7 DEF CallOK, Adds
  <2>9. AddOK(t)'
    BY <2>1, <2>4, <2>5, <2>7 DEF AddOK, At
  <2>10. RemovalOK(t)'
    BY <1>1, <2>2, <2>4, <2>5 DEF RemovalOK, Adds, Removals
  <2>11. IInv'
    BY <1>0, <2>1, <2>2, <2>4, <2>5, <2>8, <2>9, <2>10, Where, CallKeeps
  <2>12. r # Idle
    BY <2>4 DEF Idle
  <2>13. handlers[Num(t)] = NoNotifier
    BY <1>7 DEF MakeNotifier
  <2>14. Made(t)
    BY <1>1, <2>1, <2>5, <2>12, <2>13 DEF Made
  <2> QED BY <2>1, <2>11, <2>14 DEF CallDone
<1>8. CASE AddTest(t)
  <2>0. n # NoNotifier /\ sockfd[Member(n)] = Num(t)
    BY <1>0, <1>2, <1>8, Where DEF AddTest, At
  <2>1. CASE HasObserver(n, calls[t].a)
    <3>1. PICK obs : obs = observers
      OBVIOUS
    <3>2. EndCall(t, obs)
      BY <1>2, <1>8, <2>1, <3>1 DEF AddTest
    <3> QED BY <1>0, <1>1, <1>2, <2>0, <2>1, <3>1, <3>2, Where, EndCallKeeps
            DEF CallDone, AddEnded
  <2>2. CASE ~HasObserver(n, calls[t].a)
    <3>1. Continue(t, "add", n)
      BY <1>2, <1>8, <2>2 DEF AddTest
    <3>2. GoesOnOK(t, "add", n)
      BY <1>0, <1>1, <1>2, <2>0, <2>2, Where DEF GoesOnOK, AddOK
    <3> QED BY <1>0, <1>1, <2>0, <3>1, <3>2, Where, ContinueKeeps DEF CallDone
  <2> QED BY <2>1, <2>2
<1>9. CASE AddObserver(t)
  <2>1. PICK obs : obs = Added(calls[t].n, calls[t].a)
    OBVIOUS
  <2>2. EndCall(t, obs) /\ At(t, "add")
    BY <1>9, <2>1 DEF AddObserver
  <2> QED BY <1>0, <1>1, <2>1, <2>2, Where, EndCallKeeps DEF CallDone, AddEnded
<1> QED BY <1>4, <1>5, <1>6, <1>7, <1>8, <1>9

(* The steps of removeEventHandler. *)
LEMMA RemovalKeeps ==
  ASSUME ReactorTypeOK, IInv, NEW t \in Threads,
         \/ RemoveGet(t) \/ RemoveTest(t) \/ RemoveCount(t)
         \/ RemoveErase(t) \/ RemoveUnpoll(t) \/ RemoveObserver(t)
  PROVE  IInv' /\ ReactorTypeOK' /\ CallDone(t)
<1>0. /\ ~At(t, "none") /\ RemovalOK(t)
      /\ calls[t].at \in {"get", "test", "count", "erase", "unpoll", "remove"}
  BY DEF RemoveGet, RemoveTest, RemoveCount, RemoveErase, RemoveUnpoll, RemoveObserver, At, IInv
<1>1. /\ calls[t].op \in Removals /\ calls[t].op \notin Adds
      /\ Steps(calls[t].op) = {"get", "test", "count", "erase", "unpoll", "remove"}
  BY <1>0, Where DEF Steps
<1>2. PICK n \in Notifiers \cup {NoNotifier} : n = calls[t].n
  BY DEF ReactorTypeOK, CallType
<1>3. PICK m \in Notifiers \cup {NoNotifier} : m = handlers[Num(t)]
  BY <1>0, Where
<1>4. PICK obs : obs = observers
  OBVIOUS
<1>5. CASE RemoveGet(t)
  <2>1. CASE m = NoNotifier
    <3>1. EndCall(t, obs) /\ At(t, "get")
      BY <1>3, <1>4, <1>5, <2>1 DEF RemoveGet
    <3> QED BY <1>0, <1>1, <1>3, <1>4, <2>1, <3>1, Where, EndCallKeeps
            DEF CallDone, RemovalEnded
  <2>2. CASE m # NoNotifier
    <3>1. Continue(t, "test", m)
      BY <1>3, <1>5, <2>2 DEF RemoveGet
    <3>2. GoesOnOK(t, "test", m)
      BY <1>0, <1>1, <1>3, <2>2, Where DEF GoesOnOK
    <3> QED BY <1>0, <1>1, <2>2, <3>1, <3>2, Where, ContinueKeeps DEF CallDone
  <2> QED BY <2>1, <2>2
<1>6. CASE RemoveTest(t)
  <2>0. n # NoNotifier /\ sockfd[Member(n)] = Num(t)
    BY <1>0, <1>2, <1>6, Where DEF RemoveTest, At
  <2>1. CASE HasObserver(n, calls[t].a)
    <3>1. Continue(t, "count", n)
      BY <1>2, <1>6, <2>1 DEF RemoveTest
    <3>2. GoesOnOK(t, "count", n)
      BY <1>0, <1>1, <1>2, <2>0, <2>1, Where DEF GoesOnOK, RemovalOK
    <3> QED BY <1>0, <1>1, <2>0, <3>1, <3>2, Where, ContinueKeeps DEF CallDone
  <2>2. CASE ~HasObserver(n, calls[t].a)
    <3>1. EndCall(t, obs) /\ At(t, "test")
      BY <1>2, <1>4, <1>6, <2>2 DEF RemoveTest
    <3> QED BY <1>0, <1>1, <1>2, <1>4, <2>2, <3>1, Where, EndCallKeeps
            DEF CallDone, RemovalEnded
  <2> QED BY <2>1, <2>2
<1>7. CASE RemoveCount(t)
  <2>0. n \in Notifiers /\ n # NoNotifier /\ sockfd[Member(n)] = Num(t)
    BY <1>0, <1>2, <1>7, Where DEF RemoveCount, At
  <2>1. PICK w \in Steps(calls[t].op) :
          w = IF CountObservers(n) = 1 THEN "erase" ELSE "remove"
    BY <1>1
  <2>2. Continue(t, w, n) /\ At(t, "count")
    BY <1>2, <1>7, <2>1 DEF RemoveCount
  <2>3. ASSUME CountObservers(n) = 1, ~Disturbed(t)
        PROVE  ToSet(observers[n]) \subseteq {calls[t].a}
    <3>1. HasObserver(n, calls[t].a)
      BY <1>0, <1>1, <1>2, <2>0, <2>2, <2>3 DEF RemovalOK
    <3> QED BY <2>0, <2>3, <3>1, OneElement
            DEF HasObserver, CountObservers, ReactorTypeOK
  <2>4. GoesOnOK(t, w, n)
    BY <1>0, <1>1, <1>2, <2>0, <2>1, <2>3, Where DEF GoesOnOK, RemovalOK
  <2>5. w \in {"has", "getNew", "get"} <=> n = NoNotifier
    BY <2>0, <2>1
  <2> QED BY <1>0, <2>2, <2>4, <2>5, Where, ContinueKeeps DEF CallDone
<1>8. CASE RemoveErase(t)
  BY <1>8, RemoveEraseKeeps DEF CallDone
<1>9. CASE RemoveUnpoll(t)
  <2>1. EndCall(t, obs) /\ At(t, "unpoll")
    BY <1>4, <1>9 DEF RemoveUnpoll, PollRefuses
  <2> QED BY <1>0, <1>1, <1>4, <2>1, Where, EndCallKeeps DEF CallDone, RemovalEnded
<1>10. CASE RemoveObserver(t)
  <2>1. PICK list : list = Removed(calls[t].n, calls[t].a)
    OBVIOUS
  <2>2. EndCall(t, list) /\ At(t, "remove")
    BY <1>10, <2>1 DEF RemoveObserver, PollRefuses
  <2> QED BY <1>0, <1>1, <2>1, <2>2, Where, EndCallKeeps DEF CallDone, RemovalEnded
<1> QED BY <1>5, <1>6, <1>7, <1>8, <1>9, <1>10

-----------------------------------------------------------------------------
(* The other steps.                                                        *)

(* What a step does that starts a call of t, and makes its acceptor first  *)
(* if it is not there.                                                     *)
Started(t, op, a) ==
  /\ calls[t] = Idle
  /\ \A u \in Threads \ {t} : /\ calls'[u].op = calls[u].op /\ calls'[u].a = calls[u].a
                              /\ calls'[u].at = calls[u].at /\ calls'[u].n = calls[u].n
                              /\ calls[u].met \subseteq calls'[u].met
                              /\ Active(u)' <=> Active(u)
  /\ calls'[t].op = op /\ calls'[t].a = a /\ calls'[t].n = NoNotifier /\ Active(t)'
  /\ UNCHANGED <<handlers, observers>>

StartShape(t, op, a, w, k) ==
  /\ StartCall(t, op, a, w, k)
  /\ k \in Fds /\ sockfd'[a] = k
  /\ Exists(a) => sockfd[a] = k
  /\ \A o \in Objects : o # a => sockfd'[o] = sockfd[o]
  /\ sockfd' \in [Objects -> Fds \cup {INVALID_SOCKET, NoObject}]
  /\ own \subseteq own' /\ own' \subseteq own \cup {a}

(* A call that starts learns of the others on its number, and they of it. *)
LEMMA StartKeeps ==
  ASSUME ReactorTypeOK, IInv, NEW t \in Threads, NEW op \in Adds \cup Removals,
         NEW a \in Acceptors, NEW w \in {"has", "getNew", "get"}, w \in Steps(op),
         NEW k, StartShape(t, op, a, w, k)
  PROVE  IInv' /\ ReactorTypeOK' /\ Started(t, op, a)
<1> USE Places
<1>1. PICK others \in SUBSET Threads : others = {u \in Threads : calls[u] # Idle /\ Num(u) = k}
  OBVIOUS
<1>2. PICK r : r = [op |-> op, a |-> a, at |-> w, n |-> NoNotifier,
                    met |-> {<<Kind(calls[x].op), calls[x].a>> : x \in others}]
  OBVIOUS
<1>3. /\ calls[t] = Idle
      /\ Busy(a, {"construct", "destruct"}) = {}
      /\ op = "destruct" => Busy(a, Adds \cup Removals) = {}
      /\ calls' = [u \in Threads |->
           IF u = t THEN r
           ELSE IF u \in others THEN [calls[u] EXCEPT !.met = @ \cup {<<Kind(op), a>>}]
           ELSE calls[u]]
      /\ UNCHANGED <<handlers, observers, loop, stopping>>
  BY <1>1, <1>2 DEF StartShape, StartCall
<1>4. \A o : Kind(o) \in {"add", "removal"}
  BY DEF Kind
<1>5. ASSUME NEW u \in Threads, Active(u)
      PROVE  /\ calls[u] \in CallType /\ calls[u].a \in Acceptors /\ calls[u].op # "none"
             /\ Num(u) \in Fds /\ sockfd'[calls[u].a] = Num(u)
  <2>1. /\ calls[u] \in CallType /\ calls[u].a \in Acceptors /\ calls[u].op # "none"
        /\ Num(u) \in Fds
    BY <1>5 DEF IInv, CallOK, Active, ReactorTypeOK
  <2>2. calls[u].a = a => Exists(a)
    BY <2>1 DEF Num, Exists
  <2> QED BY <2>1, <2>2 DEF StartShape, Num
<1>6. r \in CallType
  <2>1. {<<Kind(calls[x].op), calls[x].a>> : x \in others}
          \subseteq {"add", "removal"} \X Acceptors
    BY <1>1, <1>4, <1>5 DEF Active
  <2> QED BY <1>2, <2>1 DEF CallType, AllSteps
<1>7. ASSUME NEW u \in Threads, u # t
      PROVE  /\ calls'[u] \in CallType
             /\ calls'[u].op = calls[u].op /\ calls'[u].a = calls[u].a
             /\ calls'[u].at = calls[u].at /\ calls'[u].n = calls[u].n
             /\ calls[u].met \subseteq calls'[u].met
             /\ Active(u)' <=> Active(u)
             /\ u \in others => <<Kind(op), a>> \in calls'[u].met
  <2>1. CASE u \in others
    <3>1. PICK c \in CallType : c = calls[u]
      BY DEF ReactorTypeOK
    <3>2. calls'[u] = [c EXCEPT !.met = @ \cup {<<Kind(op), a>>}]
      BY <1>3, <1>7, <2>1, <3>1
    <3>3. <<Kind(op), a>> \in {"add", "removal"} \X Acceptors
      BY <1>4
    <3>4. /\ calls'[u] \in CallType
          /\ calls'[u].op = c.op /\ calls'[u].a = c.a /\ calls'[u].at = c.at
          /\ calls'[u].n = c.n /\ calls'[u].met = c.met \cup {<<Kind(op), a>>}
      BY <3>2, <3>3 DEF CallType
    <3>5. Active(u) /\ c.op # "none"
      BY <1>1, <1>5, <2>1, <3>1 DEF Active
    <3>6. calls'[u] # Idle
      BY <3>4, <3>5 DEF Idle
    <3> QED BY <3>1, <3>4, <3>5, <3>6 DEF Active
  <2>2. CASE u \notin others
    <3>1. calls'[u] = calls[u]
      BY <1>3, <1>7, <2>2
    <3> QED BY <2>2, <3>1 DEF Active, ReactorTypeOK
  <2> QED BY <2>1, <2>2
<1>8. calls'[t] = r
  BY <1>3
<1>9. r # Idle /\ r.op = op /\ r.a = a /\ r.at = w /\ r.n = NoNotifier
      /\ r.met = {<<Kind(calls[x].op), calls[x].a>> : x \in others}
  <2>1. r.op = op /\ r.a = a /\ r.at = w /\ r.n = NoNotifier
        /\ r.met = {<<Kind(calls[x].op), calls[x].a>> : x \in others}
    BY <1>2
  <2>2. op # "none" /\ Idle.op = "none"
    BY DEF Adds, Removals, Idle
  <2> QED BY <2>1, <2>2
<1>10. ReactorTypeOK'
  <2>1. calls' \in [Threads -> CallType]
    BY <1>3, <1>6, <1>7, <1>8
  <2>2. own' \subseteq Objects
    BY DEF StartShape, ReactorTypeOK
  <2> QED BY <1>3, <2>1, <2>2 DEF ReactorTypeOK, StartShape
<1>11. \A n \in Notifiers : /\ sockfd'[Key(n)] = sockfd[Key(n)]
                            /\ sockfd'[Member(n)] = sockfd[Member(n)]
                            /\ (Member(n) \in own' => Member(n) \in own)
  BY DEF StartShape
<1>12. NumbersOK'
  BY DEF NumbersOK, Exists, StartShape, IInv
<1>13. MapOK'
  BY <1>3, <1>11 DEF MapOK, IInv, ReactorTypeOK
<1>14. Living' = Living
  BY <1>11 DEF Living, Exists
<1>15. NotifiersOK'
  BY <1>3, <1>11, <1>14 DEF NotifiersOK, IInv, Living
<1>16. ASSUME NEW u \in Threads PROVE CallOK(u)' /\ AddOK(u)' /\ RemovalOK(u)'
  <2>1. CASE u = t
    <3>1. CallOK(u)'
      <4>1. Num(u)' \in Fds
        BY <1>8, <1>9, <2>1 DEF Num, StartShape
      <4>2. op # "none"
        BY DEF Adds, Removals
      <4> QED BY <1>8, <1>9, <2>1, <4>1, <4>2 DEF CallOK
    <3> QED BY <1>8, <1>9, <2>1, <3>1 DEF AddOK, RemovalOK
  <2>2. CASE u # t
    <3>0. CallOK(u) /\ AddOK(u) /\ RemovalOK(u) /\ (calls[u].n # NoNotifier => Active(u))
      BY DEF IInv, Active, Idle
    <3>1. PICK c : c = calls'[u]
      OBVIOUS
    <3>2. /\ c.op = calls[u].op /\ c.a = calls[u].a /\ c.at = calls[u].at /\ c.n = calls[u].n
          /\ calls[u].met \subseteq c.met /\ (Active(u)' <=> Active(u))
      BY <1>7, <2>2, <3>1
    <3>3. /\ Met(u, "add") \subseteq Met(u, "add")'
          /\ Met(u, "removal") \subseteq Met(u, "removal")'
          /\ Disturbed(u) => Disturbed(u)'
      BY <3>1, <3>2 DEF Met, Disturbed
    <3>4. Active(u) => Num(u)' = Num(u)
      BY <1>5, <3>1, <3>2 DEF Num
    <3>5. CallOK(u)'
      <4>1. Active(u) /\ calls[u].n # NoNotifier => calls[u].n \in Notifiers
        BY <1>5 DEF CallType
      <4> QED BY <1>11, <3>0, <3>1, <3>2, <3>4, <4>1 DEF CallOK, Active
    <3>6. AddOK(u)'
      BY <1>3, <3>0, <3>1, <3>2, <3>3, <3>4 DEF AddOK, At, HasObserver
    <3>7. RemovalOK(u)'
      BY <1>3, <3>0, <3>1, <3>2, <3>3, <3>4
         DEF RemovalOK, At, HasObserver, CountObservers
    <3> QED BY <3>5, <3>6, <3>7
  <2> QED BY <2>1, <2>2
<1>17. ASSUME NEW u \in Threads, NEW x \in Threads PROVE PairOK(u, x)'
  <2> SUFFICES ASSUME u # x, Active(u)', Active(x)'
               PROVE  /\ calls'[u].op = "destruct" => calls'[x].a # calls'[u].a
                      /\ Num(u)' = Num(x)' => <<Kind(calls'[x].op), calls'[x].a>> \in calls'[u].met
    BY DEF PairOK, Active
  <2>1. CASE u # t /\ x # t
    <3>1. /\ PairOK(u, x) /\ Active(u) /\ Active(x)
          /\ calls'[x].op = calls[x].op /\ calls'[x].a = calls[x].a
          /\ calls'[u].op = calls[u].op /\ calls'[u].a = calls[u].a
          /\ calls[u].met \subseteq calls'[u].met
      BY <1>7, <2>1 DEF IInv
    <3>2. Num(u)' = Num(u) /\ Num(x)' = Num(x)
      BY <1>5, <3>1 DEF Num
    <3> QED BY <3>1, <3>2 DEF PairOK, Active
  <2>2. CASE u = t
    <3>1. Active(x) /\ calls'[x].op = calls[x].op /\ calls'[x].a = calls[x].a
      BY <1>7, <2>2
    <3>2. Num(x)' = Num(x) /\ Num(u)' = k
      BY <1>5, <1>8, <1>9, <2>2, <3>1 DEF Num, StartShape
    <3>3. Num(u)' = Num(x)' => x \in others
      BY <1>1, <3>1, <3>2 DEF Active
    <3>4. x \in others => <<Kind(calls[x].op), calls[x].a>> \in r.met
      BY <1>9
    <3>5. op = "destruct" => calls[x].a # a
      BY <1>3, <1>5, <3>1 DEF Busy, CallType
    <3> QED BY <1>8, <1>9, <2>2, <3>1, <3>3, <3>4, <3>5
  <2>3. CASE x = t
    <3>1. Active(u) /\ calls'[u].op = calls[u].op /\ calls'[u].a = calls[u].a
      BY <1>7, <2>3
    <3>2. Num(u)' = Num(u) /\ Num(x)' = k
      BY <1>5, <1>8, <1>9, <2>3, <3>1 DEF Num, StartShape
    <3>3. Num(u)' = Num(x)' => <<Kind(op), a>> \in calls'[u].met
      BY <1>1, <1>7, <2>3, <3>1, <3>2 DEF Active
    <3>4. calls[u].op = "destruct" => calls[u].a # a
      BY <1>3 DEF Busy
    <3> QED BY <1>8, <1>9, <2>3, <3>1, <3>3, <3>4
  <2> QED BY <2>1, <2>2, <2>3
<1>18. IInv'
  BY <1>12, <1>13, <1>15, <1>16, <1>17 DEF IInv
<1>19. Started(t, op, a)
  BY <1>3, <1>7, <1>8, <1>9 DEF Started, Active
<1> QED BY <1>10, <1>18, <1>19

(* The calls of the acceptors. *)
LEMMA StartsKeep ==
  ASSUME ReactorTypeOK, IInv, NEW t \in Threads, NEW a \in Acceptors,
         \/ \E s \in Sockets : AcceptorConstruct(t, a, s)
         \/ RegisterAcceptor(t, a)
         \/ \E op \in Removals : RemoveAcceptor(t, a, op)
  PROVE  /\ IInv' /\ ReactorTypeOK' /\ own \subseteq own'
         /\ \A b \in Acceptors : Exists(b) => sockfd'[b] = sockfd[b]
         /\ \E op \in Adds \cup Removals : Started(t, op, a)
<1> USE Places
<1>0. a \in Objects /\ NumbersOK
  BY DEF IInv
<1>1. ASSUME NEW s \in Sockets, AcceptorConstruct(t, a, s)
      PROVE  StartShape(t, "construct", a, "getNew", sockfd[s]) /\ ~Exists(a)
  <2>1. sockfd[s] \in Fds /\ ~Exists(a) /\ CopyAll({a}, s)
    BY <1>1 DEF AcceptorConstruct, Copy
  <2>2. sockfd' = [o \in Objects |-> IF o \in {a} THEN sockfd[s] ELSE sockfd[o]]
    BY <2>1 DEF CopyAll
  <2>3. own \subseteq own' /\ own' \subseteq own \cup {a}
    BY <2>1 DEF CopyAll
  <2> QED BY <1>0, <1>1, <2>1, <2>2, <2>3 DEF AcceptorConstruct, StartShape, ReactorTypeOK
<1>2. CASE \E s \in Sockets : AcceptorConstruct(t, a, s)
  <2>1. PICK k : StartShape(t, "construct", a, "getNew", k) /\ ~Exists(a)
    BY <1>1, <1>2
  <2>2. "construct" \in Adds \cup Removals /\ "getNew" \in Steps("construct")
    BY DEF Adds, Removals, Steps
  <2>3. IInv' /\ ReactorTypeOK' /\ Started(t, "construct", a)
    BY <2>1, <2>2, StartKeeps
  <2> QED BY <2>1, <2>2, <2>3 DEF StartShape
<1>3. ASSUME NEW op \in Adds \cup Removals, NEW w \in {"has", "get"}, w \in Steps(op),
             Exists(a), StartCall(t, op, a, w, sockfd[a]), UNCHANGED socketVars
      PROVE  /\ IInv' /\ ReactorTypeOK' /\ own \subseteq own'
             /\ \A b \in Acceptors : Exists(b) => sockfd'[b] = sockfd[b]
             /\ \E o \in Adds \cup Removals : Started(t, o, a)
  <2>1. PICK k : k = sockfd[a]
    OBVIOUS
  <2>2. StartShape(t, op, a, w, k)
    BY <1>0, <1>3, <2>1 DEF StartShape, NumbersOK, ReactorTypeOK, socketVars
  <2> QED BY <1>3, <2>2, StartKeeps DEF StartShape
<1>4. CASE RegisterAcceptor(t, a)
  <2>1. "register" \in Adds \cup Removals /\ "has" \in Steps("register")
    BY DEF Adds, Removals, Steps
  <2> QED BY <1>3, <1>4, <2>1 DEF RegisterAcceptor
<1>5. ASSUME NEW op \in Removals, RemoveAcceptor(t, a, op)
      PROVE  /\ IInv' /\ ReactorTypeOK' /\ own \subseteq own'
             /\ \A b \in Acceptors : Exists(b) => sockfd'[b] = sockfd[b]
             /\ \E o \in Adds \cup Removals : Started(t, o, a)
  <2>1. op \in Adds \cup Removals /\ "get" \in Steps(op)
    BY DEF Adds, Removals, Steps
  <2> QED BY <1>3, <1>5, <2>1 DEF RemoveAcceptor
<1> QED BY <1>2, <1>4, <1>5

(* Steps that change nothing but the sockets of the application. *)
SocketsMove ==
  /\ UNCHANGED <<handlers, observers, calls>>
  /\ \A o \in Objects \ Sockets : sockfd'[o] = sockfd[o] /\ (o \in own' => o \in own)
  /\ sockfd' \in [Objects -> Fds \cup {INVALID_SOCKET, NoObject}]
  /\ own' \subseteq Objects
  /\ \A o \in own \ own' : \E s \in Sockets : sockfd[s] = sockfd[o] /\ sockfd'[s] # sockfd[s]

(* The invariant says nothing about the sockets of the application. *)
LEMMA SocketsMoveKeeps ==
  ASSUME ReactorTypeOK, IInv, SocketsMove
  PROVE  IInv' /\ ReactorTypeOK'
<1> USE Places
<1>1. ReactorTypeOK'
  BY DEF SocketsMove, ReactorTypeOK
<1>2. /\ \A a \in Acceptors : sockfd'[a] = sockfd[a]
      /\ \A n \in Notifiers : /\ sockfd'[Key(n)] = sockfd[Key(n)]
                              /\ sockfd'[Member(n)] = sockfd[Member(n)]
                              /\ Member(n) \in own' => Member(n) \in own
  <2>1. \A a \in Acceptors : a \notin Sockets
    BY SocketReactorAssumption
  <2> QED BY <2>1 DEF SocketsMove
<1>3. handlers' = handlers /\ observers' = observers /\ calls' = calls
  BY DEF SocketsMove
<1>4. NumbersOK' /\ MapOK'
  BY <1>2, <1>3 DEF IInv, NumbersOK, Exists, MapOK, ReactorTypeOK
<1>5. Living' = Living
  BY <1>2 DEF Living, Exists
<1>6. NotifiersOK'
  BY <1>2, <1>3, <1>5 DEF IInv, NotifiersOK, Living
<1>7. \A t \in Threads : Active(t) =>
        /\ Num(t)' = Num(t)
        /\ calls[t].n # NoNotifier => sockfd'[Member(calls[t].n)] = sockfd[Member(calls[t].n)]
  BY <1>2, <1>3 DEF IInv, CallOK, Active, Num, ReactorTypeOK, CallType
<1>8. ASSUME NEW t \in Threads PROVE CallOK(t)' /\ AddOK(t)' /\ RemovalOK(t)'
  <2>1. CallOK(t) /\ AddOK(t) /\ RemovalOK(t) /\ (calls[t].n # NoNotifier => Active(t))
    BY DEF IInv, Active, Idle
  <2>2. CallOK(t)'
    BY <1>3, <1>7, <2>1 DEF CallOK, Active
  <2>3. /\ Met(t, "add")' = Met(t, "add") /\ Met(t, "removal")' = Met(t, "removal")
        /\ Disturbed(t)' <=> Disturbed(t)
    BY <1>3 DEF Met, Disturbed
  <2>4. AddOK(t)'
    BY <1>3, <1>7, <2>1, <2>3 DEF AddOK, At, HasObserver
  <2>5. RemovalOK(t)'
    BY <1>3, <1>7, <2>1, <2>3 DEF RemovalOK, At, HasObserver, CountObservers
  <2> QED BY <2>2, <2>4, <2>5
<1>9. ASSUME NEW t \in Threads, NEW u \in Threads PROVE PairOK(t, u)'
  <2>1. PairOK(t, u)
    BY DEF IInv
  <2> QED BY <1>3, <1>7, <2>1 DEF PairOK, Active
<1> QED BY <1>1, <1>4, <1>6, <1>8, <1>9 DEF IInv

(* What the application does with its sockets. *)
LEMMA SocketStepMoves ==
  ASSUME ReactorTypeOK, NEW s \in Sockets, SocketStep(s)
  PROVE  SocketsMove
<1>0. s \in Objects /\ UNCHANGED <<handlers, observers, calls>>
  BY SocketReactorAssumption DEF SocketStep, reactorVars
<1>1. ASSUME NEW none \in Fds \cup {INVALID_SOCKET, NoObject}, none # sockfd[s],
             sockfd' = [sockfd EXCEPT ![s] = none],
             \/ own' = {o \in own : sockfd[o] # sockfd[s]}
             \/ own' = own
             \/ own' = own \cup {s}
      PROVE  SocketsMove
  <2>1. \A o \in Objects \ Sockets : sockfd'[o] = sockfd[o] /\ (o \in own' => o \in own)
    BY <1>1 DEF ReactorTypeOK
  <2>2. \A o \in own \ own' : sockfd[s] = sockfd[o]
    BY <1>1
  <2>3. sockfd'[s] # sockfd[s]
    BY <1>0, <1>1 DEF ReactorTypeOK
  <2>4. own' \subseteq Objects /\ sockfd' \in [Objects -> Fds \cup {INVALID_SOCKET, NoObject}]
    BY <1>0, <1>1 DEF ReactorTypeOK
  <2> QED BY <1>0, <2>1, <2>2, <2>3, <2>4 DEF SocketsMove
<1>2. CASE Construct(s)
  BY <1>1, <1>2 DEF Construct, Exists
<1>3. CASE InitSocket(s)
  <2>1. PICK fd \in Fds : IsNextFd(fd) /\ Opened(s, fd) /\ sockfd[s] = INVALID_SOCKET
    BY <1>3 DEF InitSocket
  <2>2. fd # sockfd[s]
    BY <2>1
  <2> QED BY <1>1, <2>1, <2>2 DEF Opened
<1>4. CASE Close(s)
  <2>1. own' = {o \in own : sockfd[o] # sockfd[s]}
    BY <1>4 DEF Close, Closed
  <2> QED BY <1>1, <1>4, <2>1 DEF Close
<1>5. CASE Destroy(s)
  <2>1. sockfd[s] # NoObject /\ DestroyAll({s})
    BY <1>5 DEF Destroy, Exists
  <2>2. {sockfd[o] : o \in {s}} = {sockfd[s]}
    OBVIOUS
  <2>3. own' = {o \in own : sockfd[o] \notin {sockfd[s]} \cap Fds}
    BY <2>1, <2>2 DEF DestroyAll, Closed
  <2>4. sockfd' = [sockfd EXCEPT ![s] = NoObject]
    BY <2>1 DEF DestroyAll, ReactorTypeOK
  <2>5. own' = {o \in own : sockfd[o] # sockfd[s]} \/ own' = own
    BY <2>3
  <2> QED BY <1>1, <2>1, <2>4, <2>5
<1>6. ASSUME NEW fd \in Fds, ConstructFrom(s, fd) PROVE SocketsMove
  <2>1. fd # sockfd[s]
    BY <1>6 DEF ConstructFrom, Exists
  <2> QED BY <1>1, <1>6, <2>1 DEF ConstructFrom
<1> QED BY <1>2, <1>3, <1>4, <1>5, <1>6 DEF SocketStep

(* run and stop change nothing that matters here. *)
LEMMA LoopMoves ==
  ASSUME ReactorTypeOK, Run \/ Pass \/ Stop
  PROVE  SocketsMove
BY DEF Run, Pass, Stop, Dispatch, Goto, socketVars, SocketsMove, ReactorTypeOK

(* ~SocketReactor. *)
LEMMA DestructKeeps ==
  ASSUME ReactorTypeOK, IInv, Destruct
  PROVE  IInv' /\ ReactorTypeOK'
<1> USE Places
<1>1. PICK h : h = [k \in Fds |-> NoNotifier]
  OBVIOUS
<1>2. PICK c : c = calls
  OBVIOUS
<1>3. PICK obs : obs = observers
  OBVIOUS
<1>4. h \in [Fds -> Notifiers \cup {NoNotifier}] /\ obs \in [Notifiers -> Seq(Acceptors)]
      /\ {} \in SUBSET Acceptors
  BY <1>1, <1>3 DEF ReactorTypeOK
<1>5. Release(h, c, obs, {})
  BY <1>1, <1>2, <1>3 DEF Destruct
<1>6. Released(h, c, obs, {})
  BY <1>4, <1>5, ReleaseDoes
<1>7. \A t \in Threads : calls[t] = Idle /\ calls'[t] = Idle
  BY <1>2, <1>6 DEF Destruct, Released
<1>8. ReactorTypeOK'
  BY <1>2, <1>4, <1>6 DEF ReactorTypeOK, Released
<1>9. Cited(h, c) = {}
  <2>1. InMap(h) = {}
    BY <1>1 DEF InMap
  <2>2. InCalls(c) = {}
    BY <1>2, <1>7 DEF InCalls, Idle
  <2> QED BY <2>1, <2>2 DEF Cited
<1>10. \A n \in Notifiers : sockfd'[Member(n)] = NoObject /\ observers'[n] = <<>>
  BY <1>3, <1>6, <1>9 DEF Released, IInv, NotifiersOK
<1>11. Living' = {}
  BY <1>10 DEF Living, Exists
<1>12. NotifiersOK' /\ MapOK' /\ NumbersOK'
  BY <1>1, <1>6, <1>10, <1>11 DEF NotifiersOK, MapOK, NumbersOK, Released, IInv, Exists
<1>13. \A t \in Threads : CallOK(t)' /\ AddOK(t)' /\ RemovalOK(t)'
  <2>1. Idle.op = "none"
    BY DEF Idle
  <2> QED BY <1>7, <2>1 DEF CallOK, AddOK, RemovalOK, Adds, Removals
<1>14. \A t, u \in Threads : PairOK(t, u)'
  BY <1>7 DEF PairOK
<1> QED BY <1>8, <1>12, <1>13, <1>14 DEF IInv

-----------------------------------------------------------------------------

(* Nobody calls, and nothing is registered. *)
LEMMA InitIInv == Init => IInv /\ ReactorTypeOK
<1> SUFFICES ASSUME Init PROVE IInv /\ ReactorTypeOK
  OBVIOUS
<1>1. Idle \in CallType /\ Idle.op = "none"
  BY DEF Idle, CallType, AllSteps
<1>2. ReactorTypeOK
  BY <1>1, EmptyList DEF Init, SocketInit, ReactorTypeOK
<1>3. NumbersOK /\ MapOK /\ NotifiersOK
  BY Places DEF Init, SocketInit, NumbersOK, MapOK, NotifiersOK, Living, Exists
<1>4. \A t \in Threads : CallOK(t) /\ AddOK(t) /\ RemovalOK(t)
  BY <1>1 DEF Init, CallOK, AddOK, RemovalOK, Adds, Removals
<1>5. \A t, u \in Threads : PairOK(t, u)
  BY DEF Init, PairOK
<1> QED BY <1>2, <1>3, <1>4, <1>5 DEF IInv

(* What can happen in a step, as far as the properties can tell. *)
LEMMA StepDoes ==
  ASSUME ReactorTypeOK, IInv, [Next]_vars
  PROVE  /\ IInv' /\ ReactorTypeOK'
         /\ \/ SocketsMove
            \/ /\ own \subseteq own'
               /\ \A b \in Acceptors : Exists(b) => sockfd'[b] = sockfd[b]
               /\ \E t \in Threads, op \in Adds \cup Removals, a \in Acceptors : Started(t, op, a)
            \/ \E t \in Threads : ~At(t, "none") /\ CallDone(t)
            \/ /\ loop' = "gone" /\ InMap(handlers') = {}
               /\ \A t \in Threads : calls[t] = Idle /\ calls'[t] = Idle
<1>1. CASE UNCHANGED vars
  <2>1. SocketsMove
    BY <1>1 DEF vars, socketVars, reactorVars, SocketsMove, ReactorTypeOK
  <2> QED BY <2>1, SocketsMoveKeeps
<1>2. CASE \E s \in Sockets : SocketStep(s)
  BY <1>2, SocketStepMoves, SocketsMoveKeeps
<1>3. ASSUME NEW t \in Threads, NEW a \in Acceptors,
             \/ \E s \in Sockets : AcceptorConstruct(t, a, s)
             \/ RegisterAcceptor(t, a)
             \/ \E op \in Removals : RemoveAcceptor(t, a, op)
      PROVE  /\ IInv' /\ ReactorTypeOK' /\ own \subseteq own'
             /\ \A b \in Acceptors : Exists(b) => sockfd'[b] = sockfd[b]
             /\ \E u \in Threads, op \in Adds \cup Removals, b \in Acceptors : Started(u, op, b)
  BY <1>3, StartsKeep
<1>4. ASSUME NEW t \in Threads, Call(t)
      PROVE  IInv' /\ ReactorTypeOK' /\ ~At(t, "none") /\ CallDone(t)
  <2>1. ~At(t, "none")
    BY <1>4 DEF Call, HasGet, HasTest, GetNotifier, MakeNotifier, AddTest, AddObserver,
                RemoveGet, RemoveTest, RemoveCount, RemoveErase, RemoveUnpoll, RemoveObserver, At
  <2> QED BY <1>4, <2>1, AddKeeps, RemovalKeeps DEF Call
<1>5. CASE Run \/ Pass \/ Stop
  BY <1>5, LoopMoves, SocketsMoveKeeps
<1>6. CASE Destruct
  <2>1. calls' = calls /\ handlers' = [k \in Fds |-> NoNotifier]
    BY <1>6 DEF Destruct, Release
  <2>2. InMap(handlers') = {}
    BY <2>1 DEF InMap
  <2> QED BY <1>6, <2>1, <2>2, DestructKeeps DEF Destruct
<1> QED BY <1>1, <1>2, <1>3, <1>4, <1>5, <1>6 DEF Next

(* The types and the inductive invariant of SocketReactor. *)
THEOREM ReactorInvariance == Spec => [](ReactorTypeOK /\ IInv)
<1>1. Init => ReactorTypeOK /\ IInv
  BY InitIInv
<1>2. (ReactorTypeOK /\ IInv) /\ [Next]_vars => (ReactorTypeOK /\ IInv)'
  BY StepDoes
<1> QED BY <1>1, <1>2, PTL DEF Spec

-----------------------------------------------------------------------------
(* What the steps of calls do to the registrations.                        *)

(* The objects are destroyed by steps of calls only as Released says. *)
LEMMA ReleasedBy ==
  ASSUME ReactorTypeOK, IInv, NEW t \in Threads, ~At(t, "none"), CallDone(t)
  PROVE  \/ Made(t)
         \/ Erased(t) /\ Removing(t)
         \/ \E obs, S :
              /\ Released(handlers, calls', obs, S)
              /\ \/ obs = observers
                 \/ /\ calls'[t] = Idle /\ calls[t].op \in Adds /\ At(t, "add")
                    /\ obs = Added(calls[t].n, calls[t].a)
                 \/ /\ calls'[t] = Idle /\ calls[t].op \in Removals /\ At(t, "remove")
                    /\ obs = Removed(calls[t].n, calls[t].a)
              /\ \/ S = {}
                 \/ calls'[t] = Idle /\ calls[t].op = "destruct" /\ S = {calls[t].a}
<1>1. CASE Continued(t)
  BY <1>1 DEF Continued
<1>2. CASE Made(t)
  BY <1>2
<1>3. CASE Erased(t)
  BY <1>3 DEF Erased, Removing
<1>4. CASE calls[t].op \in Adds /\ AddEnded(t)
  BY <1>4 DEF AddEnded, Ended
<1>5. CASE calls[t].op \in Removals /\ RemovalEnded(t)
  BY <1>5 DEF RemovalEnded, Ended
<1> QED BY <1>1, <1>2, <1>3, <1>4, <1>5 DEF CallDone

(* A step of a call changes this call and no other. *)
LEMMA OnlyOne ==
  ASSUME ReactorTypeOK, NEW t \in Threads, CallDone(t)
  PROVE  \A u \in Threads \ {t} : calls'[u] = calls[u]
<1>1. PICK r : Effect(t, r)
  BY DEF CallDone, Continued, Made, Erased, AddEnded, RemovalEnded, Ended
<1>2. calls' = [calls EXCEPT ![t] = r]
  BY <1>1 DEF Effect
<1> QED BY <1>2 DEF ReactorTypeOK

(* Who is registered for the number whose entry goes. *)
LEMMA ErasedOf ==
  ASSUME ReactorTypeOK, IInv, NEW t \in Threads, Erased(t),
         NEW a \in Acceptors, Registered(a), sockfd[a] = Num(t)
  PROVE  calls[t].a = a \/ Disturbed(t)
<1> SUFFICES ASSUME ~Disturbed(t) PROVE calls[t].a = a
  OBVIOUS
<1>1. ~At(t, "none") /\ At(t, "erase")
  BY DEF Erased, At
<1>2. calls[t].n \in Notifiers /\ calls[t].n # NoNotifier /\ calls[t].op \in Removals
  BY <1>1, Where DEF At, Erased
<1>3. /\ handlers[Num(t)] \in {calls[t].n, NoNotifier}
      /\ ToSet(observers[calls[t].n]) \subseteq {calls[t].a}
  BY <1>1, <1>2 DEF IInv, RemovalOK, Disturbed
<1>4. handlers[Num(t)] \in Notifiers /\ a \in ToSet(observers[handlers[Num(t)]])
  BY DEF Registered, HasObserver
<1>5. handlers[Num(t)] = calls[t].n
  BY <1>3, <1>4, Places
<1> QED BY <1>3, <1>4, <1>5

(* A registration is lost to a removal of the acceptor or a disturbed one. *)
LEMMA RegistrationLost ==
  ASSUME ReactorTypeOK, IInv, ReactorTypeOK', NEW t \in Threads, ~At(t, "none"), CallDone(t),
         NEW a \in Acceptors, Registered(a), ~Registered(a)'
  PROVE  Removing(t) /\ (calls[t].a = a \/ Disturbed(t))
<1>1. PICK k : k = sockfd[a]
  OBVIOUS
<1>2. PICK n \in Notifiers : n = handlers[k] /\ a \in ToSet(observers[n]) /\ k # NoObject
  BY <1>1 DEF Registered, HasObserver, Exists
<1>3. k \in Fds
  BY <1>1, <1>2 DEF IInv, NumbersOK, Exists
<1>4. n # NoNotifier /\ n \in InMap(handlers)
  BY <1>2, <1>3, Places DEF InMap
<1>5. ~(sockfd'[a] = k /\ handlers'[k] = n /\ a \in ToSet(observers'[n]))
  BY <1>2 DEF Registered, HasObserver, Exists
<1>6. CASE Made(t)
  <2>1. PICK m : handlers' = [handlers EXCEPT ![Num(t)] = m]
    BY <1>6 DEF Made
  <2>2. handlers[Num(t)] = NoNotifier /\ observers' = observers /\ sockfd'[a] = k
    BY <1>1, <1>6 DEF Made
  <2>3. handlers'[k] = n
    BY <1>2, <1>3, <1>4, <2>1, <2>2 DEF ReactorTypeOK
  <2> QED BY <1>2, <1>5, <2>2, <2>3
<1>7. CASE Erased(t) /\ Removing(t)
  <2>1. Released([handlers EXCEPT ![Num(t)] = NoNotifier], calls', observers, {})
    BY <1>7 DEF Erased
  <2>2. CASE k = Num(t)
    BY <1>1, <1>7, <2>2, ErasedOf
  <2>3. CASE k # Num(t)
    <3>1. PICK h : h = [handlers EXCEPT ![Num(t)] = NoNotifier]
      OBVIOUS
    <3>2. h[k] = n /\ n \in InMap(h)
      BY <1>2, <1>3, <1>4, <2>3, <3>1 DEF ReactorTypeOK, InMap
    <3>3. handlers' = h /\ sockfd'[a] = k
      BY <1>1, <2>1, <3>1 DEF Released
    <3>4. n \in Cited(h, calls')
      BY <3>2 DEF Cited
    <3>5. observers'[n] = observers[n]
      BY <2>1, <3>1, <3>4 DEF Released
    <3> QED BY <1>2, <1>5, <3>2, <3>3, <3>5
  <2> QED BY <2>2, <2>3
<1>8. ASSUME NEW obs, NEW S, Released(handlers, calls', obs, S),
             \/ obs = observers
             \/ /\ calls'[t] = Idle /\ calls[t].op \in Adds /\ At(t, "add")
                /\ obs = Added(calls[t].n, calls[t].a)
             \/ /\ calls'[t] = Idle /\ calls[t].op \in Removals /\ At(t, "remove")
                /\ obs = Removed(calls[t].n, calls[t].a),
             \/ S = {}
             \/ calls'[t] = Idle /\ calls[t].op = "destruct" /\ S = {calls[t].a}
      PROVE  Removing(t) /\ calls[t].a = a
  <2>1. n \in Cited(handlers, calls')
    BY <1>4 DEF Cited
  <2>2. handlers' = handlers /\ observers'[n] = obs[n]
    BY <1>8, <2>1 DEF Released
  <2>3. calls[t] # Idle
    BY DEF Idle, At
  <2>4. CASE sockfd'[a] # k
    <3>1. a \in S
      BY <1>1, <1>8, <2>4 DEF Released
    <3> QED BY <1>8, <2>3, <3>1 DEF Removing, Removals
  <2>5. CASE a \notin ToSet(obs[n])
    <3>1. PICK s : s = observers[n]
      OBVIOUS
    <3>2. s \in Seq(Acceptors) /\ observers \in [Notifiers -> Seq(Acceptors)]
      BY <3>1 DEF ReactorTypeOK
    <3>3. PICK b : b = calls[t].a
      OBVIOUS
    <3>4. calls[t].a \in Acceptors
      BY Where
    <3>5. obs # observers
      BY <1>2, <2>5
    <3>6. CASE obs = Added(calls[t].n, calls[t].a)
      <4>1. obs[n] = s \/ obs[n] = Append(s, b)
        BY <3>1, <3>2, <3>3, <3>6 DEF Added
      <4> QED BY <1>2, <2>5, <3>1, <3>2, <3>3, <3>4, <4>1, AppendOne
    <3>7. CASE obs = Removed(calls[t].n, calls[t].a)
      <4>1. obs[n] = s \/ obs[n] = Without(s, b)
        BY <3>1, <3>2, <3>3, <3>7 DEF Removed
      <4>2. a = b
        BY <1>2, <2>5, <3>1, <3>2, <4>1, WithoutOne
      <4>3. \/ calls'[t] = Idle /\ calls[t].op \in Removals
            \/ obs = Added(calls[t].n, calls[t].a)
        BY <1>8, <3>5
      <4> QED BY <2>3, <3>3, <3>6, <4>2, <4>3 DEF Removing
    <3> QED BY <1>8, <3>5, <3>6, <3>7
  <2> QED BY <1>2, <1>5, <2>2, <2>4, <2>5
<1> QED BY <1>6, <1>7, <1>8, ReleasedBy

(* A registration that was alone with its number is found afterwards. *)
LEMMA RegistrationMade ==
  ASSUME ReactorTypeOK, IInv, ReactorTypeOK', NEW t \in Threads, ~At(t, "none"), CallDone(t),
         Ends(t, Adds), Met(t, "removal") = {}, NEW a \in Acceptors, a = calls[t].a
  PROVE  Registered(a)'
<1>1. PICK k \in Fds : k = Num(t)
  BY Where
<1>2. AddEnded(t) /\ calls[t].op \in Adds
  BY DEF CallDone, Ends, Continued, Made, Erased, RemovalEnded, Adds, Removals
<1>3. PICK n : n = calls[t].n
  OBVIOUS
<1>4. n \in Notifiers /\ n # NoNotifier
  <2>1. CASE calls[t].n # NoNotifier
    BY <1>3, <2>1 DEF ReactorTypeOK, CallType
  <2>2. CASE At(t, "add")
    BY <1>3, <2>2, Where DEF At
  <2> QED BY <1>2, <2>1, <2>2 DEF AddEnded
<1>5. handlers[k] = n /\ sockfd[a] = k
  BY <1>1, <1>2, <1>3, <1>4 DEF IInv, AddOK, Num
<1>6. calls[t].op # "destruct"
  BY <1>2 DEF Adds
<1>7. PICK obs : /\ Released(handlers, calls', obs, {})
                 /\ \/ obs = observers /\ HasObserver(n, a)
                    \/ obs = Added(n, a)
  BY <1>1, <1>2, <1>3, <1>6 DEF AddEnded, Ended
<1>8. n \in Cited(handlers, calls')
  BY <1>4, <1>5 DEF Cited, InMap
<1>9. handlers' = handlers /\ sockfd'[a] = k /\ observers'[n] = obs[n]
  BY <1>4, <1>5, <1>7, <1>8 DEF Released
<1>10. a \in ToSet(obs[n])
  <2>1. CASE obs = observers /\ HasObserver(n, a)
    BY <2>1 DEF HasObserver
  <2>2. CASE obs = Added(n, a)
    <3>1. PICK s \in Seq(Acceptors) : s = observers[n]
      BY <1>4 DEF ReactorTypeOK
    <3>2. obs[n] = Append(s, a)
      BY <1>4, <2>2, <3>1 DEF Added, ReactorTypeOK
    <3> QED BY <3>2, AppendOne
  <2> QED BY <1>7, <2>1, <2>2
<1>11. k # NoObject
  BY ServerSocketAssumption
<1> QED BY <1>4, <1>5, <1>9, <1>10, <1>11 DEF Registered, HasObserver, Exists

-----------------------------------------------------------------------------
(* The action properties, from the invariant.                              *)

(* Steps that are not steps of a call. *)
LEMMA Elsewhere ==
  ASSUME ReactorTypeOK, IInv,
         \/ SocketsMove
         \/ /\ \A b \in Acceptors : Exists(b) => sockfd'[b] = sockfd[b]
            /\ \E t \in Threads, op \in Adds \cup Removals, a \in Acceptors : Started(t, op, a)
  PROVE  /\ handlers' = handlers /\ observers' = observers
         /\ \A t \in Threads : calls[t] # Idle => calls'[t] # Idle
         /\ \A a \in Acceptors : Registered(a) => Registered(a)'
<1>1. \A a \in Acceptors : Exists(a) => sockfd'[a] = sockfd[a]
  BY SocketReactorAssumption DEF SocketsMove
<1>2. handlers' = handlers /\ observers' = observers
  BY DEF SocketsMove, Started
<1>3. \A t \in Threads : calls[t] # Idle => calls'[t] # Idle
  BY DEF SocketsMove, Started, Active
<1>4. ASSUME NEW a \in Acceptors, Registered(a) PROVE Registered(a)'
  <2>1. Exists(a) /\ sockfd'[a] = sockfd[a]
    BY <1>1, <1>4 DEF Registered
  <2> QED BY <1>2, <1>4, <2>1 DEF Registered, HasObserver, Exists
<1> QED BY <1>2, <1>3, <1>4

(* A call that ends did the step. *)
LEMMA EndsItself ==
  ASSUME ReactorTypeOK, IInv, [Next]_vars, NEW t \in Threads, NEW ops, Ends(t, ops),
         ops \subseteq Adds \cup Removals
  PROVE  ~At(t, "none") /\ CallDone(t)
<1>1. calls[t] # Idle /\ calls'[t] = Idle
  BY DEF Ends, Idle, Adds, Removals
<1>2. ~SocketsMove
  BY <1>1, Elsewhere
<1>3. ~(/\ \A b \in Acceptors : Exists(b) => sockfd'[b] = sockfd[b]
        /\ \E u \in Threads, op \in Adds \cup Removals, a \in Acceptors : Started(u, op, a))
  BY <1>1, Elsewhere
<1>4. PICK u \in Threads : ~At(u, "none") /\ CallDone(u)
  BY <1>1, <1>2, <1>3, StepDoes
<1>5. u = t
  BY <1>1, <1>4, OnlyOne
<1> QED BY <1>4, <1>5

(* RegistrationKept, of one step. *)
LEMMA StepKeepsRegistrations ==
  ASSUME ReactorTypeOK, IInv, [Next]_vars, NEW a \in Acceptors
  PROVE  /\ \A t \in Busy(a, Adds) : Ends(t, Adds) /\ Met(t, "removal") = {} => Registered(a)'
         /\ Registered(a) /\ ~Registered(a)' /\ loop' # "gone" =>
              \E t \in Threads : Removing(t) /\ (calls[t].a = a \/ Disturbed(t))
<1>0. ReactorTypeOK'
  BY StepDoes
<1>1. ASSUME NEW t \in Busy(a, Adds), Ends(t, Adds), Met(t, "removal") = {}
      PROVE  Registered(a)'
  <2>1. t \in Threads /\ a = calls[t].a
    BY DEF Busy
  <2> QED BY <1>0, <1>1, <2>1, EndsItself, RegistrationMade
<1>2. ASSUME Registered(a), ~Registered(a)', loop' # "gone"
      PROVE  \E t \in Threads : Removing(t) /\ (calls[t].a = a \/ Disturbed(t))
  <2>1. PICK t \in Threads : ~At(t, "none") /\ CallDone(t)
    BY <1>2, StepDoes, Elsewhere
  <2> QED BY <1>0, <1>2, <2>1, RegistrationLost
<1> QED BY <1>1, <1>2

(* An acceptor that was registered is found afterwards, and only its own   *)
(* removal or a disturbed one undoes that: RegistrationKept.               *)
THEOREM RegistrationsLast == Spec => RegistrationKept
<1>1. ReactorTypeOK /\ IInv /\ [Next]_vars =>
        [\A a \in Acceptors :
           /\ \A t \in Busy(a, Adds) : Ends(t, Adds) /\ Met(t, "removal") = {} => Registered(a)'
           /\ Registered(a) /\ ~Registered(a)' /\ loop' # "gone" =>
                \E t \in Threads : Removing(t) /\ (calls[t].a = a \/ Disturbed(t))]_vars
  BY StepKeepsRegistrations
<1> QED BY <1>1, ReactorInvariance, PTL DEF Spec, RegistrationKept

(* A list that grew does so by a registration that had seen it without the *)
(* acceptor, unless another thread registers the same one.                 *)
LEMMA ListsGrow ==
  ASSUME ReactorTypeOK, IInv, [Next]_vars, NEW t \in Threads, Ends(t, Adds),
         calls[t].a \notin Met(t, "add"),
         NEW n \in Notifiers, Len(observers'[n]) > Len(observers[n])
  PROVE  calls[t].a \notin ToSet(observers[n])
<1>1. ~At(t, "none") /\ CallDone(t) /\ calls[t].op \in Adds /\ calls'[t] = Idle
  BY EndsItself DEF Ends
<1>2. AddEnded(t)
  BY <1>1 DEF CallDone, Continued, Made, Erased, Adds, Removals
<1>3. PICK obs : /\ Released(handlers, calls', obs, {})
                 /\ obs = observers \/ (At(t, "add") /\ obs = Added(calls[t].n, calls[t].a))
  BY <1>1, <1>2 DEF AddEnded, Ended, Adds
<1>4. PICK s \in Seq(Acceptors) : s = observers[n]
  BY DEF ReactorTypeOK
<1>5. Len(s) \in Nat /\ Len(<<>>) = 0
  BY EmptyList
<1>6. observers'[n] # s /\ observers'[n] # <<>>
  BY <1>4, <1>5
<1>7. observers'[n] = obs[n] \/ observers'[n] = <<>>
  BY <1>3 DEF Released
<1>8. At(t, "add") /\ obs = Added(calls[t].n, calls[t].a)
  BY <1>3, <1>4, <1>6, <1>7
<1>9. n = calls[t].n
  <2>1. observers \in [Notifiers -> Seq(Acceptors)]
    BY DEF ReactorTypeOK
  <2> QED BY <1>4, <1>6, <1>7, <1>8, <2>1 DEF Added
<1>10. calls[t].n # NoNotifier
  BY <1>9, Places
<1> QED BY <1>1, <1>8, <1>9, <1>10 DEF IInv, AddOK, HasObserver

(* RegisteredOnce: addEventHandler and registerAcceptor test hasObserver() *)
(* before they add, but without holding a lock over both.  Only two threads *)
(* that register one acceptor at a time get it into a list twice.          *)
THEOREM ListedOnce == Spec => RegisteredOnce
<1>1. ReactorTypeOK /\ IInv /\ [Next]_vars =>
        [\A t \in Threads : Ends(t, Adds) /\ calls[t].a \notin Met(t, "add") =>
           \A n \in Notifiers : Len(observers'[n]) > Len(observers[n]) =>
             calls[t].a \notin ToSet(observers[n])]_vars
  BY ListsGrow
<1> QED BY <1>1, ReactorInvariance, PTL DEF Spec, RegisteredOnce

(* What a removal that ends leaves of the acceptor in the lists. *)
LEMMA RemovalLeaves ==
  ASSUME ReactorTypeOK, IInv, [Next]_vars, NEW a \in Acceptors, NEW t \in Busy(a, Removals),
         Ends(t, Removals), a \notin Met(t, "add"), Registered(a)'
  PROVE  \E n \in Notifiers : \E i, j \in DOMAIN observers[n] :
           i # j /\ observers[n][i] = a /\ observers[n][j] = a
<1>1. /\ t \in Threads /\ calls[t].a = a
      /\ ~At(t, "none") /\ CallDone(t) /\ calls[t].op \in Removals /\ calls'[t] = Idle
  BY EndsItself DEF Ends, Busy
<1>2. RemovalEnded(t)
  BY <1>1 DEF CallDone, Continued, Made, Erased, Adds, Removals
<1>3. PICK k \in Fds : k = Num(t) /\ k = sockfd[a]
  BY <1>1, Where DEF Num
<1>4. PICK n \in Notifiers : handlers'[sockfd'[a]] = n /\ a \in ToSet(observers'[n])
                             /\ sockfd'[a] # NoObject
  BY DEF Registered, HasObserver, Exists
<1>5. PICK obs : /\ \E S : Released(handlers, calls', obs, S)
                 /\ \/ At(t, "get") /\ handlers[k] = NoNotifier /\ obs = observers
                    \/ At(t, "test") /\ ~HasObserver(calls[t].n, a) /\ obs = observers
                    \/ At(t, "unpoll") /\ obs = observers
                    \/ At(t, "remove") /\ obs = Removed(calls[t].n, a)
  BY <1>1, <1>2, <1>3 DEF RemovalEnded, Ended
<1>6. PICK S : Released(handlers, calls', obs, S)
  BY <1>5
<1>7. sockfd'[a] = k
  BY <1>3, <1>4, <1>6 DEF Released
<1>8. handlers[k] = n
  BY <1>4, <1>6, <1>7 DEF Released
<1>9. n # NoNotifier /\ n \in Cited(handlers, calls')
  BY <1>3, <1>4, <1>8, Places DEF Cited, InMap
<1>10. observers'[n] = obs[n]
  BY <1>6, <1>9 DEF Released
<1>11. calls[t].n \in Notifiers /\ calls[t].n # NoNotifier /\ ~At(t, "get")
  <2>1. ~At(t, "get")
    BY <1>5, <1>8, <1>9 DEF At
  <2> QED BY <1>1, <1>5, <2>1, Where DEF At
<1>12. n # calls[t].n => ~HasObserver(n, a)
  BY <1>1, <1>3, <1>8, <1>9, <1>11 DEF IInv, RemovalOK
<1>13. At(t, "unpoll") => n # calls[t].n
  BY <1>1, <1>3, <1>8, <1>11 DEF IInv, RemovalOK
<1>14. a \in ToSet(obs[n])
  BY <1>4, <1>10
<1>15. At(t, "remove") /\ obs = Removed(calls[t].n, a)
  BY <1>5, <1>11, <1>12, <1>13, <1>14 DEF HasObserver
<1>16. PICK s \in Seq(Acceptors) : s = observers[n]
  BY DEF ReactorTypeOK
<1>17. obs[n] = IF n = calls[t].n THEN Without(s, a) ELSE s
  BY <1>11, <1>15, <1>16 DEF Removed, ReactorTypeOK
<1>18. n = calls[t].n
  BY <1>12, <1>14, <1>16, <1>17 DEF HasObserver
<1>19. \E i, j \in DOMAIN s : i # j /\ s[i] = a /\ s[j] = a
  BY <1>14, <1>17, <1>18, WithoutOne
<1> QED BY <1>16, <1>19

(* RemovedNotFound: once removeEventHandler has returned or thrown, the map *)
(* does not lead to the acceptor, whatever entry of the number it erased,  *)
(* unless it was registered meanwhile or had been listed twice.            *)
THEOREM RemovalsWork == Spec => RemovedNotFound
<1>1. ReactorTypeOK /\ IInv /\ [Next]_vars =>
        [\A a \in Acceptors : \A t \in Busy(a, Removals) :
           Ends(t, Removals) /\ a \notin Met(t, "add") =>
             \/ ~Registered(a)'
             \/ \E n \in Notifiers : \E i, j \in DOMAIN observers[n] :
                  i # j /\ observers[n][i] = a /\ observers[n][j] = a]_vars
  BY RemovalLeaves
<1> QED BY <1>1, ReactorInvariance, PTL DEF Spec, RemovedNotFound

(* A list becomes empty under its entry by a removal that was not alone. *)
LEMMA EntriesEmptied ==
  ASSUME ReactorTypeOK, IInv, [Next]_vars, NEW n \in InMap(handlers'),
         observers[n] # <<>>, observers'[n] = <<>>
  PROVE  \E t \in Threads : Removing(t) /\ calls[t].met # {}
<1>1. PICK t \in Threads : ~At(t, "none") /\ CallDone(t)
  BY StepDoes, Elsewhere
<1>2. n \in Notifiers
  BY StepDoes DEF InMap, ReactorTypeOK
<1>3. observers' # observers
  OBVIOUS
<1>4. n \in Cited(handlers', calls')
  BY DEF Cited
<1>5. PICK s \in Seq(Acceptors) : s = observers[n]
  BY <1>2 DEF ReactorTypeOK
<1>6. ~Made(t)
  BY <1>3 DEF Made
<1>7. ~Erased(t)
  <2> SUFFICES ASSUME Erased(t) PROVE FALSE
    OBVIOUS
  <2>1. PICK h : Released(h, calls', observers, {})
    BY DEF Erased
  <2>2. observers'[n] = observers[n]
    BY <1>2, <1>4, <2>1 DEF Released
  <2> QED BY <2>2
<1>8. PICK obs : /\ \E S : Released(handlers, calls', obs, S)
                 /\ \/ obs = observers
                    \/ obs = Added(calls[t].n, calls[t].a)
                    \/ /\ calls'[t] = Idle /\ calls[t].op \in Removals /\ At(t, "remove")
                       /\ obs = Removed(calls[t].n, calls[t].a)
  BY <1>1, <1>6, <1>7, ReleasedBy
<1>9. obs[n] = <<>>
  BY <1>2, <1>4, <1>8 DEF Released
<1>10. PICK b \in Acceptors : b = calls[t].a
  BY <1>1, Where
<1>11. obs # Added(calls[t].n, calls[t].a)
  <2> SUFFICES ASSUME obs = Added(calls[t].n, b) PROVE FALSE
    BY <1>10
  <2>1. obs[n] = s \/ obs[n] = Append(s, b)
    BY <1>2, <1>5 DEF Added, ReactorTypeOK
  <2>2. Len(Append(s, b)) = Len(s) + 1 /\ Len(s) \in Nat /\ Len(<<>>) = 0
    BY AppendOne, EmptyList
  <2> QED BY <1>5, <1>9, <2>1, <2>2
<1>12. /\ calls'[t] = Idle /\ calls[t].op \in Removals /\ At(t, "remove")
       /\ obs = Removed(calls[t].n, b)
  BY <1>5, <1>8, <1>9, <1>10, <1>11
<1>13. n = calls[t].n /\ Without(s, b) = <<>>
  <2>1. obs[n] = IF n = calls[t].n THEN Without(s, b) ELSE s
    BY <1>2, <1>5, <1>12 DEF Removed, ReactorTypeOK
  <2> QED BY <1>5, <1>9, <2>1
<1>14. Len(s) = 1
  <2>1. PICK l : l = Len(s)
    OBVIOUS
  <2>2. l \in Nat /\ l - 1 <= Len(<<>>)
    BY <1>13, <2>1, WithoutOne
  <2>3. Len(<<>>) = 0
    BY EmptyList
  <2>4. l \in Nat \ {0}
    BY <1>5, <2>1, EmptySeq
  <2>5. l - 1 <= 0
    BY <2>2, <2>3
  <2>6. l = 1
    BY <2>4, <2>5
  <2> QED BY <2>1, <2>6
<1>15. n # NoNotifier
  BY <1>2, Places
<1>16. calls[t].met # {}
  BY <1>5, <1>12, <1>13, <1>14, <1>15 DEF IInv, RemovalOK, CountObservers
<1>17. calls[t] # Idle
  BY <1>1 DEF Idle, At
<1> QED BY <1>12, <1>16, <1>17 DEF Removing

(* NoEmptyEntry: removeEventHandler erases the entry of the last observer, *)
(* so that no entry loses its observers and stays, unless another call on  *)
(* that number came between countObservers() and removeObserver().         *)
THEOREM EntriesHaveObservers == Spec => NoEmptyEntry
<1>1. ReactorTypeOK /\ IInv /\ [Next]_vars =>
        [\A n \in InMap(handlers') :
           observers[n] # <<>> /\ observers'[n] = <<>> =>
             \E t \in Threads : Removing(t) /\ calls[t].met # {}]_vars
  BY EntriesEmptied
<1> QED BY <1>1, ReactorInvariance, PTL DEF Spec, NoEmptyEntry

(* The step that closes a descriptor a handler is registered for. *)
LEMMA DescriptorClosed ==
  ASSUME ReactorTypeOK, IInv, [Next]_vars, NEW a \in Acceptors,
         Registered(a), a \in own, a \notin own', loop' # "gone"
  PROVE  \/ \E o \in Holders(sockfd[a]) \ own : sockfd'[o] # sockfd[o]
         \/ \E s \in Sockets : sockfd[s] = sockfd[a] /\ sockfd'[s] # sockfd[s]
         \/ \E t \in Threads : /\ Removing(t) /\ Num(t) = sockfd[a]
                               /\ calls[t].a = a \/ Disturbed(t) \/ Ends(t, {"destruct"})
<1> SUFFICES ASSUME \A o \in Objects : sockfd[o] = sockfd[a] /\ sockfd'[o] # sockfd[o] => o \in own,
                    ~SocketsMove
             PROVE  \E t \in Threads :
                      /\ Removing(t) /\ Num(t) = sockfd[a]
                      /\ calls[t].a = a \/ Disturbed(t) \/ Ends(t, {"destruct"})
  BY DEF SocketsMove, Holders
<1>1. PICK t \in Threads : ~At(t, "none") /\ CallDone(t)
  BY StepDoes
<1>2. PICK k \in Fds : k = sockfd[a]
  BY DEF Registered, IInv, NumbersOK
<1>3. PICK n \in Notifiers : n = handlers[k]
  BY <1>2 DEF Registered
<1>4. n # NoNotifier /\ n \in InMap(handlers)
  BY <1>2, <1>3, Places DEF InMap
<1>5. ~Made(t)
  BY DEF Made
<1>6. calls[t] # Idle
  BY <1>1 DEF Idle, At
<1>7. ASSUME NEW m \in Living, sockfd[Member(m)] = k, sockfd'[Member(m)] = NoObject PROVE m = n
  <2>1. Member(m) \in own
    BY <1>2, <1>7, Places DEF Living
  <2> QED BY <1>3, <1>7, <2>1 DEF IInv, NotifiersOK
<1>8. CASE Erased(t) /\ Removing(t)
  <2>1. PICK h : /\ h = [handlers EXCEPT ![Num(t)] = NoNotifier]
                 /\ Released(h, calls', observers, {})
    BY <1>8 DEF Erased
  <2>2. k = Num(t)
    <3> SUFFICES ASSUME k # Num(t) PROVE FALSE
      OBVIOUS
    <3>1. h[k] = n /\ n \in InMap(h)
      BY <1>2, <1>3, <1>4, <2>1 DEF ReactorTypeOK, InMap
    <3>2. ~(\E m \in Living \ Cited(h, calls') : sockfd[Member(m)] = k)
      BY <1>7, <2>1, <3>1 DEF Cited, Released, Living
    <3>3. PICK m \in InMap(handlers) \ InMap(h) : sockfd[Key(m)] = k
      BY <1>2, <2>1, <3>2 DEF Released
    <3>4. PICK j \in Fds : handlers[j] = m
      BY <3>3 DEF InMap
    <3>5. m # NoNotifier
      BY <3>3 DEF InMap
    <3>6. j = k
      BY <3>3, <3>4, <3>5 DEF IInv, MapOK
    <3> QED BY <1>3, <3>1, <3>3, <3>4, <3>6
  <2> QED BY <1>2, <1>8, <2>2, ErasedOf
<1>9. ASSUME NEW obs, NEW S, Released(handlers, calls', obs, S),
             S = {} \/ (calls'[t] = Idle /\ calls[t].op = "destruct" /\ S = {calls[t].a})
      PROVE  Removing(t) /\ Num(t) = k /\ Ends(t, {"destruct"})
  <2>1. n \in Cited(handlers, calls')
    BY <1>4 DEF Cited
  <2>2. ~(\E m \in Living \ Cited(handlers, calls') : sockfd[Member(m)] = k)
    BY <1>7, <1>9, <2>1 DEF Released, Living
  <2>3. \E b \in S : sockfd[b] = k
    BY <1>2, <1>9, <2>2 DEF Released
  <2> QED BY <1>6, <1>9, <2>3 DEF Removing, Removals, Ends, Num
<1> QED BY <1>1, <1>2, <1>5, <1>8, <1>9, ReleasedBy

(* The descriptor of a registered acceptor is closed by the application,   *)
(* with a socket of the same number; by a removal on the number, its own,  *)
(* a disturbed one, or the end of ~SocketAcceptor of whatever acceptor; or *)
(* by what is left over from an earlier socket.                            *)
THEOREM HandlersHaveDescriptors == Spec => RegisteredOpen
<1>1. ReactorTypeOK /\ IInv /\ [Next]_vars =>
        [\A a \in Acceptors :
           Registered(a) /\ a \in own /\ a \notin own' /\ loop' # "gone" =>
             \/ \E o \in Holders(sockfd[a]) \ own : sockfd'[o] # sockfd[o]
             \/ \E s \in Sockets : sockfd[s] = sockfd[a] /\ sockfd'[s] # sockfd[s]
             \/ \E t \in Threads :
                  /\ Removing(t) /\ Num(t) = sockfd[a]
                  /\ calls[t].a = a \/ Disturbed(t) \/ Ends(t, {"destruct"})]_vars
  BY DescriptorClosed
<1> QED BY <1>1, ReactorInvariance, PTL DEF Spec, RegisteredOpen

-----------------------------------------------------------------------------
(* The invariant of ServerSocket holds in the reactor, too, whose keys,    *)
(* notifiers and acceptors are ServerSocket objects.                       *)

(* A key is in the map, and nothing is assigned over. *)
KeysOK ==
  /\ \A n \in Notifiers : Exists(Key(n)) => n \in InMap(handlers)
  /\ overwritten = {}

(* What a call releases closes the number of what it destroys. *)
LEMMA ReleaseKeepsSockets ==
  ASSUME ReactorTypeOK, Core, KeysOK, NEW h \in [Fds -> Notifiers \cup {NoNotifier}], NEW c,
         NEW obs, NEW S \in SUBSET Acceptors, Release(h, c, obs, S)
  PROVE  Core' /\ Keeps /\ KeysOK'
<1> USE Places
<1>1. PICK erased : erased = InMap(handlers) \ InMap(h)
  OBVIOUS
<1>2. PICK dead : dead = Living \ (InMap(h) \cup InCalls(c))
  OBVIOUS
<1>3. PICK gone : gone = S \cup {Key(n) : n \in erased} \cup {Member(n) : n \in dead}
  OBVIOUS
<1>4. erased \subseteq Notifiers /\ dead \subseteq Notifiers
  BY <1>1, <1>2 DEF Living, InMap, ReactorTypeOK
<1>5. gone \in SUBSET Objects
  BY <1>3, <1>4
<1>6. handlers' = h /\ IF gone = {} THEN UNCHANGED socketVars ELSE DestroyAll(gone)
  BY <1>1, <1>2, <1>3 DEF Release
<1>7. Core' /\ Keeps /\ (overwritten = {} => overwritten' = {})
  <2>1. CASE gone = {}
    BY <1>6, <2>1, StepKeeps DEF socketVars
  <2>2. CASE gone # {}
    BY <1>5, <1>6, <2>2, DestroyAllKeeps DEF DestroyAll, Closed
  <2> QED BY <2>1, <2>2
<1>8. sockfd' = [o \in Objects |-> IF o \in gone THEN NoObject ELSE sockfd[o]]
  BY <1>6 DEF DestroyAll, socketVars, ReactorTypeOK
<1>9. ASSUME NEW n \in Notifiers, Exists(Key(n))', n \notin InMap(h) PROVE FALSE
  <2>1. Key(n) \notin gone /\ Exists(Key(n))
    BY <1>8, <1>9 DEF Exists
  <2>2. n \in erased
    BY <1>1, <1>9, <2>1 DEF KeysOK
  <2> QED BY <1>3, <2>1, <2>2
<1>10. KeysOK'
  BY <1>6, <1>7, <1>9 DEF KeysOK
<1> QED BY <1>7, <1>10

(* The steps of calls release what they no longer refer to. *)
LEMMA CallReleases ==
  ASSUME ReactorTypeOK, IInv, NEW t \in Threads, Call(t), ~MakeNotifier(t)
  PROVE  \E h \in [Fds -> Notifiers \cup {NoNotifier}], S \in SUBSET Acceptors :
           \E c, obs : Release(h, c, obs, S)
<1>1. handlers \in [Fds -> Notifiers \cup {NoNotifier}]
  BY DEF ReactorTypeOK
<1>2. calls[t].op = "destruct" => calls[t].a \in Acceptors
  BY DEF IInv, CallOK, Idle
<1>3. ASSUME NEW w, NEW n, Continue(t, w, n)
      PROVE  \E c, obs : Release(handlers, c, obs, {})
  BY <1>3 DEF Continue
<1>4. ASSUME NEW obs, EndCall(t, obs)
      PROVE  \E S \in SUBSET Acceptors : \E c : Release(handlers, c, obs, S)
  <2>1. PICK S : /\ S = IF calls[t].op = "destruct" THEN {calls[t].a} ELSE {}
                 /\ Release(handlers, [calls EXCEPT ![t] = Idle], obs, S)
    BY <1>4 DEF EndCall
  <2>2. S \in SUBSET Acceptors
    BY <1>2, <2>1
  <2> QED BY <2>1, <2>2
<1>5. CASE \E w, n : Continue(t, w, n)
  BY <1>1, <1>3, <1>5
<1>6. CASE \E obs : EndCall(t, obs)
  BY <1>1, <1>4, <1>6
<1>7. CASE RemoveErase(t)
  <2>1. [handlers EXCEPT ![Num(t)] = NoNotifier] \in [Fds -> Notifiers \cup {NoNotifier}]
    BY <1>1
  <2> QED BY <1>7, <2>1 DEF RemoveErase
<1>8. (\E w, n : Continue(t, w, n)) \/ (\E obs : EndCall(t, obs)) \/ RemoveErase(t)
  <2>1. CASE HasGet(t) \/ HasTest(t)
    BY <2>1 DEF HasGet, HasTest
  <2>2. CASE GetNotifier(t) \/ AddTest(t) \/ AddObserver(t)
    BY <2>2 DEF GetNotifier, AddTest, AddObserver
  <2>3. CASE RemoveGet(t) \/ RemoveTest(t)
    BY <2>3 DEF RemoveGet, RemoveTest
  <2>4. CASE RemoveCount(t) \/ RemoveUnpoll(t) \/ RemoveObserver(t)
    BY <2>4 DEF RemoveCount, RemoveUnpoll, RemoveObserver, PollRefuses
  <2> QED BY <2>1, <2>2, <2>3, <2>4 DEF Call
<1> QED BY <1>5, <1>6, <1>7, <1>8

(* getNotifier copies the socket twice: places that are free. *)
LEMMA MakeNotifierKeepsSockets ==
  ASSUME ReactorTypeOK, IInv, Core, KeysOK, NEW t \in Threads, MakeNotifier(t)
  PROVE  Core' /\ Keeps /\ KeysOK'
<1> USE Places
<1>1. ~At(t, "none")
  BY DEF MakeNotifier, At
<1>2. PICK n \in Notifiers \ Living :
        /\ CopyAll({Key(n), Member(n)}, calls[t].a)
        /\ handlers' = [handlers EXCEPT ![Num(t)] = n]
  BY DEF MakeNotifier
<1>3. calls[t].a \in Objects /\ Exists(calls[t].a) /\ Num(t) \in Fds
  BY <1>1, Where DEF Exists, Num
<1>4. handlers[Num(t)] = NoNotifier
  BY DEF MakeNotifier
<1>5. ~Exists(Member(n))
  BY <1>2 DEF Living
<1>6. ~Exists(Key(n))
  <2> SUFFICES ASSUME Exists(Key(n)) PROVE FALSE
    OBVIOUS
  <2>1. PICK k \in Fds : handlers[k] = n
    BY <1>2 DEF KeysOK, InMap
  <2>2. sockfd[Member(n)] = k
    BY <2>1 DEF IInv, MapOK
  <2> QED BY <1>5, <2>2 DEF Exists
<1>7. {Key(n), Member(n)} \in SUBSET Objects /\ \A o \in {Key(n), Member(n)} : ~Exists(o)
  BY <1>5, <1>6
<1>8. Core' /\ Keeps
  BY <1>2, <1>3, <1>7, CopyAllKeeps
<1>9. KeysOK'
  <2>0. overwritten' = {}
    BY <1>2 DEF CopyAll, KeysOK
  <2> SUFFICES ASSUME NEW m \in Notifiers, Exists(Key(m))' PROVE m \in InMap(handlers')
    BY <2>0 DEF KeysOK
  <2>1. handlers'[Num(t)] = n /\ \A k \in Fds \ {Num(t)} : handlers'[k] = handlers[k]
    BY <1>2, <1>3 DEF ReactorTypeOK
  <2>2. CASE m = n
    BY <1>3, <2>1, <2>2 DEF InMap
  <2>3. CASE m # n
    <3>1. Key(m) \notin {Key(n), Member(n)}
      BY <2>3
    <3>2. sockfd'[Key(m)] = sockfd[Key(m)]
      BY <1>2, <3>1 DEF CopyAll
    <3>3. PICK k \in Fds : handlers[k] = m
      BY <3>2 DEF KeysOK, InMap, Exists
    <3>4. handlers'[k] = m
      BY <1>4, <2>1, <3>3
    <3> QED BY <3>3, <3>4 DEF InMap
  <2> QED BY <2>2, <2>3
<1> QED BY <1>8, <1>9

(* Steps that leave the keys and the map alone. *)
LEMMA KeysStay ==
  ASSUME KeysOK, UNCHANGED <<handlers, overwritten>>,
         \A n \in Notifiers : sockfd'[Key(n)] = sockfd[Key(n)]
  PROVE  KeysOK'
BY DEF KeysOK, Exists

(* Every step of the reactor. *)
LEMMA StepKeepsSockets ==
  ASSUME ReactorTypeOK, IInv, Core, KeysOK, [Next]_vars
  PROVE  Core' /\ Keeps /\ KeysOK'
<1> USE Places
<1>1. CASE UNCHANGED <<socketVars, handlers>>
  <2>1. Core' /\ Keeps
    BY <1>1, StepKeeps
  <2>2. KeysOK'
    BY <1>1, KeysStay DEF socketVars
  <2> QED BY <2>1, <2>2
<1>2. ASSUME NEW s \in Sockets, SocketStep(s) PROVE Core' /\ Keeps /\ KeysOK'
  <2>1. s \in Objects
    BY SocketReactorAssumption
  <2>2. SocketNext
    BY <1>2, <2>1 DEF SocketStep, SocketNext
  <2>3. Core' /\ Keeps
    BY <2>2, StepKeeps
  <2>4. handlers' = handlers /\ \A n \in Notifiers : sockfd'[Key(n)] = sockfd[Key(n)]
    BY <1>2, SocketStepMoves DEF SocketsMove
  <2>5. overwritten' = overwritten
    BY <1>2 DEF SocketStep, Construct, InitSocket, Opened, Close, Destroy, DestroyAll, Closed,
                ConstructFrom, KeysOK
  <2> QED BY <2>3, <2>4, <2>5, KeysStay
<1>3. ASSUME NEW t \in Threads, NEW a \in Acceptors, NEW s \in Sockets, AcceptorConstruct(t, a, s)
      PROVE  Core' /\ Keeps /\ KeysOK'
  <2>1. s \in Objects /\ a \in Objects /\ Copy(a, s)
    BY <1>3, SocketReactorAssumption DEF AcceptorConstruct
  <2>2. Core' /\ Keeps
    BY <2>1, StepKeeps DEF SocketNext
  <2>3. overwritten' = overwritten /\ \A n \in Notifiers : sockfd'[Key(n)] = sockfd[Key(n)]
    BY <2>1 DEF Copy, CopyAll
  <2>4. handlers' = handlers
    BY <1>3 DEF AcceptorConstruct, StartCall
  <2> QED BY <2>2, <2>3, <2>4, KeysStay
<1>4. ASSUME NEW t \in Threads, NEW a \in Acceptors,
             RegisterAcceptor(t, a) \/ \E op \in Removals : RemoveAcceptor(t, a, op)
      PROVE  UNCHANGED <<socketVars, handlers>>
  BY <1>4 DEF RegisterAcceptor, RemoveAcceptor, StartCall
<1>5. ASSUME NEW t \in Threads, Call(t) PROVE Core' /\ Keeps /\ KeysOK'
  <2>1. CASE MakeNotifier(t)
    BY <2>1, MakeNotifierKeepsSockets
  <2>2. CASE ~MakeNotifier(t)
    <3>1. PICK h \in [Fds -> Notifiers \cup {NoNotifier}], S \in SUBSET Acceptors :
            \E c, obs : Release(h, c, obs, S)
      BY <1>5, <2>2, CallReleases
    <3>2. PICK c, obs : Release(h, c, obs, S)
      BY <3>1
    <3> QED BY <3>2, ReleaseKeepsSockets
  <2> QED BY <2>1, <2>2
<1>6. CASE Run \/ Pass \/ Stop
  <2>1. UNCHANGED <<socketVars, handlers>>
    BY <1>6 DEF Run, Pass, Stop, Dispatch, Goto
  <2> QED BY <1>1, <2>1
<1>7. CASE Destruct
  <2>1. Release([k \in Fds |-> NoNotifier], calls, observers, {})
    BY <1>7 DEF Destruct
  <2>2. [k \in Fds |-> NoNotifier] \in [Fds -> Notifiers \cup {NoNotifier}]
    OBVIOUS
  <2> QED BY <2>1, <2>2, ReleaseKeepsSockets
<1>8. CASE UNCHANGED vars
  BY <1>1, <1>8 DEF vars, reactorVars
<1> QED BY <1>1, <1>2, <1>3, <1>4, <1>5, <1>6, <1>7, <1>8 DEF Next

(* Whatever calls overlap: for every open descriptor there is an object    *)
(* that will close it, and a socket of the application that no acceptor    *)
(* was made of keeps its descriptor, as KeepsDescriptor says.  (Acceptors, *)
(* keys and notifiers are copies: for those, see RegisteredOpen.)          *)
THEOREM ReactorKeepsSockets ==
  Spec => KeepsDescriptor /\ [](\A fd \in open : Holders(fd) # {})
<1>1. Init => Core /\ KeysOK
  <2>1. Init => Core
    BY Initially, CoreIsSocketInv DEF Init
  <2>2. Init => KeysOK
    BY Places DEF Init, SocketInit, KeysOK, Exists
  <2> QED BY <2>1, <2>2
<1>2. (ReactorTypeOK /\ IInv) /\ (Core /\ KeysOK) /\ [Next]_vars => (Core /\ KeysOK)'
  BY StepKeepsSockets
<1>3. (ReactorTypeOK /\ IInv) /\ (Core /\ KeysOK) /\ [Next]_vars =>
        [\A o \in own \ copied :
           \/ o \in own'
           \/ sockfd'[o] # sockfd[o]
           \/ o \in contested /\ \E p \in Holders(sockfd[o]) \ own : sockfd'[p] # sockfd[p]]_socketVars
  BY StepKeepsSockets DEF Keeps
<1>4. Core /\ KeysOK => \A fd \in open : Holders(fd) # {}
  BY DEF Core, KeysOK, NoDescriptorLost
<1> QED BY <1>1, <1>2, <1>3, <1>4, ReactorInvariance, PTL DEF Spec, KeepsDescriptor
==============================================================================
