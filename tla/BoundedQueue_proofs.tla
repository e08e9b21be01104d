-------------------------- MODULE BoundedQueue_proofs --------------------------
(***************************************************************************)
(* Theorems about BoundedQueue, for every finite set of producers and of   *)
(* consumers, every capacity and every set of elements.                    *)
(***************************************************************************)
EXTENDS BoundedQueue, FiniteSetTheorems, SequenceTheorems, TLAPS

(* Where an element is counted although filled does not count it: a push    *)
(* that stored it and has not posted filled, a pop that took filled down    *)
(* and has not advanced front.                                              *)
Stored == {"p_stored", "p_unlocked"}
Taking == {"c_claimed", "c_locked", "c_fetched"}

Count(S) == Cardinality(At(S))

(* The types, the places of a thread by what it is, and no bounds: those    *)
(* follow from the counts.                                                  *)
Types == /\ queue \in [Slots -> Elems \cup {Null}]
         /\ size \in Int /\ front \in Slots /\ rear \in Slots \cup {-1}
         /\ mutex \in Nat /\ filled \in Nat /\ empty \in Nat
         /\ pc \in [Threads -> {"idle"} \cup Pushing \cup Popping]
         /\ \A p \in Producers : pc[p] \in {"idle"} \cup Pushing
         /\ \A c \in Consumers : pc[c] \in {"idle"} \cup Popping
         /\ elem \in [Threads -> Elems \cup {Null}]
         /\ last \in Elems \cup {Null}

SizeMatches == size = filled + Count(Stored) + Count(Taking)

Counted == SlotsAccountedFor /\ RingExclusive /\ SizeMatches

(* rear is the slot of the newest element, or of the one about to be stored. *)
RearFollows ==
  /\ At({"p_advanced"}) # {} => rear = (front + size) % Capacity
  /\ At({"p_advanced"}) = {} => (rear + 1) % Capacity = (front + size) % Capacity

(* The size slots from front on hold elements, and so do the hands of the   *)
(* pushes, and of the pop that fetched.                                     *)
ElementsHeld ==
  /\ \A i \in 0 .. size - 1 : queue[(front + i) % Capacity] \in Elems
  /\ \A t \in At(Pushing) : elem[t] \in Elems
  /\ \A t \in At({"c_fetched"}) : elem[t] = queue[front]

Inv == Types /\ Counted /\ RearFollows /\ ElementsHeld

-----------------------------------------------------------------------------
(* Indices: below twice the capacity the remainder takes it off once.       *)

LEMMA ModWraps ==
  ASSUME NEW x \in 0 .. 2 * Capacity - 1
  PROVE  x % Capacity = IF x < Capacity THEN x ELSE x - Capacity
<1>1. Capacity \in Nat /\ Capacity > 0 /\ x \in Nat /\ x < 2 * Capacity
  BY QueueAssumption
<1>. DEFINE q == x \div Capacity
            r == x % Capacity
<1>2. q \in Int /\ r \in 0 .. Capacity - 1 /\ x = Capacity * q + r
  BY <1>1
<1>3. CASE q <= -1
  BY <1>1, <1>2, <1>3
<1>4. CASE q = 0
  BY <1>1, <1>2, <1>4
<1>5. CASE q = 1
  BY <1>1, <1>2, <1>5
<1>6. CASE q >= 2
  BY <1>1, <1>2, <1>6
<1>. QED  BY <1>2, <1>3, <1>4, <1>5, <1>6

LEMMA ModShifts ==
  ASSUME NEW a \in 0 .. Capacity - 1, NEW i \in 0 .. Capacity - 1
  PROVE  (((a + 1) % Capacity) + i) % Capacity = (a + (i + 1)) % Capacity
<1>1. Capacity \in Nat /\ Capacity > 0
  BY QueueAssumption
<1>2. CASE a + 1 < Capacity
  <2>1. (a + 1) % Capacity = a + 1
    BY <1>1, <1>2, ModWraps
  <2>. QED  BY <1>1, <2>1
<1>3. CASE a + 1 = Capacity
  <2>1. (a + 1) % Capacity = 0 /\ i % Capacity = i
    BY <1>1, <1>3, ModWraps
  <2>2. a + (i + 1) = i + Capacity /\ i + Capacity \in 0 .. 2 * Capacity - 1
    BY <1>1, <1>3
  <2>3. (i + Capacity) % Capacity = i
    BY <1>1, <2>2, ModWraps
  <2>. QED  BY <2>1, <2>2, <2>3
<1>. QED  BY <1>1, <1>2, <1>3

-----------------------------------------------------------------------------
(* The counts.                                                              *)

LEMMA AtFinite ==
  ASSUME NEW S
  PROVE  /\ IsFiniteSet(At(S)) /\ Count(S) \in Nat
         /\ Count(S) = 0 <=> At(S) = {}
<1>1. IsFiniteSet(Threads)
  BY QueueAssumption, FS_Union DEF Threads
<1>. QED  BY <1>1, FS_Subset, FS_CardinalityType, FS_EmptySet DEF At, Count

(* A thread in a set of places but not in a part of it makes the part       *)
(* count less.                                                              *)
LEMMA PartCountsLess ==
  ASSUME NEW S, NEW R \in SUBSET S
  PROVE  /\ Count(R) <= Count(S)
         /\ At(S) # At(R) => Count(R) < Count(S)
<1>1. At(R) \subseteq At(S)
  BY DEF At
<1>. QED  BY <1>1, AtFinite, FS_Subset DEF Count

(* 1 when the place is in S: the share of one thread in a count. *)
Share(place, S) == IF place \in S THEN 1 ELSE 0

(* A thread that goes from one place to another changes a count by its      *)
(* share.                                                                   *)
LEMMA GotoCounts ==
  ASSUME pc \in [Threads -> {"idle"} \cup Pushing \cup Popping],
         NEW CONSTANT t \in Threads, NEW CONSTANT from, NEW CONSTANT to,
         Goto(t, from, to), NEW CONSTANT S
  PROVE  /\ Count(S)' = Count(S) + Share(to, S) - Share(from, S)
         /\ IsFiniteSet(At(S)') /\ Count(S)' \in Nat
<1>1. IsFiniteSet(At(S)) /\ Count(S) \in Nat
  BY AtFinite
<1>2. pc[t] = from /\ pc' = [pc EXCEPT ![t] = to]
  BY DEF Goto
<1>3. CASE to \in S /\ from \notin S
  <2>1. At(S)' = At(S) \cup {t} /\ t \notin At(S)
    BY <1>2, <1>3 DEF At
  <2>. QED  BY <2>1, <1>1, <1>3, FS_AddElement DEF Share, Count
<1>4. CASE to \notin S /\ from \in S
  <2>1. At(S)' = At(S) \ {t} /\ t \in At(S)
    BY <1>2, <1>4 DEF At
  <2>2. IsFiniteSet(At(S)') /\ Count(S)' = Count(S) - 1
    BY <2>1, <1>1, FS_RemoveElement DEF Count
  <2>3. Count(S)' \in Nat
    BY <2>2, FS_CardinalityType DEF Count
  <2>. QED  BY <2>2, <2>3, <1>1, <1>4 DEF Share
<1>5. CASE to \in S <=> from \in S
  <2>1. At(S)' = At(S)
    BY <1>2, <1>5 DEF At
  <2>. QED  BY <2>1, <1>1, <1>5 DEF Share, Count
<1>. QED  BY <1>3, <1>4, <1>5

(* What the counts say of the fields: the queue never holds more than its   *)
(* capacity, a push inside finds room and a pop inside finds an element.    *)
LEMMA CountsBound ==
  ASSUME Types, Counted
  PROVE  /\ size \in 0 .. Capacity /\ mutex \in {0, 1}
         /\ filled \in 0 .. Capacity /\ empty \in 0 .. Capacity
         /\ \A t \in At({"p_reserved", "p_locked", "p_advanced"}) : size < Capacity
         /\ \A t \in At(Taking) : size > 0
<1>1. \A S : Count(S) \in Nat /\ (Count(S) = 0 <=> At(S) = {})
  BY AtFinite
<1>2. Count(Stored) <= Count(Pushing) /\ Count(Taking) <= Count(Popping)
  BY PartCountsLess DEF Stored, Taking, Pushing, Popping
<1>3. empty + filled + Count(Pushing) + Count(Popping) = Capacity
  BY DEF Counted, SlotsAccountedFor, Count
<1>4. /\ filled \in Nat /\ empty \in Nat /\ mutex \in Nat /\ Capacity \in Nat
      /\ size = filled + Count(Stored) + Count(Taking) /\ mutex + Count(Locked) = 1
  BY QueueAssumption DEF Types, Counted, SizeMatches, RingExclusive, Count
<1>5. ASSUME NEW t \in At({"p_reserved", "p_locked", "p_advanced"})
      PROVE  size < Capacity
  <2>1. t \in At(Pushing) /\ t \notin At(Stored)
    BY DEF At, Pushing, Stored
  <2>2. Count(Stored) < Count(Pushing)
    BY <2>1, PartCountsLess DEF Stored, Pushing
  <2>. QED  BY <1>1, <1>2, <1>3, <1>4, <2>2
<1>6. ASSUME NEW t \in At(Taking) PROVE size > 0
  BY <1>1, <1>4
<1>7. size \in 0 .. Capacity /\ mutex \in {0, 1} /\ filled \in 0 .. Capacity /\ empty \in 0 .. Capacity
  BY <1>1, <1>2, <1>3, <1>4
<1>. QED  BY <1>5, <1>6, <1>7

(* Two threads are never both between the lock and the unlock. *)
LEMMA OneInside ==
  ASSUME Types, RingExclusive, NEW t \in At(Locked)
  PROVE  At(Locked) = {t}
<1>1. Count(Locked) \in Nat /\ IsFiniteSet(At(Locked)) /\ Count(Locked) # 0
  BY AtFinite
<1>2. Count(Locked) = 1
  BY <1>1 DEF RingExclusive, Types, Count
<1>. QED  BY <1>1, <1>2, FS_Singleton DEF Count

-----------------------------------------------------------------------------
(* The counts are preserved by every step: what the thread that moves adds  *)
(* to the places it goes to and takes from those it leaves is what the step *)
(* takes from and adds to the fields.                                       *)

Moves(t, from, to, dSize, dMutex, dFilled, dEmpty) ==
  /\ Goto(t, from, to)
  /\ size' = size + dSize /\ mutex' = mutex + dMutex
  /\ filled' = filled + dFilled /\ empty' = empty + dEmpty

Change(from, to, S) == Share(to, S) - Share(from, S)

Balanced(from, to, dSize, dMutex, dFilled, dEmpty) ==
  /\ dEmpty + dFilled + Change(from, to, Pushing) + Change(from, to, Popping) = 0
  /\ dMutex + Change(from, to, Locked) = 0
  /\ dSize = dFilled + Change(from, to, Stored) + Change(from, to, Taking)

LEMMA MovesCounted ==
  ASSUME Types, Counted, NEW CONSTANT t \in Threads, NEW CONSTANT from, NEW CONSTANT to,
         NEW CONSTANT dSize \in Int, NEW CONSTANT dMutex \in Int,
         NEW CONSTANT dFilled \in Int, NEW CONSTANT dEmpty \in Int,
         Moves(t, from, to, dSize, dMutex, dFilled, dEmpty),
         Balanced(from, to, dSize, dMutex, dFilled, dEmpty)
  PROVE  Counted'
<1>. DEFINE Changes(S) == /\ Count(S) \in Nat /\ Change(from, to, S) \in Int
                          /\ Count(S)' = Count(S) + Change(from, to, S)
<1>1. ASSUME NEW CONSTANT S PROVE Changes(S)
  <2>1. pc \in [Threads -> {"idle"} \cup Pushing \cup Popping] /\ Goto(t, from, to)
    BY DEF Types, Moves
  <2>2. Count(S)' = Count(S) + Share(to, S) - Share(from, S)
    BY <2>1, GotoCounts
  <2>3. Count(S) \in Nat /\ Share(to, S) \in Int /\ Share(from, S) \in Int
    BY AtFinite DEF Share
  <2>. QED  BY <2>2, <2>3 DEF Change
<1>2. /\ Changes(Pushing) /\ Changes(Popping) /\ Changes(Locked)
      /\ Changes(Stored) /\ Changes(Taking)
  BY <1>1
<1>3. /\ filled \in Nat /\ empty \in Nat /\ mutex \in Nat /\ size \in Int /\ Capacity \in Nat
      /\ empty + filled + Count(Pushing) + Count(Popping) = Capacity
      /\ mutex + Count(Locked) = 1
      /\ size = filled + Count(Stored) + Count(Taking)
  BY QueueAssumption DEF Types, Counted, SlotsAccountedFor, RingExclusive, SizeMatches, Count
<1>4. /\ empty' + filled' + Count(Pushing)' + Count(Popping)' = Capacity
      /\ mutex' + Count(Locked)' = 1
      /\ size' = filled' + Count(Stored)' + Count(Taking)'
  BY <1>2, <1>3 DEF Moves, Balanced
<1>. QED  BY <1>4 DEF Counted, SlotsAccountedFor, RingExclusive, SizeMatches, Count

LEMMA CountedStep ==
  ASSUME Types, Counted, Next
  PROVE  Counted'
<1>1. /\ Producers \subseteq Threads /\ Consumers \subseteq Threads
      /\ size \in Int /\ mutex \in Nat /\ filled \in Nat /\ empty \in Nat
  BY DEF Types, Threads
<1>. USE DEF Moves, Goes, Lock, Unlock, fields, Balanced, Change, Share,
             Pushing, Popping, Locked, Stored, Taking
<1>2. ASSUME NEW CONSTANT p \in Producers, Push(p) PROVE Counted'
  <2>1. CASE PushReserve(p)
    <3>1. Moves(p, "idle", "p_reserved", 0, 0, 0, -1)
      BY <1>1, <2>1 DEF PushReserve
    <3>. QED  BY <1>1, <3>1, MovesCounted
  <2>2. CASE PushLock(p)
    <3>1. Moves(p, "p_reserved", "p_locked", 0, -1, 0, 0)
      BY <1>1, <2>2 DEF PushLock
    <3>. QED  BY <1>1, <3>1, MovesCounted
  <2>3. CASE PushAdvance(p)
    <3>1. Moves(p, "p_locked", "p_advanced", 0, 0, 0, 0)
      BY <1>1, <2>3 DEF PushAdvance
    <3>. QED  BY <1>1, <3>1, MovesCounted
  <2>4. CASE PushStore(p)
    <3>1. Moves(p, "p_advanced", "p_stored", 1, 0, 0, 0)
      BY <1>1, <2>4 DEF PushStore
    <3>. QED  BY <1>1, <3>1, MovesCounted
  <2>5. CASE PushUnlock(p)
    <3>1. Moves(p, "p_stored", "p_unlocked", 0, 1, 0, 0)
      BY <1>1, <2>5 DEF PushUnlock
    <3>. QED  BY <1>1, <3>1, MovesCounted
  <2>6. CASE PushAnnounce(p)
    <3>1. Moves(p, "p_unlocked", "idle", 0, 0, 1, 0)
      BY <1>1, <2>6 DEF PushAnnounce
    <3>. QED  BY <1>1, <3>1, MovesCounted
  <2>. QED  BY <1>2, <2>1, <2>2, <2>3, <2>4, <2>5, <2>6 DEF Push
<1>3. ASSUME NEW CONSTANT c \in Consumers, Pop(c) PROVE Counted'
  <2>1. CASE PopClaim(c)
    <3>1. Moves(c, "idle", "c_claimed", 0, 0, -1, 0)
      BY <1>1, <2>1 DEF PopClaim
    <3>. QED  BY <1>1, <3>1, MovesCounted
  <2>2. CASE PopLock(c)
    <3>1. Moves(c, "c_claimed", "c_locked", 0, -1, 0, 0)
      BY <1>1, <2>2 DEF PopLock
    <3>. QED  BY <1>1, <3>1, MovesCounted
  <2>3. CASE PopFetch(c)
    <3>1. Moves(c, "c_locked", "c_fetched", 0, 0, 0, 0)
      BY <1>1, <2>3 DEF PopFetch
    <3>. QED  BY <1>1, <3>1, MovesCounted
  <2>4. CASE PopAdvance(c)
    <3>1. Moves(c, "c_fetched", "c_advanced", -1, 0, 0, 0)
      BY <1>1, <2>4 DEF PopAdvance
    <3>. QED  BY <1>1, <3>1, MovesCounted
  <2>5. CASE PopUnlock(c)
    <3>1. Moves(c, "c_advanced", "c_unlocked", 0, 1, 0, 0)
      BY <1>1, <2>5 DEF PopUnlock
    <3>. QED  BY <1>1, <3>1, MovesCounted
  <2>6. CASE PopFree(c)
    <3>1. Moves(c, "c_unlocked", "idle", 0, 0, 0, 1)
      BY <1>1, <2>6 DEF PopFree
    <3>. QED  BY <1>1, <3>1, MovesCounted
  <2>. QED  BY <1>3, <2>1, <2>2, <2>3, <2>4, <2>5, <2>6 DEF Pop
<1>. QED  BY <1>2, <1>3 DEF Next

-----------------------------------------------------------------------------
(* The ring.  What a step of t leaves alone: the fields it does not name,   *)
(* and the sets of threads t neither joins nor leaves.                      *)

LEMMA GotoAt ==
  ASSUME Types, NEW CONSTANT t \in Threads, NEW CONSTANT from, NEW CONSTANT to,
         Goto(t, from, to), NEW CONSTANT S
  PROVE  /\ At(S)' \subseteq At(S) \cup {t}
         /\ to \notin S => At(S)' = At(S) \ {t}
         /\ to \in S => t \in At(S)'
         /\ (from \in S <=> to \in S) => At(S)' = At(S)
         /\ from \in S <=> t \in At(S)
BY DEF Types, Goto, At

LEMMA TypesStep ==
  ASSUME Types, Counted, Next
  PROVE  Types'
<1>. USE DEF Types, Threads, Goes, Goto, Lock, Unlock, fields, Pushing, Popping
<1>1. Producers \cap Consumers = {} /\ Capacity \in Nat \ {0}
  BY QueueAssumption
<1>2. (front + 1) % Capacity \in Slots /\ (rear + 1) % Capacity \in Slots
  BY <1>1 DEF Slots
<1>3. ASSUME NEW CONSTANT p \in Producers, Push(p) PROVE Types'
  <2>1. CASE PushReserve(p)
    BY <1>1, <2>1 DEF PushReserve
  <2>2. CASE PushLock(p)
    BY <1>1, <2>2 DEF PushLock
  <2>3. CASE PushAdvance(p)
    BY <1>1, <1>2, <2>3 DEF PushAdvance
  <2>4. CASE PushStore(p)
    <3>1. /\ queue \in [Slots -> Elems \cup {Null}] /\ elem[p] \in Elems \cup {Null}
          /\ queue' = [queue EXCEPT ![rear] = elem[p]]
      BY <2>4 DEF PushStore
    <3>2. queue' \in [Slots -> Elems \cup {Null}]
      BY ONLY <3>1
    <3>3. /\ pc' = [pc EXCEPT ![p] = "p_stored"] /\ size' = size + 1
          /\ UNCHANGED <<front, rear, mutex, filled, empty, elem, last>>
      BY <2>4 DEF PushStore
    <3>. QED  BY <1>1, <3>2, <3>3
  <2>5. CASE PushUnlock(p)
    BY <1>1, <2>5 DEF PushUnlock
  <2>6. CASE PushAnnounce(p)
    BY <1>1, <2>6 DEF PushAnnounce
  <2>. QED  BY <1>3, <2>1, <2>2, <2>3, <2>4, <2>5, <2>6 DEF Push
<1>4. ASSUME NEW CONSTANT c \in Consumers, Pop(c) PROVE Types'
  <2>1. CASE PopClaim(c)
    BY <1>1, <2>1 DEF PopClaim
  <2>2. CASE PopLock(c)
    BY <1>1, <2>2 DEF PopLock
  <2>3. CASE PopFetch(c)
    BY <1>1, <2>3 DEF PopFetch
  <2>4. CASE PopAdvance(c)
    BY <1>1, <1>2, <2>4 DEF PopAdvance
  <2>5. CASE PopUnlock(c)
    BY <1>1, <2>5 DEF PopUnlock
  <2>6. CASE PopFree(c)
    BY <1>1, <2>6 DEF PopFree
  <2>. QED  BY <1>4, <2>1, <2>2, <2>3, <2>4, <2>5, <2>6 DEF Pop
<1>. QED  BY <1>3, <1>4 DEF Next

(* A step outside the critical sections' own: nobody advances rear or is    *)
(* past doing so, and the ring does not change.                             *)
LEMMA OutsideStep ==
  ASSUME Inv, NEW CONSTANT t \in Threads, NEW CONSTANT from, NEW CONSTANT to,
         Goto(t, from, to), UNCHANGED fields,
         from # "p_advanced", to # "p_advanced", to # "c_fetched",
         to \in Pushing => elem'[t] \in Elems,
         \A u \in Threads \ {t} : elem'[u] = elem[u]
  PROVE  RearFollows' /\ ElementsHeld'
<1>1. /\ queue' = queue /\ size' = size /\ front' = front /\ rear' = rear /\ Types
  BY DEF fields, Inv
<1>2. At({"p_advanced"})' = At({"p_advanced"})
  BY <1>1, GotoAt
<1>3. RearFollows'
  BY <1>1, <1>2 DEF Inv, RearFollows
<1>4. At({"c_fetched"})' = At({"c_fetched"}) \ {t}
  BY <1>1, GotoAt
<1>5. /\ At(Pushing)' \subseteq At(Pushing) \cup {t}
      /\ to \notin Pushing => At(Pushing)' = At(Pushing) \ {t}
      /\ At(Pushing) \subseteq Threads /\ At({"c_fetched"}) \subseteq Threads
  BY <1>1, GotoAt DEF At
<1>6. ElementsHeld'
  BY <1>1, <1>4, <1>5 DEF Inv, ElementsHeld
<1>. QED  BY <1>3, <1>6

LEMMA PushAdvanceStep ==
  ASSUME Inv, NEW CONSTANT p \in Producers, PushAdvance(p)
  PROVE  RearFollows' /\ ElementsHeld'
<1>1. /\ Goto(p, "p_locked", "p_advanced") /\ p \in Threads
      /\ queue' = queue /\ size' = size /\ front' = front /\ elem' = elem
      /\ rear' = (rear + 1) % Capacity /\ Types /\ RingExclusive
  BY DEF PushAdvance, Goes, Threads, Inv, Counted
<1>2. At(Locked) = {p} /\ p \in At({"p_locked"})
  <2>1. p \in At(Locked) /\ p \in At({"p_locked"})
    BY <1>1, GotoAt DEF Locked
  <2>. QED  BY <1>1, <2>1, OneInside
<1>3. At({"p_advanced"}) = {} /\ p \in At({"p_advanced"})'
  <2>1. At({"p_advanced"}) \subseteq At(Locked) /\ p \notin At({"p_advanced"})
    BY <1>2 DEF At, Locked
  <2>. QED  BY <1>1, <1>2, <2>1, GotoAt
<1>4. RearFollows'
  BY <1>1, <1>3 DEF Inv, RearFollows
<1>5. At({"c_fetched"})' = At({"c_fetched"}) /\ At(Pushing)' = At(Pushing)
  BY <1>1, GotoAt DEF Pushing
<1>6. ElementsHeld'
  BY <1>1, <1>5 DEF Inv, ElementsHeld
<1>. QED  BY <1>4, <1>6

LEMMA PushStoreStep ==
  ASSUME Inv, NEW CONSTANT p \in Producers, PushStore(p)
  PROVE  /\ RearFollows' /\ ElementsHeld'
         /\ rear = (front + size) % Capacity /\ size < Capacity /\ elem[p] \in Elems
<1>1. /\ Goto(p, "p_advanced", "p_stored") /\ p \in Threads
      /\ queue' = [queue EXCEPT ![rear] = elem[p]]
      /\ size' = size + 1 /\ front' = front /\ rear' = rear /\ elem' = elem
      /\ Types /\ Counted /\ RingExclusive
  BY DEF PushStore, Goes, Threads, Inv, Counted
<1>2. p \in At(Locked) /\ p \in At({"p_advanced"}) /\ p \in At(Pushing)
  BY <1>1, GotoAt DEF Locked, Pushing
<1>3. At(Locked) = {p}
  BY <1>1, <1>2, OneInside
<1>4. At({"p_advanced"}) = {p} /\ At({"c_fetched"}) = {} /\ At({"p_advanced"})' = {}
  <2>1. At({"p_advanced"}) = {p} /\ At({"c_fetched"}) = {}
    BY <1>1, <1>2, <1>3 DEF At, Locked, Goto
  <2>. QED  BY <1>1, <2>1, GotoAt
<1>5. /\ rear = (front + size) % Capacity /\ elem[p] \in Elems
      /\ \A i \in 0 .. size - 1 : queue[(front + i) % Capacity] \in Elems
      /\ \A t \in At(Pushing) : elem[t] \in Elems
  BY <1>2, <1>4 DEF Inv, RearFollows, ElementsHeld
<1>6. size \in 0 .. Capacity - 1 /\ front \in 0 .. Capacity - 1 /\ Capacity \in Nat
  <2>1. p \in At({"p_reserved", "p_locked", "p_advanced"})
    BY <1>1, GotoAt
  <2>. QED  BY <1>1, <2>1, CountsBound, QueueAssumption DEF Types, Slots
<1>7. (rear + 1) % Capacity = (front + size + 1) % Capacity
  BY <1>5, <1>6, ModWraps
<1>8. RearFollows'
  BY <1>1, <1>4, <1>6, <1>7 DEF RearFollows
<1>9. ElementsHeld'
  <2>1. \A i \in 0 .. size : queue'[(front + i) % Capacity] \in Elems
    <3>1. \A i \in 0 .. size : (front + i) % Capacity \in Slots
      BY <1>6 DEF Slots
    <3>2. \A i \in 0 .. size : i \in 0 .. size - 1 \/ i = size
      BY <1>6
    <3>. QED  BY <1>1, <1>5, <3>1, <3>2 DEF Types
  <2>2. At({"c_fetched"})' = {} /\ At(Pushing)' = At(Pushing)
    BY <1>1, <1>4, GotoAt DEF Pushing
  <2>3. size' - 1 = size
    BY <1>1, <1>6
  <2>. QED  BY <1>1, <1>5, <2>1, <2>2, <2>3 DEF ElementsHeld
<1>. QED  BY <1>5, <1>6, <1>8, <1>9

LEMMA PopFetchStep ==
  ASSUME Inv, NEW CONSTANT c \in Consumers, PopFetch(c)
  PROVE  RearFollows' /\ ElementsHeld'
<1>1. /\ Goto(c, "c_locked", "c_fetched") /\ c \in Threads
      /\ queue' = queue /\ size' = size /\ front' = front /\ rear' = rear
      /\ elem' = [elem EXCEPT ![c] = queue[front]] /\ Types /\ RingExclusive
  BY DEF PopFetch, Goes, fields, Threads, Inv, Counted
<1>2. /\ At({"p_advanced"})' = At({"p_advanced"})
      /\ At({"c_fetched"})' \subseteq At({"c_fetched"}) \cup {c}
      /\ At(Pushing)' = At(Pushing) /\ c \notin At(Pushing)
  BY <1>1, GotoAt DEF Pushing
<1>3. RearFollows'
  BY <1>1, <1>2 DEF Inv, RearFollows
<1>4. \A t \in Threads : elem'[t] = IF t = c THEN queue[front] ELSE elem[t]
  BY <1>1 DEF Types
<1>5. ElementsHeld'
  BY <1>1, <1>2, <1>4 DEF Inv, ElementsHeld, At
<1>. QED  BY <1>3, <1>5

LEMMA PopAdvanceStep ==
  ASSUME Inv, NEW CONSTANT c \in Consumers, PopAdvance(c)
  PROVE  /\ RearFollows' /\ ElementsHeld'
         /\ size > 0 /\ elem[c] = queue[front] /\ elem[c] \in Elems
<1>1. /\ Goto(c, "c_fetched", "c_advanced") /\ c \in Threads
      /\ queue' = queue /\ rear' = rear /\ elem' = elem
      /\ front' = (front + 1) % Capacity /\ size' = size - 1
      /\ Types /\ Counted /\ RingExclusive
  BY DEF PopAdvance, Threads, Inv, Counted
<1>2. c \in At(Locked) /\ c \in At({"c_fetched"}) /\ c \in At(Taking)
  BY <1>1, GotoAt DEF Locked, Taking
<1>3. At({"c_fetched"}) = {c} /\ At({"p_advanced"}) = {}
  <2>1. At(Locked) = {c}
    BY <1>1, <1>2, OneInside
  <2>. QED  BY <1>1, <1>2, <2>1 DEF At, Locked, Goto
<1>4. /\ At({"c_fetched"})' = {} /\ At({"p_advanced"})' = {}
      /\ At(Pushing)' = At(Pushing)
  BY <1>1, <1>3, GotoAt DEF Pushing
<1>5. size \in 1 .. Capacity /\ front \in 0 .. Capacity - 1 /\ Capacity \in Nat
  BY <1>1, <1>2, CountsBound, QueueAssumption DEF Types, Slots
<1>6. front % Capacity = front
  BY <1>5, ModWraps
<1>7. \A i \in 0 .. size' - 1 : (front' + i) % Capacity = (front + (i + 1)) % Capacity
  <2>1. SUFFICES ASSUME NEW i \in 0 .. size - 2
                 PROVE  (((front + 1) % Capacity) + i) % Capacity = (front + (i + 1)) % Capacity
    BY <1>1, <1>5
  <2>. QED  BY <1>5, ModShifts
<1>8. (front' + size') % Capacity = (front + size) % Capacity
  <2>1. size' \in 0 .. Capacity - 1 /\ size' + 1 = size
    BY <1>1, <1>5
  <2>. QED  BY <1>1, <1>5, <2>1, ModShifts
<1>9. RearFollows'
  BY <1>1, <1>3, <1>4, <1>8 DEF Inv, RearFollows
<1>10. /\ \A i \in 0 .. size - 1 : queue[(front + i) % Capacity] \in Elems
       /\ \A t \in At(Pushing) : elem[t] \in Elems
       /\ elem[c] = queue[front]
  BY <1>2 DEF Inv, ElementsHeld
<1>11. elem[c] \in Elems
  <2>1. 0 \in 0 .. size - 1 /\ front + 0 = front
    BY <1>5
  <2>2. queue[(front + 0) % Capacity] \in Elems
    BY <1>10, <2>1
  <2>. QED  BY <1>6, <1>10, <2>1, <2>2
<1>12. ElementsHeld'
  <2>1. \A i \in 0 .. size' - 1 : i + 1 \in 0 .. size - 1
    BY <1>1, <1>5
  <2>2. \A i \in 0 .. size' - 1 : queue'[(front' + i) % Capacity] \in Elems
    BY <1>1, <1>7, <1>10, <2>1
  <2>. QED  BY <1>1, <1>4, <1>10, <2>2 DEF ElementsHeld
<1>. QED  BY <1>5, <1>9, <1>10, <1>11, <1>12

LEMMA RingStep ==
  ASSUME Inv, Next
  PROVE  RearFollows' /\ ElementsHeld'
<1>1. Types /\ Producers \subseteq Threads /\ Consumers \subseteq Threads
  BY DEF Inv, Threads
<1>. USE DEF Goes, Lock, Unlock, fields, Pushing
<1>2. ASSUME NEW CONSTANT p \in Producers, Push(p) PROVE RearFollows' /\ ElementsHeld'
  <2>1. CASE PushReserve(p)
    <3>1. PICK e \in Elems : elem' = [elem EXCEPT ![p] = e]
      BY <2>1 DEF PushReserve
    <3>2. elem'[p] \in Elems /\ \A u \in Threads \ {p} : elem'[u] = elem[u]
      BY <1>1, <3>1 DEF Types
    <3>. QED  BY <1>1, <2>1, <3>2, OutsideStep DEF PushReserve
  <2>2. CASE PushLock(p)
    <3>1. elem[p] \in Elems
      BY <1>1, <2>2 DEF PushLock, Goto, Inv, ElementsHeld, At
    <3>. QED  BY <1>1, <2>2, <3>1, OutsideStep DEF PushLock
  <2>3. CASE PushUnlock(p)
    <3>1. elem[p] \in Elems
      BY <1>1, <2>3 DEF PushUnlock, Goto, Inv, ElementsHeld, At
    <3>. QED  BY <1>1, <2>3, <3>1, OutsideStep DEF PushUnlock
  <2>4. CASE PushAnnounce(p)
    BY <1>1, <2>4, OutsideStep DEF PushAnnounce
  <2>. QED  BY <1>2, <2>1, <2>2, <2>3, <2>4, PushAdvanceStep, PushStoreStep DEF Push
<1>3. ASSUME NEW CONSTANT c \in Consumers, Pop(c) PROVE RearFollows' /\ ElementsHeld'
  <2>1. CASE PopClaim(c)
    BY <1>1, <2>1, OutsideStep DEF PopClaim
  <2>2. CASE PopLock(c)
    BY <1>1, <2>2, OutsideStep DEF PopLock
  <2>3. CASE PopUnlock(c)
    BY <1>1, <2>3, OutsideStep DEF PopUnlock
  <2>4. CASE PopFree(c)
    BY <1>1, <2>4, OutsideStep DEF PopFree
  <2>. QED  BY <1>3, <2>1, <2>2, <2>3, <2>4, PopFetchStep, PopAdvanceStep DEF Pop
<1>. QED  BY <1>2, <1>3 DEF Next

-----------------------------------------------------------------------------
LEMMA InitInv == Init => Inv
<1>. SUFFICES ASSUME Init PROVE Inv
  OBVIOUS
<1>1. Capacity \in Nat \ {0}
  BY QueueAssumption
<1>2. Types
  BY <1>1 DEF Init, Types, Slots, Threads, Pushing, Popping
<1>3. \A S : "idle" \notin S => At(S) = {} /\ Count(S) = 0
  BY AtFinite DEF Init, At
<1>4. Counted
  <2>1. Count(Pushing) = 0 /\ Count(Popping) = 0 /\ Count(Locked) = 0
        /\ Count(Stored) = 0 /\ Count(Taking) = 0
    BY <1>3 DEF Pushing, Popping, Locked, Stored, Taking
  <2>. QED  BY <1>1, <2>1 DEF Init, Counted, SlotsAccountedFor, RingExclusive, SizeMatches, Count
<1>5. RearFollows /\ ElementsHeld
  <2>1. At({"p_advanced"}) = {} /\ At({"c_fetched"}) = {} /\ At(Pushing) = {}
    BY <1>3 DEF Pushing
  <2>2. rear + 1 = 0 /\ front + size = 0 /\ 0 .. size - 1 = {}
    BY DEF Init
  <2>. QED  BY <2>1, <2>2 DEF RearFollows, ElementsHeld
<1>. QED  BY <1>2, <1>4, <1>5 DEF Inv

LEMMA InvStep == Inv /\ [Next]_vars => Inv'
<1>. SUFFICES ASSUME Inv, [Next]_vars PROVE Inv'
  OBVIOUS
<1>1. CASE Next
  BY <1>1, TypesStep, CountedStep, RingStep DEF Inv
<1>2. CASE UNCHANGED vars
  BY <1>2 DEF vars, fields, Inv, Types, Counted, SlotsAccountedFor, RingExclusive,
              SizeMatches, RearFollows, ElementsHeld, Count, At
<1>. QED  BY <1>1, <1>2

(* The inductive invariant: every slot is accounted for by a semaphore, by  *)
(* the size or by a call in flight, rear follows front, and the size slots  *)
(* from front on, and only they, hold elements.                             *)
THEOREM Invariance == Spec => []Inv
BY InitInv, InvStep, PTL DEF Spec

(* The fields and semaphores stay in their ranges: size, filled and empty   *)
(* never leave 0 .. Capacity, whatever the threads interleave.              *)
THEOREM TypeCorrect == Spec => []TypeOK
<1>1. Inv => TypeOK
  BY CountsBound DEF Inv, Types, TypeOK
<1>. QED  BY <1>1, Invariance, PTL

(* Free slots, full slots and calls in flight always add up to the capacity. *)
THEOREM SlotsCorrect == Spec => []SlotsAccountedFor
<1>1. Inv => SlotsAccountedFor
  BY DEF Inv, Counted
<1>. QED  BY <1>1, Invariance, PTL

(* At most one thread is between the lock and the unlock of the mutex.      *)
THEOREM RingCorrect == Spec => []RingExclusive
<1>1. Inv => RingExclusive
  BY DEF Inv, Counted
<1>. QED  BY <1>1, Invariance, PTL

-----------------------------------------------------------------------------
(* The ring refines the bounded FIFO queue.                                 *)

LEMMA FunctionIsSeq ==
  ASSUME NEW S, NEW n \in Nat, NEW w \in [1 .. n -> S]
  PROVE  w \in Seq(S) /\ Len(w) = n
OBVIOUS

(* A window of n elements on the ring is a sequence of n elements.          *)
LEMMA WindowSeq ==
  ASSUME NEW q, NEW f \in Nat, NEW n \in Nat, NEW w,
         \A i \in 0 .. n - 1 : q[(f + i) % Capacity] \in Elems,
         w = [i \in 1 .. n |-> q[(f + i - 1) % Capacity]]
  PROVE  /\ w \in Seq(Elems) /\ Len(w) = n
         /\ \A i \in 1 .. n : w[i] = q[(f + i - 1) % Capacity]
<1>1. \A i \in 1 .. n : q[(f + i - 1) % Capacity] \in Elems
  <2>1. \A i \in 1 .. n : i - 1 \in 0 .. n - 1 /\ f + (i - 1) = f + i - 1
    OBVIOUS
  <2>. QED  BY <2>1
<1>2. w \in [1 .. n -> Elems]
  BY <1>1
<1>3. w \in Seq(Elems) /\ Len(w) = n
  BY <1>2, FunctionIsSeq
<1>. QED  BY <1>3

LEMMA ContentsSeq ==
  ASSUME Inv
  PROVE  /\ Contents \in Seq(Elems) /\ Len(Contents) = size
         /\ \A i \in 1 .. size : Contents[i] = queue[(front + i - 1) % Capacity]
<1>1. size \in Nat /\ front \in Nat
  BY CountsBound DEF Inv, Types, Slots
<1>2. \A i \in 0 .. size - 1 : queue[(front + i) % Capacity] \in Elems
  BY DEF Inv, ElementsHeld
<1>. QED  BY <1>1, <1>2, WindowSeq DEF Contents

LEMMA InitFIFO == Init => Abstract!Init
<1>. SUFFICES ASSUME Init PROVE Contents = << >> /\ last \notin Elems
  BY DEF Abstract!Init
<1>1. Inv /\ size = 0
  BY InitInv DEF Init
<1>2. Contents \in Seq(Elems) /\ Len(Contents) = 0
  BY <1>1, ContentsSeq
<1>. QED  BY <1>2, EmptySeq, QueueAssumption DEF Init

(* The store appends the element of the push.  Its slot is none of those in *)
(* use: fewer than Capacity of them follow front.                           *)
LEMMA PushStoreFIFO ==
  ASSUME Inv, NEW CONSTANT p \in Producers, PushStore(p)
  PROVE  Abstract!Push(elem[p]) /\ elem[p] \in Elems
<1>1. /\ queue' = [queue EXCEPT ![rear] = elem[p]] /\ size' = size + 1
      /\ front' = front /\ last' = last /\ queue \in [Slots -> Elems \cup {Null}]
  BY DEF PushStore, Goes, Inv, Types
<1>2. /\ rear = (front + size) % Capacity /\ size < Capacity /\ elem[p] \in Elems
      /\ ElementsHeld'
  BY PushStoreStep
<1>3. /\ size \in 0 .. Capacity - 1 /\ front \in 0 .. Capacity - 1
      /\ Capacity \in Nat /\ Capacity > 0
  BY <1>2, CountsBound, QueueAssumption DEF Inv, Types, Slots
<1>4. /\ Contents \in Seq(Elems) /\ Len(Contents) = size
      /\ \A i \in 1 .. size : Contents[i] = queue[(front + i - 1) % Capacity]
  BY ContentsSeq
<1>5. /\ Contents' \in Seq(Elems) /\ Len(Contents') = size + 1
      /\ \A i \in 1 .. size + 1 : Contents'[i] = queue'[(front + i - 1) % Capacity]
  BY <1>1, <1>2, <1>3, WindowSeq DEF Contents, ElementsHeld
<1>6. \A i \in 1 .. size : /\ (front + i - 1) % Capacity # rear
                           /\ (front + i - 1) % Capacity \in Slots
  <2>. TAKE i \in 1 .. size
  <2>1. front + i - 1 \in 0 .. 2 * Capacity - 1 /\ front + size \in 0 .. 2 * Capacity - 1
    BY <1>3
  <2>. QED  BY <1>2, <1>3, <2>1, ModWraps DEF Slots
<1>7. rear \in Slots /\ front + (size + 1) - 1 = front + size
  BY <1>2, <1>3 DEF Slots
<1>8. Contents' = Append(Contents, elem[p])
  <2>1. /\ Append(Contents, elem[p]) \in Seq(Elems)
        /\ Len(Append(Contents, elem[p])) = size + 1
        /\ \A i \in 1 .. size : Append(Contents, elem[p])[i] = Contents[i]
        /\ Append(Contents, elem[p])[size + 1] = elem[p]
    BY <1>2, <1>4, AppendProperties
  <2>2. \A i \in 1 .. size : Contents'[i] = Contents[i]
    BY <1>1, <1>3, <1>4, <1>5, <1>6
  <2>3. Contents'[size + 1] = elem[p]
    BY <1>1, <1>2, <1>3, <1>5, <1>7
  <2>4. \A i \in 1 .. size + 1 : i \in 1 .. size \/ i = size + 1
    BY <1>3
  <2>5. \A i \in 1 .. size + 1 : Contents'[i] = Append(Contents, elem[p])[i]
    BY <2>1, <2>2, <2>3, <2>4
  <2>. QED  BY <1>5, <2>1, <2>5, SeqEqual
<1>. QED  BY <1>1, <1>2, <1>4, <1>8 DEF Abstract!Push

(* Advancing front takes the oldest element away, and it is the one the pop *)
(* fetched.                                                                 *)
LEMMA PopAdvanceFIFO ==
  ASSUME Inv, NEW CONSTANT c \in Consumers, PopAdvance(c)
  PROVE  Abstract!Pop
<1>1. /\ queue' = queue /\ size' = size - 1
      /\ front' = (front + 1) % Capacity /\ last' = elem[c]
  BY DEF PopAdvance
<1>2. size > 0 /\ elem[c] = queue[front] /\ ElementsHeld'
  BY PopAdvanceStep
<1>3. /\ size \in 1 .. Capacity /\ front \in 0 .. Capacity - 1
      /\ Capacity \in Nat /\ Capacity > 0
  BY <1>2, CountsBound, QueueAssumption DEF Inv, Types, Slots
<1>4. /\ Contents \in Seq(Elems) /\ Len(Contents) = size
      /\ \A i \in 1 .. size : Contents[i] = queue[(front + i - 1) % Capacity]
  BY ContentsSeq
<1>5. Contents # << >>
  BY <1>3, <1>4
<1>6. /\ Contents' \in Seq(Elems) /\ Len(Contents') = size - 1
      /\ \A i \in 1 .. size - 1 : Contents'[i] = queue[(front' + i - 1) % Capacity]
  <2>1. front' \in Nat /\ size' \in Nat
    BY <1>1, <1>3
  <2>. QED  BY <1>1, <1>2, <2>1, WindowSeq DEF Contents, ElementsHeld
<1>7. Contents' = Tail(Contents)
  <2>1. /\ Tail(Contents) \in Seq(Elems) /\ Len(Tail(Contents)) = size - 1
        /\ \A i \in 1 .. size - 1 : Tail(Contents)[i] = Contents[i + 1]
    BY <1>4, <1>5, HeadTailProperties
  <2>2. ASSUME NEW i \in 1 .. size - 1 PROVE Contents'[i] = Contents[i + 1]
    <3>1. i - 1 \in 0 .. Capacity - 1 /\ i + 1 \in 1 .. size
      BY <1>3
    <3>2. (((front + 1) % Capacity) + (i - 1)) % Capacity = (front + ((i - 1) + 1)) % Capacity
      BY <1>3, <3>1, ModShifts
    <3>3. /\ front' + i - 1 = ((front + 1) % Capacity) + (i - 1)
          /\ front + ((i - 1) + 1) = front + (i + 1) - 1
      BY <1>1, <1>3
    <3>. QED  BY <1>4, <1>6, <3>1, <3>2, <3>3
  <2>. QED  BY <1>6, <2>1, <2>2, SeqEqual
<1>8. Head(Contents) = elem[c]
  <2>1. 1 \in 1 .. size /\ front + 1 - 1 = front /\ front % Capacity = front
    BY <1>3, ModWraps
  <2>. QED  BY <1>2, <1>4, <1>5, <2>1
<1>. QED  BY <1>1, <1>5, <1>7, <1>8 DEF Abstract!Pop

LEMMA StepFIFO == Inv /\ [Next]_vars => [Abstract!Next]_(Abstract!vars)
<1>. SUFFICES ASSUME Inv, [Next]_vars PROVE [Abstract!Next]_(Abstract!vars)
  OBVIOUS
<1>. DEFINE Stutters == UNCHANGED <<queue, size, front, last>>
<1>1. ASSUME Stutters PROVE UNCHANGED Abstract!vars
  BY <1>1 DEF Contents, Abstract!vars
<1>. USE DEF Goes, Lock, Unlock, fields
<1>2. ASSUME NEW CONSTANT p \in Producers, Push(p), ~PushStore(p) PROVE Stutters
  BY <1>2 DEF Push, PushReserve, PushLock, PushAdvance, PushUnlock, PushAnnounce
<1>3. ASSUME NEW CONSTANT c \in Consumers, Pop(c), ~PopAdvance(c) PROVE Stutters
  BY <1>3 DEF Pop, PopClaim, PopLock, PopFetch, PopUnlock, PopFree
<1>4. ASSUME UNCHANGED vars PROVE Stutters
  BY <1>4 DEF vars
<1>5. ASSUME NEW CONSTANT p \in Producers, PushStore(p) PROVE Abstract!Next
  BY <1>5, PushStoreFIFO DEF Abstract!Next
<1>6. ASSUME NEW CONSTANT c \in Consumers, PopAdvance(c) PROVE Abstract!Next
  BY <1>6, PopAdvanceFIFO DEF Abstract!Next
<1>. QED  BY <1>1, <1>2, <1>3, <1>4, <1>5, <1>6 DEF Next

(* The ring is a bounded FIFO queue, for any threads and any capacity: its  *)
(* initial states are empty queues, and every step of a thread is a push,   *)
(* a pop or nothing to the queue.                                           *)
THEOREM Refinement == Spec => ImplementsFIFO
BY InitFIFO, StepFIFO, Invariance, PTL DEF Spec, ImplementsFIFO, Abstract!Spec
=============================================================================
