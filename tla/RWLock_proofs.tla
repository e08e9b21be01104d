----------------------------- MODULE RWLock_proofs -----------------------------
(***************************************************************************)
(* Theorems about RWLock, for every finite set of threads, priority, n_way *)
(* and initial value of served_readers; and about RWLockHistory: the lock  *)
(* implements the promise of its header, with the slack that the initial   *)
(* served_readers gives the readers of the first batch.                    *)
(***************************************************************************)
EXTENDS RWLockHistory, RWLockOps_proofs

(* The sets of threads the counters stand for are finite. *)
LEMMA AtFinite ==
  ASSUME NEW S
  PROVE  IsFiniteSet(At(S)) /\ Cardinality(At(S)) \in Nat /\ At(S) \subseteq Threads
         /\ Cardinality(At(S)) <= Cardinality(Threads)
         /\ Cardinality(At(S)') \in Nat
BY RWLockAssumption, FS_Subset, FS_CardinalityType DEF At

(* A step that moves thread t and, of the others, none into or out of S,    *)
(* changes the number of threads at S by the share of t.                    *)
LEMMA OneMoves ==
  ASSUME NEW CONSTANT S, NEW CONSTANT t \in Threads,
         \A u \in Threads \ {t} : pc'[u] \in S <=> pc[u] \in S
  PROVE  Cardinality(At(S)') = Cardinality(At(S)) + Share(pc'[t], S) - Share(pc[t], S)
<1>1. IsFiniteSet(At(S)) /\ Cardinality(At(S)) \in Nat
  BY AtFinite
<1>2. CASE pc'[t] \in S /\ pc[t] \notin S
  <2>1. At(S)' = At(S) \cup {t} /\ t \notin At(S)
    BY <1>2 DEF At
  <2>2. Cardinality(At(S)') = Cardinality(At(S)) + 1
    BY <2>1, <1>1, FS_AddElement
  <2>. QED  BY <2>2, <1>1, <1>2 DEF Share
<1>3. CASE pc'[t] \notin S /\ pc[t] \in S
  <2>1. At(S)' = At(S) \ {t} /\ t \in At(S)
    BY <1>3 DEF At
  <2>2. Cardinality(At(S)') = Cardinality(At(S)) - 1
    BY <2>1, <1>1, FS_RemoveElement
  <2>. QED  BY <2>2, <1>1, <1>3 DEF Share
<1>4. CASE pc'[t] \in S <=> pc[t] \in S
  <2>1. At(S)' = At(S)
    BY <1>4 DEF At
  <2>. QED  BY <2>1, <1>1, <1>4 DEF Share
<1>. QED  BY <1>2, <1>3, <1>4

(* A counter is zero exactly when nobody is where it counts; the second     *)
(* lemma says it of the next state.                                         *)
LEMMA ZeroMeansNobody ==
  ASSUME CountersMatch
  PROVE  /\ rw.readers \in Nat /\ (rw.readers = 0 <=> At({"reading"}) = {})
         /\ rw.writers \in Nat /\ (rw.writers = 0 <=> At({"writing"}) = {})
         /\ rw.waiting_readers \in Nat
         /\ rw.waiting_readers = 0 <=> At({"r_blocked", "r_woken"}) = {}
         /\ rw.waiting_writers \in Nat
         /\ rw.waiting_writers = 0 <=> At({"w_blocked", "w_woken"}) = {}
BY AtFinite, FS_EmptySet DEF CountersMatch

LEMMA ZeroMeansNobodyNext ==
  ASSUME CountersMatch'
  PROVE  /\ rw'.readers \in Nat /\ (rw'.readers = 0 <=> At({"reading"})' = {})
         /\ rw'.writers \in Nat /\ (rw'.writers = 0 <=> At({"writing"})' = {})
         /\ rw'.waiting_readers \in Nat
         /\ rw'.waiting_readers = 0 <=> At({"r_blocked", "r_woken"})' = {}
         /\ rw'.waiting_writers \in Nat
         /\ rw'.waiting_writers = 0 <=> At({"w_blocked", "w_woken"})' = {}
<1>1. \A S : IsFiniteSet(At(S)')
  BY RWLockAssumption, FS_Subset DEF At
<1>. QED  BY <1>1, AtFinite, FS_EmptySet DEF CountersMatch

-----------------------------------------------------------------------------
(* What a step does to pc: one thread moves from one place to another, and  *)
(* the unlocks and spurious wake-ups turn blocked threads into woken ones.  *)

Others(t) == \A u \in Threads \ {t} :
               \/ pc'[u] = pc[u]
               \/ pc[u] = "r_blocked" /\ pc'[u] = "r_woken"
               \/ pc[u] = "w_blocked" /\ pc'[u] = "w_woken"

Counted(S) == /\ "r_blocked" \in S <=> "r_woken" \in S
              /\ "w_blocked" \in S <=> "w_woken" \in S

LEMMA PcMoves ==
  ASSUME TypeOK, NEW CONSTANT t \in Threads, Step(t)
  PROVE  pc' \in [Threads -> Where] /\ Others(t)
<1>1. ASSUME NEW l, ReaderTry(t, l) PROVE pc' \in [Threads -> Where] /\ Others(t)
  BY <1>1 DEF ReaderTry, TypeOK, Where, Others
<1>2. ASSUME NEW l, WriterTry(t, l) PROVE pc' \in [Threads -> Where] /\ Others(t)
  BY <1>2 DEF WriterTry, TypeOK, Where, Others
<1>3. ASSUME ReaderUnlock(t) PROVE pc' \in [Threads -> Where] /\ Others(t)
  <2>1. PICK W \in WritersWokenByReader(At({"w_blocked"})) : pc' = LeaveAndWake(t, {}, W)
    BY <1>3 DEF ReaderUnlock
  <2>2. W \subseteq At({"w_blocked"})
    BY DEF WritersWokenByReader, Signals
  <2>. QED  BY <2>1, <2>2 DEF LeaveAndWake, TypeOK, Where, At, Others
<1>4. ASSUME WriterUnlock(t) PROVE pc' \in [Threads -> Where] /\ Others(t)
  <2>1. PICK R \in ReadersWokenByWriter(rw', At({"r_blocked"})),
             W \in WritersWokenByWriter(rw', At({"w_blocked"})) :
               pc' = LeaveAndWake(t, R, W)
    BY <1>4 DEF WriterUnlock
  <2>2. rw'.priority \in Priority
    BY <1>4 DEF WriterUnlock, WriterLeaves, TypeOK, Lock
  <2>3. R \subseteq At({"r_blocked"})
    BY <2>2 DEF ReadersWokenByWriter, Signals, Priority
  <2>4. W \subseteq At({"w_blocked"})
    BY DEF WritersWokenByWriter, Signals
  <2>. QED  BY <2>1, <2>3, <2>4 DEF LeaveAndWake, TypeOK, Where, At, Others
<1>5. ASSUME SpuriousWakeup(t) PROVE pc' \in [Threads -> Where] /\ Others(t)
  BY <1>5 DEF SpuriousWakeup, TypeOK, Where, Others
<1>. QED
  BY <1>1, <1>2, <1>3, <1>4, <1>5
     DEF Step, ReaderLock, ReaderRetry, WriterLock, WriterRetry

(* So the number of threads a counter stands for changes by the share of t. *)
LEMMA StepShare ==
  ASSUME TypeOK, NEW CONSTANT t \in Threads, Step(t), NEW CONSTANT S, Counted(S)
  PROVE  Cardinality(At(S)') = Cardinality(At(S)) + Share(pc'[t], S) - Share(pc[t], S)
BY PcMoves, OneMoves DEF Others, Counted

-----------------------------------------------------------------------------
(* What each step does: from where to where its thread moves, and the       *)
(* counters of the lock it leaves behind.                                   *)

Moves(t, from, to) == pc[t] = from /\ pc'[t] = to

LockBecomes(readers, writers, waiting_readers, waiting_writers, served_readers) ==
  Counters(rw', rw.readers + readers, rw.writers + writers,
           rw.waiting_readers + waiting_readers, rw.waiting_writers + waiting_writers,
           served_readers)

ReaderBlocks(t) ==
  /\ \/ Moves(t, "out", "r_blocked") /\ LockBecomes(0, 0, 1, 0, rw.served_readers)
     \/ Moves(t, "r_woken", "r_blocked") /\ LockBecomes(0, 0, 0, 0, rw.served_readers)
  /\ ReaderWaits(rw')
  /\ pc' = [pc EXCEPT ![t] = "r_blocked"]

ReaderEnters(t) ==
  /\ \/ Moves(t, "out", "reading") /\ LockBecomes(1, 0, 0, 0, rw.served_readers + 1)
     \/ Moves(t, "r_woken", "reading") /\ LockBecomes(1, 0, -1, 0, rw.served_readers + 1)
  /\ ~ReaderWaits(rw)
  /\ pc' = [pc EXCEPT ![t] = "reading"]

WriterBlocks(t) ==
  /\ \/ Moves(t, "out", "w_blocked") /\ LockBecomes(0, 0, 0, 1, rw.served_readers)
     \/ Moves(t, "w_woken", "w_blocked") /\ LockBecomes(0, 0, 0, 0, rw.served_readers)
  /\ WriterWaits(rw')
  /\ pc' = [pc EXCEPT ![t] = "w_blocked"]

WriterEnters(t) ==
  /\ \/ Moves(t, "out", "writing") /\ LockBecomes(0, 1, 0, 0, rw.served_readers)
     \/ Moves(t, "w_woken", "writing") /\ LockBecomes(0, 1, 0, -1, rw.served_readers)
  /\ ~WriterWaits(rw)
  /\ pc' = [pc EXCEPT ![t] = "writing"]

ReaderExits(t) ==
  /\ Moves(t, "reading", "out") /\ LockBecomes(-1, 0, 0, 0, rw.served_readers)
  /\ \E W \in Signals(At({"w_blocked"}), 1) : pc' = LeaveAndWake(t, {}, W)

WriterExits(t) ==
  /\ Moves(t, "writing", "out") /\ LockBecomes(0, -1, 0, 0, 0)
  /\ \E R \in ReadersWokenByWriter(rw', At({"r_blocked"})),
        W \in WritersWokenByWriter(rw', At({"w_blocked"})) : pc' = LeaveAndWake(t, R, W)

Wakes(t) ==
  /\ \/ Moves(t, "r_blocked", "r_woken")
     \/ Moves(t, "w_blocked", "w_woken")
  /\ LockBecomes(0, 0, 0, 0, rw.served_readers)
  /\ \A u \in Threads \ {t} : pc'[u] = pc[u]

Effect(t) == \/ ReaderBlocks(t) \/ ReaderEnters(t) \/ ReaderExits(t)
             \/ WriterBlocks(t) \/ WriterEnters(t) \/ WriterExits(t)
             \/ Wakes(t)

LEMMA StepEffect ==
  ASSUME TypeOK, NEW CONSTANT t \in Threads, Step(t)
  PROVE  rw' \in IntLock /\ SamePolicy(rw', rw) /\ Effect(t)
<1>1. rw \in IntLock /\ pc \in [Threads -> Where]
  BY DEF TypeOK, Lock, IntLock
<1>2. /\ rw.readers \in Int /\ rw.writers \in Int /\ rw.waiting_readers \in Int
      /\ rw.waiting_writers \in Int /\ rw.served_readers \in Int
  BY <1>1 DEF IntLock
<1>3. CASE ReaderLock(t)
  <2>. DEFINE l == ReaderArrives(rw)
  <2>1. /\ l \in IntLock /\ SamePolicy(l, rw) /\ pc[t] = "out"
        /\ Counters(l, rw.readers, rw.writers, rw.waiting_readers + 1,
                    rw.waiting_writers, rw.served_readers)
    BY <1>1, <1>2, <1>3, OpsType, OpsEffect DEF ReaderLock
  <2>2. CASE ReaderWaits(l) /\ rw' = l /\ pc' = [pc EXCEPT ![t] = "r_blocked"]
    <3>1. LockBecomes(0, 0, 1, 0, rw.served_readers)
      BY <1>2, <2>1, <2>2 DEF LockBecomes, Counters
    <3>. QED  BY <1>1, <2>1, <2>2, <3>1 DEF Effect, ReaderBlocks, Moves
  <2>3. CASE ~ReaderWaits(l) /\ rw' = AdmitReader(l) /\ pc' = [pc EXCEPT ![t] = "reading"]
    <3>1. rw' \in IntLock /\ SamePolicy(rw', l)
      BY <2>1, <2>3, OpsType, OpsEffect
    <3>2. Counters(rw', l.readers + 1, l.writers,
                   l.waiting_readers - 1, l.waiting_writers,
                   l.served_readers + 1)
      BY <2>1, <2>3, OpsEffect DEF Counters, IntLock
    <3>3. LockBecomes(1, 0, 0, 0, rw.served_readers + 1) /\ SamePolicy(rw', rw)
      BY <1>2, <2>1, <3>1, <3>2 DEF LockBecomes, Counters, SamePolicy
    <3>4. ~ReaderWaits(rw)
      BY <1>2, <2>1, <2>3 DEF ReaderWaits, Counters, SamePolicy
    <3>. QED  BY <1>1, <2>1, <2>3, <3>1, <3>3, <3>4 DEF Effect, ReaderEnters, Moves
  <2>. QED  BY <1>3, <2>2, <2>3 DEF ReaderLock, ReaderTry
<1>4. CASE ReaderRetry(t)
  <2>1. pc[t] = "r_woken"
    BY <1>4 DEF ReaderRetry
  <2>2. CASE ReaderWaits(rw) /\ rw' = rw /\ pc' = [pc EXCEPT ![t] = "r_blocked"]
    <3>1. LockBecomes(0, 0, 0, 0, rw.served_readers) /\ SamePolicy(rw', rw)
      BY <1>2, <2>2 DEF LockBecomes, Counters, SamePolicy
    <3>. QED  BY <1>1, <2>1, <2>2, <3>1 DEF Effect, ReaderBlocks, Moves
  <2>3. CASE ~ReaderWaits(rw) /\ rw' = AdmitReader(rw) /\ pc' = [pc EXCEPT ![t] = "reading"]
    <3>1. rw' \in IntLock /\ SamePolicy(rw', rw)
      BY <1>1, <2>3, OpsType, OpsEffect
    <3>2. LockBecomes(1, 0, -1, 0, rw.served_readers + 1)
      BY <1>1, <1>2, <2>3, OpsEffect DEF LockBecomes, Counters
    <3>. QED  BY <1>1, <2>1, <2>3, <3>1, <3>2 DEF Effect, ReaderEnters, Moves
  <2>. QED  BY <1>4, <2>2, <2>3 DEF ReaderRetry, ReaderTry
<1>5. CASE ReaderUnlock(t)
  <2>1. pc[t] = "reading" /\ pc'[t] = "out" /\ rw' = ReaderLeaves(rw)
    BY <1>5 DEF ReaderUnlock, LeaveAndWake
  <2>2. rw' \in IntLock /\ SamePolicy(rw', rw)
    BY <1>1, <2>1, OpsType, OpsEffect
  <2>3. LockBecomes(-1, 0, 0, 0, rw.served_readers)
    BY <1>1, <1>2, <2>1, OpsEffect DEF LockBecomes, Counters
  <2>. QED  BY <1>5, <2>1, <2>2, <2>3 DEF ReaderUnlock, Effect, ReaderExits, Moves, WritersWokenByReader
<1>6. CASE WriterLock(t)
  <2>. DEFINE l == WriterArrives(rw)
  <2>1. /\ l \in IntLock /\ SamePolicy(l, rw) /\ pc[t] = "out"
        /\ Counters(l, rw.readers, rw.writers, rw.waiting_readers,
                    rw.waiting_writers + 1, rw.served_readers)
    BY <1>1, <1>2, <1>6, OpsType, OpsEffect DEF WriterLock
  <2>2. CASE WriterWaits(l) /\ rw' = l /\ pc' = [pc EXCEPT ![t] = "w_blocked"]
    <3>1. LockBecomes(0, 0, 0, 1, rw.served_readers)
      BY <1>2, <2>1, <2>2 DEF LockBecomes, Counters
    <3>. QED  BY <1>1, <2>1, <2>2, <3>1 DEF Effect, WriterBlocks, Moves
  <2>3. CASE ~WriterWaits(l) /\ rw' = AdmitWriter(l) /\ pc' = [pc EXCEPT ![t] = "writing"]
    <3>1. rw' \in IntLock /\ SamePolicy(rw', l)
      BY <2>1, <2>3, OpsType, OpsEffect
    <3>2. Counters(rw', l.readers, l.writers + 1,
                   l.waiting_readers, l.waiting_writers - 1,
                   l.served_readers)
      BY <2>1, <2>3, OpsEffect DEF Counters, IntLock
    <3>3. LockBecomes(0, 1, 0, 0, rw.served_readers) /\ SamePolicy(rw', rw)
      BY <1>2, <2>1, <3>1, <3>2 DEF LockBecomes, Counters, SamePolicy
    <3>4. ~WriterWaits(rw)
      BY <1>2, <2>1, <2>3 DEF WriterWaits, Counters, SamePolicy
    <3>. QED  BY <1>1, <2>1, <2>3, <3>1, <3>3, <3>4 DEF Effect, WriterEnters, Moves
  <2>. QED  BY <1>6, <2>2, <2>3 DEF WriterLock, WriterTry
<1>7. CASE WriterRetry(t)
  <2>1. pc[t] = "w_woken"
    BY <1>7 DEF WriterRetry
  <2>2. CASE WriterWaits(rw) /\ rw' = rw /\ pc' = [pc EXCEPT ![t] = "w_blocked"]
    <3>1. LockBecomes(0, 0, 0, 0, rw.served_readers) /\ SamePolicy(rw', rw)
      BY <1>2, <2>2 DEF LockBecomes, Counters, SamePolicy
    <3>. QED  BY <1>1, <2>1, <2>2, <3>1 DEF Effect, WriterBlocks, Moves
  <2>3. CASE ~WriterWaits(rw) /\ rw' = AdmitWriter(rw) /\ pc' = [pc EXCEPT ![t] = "writing"]
    <3>1. rw' \in IntLock /\ SamePolicy(rw', rw)
      BY <1>1, <2>3, OpsType, OpsEffect
    <3>2. LockBecomes(0, 1, 0, -1, rw.served_readers)
      BY <1>1, <1>2, <2>3, OpsEffect DEF LockBecomes, Counters
    <3>. QED  BY <1>1, <2>1, <2>3, <3>1, <3>2 DEF Effect, WriterEnters, Moves
  <2>. QED  BY <1>7, <2>2, <2>3 DEF WriterRetry, WriterTry
<1>8. CASE WriterUnlock(t)
  <2>1. pc[t] = "writing" /\ pc'[t] = "out" /\ rw' = WriterLeaves(rw)
    BY <1>8 DEF WriterUnlock, LeaveAndWake
  <2>2. rw' \in IntLock /\ SamePolicy(rw', rw)
    BY <1>1, <2>1, OpsType, OpsEffect
  <2>3. LockBecomes(0, -1, 0, 0, 0)
    BY <1>1, <1>2, <2>1, OpsEffect DEF LockBecomes, Counters
  <2>. QED  BY <1>8, <2>1, <2>2, <2>3 DEF WriterUnlock, Effect, WriterExits, Moves, WritersWokenByReader
<1>9. CASE SpuriousWakeup(t)
  <2>1. LockBecomes(0, 0, 0, 0, rw.served_readers) /\ SamePolicy(rw', rw) /\ rw' = rw
    BY <1>2, <1>9 DEF SpuriousWakeup, LockBecomes, Counters, SamePolicy
  <2>. QED  BY <1>1, <1>9, <2>1 DEF SpuriousWakeup, Effect, Wakes, Moves
<1>. QED  BY <1>3, <1>4, <1>5, <1>6, <1>7, <1>8, <1>9 DEF Step

(* Type correctness and the counters are preserved together: that a counter *)
(* stays a natural number follows from what it counts.                      *)
LEMMA CountersStep ==
  ASSUME TypeOK, CountersMatch, NEW CONSTANT t \in Threads, Step(t)
  PROVE  TypeOK' /\ CountersMatch'
<1>1. rw' \in IntLock /\ Effect(t)
  BY StepEffect
<1>. DEFINE Moved(S) == Cardinality(At(S)') =
                          Cardinality(At(S)) + Share(pc'[t], S) - Share(pc[t], S)
<1>2. CountersMatch'
  <2>1. /\ Moved({"reading"}) /\ Moved({"writing"})
        /\ Moved({"r_blocked", "r_woken"}) /\ Moved({"w_blocked", "w_woken"})
    BY StepShare DEF Counted
  <2>2. /\ rw.readers \in Int /\ rw.writers \in Int
        /\ rw.waiting_readers \in Int /\ rw.waiting_writers \in Int
    BY DEF TypeOK, Lock
  <2>. QED  BY <1>1, <2>1, <2>2 DEF CountersMatch, Effect, ReaderBlocks, ReaderEnters, ReaderExits, WriterBlocks,
               WriterEnters, WriterExits, Wakes, Moves, LockBecomes, Counters, Share
<1>3. TypeOK'
  <2>1. /\ rw'.readers \in Nat /\ rw'.writers \in Nat
        /\ rw'.waiting_readers \in Nat /\ rw'.waiting_writers \in Nat
    BY <1>2, AtFinite DEF CountersMatch
  <2>2. rw' \in Lock
    BY <1>1, <2>1 DEF IntLock, Lock
  <2>. QED  BY <2>2, PcMoves DEF TypeOK
<1>. QED  BY <1>2, <1>3

LEMMA InitCounters == Init => TypeOK /\ CountersMatch
<1>. SUFFICES ASSUME Init PROVE TypeOK /\ CountersMatch
  OBVIOUS
<1>1. TypeOK
  BY RWLockAssumption DEF Init, TypeOK, NewLock, Lock, Where
<1>2. \A S : "out" \notin S => At(S) = {}
  BY DEF Init, At
<1>3. rw.readers = 0 /\ rw.writers = 0 /\ rw.waiting_readers = 0 /\ rw.waiting_writers = 0
  BY DEF Init, NewLock
<1>4. CountersMatch
  <2>1. /\ At({"reading"}) = {} /\ At({"writing"}) = {}
        /\ At({"r_blocked", "r_woken"}) = {} /\ At({"w_blocked", "w_woken"}) = {}
    BY <1>2
  <2>. QED  BY <2>1, <1>3, FS_EmptySet DEF CountersMatch
<1>. QED  BY <1>1, <1>4

-----------------------------------------------------------------------------
(* Mutual exclusion, and nobody sleeps without somebody to wake it.         *)

LEMMA ExclusionStep ==
  ASSUME TypeOK, CountersMatch, MutualExclusion, NEW CONSTANT t \in Threads, Step(t)
  PROVE  MutualExclusion'
<1>1. rw' \in IntLock /\ Effect(t) /\ Others(t) /\ pc' \in [Threads -> Where]
  BY StepEffect, PcMoves
<1>2. CASE ReaderEnters(t)
  <2>1. At({"writing"}) = {}
    BY <1>2, ZeroMeansNobody DEF ReaderEnters, ReaderWaits
  <2>. QED  BY <1>1, <1>2, <2>1 DEF ReaderEnters, Moves, Others, At, MutualExclusion
<1>3. CASE WriterEnters(t)
  <2>1. At({"writing"}) = {} /\ At({"reading"}) = {}
    BY <1>3, ZeroMeansNobody DEF WriterEnters, WriterWaits
  <2>. QED  BY <1>1, <1>3, <2>1 DEF WriterEnters, Moves, Others, At, MutualExclusion
<1>4. CASE pc'[t] \notin {"reading", "writing"}
  BY <1>1, <1>4 DEF Others, MutualExclusion
<1>. QED
  BY <1>1, <1>2, <1>3, <1>4
     DEF Effect, ReaderBlocks, ReaderExits, WriterBlocks, WriterExits, Wakes, Moves

(* A writer that leaves while readers wait leaves one of them awake. *)
LEMMA WriterExitWakesReader ==
  ASSUME TypeOK, CountersMatch', NEW CONSTANT t \in Threads, WriterExits(t),
         SamePolicy(rw', rw), rw.priority # "WRITERS",
         rw.priority = "N_WAY" => rw.n_way >= 1, rw'.waiting_readers > 0
  PROVE  At({"r_woken"})' # {}
<1>1. PICK R \in ReadersWokenByWriter(rw', At({"r_blocked"})),
           W \in WritersWokenByWriter(rw', At({"w_blocked"})) : pc' = LeaveAndWake(t, R, W)
  BY DEF WriterExits
<1>2. At({"r_blocked", "r_woken"})' # {} /\ pc[t] = "writing"
  BY ZeroMeansNobodyNext DEF WriterExits, Moves
<1>3. R \subseteq At({"r_blocked"}) /\ (At({"r_blocked"}) # {} => R # {})
  <2>1. rw.priority \in {"READERS", "N_WAY"} /\ rw.n_way \in Int
    BY DEF TypeOK, Lock, Priority
  <2>2. CASE rw.priority = "READERS"
    BY <2>2 DEF SamePolicy, ReadersWokenByWriter
  <2>3. CASE rw.priority = "N_WAY"
    <3>1. R \in Signals(At({"r_blocked"}), rw.n_way + 1)
      BY <2>1, <2>3 DEF SamePolicy, ReadersWokenByWriter
    <3>. QED  BY <3>1, <2>1, <2>3, AtFinite, SignalsWake
  <2>. QED  BY <2>1, <2>2, <2>3
<1>4. W \subseteq At({"w_blocked"})
  BY DEF WritersWokenByWriter, Signals
<1>5. CASE R # {}
  BY <1>1, <1>2, <1>3, <1>5 DEF LeaveAndWake, At
<1>6. CASE R = {}
  BY <1>1, <1>2, <1>3, <1>4, <1>6 DEF LeaveAndWake, At
<1>. QED  BY <1>5, <1>6

LEMMA HandoverStep ==
  ASSUME TypeOK, CountersMatch, CountersMatch', Handover,
         NEW CONSTANT t \in Threads, Step(t)
  PROVE  Handover'
<1>1. SamePolicy(rw', rw) /\ Effect(t) /\ Others(t) /\ pc' \in [Threads -> Where]
  BY StepEffect, PcMoves
<1>. SUFFICES ASSUME rw.priority = "N_WAY", rw.n_way >= 1, rw'.writers = 0,
                     rw'.waiting_readers > 0
              PROVE  /\ rw'.served_readers >= 0
                     /\ rw'.served_readers = 0 => At({"r_woken"})' # {}
  BY <1>1 DEF Handover, SamePolicy
<1>2. /\ rw.n_way \in Int /\ rw.served_readers \in Int /\ rw.writers \in Nat
      /\ rw.waiting_readers \in Nat /\ rw.waiting_writers \in Nat
  BY DEF TypeOK, Lock
<1>. USE DEF LockBecomes, Counters
<1>3. CASE ReaderBlocks(t)
  BY <1>1, <1>2, <1>3 DEF ReaderBlocks, ReaderWaits, SamePolicy
<1>4. CASE ReaderEnters(t)
  <2>1. rw.waiting_readers > 0 /\ rw.writers = 0 /\ rw'.served_readers = rw.served_readers + 1
    BY <1>2, <1>4 DEF ReaderEnters, ReaderWaits
  <2>. QED  BY <1>2, <2>1 DEF Handover
<1>5. CASE WriterExits(t)
  BY <1>1, <1>5, WriterExitWakesReader DEF WriterExits
<1>6. CASE WriterEnters(t)
  BY <1>2, <1>6 DEF WriterEnters
<1>7. CASE ReaderExits(t) \/ WriterBlocks(t) \/ Wakes(t)
  <2>1. /\ rw'.served_readers = rw.served_readers
        /\ rw.writers = 0 /\ rw.waiting_readers > 0 /\ pc[t] # "r_woken"
    BY <1>2, <1>7 DEF ReaderExits, WriterBlocks, Wakes, Moves
  <2>2. At({"r_woken"}) \subseteq At({"r_woken"})'
    BY <1>1, <2>1 DEF Others, At
  <2>. QED  BY <2>1, <2>2 DEF Handover
<1>. QED  BY <1>1, <1>3, <1>4, <1>5, <1>6, <1>7 DEF Effect

(* The signals an unlock sends to `write` wake a writer when one sleeps.    *)
LEMMA SignalWakesWriter ==
  ASSUME TypeOK, NEW CONSTANT t \in Threads, NEW R \in SUBSET At({"r_blocked"}),
         NEW W \in Signals(At({"w_blocked"}), 1), pc' = LeaveAndWake(t, R, W),
         pc[t] \in {"reading", "writing"}, At({"w_blocked"})' # {}
  PROVE  At({"w_woken"})' # {}
<1>1. At({"w_blocked"}) # {}
  BY DEF LeaveAndWake, At
<1>2. W \subseteq At({"w_blocked"}) /\ W # {}
  BY <1>1, AtFinite, SignalsWake
<1>. QED  BY <1>2 DEF LeaveAndWake, At

LEMMA NoStrandedWriterStep ==
  ASSUME TypeOK, CountersMatch, CountersMatch', Handover', NoStrandedWriter,
         NEW CONSTANT t \in Threads, Step(t)
  PROVE  NoStrandedWriter'
<1>1. SamePolicy(rw', rw) /\ Effect(t) /\ Others(t) /\ pc' \in [Threads -> Where]
  BY StepEffect, PcMoves
<1>2. /\ rw.n_way \in Int /\ rw.served_readers \in Int /\ rw.priority \in Priority
      /\ rw'.waiting_readers \in Nat /\ rw'.waiting_writers \in Nat /\ rw'.writers \in Nat
      /\ rw'.readers \in Nat
  BY ZeroMeansNobodyNext DEF TypeOK, Lock
<1>. SUFFICES ASSUME rw.priority = "WRITERS" \/ rw.n_way >= 1, At({"w_blocked"})' # {}
              PROVE  \/ At({"reading", "writing", "w_woken"})' # {}
                     \/ /\ At({"r_woken"})' # {} /\ rw'.served_readers < rw.n_way
                        /\ rw.priority # "WRITERS"
  BY <1>1 DEF NoStrandedWriter, SamePolicy
<1>3. CASE ReaderBlocks(t)
  <2>1. /\ rw'.served_readers = rw.served_readers /\ At({"w_blocked"})' = At({"w_blocked"})
        /\ At({"reading", "writing", "w_woken"})' = At({"reading", "writing", "w_woken"})
    BY <1>1, <1>3 DEF ReaderBlocks, Moves, LockBecomes, Counters, At, TypeOK
  <2>2. CASE rw'.writers > 0
    BY <2>2, ZeroMeansNobodyNext DEF At
  <2>3. CASE \/ rw.priority = "WRITERS"
             \/ rw'.served_readers >= rw.n_way
    BY <1>2, <2>1, <2>3 DEF NoStrandedWriter
  <2>. QED  BY <1>1, <1>3, <2>2, <2>3 DEF ReaderBlocks, ReaderWaits, SamePolicy
<1>4. CASE ReaderEnters(t) \/ WriterEnters(t)
  BY <1>4 DEF ReaderEnters, WriterEnters, Moves, At
<1>5. CASE ReaderExits(t)
  <2>1. PICK W \in Signals(At({"w_blocked"}), 1) : pc' = LeaveAndWake(t, {}, W)
    BY <1>5 DEF ReaderExits
  <2>2. At({"w_woken"})' # {}
    BY <1>5, <2>1, SignalWakesWriter DEF ReaderExits, Moves
  <2>. QED  BY <2>2 DEF At
<1>6. CASE WriterBlocks(t)
  <2>1. CASE rw'.writers > 0 \/ rw'.readers > 0
    BY <2>1, ZeroMeansNobodyNext DEF At
  <2>2. CASE /\ rw'.writers = 0 /\ rw.priority = "N_WAY"
             /\ rw'.waiting_readers > 0 /\ rw'.served_readers = 0
    <3>1. At({"r_woken"})' # {}
      BY <1>1, <2>2 DEF Handover, SamePolicy
    <3>. QED  BY <1>2, <2>2, <3>1
  <2>. QED  BY <1>1, <1>2, <1>6, <2>1, <2>2 DEF WriterBlocks, WriterWaits, SamePolicy
<1>7. CASE WriterExits(t)
  <2>1. PICK R \in ReadersWokenByWriter(rw', At({"r_blocked"})),
             W \in WritersWokenByWriter(rw', At({"w_blocked"})) : pc' = LeaveAndWake(t, R, W)
    BY <1>7 DEF WriterExits
  <2>2. R \subseteq At({"r_blocked"})
    BY <1>1, <1>2 DEF ReadersWokenByWriter, Signals, SamePolicy, Priority
  <2>3. CASE W \in Signals(At({"w_blocked"}), 1)
    <3>1. At({"w_woken"})' # {}
      BY <1>7, <2>1, <2>2, <2>3, SignalWakesWriter DEF WriterExits, Moves
    <3>. QED  BY <3>1 DEF At
  <2>4. CASE rw.priority # "WRITERS" /\ rw'.waiting_readers > 0
    <3>1. At({"r_woken"})' # {} /\ rw'.served_readers = 0
      BY <1>1, <1>7, <2>4, WriterExitWakesReader DEF WriterExits, LockBecomes, Counters
    <3>. QED  BY <1>2, <2>4, <3>1
  <2>5. rw'.waiting_writers > 0
    <3>1. At({"w_blocked", "w_woken"})' # {}
      BY DEF At
    <3>. QED  BY <1>2, <3>1, ZeroMeansNobodyNext
  <2>. QED  BY <1>1, <1>2, <2>1, <2>3, <2>4, <2>5 DEF WritersWokenByWriter, SamePolicy
<1>8. CASE Wakes(t)
  <2>1. /\ rw'.served_readers = rw.served_readers /\ At({"w_blocked"})' \subseteq At({"w_blocked"})
        /\ At({"reading", "writing", "w_woken"}) \subseteq At({"reading", "writing", "w_woken"})'
        /\ At({"r_woken"}) \subseteq At({"r_woken"})'
    BY <1>8 DEF Wakes, Moves, LockBecomes, Counters, At
  <2>. QED  BY <2>1 DEF NoStrandedWriter
<1>. QED  BY <1>1, <1>3, <1>4, <1>5, <1>6, <1>7, <1>8 DEF Effect

LEMMA NoStrandedReaderStep ==
  ASSUME TypeOK, CountersMatch, CountersMatch', NoStrandedReader,
         NEW CONSTANT t \in Threads, Step(t)
  PROVE  NoStrandedReader'
<1>1. SamePolicy(rw', rw) /\ Effect(t) /\ Others(t) /\ pc' \in [Threads -> Where]
  BY StepEffect, PcMoves
<1>. DEFINE Writers == {"writing", "w_blocked", "w_woken"}
<1>. SUFFICES ASSUME AllReadersReached, At({"r_blocked"})' # {}
              PROVE  At(Writers)' # {}
  BY <1>1 DEF NoStrandedReader, AllReadersReached, SamePolicy
<1>2. At({"w_blocked", "w_woken"})' # {} \/ At({"writing"})' # {} => At(Writers)' # {}
  BY DEF At
<1>3. CASE ReaderBlocks(t)
  BY <1>2, <1>3, ZeroMeansNobodyNext DEF ReaderBlocks, ReaderWaits
<1>4. CASE WriterBlocks(t) \/ WriterEnters(t)
  BY <1>4 DEF WriterBlocks, WriterEnters, Moves, At
<1>5. CASE ReaderEnters(t) \/ ReaderExits(t) \/ Wakes(t)
  <2>1. pc[t] \notin {"writing"} /\ pc'[t] # "r_blocked" /\ (pc[t] \in Writers => pc'[t] \in Writers)
    BY <1>5 DEF ReaderEnters, ReaderExits, Wakes, Moves
  <2>2. At({"r_blocked"})' \subseteq At({"r_blocked"}) /\ At(Writers) \subseteq At(Writers)'
    BY <1>1, <2>1 DEF Others, At
  <2>. QED  BY <2>2 DEF NoStrandedReader
<1>6. CASE WriterExits(t)
  <2>1. PICK R \in ReadersWokenByWriter(rw', At({"r_blocked"})),
             W \in WritersWokenByWriter(rw', At({"w_blocked"})) : pc' = LeaveAndWake(t, R, W)
    BY <1>6 DEF WriterExits
  <2>2. CASE rw'.waiting_writers # 0
    BY <1>2, <2>2, ZeroMeansNobodyNext
  <2>3. CASE rw'.waiting_writers = 0
    <3>1. R # At({"r_blocked"})
      BY <1>6, <2>1 DEF WriterExits, Moves, LeaveAndWake, At
    <3>2. rw'.waiting_readers > 0
      <4>1. At({"r_blocked", "r_woken"})' # {}
        BY DEF At
      <4>. QED  BY <4>1, ZeroMeansNobodyNext
    <3>3. rw.priority = "N_WAY"
      BY <1>1, <2>3, <3>1, <3>2 DEF ReadersWokenByWriter, SamePolicy, TypeOK, Lock, Priority
    <3>4. Cardinality(At({"r_blocked"})) \in Nat /\ Cardinality(At({"r_blocked"})) <= Cardinality(Threads) - 1
      <4>1. At({"r_blocked"}) \in SUBSET (Threads \ {t})
        BY <1>6 DEF WriterExits, Moves, At
      <4>2. IsFiniteSet(Threads \ {t}) /\ Cardinality(Threads \ {t}) = Cardinality(Threads) - 1
        BY RWLockAssumption, FS_RemoveElement
      <4>. QED  BY <4>1, <4>2, AtFinite, FS_Subset
    <3>5. rw.n_way \in Int /\ Cardinality(Threads) \in Nat /\ Cardinality(Threads) <= rw.n_way + 2
      BY <3>3, RWLockAssumption, FS_CardinalityType DEF AllReadersReached, TypeOK, Lock
    <3>6. PICK k \in Nat : R \in Signals(At({"r_blocked"}), k) /\ k = (IF rw.n_way >= 0 THEN rw.n_way + 1 ELSE 0)
      BY <1>1, <2>1, <3>3, <3>5 DEF ReadersWokenByWriter, SamePolicy
    <3>7. Cardinality(At({"r_blocked"})) <= k
      BY <3>4, <3>5, <3>6
    <3>. QED  BY <3>1, <3>6, <3>7, AtFinite, SignalsWake
  <2>. QED  BY <2>2, <2>3
<1>. QED  BY <1>1, <1>3, <1>4, <1>5, <1>6 DEF Effect

-----------------------------------------------------------------------------

(* The inductive invariant: the type and the counters say what the wait     *)
(* loops read, Handover what writer_unlock leaves to the readers it woke.   *)
IInv == /\ TypeOK /\ CountersMatch /\ MutualExclusion
        /\ Handover /\ NoStrandedWriter /\ NoStrandedReader

LEMMA InitIInv == Init => IInv
<1>. SUFFICES ASSUME Init PROVE IInv
  OBVIOUS
<1>1. \A S : "out" \notin S => At(S) = {}
  BY DEF Init, At
<1>2. rw.waiting_readers = 0
  BY DEF Init, NewLock
<1>. QED
  BY <1>1, <1>2, InitCounters
     DEF IInv, Init, MutualExclusion, Handover, NoStrandedWriter, NoStrandedReader

LEMMA NextIInv == IInv /\ [Next]_vars => IInv'
<1>1. ASSUME IInv, NEW CONSTANT t \in Threads, Step(t) PROVE IInv'
  BY <1>1, CountersStep, ExclusionStep, HandoverStep, NoStrandedWriterStep,
     NoStrandedReaderStep DEF IInv
<1>2. CASE UNCHANGED vars
  BY <1>2 DEF vars, IInv, TypeOK, CountersMatch, MutualExclusion, Handover,
              NoStrandedWriter, NoStrandedReader, AllReadersReached, At
<1>. QED  BY <1>1, <1>2 DEF Next

(* Every reachable state of the lock satisfies the inductive invariant. *)
THEOREM Invariance == Spec => []IInv
BY InitIInv, NextIInv, PTL DEF Spec

(* The struct keeps its type: no counter of the lock becomes negative. *)
THEOREM TypeCorrect == Spec => []TypeOK
BY Invariance, PTL DEF IInv

(* readers, writers and the waiting counts of struct rwlock always agree    *)
(* with the threads.                                                        *)
THEOREM CountersCorrect == Spec => []CountersMatch
BY Invariance, PTL DEF IInv

(* reader_lock and writer_lock exclude each other, whatever the priority,   *)
(* n_way, the number of threads and the garbage in served_readers.          *)
THEOREM Exclusion == Spec => []MutualExclusion
BY Invariance, PTL DEF IInv

(* With n_way >= 1, or WRITERS priority, no writer misses its wake-up. *)
THEOREM WritersAreWoken == Spec => []NoStrandedWriter
BY Invariance, PTL DEF IInv

(* Unless more than n_way + 2 threads share an N_WAY lock, no reader sleeps *)
(* once the last writer has left.                                           *)
THEOREM ReadersAreWoken == Spec => []NoStrandedReader
BY Invariance, PTL DEF IInv

----------------------------------------------------------------------------
(* What the history variables have to do with the counters the code has:    *)
(* served_readers is at most the slack behind the readers that overtook,    *)
(* and it is 0 once a writer that passed waiting readers has left, until a  *)
(* reader gets in.                                                          *)
Batch ==
  /\ overtaken \in Nat /\ passed \in BOOLEAN /\ slack \in Nat
  /\ overtaken <= rw.served_readers + slack
  /\ passed => rw.writers > 0 \/ rw.served_readers = 0

HInv == IInv /\ Batch /\ OvertakeBound

(* How each effect of a step moves the history.                             *)
LEMMA HistoryEffect ==
  ASSUME TypeOK, NEW CONSTANT t \in Threads, Effect(t), HistoryStep, passed \in BOOLEAN
  PROVE  /\ ReaderEnters(t) =>
              /\ overtaken' = IF rw.waiting_writers > 0 THEN overtaken + 1 ELSE overtaken
              /\ passed' = FALSE
         /\ WriterEnters(t) =>
              /\ overtaken' = overtaken
              /\ passed' = (passed \/ rw.waiting_readers > 0)
         /\ WriterExits(t) => overtaken' = 0 /\ passed' = passed /\ slack' = 0
         /\ ReaderBlocks(t) \/ WriterBlocks(t) \/ ReaderExits(t) \/ Wakes(t) =>
              overtaken' = overtaken /\ passed' = passed
         /\ ~WriterExits(t) => slack' = slack
<1>1. /\ rw.readers \in Int /\ rw.writers \in Int
      /\ rw.waiting_readers \in Int /\ rw.waiting_writers \in Int
  BY DEF TypeOK, Lock
<1>. USE DEF LockBecomes, Counters, HistoryStep
<1>2. CASE ReaderEnters(t)
  <2>1. rw'.readers = rw.readers + 1 /\ rw'.writers = rw.writers
        /\ ~WriterEnters(t) /\ ~WriterExits(t) /\ ~ReaderBlocks(t) /\ ~WriterBlocks(t)
        /\ ~ReaderExits(t) /\ ~Wakes(t)
    BY <1>1, <1>2 DEF ReaderEnters, WriterEnters, WriterExits, ReaderBlocks, WriterBlocks,
                      ReaderExits, Wakes, Moves
  <2>2. /\ rw'.readers > rw.readers
        /\ ~(rw'.writers < rw.writers) /\ ~(rw'.writers > rw.writers)
    BY <1>1, <2>1
  <2>3. overtaken' = IF rw.waiting_writers > 0 THEN overtaken + 1 ELSE overtaken
    BY <2>2
  <2>4. passed' = FALSE
    BY <2>2
  <2>5. slack' = slack
    BY <2>2
  <2>. QED  BY <2>1, <2>3, <2>4, <2>5
<1>3. CASE WriterEnters(t)
  <2>1. rw'.writers = rw.writers + 1 /\ rw'.readers = rw.readers
        /\ ~ReaderEnters(t) /\ ~WriterExits(t) /\ ~ReaderBlocks(t) /\ ~WriterBlocks(t)
        /\ ~ReaderExits(t) /\ ~Wakes(t)
    BY <1>1, <1>3 DEF ReaderEnters, WriterEnters, WriterExits, ReaderBlocks, WriterBlocks,
                      ReaderExits, Wakes, Moves
  <2>2. ~(rw'.readers > rw.readers) /\ rw'.writers > rw.writers /\ ~(rw'.writers < rw.writers)
    BY <1>1, <2>1
  <2>3. overtaken' = overtaken
    BY <2>2
  <2>4. passed' = (passed \/ rw.waiting_readers > 0)
    <3>1. CASE rw.waiting_readers > 0
      BY <2>2, <3>1
    <3>2. CASE ~(rw.waiting_readers > 0)
      BY <2>2, <3>2
    <3>. QED  BY <3>1, <3>2
  <2>5. slack' = slack
    BY <2>2
  <2>. QED  BY <2>1, <2>3, <2>4, <2>5
<1>4. CASE WriterExits(t)
  <2>1. rw'.writers = rw.writers - 1 /\ rw'.readers = rw.readers
        /\ ~ReaderEnters(t) /\ ~WriterEnters(t)
    BY <1>1, <1>4 DEF ReaderEnters, WriterEnters, WriterExits, Moves
  <2>2. ~ReaderBlocks(t) /\ ~WriterBlocks(t) /\ ~ReaderExits(t) /\ ~Wakes(t)
    BY <1>4 DEF WriterExits, ReaderBlocks, WriterBlocks, ReaderExits, Wakes, Moves
  <2>3. ~(rw'.readers > rw.readers) /\ ~(rw'.writers > rw.writers) /\ rw'.writers < rw.writers
    BY <1>1, <2>1
  <2>4. overtaken' = 0 /\ slack' = 0
    BY <2>3
  <2>5. passed' = passed
    BY <2>3
  <2>. QED  BY <1>4, <2>1, <2>2, <2>4, <2>5
<1>5. CASE ReaderBlocks(t) \/ WriterBlocks(t) \/ ReaderExits(t) \/ Wakes(t)
  <2>1. /\ rw'.writers = rw.writers /\ rw'.readers \in {rw.readers, rw.readers - 1}
        /\ ~ReaderEnters(t) /\ ~WriterEnters(t) /\ ~WriterExits(t)
    BY <1>1, <1>5 DEF ReaderEnters, WriterEnters, WriterExits, ReaderBlocks, WriterBlocks,
                      ReaderExits, Wakes, Moves
  <2>2. /\ ~(rw'.readers > rw.readers) /\ ~(rw'.writers > rw.writers)
        /\ ~(rw'.writers < rw.writers)
    BY <1>1, <2>1
  <2>3. overtaken' = overtaken
    BY <2>2
  <2>4. passed' = passed /\ slack' = slack
    BY <2>2
  <2>. QED  BY <2>1, <2>3, <2>4
<1>. QED  BY <1>2, <1>3, <1>4, <1>5 DEF Effect

(* Only one effect is the exit of a writer. *)
LEMMA NotAnExit ==
  ASSUME NEW CONSTANT t \in Threads,
         \/ ReaderEnters(t) \/ WriterEnters(t) \/ ReaderBlocks(t)
         \/ WriterBlocks(t) \/ ReaderExits(t) \/ Wakes(t)
  PROVE  ~WriterExits(t)
BY DEF ReaderEnters, WriterEnters, WriterExits, ReaderBlocks, WriterBlocks, ReaderExits,
       Wakes, Moves

----------------------------------------------------------------------------
(* Who wants the lock, and who has it, in the words of the specification.   *)

Doing == [t \in Threads |-> Mode[pc[t]]]

LEMMA SomeMeans ==
  ASSUME IInv
  PROVE  /\ (\E t \in Threads : Doing[t] = "wants_write") <=> rw.waiting_writers > 0
         /\ (\E t \in Threads : Doing[t] = "wants_read") <=> rw.waiting_readers > 0
         /\ (\E t \in Threads : Doing[t] = "writing") <=> rw.writers > 0
         /\ (\E t \in Threads : Doing[t] = "reading") <=> rw.readers > 0
<1>1. \A t \in Threads :
        /\ Doing[t] = "wants_write" <=> pc[t] \in {"w_blocked", "w_woken"}
        /\ Doing[t] = "wants_read" <=> pc[t] \in {"r_blocked", "r_woken"}
        /\ Doing[t] = "writing" <=> pc[t] \in {"writing"}
        /\ Doing[t] = "reading" <=> pc[t] \in {"reading"}
  BY DEF Doing, Mode, IInv, TypeOK, Where
<1>2. \A S : At(S) # {} <=> \E t \in Threads : pc[t] \in S
  BY DEF At
<1>3. /\ rw.readers \in Nat /\ (rw.readers = 0 <=> At({"reading"}) = {})
      /\ rw.writers \in Nat /\ (rw.writers = 0 <=> At({"writing"}) = {})
      /\ rw.waiting_readers \in Nat
      /\ rw.waiting_readers = 0 <=> At({"r_blocked", "r_woken"}) = {}
      /\ rw.waiting_writers \in Nat
      /\ rw.waiting_writers = 0 <=> At({"w_blocked", "w_woken"}) = {}
  BY ZeroMeansNobody DEF IInv
<1>4. /\ rw.readers > 0 <=> At({"reading"}) # {}
      /\ rw.writers > 0 <=> At({"writing"}) # {}
      /\ rw.waiting_readers > 0 <=> At({"r_blocked", "r_woken"}) # {}
      /\ rw.waiting_writers > 0 <=> At({"w_blocked", "w_woken"}) # {}
  BY <1>3
<1>5. (\E t \in Threads : Doing[t] = "wants_write") <=> rw.waiting_writers > 0
  BY <1>1, <1>2, <1>4
<1>6. (\E t \in Threads : Doing[t] = "wants_read") <=> rw.waiting_readers > 0
  BY <1>1, <1>2, <1>4
<1>7. (\E t \in Threads : Doing[t] = "writing") <=> rw.writers > 0
  BY <1>1, <1>2, <1>4
<1>8. (\E t \in Threads : Doing[t] = "reading") <=> rw.readers > 0
  BY <1>1, <1>2, <1>4
<1>. QED  BY <1>5, <1>6, <1>7, <1>8

(* To the callers a step moves one thread only: who is woken still waits.   *)
LEMMA DoingMoves ==
  ASSUME IInv, NEW CONSTANT t \in Threads, Step(t)
  PROVE  Doing' = [Doing EXCEPT ![t] = Mode[pc'[t]]]
<1>1. pc \in [Threads -> Where] /\ pc' \in [Threads -> Where] /\ Others(t)
  BY PcMoves DEF IInv, TypeOK
<1>2. \A u \in Threads \ {t} : Mode[pc'[u]] = Mode[pc[u]]
  BY <1>1 DEF Others, Mode
<1>. QED  BY <1>1, <1>2 DEF Doing

----------------------------------------------------------------------------
(* The invariant of the history *)

LEMMA InitHInv == HInit => HInv
<1>. SUFFICES ASSUME HInit PROVE HInv
  OBVIOUS
<1>1. slack \in Nat /\ 0 <= rw.served_readers + slack
  <2>1. rw.served_readers \in Int
    BY RWLockAssumption DEF HInit, Init, NewLock
  <2>2. CASE rw.served_readers < 0
    BY <2>1, <2>2 DEF HInit
  <2>3. CASE ~(rw.served_readers < 0)
    BY <2>1, <2>3 DEF HInit
  <2>. QED  BY <2>2, <2>3
<1>2. Batch
  <2>1. overtaken = 0 /\ passed = FALSE
    BY DEF HInit
  <2>2. ~passed
    BY <2>1
  <2>3. passed \in BOOLEAN
    BY <2>1
  <2>. QED  BY <1>1, <2>1, <2>2, <2>3 DEF Batch
<1>3. OvertakeBound
  BY DEF HInit, OvertakeBound
<1>. QED  BY <1>2, <1>3, InitIInv DEF HInit, HInv

LEMMA BatchStep ==
  ASSUME HInv, NEW CONSTANT t \in Threads, Step(t), HistoryStep
  PROVE  Batch' /\ OvertakeBound'
<1>1. SamePolicy(rw', rw) /\ Effect(t) /\ TypeOK
  BY StepEffect DEF HInv, IInv
<1>2. /\ overtaken \in Nat /\ passed \in BOOLEAN /\ slack \in Nat
      /\ overtaken <= rw.served_readers + slack
      /\ passed => rw.writers > 0 \/ rw.served_readers = 0
      /\ overtaken > 0 => overtaken <= rw.n_way + slack
  BY DEF HInv, Batch, OvertakeBound
<1>3. /\ rw.n_way \in Int /\ rw.served_readers \in Int /\ rw.writers \in Nat
      /\ rw.waiting_readers \in Nat /\ rw.waiting_writers \in Nat /\ rw'.n_way = rw.n_way
  BY <1>1 DEF TypeOK, Lock, SamePolicy
<1>. USE DEF LockBecomes, Counters
<1>4. CASE ReaderEnters(t)
  <2>1. /\ overtaken' = IF rw.waiting_writers > 0 THEN overtaken + 1 ELSE overtaken
        /\ passed' = FALSE /\ slack' = slack
    BY <1>1, <1>2, <1>4, NotAnExit, HistoryEffect
  <2>2. /\ rw'.served_readers = rw.served_readers + 1
        /\ rw.waiting_writers > 0 => rw.served_readers < rw.n_way
    BY <1>3, <1>4 DEF ReaderEnters, ReaderWaits
  <2>3. ~passed' /\ passed' \in BOOLEAN
    BY <2>1
  <2>4. /\ overtaken' \in Nat /\ overtaken' <= rw'.served_readers + slack'
        /\ overtaken' > 0 => overtaken' <= rw'.n_way + slack'
    <3>1. CASE rw.waiting_writers > 0
      BY <1>2, <1>3, <2>1, <2>2, <3>1
    <3>2. CASE ~(rw.waiting_writers > 0)
      BY <1>2, <1>3, <2>1, <2>2, <3>2
    <3>. QED  BY <3>1, <3>2
  <2>. QED  BY <1>2, <2>1, <2>3, <2>4 DEF Batch, OvertakeBound
<1>5. CASE WriterEnters(t)
  <2>1. overtaken' = overtaken /\ passed' \in BOOLEAN /\ slack' = slack
    BY <1>1, <1>2, <1>5, NotAnExit, HistoryEffect
  <2>2. rw'.served_readers = rw.served_readers /\ rw'.writers = rw.writers + 1
    BY <1>3, <1>5 DEF WriterEnters
  <2>. QED  BY <1>2, <1>3, <2>1, <2>2 DEF Batch, OvertakeBound
<1>6. CASE WriterExits(t)
  <2>1. overtaken' = 0 /\ passed' = passed /\ slack' = 0
    BY <1>1, <1>2, <1>6, HistoryEffect
  <2>2. rw'.served_readers = 0
    BY <1>6 DEF WriterExits
  <2>. QED  BY <1>2, <2>1, <2>2 DEF Batch, OvertakeBound
<1>7. CASE ReaderBlocks(t) \/ WriterBlocks(t) \/ ReaderExits(t) \/ Wakes(t)
  <2>1. overtaken' = overtaken /\ passed' = passed /\ slack' = slack
    BY <1>1, <1>2, <1>7, NotAnExit, HistoryEffect
  <2>2. rw'.served_readers = rw.served_readers /\ rw'.writers = rw.writers
    BY <1>3, <1>7 DEF ReaderBlocks, WriterBlocks, ReaderExits, Wakes
  <2>. QED  BY <1>2, <1>3, <2>1, <2>2 DEF Batch, OvertakeBound
<1>. QED  BY <1>1, <1>4, <1>5, <1>6, <1>7 DEF Effect

LEMMA HNextStep ==
  ASSUME HNext
  PROVE  (\E t \in Threads : Step(t)) /\ HistoryStep /\ [Next]_vars
BY DEF HNext, Next, HistoryStep

LEMMA HInvStep == HInv /\ [HNext]_hvars => HInv'
<1>. SUFFICES ASSUME HInv, [HNext]_hvars PROVE HInv'
  OBVIOUS
<1>1. CASE HNext
  BY <1>1, HNextStep, NextIInv, BatchStep DEF HInv
<1>2. CASE UNCHANGED hvars
  <2>1. IInv'
    BY <1>2, NextIInv DEF hvars, vars, HInv
  <2>. QED  BY <1>2, <2>1 DEF hvars, HInv, Batch, OvertakeBound
<1>. QED  BY <1>1, <1>2

(* The inductive invariant of the lock and its history. *)
THEOREM HistoryInvariance == HSpec => []HInv
BY InitHInv, HInvStep, PTL DEF HSpec

(* Readers overtake a waiting writer at most n_way times between two        *)
(* writers, although the code counts all the readers and not those.  Before *)
(* the first writer has left, whatever rwlock_new found in served_readers,  *)
(* only as often more as that was below 0.                                  *)
THEOREM OvertakingBounded == HSpec => []OvertakeBound
<1>1. HInv => OvertakeBound
  BY DEF HInv
<1>. QED  BY <1>1, HistoryInvariance, PTL

----------------------------------------------------------------------------
(* The refinement *)

LEMMA InitAbstract == HInit => Abstract!Init
<1>. SUFFICES ASSUME HInit PROVE Abstract!Init
  OBVIOUS
<1>1. rw.priority \in Priority /\ rw.n_way \in Int
  BY RWLockAssumption DEF HInit, Init, NewLock
<1>2. [t \in Threads |-> Mode[pc[t]]] = [t \in Threads |-> "idle"]
  BY DEF HInit, Init, Mode
<1>3. slack \in Nat
  BY InitHInv DEF HInv, Batch
<1>. QED  BY <1>1, <1>2, <1>3 DEF HInit, Abstract!Init, Priority

LEMMA StepAbstract ==
  ASSUME HInv, NEW CONSTANT t \in Threads, Step(t), HistoryStep
  PROVE  Abstract!Next \/ UNCHANGED Abstract!vars
<1>1. SamePolicy(rw', rw) /\ Effect(t) /\ TypeOK /\ IInv
  BY StepEffect DEF HInv, IInv
<1>2. /\ Abstract!Some("wants_write") <=> rw.waiting_writers > 0
      /\ Abstract!Some("wants_read") <=> rw.waiting_readers > 0
      /\ Abstract!Some("writing") <=> rw.writers > 0
      /\ Abstract!Some("reading") <=> rw.readers > 0
  BY <1>1, SomeMeans DEF Abstract!Some, Doing
<1>3. [u \in Threads |-> Mode[pc[u]]]' = [[u \in Threads |-> Mode[pc[u]]] EXCEPT ![t] = Mode[pc'[t]]]
  BY <1>1, DoingMoves DEF Doing
<1>4. [u \in Threads |-> Mode[pc[u]]][t] = Mode[pc[t]]
  OBVIOUS
<1>5. [priority |-> rw.priority, n_way |-> rw.n_way]' = [priority |-> rw.priority, n_way |-> rw.n_way]
  BY <1>1 DEF SamePolicy
<1>6. /\ overtaken \in Nat /\ passed \in BOOLEAN /\ slack \in Nat
      /\ overtaken <= rw.served_readers + slack
      /\ passed => rw.writers > 0 \/ rw.served_readers = 0
  BY DEF HInv, Batch
<1>7. /\ rw.n_way \in Int /\ rw.served_readers \in Int /\ rw.writers \in Nat
      /\ rw.readers \in Nat /\ rw.waiting_readers \in Nat /\ rw.waiting_writers \in Nat
  BY <1>1 DEF TypeOK, Lock
<1>8. CASE ReaderEnters(t)
  <2>1. pc[t] \in {"out", "r_woken"} /\ pc'[t] = "reading" /\ ~ReaderWaits(rw)
    BY <1>8 DEF ReaderEnters, Moves
  <2>2. /\ overtaken' = IF rw.waiting_writers > 0 THEN overtaken + 1 ELSE overtaken
        /\ passed' = FALSE /\ slack' = slack
    BY <1>1, <1>6, <1>8, NotAnExit, HistoryEffect
  <2>3. Mode[pc[t]] \in {"idle", "wants_read"} /\ Mode[pc'[t]] = "reading"
    BY <2>1 DEF Mode
  <2>4. /\ ~(rw.writers > 0)
        /\ rw.waiting_writers > 0 => rw.priority # "WRITERS" /\ overtaken < rw.n_way + slack
    BY <1>6, <1>7, <2>1 DEF ReaderWaits
  <2>5. Abstract!GrantRead(t)
    BY <1>2, <1>3, <1>4, <1>5, <2>2, <2>3, <2>4 DEF Abstract!GrantRead
  <2>. QED  BY <2>5 DEF Abstract!Next
<1>9. CASE WriterEnters(t)
  <2>1. pc[t] \in {"out", "w_woken"} /\ pc'[t] = "writing" /\ ~WriterWaits(rw)
    BY <1>9 DEF WriterEnters, Moves
  <2>2. /\ overtaken' = overtaken /\ passed' = (passed \/ rw.waiting_readers > 0)
        /\ slack' = slack
    BY <1>1, <1>6, <1>9, NotAnExit, HistoryEffect
  <2>3. Mode[pc[t]] \in {"idle", "wants_write"} /\ Mode[pc'[t]] = "writing"
    BY <2>1 DEF Mode
  <2>4. /\ ~(rw.writers > 0) /\ ~(rw.readers > 0)
        /\ rw.waiting_readers > 0 /\ rw.priority = "N_WAY" => ~passed
    BY <1>6, <1>7, <2>1 DEF WriterWaits
  <2>5. Abstract!GrantWrite(t)
    BY <1>2, <1>3, <1>4, <1>5, <2>2, <2>3, <2>4 DEF Abstract!GrantWrite
  <2>. QED  BY <2>5 DEF Abstract!Next
<1>10. CASE ReaderExits(t) \/ WriterExits(t)
  <2>1. /\ pc'[t] = "out" /\ passed' = passed
        /\ \/ pc[t] = "reading" /\ overtaken' = overtaken /\ slack' = slack
           \/ pc[t] = "writing" /\ overtaken' = 0 /\ slack' = 0
    <3>1. CASE ReaderExits(t)
      BY <1>1, <1>6, <3>1, NotAnExit, HistoryEffect DEF ReaderExits, Moves
    <3>2. CASE WriterExits(t)
      BY <1>1, <1>6, <3>2, HistoryEffect DEF WriterExits, Moves
    <3>. QED  BY <1>10, <3>1, <3>2
  <2>2. /\ Mode[pc'[t]] = "idle" /\ passed' = passed
        /\ \/ Mode[pc[t]] = "reading" /\ overtaken' = overtaken /\ slack' = slack
           \/ Mode[pc[t]] = "writing" /\ overtaken' = 0 /\ slack' = 0
    BY <2>1 DEF Mode
  <2>3. Abstract!Release(t)
    BY <1>3, <1>4, <1>5, <2>2 DEF Abstract!Release
  <2>. QED  BY <2>3 DEF Abstract!Next
<1>11. CASE ReaderBlocks(t) \/ WriterBlocks(t) \/ Wakes(t)
  <2>1. overtaken' = overtaken /\ passed' = passed /\ slack' = slack
    BY <1>1, <1>6, <1>11, NotAnExit, HistoryEffect
  <2>2. CASE pc[t] = "out"
    <3>1. Mode[pc[t]] = "idle" /\ Mode[pc'[t]] \in {"wants_read", "wants_write"}
      BY <1>11, <2>2 DEF ReaderBlocks, WriterBlocks, Wakes, Moves, Mode
    <3>2. \E m \in {"wants_read", "wants_write"} : Abstract!Wait(t, m)
      BY <1>3, <1>4, <1>5, <2>1, <3>1 DEF Abstract!Wait
    <3>. QED  BY <3>2 DEF Abstract!Next
  <2>3. CASE pc[t] # "out"
    <3>1. Mode[pc'[t]] = Mode[pc[t]]
      BY <1>11, <2>3 DEF ReaderBlocks, WriterBlocks, Wakes, Moves, Mode
    <3>2. [u \in Threads |-> Mode[pc[u]]]' = [u \in Threads |-> Mode[pc[u]]]
      BY <1>3, <1>4, <3>1
    <3>. QED  BY <1>5, <2>1, <3>2 DEF Abstract!vars
  <2>. QED  BY <2>2, <2>3
<1>. QED  BY <1>1, <1>8, <1>9, <1>10, <1>11 DEF Effect

(* Each section of rwlock.c is a request, a grant or a release its header   *)
(* allows, or nothing to the callers: a signal lost or a batch too long     *)
(* would be a step the promise does not have.                               *)
THEOREM Refinement == HSpec => ImplementsRWLock
<1>1. HInv /\ [HNext]_hvars => [Abstract!Next]_(Abstract!vars)
  <2>. SUFFICES ASSUME HInv, [HNext]_hvars PROVE [Abstract!Next]_(Abstract!vars)
    OBVIOUS
  <2>1. CASE HNext
    BY <2>1, HNextStep, StepAbstract
  <2>2. CASE UNCHANGED hvars
    BY <2>2 DEF hvars, Abstract!vars
  <2>. QED  BY <2>1, <2>2
<1>. QED  BY <1>1, InitAbstract, HistoryInvariance, PTL DEF HSpec, ImplementsRWLock, Abstract!Spec
=============================================================================
