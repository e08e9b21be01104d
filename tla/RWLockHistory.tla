----------------------------- MODULE RWLockHistory -----------------------------
(***************************************************************************)
(* RWLock with three history variables, and the refinement of RWLockSpec.  *)
(***************************************************************************)
EXTENDS RWLock

VARIABLES overtaken,  \* readers admitted over a waiting writer since a writer left
          passed,     \* whether a writer passed a waiting reader since a reader got in
          slack       \* how far below 0 malloc left served_readers; 0 once a writer left

hvars == <<rw, pc, overtaken, passed, slack>>

HInit == /\ Init
         /\ overtaken = 0
         /\ passed = FALSE
         /\ slack = IF rw.served_readers < 0 THEN -rw.served_readers ELSE 0

HistoryStep ==
  /\ overtaken' = CASE rw'.writers < rw.writers -> 0
                    [] rw'.readers > rw.readers /\ rw.waiting_writers > 0 -> overtaken + 1
                    [] OTHER -> overtaken
  /\ passed' = CASE rw'.readers > rw.readers -> FALSE
                 [] rw'.writers > rw.writers /\ rw.waiting_readers > 0 -> TRUE
                 [] OTHER -> passed
  /\ slack' = IF rw'.writers < rw.writers THEN 0 ELSE slack

HNext == Next /\ HistoryStep

HSpec == HInit /\ [][HNext]_hvars

HFairSpec == HSpec /\ Fairness

Mode == [out |-> "idle",
         r_blocked |-> "wants_read", r_woken |-> "wants_read", reading |-> "reading",
         w_blocked |-> "wants_write", w_woken |-> "wants_write", writing |-> "writing"]

Abstract == INSTANCE RWLockSpec WITH
              mode <- [t \in Threads |-> Mode[pc[t]]],
              policy <- [priority |-> rw.priority, n_way |-> rw.n_way]

(* Every lock call of rwlock.c takes a step its header allows: the readers  *)
(* of a batch, and the writers in a row, are bounded, although the code     *)
(* counts neither (served_readers counts all the readers since a writer     *)
(* left, on top of what rwlock_new found in the memory).                    *)
ImplementsRWLock == Abstract!Spec

(* At most n_way readers overtake a waiting writer between two writers.     *)
(* Only until the first writer leaves, and only from a served_readers that  *)
(* rwlock_new found negative, it may be more: by that much and no more.     *)
OvertakeBound == overtaken > 0 => overtaken <= rw.n_way + slack
=============================================================================
