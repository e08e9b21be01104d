------------------------------- MODULE RWLockOps -------------------------------
(***************************************************************************)
(* The reader/writer lock of cse130mrlynch/rwlockthreads/rwlock.c as       *)
(* operators on the fields of its struct.  Every function of rwlock.c runs *)
(* under the lock's mutex, from pthread_mutex_lock to the unlock or to the *)
(* wait that releases it, so each section is a function from lock to lock. *)
(***************************************************************************)
EXTENDS Integers, FiniteSets

Priority == {"READERS", "WRITERS", "N_WAY"}

Lock == [priority : Priority, n_way : Int, readers : Nat, writers : Nat,
         waiting_readers : Nat, waiting_writers : Nat, served_readers : Int]

(* rwlock_new assigns every field but served_readers: malloc leaves some    *)
(* integer there, the parameter `garbage`.                                  *)
NewLock(p, n, garbage) ==
  [priority |-> p, n_way |-> n, readers |-> 0, writers |-> 0,
   waiting_readers |-> 0, waiting_writers |-> 0, served_readers |-> garbage]

----------------------------------------------------------------------------
(* Each definition is preceded by the faulty forms of it, if any, that show *)
(* which property of the lock depends on it; they are not part of the lock. *)
(* The conditions of the two wait loops.  The third disjunct of a reader's  *)
(* does not look at the priority: it bounds the readers of every policy.    *)

ReaderWaitsNoBatch(l) ==
  \/ l.writers > 0
  \/ l.priority = "WRITERS" /\ l.waiting_writers > 0

ReaderWaits(l) ==
  \/ l.writers > 0
  \/ l.priority = "WRITERS" /\ l.waiting_writers > 0
  \/ l.waiting_writers > 0 /\ l.served_readers >= l.n_way

WriterWaitsNoYield(l) == l.writers > 0 \/ l.readers > 0

WriterWaits(l) ==
  \/ l.writers > 0
  \/ l.readers > 0
  \/ l.priority = "N_WAY" /\ l.waiting_readers > 0 /\ l.served_readers = 0

ReaderArrives(l) == [l EXCEPT !.waiting_readers = @ + 1]
WriterArrives(l) == [l EXCEPT !.waiting_writers = @ + 1]

AdmitReaderStillWaiting(l) ==
  [l EXCEPT !.served_readers = @ + 1, !.readers = @ + 1]

AdmitReader(l) == [l EXCEPT !.served_readers = @ + 1,
                            !.waiting_readers = @ - 1,
                            !.readers = @ + 1]

AdmitWriter(l) == [l EXCEPT !.waiting_writers = @ - 1, !.writers = @ + 1]

ReaderLeaves(l) == [l EXCEPT !.readers = @ - 1]

WriterLeavesAsReader(l) == [l EXCEPT !.readers = @ - 1, !.served_readers = 0]

WriterLeavesNoReset(l) == [l EXCEPT !.writers = @ - 1]

WriterLeaves(l) == [l EXCEPT !.writers = @ - 1, !.served_readers = 0]

----------------------------------------------------------------------------
(* What the unlocks wake, out of the set `blocked` of the threads asleep on *)
(* the condition variable.  k signals wake k of them, any k, or all of them *)
(* when fewer sleep; a broadcast wakes all; a signal to nobody is lost.     *)

Signals(blocked, k) ==
  {W \in SUBSET blocked : Cardinality(W) = k \/ (Cardinality(W) < k /\ W = blocked)}

NoSignals(blocked) == {{}}

(* The three branches of reader_unlock all signal `write` once. *)
WritersWokenByReader(blocked) == Signals(blocked, 1)

(* writer_unlock, whose lock l is the one WriterLeaves returned.  The loop  *)
(* with i from 0 while i <= n_way signals n_way + 1 times (never when n_way *)
(* is negative, a uint32_t beyond INT_MAX).                                 *)
ReadersWokenByWriterFewer(l, blocked) ==
  CASE l.priority = "N_WAY"   -> Signals(blocked, l.n_way)
    [] l.priority = "READERS" -> {blocked}
    [] l.priority = "WRITERS" -> {IF l.waiting_writers > 0 THEN {} ELSE blocked}

ReadersWokenByWriter(l, blocked) ==
  CASE l.priority = "N_WAY"   -> Signals(blocked, IF l.n_way >= 0 THEN l.n_way + 1 ELSE 0)
    [] l.priority = "READERS" -> {IF l.waiting_readers > 0 THEN blocked ELSE {}}
    [] l.priority = "WRITERS" -> {IF l.waiting_writers > 0 THEN {} ELSE blocked}

WritersNotWoken(l, blocked) == {{}}

WritersWokenByWriter(l, blocked) ==
  IF \/ l.priority = "WRITERS" /\ l.waiting_writers > 0
     \/ l.priority # "WRITERS" /\ l.waiting_readers = 0
  THEN Signals(blocked, 1)
  ELSE {{}}
=============================================================================
