-------------------------------- MODULE RWLock --------------------------------
(***************************************************************************)
(* Threads that use one lock of cse130mrlynch/rwlockthreads/rwlock.c.      *)
(* A step is one section executed under the lock's mutex.  A thread that   *)
(* calls pthread_cond_wait is "blocked" until a signal makes it "woken";   *)
(* woken, it must get the mutex again and repeat the test of its loop, and *)
(* any other thread may take the mutex first.                              *)
(***************************************************************************)
EXTENDS RWLockOps

CONSTANTS Threads,     \* the threads, each free to read or write
          Priorities,  \* the priorities the lock may be created with
          NWays,       \* the values of n_way it may be created with
          InitServed,  \* what malloc may leave in served_readers
          MaxServed,   \* bound: no reader arrives once so many are counted
          Spurious     \* TRUE: pthread_cond_wait may return unsignalled

ASSUME RWLockAssumption ==
  /\ IsFiniteSet(Threads)
  /\ Priorities \subseteq Priority
  /\ NWays \subseteq Int
  /\ InitServed \subseteq Int
  /\ MaxServed \in Int
  /\ Spurious \in BOOLEAN

VARIABLES rw,  \* the fields of struct rwlock
          pc   \* where each thread is

vars == <<rw, pc>>

Where == {"out", "r_blocked", "r_woken", "reading", "w_blocked", "w_woken", "writing"}

At(S) == {t \in Threads : pc[t] \in S}

Init == /\ \E p \in Priorities, n \in NWays, g \in InitServed : rw = NewLock(p, n, g)
        /\ pc = [t \in Threads |-> "out"]

(* One test of the loop of reader_lock, on the lock l. *)
ReaderTry(t, l) ==
  \/ ReaderWaits(l) /\ rw' = l /\ pc' = [pc EXCEPT ![t] = "r_blocked"]
  \/ ~ReaderWaits(l) /\ rw' = AdmitReader(l) /\ pc' = [pc EXCEPT ![t] = "reading"]

WriterTry(t, l) ==
  \/ WriterWaits(l) /\ rw' = l /\ pc' = [pc EXCEPT ![t] = "w_blocked"]
  \/ ~WriterWaits(l) /\ rw' = AdmitWriter(l) /\ pc' = [pc EXCEPT ![t] = "writing"]

ReaderLock(t) ==
  /\ pc[t] = "out"
  /\ rw.served_readers + rw.waiting_readers < MaxServed
  /\ ReaderTry(t, ReaderArrives(rw))

ReaderRetryNoTest(t) ==
  /\ pc[t] = "r_woken"
  /\ rw' = AdmitReader(rw)
  /\ pc' = [pc EXCEPT ![t] = "reading"]

ReaderRetry(t) == pc[t] = "r_woken" /\ ReaderTry(t, rw)

WriterLock(t) == pc[t] = "out" /\ WriterTry(t, WriterArrives(rw))

WriterRetry(t) == pc[t] = "w_woken" /\ WriterTry(t, rw)

(* pc after thread t leaves the lock and the threads of R and W wake. *)
LeaveAndWake(t, R, W) ==
  [u \in Threads |-> IF u = t THEN "out"
                     ELSE IF u \in R THEN "r_woken"
                     ELSE IF u \in W THEN "w_woken"
                     ELSE pc[u]]

ReaderUnlock(t) ==
  /\ pc[t] = "reading"
  /\ rw' = ReaderLeaves(rw)
  /\ \E W \in WritersWokenByReader(At({"w_blocked"})) : pc' = LeaveAndWake(t, {}, W)

WriterUnlock(t) ==
  /\ pc[t] = "writing"
  /\ rw' = WriterLeaves(rw)
  /\ \E R \in ReadersWokenByWriter(rw', At({"r_blocked"})),
        W \in WritersWokenByWriter(rw', At({"w_blocked"})) :
       pc' = LeaveAndWake(t, R, W)

SpuriousWakeup(t) ==
  /\ Spurious
  /\ \/ pc[t] = "r_blocked" /\ pc' = [pc EXCEPT ![t] = "r_woken"]
     \/ pc[t] = "w_blocked" /\ pc' = [pc EXCEPT ![t] = "w_woken"]
  /\ UNCHANGED rw

Step(t) == \/ ReaderLock(t) \/ ReaderRetry(t) \/ ReaderUnlock(t)
           \/ WriterLock(t) \/ WriterRetry(t) \/ WriterUnlock(t)
           \/ SpuriousWakeup(t)

Next == \E t \in Threads : Step(t)

(* A woken thread gets the mutex in the end and a holder releases the lock. *)
(* Nobody is obliged to call reader_lock or writer_lock.                    *)
Fairness == \A t \in Threads :
  /\ WF_vars(ReaderRetry(t)) /\ WF_vars(WriterRetry(t))
  /\ WF_vars(ReaderUnlock(t)) /\ WF_vars(WriterUnlock(t))

Spec == Init /\ [][Next]_vars

FairSpec == Spec /\ Fairness

----------------------------------------------------------------------------
(* The lock has the type of the struct; each thread is somewhere. *)
TypeOK == rw \in Lock /\ pc \in [Threads -> Where]

(* The four counters the two wait loops test agree with where the threads   *)
(* are: no path through the lock forgets, or repeats, an update.            *)
CountersMatch ==
  /\ rw.readers = Cardinality(At({"reading"}))
  /\ rw.writers = Cardinality(At({"writing"}))
  /\ rw.waiting_readers = Cardinality(At({"r_blocked", "r_woken"}))
  /\ rw.waiting_writers = Cardinality(At({"w_blocked", "w_woken"}))

(* A writer holds the lock alone, whatever the priority, n_way and the      *)
(* garbage in served_readers (rwlock.h: reader_lock, writer_lock).          *)
MutualExclusion ==
  \A t, u \in Threads : pc[t] = "writing" /\ pc[u] \in {"reading", "writing"} => t = u

(* A writer asleep on `write` has somebody who will wake it or is already   *)
(* awake: a holder, a woken writer, or a woken reader that its loop will    *)
(* admit.  So no signal to `write` is lost.  (n_way = 0 is excluded: with   *)
(* READERS or N_WAY it really loses them.)                                  *)
NoStrandedWriter ==
  /\ rw.priority = "WRITERS" \/ rw.n_way >= 1
  /\ At({"w_blocked"}) # {}
  => \/ At({"reading", "writing", "w_woken"}) # {}
     \/ At({"r_woken"}) # {} /\ rw.served_readers < rw.n_way /\ rw.priority # "WRITERS"

(* The wake-ups of writer_unlock reach every sleeping reader. *)
AllReadersReached ==
  rw.priority = "N_WAY" => Cardinality(Threads) <= rw.n_way + 2

(* A reader asleep on `read` waits for a writer that holds or wants the     *)
(* lock: when the last writer leaves, nobody sleeps on.  It needs, for      *)
(* N_WAY, that n_way + 1 signals reach all the other threads.               *)
NoStrandedReader ==
  AllReadersReached /\ At({"r_blocked"}) # {}
    => At({"writing", "w_blocked", "w_woken"}) # {}

(* What makes NoStrandedWriter inductive, for N_WAY: readers that a waiting *)
(* writer yields to are awake, and readers do not queue up before the       *)
(* first writer while served_readers is still negative.                     *)
Handover ==
  rw.priority = "N_WAY" /\ rw.n_way >= 1 /\ rw.writers = 0 /\ rw.waiting_readers > 0
    => rw.served_readers >= 0 /\ (rw.served_readers = 0 => At({"r_woken"}) # {})

(* The same without the bound on the threads: what reader_lock promises     *)
(* ("acquire rw for reading") and N_WAY breaks with n_way + 3 threads.      *)
ReaderNeverStranded ==
  At({"r_blocked"}) # {} => At({"writing", "w_blocked", "w_woken"}) # {}

(* Whenever a writer waits, some writer gets the lock. *)
WriterProgress ==
  (At({"w_blocked", "w_woken"}) # {} /\ (rw.priority = "WRITERS" \/ rw.n_way >= 1))
    ~> (At({"writing"}) # {})

(* Under N_WAY, whenever a reader waits, some reader gets the lock. *)
ReaderProgress ==
  (/\ At({"r_blocked", "r_woken"}) # {}
   /\ rw.priority = "N_WAY" /\ rw.n_way >= 1 /\ AllReadersReached)
    ~> (At({"reading"}) # {})
=============================================================================
