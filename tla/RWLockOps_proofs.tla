---------------------------- MODULE RWLockOps_proofs ----------------------------
(***************************************************************************)
(* Lemmas about the functions of the lock: their types, their effect on    *)
(* each field, and whom the signals wake.  The proofs about one lock       *)
(* (RWLock_proofs) and about the locks of the server (HttpServer_proofs)   *)
(* rest on them.                                                           *)
(***************************************************************************)
EXTENDS RWLockOps, FiniteSetTheorems, TLAPS

(* 1 when the thread is at one of the places of S: the share of one thread  *)
(* in a counter.                                                            *)
Share(place, S) == IF place \in S THEN 1 ELSE 0

(* Signals picks sleepers, at least one when there is one and k >= 1, and   *)
(* all of them when k is enough.                                            *)
LEMMA SignalsWake ==
  ASSUME NEW blocked, IsFiniteSet(blocked), NEW k \in Nat, NEW W \in Signals(blocked, k)
  PROVE  /\ W \subseteq blocked
         /\ k >= 1 /\ blocked # {} => W # {}
         /\ Cardinality(blocked) <= k => W = blocked
<1>1. W \subseteq blocked
  BY DEF Signals
<1>2. /\ IsFiniteSet(W) /\ Cardinality(W) \in Nat /\ Cardinality(blocked) \in Nat
      /\ Cardinality(W) <= Cardinality(blocked)
      /\ Cardinality(W) = Cardinality(blocked) => W = blocked
  BY <1>1, FS_Subset, FS_CardinalityType
<1>3. ASSUME k >= 1, blocked # {} PROVE W # {}
  BY <1>2, <1>3, FS_EmptySet DEF Signals
<1>4. ASSUME Cardinality(blocked) <= k PROVE W = blocked
  BY <1>2, <1>4 DEF Signals
<1>. QED  BY <1>1, <1>3, <1>4

(* A lock whose counters are integers, before they are known to be natural. *)
IntLock == [priority : Priority, n_way : Int, readers : Int, writers : Int,
            waiting_readers : Int, waiting_writers : Int, served_readers : Int]

LEMMA SetCounter ==
  ASSUME NEW l \in IntLock, NEW i \in Int
  PROVE  /\ [l EXCEPT !.readers = i] \in IntLock
         /\ [l EXCEPT !.writers = i] \in IntLock
         /\ [l EXCEPT !.waiting_readers = i] \in IntLock
         /\ [l EXCEPT !.waiting_writers = i] \in IntLock
         /\ [l EXCEPT !.served_readers = i] \in IntLock
BY DEF IntLock

(* The functions of the lock return locks with integer counters. *)
LEMMA OpsType ==
  ASSUME NEW l \in IntLock
  PROVE  /\ ReaderArrives(l) \in IntLock /\ WriterArrives(l) \in IntLock
         /\ AdmitReader(l) \in IntLock /\ AdmitWriter(l) \in IntLock
         /\ ReaderLeaves(l) \in IntLock /\ WriterLeaves(l) \in IntLock
<1>1. /\ l.readers + 1 \in Int /\ l.readers - 1 \in Int /\ 0 \in Int
      /\ l.writers + 1 \in Int /\ l.writers - 1 \in Int /\ l.served_readers + 1 \in Int
      /\ l.waiting_readers + 1 \in Int /\ l.waiting_readers - 1 \in Int
      /\ l.waiting_writers + 1 \in Int /\ l.waiting_writers - 1 \in Int
  BY DEF IntLock
<1>2. ReaderArrives(l) \in IntLock /\ WriterArrives(l) \in IntLock
  BY <1>1, SetCounter DEF ReaderArrives, WriterArrives
<1>3. AdmitReader(l) \in IntLock
  BY <1>1, SetCounter DEF AdmitReader
<1>4. AdmitWriter(l) \in IntLock
  BY <1>1, SetCounter DEF AdmitWriter
<1>5. ReaderLeaves(l) \in IntLock /\ WriterLeaves(l) \in IntLock
  BY <1>1, SetCounter DEF ReaderLeaves, WriterLeaves
<1>. QED  BY <1>2, <1>3, <1>4, <1>5

(* Two locks that differ, if at all, in their counters. *)
SamePolicy(m, l) == m.priority = l.priority /\ m.n_way = l.n_way

Counters(m, readers, writers, waiting_readers, waiting_writers, served_readers) ==
  /\ m.readers = readers /\ m.writers = writers
  /\ m.waiting_readers = waiting_readers /\ m.waiting_writers = waiting_writers
  /\ m.served_readers = served_readers

(* The effect of each function on each field. *)
LEMMA OpsEffect ==
  ASSUME NEW l \in IntLock
  PROVE  /\ SamePolicy(ReaderArrives(l), l) /\ SamePolicy(WriterArrives(l), l)
         /\ SamePolicy(AdmitReader(l), l) /\ SamePolicy(AdmitWriter(l), l)
         /\ SamePolicy(ReaderLeaves(l), l) /\ SamePolicy(WriterLeaves(l), l)
         /\ Counters(ReaderArrives(l), l.readers, l.writers, l.waiting_readers + 1,
                     l.waiting_writers, l.served_readers)
         /\ Counters(WriterArrives(l), l.readers, l.writers, l.waiting_readers,
                     l.waiting_writers + 1, l.served_readers)
         /\ Counters(AdmitReader(l), l.readers + 1, l.writers, l.waiting_readers - 1,
                     l.waiting_writers, l.served_readers + 1)
         /\ Counters(AdmitWriter(l), l.readers, l.writers + 1, l.waiting_readers,
                     l.waiting_writers - 1, l.served_readers)
         /\ Counters(ReaderLeaves(l), l.readers - 1, l.writers, l.waiting_readers,
                     l.waiting_writers, l.served_readers)
         /\ Counters(WriterLeaves(l), l.readers, l.writers - 1, l.waiting_readers,
                     l.waiting_writers, 0)
<1>. USE DEF IntLock, SamePolicy, Counters
<1>1. /\ SamePolicy(ReaderArrives(l), l)
      /\ Counters(ReaderArrives(l), l.readers, l.writers, l.waiting_readers + 1,
                  l.waiting_writers, l.served_readers)
  BY DEF ReaderArrives
<1>2. /\ SamePolicy(WriterArrives(l), l)
      /\ Counters(WriterArrives(l), l.readers, l.writers, l.waiting_readers,
                  l.waiting_writers + 1, l.served_readers)
  BY DEF WriterArrives
<1>3. /\ SamePolicy(AdmitReader(l), l)
      /\ Counters(AdmitReader(l), l.readers + 1, l.writers, l.waiting_readers - 1,
                  l.waiting_writers, l.served_readers + 1)
  BY DEF AdmitReader
<1>4. /\ SamePolicy(AdmitWriter(l), l)
      /\ Counters(AdmitWriter(l), l.readers, l.writers + 1, l.waiting_readers,
                  l.waiting_writers - 1, l.served_readers)
  BY DEF AdmitWriter
<1>5. /\ SamePolicy(ReaderLeaves(l), l)
      /\ Counters(ReaderLeaves(l), l.readers - 1, l.writers, l.waiting_readers,
                  l.waiting_writers, l.served_readers)
  BY DEF ReaderLeaves
<1>6. /\ SamePolicy(WriterLeaves(l), l)
      /\ Counters(WriterLeaves(l), l.readers, l.writers - 1, l.waiting_readers,
                  l.waiting_writers, 0)
  BY DEF WriterLeaves
<1>. QED  BY <1>1, <1>2, <1>3, <1>4, <1>5, <1>6
=============================================================================
