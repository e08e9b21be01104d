----------------------------- MODULE BoundedQueue -----------------------------
(***************************************************************************)
(* queue.c of cse130mrlynch/rwlockthreads: a ring buffer, a binary         *)
(* semaphore and two counting semaphores.  Every sem_wait, every sem_post  *)
(* and the two halves of each critical section are steps of their own, so  *)
(* the threads interleave everywhere the code lets them.                   *)
(***************************************************************************)
EXTENDS Integers, FiniteSets

CONSTANTS Producers,  \* the threads that call queue_push
          Consumers,  \* the threads that call queue_pop, over and over
          Elems,      \* what is pushed (the connections of the server)
          Capacity,   \* the argument of queue_new
          Null        \* the NULL calloc leaves in a slot

ASSUME QueueAssumption ==
  /\ IsFiniteSet(Producers) /\ IsFiniteSet(Consumers)
  /\ Producers \cap Consumers = {}
  /\ Capacity \in Nat \ {0}
  /\ Null \notin Elems

VARIABLES queue, size, front, rear,  \* the fields of struct queue
          mutex, filled, empty,      \* its semaphores
          pc,                        \* where each thread is
          elem,                      \* the elem argument of each thread
          last                       \* history: the element of the last pop

fields == <<queue, size, front, rear>>
vars == <<fields, mutex, filled, empty, pc, elem, last>>

Threads == Producers \cup Consumers
Slots == 0 .. Capacity - 1

Init == /\ queue = [i \in Slots |-> Null]
        /\ size = 0 /\ front = 0 /\ rear = -1
        /\ mutex = 1 /\ filled = 0 /\ empty = Capacity
        /\ pc = [t \in Threads |-> "idle"]
        /\ elem = [t \in Threads |-> Null]
        /\ last = Null

Goto(t, from, to) == pc[t] = from /\ pc' = [pc EXCEPT ![t] = to]

(* sem_wait(&q->mutex) and sem_post(&q->mutex) *)
LockWithoutWaiting(t, from, to) ==
  /\ Goto(t, from, to)
  /\ UNCHANGED <<fields, mutex, filled, empty, elem, last>>

Lock(t, from, to) ==
  /\ Goto(t, from, to)
  /\ mutex > 0
  /\ mutex' = mutex - 1
  /\ UNCHANGED <<fields, filled, empty, elem, last>>

Unlock(t, from, to) ==
  /\ Goto(t, from, to)
  /\ mutex' = mutex + 1
  /\ UNCHANGED <<fields, filled, empty, elem, last>>

Goes(t, from, to) == Goto(t, from, to) /\ UNCHANGED <<mutex, last>>

(* queue_push: wait(empty), wait(mutex), advance rear, store, post(mutex),  *)
(* post(filled).                                                            *)
PushReserveUnchecked(p) ==
  /\ Goes(p, "idle", "p_reserved")
  /\ \E e \in Elems : elem' = [elem EXCEPT ![p] = e]
  /\ empty' = IF empty > 0 THEN empty - 1 ELSE empty
  /\ UNCHANGED <<fields, filled>>

PushReserve(p) ==
  /\ Goes(p, "idle", "p_reserved")
  /\ empty > 0
  /\ empty' = empty - 1
  /\ \E e \in Elems : elem' = [elem EXCEPT ![p] = e]
  /\ UNCHANGED <<fields, filled>>

PushLock(p) == Lock(p, "p_reserved", "p_locked")

PushAdvance(p) ==
  /\ Goes(p, "p_locked", "p_advanced")
  /\ rear' = (rear + 1) % Capacity
  /\ UNCHANGED <<queue, size, front, filled, empty, elem>>

PushStore(p) ==
  /\ Goes(p, "p_advanced", "p_stored")
  /\ queue' = [queue EXCEPT ![rear] = elem[p]]
  /\ size' = size + 1
  /\ UNCHANGED <<front, rear, filled, empty, elem>>

PushUnlock(p) == Unlock(p, "p_stored", "p_unlocked")

PushAnnounceTwice(p) ==
  /\ Goes(p, "p_unlocked", "idle")
  /\ filled' = filled + 2
  /\ UNCHANGED <<fields, empty, elem>>

PushAnnounceForgotten(p) ==
  /\ Goes(p, "p_unlocked", "idle")
  /\ UNCHANGED <<fields, filled, empty, elem>>

PushAnnounce(p) ==
  /\ Goes(p, "p_unlocked", "idle")
  /\ filled' = filled + 1
  /\ UNCHANGED <<fields, empty, elem>>

(* queue_pop: wait(filled), wait(mutex), fetch, advance front, post(mutex), *)
(* post(empty).                                                             *)
PopClaim(c) ==
  /\ Goes(c, "idle", "c_claimed")
  /\ filled > 0
  /\ filled' = filled - 1
  /\ UNCHANGED <<fields, empty, elem>>

PopLock(c) == Lock(c, "c_claimed", "c_locked")

PopFetch(c) ==
  /\ Goes(c, "c_locked", "c_fetched")
  /\ elem' = [elem EXCEPT ![c] = queue[front]]
  /\ UNCHANGED <<fields, filled, empty>>

PopAdvance(c) ==
  /\ Goto(c, "c_fetched", "c_advanced")
  /\ front' = (front + 1) % Capacity
  /\ size' = size - 1
  /\ last' = elem[c]
  /\ UNCHANGED <<queue, rear, mutex, filled, empty, elem>>

PopUnlock(c) == Unlock(c, "c_advanced", "c_unlocked")

PopFreeForgotten(c) ==
  /\ Goes(c, "c_unlocked", "idle")
  /\ UNCHANGED <<fields, filled, empty, elem>>

PopFree(c) ==
  /\ Goes(c, "c_unlocked", "idle")
  /\ empty' = empty + 1
  /\ UNCHANGED <<fields, filled, elem>>

Push(p) == \/ PushReserve(p) \/ PushLock(p) \/ PushAdvance(p)
           \/ PushStore(p) \/ PushUnlock(p) \/ PushAnnounce(p)

Pop(c) == \/ PopClaim(c) \/ PopLock(c) \/ PopFetch(c)
          \/ PopAdvance(c) \/ PopUnlock(c) \/ PopFree(c)

Next == (\E p \in Producers : Push(p)) \/ (\E c \in Consumers : Pop(c))

(* Consumers are the worker threads: each pops again when it can, and a     *)
(* push once begun goes on.  Nobody has to begin a push.                    *)
Fairness == /\ \A c \in Consumers : WF_vars(Pop(c))
            /\ \A p \in Producers : WF_vars(Push(p) /\ pc[p] # "idle")

Spec == Init /\ [][Next]_vars

FairSpec == Spec /\ Fairness

----------------------------------------------------------------------------
At(S) == {t \in Threads : pc[t] \in S}

Pushing == {"p_reserved", "p_locked", "p_advanced", "p_stored", "p_unlocked"}
Popping == {"c_claimed", "c_locked", "c_fetched", "c_advanced", "c_unlocked"}
Locked == {"p_locked", "p_advanced", "p_stored", "c_locked", "c_fetched", "c_advanced"}

TypeOK == /\ queue \in [Slots -> Elems \cup {Null}]
          /\ size \in 0 .. Capacity
          /\ front \in Slots /\ rear \in Slots \cup {-1}
          /\ mutex \in {0, 1} /\ filled \in 0 .. Capacity /\ empty \in 0 .. Capacity
          /\ pc \in [Threads -> {"idle"} \cup Pushing \cup Popping]
          /\ elem \in [Threads -> Elems \cup {Null}]
          /\ last \in Elems \cup {Null}

(* Every slot is accounted for exactly once: free, full, or in the hands of *)
(* one call of queue_push or queue_pop.  No post or wait is lost or doubled *)
(* on any interleaving.                                                     *)
SlotsAccountedFor ==
  empty + filled + Cardinality(At(Pushing)) + Cardinality(At(Popping)) = Capacity

(* The mutex semaphore admits one thread to the ring at a time. *)
RingExclusive == mutex + Cardinality(At(Locked)) = 1

(* The elements between front and front + size, oldest first. *)
Contents == [i \in 1 .. size |-> queue[(front + i - 1) % Capacity]]

Abstract == INSTANCE FIFO WITH elems <- Contents, popped <- last

(* Pushes and pops of the ring are those of a bounded FIFO queue: none is   *)
(* lost, duplicated, reordered or overwritten, and no pop returns NULL.     *)
ImplementsFIFO == Abstract!Spec

(* An element in the queue does not stay there for ever: the front moves.   *)
QueueMoves == \A i \in Slots : (size > 0 /\ front = i) ~> (front # i \/ size = 0)
=============================================================================
