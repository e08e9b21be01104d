--------------------------------- MODULE FIFO ---------------------------------
(***************************************************************************)
(* What queue.h promises: a bounded first-in first-out queue that any      *)
(* number of threads push and pop.                                         *)
(***************************************************************************)
EXTENDS Naturals, Sequences

CONSTANTS Elems, Capacity

VARIABLES elems,  \* the queue
          popped  \* the last element popped

vars == <<elems, popped>>

Init == elems = << >> /\ popped \notin Elems

Push(e) == /\ Len(elems) < Capacity
           /\ elems' = Append(elems, e)
           /\ UNCHANGED popped

Pop == /\ elems # << >>
       /\ popped' = Head(elems)
       /\ elems' = Tail(elems)

Next == Pop \/ \E e \in Elems : Push(e)

Spec == Init /\ [][Next]_vars
=============================================================================
