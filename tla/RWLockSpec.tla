------------------------------ MODULE RWLockSpec ------------------------------
(***************************************************************************)
(* What rwlock.h promises its callers: readers share, a writer is alone,   *)
(* and the lock is handed over fairly.  After a writer has left, at most   *)
(* n_way readers overtake the writers that wait; under N_WAY at most one   *)
(* writer in a row is admitted over readers that wait; under WRITERS no    *)
(* reader is admitted while a writer waits.  Before the first writer has   *)
(* left the batch may be longer, by as much as rwlock_new leaves to chance *)
(* (slack).                                                                *)
(***************************************************************************)
EXTENDS Integers

CONSTANT Threads

VARIABLES mode,       \* what each thread does with the lock
          policy,     \* the arguments of rwlock_new, which never change
          overtaken,  \* readers admitted over a waiting writer since a writer left
          passed,     \* whether a writer passed a waiting reader since a reader got in
          slack       \* how many more readers may overtake before a writer has left

vars == <<mode, policy, overtaken, passed, slack>>

Some(m) == \E t \in Threads : mode[t] = m

Init == /\ mode = [t \in Threads |-> "idle"]
        /\ policy \in [priority : {"READERS", "WRITERS", "N_WAY"}, n_way : Int]
        /\ overtaken = 0
        /\ passed = FALSE
        /\ slack \in Nat

Wait(t, m) == /\ mode[t] = "idle"
              /\ mode' = [mode EXCEPT ![t] = m]
              /\ UNCHANGED <<policy, overtaken, passed, slack>>

GrantRead(t) ==
  /\ mode[t] \in {"idle", "wants_read"}
  /\ ~Some("writing")
  /\ Some("wants_write") => policy.priority # "WRITERS" /\ overtaken < policy.n_way + slack
  /\ mode' = [mode EXCEPT ![t] = "reading"]
  /\ overtaken' = IF Some("wants_write") THEN overtaken + 1 ELSE overtaken
  /\ passed' = FALSE
  /\ UNCHANGED <<policy, slack>>

GrantWrite(t) ==
  /\ mode[t] \in {"idle", "wants_write"}
  /\ ~Some("writing") /\ ~Some("reading")
  /\ Some("wants_read") /\ policy.priority = "N_WAY" => ~passed
  /\ mode' = [mode EXCEPT ![t] = "writing"]
  /\ passed' = (passed \/ Some("wants_read"))
  /\ UNCHANGED <<policy, overtaken, slack>>

Release(t) ==
  /\ mode[t] \in {"reading", "writing"}
  /\ mode' = [mode EXCEPT ![t] = "idle"]
  /\ IF mode[t] = "writing" THEN overtaken' = 0 /\ slack' = 0
                            ELSE UNCHANGED <<overtaken, slack>>
  /\ UNCHANGED <<policy, passed>>

Next == \E t \in Threads : \/ \E m \in {"wants_read", "wants_write"} : Wait(t, m)
                           \/ GrantRead(t)
                           \/ GrantWrite(t)
                           \/ Release(t)

Spec == Init /\ [][Next]_vars
=============================================================================
