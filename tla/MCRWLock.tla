------------------------------- MODULE MCRWLock -------------------------------
(* Instances of RWLockHistory: the values a configuration cannot write.     *)
EXTENDS RWLockHistory

Garbage == {-2, 0, 2}   \* served_readers as malloc may leave it
=============================================================================
