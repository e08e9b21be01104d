---------------------------- MODULE MCBoundedQueue ----------------------------
(* Two producers and two consumers around two slots, so that producers race *)
(* for the last slot, consumers for the last element, and indices wrap.     *)
EXTENDS BoundedQueue
=============================================================================
