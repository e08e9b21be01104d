-------------------------------- MODULE MCLZ78 --------------------------------
(***************************************************************************)
(* Files of two different symbols, the one with bits in both halves.       *)
(***************************************************************************)
EXTENDS LZ78

Files(n) == UNION {[1 .. k -> {1, 2^BITS - 2}] : k \in 0 .. n}

Long == Files(11)
=============================================================================
