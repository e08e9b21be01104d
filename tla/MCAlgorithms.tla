------------------------------ MODULE MCAlgorithms ------------------------------
(***************************************************************************)
(* Small inputs: arrays with repetitions, and arrays in every order; keys  *)
(* of up to 16 bits, with bytes of 2; worlds with bad pairs.               *)
(***************************************************************************)
EXTENDS Algorithms

SomeArrays == UNION {[1 .. k -> 0 .. 2] : k \in 0 .. 6}
              \cup UNION {{s \in [1 .. k -> 1 .. k] : IsInjective(s)} : k \in 3 .. 6}

SomeKeys == {<<3, 5>>, <<5, 7>>, <<5, 11>>, <<11, 7>>, <<3, 7>>, <<13, 197>>, <<17, 127>>}
SomeFiles == UNION {[1 .. k -> {0, 1, 3}] : k \in 0 .. 4}

SomeNumbers == 2 .. 120

(* Every hue of the six sectors and between them, pale and dark ones. *)
Levels == {0, 1, 15, 30, 31}
SomePixels == {1024 * r + 32 * g + b : r \in Levels, g \in Levels, b \in Levels}
SomeRotations == {1, 60, 359, 725}

World(rows, cols, t, pairs, generations) ==
  [rows |-> rows, cols |-> cols, t |-> t, pairs |-> pairs, generations |-> generations]

Glider == <<<<0, 1>>, <<1, 2>>, <<2, 0>>, <<2, 1>>, <<2, 2>>>>
Nine == [i \in 1 .. 9 |-> <<(i - 1) \div 3, (i - 1) % 3>>]
Ends == {<< >>, <<<<1, 7>>>>, <<<<9, 1>>, <<0, 0>>>>, <<<<1, 7>>, <<9, 1>>>>, <<<<5, 5>>>>}

SomeWorlds ==
  {World(5, 5, t, Glider \o end, g) : t \in BOOLEAN, end \in Ends, g \in 0 .. 4}
  \cup {World(3, 3, FALSE, SelectSeq(Nine, LAMBDA c : c \in S), 3) : S \in SUBSET Range(Nine)}
=============================================================================
