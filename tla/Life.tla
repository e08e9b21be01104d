---------------------------------- MODULE Life ----------------------------------
(***************************************************************************)
(* TheGameOfLife: universe.c and the main of life.c.  A universe is a      *)
(* record; its grid is the set of its live cells.                          *)
(***************************************************************************)
EXTENDS Integers, FiniteSetsExt, SequencesExt

uv_create(rows, cols, toroidal) ==
  [rows |-> rows, cols |-> cols, toroidal |-> toroidal, grid |-> {}]

Cells(u) == (0 .. u.rows - 1) \X (0 .. u.cols - 1)

(* The calls for each cell of a set.                                        *)
uv_live_cell(u, cells) == [u EXCEPT !.grid = @ \cup cells]
uv_dead_cell(u, cells) == [u EXCEPT !.grid = @ \ cells]

(* Reads pairs up to the first that is out of range, that one included.  A  *)
(* pair equal to the number of rows or columns is let through: the cell it  *)
(* writes lies beyond the grid (undefined).                                 *)
uv_populate(u, pairs) ==
  LET bad == {i \in DOMAIN pairs : pairs[i][1] > u.rows \/ pairs[i][2] > u.cols}
      stop == IF bad = {} THEN Len(pairs) + 1 ELSE Min(bad)
  IN [u |-> uv_live_cell(u, {pairs[i] : i \in 1 .. stop - 1}),
      ok |-> bad = {},
      rest |-> SubSeq(pairs, stop + 1, Len(pairs))]

(* The eight tests that every universe makes: the neighbours in the grid. *)
Around(cell) ==
  {<<cell[1] + i, cell[2] + j>> : i, j \in -1 .. 1} \ {cell}

Flat(u, cell) == Cardinality(Around(cell) \cap Cells(u) \cap u.grid)

(* The eight tests for a torus: a cell on an edge sees straight across, one *)
(* in a corner also the opposite corner.                                    *)
Wrapped(u, cell) ==
  LET r == cell[1]
      c == cell[2]
      bottom == u.rows - 1
      right == u.cols - 1
      tests == << <<r = 0, <<bottom, c>>>>, <<c = 0, <<r, right>>>>,
                  <<r = bottom, <<0, c>>>>, <<c = right, <<r, 0>>>>,
                  <<r = bottom /\ c = right, <<0, 0>>>>, <<r = 0 /\ c = right, <<bottom, 0>>>>,
                  <<r = 0 /\ c = 0, <<bottom, right>>>>, <<r = bottom /\ c = 0, <<0, right>>>> >>
  IN Cardinality({i \in DOMAIN tests : tests[i][1] /\ tests[i][2] \in u.grid})

uv_census(u, cell) == Flat(u, cell) + IF u.toroidal THEN Wrapped(u, cell) ELSE 0

(* One generation: uA decides each cell of uB, which holds the generation   *)
(* before.                                                                  *)
Survives(u, cell) ==
  \/ uv_census(u, cell) = 3
  \/ uv_census(u, cell) = 2 /\ cell \in u.grid

GenerationOfBirths(uA, uB) == uv_live_cell(uB, {cell \in Cells(uA) : Survives(uA, cell)})

Generation(uA, uB) ==
  uv_dead_cell(uv_live_cell(uB, {cell \in Cells(uA) : Survives(uA, cell)}),
               {cell \in Cells(uA) : ~Survives(uA, cell)})

(* The swap of uA and uB after each generation. *)
Generations(n, uA, uB) ==
  LET after[k \in Nat] ==
        IF k = 0 THEN <<uA, uB>>
        ELSE LET u == after[k - 1] IN <<Generation(u[1], u[2]), u[1]>>
  IN after[n][1]

(* main populates twice: the second call reads on after a pair that the     *)
(* first refused, whose result is ignored.                                  *)
Populated(u, pairs) ==
  LET first == uv_populate(u, pairs) IN uv_populate(first.u, first.rest)

life(rows, cols, toroidal, pairs, generations) ==
  LET blank == uv_create(rows, cols, toroidal)
      p == Populated(blank, pairs)
      end == IF p.ok THEN Generations(generations, p.u, blank) ELSE p.u
  IN [outcome |-> IF ~(p.u.grid \subseteq Cells(blank)) THEN "undefined"
                  ELSE IF p.ok THEN "printed" ELSE "refused",
      grid |-> end.grid]
=============================================================================
