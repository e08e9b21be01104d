---------------------------- MODULE Algorithms_proofs ----------------------------
(***************************************************************************)
(* Proofs about the sequential programs: the game of life is Conway's, the *)
(* frames and filters show what they are to show, and the number theory is *)
(* right, for all inputs.  A loop of the code is a recursive function, and *)
(* what it returns is found by induction over the measure that each round  *)
(* makes less.                                                             *)
(***************************************************************************)
EXTENDS Algorithms, WellFoundedInduction, FiniteSetTheorems, TLAPS

----------------------------------------------------------------------------
(* Recursive functions, which are the loops of the code.                    *)

(* The order of the numbers. *)
Less == {p \in Nat \X Nat : p[1] < p[2]}

(* Every set of numbers has a least one. *)
LEMMA Least == ASSUME NEW T \in SUBSET Nat, T # {} PROVE \E x \in T : \A y \in T : x <= y
<1>1. IsWellFoundedOn(Less, Nat)
  BY NatLessThanWellFounded DEF OpToRel, Less
<1>2. PICK x \in T : \A y \in T : <<y, x>> \notin Less
  BY <1>1, WFMin
<1>3. ASSUME NEW y \in T PROVE x <= y
  <2>1. <<y, x>> \in Nat \X Nat /\ <<y, x>>[1] = y /\ <<y, x>>[2] = x
    OBVIOUS
  <2>2. ~(y < x)
    BY <1>2, <2>1 DEF Less
  <2> QED BY <2>2
<1> QED BY <1>3

(* A set of numbers with 0 and with every successor has all of them. *)
LEMMA Induction == ASSUME NEW S, 0 \in S, \A n \in Nat : n \in S => n + 1 \in S PROVE Nat \subseteq S
<1> SUFFICES ASSUME NEW k \in Nat, k \notin S PROVE FALSE
  OBVIOUS
<1>1. PICK x \in Nat \ S : \A y \in Nat \ S : x <= y
  BY Least
<1>2. x # 0 /\ x - 1 \in Nat
  BY <1>1
<1>3. x - 1 \in S
  BY <1>1, <1>2
<1> QED BY <1>1, <1>2, <1>3

(* f obeys the equations of a recursive function up to m. *)
Obeys(f, c, step, m) == f[0] = c /\ \A k \in 1 .. m : f[k] = step[f[k - 1]]

(* The equations have a solution up to each n ... *)
LEMMA Prefix ==
  ASSUME NEW V, NEW c \in V, NEW step \in [V -> V], NEW n \in Nat
  PROVE  \E f \in [0 .. n -> V] : Obeys(f, c, step, n)
<1> DEFINE S == {m \in Nat : \E f \in [0 .. m -> V] : Obeys(f, c, step, m)}
<1>1. 0 \in S
  <2> DEFINE f == [k \in 0 .. 0 |-> c]
  <2>1. f \in [0 .. 0 -> V] /\ Obeys(f, c, step, 0)
    BY DEF Obeys
  <2> QED BY <2>1
<1>2. ASSUME NEW m \in Nat, m \in S PROVE m + 1 \in S
  <2>1. PICK f \in [0 .. m -> V] : Obeys(f, c, step, m)
    BY <1>2
  <2>2. f[m] \in V
    BY <2>1
  <2>3. PICK x \in V : x = step[f[m]]
    BY <2>2
  <2> DEFINE g == [k \in 0 .. m + 1 |-> IF k = m + 1 THEN x ELSE f[k]]
  <2>4. g \in [0 .. m + 1 -> V] /\ g[0] = c
    BY <2>1 DEF Obeys
  <2>5. ASSUME NEW k \in 1 .. m + 1 PROVE g[k] = step[g[k - 1]]
    <3>1. CASE k = m + 1
      <4>1. g[k] = x /\ g[k - 1] = f[m]
        BY <3>1
      <4> QED BY <2>3, <3>1, <4>1
    <3>2. CASE k # m + 1
      <4>1. k \in 1 .. m /\ g[k] = f[k] /\ g[k - 1] = f[k - 1]
        BY <3>2
      <4> QED BY <2>1, <4>1 DEF Obeys
    <3> QED BY <3>1, <3>2
  <2> HIDE DEF g
  <2>6. \E h \in [0 .. m + 1 -> V] : Obeys(h, c, step, m + 1)
    BY <2>4, <2>5 DEF Obeys
  <2> QED BY <2>6
<1>3. Nat \subseteq S
  <2> HIDE DEF S
  <2> QED BY <1>1, <1>2, Induction
<1> QED BY <1>3

(* ... only one ... *)
LEMMA SamePrefix ==
  ASSUME NEW c, NEW step, NEW n \in Nat, NEW f, Obeys(f, c, step, n),
         NEW m \in Nat, NEW g, Obeys(g, c, step, m), NEW j \in 0 .. n, j <= m
  PROVE  f[j] = g[j]
<1> DEFINE S == {k \in Nat : k <= n /\ k <= m => f[k] = g[k]}
<1>1. 0 \in S
  BY DEF Obeys
<1>2. ASSUME NEW k \in Nat, k \in S PROVE k + 1 \in S
  <2> SUFFICES ASSUME k + 1 <= n, k + 1 <= m PROVE f[k + 1] = g[k + 1]
    OBVIOUS
  <2>1. k + 1 \in 1 .. n /\ k + 1 \in 1 .. m /\ (k + 1) - 1 = k /\ f[k] = g[k]
    BY <1>2
  <2>2. f[k + 1] = step[f[k]] /\ g[k + 1] = step[g[k]]
    BY <2>1 DEF Obeys
  <2> QED BY <2>1, <2>2
<1>3. Nat \subseteq S
  <2> HIDE DEF S
  <2> QED BY <1>1, <1>2, Induction
<1> QED BY <1>3

(* ... and so one for all numbers. *)
LEMMA Recursion ==
  ASSUME NEW V, NEW c \in V, NEW step \in [V -> V]
  PROVE  \E f \in [Nat -> V] : f[0] = c /\ \A k \in Nat : f[k + 1] = step[f[k]]
<1> DEFINE P(k) == CHOOSE f \in [0 .. k -> V] : Obeys(f, c, step, k)
           f == [k \in Nat |-> P(k)[k]]
<1>1. ASSUME NEW k \in Nat PROVE P(k) \in [0 .. k -> V] /\ Obeys(P(k), c, step, k)
  BY Prefix
<1> HIDE DEF P
<1>2. f \in [Nat -> V]
  <2>1. ASSUME NEW k \in Nat PROVE P(k)[k] \in V
    BY <1>1
  <2> QED BY <2>1
<1>3. f[0] = c
  <2>1. P(0)[0] = c
    BY <1>1 DEF Obeys
  <2> QED BY <2>1
<1>4. ASSUME NEW k \in Nat PROVE f[k + 1] = step[f[k]]
  <2>1. k + 1 \in Nat /\ k + 1 \in 1 .. k + 1 /\ (k + 1) - 1 = k /\ k \in 0 .. k + 1 /\ k <= k
    OBVIOUS
  <2>2. P(k + 1)[k + 1] = step[P(k + 1)[k]]
    BY <1>1, <2>1 DEF Obeys
  <2>3. Obeys(P(k + 1), c, step, k + 1) /\ Obeys(P(k), c, step, k)
    BY <1>1, <2>1
  <2>4. P(k + 1)[k] = P(k)[k]
    BY <2>1, <2>3, SamePrefix
  <2> QED BY <2>1, <2>2, <2>4
<1> HIDE DEF f
<1> QED BY <1>2, <1>3, <1>4

(* A step on V, and what it makes of c. *)
StepOn(V, step) == step \in [V -> V]

Runs(V, c, step, f) == f \in [Nat -> V] /\ f[0] = c /\ \A k \in Nat : f[k + 1] = step[f[k]]

(* The same, for use where V is a set of functions. *)
LEMMA RunsFor == ASSUME NEW V, NEW c \in V, NEW step, StepOn(V, step) PROVE \E f : Runs(V, c, step, f)
BY Recursion DEF StepOn, Runs

(* A loop: next is a round of it, taken in the states of more, of which out *)
(* is what it returns, and each round makes the measure less.               *)
IsLoop(S, more, next, measure) ==
  /\ more \subseteq S /\ next \in [S -> S] /\ measure \in [S -> Nat]
  /\ \A s \in more : measure[next[s]] < measure[s]

(* The equation of the loop, a recursive function. *)
LoopOf(S, more, next, out, f) ==
  f = [s \in S |-> IF s \in more THEN f[next[s]] ELSE out[s]]

(* What holds in the last states, and in a state when it does after a round *)
(* of the loop, holds in all.                                               *)
LEMMA LoopInduction ==
  ASSUME NEW S, NEW more, NEW next, NEW measure, IsLoop(S, more, next, measure),
         NEW Good, S \ more \subseteq Good, \A s \in more : next[s] \in Good => s \in Good
  PROVE  S \subseteq Good
<1> SUFFICES ASSUME NEW s \in S, s \notin Good PROVE FALSE
  OBVIOUS
<1> DEFINE T == {n \in Nat : \E x \in S \ Good : n = measure[x]}
<1>1. measure[s] \in T
  BY DEF IsLoop
<1>2. PICK n \in T : \A y \in T : n <= y
  <2>1. T \in SUBSET Nat /\ T # {}
    BY <1>1
  <2> HIDE DEF T
  <2> QED BY <2>1, Least
<1>3. PICK x \in S \ Good : n = measure[x]
  BY <1>2
<1>4. x \in more /\ next[x] \notin Good /\ next[x] \in S
  BY <1>3 DEF IsLoop
<1>5. measure[next[x]] < n /\ measure[next[x]] \in Nat /\ n \in Nat
  BY <1>2, <1>3, <1>4 DEF IsLoop
<1>6. measure[next[x]] \in T
  BY <1>4, <1>5
<1> QED BY <1>2, <1>5, <1>6

(* A loop whose measure decreases ends: the equation has a solution. *)
LEMMA LoopEnds ==
  ASSUME NEW S, NEW R, NEW more, NEW next, NEW measure, IsLoop(S, more, next, measure),
         NEW out \in [S -> R]
  PROVE  \E f \in [S -> R] : LoopOf(S, more, next, out, f)
<1> DEFINE V == [S -> R]
           step == [g \in V |-> [s \in S |-> IF s \in more THEN g[next[s]] ELSE out[s]]]
<1>1. step \in [V -> V]
  <2>1. ASSUME NEW g \in V PROVE [s \in S |-> IF s \in more THEN g[next[s]] ELSE out[s]] \in V
    BY DEF IsLoop
  <2> QED BY <2>1
<1>2. PICK g \in [Nat -> V] : g[0] = out /\ \A k \in Nat : g[k + 1] = step[g[k]]
  <2>1. out \in V
    OBVIOUS
  <2> HIDE DEF V, step
  <2>2. \E g : Runs(V, out, step, g)
    <3>1. StepOn(V, step)
      BY <1>1 DEF StepOn
    <3> QED BY <2>1, <3>1, RunsFor
  <2> QED BY <2>2 DEF Runs
<1>3. ASSUME NEW k \in Nat, NEW s \in S
      PROVE  g[k + 1][s] = IF s \in more THEN g[k][next[s]] ELSE out[s]
  <2>1. g[k] \in V
    BY <1>2
  <2>2. g[k + 1] = [x \in S |-> IF x \in more THEN g[k][next[x]] ELSE out[x]]
    BY <1>2, <2>1
  <2> QED BY <2>2
<1>4. \A k \in Nat : g[k] \in V
  BY <1>2
<1> DEFINE K == {k \in Nat : \A s \in S : measure[s] <= k => g[k + 1][s] = g[k][s]}
<1>5. 0 \in K
  <2>1. ASSUME NEW s \in S, measure[s] <= 0 PROVE g[0 + 1][s] = g[0][s]
    <3>1. s \notin more
      BY <2>1 DEF IsLoop
    <3> QED BY <1>2, <1>3, <3>1
  <2> QED BY <2>1
<1>6. ASSUME NEW k \in Nat, k \in K PROVE k + 1 \in K
  <2>1. ASSUME NEW s \in S, measure[s] <= k + 1 PROVE g[(k + 1) + 1][s] = g[k + 1][s]
    <3>1. CASE s \notin more
      BY <1>3, <3>1
    <3>2. CASE s \in more
      <4>1. next[s] \in S /\ measure[next[s]] <= k
        BY <2>1, <3>2 DEF IsLoop
      <4>2. g[k + 1][next[s]] = g[k][next[s]]
        BY <1>6, <4>1
      <4>3. g[(k + 1) + 1][s] = g[k + 1][next[s]] /\ g[k + 1][s] = g[k][next[s]]
        BY <1>3, <3>2
      <4> QED BY <4>2, <4>3
    <3> QED BY <3>1, <3>2
  <2> QED BY <2>1
<1>7. Nat \subseteq K
  <2> HIDE DEF K
  <2> QED BY <1>5, <1>6, Induction
<1>8. ASSUME NEW s \in S, NEW k \in Nat PROVE measure[s] <= k => g[k][s] = g[measure[s]][s]
  <2> DEFINE J == {j \in Nat : measure[s] <= j => g[j][s] = g[measure[s]][s]}
  <2>0. measure[s] \in Nat
    BY DEF IsLoop
  <2>1. 0 \in J
    BY <2>0
  <2>2. ASSUME NEW j \in Nat, j \in J PROVE j + 1 \in J
    <3>1. CASE measure[s] = j + 1
      BY <3>1
    <3>2. CASE measure[s] > j + 1
      BY <2>0, <3>2
    <3>3. CASE measure[s] <= j
      <4>1. g[j + 1][s] = g[j][s]
        BY <1>7, <3>3
      <4>2. g[j][s] = g[measure[s]][s]
        BY <2>2, <3>3
      <4> QED BY <4>1, <4>2
    <3> QED BY <2>0, <3>1, <3>2, <3>3
  <2>3. Nat \subseteq J
    <3> HIDE DEF J
    <3> QED BY <2>1, <2>2, Induction
  <2> QED BY <2>3
<1> DEFINE f == [s \in S |-> g[measure[s]][s]]
<1>9. f \in [S -> R]
  <2>1. ASSUME NEW s \in S PROVE g[measure[s]][s] \in R
    <3>1. measure[s] \in Nat
      BY DEF IsLoop
    <3> QED BY <1>4, <3>1
  <2> QED BY <2>1
<1>10. ASSUME NEW s \in S PROVE f[s] = IF s \in more THEN f[next[s]] ELSE out[s]
  <2>1. measure[s] \in Nat /\ f[s] = g[measure[s]][s]
    BY DEF IsLoop
  <2>2. CASE s \notin more
    <3>1. CASE measure[s] = 0
      BY <1>2, <2>1, <2>2, <3>1
    <3>2. CASE measure[s] # 0
      <4>1. PICK k \in Nat : measure[s] = k + 1
        <5>1. measure[s] - 1 \in Nat /\ measure[s] = (measure[s] - 1) + 1
          BY <2>1, <3>2
        <5> QED BY <5>1
      <4> QED BY <1>3, <2>1, <2>2, <4>1
    <3> QED BY <3>1, <3>2
  <2>3. CASE s \in more
    <3>1. next[s] \in S /\ measure[next[s]] < measure[s] /\ measure[next[s]] \in Nat
      BY <2>3 DEF IsLoop
    <3>2. PICK k \in Nat : measure[s] = k + 1
      <4>1. measure[s] - 1 \in Nat /\ measure[s] = (measure[s] - 1) + 1
        BY <2>1, <3>1
      <4> QED BY <4>1
    <3>3. g[k][next[s]] = g[measure[next[s]]][next[s]]
      <4>1. measure[next[s]] <= k
        BY <3>1, <3>2
      <4> QED BY <1>8, <3>1, <4>1
    <3>4. f[next[s]] = g[measure[next[s]]][next[s]]
      BY <3>1
    <3> QED BY <1>3, <2>1, <2>3, <3>2, <3>3, <3>4
  <2> QED BY <2>2, <2>3
<1> HIDE DEF f
<1>11. f = [s \in S |-> f[s]]
  BY <1>9
<1>12. LoopOf(S, more, next, out, f)
  BY <1>10, <1>11, Zenon DEF LoopOf
<1> QED BY <1>9, <1>12

----------------------------------------------------------------------------
(* The game of life. *)

(* What life reads. *)
World == [rows : Nat, cols : Nat, t : BOOLEAN, pairs : Seq(Nat \X Nat), generations : Nat]

(* The flat universes of the size of w. *)
Flats(w) == [rows : {w.rows}, cols : {w.cols}, toroidal : {FALSE}, grid : SUBSET Cells(w)]

(* The census of a flat universe counts the live neighbours. *)
LEMMA CensusNear ==
  ASSUME NEW w \in World, NEW u \in Flats(w), NEW cell \in Cells(w)
  PROVE  uv_census(u, cell) = Near(u.grid, cell)
<1>1. u.rows = w.rows /\ u.cols = w.cols /\ ~u.toroidal /\ u.grid \subseteq Cells(w)
  BY DEF Flats
<1>2. PICK r \in Nat, c \in Nat : cell = <<r, c>>
  BY DEF Cells, World
<1>3. Cells(u) = Cells(w)
  BY <1>1 DEF Cells
<1>4. ASSUME NEW d \in Cells(w) PROVE d \in Around(cell) <=> NextTo(cell, d)
  <2>1. PICK x \in Nat, y \in Nat : d = <<x, y>>
    BY DEF Cells, World
  <2>2. d \in Around(cell) <=> (\E i \in -1 .. 1, j \in -1 .. 1 : d = <<r + i, c + j>>) /\ d # cell
    BY <1>2 DEF Around
  <2>3. (\E i \in -1 .. 1, j \in -1 .. 1 : d = <<r + i, c + j>>) <=> r - x \in -1 .. 1 /\ c - y \in -1 .. 1
    <3>1. ASSUME NEW i \in -1 .. 1, NEW j \in -1 .. 1, d = <<r + i, c + j>>
          PROVE  r - x \in -1 .. 1 /\ c - y \in -1 .. 1
      <4>1. x = r + i /\ y = c + j
        BY <2>1, <3>1
      <4> QED BY <4>1
    <3>2. ASSUME r - x \in -1 .. 1, c - y \in -1 .. 1
          PROVE  \E i \in -1 .. 1, j \in -1 .. 1 : d = <<r + i, c + j>>
      <4>1. x - r \in -1 .. 1 /\ y - c \in -1 .. 1 /\ d = <<r + (x - r), c + (y - c)>>
        BY <2>1, <3>2
      <4> QED BY <4>1
    <3> QED BY <3>1, <3>2
  <2>4. NextTo(cell, d) <=> cell # d /\ r - x \in -1 .. 1 /\ c - y \in -1 .. 1
    BY <1>2, <2>1 DEF NextTo
  <2> QED BY <2>2, <2>3, <2>4
<1>5. Around(cell) \cap Cells(u) \cap u.grid = {d \in u.grid : NextTo(cell, d)}
  BY <1>1, <1>3, <1>4
<1>6. uv_census(u, cell) = Cardinality(Around(cell) \cap Cells(u) \cap u.grid) + 0
  BY <1>1 DEF uv_census, Flat
<1>7. Cardinality(Around(cell) \cap Cells(u) \cap u.grid) \in Nat
  <2>1. IsFiniteSet(Cells(w))
    <3>1. w.rows \in Nat /\ w.cols \in Nat
      BY DEF World
    <3>2. \A n \in Nat : IsFiniteSet(0 .. n - 1)
      <4>1. ASSUME NEW n \in Nat PROVE IsFiniteSet(0 .. n - 1)
        <5>1. 0 \in Int /\ n - 1 \in Int
          OBVIOUS
        <5> QED BY <5>1, FS_Interval
      <4> QED BY <4>1
    <3>3. IsFiniteSet(0 .. w.rows - 1) /\ IsFiniteSet(0 .. w.cols - 1)
      BY <3>1, <3>2
    <3> QED BY <3>3, FS_Product DEF Cells
  <2>2. Around(cell) \cap Cells(u) \cap u.grid \subseteq Cells(w)
    BY <1>1
  <2> QED BY <2>1, <2>2, FS_Subset, FS_CardinalityType
<1> QED BY <1>5, <1>6, <1>7 DEF Near

(* A generation of Conway's game. *)
NextOf(S, cells) == {c \in cells : Near(S, c) = 3 \/ (c \in S /\ Near(S, c) = 2)}

(* A generation: the universe that is decided forgets what it was. *)
LEMMA OneGeneration ==
  ASSUME NEW w \in World, NEW uA \in Flats(w), NEW uB \in Flats(w)
  PROVE  Generation(uA, uB) \in Flats(w) /\ Generation(uA, uB).grid = NextOf(uA.grid, Cells(w))
<1> DEFINE alive == {cell \in Cells(uA) : Survives(uA, cell)}
           dead == {cell \in Cells(uA) : ~Survives(uA, cell)}
<1>1. Cells(uA) = Cells(w) /\ uB.grid \subseteq Cells(w)
  BY DEF Flats, Cells
<1>2. \A cell \in Cells(w) : Survives(uA, cell) <=> cell \in NextOf(uA.grid, Cells(w))
  BY CensusNear DEF Survives, NextOf
<1>3. alive = NextOf(uA.grid, Cells(w)) /\ dead = Cells(w) \ NextOf(uA.grid, Cells(w))
  BY <1>1, <1>2 DEF NextOf
<1>4. Generation(uA, uB) = uv_dead_cell(uv_live_cell(uB, alive), dead)
  BY DEF Generation
<1> HIDE DEF alive, dead
<1>5. Generation(uA, uB) = [uB EXCEPT !.grid = (@ \cup alive) \ dead]
  BY <1>4 DEF uv_dead_cell, uv_live_cell, Flats
<1>6. (uB.grid \cup alive) \ dead = NextOf(uA.grid, Cells(w))
  BY <1>1, <1>3 DEF NextOf
<1>7. NextOf(uA.grid, Cells(w)) \subseteq Cells(w)
  BY DEF NextOf
<1> QED BY <1>5, <1>6, <1>7 DEF Flats

(* The universes after each generation, and the sets of Conway's game. *)
UniversesFrom(u, r) ==
  r[0] = u /\ \A k \in Nat : r[k + 1] = <<Generation(r[k][1], r[k][2]), r[k][1]>>

(* The universes obey the loop of life. *)
LEMMA GenerationsStep ==
  ASSUME NEW w \in World, NEW uA \in Flats(w), NEW uB \in Flats(w)
  PROVE  \E r \in [Nat -> Flats(w) \X Flats(w)] :
           UniversesFrom(<<uA, uB>>, r) /\ \A n \in Nat : Generations(n, uA, uB) = r[n][1]
<1> DEFINE V == Flats(w) \X Flats(w)
           step == [v \in V |-> <<Generation(v[1], v[2]), v[1]>>]
           Body(f, k) == IF k = 0 THEN <<uA, uB>>
                         ELSE <<Generation(f[k - 1][1], f[k - 1][2]), f[k - 1][1]>>
           Eq(f) == f = [k \in Nat |-> Body(f, k)]
           r == CHOOSE f : Eq(f)
<1>1. step \in [V -> V]
  BY OneGeneration
<1>2. PICK f \in [Nat -> V] : f[0] = <<uA, uB>> /\ \A k \in Nat : f[k + 1] = step[f[k]]
  <2>1. ASSUME NEW c \in V
        PROVE  \E f \in [Nat -> V] : f[0] = c /\ \A k \in Nat : f[k + 1] = step[f[k]]
    <3> HIDE DEF V, step
    <3> QED BY <1>1, Recursion
  <2>2. <<uA, uB>> \in V
    OBVIOUS
  <2> HIDE DEF V, step
  <2> QED BY <2>1, <2>2
<1>3. ASSUME NEW k \in Nat PROVE f[k] = Body(f, k)
  <2>1. CASE k = 0
    BY <1>2, <2>1
  <2>2. CASE k # 0
    <3>1. k - 1 \in Nat /\ (k - 1) + 1 = k
      BY <2>2
    <3>2. f[k - 1] \in V /\ f[k] = step[f[k - 1]]
      BY <1>2, <3>1
    <3> QED BY <2>2, <3>2
  <2> QED BY <2>1, <2>2
<1>4. Eq(f)
  <2>1. f = [k \in Nat |-> f[k]]
    BY <1>2
  <2> HIDE DEF Body
  <2> QED BY <1>3, <2>1, Zenon
<1>5. Eq(r)
  <2> HIDE DEF Eq
  <2> QED BY <1>4
<1>6. \A n \in Nat : Generations(n, uA, uB) = r[n][1]
  BY DEF Generations
<1> HIDE DEF r
<1>7. ASSUME NEW k \in Nat PROVE r[k] = Body(r, k)
  <2> HIDE DEF Body
  <2> QED BY <1>5, Zenon
<1>8. UniversesFrom(<<uA, uB>>, r)
  <2>1. r[0] = <<uA, uB>>
    BY <1>7
  <2>2. ASSUME NEW k \in Nat PROVE r[k + 1] = <<Generation(r[k][1], r[k][2]), r[k][1]>>
    <3>1. k + 1 \in Nat /\ k + 1 # 0 /\ (k + 1) - 1 = k
      OBVIOUS
    <3> QED BY <1>7, <3>1
  <2> QED BY <2>1, <2>2 DEF UniversesFrom
<1>9. r \in [Nat -> V]
  <2> DEFINE S == {k \in Nat : r[k] \in V}
  <2>1. 0 \in S
    BY <1>8 DEF UniversesFrom
  <2>2. ASSUME NEW k \in Nat, k \in S PROVE k + 1 \in S
    <3>1. PICK v1 \in Flats(w), v2 \in Flats(w) : r[k] = <<v1, v2>>
      BY <2>2
    <3>2. r[k + 1] = <<Generation(v1, v2), v1>>
      BY <1>8, <3>1 DEF UniversesFrom
    <3>3. Generation(v1, v2) \in Flats(w)
      BY OneGeneration
    <3> QED BY <3>2, <3>3
  <2>3. Nat \subseteq S
    <3> HIDE DEF S
    <3> QED BY <2>1, <2>2, Induction
  <2>4. r = [k \in Nat |-> r[k]]
    <3> HIDE DEF Body
    <3> QED BY <1>5, <1>7, Zenon
  <2> HIDE DEF V
  <2> QED BY <2>3, <2>4
<1> QED BY <1>6, <1>8, <1>9

(* Conway's sets obey theirs. *)
LEMMA ConwayStep ==
  ASSUME NEW S, NEW cells
  PROVE  /\ Conway(S, cells, 0) = S
         /\ \A n \in Nat : Conway(S, cells, n + 1) = NextOf(Conway(S, cells, n), cells)
<1> DEFINE V == {S} \cup SUBSET cells
           step == [v \in V |-> NextOf(v, cells)]
           Body(f, k) == IF k = 0 THEN S
                         ELSE {c \in cells : Near(f[k - 1], c) = 3
                                             \/ (c \in f[k - 1] /\ Near(f[k - 1], c) = 2)}
           Eq(f) == f = [k \in Nat |-> Body(f, k)]
           r == CHOOSE f : Eq(f)
<1>1. step \in [V -> V]
  BY DEF NextOf
<1>2. PICK f \in [Nat -> V] : f[0] = S /\ \A k \in Nat : f[k + 1] = step[f[k]]
  <2>1. S \in V
    OBVIOUS
  <2> HIDE DEF V, step
  <2> QED BY <1>1, <2>1, Recursion
<1>3. ASSUME NEW k \in Nat PROVE f[k] = Body(f, k)
  <2>1. CASE k = 0
    BY <1>2, <2>1
  <2>2. CASE k # 0
    <3>1. k - 1 \in Nat /\ (k - 1) + 1 = k
      BY <2>2
    <3>2. f[k - 1] \in V /\ f[k] = step[f[k - 1]]
      BY <1>2, <3>1
    <3> QED BY <2>2, <3>2 DEF NextOf
  <2> QED BY <2>1, <2>2
<1>4. Eq(f)
  <2>1. f = [k \in Nat |-> f[k]]
    BY <1>2
  <2> HIDE DEF Body
  <2> QED BY <1>3, <2>1, Zenon
<1>5. Eq(r)
  <2> HIDE DEF Eq
  <2> QED BY <1>4
<1>6. \A n \in Nat : Conway(S, cells, n) = r[n]
  BY DEF Conway
<1> HIDE DEF r
<1>7. ASSUME NEW k \in Nat PROVE r[k] = Body(r, k)
  <2> HIDE DEF Body
  <2> QED BY <1>5, Zenon
<1>8. r[0] = S
  BY <1>7
<1>9. ASSUME NEW k \in Nat PROVE r[k + 1] = NextOf(r[k], cells)
  <2>1. k + 1 \in Nat /\ k + 1 # 0 /\ (k + 1) - 1 = k
    OBVIOUS
  <2>2. r[k + 1] = Body(r, k + 1)
    <3> HIDE DEF Body
    <3> QED BY <1>7, <2>1
  <2> QED BY <2>1, <2>2 DEF NextOf
<1> QED BY <1>6, <1>8, <1>9

(* The universes swap, and the one that is shown is Conway's. *)
LEMMA GenerationsConway ==
  ASSUME NEW w \in World, NEW uA \in Flats(w), NEW uB \in Flats(w), NEW n \in Nat
  PROVE  Generations(n, uA, uB).grid = Conway(uA.grid, Cells(w), n)
<1>1. PICK r \in [Nat -> Flats(w) \X Flats(w)] :
        UniversesFrom(<<uA, uB>>, r) /\ \A m \in Nat : Generations(m, uA, uB) = r[m][1]
  BY GenerationsStep
<1> DEFINE S == {k \in Nat : r[k][1].grid = Conway(uA.grid, Cells(w), k)}
<1>2. 0 \in S
  <2>1. r[0] = <<uA, uB>>
    BY <1>1 DEF UniversesFrom
  <2> QED BY <2>1, ConwayStep
<1>3. ASSUME NEW k \in Nat, k \in S PROVE k + 1 \in S
  <2>1. PICK v1 \in Flats(w), v2 \in Flats(w) : r[k] = <<v1, v2>>
    BY <1>1
  <2>2. r[k + 1] = <<Generation(v1, v2), v1>>
    BY <1>1, <2>1 DEF UniversesFrom
  <2>3. r[k + 1][1].grid = NextOf(v1.grid, Cells(w))
    BY <2>2, OneGeneration
  <2>4. v1.grid = Conway(uA.grid, Cells(w), k)
    BY <1>3, <2>1
  <2>5. Conway(uA.grid, Cells(w), k + 1) = NextOf(Conway(uA.grid, Cells(w), k), Cells(w))
    BY ConwayStep
  <2> QED BY <2>2, <2>3, <2>4, <2>5
<1>4. Nat \subseteq S
  <2> HIDE DEF S
  <2> QED BY <1>2, <1>3, Induction
<1> QED BY <1>1, <1>4

(* What one call of uv_populate reads. *)
OffEdge(u, pair) == pair[1] > u.rows \/ pair[2] > u.cols
BadOf(u, pairs) == {i \in DOMAIN pairs : OffEdge(u, pairs[i])}
(* All universes. *)
Universes == [rows : Nat, cols : Nat, toroidal : BOOLEAN, grid : SUBSET (Nat \X Nat)]

(* A set of numbers has its minimum. *)
LEMMA LeastMin ==
  ASSUME NEW T \in SUBSET Nat, T # {}
  PROVE  Min(T) \in T /\ \A y \in T : Min(T) <= y
BY Least DEF Min

(* uv_populate with no pair out of range: all are set. *)
LEMMA PopulatesAll ==
  ASSUME NEW u \in Universes, NEW pairs \in Seq(Nat \X Nat), BadOf(u, pairs) = {}
  PROVE  /\ uv_populate(u, pairs).u = uv_live_cell(u, {pairs[i] : i \in DOMAIN pairs})
         /\ uv_populate(u, pairs).ok = TRUE
         /\ uv_populate(u, pairs).rest = << >>
<1>1. DOMAIN pairs = 1 .. Len(pairs) /\ Len(pairs) \in Nat
  OBVIOUS
<1>2. 1 .. (Len(pairs) + 1) - 1 = DOMAIN pairs
  BY <1>1
<1>3. SubSeq(pairs, (Len(pairs) + 1) + 1, Len(pairs)) = << >>
  BY <1>1
<1>4. {i \in DOMAIN pairs : pairs[i][1] > u.rows \/ pairs[i][2] > u.cols} = {}
  BY DEF BadOf, OffEdge
<1> QED BY <1>2, <1>3, <1>4 DEF uv_populate

(* uv_populate with one out of range: the pairs up to the first such one    *)
(* are set, and those behind it are left for the next call.                 *)
LEMMA PopulatesTo ==
  ASSUME NEW u \in Universes, NEW pairs \in Seq(Nat \X Nat), BadOf(u, pairs) # {}
  PROVE  \E m \in BadOf(u, pairs) :
           /\ \A i \in BadOf(u, pairs) : m <= i
           /\ uv_populate(u, pairs).u = uv_live_cell(u, {pairs[i] : i \in 1 .. m - 1})
           /\ uv_populate(u, pairs).ok = FALSE
           /\ uv_populate(u, pairs).rest = SubSeq(pairs, m + 1, Len(pairs))
<1> DEFINE bad == {i \in DOMAIN pairs : pairs[i][1] > u.rows \/ pairs[i][2] > u.cols}
           m == Min(bad)
<1>1. bad = BadOf(u, pairs)
  BY DEF BadOf, OffEdge
<1>2. bad \in SUBSET Nat /\ bad # {}
  <2>1. DOMAIN pairs = 1 .. Len(pairs) /\ Len(pairs) \in Nat
    OBVIOUS
  <2>2. DOMAIN pairs \subseteq Nat
    BY <2>1
  <2> QED BY <1>1, <2>2
<1>3. m \in bad /\ \A i \in bad : m <= i
  <2> HIDE DEF bad
  <2> QED BY <1>2, LeastMin
<1>4. /\ uv_populate(u, pairs).u = uv_live_cell(u, {pairs[i] : i \in 1 .. m - 1})
      /\ uv_populate(u, pairs).ok = FALSE
      /\ uv_populate(u, pairs).rest = SubSeq(pairs, m + 1, Len(pairs))
  BY <1>2 DEF uv_populate
<1> HIDE DEF bad, m
<1> QED BY <1>1, <1>3, <1>4

(* The pairs of a world that are out of range, and the others. *)
BadPairs(w) == {i \in DOMAIN w.pairs : Bad(w, i)}
GoodPairs(w) == {w.pairs[i] : i \in DOMAIN w.pairs \ BadPairs(w)}

(* main: both calls take the pairs in range, up to a second one that is not. *)
LEMMA PopulatedPairs ==
  ASSUME NEW w \in World, NEW t \in BOOLEAN, NEW p, p = Populated(uv_create(w.rows, w.cols, t), w.pairs)
  PROVE  /\ p.u \in [rows : {w.rows}, cols : {w.cols}, toroidal : {t}, grid : SUBSET GoodPairs(w)]
         /\ p.ok = TRUE => p.u.grid = GoodPairs(w) /\ \E m \in Nat : BadPairs(w) \subseteq {m}
         /\ p.ok # TRUE => \E m, j \in BadPairs(w) : m # j
<1> DEFINE u == uv_create(w.rows, w.cols, t)
           pairs == w.pairs
           first == uv_populate(u, pairs)
<1>1. pairs \in Seq(Nat \X Nat) /\ w.rows \in Nat /\ w.cols \in Nat
  BY DEF World
<1>2. u \in Universes /\ u = [rows |-> w.rows, cols |-> w.cols, toroidal |-> t, grid |-> {}]
  BY <1>1 DEF uv_create, Universes
<1>3. p = uv_populate(first.u, first.rest)
  BY DEF Populated
<1>4. ASSUME NEW S
      PROVE  uv_live_cell(u, S) = [rows |-> w.rows, cols |-> w.cols, toroidal |-> t, grid |-> S]
  BY <1>2 DEF uv_live_cell
<1>5. BadOf(u, pairs) = BadPairs(w)
  BY <1>2 DEF BadOf, OffEdge, BadPairs, Bad
<1>6. DOMAIN pairs = 1 .. Len(pairs) /\ Len(pairs) \in Nat /\ \A i \in DOMAIN pairs : pairs[i] \in Nat \X Nat
  BY <1>1
<1>7. CASE BadPairs(w) = {}
  <2>1. first.u = uv_live_cell(u, {pairs[i] : i \in DOMAIN pairs}) /\ first.rest = << >>
    <3> HIDE DEF u, pairs
    <3> QED BY <1>1, <1>2, <1>5, <1>7, PopulatesAll
  <2>2. GoodPairs(w) = {pairs[i] : i \in DOMAIN pairs}
    BY <1>7 DEF GoodPairs
  <2> DEFINE v == [rows |-> w.rows, cols |-> w.cols, toroidal |-> t, grid |-> GoodPairs(w)]
  <2>3. first.u = v
    BY <1>4, <2>1, <2>2
  <2>4. v \in Universes
    <3>1. GoodPairs(w) \subseteq Nat \X Nat
      BY <1>6, <2>2
    <3> QED BY <1>1, <3>1 DEF Universes
  <2>5. << >> \in Seq(Nat \X Nat) /\ BadOf(v, << >>) = {} /\ {<< >>[i] : i \in DOMAIN << >>} = {}
    BY DEF BadOf
  <2>6. p.u = uv_live_cell(v, {}) /\ p.ok = TRUE
    <3>1. p = uv_populate(v, << >>)
      BY <1>3, <2>1, <2>3
    <3>2. uv_populate(v, << >>).u = uv_live_cell(v, {<< >>[i] : i \in DOMAIN << >>})
          /\ uv_populate(v, << >>).ok = TRUE
      <4> HIDE DEF v
      <4> QED BY <2>4, <2>5, PopulatesAll
    <3> HIDE DEF v
    <3> QED BY <2>5, <3>1, <3>2
  <2>7. p.u = v
    BY <2>6 DEF uv_live_cell
  <2>8. p.u.grid = GoodPairs(w) /\ p.u \in [rows : {w.rows}, cols : {w.cols}, toroidal : {t},
                                            grid : SUBSET GoodPairs(w)]
    BY <2>7
  <2>9. 0 \in Nat /\ BadPairs(w) \subseteq {0}
    BY <1>7
  <2> HIDE DEF v
  <2> QED BY <2>6, <2>8, <2>9
<1>8. CASE BadPairs(w) # {}
  <2>1. PICK m \in BadPairs(w) :
          /\ \A i \in BadPairs(w) : m <= i
          /\ first.u = uv_live_cell(u, {pairs[i] : i \in 1 .. m - 1})
          /\ first.rest = SubSeq(pairs, m + 1, Len(pairs))
    <3> HIDE DEF u, pairs
    <3>1. BadOf(u, pairs) # {}
      BY <1>5, <1>8
    <3>2. \E m \in BadOf(u, pairs) :
           /\ \A i \in BadOf(u, pairs) : m <= i
           /\ uv_populate(u, pairs).u = uv_live_cell(u, {pairs[i] : i \in 1 .. m - 1})
           /\ uv_populate(u, pairs).ok = FALSE
           /\ uv_populate(u, pairs).rest = SubSeq(pairs, m + 1, Len(pairs))
      BY <1>1, <1>2, <3>1, PopulatesTo
    <3> QED BY <1>5, <3>2
  <2>2. m \in Nat /\ m \in 1 .. Len(pairs)
    BY <2>1, <1>6 DEF BadPairs
  <2> DEFINE seen == {pairs[i] : i \in 1 .. m - 1}
             rest == SubSeq(pairs, m + 1, Len(pairs))
             v == [rows |-> w.rows, cols |-> w.cols, toroidal |-> t, grid |-> seen]
  <2>3. first.u = v /\ p = uv_populate(v, rest)
    BY <1>3, <1>4, <2>1
  <2>4. ASSUME NEW i \in 1 .. m - 1 PROVE i \in DOMAIN pairs \ BadPairs(w)
    BY <1>6, <2>1, <2>2
  <2>5. seen \subseteq GoodPairs(w) /\ seen \subseteq Nat \X Nat
    BY <1>6, <2>4 DEF GoodPairs
  <2>6. v \in Universes
    BY <1>1, <2>5 DEF Universes
  <2>7. /\ rest \in Seq(Nat \X Nat) /\ Len(rest) = Len(pairs) - m /\ DOMAIN rest = 1 .. Len(pairs) - m
        /\ \A j \in 1 .. Len(pairs) - m : rest[j] = pairs[m + j]
    <3>1. ASSUME NEW X, NEW s \in Seq(X), NEW k \in 1 .. Len(s)
          PROVE  /\ SubSeq(s, k + 1, Len(s)) \in Seq(X) /\ Len(SubSeq(s, k + 1, Len(s))) = Len(s) - k
                 /\ DOMAIN SubSeq(s, k + 1, Len(s)) = 1 .. Len(s) - k
                 /\ \A j \in 1 .. Len(s) - k : SubSeq(s, k + 1, Len(s))[j] = s[k + j]
      <4>1. \A i \in (k + 1) .. Len(s) : s[i] \in X
        OBVIOUS
      <4>2. Len(s) - k \in Nat
        OBVIOUS
      <4>3. SubSeq(s, k + 1, Len(s)) = [j \in 1 .. Len(s) - k |-> s[k + j]]
        <5>1. SubSeq(s, k + 1, Len(s)) = [j \in 1 .. (1 + Len(s)) - (k + 1) |-> s[(k + 1) + j - 1]]
          OBVIOUS
        <5> QED BY <5>1
      <4> QED BY <4>1, <4>2, <4>3
    <3> HIDE DEF pairs
    <3> QED BY <1>1, <2>2, <3>1
  <2>8. ASSUME NEW j \in 1 .. Len(pairs) - m
        PROVE  m + j \in DOMAIN pairs /\ (OffEdge(v, rest[j]) <=> m + j \in BadPairs(w))
    <3>1. m + j \in DOMAIN pairs
      BY <1>6, <2>2
    <3> QED BY <2>7, <3>1 DEF OffEdge, BadPairs, Bad
  <2>9. CASE BadOf(v, rest) = {}
    <3>1. p.u = uv_live_cell(v, {rest[j] : j \in DOMAIN rest}) /\ p.ok = TRUE
      <4> HIDE DEF v, rest
      <4> QED BY <2>3, <2>6, <2>7, <2>9, PopulatesAll
    <3>2. BadPairs(w) \subseteq {m}
      <4>1. ASSUME NEW i \in BadPairs(w), i # m PROVE FALSE
        <5>1. i \in 1 .. Len(pairs) /\ m <= i
          BY <1>6, <2>1 DEF BadPairs
        <5>2. i - m \in 1 .. Len(pairs) - m /\ m + (i - m) = i
          BY <2>2, <4>1, <5>1
        <5>3. OffEdge(v, rest[i - m])
          BY <2>8, <4>1, <5>2
        <5>4. i - m \in BadOf(v, rest)
          <6> HIDE DEF v, rest
          <6> QED BY <2>7, <5>2, <5>3 DEF BadOf
        <5> QED BY <2>9, <5>4
      <4> QED BY <4>1
    <3>3. GoodPairs(w) = seen \cup {rest[j] : j \in DOMAIN rest}
      <4>1. ASSUME NEW i \in DOMAIN pairs \ BadPairs(w)
            PROVE  pairs[i] \in seen \/ pairs[i] \in {rest[j] : j \in DOMAIN rest}
        <5>1. i # m /\ i \in 1 .. Len(pairs)
          BY <1>6, <2>1
        <5>2. CASE i < m
          <6>1. i \in 1 .. m - 1
            BY <2>2, <5>1, <5>2
          <6> QED BY <6>1
        <5>3. CASE i > m
          <6>1. i - m \in DOMAIN rest /\ m + (i - m) = i
            BY <2>2, <2>7, <5>1, <5>3
          <6>2. rest[i - m] = pairs[i]
            BY <2>7, <6>1
          <6> QED BY <6>1, <6>2
        <5> QED BY <2>2, <5>1, <5>2, <5>3
      <4>2. ASSUME NEW j \in DOMAIN rest PROVE rest[j] \in GoodPairs(w)
        <5>1. j \in 1 .. Len(pairs) - m /\ ~OffEdge(v, rest[j])
          <6> HIDE DEF v, rest
          <6> QED BY <2>7, <2>9 DEF BadOf
        <5>2. m + j \in DOMAIN pairs \ BadPairs(w) /\ rest[j] = pairs[m + j]
          BY <2>7, <2>8, <5>1
        <5> QED BY <5>2 DEF GoodPairs
      <4> HIDE DEF rest, seen
      <4> QED BY <2>5, <4>1, <4>2 DEF GoodPairs
    <3>4. p.u = [rows |-> w.rows, cols |-> w.cols, toroidal |-> t, grid |-> GoodPairs(w)]
      BY <3>1, <3>3 DEF uv_live_cell
    <3>5. p.u.grid = GoodPairs(w) /\ p.u \in [rows : {w.rows}, cols : {w.cols}, toroidal : {t},
                                              grid : SUBSET GoodPairs(w)]
      BY <3>4
    <3>6. p.ok = TRUE
      BY <3>1
    <3> HIDE DEF v, seen, rest
    <3> QED BY <2>2, <3>2, <3>5, <3>6
  <2>10. CASE BadOf(v, rest) # {}
    <3>1. PICK k \in BadOf(v, rest) :
            /\ p.u = uv_live_cell(v, {rest[j] : j \in 1 .. k - 1})
            /\ p.ok = FALSE
            /\ \A j \in BadOf(v, rest) : k <= j
      <4> HIDE DEF v, rest
      <4>1. \E k \in BadOf(v, rest) :
             /\ \A j \in BadOf(v, rest) : k <= j
             /\ uv_populate(v, rest).u = uv_live_cell(v, {rest[j] : j \in 1 .. k - 1})
             /\ uv_populate(v, rest).ok = FALSE
             /\ uv_populate(v, rest).rest = SubSeq(rest, k + 1, Len(rest))
        BY <2>6, <2>7, <2>10, PopulatesTo
      <4> QED BY <2>3, <4>1
    <3>2. k \in 1 .. Len(pairs) - m /\ OffEdge(v, rest[k])
      <4> HIDE DEF v, rest
      <4> QED BY <2>7 DEF BadOf
    <3>3. m + k \in BadPairs(w) /\ m + k # m
      <4>1. m + k \in BadPairs(w)
        <5> HIDE DEF v, rest
        <5> QED BY <2>8, <3>2
      <4>2. k \in Nat /\ k # 0
        BY <1>6, <2>2, <3>2
      <4> HIDE DEF v, rest
      <4> QED BY <2>2, <4>1, <4>2
    <3>4. ASSUME NEW j \in 1 .. k - 1 PROVE rest[j] \in GoodPairs(w)
      <4>1. j \in 1 .. Len(pairs) - m /\ j \notin BadOf(v, rest)
        <5> HIDE DEF v, rest
        <5> QED BY <1>6, <2>2, <3>1, <3>2
      <4>2. ~OffEdge(v, rest[j])
        <5> HIDE DEF v, rest
        <5> QED BY <2>7, <4>1 DEF BadOf
      <4>3. m + j \in DOMAIN pairs \ BadPairs(w) /\ rest[j] = pairs[m + j]
        BY <2>7, <2>8, <4>1, <4>2
      <4> QED BY <4>3 DEF GoodPairs
    <3> DEFINE more == {rest[j] : j \in 1 .. k - 1}
    <3>5. more \subseteq GoodPairs(w)
      BY <3>4
    <3>6. p.u = [rows |-> w.rows, cols |-> w.cols, toroidal |-> t, grid |-> seen \cup more]
      <4> HIDE DEF seen, more
      <4>1. p.u = uv_live_cell(v, more)
        BY <3>1 DEF more
      <4> QED BY <4>1 DEF uv_live_cell
    <3>7. seen \cup more \subseteq GoodPairs(w)
      <4> HIDE DEF seen, more
      <4> QED BY <2>5, <3>5
    <3>8. p.u \in [rows : {w.rows}, cols : {w.cols}, toroidal : {t}, grid : SUBSET GoodPairs(w)]
      <4> HIDE DEF seen, more
      <4> QED BY <3>6, <3>7
    <3>9. p.ok = FALSE
      BY <3>1
    <3> HIDE DEF seen, more, v, rest
    <3> QED BY <2>1, <3>3, <3>8, <3>9
  <2> QED BY <2>9, <2>10
<1> QED BY <1>7, <1>8

(* What LifeEvolves says of a world and of what life showed. *)
LifeRight(w, shown) ==
  /\ shown.outcome = "refused" => Cardinality(BadPairs(w)) > 1
  /\ shown.outcome = "undefined" => \E cell \in GoodPairs(w) : cell[1] = w.rows \/ cell[2] = w.cols
  /\ shown.outcome = "printed" => /\ Cardinality(BadPairs(w)) < 2
                                  /\ shown.grid = Conway(GoodPairs(w), Cells(w), w.generations)

(* More than one pair out of range, by the count of them. *)
LEMMA CountBad ==
  ASSUME NEW w \in World
  PROVE  /\ (\E m, j \in BadPairs(w) : m # j) => Cardinality(BadPairs(w)) > 1
         /\ (\E m \in Nat : BadPairs(w) \subseteq {m}) => Cardinality(BadPairs(w)) < 2
<1>1. IsFiniteSet(BadPairs(w)) /\ Cardinality(BadPairs(w)) \in Nat
  <2>1. w.pairs \in Seq(Nat \X Nat)
    BY DEF World
  <2>2. DOMAIN w.pairs = 1 .. Len(w.pairs) /\ Len(w.pairs) \in Nat
    BY <2>1
  <2>3. IsFiniteSet(1 .. Len(w.pairs))
    BY <2>2, FS_Interval
  <2>4. BadPairs(w) \subseteq 1 .. Len(w.pairs)
    BY <2>2 DEF BadPairs
  <2> QED BY <2>3, <2>4, FS_Subset, FS_CardinalityType
<1>2. ASSUME NEW m \in BadPairs(w), NEW j \in BadPairs(w), m # j PROVE Cardinality(BadPairs(w)) > 1
  <2>1. Cardinality({m, j}) = 2
    <3>1. Cardinality({m}) = 1 /\ IsFiniteSet({m}) /\ {m} \cup {j} = {m, j} /\ j \notin {m}
      BY <1>2, FS_Singleton
    <3>2. Cardinality({m} \cup {j}) = Cardinality({m}) + 1
      BY <3>1, FS_AddElement
    <3> QED BY <3>1, <3>2
  <2>2. {m, j} \subseteq BadPairs(w)
    OBVIOUS
  <2>3. Cardinality({m, j}) <= Cardinality(BadPairs(w))
    BY <1>1, <2>2, FS_Subset
  <2> QED BY <1>1, <2>1, <2>3
<1>3. ASSUME NEW m \in Nat, BadPairs(w) \subseteq {m} PROVE Cardinality(BadPairs(w)) < 2
  <2>1. Cardinality({m}) = 1 /\ IsFiniteSet({m})
    BY FS_Singleton
  <2>2. Cardinality(BadPairs(w)) <= Cardinality({m})
    BY <1>3, <2>1, FS_Subset
  <2> QED BY <1>1, <2>1, <2>2
<1> QED BY <1>2, <1>3

(* A flat world shows Conway's game, or says why not. *)
LEMMA LifeShows ==
  ASSUME NEW w \in World
  PROVE  LifeRight(w, life(w.rows, w.cols, FALSE, w.pairs, w.generations))
<1> DEFINE blank == uv_create(w.rows, w.cols, FALSE)
           p == Populated(blank, w.pairs)
           shown == life(w.rows, w.cols, FALSE, w.pairs, w.generations)
<1>1. /\ p.u \in [rows : {w.rows}, cols : {w.cols}, toroidal : {FALSE}, grid : SUBSET GoodPairs(w)]
      /\ p.ok = TRUE => p.u.grid = GoodPairs(w) /\ \E m \in Nat : BadPairs(w) \subseteq {m}
      /\ p.ok # TRUE => \E m, j \in BadPairs(w) : m # j
  BY PopulatedPairs
<1>2. blank \in Flats(w) /\ Cells(blank) = Cells(w)
  BY DEF uv_create, Flats, Cells
<1>3. w.rows \in Nat /\ w.cols \in Nat /\ w.pairs \in Seq(Nat \X Nat) /\ w.generations \in Nat
  BY DEF World
<1>4. shown.outcome = (IF ~(p.u.grid \subseteq Cells(blank)) THEN "undefined"
                       ELSE IF p.ok THEN "printed" ELSE "refused")
      /\ shown.grid = (IF p.ok THEN Generations(w.generations, p.u, blank) ELSE p.u).grid
  BY DEF life
<1> SUFFICES LifeRight(w, shown)
  OBVIOUS
<1> HIDE DEF p, blank, shown
<1>5. CASE ~(p.u.grid \subseteq Cells(w))
  <2>1. shown.outcome = "undefined"
    BY <1>2, <1>4, <1>5
  <2>2. PICK cell \in GoodPairs(w) : cell \notin Cells(w)
    BY <1>1, <1>5
  <2>3. PICK i \in DOMAIN w.pairs : i \notin BadPairs(w) /\ cell = w.pairs[i]
    BY DEF GoodPairs
  <2>4. cell \in Nat \X Nat /\ cell[1] <= w.rows /\ cell[2] <= w.cols
    <3>1. w.pairs[i] \in Nat \X Nat
      BY <1>3
    <3>2. ~(w.pairs[i][1] > w.rows \/ w.pairs[i][2] > w.cols)
      BY <2>3 DEF BadPairs, Bad
    <3> QED BY <1>3, <2>3, <3>1, <3>2
  <2>5. cell[1] = w.rows \/ cell[2] = w.cols
    <3>1. PICK x \in Nat, y \in Nat : cell = <<x, y>>
      BY <2>4
    <3>2. ~(x \in 0 .. w.rows - 1 /\ y \in 0 .. w.cols - 1)
      BY <2>2, <3>1 DEF Cells
    <3> QED BY <1>3, <2>4, <3>1, <3>2
  <2> QED BY <2>1, <2>5 DEF LifeRight
<1>6. CASE p.u.grid \subseteq Cells(w) /\ p.ok # TRUE
  <2>1. shown.outcome = "refused"
    BY <1>2, <1>4, <1>6
  <2> QED BY <1>1, <1>6, <2>1, CountBad DEF LifeRight
<1>7. CASE p.u.grid \subseteq Cells(w) /\ p.ok = TRUE
  <2>1. shown.outcome = "printed" /\ shown.grid = Generations(w.generations, p.u, blank).grid
    BY <1>2, <1>4, <1>7
  <2>2. p.u \in Flats(w) /\ p.u.grid = GoodPairs(w)
    BY <1>1, <1>7 DEF Flats
  <2>3. shown.grid = Conway(GoodPairs(w), Cells(w), w.generations)
    BY <1>2, <1>3, <2>1, <2>2, GenerationsConway
  <2>4. Cardinality(BadPairs(w)) < 2
    BY <1>1, <1>7, CountBad
  <2> QED BY <2>1, <2>3, <2>4 DEF LifeRight
<1> QED BY <1>5, <1>6, <1>7

----------------------------------------------------------------------------
(* The programs. *)

(* What each of them is given. *)
Given ==
  /\ task.program = "life" => task.input \in Worlds
  /\ task.program = "numtheory" => task.input \in Numbers
  /\ task.program = "pixel" => task.input \in Pixels

(* A task keeps what it was given. *)
LEMMA GivenAlways == Spec => []Given
<1>1. Init => Given
  BY DEF Init, Given, Task
<1>2. Given /\ [Next]_<<task, result>> => Given'
  <2>1. [Next]_<<task, result>> => task' = task
    <3>1. Sorting \/ NumTheory => task' = task
      BY Zenon DEF Sorting, NumTheory, Compute
    <3>2. Cipher \/ LifeGame => task' = task
      BY Zenon DEF Cipher, LifeGame, Compute
    <3>3. Pixel => task' = task
      BY Zenon DEF Pixel, Compute
    <3>4. Frame => task' = task
      BY Zenon DEF Frame, Compute
    <3> QED BY <3>1, <3>2, <3>3, <3>4 DEF Next
  <2> QED BY <2>1 DEF Given
<1> QED BY <1>1, <1>2, PTL DEF Spec

(* LifeEvolves holds, for worlds of every size with any pairs and any       *)
(* number of generations: on a flat universe life shows Conway's game from  *)
(* the pairs in range, whatever was in the other universe, or refuses       *)
(* because two pairs are out of range.                                      *)
THEOREM LifeIsConways == Spec => []LifeEvolves
<1>1. Init => LifeEvolves
  BY DEF Init, LifeEvolves, Done
<1>2. ASSUME Given, LifeEvolves, [Next]_<<task, result>> PROVE LifeEvolves'
  <2>1. CASE LifeGame
    <3>1. task.input \in World /\ task' = task
      BY <1>2, <2>1, WorldsAssumption DEF LifeGame, Compute, Given, World
    <3>2. PICK t \in BOOLEAN : result' = [toroidal |-> t,
            life |-> life(task.input.rows, task.input.cols, t, task.input.pairs, task.input.generations)]
      BY <2>1 DEF LifeGame
    <3>3. CASE t = FALSE
      <4>1. LifeRight(task.input, result'.life)
        BY <3>1, <3>2, <3>3, LifeShows
      <4> QED BY <3>1, <4>1 DEF LifeEvolves, LifeRight, BadPairs, GoodPairs
    <3>4. CASE t = TRUE
      BY <3>2, <3>4 DEF LifeEvolves
    <3> QED BY <3>3, <3>4
  <2>2. CASE Sorting \/ NumTheory \/ Cipher \/ Pixel \/ Frame
    <3>1. task'.program # "life"
      BY <2>2 DEF Sorting, NumTheory, Cipher, Pixel, Frame, Compute
    <3> QED BY <3>1 DEF LifeEvolves, Done
  <2>3. CASE UNCHANGED <<task, result>>
    BY <1>2, <2>3 DEF LifeEvolves, Done
  <2> QED BY <1>2, <2>1, <2>2, <2>3 DEF Next
<1> QED BY <1>1, <1>2, GivenAlways, PTL DEF Spec

----------------------------------------------------------------------------
(* Division, and the color wheel. *)

(* The remainder and the quotient of a division. *)
LEMMA Division ==
  ASSUME NEW m \in Nat \ {0}, NEW x \in Int
  PROVE  \E q \in Int, r \in 0 .. m - 1 : x = q * m + r /\ x % m = r /\ x \div m = q
OBVIOUS

(* There is only one of each. *)
LEMMA Remainder ==
  ASSUME NEW m \in Nat \ {0}, NEW q \in Int, NEW r \in 0 .. m - 1, NEW x, x = q * m + r
  PROVE  x % m = r /\ x \div m = q
<1>1. x \in Int
  <2>1. q * m \in Int
    OBVIOUS
  <2> QED BY <2>1
<1>2. PICK d \in Int, e \in 0 .. m - 1 : x = d * m + e /\ x % m = e /\ x \div m = d
  BY <1>1, Division
<1>3. ~(d < q)
  <2> SUFFICES ASSUME d + 1 <= q PROVE FALSE
    OBVIOUS
  <2>1. q * m >= (d + 1) * m /\ (d + 1) * m = d * m + m
    OBVIOUS
  <2>2. d * m \in Int /\ q * m \in Int
    OBVIOUS
  <2> QED BY <1>2, <2>1, <2>2
<1>4. ~(d > q)
  <2> SUFFICES ASSUME q + 1 <= d PROVE FALSE
    OBVIOUS
  <2>1. d * m >= (q + 1) * m /\ (q + 1) * m = q * m + m
    OBVIOUS
  <2>2. d * m \in Int /\ q * m \in Int
    OBVIOUS
  <2> QED BY <1>2, <2>1, <2>2
<1>5. d = q
  BY <1>3, <1>4
<1>6. q * m \in Int
  OBVIOUS
<1> QED BY <1>2, <1>5, <1>6

(* How far a channel is from v, for a hue that is k / d sixths ahead of it. *)
Swing(k, d) == Max({0, Min({k, 4 * d - k, d})})

(* The least of three. *)
LEMMA LeastOf ==
  ASSUME NEW a \in Int, NEW b \in Int, NEW c \in Int, NEW e \in {a, b, c}, e <= a, e <= b, e <= c
  PROVE  Min({a, b, c}) = e
<1>1. \A x \in {a, b, c} : x \in Int
  OBVIOUS
<1>2. e \in {a, b, c} /\ \A y \in {a, b, c} : e <= y
  OBVIOUS
<1>3. Min({a, b, c}) \in {a, b, c} /\ \A y \in {a, b, c} : Min({a, b, c}) <= y
  BY <1>2 DEF Min
<1> QED BY <1>1, <1>2, <1>3

(* The greatest of two. *)
LEMMA GreatestOf ==
  ASSUME NEW a \in Int, NEW b \in Int
  PROVE  Max({a, b}) = IF a >= b THEN a ELSE b
<1> DEFINE e == IF a >= b THEN a ELSE b
<1>1. e \in {a, b} /\ e \in Int /\ \A y \in {a, b} : e >= y /\ y \in Int
  OBVIOUS
<1>2. Max({a, b}) \in {a, b} /\ \A y \in {a, b} : Max({a, b}) >= y
  BY <1>1 DEF Max
<1> QED BY <1>1, <1>2

(* The swing in each of the six sectors. *)
LEMMA Swings ==
  ASSUME NEW d \in Nat \ {0}, NEW f \in 0 .. d - 1
  PROVE  /\ Swing(f, d) = f
         /\ Swing(d + f, d) = d
         /\ Swing(2 * d + f, d) = d
         /\ Swing(3 * d + f, d) = d - f
         /\ Swing(4 * d + f, d) = 0
         /\ Swing(5 * d + f, d) = 0
<1>1. ASSUME NEW k \in Int, NEW e \in {k, 4 * d - k, d}, e <= k, e <= 4 * d - k, e <= d
      PROVE  Swing(k, d) = IF 0 >= e THEN 0 ELSE e
  <2>1. 4 * d - k \in Int /\ d \in Int /\ e \in Int
    OBVIOUS
  <2>2. Min({k, 4 * d - k, d}) = e
    BY <1>1, <2>1, LeastOf
  <2>3. Max({0, e}) = IF 0 >= e THEN 0 ELSE e
    BY <2>1, GreatestOf
  <2> QED BY <2>2, <2>3 DEF Swing
<1>2. Swing(f, d) = f
  <2>1. f \in Int /\ f <= 4 * d - f /\ f <= d /\ f >= 0
    OBVIOUS
  <2>2. Swing(f, d) = IF 0 >= f THEN 0 ELSE f
    BY <1>1, <2>1
  <2> QED BY <2>1, <2>2
<1>3. Swing(d + f, d) = d
  <2>1. d + f \in Int /\ d <= d + f /\ d <= 4 * d - (d + f) /\ d > 0
    OBVIOUS
  <2>2. Swing(d + f, d) = IF 0 >= d THEN 0 ELSE d
    BY <1>1, <2>1
  <2> QED BY <2>1, <2>2
<1>4. Swing(2 * d + f, d) = d
  <2>1. 2 * d + f \in Int /\ d <= 2 * d + f /\ d <= 4 * d - (2 * d + f) /\ d > 0
    OBVIOUS
  <2>2. Swing(2 * d + f, d) = IF 0 >= d THEN 0 ELSE d
    BY <1>1, <2>1
  <2> QED BY <2>1, <2>2
<1>5. Swing(3 * d + f, d) = d - f
  <2>1. 3 * d + f \in Int /\ 4 * d - (3 * d + f) = d - f /\ d - f <= 3 * d + f /\ d - f <= d /\ d - f > 0
    OBVIOUS
  <2>2. Swing(3 * d + f, d) = IF 0 >= d - f THEN 0 ELSE d - f
    BY <1>1, <2>1
  <2> QED BY <2>1, <2>2
<1>6. Swing(4 * d + f, d) = 0
  <2>1. 4 * d + f \in Int /\ 4 * d - (4 * d + f) = -f /\ -f <= 4 * d + f /\ -f <= d /\ 0 >= -f
    OBVIOUS
  <2>2. Swing(4 * d + f, d) = IF 0 >= -f THEN 0 ELSE -f
    BY <1>1, <2>1
  <2> QED BY <2>1, <2>2
<1>7. Swing(5 * d + f, d) = 0
  <2>1. 5 * d + f \in Int /\ 4 * d - (5 * d + f) = -d - f /\ -d - f <= 5 * d + f /\ -d - f <= d /\ 0 >= -d - f
    OBVIOUS
  <2>2. Swing(5 * d + f, d) = IF 0 >= -d - f THEN 0 ELSE -d - f
    BY <1>1, <2>1
  <2> QED BY <2>1, <2>2
<1> QED BY <1>2, <1>3, <1>4, <1>5, <1>6, <1>7

(* Around the wheel of 6 * d. *)
Turn(k, d) == k % (6 * d)

(* The place on the wheel in each of the six sectors, once around. *)
LEMMA Turns ==
  ASSUME NEW d \in Nat \ {0}, NEW f \in 0 .. d - 1
  PROVE  /\ Turn(f, d) = f /\ Turn(6 * d + f, d) = f
         /\ Turn(d + f, d) = d + f /\ Turn(7 * d + f, d) = d + f
         /\ Turn(2 * d + f, d) = 2 * d + f /\ Turn(8 * d + f, d) = 2 * d + f
         /\ Turn(3 * d + f, d) = 3 * d + f /\ Turn(9 * d + f, d) = 3 * d + f
         /\ Turn(4 * d + f, d) = 4 * d + f /\ Turn(10 * d + f, d) = 4 * d + f
         /\ Turn(5 * d + f, d) = 5 * d + f
<1>1. 6 * d \in Nat \ {0}
  OBVIOUS
<1>2. ASSUME NEW r \in 0 .. 6 * d - 1 PROVE r % (6 * d) = r /\ (6 * d + r) % (6 * d) = r
  <2>1. 0 \in Int /\ r = 0 * (6 * d) + r /\ 1 \in Int /\ 6 * d + r = 1 * (6 * d) + r
    OBVIOUS
  <2>2. r % (6 * d) = r
    BY <1>1, <2>1, Remainder
  <2>3. (6 * d + r) % (6 * d) = r
    BY <1>1, <2>1, Remainder
  <2> QED BY <2>2, <2>3
<1>3. f \in 0 .. 6 * d - 1 /\ d + f \in 0 .. 6 * d - 1 /\ 2 * d + f \in 0 .. 6 * d - 1
      /\ 3 * d + f \in 0 .. 6 * d - 1 /\ 4 * d + f \in 0 .. 6 * d - 1 /\ 5 * d + f \in 0 .. 6 * d - 1
  OBVIOUS
<1>4. 7 * d + f = 6 * d + (d + f) /\ 8 * d + f = 6 * d + (2 * d + f)
      /\ 9 * d + f = 6 * d + (3 * d + f) /\ 10 * d + f = 6 * d + (4 * d + f)
  OBVIOUS
<1> QED BY <1>2, <1>3, <1>4 DEF Turn

(* The hues that the filters work with. *)
HSVs == [v : Int, c : Int, d : Nat \ {0}, h : Int]

(* The channel that is x below the value: v * d - c * x. *)
LEMMA Levels ==
  ASSUME NEW v \in Int, NEW c \in Int, NEW d \in Nat \ {0}, NEW f \in 0 .. d - 1
  PROVE  /\ c * d + (v - c) * d = v * d - c * 0
         /\ (v - c) * d = v * d - c * d
         /\ c * f + (v - c) * d = v * d - c * (d - f)
         /\ c * (d - f) + (v - c) * d = v * d - c * f
<1>1. (v - c) * d = v * d - c * d /\ c * (d - f) = c * d - c * f /\ c * 0 = 0
  OBVIOUS
<1>2. PICK vd, cd, cf \in Int : vd = v * d /\ cd = c * d /\ cf = c * f
  OBVIOUS
<1>3. (v - c) * d = vd - cd /\ c * (d - f) = cd - cf
  BY <1>1, <1>2
<1> QED BY <1>1, <1>2, <1>3

(* The sectors of hsv2rgb. *)
LEMMA Sector ==
  ASSUME NEW in \in HSVs, NEW s \in 0 .. 5, NEW f \in 0 .. in.d - 1, in.h = s * in.d + f
  PROVE  /\ s = IF in.h >= 0 /\ in.h < 5 * in.d THEN in.h \div in.d ELSE 5
         /\ in.d - Distance(fmod(in.h, 2 * in.d), in.d) = IF s % 2 = 0 THEN f ELSE in.d - f
<1>1. PICK d \in Nat \ {0}, h \in Int : d = in.d /\ h = in.h
  BY DEF HSVs
<1>2. f \in 0 .. d - 1 /\ h = s * d + f
  BY <1>1
<1>3. h \div d = s
  <2>1. s \in Int
    OBVIOUS
  <2> QED BY <1>2, <2>1, Remainder
<1>4. h >= 0 /\ (h < 5 * d <=> s # 5)
  <2>1. s \in {0, 1, 2, 3, 4, 5}
    OBVIOUS
  <2>2. \A i \in {0, 1, 2, 3, 4} : s = i => h >= 0 /\ h < 5 * d
    BY <1>2
  <2>3. s = 5 => h >= 5 * d /\ h >= 0
    BY <1>2
  <2> QED BY <2>1, <2>2, <2>3
<1>5. s = IF h >= 0 /\ h < 5 * d THEN h \div d ELSE 5
  BY <1>3, <1>4
<1>6. 2 * d \in Nat \ {0}
  OBVIOUS
<1>7. ASSUME NEW q \in Int, NEW r \in 0 .. 2 * d - 1, h = q * (2 * d) + r
      PROVE  d - Distance(fmod(h, 2 * d), d) = IF r > d THEN d - (r - d) ELSE d - (d - r)
  <2>1. h % (2 * d) = r
    <3>1. \A m \in Nat \ {0} : h = q * m + r /\ r \in 0 .. m - 1 => h % m = r
      BY Remainder
    <3> QED BY <1>6, <1>7, <3>1
  <2>2. fmod(h, 2 * d) = r
    BY <1>4, <2>1 DEF fmod
  <2> QED BY <2>2 DEF Distance
<1>8. CASE s \in {0, 2, 4}
  <2>1. PICK q \in {0, 1, 2} : s = 2 * q
    BY <1>8
  <2>2. h = q * (2 * d) + f /\ f \in 0 .. 2 * d - 1
    <3>1. q = 0 \/ q = 1 \/ q = 2
      OBVIOUS
    <3>2. q = 0 => h = q * (2 * d) + f
      BY <1>2, <2>1
    <3>3. q = 1 => h = q * (2 * d) + f
      BY <1>2, <2>1
    <3>4. q = 2 => h = q * (2 * d) + f
      BY <1>2, <2>1
    <3> QED BY <1>2, <3>1, <3>2, <3>3, <3>4
  <2>3. d - Distance(fmod(h, 2 * d), d) = IF f > d THEN d - (f - d) ELSE d - (d - f)
    <3>1. q \in Int
      OBVIOUS
    <3> QED BY <1>7, <2>2, <3>1
  <2>4. s % 2 = 0 /\ ~(f > d) /\ d - (d - f) = f
    BY <1>2, <1>8
  <2> QED BY <1>1, <1>5, <2>3, <2>4
<1>9. CASE s \in {1, 3, 5}
  <2>1. PICK q \in {0, 1, 2} : s = 2 * q + 1
    BY <1>9
  <2>2. h = q * (2 * d) + (d + f) /\ d + f \in 0 .. 2 * d - 1
    <3>1. q = 0 \/ q = 1 \/ q = 2
      OBVIOUS
    <3>2. q = 0 => h = q * (2 * d) + (d + f)
      BY <1>2, <2>1
    <3>3. q = 1 => h = q * (2 * d) + (d + f)
      BY <1>2, <2>1
    <3>4. q = 2 => h = q * (2 * d) + (d + f)
      BY <1>2, <2>1
    <3> QED BY <1>2, <3>1, <3>2, <3>3, <3>4
  <2>3. d - Distance(fmod(h, 2 * d), d) = IF d + f > d THEN d - ((d + f) - d) ELSE d - (d - (d + f))
    <3>1. q \in Int
      OBVIOUS
    <3> QED BY <1>7, <2>2, <3>1
  <2>4. s % 2 = 1 /\ (IF d + f > d THEN d - ((d + f) - d) ELSE d - (d - (d + f))) = d - f
    BY <1>2, <1>9
  <2> QED BY <1>1, <1>5, <2>3, <2>4
<1>10. s \in {0, 2, 4} \/ s \in {1, 3, 5}
  OBVIOUS
<1> QED BY <1>8, <1>9, <1>10

(* The two together. *)
LEMMA Swung ==
  ASSUME NEW d \in Nat \ {0}, NEW f \in 0 .. d - 1
  PROVE  /\ Swing(Turn(f, d), d) = f
         /\ Swing(Turn(d + f, d), d) = d
         /\ Swing(Turn(2 * d + f, d), d) = d
         /\ Swing(Turn(3 * d + f, d), d) = d - f
         /\ Swing(Turn(4 * d + f, d), d) = 0
         /\ Swing(Turn(5 * d + f, d), d) = 0
         /\ Swing(Turn(6 * d + f, d), d) = f
         /\ Swing(Turn(7 * d + f, d), d) = d
         /\ Swing(Turn(8 * d + f, d), d) = d
         /\ Swing(Turn(9 * d + f, d), d) = d - f
         /\ Swing(Turn(10 * d + f, d), d) = 0
<1>1. /\ Turn(f, d) = f
      /\ Turn(d + f, d) = d + f
      /\ Turn(2 * d + f, d) = 2 * d + f
      /\ Turn(3 * d + f, d) = 3 * d + f
      /\ Turn(4 * d + f, d) = 4 * d + f
      /\ Turn(5 * d + f, d) = 5 * d + f
      /\ Turn(6 * d + f, d) = f
      /\ Turn(7 * d + f, d) = d + f
      /\ Turn(8 * d + f, d) = 2 * d + f
      /\ Turn(9 * d + f, d) = 3 * d + f
      /\ Turn(10 * d + f, d) = 4 * d + f
  BY Turns
<1>2. /\ Swing(f, d) = f
      /\ Swing(d + f, d) = d
      /\ Swing(2 * d + f, d) = d
      /\ Swing(3 * d + f, d) = d - f
      /\ Swing(4 * d + f, d) = 0
      /\ Swing(5 * d + f, d) = 0
  BY Swings
<1> QED BY <1>1, <1>2

(* Six sectors by hand are the color wheel. *)
LEMMA Wheel ==
  ASSUME NEW in \in HSVs, in.h >= 0, in.h < 6 * in.d
  PROVE  hsv2rgb(in) = <<Channel(in, 5), Channel(in, 3), Channel(in, 1)>>
<1>1. PICK v \in Int, c \in Int, d \in Nat \ {0}, h \in Int :
        v = in.v /\ c = in.c /\ d = in.d /\ h = in.h
  BY DEF HSVs
<1>2. PICK s \in 0 .. 5, f \in 0 .. d - 1 : h = s * d + f
  <2>1. PICK q \in Int, r \in 0 .. d - 1 : h = q * d + r
    <3>1. h \in Int /\ d \in Nat \ {0}
      BY <1>1
    <3>2. \A x \in Int : \E q \in Int, r \in 0 .. d - 1 : x = q * d + r
      BY <3>1, Division
    <3> QED BY <3>1, <3>2
  <2>2. q >= 0
    <3> SUFFICES ASSUME q <= -1 PROVE FALSE
      OBVIOUS
    <3>1. q * d <= (-1) * d
      BY <1>1
    <3> QED BY <1>1, <2>1, <3>1
  <2>3. q <= 5
    <3> SUFFICES ASSUME q >= 6 PROVE FALSE
      OBVIOUS
    <3>1. q * d >= 6 * d
      BY <1>1
    <3> QED BY <1>1, <2>1, <3>1
  <2> QED BY <2>1, <2>2, <2>3
<1> DEFINE x == c * (IF s % 2 = 0 THEN f ELSE d - f)
           m == (v - c) * d
<1>3. hsv2rgb(in) =
        CASE s = 0 -> <<c * d + m, x + m, m>>
          [] s = 1 -> <<x + m, c * d + m, m>>
          [] s = 2 -> <<m, c * d + m, x + m>>
          [] s = 3 -> <<m, x + m, c * d + m>>
          [] s = 4 -> <<x + m, m, c * d + m>>
          [] s = 5 -> <<c * d + m, m, x + m>>
  <2>1. in.h = s * in.d + f /\ f \in 0 .. in.d - 1
    BY <1>1, <1>2
  <2>2. /\ s = IF in.h >= 0 /\ in.h < 5 * in.d THEN in.h \div in.d ELSE 5
        /\ in.d - Distance(fmod(in.h, 2 * in.d), in.d) = IF s % 2 = 0 THEN f ELSE in.d - f
    BY <2>1, Sector
  <2> QED BY <1>1, <2>2, Zenon DEF hsv2rgb
<1>4. ASSUME NEW n \in Int
      PROVE  Channel(in, n) = v * d - c * Swing(Turn(n * d + h, d), d)
  BY <1>1 DEF Channel, Swing, Turn
<1> HIDE DEF x, m
<1>5. /\ Channel(in, 5) = v * d - c * Swing(Turn(5 * d + h, d), d)
       /\ Channel(in, 3) = v * d - c * Swing(Turn(3 * d + h, d), d)
       /\ Channel(in, 1) = v * d - c * Swing(Turn(1 * d + h, d), d)
  BY <1>4
<1>6. /\ c * d + m = v * d - c * 0
      /\ m = v * d - c * d
      /\ c * f + m = v * d - c * (d - f)
      /\ c * (d - f) + m = v * d - c * f
  BY Levels DEF m
<1>7. CASE s = 0
  <2>1. h = f /\ x = c * f
    BY <1>2, <1>7 DEF x
  <2>2. Channel(in, 5) = v * d - c * 0
    <3>1. Swing(Turn(5 * d + f, d), d) = 0
      BY Swung
    <3>2. 5 * d + h = 5 * d + f
      BY <2>1
    <3> QED BY <1>5, <3>1, <3>2
  <2>3. Channel(in, 3) = v * d - c * (d - f)
    <3>1. Swing(Turn(3 * d + f, d), d) = d - f
      BY Swung
    <3>2. 3 * d + h = 3 * d + f
      BY <2>1
    <3> QED BY <1>5, <3>1, <3>2
  <2>4. Channel(in, 1) = v * d - c * d
    <3>1. Swing(Turn(d + f, d), d) = d
      BY Swung
    <3>2. 1 * d + h = d + f
      BY <2>1
    <3> QED BY <1>5, <3>1, <3>2
  <2> QED BY <1>3, <1>6, <1>7, <2>1, <2>2, <2>3, <2>4
<1>8. CASE s = 1
  <2>1. h = d + f /\ x = c * (d - f)
    BY <1>2, <1>8 DEF x
  <2>2. Channel(in, 5) = v * d - c * f
    <3>1. Swing(Turn(6 * d + f, d), d) = f
      BY Swung
    <3>2. 5 * d + h = 6 * d + f
      BY <2>1
    <3> QED BY <1>5, <3>1, <3>2
  <2>3. Channel(in, 3) = v * d - c * 0
    <3>1. Swing(Turn(4 * d + f, d), d) = 0
      BY Swung
    <3>2. 3 * d + h = 4 * d + f
      BY <2>1
    <3> QED BY <1>5, <3>1, <3>2
  <2>4. Channel(in, 1) = v * d - c * d
    <3>1. Swing(Turn(2 * d + f, d), d) = d
      BY Swung
    <3>2. 1 * d + h = 2 * d + f
      BY <2>1
    <3> QED BY <1>5, <3>1, <3>2
  <2> QED BY <1>3, <1>6, <1>8, <2>1, <2>2, <2>3, <2>4
<1>9. CASE s = 2
  <2>1. h = 2 * d + f /\ x = c * f
    BY <1>2, <1>9 DEF x
  <2>2. Channel(in, 5) = v * d - c * d
    <3>1. Swing(Turn(7 * d + f, d), d) = d
      BY Swung
    <3>2. 5 * d + h = 7 * d + f
      BY <2>1
    <3> QED BY <1>5, <3>1, <3>2
  <2>3. Channel(in, 3) = v * d - c * 0
    <3>1. Swing(Turn(5 * d + f, d), d) = 0
      BY Swung
    <3>2. 3 * d + h = 5 * d + f
      BY <2>1
    <3> QED BY <1>5, <3>1, <3>2
  <2>4. Channel(in, 1) = v * d - c * (d - f)
    <3>1. Swing(Turn(3 * d + f, d), d) = d - f
      BY Swung
    <3>2. 1 * d + h = 3 * d + f
      BY <2>1
    <3> QED BY <1>5, <3>1, <3>2
  <2> QED BY <1>3, <1>6, <1>9, <2>1, <2>2, <2>3, <2>4
<1>10. CASE s = 3
  <2>1. h = 3 * d + f /\ x = c * (d - f)
    BY <1>2, <1>10 DEF x
  <2>2. Channel(in, 5) = v * d - c * d
    <3>1. Swing(Turn(8 * d + f, d), d) = d
      BY Swung
    <3>2. 5 * d + h = 8 * d + f
      BY <2>1
    <3> QED BY <1>5, <3>1, <3>2
  <2>3. Channel(in, 3) = v * d - c * f
    <3>1. Swing(Turn(6 * d + f, d), d) = f
      BY Swung
    <3>2. 3 * d + h = 6 * d + f
      BY <2>1
    <3> QED BY <1>5, <3>1, <3>2
  <2>4. Channel(in, 1) = v * d - c * 0
    <3>1. Swing(Turn(4 * d + f, d), d) = 0
      BY Swung
    <3>2. 1 * d + h = 4 * d + f
      BY <2>1
    <3> QED BY <1>5, <3>1, <3>2
  <2> QED BY <1>3, <1>6, <1>10, <2>1, <2>2, <2>3, <2>4
<1>11. CASE s = 4
  <2>1. h = 4 * d + f /\ x = c * f
    BY <1>2, <1>11 DEF x
  <2>2. Channel(in, 5) = v * d - c * (d - f)
    <3>1. Swing(Turn(9 * d + f, d), d) = d - f
      BY Swung
    <3>2. 5 * d + h = 9 * d + f
      BY <2>1
    <3> QED BY <1>5, <3>1, <3>2
  <2>3. Channel(in, 3) = v * d - c * d
    <3>1. Swing(Turn(7 * d + f, d), d) = d
      BY Swung
    <3>2. 3 * d + h = 7 * d + f
      BY <2>1
    <3> QED BY <1>5, <3>1, <3>2
  <2>4. Channel(in, 1) = v * d - c * 0
    <3>1. Swing(Turn(5 * d + f, d), d) = 0
      BY Swung
    <3>2. 1 * d + h = 5 * d + f
      BY <2>1
    <3> QED BY <1>5, <3>1, <3>2
  <2> QED BY <1>3, <1>6, <1>11, <2>1, <2>2, <2>3, <2>4
<1>12. CASE s = 5
  <2>1. h = 5 * d + f /\ x = c * (d - f)
    BY <1>2, <1>12 DEF x
  <2>2. Channel(in, 5) = v * d - c * 0
    <3>1. Swing(Turn(10 * d + f, d), d) = 0
      BY Swung
    <3>2. 5 * d + h = 10 * d + f
      BY <2>1
    <3> QED BY <1>5, <3>1, <3>2
  <2>3. Channel(in, 3) = v * d - c * d
    <3>1. Swing(Turn(8 * d + f, d), d) = d
      BY Swung
    <3>2. 3 * d + h = 8 * d + f
      BY <2>1
    <3> QED BY <1>5, <3>1, <3>2
  <2>4. Channel(in, 1) = v * d - c * f
    <3>1. Swing(Turn(6 * d + f, d), d) = f
      BY Swung
    <3>2. 1 * d + h = 6 * d + f
      BY <2>1
    <3> QED BY <1>5, <3>1, <3>2
  <2> QED BY <1>3, <1>6, <1>12, <2>1, <2>2, <2>3, <2>4
<1>13. s = 0 \/ s = 1 \/ s = 2 \/ s = 3 \/ s = 4 \/ s = 5
  OBVIOUS
<1> QED BY <1>7, <1>8, <1>9, <1>10, <1>11, <1>12, <1>13

(* Colors, and the gray ones. *)
IsColor(c) == c[1] \in Bytes /\ c[2] \in Bytes /\ c[3] \in Bytes
IsGray(c) == c[1] \in Bytes /\ Equal(c)

(* The fields of a color are bytes. *)
LEMMA FieldByte == ASSUME NEW p \in Nat, NEW k \in {0, 5, 10} PROVE Field(p, k) \in Bytes
<1>1. 2^k \in Nat \ {0}
  <2>1. 2^0 \in Nat \ {0}
    OBVIOUS
  <2>2. 2^5 \in Nat \ {0}
    OBVIOUS
  <2>3. 2^10 \in Nat \ {0}
    OBVIOUS
  <2> QED BY <2>1, <2>2, <2>3, Zenon
<1>2. p \div 2^k \in Int
  BY <1>1, Division
<1>3. (p \div 2^k) % 32 \in 0 .. 31
  BY <1>2
<1>4. \A x \in 0 .. 31 : (x * 255) \div 31 \in 0 .. 255
  OBVIOUS
<1> QED BY <1>3, <1>4 DEF Field, Bytes

(* rgb2hsv: the hue lies on the wheel, behind its beginning perhaps. *)
LEMMA HueOnWheel ==
  ASSUME NEW r \in Bytes, NEW g \in Bytes, NEW b \in Bytes
  PROVE  rgb2hsv(r, g, b) \in HSVs /\ rgb2hsv(r, g, b).h < 6 * rgb2hsv(r, g, b).d
<1>1. r \in Int /\ g \in Int /\ b \in Int
  BY DEF Bytes
<1>2. PICK max \in {r, g, b} : max >= r /\ max >= g /\ max >= b /\ max = Max({r, g, b})
  <2>1. \E x \in {r, g, b} : x >= r /\ x >= g /\ x >= b
    BY <1>1
  <2>2. Max({r, g, b}) \in {r, g, b} /\ \A y \in {r, g, b} : Max({r, g, b}) >= y
    BY <2>1 DEF Max
  <2> QED BY <2>2
<1>3. PICK min \in {r, g, b} : min <= r /\ min <= g /\ min <= b /\ min = Min({r, g, b})
  <2>1. \E x \in {r, g, b} : x <= r /\ x <= g /\ x <= b
    BY <1>1
  <2>2. Min({r, g, b}) \in {r, g, b} /\ \A y \in {r, g, b} : Min({r, g, b}) <= y
    BY <2>1 DEF Min
  <2> QED BY <2>2
<1> DEFINE delta == max - min
           d == IF delta = 0 THEN 1 ELSE delta
           h == IF delta = 0 THEN 0
                ELSE IF r = max THEN g - b
                ELSE IF g = max THEN 2 * delta + b - r
                ELSE 4 * delta + r - g
<1>4. rgb2hsv(r, g, b) = [v |-> max, c |-> delta, d |-> d, h |-> h]
  BY <1>2, <1>3, Zenon DEF rgb2hsv, HSV
<1>5. max \in Int /\ delta \in Int /\ d \in Nat \ {0} /\ h \in Int /\ h < 6 * d
  BY <1>1, <1>2, <1>3
<1> HIDE DEF delta, d, h
<1> QED BY <1>4, <1>5 DEF HSVs

(* The pastel filter leaves the hue where it is. *)
LEMMA PaledOnWheel ==
  ASSUME NEW hsv \in HSVs, hsv.h < 6 * hsv.d
  PROVE  Paled(hsv) \in HSVs /\ Paled(hsv).h < 6 * Paled(hsv).d
<1>1. Paled(hsv) = [v |-> 10 * hsv.v, c |-> 6 * hsv.c, d |-> hsv.d, h |-> hsv.h]
  BY DEF Paled, HSV
<1>2. hsv.v \in Int /\ hsv.c \in Int /\ hsv.d \in Nat \ {0} /\ hsv.h \in Int
  BY DEF HSVs
<1>3. 10 * hsv.v \in Int /\ 6 * hsv.c \in Int
  BY <1>2
<1> QED BY <1>1, <1>2, <1>3 DEF HSVs

(* fmod stays below its divisor. *)
LEMMA FmodRange ==
  ASSUME NEW x \in Int, NEW m \in Nat \ {0}
  PROVE  fmod(x, m) \in Int /\ fmod(x, m) < m
<1>1. -x \in Int
  OBVIOUS
<1>2. x % m \in 0 .. m - 1 /\ (-x) % m \in 0 .. m - 1
  BY <1>1, Division
<1>3. PICK a \in 0 .. m - 1, b \in 0 .. m - 1 : a = x % m /\ b = (-x) % m
  BY <1>2
<1>4. fmod(x, m) = IF x >= 0 THEN a ELSE -b
  BY <1>3 DEF fmod
<1> QED BY <1>4

(* The hue filter turns it once around the wheel at most. *)
LEMMA RotatedOnWheel ==
  ASSUME NEW hsv \in HSVs, NEW degrees \in Int
  PROVE  rotate_hue(hsv, degrees) \in HSVs
         /\ rotate_hue(hsv, degrees).h < 6 * rotate_hue(hsv, degrees).d
<1>1. PICK v \in Int, c \in Int, d \in Nat \ {0}, h \in Int :
        v = hsv.v /\ c = hsv.c /\ d = hsv.d /\ h = hsv.h
  BY DEF HSVs
<1>2. rotate_hue(hsv, degrees) = [v |-> v, c |-> c, d |-> 60 * d, h |-> fmod(60 * h + degrees * d, 360 * d)]
  BY <1>1, Zenon DEF rotate_hue, HSV
<1>3. 60 * h + degrees * d \in Int /\ 360 * d \in Nat \ {0} /\ 60 * d \in Nat \ {0}
  BY <1>1
<1>4. PICK k \in Int : k = fmod(60 * h + degrees * d, 360 * d) /\ k < 360 * d
  BY <1>3, FmodRange
<1>5. k < 6 * (60 * d)
  BY <1>1, <1>4
<1>6. rotate_hue(hsv, degrees) = [v |-> v, c |-> c, d |-> 60 * d, h |-> k]
  BY <1>2, <1>4
<1> QED BY <1>1, <1>3, <1>5, <1>6 DEF HSVs

(* Every hue the filters meet lies on the wheel, behind its beginning       *)
(* perhaps.                                                                 *)
LEMMA HuesOnWheel ==
  ASSUME NEW p \in Pixels, NEW hsv \in Hues(p)
  PROVE  hsv \in HSVs /\ hsv.h < 6 * hsv.d
<1> DEFINE first == rgb2hsv(Field(p, 10), Field(p, 5), Field(p, 0))
<1>1. first \in HSVs /\ first.h < 6 * first.d
  <2>1. p \in Nat
    BY PixelsAssumption
  <2>2. Field(p, 10) \in Bytes /\ Field(p, 5) \in Bytes /\ Field(p, 0) \in Bytes
    BY <2>1, FieldByte
  <2> QED BY <2>2, HueOnWheel
<1>2. hsv = first \/ hsv = Paled(first) \/ \E degrees \in Rotations : hsv = rotate_hue(first, degrees)
  BY DEF Hues
<1> HIDE DEF first
<1> QED BY <1>1, <1>2, PaledOnWheel, RotatedOnWheel, PixelsAssumption

(* The filters, of a color and of a gray. *)

(* The bytes a fraction is cut off to are bytes. *)
LEMMA TruncatedByte ==
  ASSUME NEW d \in Nat \ {0}, NEW n \in 0 .. 255 * d
  PROVE  Truncated(n, d) \subseteq Bytes
<1>1. PICK q \in Int, r \in 0 .. d - 1 : n = q * d + r /\ n % d = r /\ n \div d = q
  BY Division
<1>2. q >= 0
  <2> SUFFICES ASSUME q <= -1 PROVE FALSE
    OBVIOUS
  <2>1. q * d <= (-1) * d
    OBVIOUS
  <2> QED BY <1>1, <2>1
<1>3. q <= 255
  <2> SUFFICES ASSUME q >= 256 PROVE FALSE
    OBVIOUS
  <2>1. q * d >= 256 * d
    OBVIOUS
  <2> QED BY <1>1, <2>1
<1>4. n > 0 /\ r = 0 => q >= 1
  <2> SUFFICES ASSUME q = 0, r = 0 PROVE n = 0
    BY <1>2
  <2> QED BY <1>1
<1>5. Truncated(n, d) = {q} \cup (IF r = 0 /\ n > 0 THEN {q - 1} ELSE {})
  BY <1>1 DEF Truncated
<1> QED BY <1>1, <1>2, <1>3, <1>4, <1>5 DEF Bytes

(* The duck filter makes colors. *)
LEMMA DuckSkin == ASSUME NEW c, IsColor(c), NEW x \in applyDuckSkin(c) PROVE IsColor(x)
BY DEF IsColor, applyDuckSkin, Bytes

(* The gray scale makes grays. *)
LEMMA GrayScale == ASSUME NEW c, IsColor(c), NEW x \in applyGrayScaleFilter(c) PROVE IsGray(x)
<1>1. PICK r \in 0 .. 255, g \in 0 .. 255, b \in 0 .. 255 : r = c[1] /\ g = c[2] /\ b = c[3]
  BY DEF IsColor, Bytes
<1>2. PICK d \in Nat \ {0} : d = 10000
  OBVIOUS
<1>3. PICK n \in Int : n = 2126 * c[1] + 7152 * c[2] + 722 * c[3]
  BY <1>1
<1>4. n >= 0 /\ n <= 255 * d
  <2>1. n = 2126 * r + 7152 * g + 722 * b
    BY <1>1, <1>3
  <2>2. 0 <= r /\ r <= 255 /\ 0 <= g /\ g <= 255 /\ 0 <= b /\ b <= 255 /\ r \in Int /\ g \in Int /\ b \in Int
    OBVIOUS
  <2> QED BY <1>2, <2>1, <2>2
<1>5. Truncated(n, d) \subseteq Bytes
  <2>1. n \in 0 .. 255 * d
    BY <1>4
  <2> QED BY <2>1, TruncatedByte
<1>6. PICK m \in Truncated(n, d) : x = <<m, m, m>>
  BY <1>2, <1>3 DEF applyGrayScaleFilter
<1> QED BY <1>5, <1>6 DEF IsGray, Equal

(* The inverse of a gray is a gray. *)
LEMMA GrayInverted == ASSUME NEW c, IsGray(c), NEW x \in applyInvertFilter(c) PROVE IsGray(x)
<1>1. x = <<255 - c[1], 255 - c[2], 255 - c[3]>> /\ c[1] = c[2] /\ c[2] = c[3]
  BY DEF applyInvertFilter, IsGray, Equal
<1>2. 255 - c[1] \in Bytes
  BY DEF IsGray, Bytes
<1> QED BY <1>1, <1>2 DEF IsGray, Equal

(* So is a gray with the noise of the CRT, the same for each channel. *)
LEMMA GrayDarkened ==
  ASSUME NEW c, IsGray(c), NEW line \in {0, 1}, NEW x \in applyCRTFilter(c, line)
  PROVE  IsGray(x)
<1>1. PICK n \in 0 .. 255 : c[1] = n /\ c[2] = n /\ c[3] = n
  BY DEF IsGray, Equal, Bytes
<1>2. PICK noise \in -5 .. 5 :
        x = [i \in 1 .. 3 |-> Clamp([k \in 1 .. 3 |-> IF line % 2 = 0 THEN (9 * c[k]) \div 10 ELSE c[k]][i]
                                    + noise)]
  BY DEF applyCRTFilter, Noise
<1>3. PICK m \in Int : m = IF line % 2 = 0 THEN (9 * n) \div 10 ELSE n
  <2>1. (9 * n) \div 10 \in Int
    OBVIOUS
  <2> QED BY <2>1
<1>4. \A k \in 1 .. 3 : c[k] = n
  BY <1>1
<1>5. ASSUME NEW i \in 1 .. 3 PROVE x[i] = Clamp(m + noise)
  BY <1>2, <1>3, <1>4
<1>6. Clamp(m + noise) \in Bytes
  <2>1. PICK k \in Int : k = m + noise
    OBVIOUS
  <2>2. Min({k, 255}) = IF k <= 255 THEN k ELSE 255
    <3>1. \A y \in {k, 255} : (IF k <= 255 THEN k ELSE 255) <= y
      OBVIOUS
    <3>2. Min({k, 255}) \in {k, 255} /\ \A y \in {k, 255} : Min({k, 255}) <= y
      BY <3>1 DEF Min
    <3> QED BY <3>2
  <2>3. Max({0, Min({k, 255})}) \in 0 .. 255
    <3>1. PICK j \in Int : j = Min({k, 255}) /\ j <= 255
      BY <2>2
    <3>2. Max({0, j}) = IF 0 >= j THEN 0 ELSE j
      BY GreatestOf
    <3> QED BY <3>1, <3>2
  <2> QED BY <2>1, <2>3 DEF Clamp, Bytes
<1> QED BY <1>5, <1>6 DEF IsGray, Equal

(* Without chroma the six sectors are one. *)
LEMMA Colorless ==
  ASSUME NEW in \in HSVs, in.c = 0
  PROVE  hsv2rgb(in) = <<in.v * in.d, in.v * in.d, in.v * in.d>>
<1>1. PICK v \in Int, d \in Nat \ {0}, h \in Int : v = in.v /\ d = in.d /\ h = in.h
  BY DEF HSVs
<1>2. PICK e \in Int : e = in.d - Distance(fmod(in.h, 2 * in.d), in.d)
  <2>1. 2 * d \in Nat \ {0}
    OBVIOUS
  <2>2. PICK k \in Int : k = fmod(h, 2 * d)
    BY <2>1, FmodRange
  <2>3. d - Distance(k, d) \in Int
    BY DEF Distance
  <2> QED BY <1>1, <2>2, <2>3
<1>3. PICK s \in 0 .. 5 : s = IF in.h >= 0 /\ in.h < 5 * in.d THEN in.h \div in.d ELSE 5
  <2>1. PICK q \in Int, r \in 0 .. d - 1 : h = q * d + r /\ h \div d = q
    BY Division
  <2>2. ASSUME h >= 0, h < 5 * d PROVE q \in 0 .. 5
    <3>1. ASSUME q <= -1 PROVE FALSE
      <4>1. q * d <= (-1) * d
        BY <3>1
      <4> QED BY <2>1, <2>2, <4>1
    <3>2. ASSUME q >= 6 PROVE FALSE
      <4>1. q * d >= 6 * d
        BY <3>2
      <4> QED BY <2>1, <2>2, <4>1
    <3> QED BY <3>1, <3>2
  <2>3. (IF h >= 0 /\ h < 5 * d THEN h \div d ELSE 5) \in 0 .. 5
    BY <2>1, <2>2
  <2> QED BY <1>1, <2>3
<1> DEFINE x == in.c * e
           m == (in.v - in.c) * in.d
<1>4. hsv2rgb(in) =
        CASE s = 0 -> <<in.c * in.d + m, x + m, m>>
          [] s = 1 -> <<x + m, in.c * in.d + m, m>>
          [] s = 2 -> <<m, in.c * in.d + m, x + m>>
          [] s = 3 -> <<m, x + m, in.c * in.d + m>>
          [] s = 4 -> <<x + m, m, in.c * in.d + m>>
          [] s = 5 -> <<in.c * in.d + m, m, x + m>>
  BY <1>2, <1>3, Zenon DEF hsv2rgb
<1>5. PICK n \in Int : n = v * d
  OBVIOUS
<1>6. m = n /\ x + m = n /\ in.c * in.d + m = n
  <2>1. in.c = 0 /\ v - 0 = v /\ 0 * e = 0 /\ 0 * d = 0
    OBVIOUS
  <2> QED BY <1>1, <1>5, <2>1
<1> HIDE DEF x, m
<1>7. s = 0 \/ s = 1 \/ s = 2 \/ s = 3 \/ s = 4 \/ s = 5
  OBVIOUS
<1>8. hsv2rgb(in) = <<n, n, n>>
  BY <1>4, <1>6, <1>7
<1> QED BY <1>1, <1>5, <1>8

(* A gray has no hue. *)
LEMMA GrayHue ==
  ASSUME NEW n \in 0 .. 255
  PROVE  rgb2hsv(n, n, n) = HSV(n, 0, 1, 0)
<1>1. {n, n, n} = {n} /\ Max({n}) = n /\ Min({n}) = n
  <2>1. n \in {n} /\ \A y \in {n} : n >= y /\ n <= y
    OBVIOUS
  <2>2. Max({n}) \in {n} /\ Min({n}) \in {n}
    BY <2>1 DEF Max, Min
  <2> QED BY <2>2
<1>2. n - n = 0
  OBVIOUS
<1> QED BY <1>1, <1>2 DEF rgb2hsv

(* A gray that a filter takes apart and puts together again is a gray. *)
LEMMA GrayConverted ==
  ASSUME NEW d \in Nat \ {0}, NEW k \in 0 .. 255 * d, NEW x \in Converted(<<k, k, k>>, d)
  PROVE  IsGray(x)
<1>1. Equal(<<k, k, k>>) /\ <<k, k, k>>[1] = k
  BY DEF Equal
<1>2. PICK n \in Truncated(k, d) : x = <<n, n, n>>
  BY <1>1 DEF Converted
<1>3. n \in Bytes
  BY TruncatedByte
<1> QED BY <1>2, <1>3 DEF IsGray, Equal

(* The pastel filter leaves a gray a gray. *)
LEMMA GrayPaled == ASSUME NEW c, IsGray(c), NEW x \in applyPastelFilter(c) PROVE IsGray(x)
<1>1. PICK n \in 0 .. 255 : c[1] = n /\ c[2] = n /\ c[3] = n
  BY DEF IsGray, Equal, Bytes
<1> DEFINE hsv == Paled(rgb2hsv(c[1], c[2], c[3]))
<1>2. hsv = HSV(10 * n, 0, 1, 0)
  <2>1. rgb2hsv(c[1], c[2], c[3]) = HSV(n, 0, 1, 0)
    BY <1>1, GrayHue
  <2> QED BY <2>1 DEF Paled, HSV
<1>3. hsv \in HSVs /\ hsv.c = 0 /\ hsv.v = 10 * n /\ hsv.d = 1
  BY <1>2 DEF HSV, HSVs
<1>4. x \in Converted(hsv2rgb(hsv), 10 * hsv.d)
  BY DEF applyPastelFilter
<1> HIDE DEF hsv
<1>5. hsv2rgb(hsv) = <<hsv.v * hsv.d, hsv.v * hsv.d, hsv.v * hsv.d>>
  BY <1>3, Colorless
<1>6. hsv.v * hsv.d = 10 * n /\ 10 * hsv.d = 10
  BY <1>3
<1>7. x \in Converted(<<10 * n, 10 * n, 10 * n>>, 10)
  BY <1>4, <1>5, <1>6
<1>8. 10 * n \in 0 .. 255 * 10 /\ 10 \in Nat \ {0}
  OBVIOUS
<1> QED BY <1>7, <1>8, GrayConverted

(* So does the hue filter. *)
LEMMA GrayTurned ==
  ASSUME NEW c, IsGray(c), NEW degrees \in Int, NEW x \in applyHueFilter(c, degrees)
  PROVE  IsGray(x)
<1>1. PICK n \in 0 .. 255 : c[1] = n /\ c[2] = n /\ c[3] = n
  BY DEF IsGray, Equal, Bytes
<1> DEFINE hsv == rotate_hue(rgb2hsv(c[1], c[2], c[3]), degrees)
<1>2. PICK h \in Int : hsv = HSV(n, 0, 60, h)
  <2>1. rgb2hsv(c[1], c[2], c[3]) = HSV(n, 0, 1, 0)
    BY <1>1, GrayHue
  <2>2. 360 * 1 \in Nat \ {0} /\ 60 * 0 + degrees * 1 \in Int
    OBVIOUS
  <2>3. fmod(60 * 0 + degrees * 1, 360 * 1) \in Int
    BY <2>2, FmodRange
  <2>4. hsv = HSV(n, 0, 60 * 1, fmod(60 * 0 + degrees * 1, 360 * 1))
    BY <2>1 DEF rotate_hue, HSV
  <2>5. 60 * 1 = 60
    OBVIOUS
  <2> HIDE DEF hsv
  <2> QED BY <2>3, <2>4, <2>5
<1>3. hsv \in HSVs /\ hsv.c = 0 /\ hsv.v = n /\ hsv.d = 60
  BY <1>2 DEF HSV, HSVs
<1>4. x \in Converted(hsv2rgb(hsv), hsv.d)
  BY DEF applyHueFilter
<1> HIDE DEF hsv
<1>5. hsv2rgb(hsv) = <<hsv.v * hsv.d, hsv.v * hsv.d, hsv.v * hsv.d>>
  BY <1>3, Colorless
<1>6. x \in Converted(<<n * 60, n * 60, n * 60>>, 60)
  BY <1>3, <1>4, <1>5
<1>7. n * 60 \in 0 .. 255 * 60 /\ 60 \in Nat \ {0}
  OBVIOUS
<1> QED BY <1>6, <1>7, GrayConverted

(* What is shown of a gray picture is gray. *)
LEMMA GrayShown ==
  ASSUME NEW p \in Pixels, NEW c \in Grays(p)
  PROVE  IsGray(c)
<1>1. PICK s \in Settings : "grayscale" \in s.on /\ c \in decodePixel(p, s.on, s.line, s.degrees)
  BY DEF Grays
<1>2. s.line \in {0, 1} /\ s.degrees \in Int
  BY PixelsAssumption DEF Settings
<1> DEFINE c0 == {<<Field(p, 10), Field(p, 5), Field(p, 0)>>}
           c1 == IF "duck" \in s.on THEN UNION {applyDuckSkin(x) : x \in c0} ELSE c0
           c2 == IF "grayscale" \in s.on THEN UNION {applyGrayScaleFilter(x) : x \in c1} ELSE c1
           c3 == IF "invert" \in s.on THEN UNION {applyInvertFilter(x) : x \in c2} ELSE c2
           c4 == IF "pastel" \in s.on THEN UNION {applyPastelFilter(x) : x \in c3} ELSE c3
           c5 == IF "hue" \in s.on THEN UNION {applyHueFilter(x, s.degrees) : x \in c4} ELSE c4
           c6 == IF "crt" \in s.on THEN UNION {applyCRTFilter(x, s.line) : x \in c5} ELSE c5
<1>3. c \in c6
  BY <1>1 DEF decodePixel
<1>4. \A x \in c0 : IsColor(x)
  <2>1. p \in Nat
    BY PixelsAssumption
  <2>2. Field(p, 10) \in Bytes /\ Field(p, 5) \in Bytes /\ Field(p, 0) \in Bytes
    BY <2>1, FieldByte
  <2> QED BY <2>2 DEF IsColor
<1> HIDE DEF c0
<1>5. \A x \in c1 : IsColor(x)
  BY <1>4, DuckSkin
<1> HIDE DEF c1
<1>6. \A x \in c2 : IsGray(x)
  BY <1>1, <1>5, GrayScale
<1> HIDE DEF c2
<1>7. \A x \in c3 : IsGray(x)
  BY <1>6, GrayInverted
<1> HIDE DEF c3
<1>8. \A x \in c4 : IsGray(x)
  BY <1>7, GrayPaled
<1> HIDE DEF c4
<1>9. \A x \in c5 : IsGray(x)
  BY <1>2, <1>8, GrayTurned
<1> HIDE DEF c5
<1>10. \A x \in c6 : IsGray(x)
  BY <1>2, <1>9, GrayDarkened
<1> QED BY <1>3, <1>10

(* A frame shows the video memory, whatever the first column was. *)
LEMMA FrameShows ==
  ASSUME NEW column
  PROVE  UNION {AddressesOf(render(column)[y]) : y \in DOMAIN render(column)} = Video
<1> DEFINE frame == render(column)
           Address(x, y) == 20992 + 2 * (x + y * 64)
<1>1. DOMAIN frame = 0 .. 59 /\ \A y \in 0 .. 59 : DOMAIN frame[y] = 0 .. 63
  BY DEF render, Row, kDisplayHeight, kDisplayWidth
<1>2. \A y \in 0 .. 59 : \A x \in 0 .. 63 : frame[y][x].address = Address(x, y)
  <2>1. ASSUME NEW y \in 0 .. 59, NEW x \in 0 .. 63, NEW c
        PROVE  Row(y, c)[x].address = getPixelAddress(x, y)
    BY DEF Row, kDisplayWidth
  <2>2. ASSUME NEW y \in 0 .. 59 PROVE \E c : frame[y] = Row(y, c)
    BY DEF render, kDisplayHeight
  <2>3. ASSUME NEW y \in 0 .. 59, NEW x \in 0 .. 63 PROVE getPixelAddress(x, y) = Address(x, y)
    BY DEF getPixelAddress, kDisplayWidth
  <2> HIDE DEF frame, Address
  <2> QED BY <2>1, <2>2, <2>3
<1> HIDE DEF frame
<1>3. \A y \in 0 .. 59 : AddressesOf(frame[y]) = {Address(x, y) : x \in 0 .. 63}
  <2> HIDE DEF Address
  <2>1. ASSUME NEW y \in 0 .. 59 PROVE AddressesOf(frame[y]) = {Address(x, y) : x \in 0 .. 63}
    <3>1. AddressesOf(frame[y]) = {frame[y][x].address : x \in 0 .. 63}
      BY <1>1 DEF AddressesOf
    <3> QED BY <1>2, <3>1
  <2> QED BY <2>1
<1>4. ASSUME NEW y \in 0 .. 59, NEW x \in 0 .. 63 PROVE Address(x, y) \in Video
  <2>1. PICK k \in 0 .. 3839 : k = x + y * 64
    OBVIOUS
  <2>2. 20992 + 2 * k \in 20992 .. 28671 /\ (20992 + 2 * k) % 2 = 0
    OBVIOUS
  <2>3. Address(x, y) = 20992 + 2 * k
    BY <2>1
  <2>4. 20992 + 2 * k \in Video
    <3>2. PICK a \in 20992 .. 28671 : a = 20992 + 2 * k /\ a % 2 = 0
      BY <2>2
    <3>3. a \in Video
      <4>1. a % 2 = 0
        BY <3>2
      <4> QED BY <4>1, SMTT(30) DEF Video
    <3> QED BY <3>2, <3>3
  <2> QED BY <2>3, <2>4
<1>5. ASSUME NEW a \in Video PROVE \E y \in 0 .. 59, x \in 0 .. 63 : a = Address(x, y)
  <2>1. PICK k \in 0 .. 3839 : a = 20992 + 2 * k
    <3>1. a \in Int /\ a >= 20992 /\ a <= 28671 /\ a % 2 = 0
      BY DEF Video
    <3>2. PICK j \in Int : a = 2 * j
      BY <3>1
    <3>3. j - 10496 \in 0 .. 3839 /\ a = 20992 + 2 * (j - 10496)
      BY <3>1, <3>2
    <3> QED BY <3>3
  <2>2. k \div 64 \in 0 .. 59 /\ k % 64 \in 0 .. 63 /\ k = (k % 64) + (k \div 64) * 64
    OBVIOUS
  <2> QED BY <2>1, <2>2
<1>6. UNION {AddressesOf(frame[y]) : y \in 0 .. 59} = Video
  <2> HIDE DEF Address
  <2>1. ASSUME NEW a PROVE a \in UNION {AddressesOf(frame[y]) : y \in 0 .. 59}
                           <=> \E y \in 0 .. 59, x \in 0 .. 63 : a = Address(x, y)
    BY <1>3
  <2>2. \A a : a \in Video <=> \E y \in 0 .. 59, x \in 0 .. 63 : a = Address(x, y)
    BY <1>4, <1>5
  <2> QED BY <2>1, <2>2
<1> QED BY <1>1, <1>6 DEF frame

(* What FramesShown says of a program and of what it showed. *)
Shown(program, shown) ==
  /\ program = "pixel" => /\ \A hsv \in shown.hues : OnWheel(hsv)
                         /\ \A c \in shown.gray : Equal(c) /\ c[1] \in Bytes
  /\ program = "frame" => UNION {AddressesOf(shown[y]) : y \in DOMAIN shown} = Video

(* Nothing is computed yet. *)
Unshown(shown) == shown = << >>

(* FramesShown holds, for all colors, all degrees of the hue filter and     *)
(* whatever current_column_ is before a frame: where a hue is not negative, *)
(* six sectors by hand are the color wheel; a gray stays gray; and a frame  *)
(* shows each two bytes of the video memory once.                           *)
THEOREM FramesAreShown == Spec => []FramesShown
<1>0. FramesShown <=> Unshown(result) \/ Shown(task.program, result)
  BY DEF FramesShown, Done, Shown, Unshown
<1>a. FramesShown' <=> (Unshown(result) \/ Shown(task.program, result))'
  BY <1>0, PTL
<1>1. Init => FramesShown
  BY DEF Init, FramesShown, Done
<1>2. ASSUME Given, FramesShown, [Next]_<<task, result>> PROVE FramesShown'
  <2> SUFFICES Unshown(result') \/ Shown(task'.program, result')
    BY <1>a
  <2>1. CASE Pixel
    <3>1. task.input \in Pixels /\ task' = task /\ task.program = "pixel"
          /\ result' = [hues |-> Hues(task.input), gray |-> Grays(task.input)]
      BY <1>2, <2>1 DEF Pixel, Compute, Given
    <3>2. ASSUME NEW hsv \in result'.hues PROVE OnWheel(hsv)
      <4>1. hsv \in HSVs /\ hsv.h < 6 * hsv.d
        BY <3>1, HuesOnWheel
      <4> QED BY <4>1, Wheel DEF OnWheel
    <3>3. ASSUME NEW c \in result'.gray PROVE Equal(c) /\ c[1] \in Bytes
      BY <3>1, GrayShown DEF IsGray
    <3> QED BY <3>1, <3>2, <3>3 DEF Shown
  <2>2. CASE Frame
    <3>1. task' = task /\ task.program = "frame" /\ result' = render(task.input)
      BY <2>2 DEF Frame, Compute
    <3>2. UNION {AddressesOf(result'[y]) : y \in DOMAIN result'} = Video
      BY <3>1, FrameShows
    <3> QED BY <3>1, <3>2 DEF Shown
  <2>3. CASE Sorting \/ NumTheory \/ Cipher \/ LifeGame
    <3>1. task'.program # "pixel" /\ task'.program # "frame"
      <4>1. CASE Sorting
        BY <4>1 DEF Sorting, Compute
      <4>2. CASE NumTheory
        BY <4>2 DEF NumTheory, Compute
      <4>3. CASE Cipher
        BY <4>3 DEF Cipher, Compute
      <4>4. CASE LifeGame
        BY <4>4 DEF LifeGame, Compute
      <4> QED BY <2>3, <4>1, <4>2, <4>3, <4>4
    <3> QED BY <3>1 DEF Shown
  <2>4. CASE UNCHANGED <<task, result>>
    <3>1. task' = task /\ result' = result
      BY <2>4
    <3> QED BY <1>0, <1>2, <3>1
  <2> QED BY <1>2, <2>1, <2>2, <2>3, <2>4 DEF Next
<1> QED BY <1>1, <1>2, GivenAlways, PTL DEF Spec

----------------------------------------------------------------------------
(* The greatest common divisor. *)

(* x is a multiple of d. *)
Multiple(x, d) == \E k \in Int : x = k * d

(* A divisor in the sense of the model is one in the usual sense. *)
LEMMA Multiples ==
  ASSUME NEW d \in Nat \ {0}, NEW x \in Int
  PROVE  Multiple(x, d) <=> Divides(d, x)
<1>1. PICK q \in Int, r \in 0 .. d - 1 : x = q * d + r /\ x % d = r
  BY Division
<1>2. ASSUME Divides(d, x) PROVE Multiple(x, d)
  <2>1. x = q * d
    BY <1>1, <1>2 DEF Divides
  <2> QED BY <2>1 DEF Multiple
<1>3. ASSUME Multiple(x, d) PROVE Divides(d, x)
  <2>1. PICK k \in Int : x = k * d
    BY <1>3 DEF Multiple
  <2>2. x = k * d + 0 /\ 0 \in 0 .. d - 1
    BY <2>1
  <2>3. x % d = 0
    BY <2>2, Remainder
  <2> QED BY <2>3 DEF Divides
<1> QED BY <1>2, <1>3

(* What divides x and y divides q * x + y. *)
LEMMA SumOfMultiples ==
  ASSUME NEW d \in Int, NEW x \in Int, NEW y \in Int, NEW q \in Int, Multiple(x, d), Multiple(y, d)
  PROVE  Multiple(q * x + y, d)
<1>1. PICK k \in Int : x = k * d
  BY DEF Multiple
<1>2. PICK l \in Int : y = l * d
  BY DEF Multiple
<1>3. q * x + y = (q * k + l) * d
  BY <1>1, <1>2
<1>4. q * k + l \in Int
  OBVIOUS
<1> QED BY <1>3, <1>4 DEF Multiple

(* The common divisors. *)
Common(x, y) == {d \in Nat \ {0} : Multiple(x, d) /\ Multiple(y, d)}

(* A round of the loop of gcd keeps the common divisors. *)
LEMMA CommonRound ==
  ASSUME NEW x \in Nat, NEW y \in Nat \ {0}
  PROVE  Common(y, x % y) = Common(x, y)
<1>1. PICK q \in Int, r \in 0 .. y - 1 : x = q * y + r /\ x % y = r
  BY Division
<1>2. ASSUME NEW d \in Common(x, y) PROVE d \in Common(y, x % y)
  <2>1. d \in Int /\ Multiple(x, d) /\ Multiple(y, d)
    BY <1>2 DEF Common
  <2>0. PICK p \in Int : p = -q
    OBVIOUS
  <2>2. Multiple(p * y + x, d)
    <3>1. x \in Int /\ y \in Int
      OBVIOUS
    <3> QED BY <2>0, <2>1, <3>1, SumOfMultiples
  <2>3. p * y + x = r
    BY <1>1, <2>0
  <2> QED BY <1>1, <1>2, <2>1, <2>2, <2>3 DEF Common
<1>3. ASSUME NEW d \in Common(y, x % y) PROVE d \in Common(x, y)
  <2>1. d \in Int /\ Multiple(y, d) /\ Multiple(r, d)
    BY <1>1, <1>3 DEF Common
  <2>2. Multiple(q * y + r, d)
    <3>1. r \in Int /\ y \in Int /\ q \in Int
      BY <1>1
    <3> QED BY <2>1, <3>1, SumOfMultiples
  <2> QED BY <1>1, <1>3, <2>1, <2>2 DEF Common
<1> QED BY <1>2, <1>3

(* The states of the loop of gcd, and those in which it goes on. *)
Pairs == Nat \X Nat

More == {s \in Pairs : s[2] # 0}

(* The equation of the loop of gcd. *)
LEMMA GcdLoopEquation ==
  ASSUME NEW s \in Pairs
  PROVE  GcdLoop[s] = IF s[2] # 0 THEN GcdLoop[<<s[2], s[1] % s[2]>>] ELSE s[1]
<1> DEFINE next == [v \in Pairs |-> IF v[2] # 0 THEN <<v[2], v[1] % v[2]>> ELSE v]
           measure == [v \in Pairs |-> v[2]]
           out == [v \in Pairs |-> v[1]]
           Body(f, v) == IF v[2] # 0 THEN f[<<v[2], v[1] % v[2]>>] ELSE v[1]
           Eq(f) == f = [v \in Nat \X Nat |-> Body(f, v)]
           loop == CHOOSE f : Eq(f)
<1>1. ASSUME NEW x \in Nat, NEW y \in Nat \ {0} PROVE x % y \in Nat /\ x % y < y
  <2>1. PICK q \in Int, r \in 0 .. y - 1 : x % y = r
    BY Division
  <2> QED BY <2>1
<1>2. IsLoop(Pairs, More, next, measure)
  <2>1. next \in [Pairs -> Pairs]
    BY <1>1 DEF Pairs
  <2>2. measure \in [Pairs -> Nat]
    BY DEF Pairs
  <2>3. ASSUME NEW v \in More PROVE measure[next[v]] < measure[v]
    <3>1. v \in Pairs /\ v[1] \in Nat /\ v[2] \in Nat \ {0}
      BY DEF More, Pairs
    <3>2. next[v] = <<v[2], v[1] % v[2]>> /\ next[v] \in Pairs
      BY <1>1, <3>1 DEF Pairs
    <3> QED BY <1>1, <3>1, <3>2
  <2> HIDE DEF next, measure
  <2> QED BY <2>1, <2>2, <2>3 DEF IsLoop, More
<1>3. PICK f \in [Pairs -> Nat] : LoopOf(Pairs, More, next, out, f)
  <2>1. out \in [Pairs -> Nat]
    BY DEF Pairs
  <2> HIDE DEF next, measure, out
  <2> QED BY <1>2, <2>1, LoopEnds
<1>4. ASSUME NEW v \in Pairs PROVE f[v] = Body(f, v)
  <2>1. f[v] = IF v \in More THEN f[next[v]] ELSE out[v]
    <3> HIDE DEF next, out
    <3> QED BY <1>3, Zenon DEF LoopOf
  <2> QED BY <2>1 DEF More
<1>5. Eq(f)
  <2>1. f = [v \in Pairs |-> f[v]]
    BY <1>3
  <2> HIDE DEF Body
  <2> QED BY <1>4, <2>1, Zenon DEF Pairs
<1>6. Eq(loop)
  <2> HIDE DEF Eq
  <2> QED BY <1>5
<1>7. GcdLoop = loop
  BY DEF GcdLoop
<1> HIDE DEF loop
<1>8. loop[s] = Body(loop, s)
  <2> HIDE DEF Body
  <2> QED BY <1>6, Zenon DEF Pairs
<1> QED BY <1>7, <1>8

(* The greatest of a set. *)
IsGreatest(g, T) == g \in T /\ \A d \in T : d <= g

(* The loop of gcd ends with the greatest common divisor. *)
LEMMA GcdLoopRight ==
  ASSUME NEW x \in Nat, NEW y \in Nat, ~(x = 0 /\ y = 0)
  PROVE  IsGreatest(GcdLoop[<<x, y>>], Common(x, y))
<1> DEFINE next == [v \in Pairs |-> IF v[2] # 0 THEN <<v[2], v[1] % v[2]>> ELSE v]
           measure == [v \in Pairs |-> v[2]]
           Good == {v \in Pairs : ~(v[1] = 0 /\ v[2] = 0) => IsGreatest(GcdLoop[v], Common(v[1], v[2]))}
<1>1. ASSUME NEW a \in Nat, NEW b \in Nat \ {0} PROVE a % b \in Nat /\ a % b < b
  <2>1. PICK q \in Int, r \in 0 .. b - 1 : a % b = r
    BY Division
  <2> QED BY <2>1
<1>2. IsLoop(Pairs, More, next, measure)
  <2>1. next \in [Pairs -> Pairs]
    BY <1>1 DEF Pairs
  <2>2. measure \in [Pairs -> Nat]
    BY DEF Pairs
  <2>3. ASSUME NEW v \in More PROVE measure[next[v]] < measure[v]
    <3>1. v \in Pairs /\ v[1] \in Nat /\ v[2] \in Nat \ {0}
      BY DEF More, Pairs
    <3>2. next[v] = <<v[2], v[1] % v[2]>> /\ next[v] \in Pairs
      BY <1>1, <3>1 DEF Pairs
    <3> QED BY <1>1, <3>1, <3>2
  <2> HIDE DEF next, measure
  <2> QED BY <2>1, <2>2, <2>3 DEF IsLoop, More
<1>3. ASSUME NEW v \in Pairs \ More PROVE v \in Good
  <2>1. v[1] \in Nat /\ v[2] = 0 /\ v \in Pairs
    BY DEF More, Pairs
  <2> SUFFICES ASSUME v[1] # 0 PROVE IsGreatest(v[1], Common(v[1], 0))
    BY <2>1, GcdLoopEquation
  <2>2. v[1] \in Common(v[1], 0)
    <3>1. v[1] = 1 * v[1] /\ 0 = 0 * v[1]
      BY <2>1
    <3> QED BY <2>1, <3>1 DEF Common, Multiple
  <2>3. ASSUME NEW d \in Common(v[1], 0) PROVE d <= v[1]
    <3>1. d \in Nat \ {0} /\ Multiple(v[1], d)
      BY DEF Common
    <3>2. PICK k \in Int : v[1] = k * d
      BY <3>1 DEF Multiple
    <3>3. k >= 1
      <4> SUFFICES ASSUME k <= 0 PROVE FALSE
        OBVIOUS
      <4>1. k * d <= 0
        BY <3>1
      <4> QED BY <2>1, <3>2, <4>1
    <3>4. k * d >= 1 * d
      BY <3>1, <3>3
    <3> QED BY <3>1, <3>2, <3>4
  <2> QED BY <2>2, <2>3 DEF IsGreatest
<1>4. ASSUME NEW v \in More, next[v] \in Good PROVE v \in Good
  <2>1. v \in Pairs /\ v[1] \in Nat /\ v[2] \in Nat \ {0}
    BY DEF More, Pairs
  <2>2. PICK r \in Nat : r = v[1] % v[2]
    BY <1>1, <2>1
  <2>3. next[v] = <<v[2], r>>
    BY <2>1, <2>2
  <2>4. IsGreatest(GcdLoop[<<v[2], r>>], Common(v[2], r))
    <3>1. <<v[2], r>>[1] = v[2] /\ <<v[2], r>>[2] = r /\ <<v[2], r>> \in Good
      BY <1>4, <2>3
    <3> HIDE DEF next
    <3> QED BY <2>1, <3>1
  <2>5. Common(v[2], r) = Common(v[1], v[2])
    BY <2>1, <2>2, CommonRound
  <2>6. GcdLoop[v] = GcdLoop[<<v[2], r>>]
    BY <2>1, <2>2, GcdLoopEquation
  <2> QED BY <2>1, <2>4, <2>5, <2>6
<1>5. Pairs \subseteq Good
  <2> HIDE DEF next, measure, Good
  <2> QED BY <1>2, <1>3, <1>4, LoopInduction
<1>6. <<x, y>> \in Pairs /\ <<x, y>>[1] = x /\ <<x, y>>[2] = y
  BY DEF Pairs
<1> QED BY <1>5, <1>6

(* gcd(a, n) is the greatest of the common divisors, and below n. *)
LEMMA GcdRight ==
  ASSUME NEW n \in Nat \ {0, 1}, NEW a \in 0 .. n - 1
  PROVE  /\ gcd(a, n) \in 1 .. n
         /\ IsGreatest(gcd(a, n), Common(n, a))
         /\ gcd(a, n) = Max({d \in 1 .. n : Divides(d, a) /\ Divides(d, n)})
<1>1. Magnitude(a) = a /\ Magnitude(n) = n
  BY DEF Magnitude
<1>2. Max({a, n}) = n /\ Min({a, n}) = a
  BY DEF Max, Min
<1>3. gcd(a, n) = GcdLoop[<<n, a>>]
  BY <1>1, <1>2 DEF gcd
<1>4. IsGreatest(gcd(a, n), Common(n, a))
  BY <1>3, GcdLoopRight
<1> DEFINE T == {d \in 1 .. n : Divides(d, a) /\ Divides(d, n)}
<1>5. ASSUME NEW d \in Common(n, a) PROVE d \in T
  <2>1. d \in Nat \ {0} /\ Multiple(n, d) /\ Multiple(a, d)
    BY DEF Common
  <2>2. PICK k \in Int : n = k * d
    BY <2>1 DEF Multiple
  <2>3. k >= 1
    <3> SUFFICES ASSUME k <= 0 PROVE FALSE
      OBVIOUS
    <3>1. k * d <= 0
      BY <2>1
    <3> QED BY <2>2, <3>1
  <2>4. k * d >= 1 * d
    BY <2>1, <2>3
  <2>5. d \in 1 .. n
    BY <2>1, <2>2, <2>4
  <2> QED BY <2>1, <2>5, Multiples
<1>6. ASSUME NEW d \in T PROVE d \in Common(n, a)
  BY Multiples DEF Common
<1>7. T = Common(n, a)
  BY <1>5, <1>6
<1>8. gcd(a, n) = Max(T)
  <2> HIDE DEF T
  <2>1. \A d \in T : d \in Int
    BY <1>7 DEF Common
  <2>2. gcd(a, n) \in T /\ \A d \in T : gcd(a, n) >= d
    BY <1>4, <1>7, <2>1 DEF IsGreatest
  <2> QED BY <2>1, <2>2 DEF Max
<1>9. gcd(a, n) \in 1 .. n
  BY <1>4, <1>5 DEF IsGreatest
<1> QED BY <1>4, <1>8, <1>9

----------------------------------------------------------------------------
(* The inverse. *)

(* The variables of mod_inverse. *)
Vars(r, r0, t, t0) == [r |-> r, r0 |-> r0, t |-> t, t0 |-> t0]

(* Those in which it goes on. *)
MoreInverse == {s \in InverseVars : s.r0 # 0}

(* A round of mod_inverse: r and r0 are divided, t and t0 follow with the   *)
(* quotient.                                                                *)
LEMMA InverseRoundOf ==
  ASSUME NEW r \in Nat, NEW r0 \in Nat \ {0}, NEW t \in Int, NEW t0 \in Int
  PROVE  \E q \in Nat, e \in Nat :
           /\ r = q * r0 + e /\ e < r0 /\ e = r % r0
           /\ InverseRound(Vars(r, r0, t, t0)) = Vars(r0, e, t0, t - q * t0)
           /\ Vars(r0, e, t0, t - q * t0) \in InverseVars
<1>1. PICK q \in Int, e \in 0 .. r0 - 1 : r = q * r0 + e /\ r % r0 = e /\ r \div r0 = q
  BY Division
<1>2. q >= 0
  <2> SUFFICES ASSUME q <= -1 PROVE FALSE
    OBVIOUS
  <2>1. q * r0 <= -1 * r0
    OBVIOUS
  <2> QED BY <1>1, <2>1
<1>3. r - q * r0 = e
  <2>1. q * r0 \in Int
    OBVIOUS
  <2> QED BY <1>1, <2>1
<1>4. t - q * t0 \in Int
  OBVIOUS
<1>5. InverseRound(Vars(r, r0, t, t0)) = Vars(r0, e, t0, t - q * t0)
  BY <1>1, <1>3 DEF InverseRound, Vars
<1>6. Vars(r0, e, t0, t - q * t0) \in InverseVars
  BY <1>1, <1>4 DEF Vars, InverseVars
<1>7. q \in Nat /\ e \in Nat /\ e < r0
  BY <1>1, <1>2
<1> QED BY <1>1, <1>5, <1>6, <1>7

(* Its loop. *)
InverseNext == [s \in InverseVars |-> IF s \in MoreInverse THEN InverseRound(s) ELSE s]

InverseMeasure == [s \in InverseVars |-> s.r0]

(* The loop of mod_inverse makes r0 less. *)
LEMMA InverseLoops == IsLoop(InverseVars, MoreInverse, InverseNext, InverseMeasure)
<1>1. ASSUME NEW s \in MoreInverse
      PROVE  InverseRound(s) \in InverseVars /\ InverseRound(s).r0 < s.r0
  <2>1. s \in InverseVars /\ s.r0 # 0
    BY DEF MoreInverse
  <2>2. PICK r \in Nat, r0 \in Nat \ {0}, t \in Int, t0 \in Int : s = Vars(r, r0, t, t0)
    BY <2>1 DEF InverseVars, Vars
  <2>3. PICK q \in Nat, e \in Nat :
          /\ e < r0 /\ InverseRound(Vars(r, r0, t, t0)) = Vars(r0, e, t0, t - q * t0)
          /\ Vars(r0, e, t0, t - q * t0) \in InverseVars
    BY <2>2, InverseRoundOf
  <2>4. Vars(r0, e, t0, t - q * t0).r0 = e /\ Vars(r, r0, t, t0).r0 = r0
    BY DEF Vars
  <2> QED BY <2>2, <2>3, <2>4
<1>2. InverseNext \in [InverseVars -> InverseVars]
  BY <1>1 DEF InverseNext
<1>3. InverseMeasure \in [InverseVars -> Nat]
  BY DEF InverseMeasure, InverseVars
<1>4. ASSUME NEW s \in MoreInverse PROVE InverseMeasure[InverseNext[s]] < InverseMeasure[s]
  <2>1. s \in InverseVars /\ InverseNext[s] = InverseRound(s)
    BY DEF InverseNext, MoreInverse
  <2>2. InverseMeasure[s] = s.r0 /\ InverseMeasure[InverseRound(s)] = InverseRound(s).r0
    BY <1>1, <2>1 DEF InverseMeasure
  <2> QED BY <1>1, <2>1, <2>2
<1> QED BY <1>2, <1>3, <1>4 DEF IsLoop, MoreInverse

(* The equation of the loop of mod_inverse. *)
LEMMA InverseLoopEquation ==
  ASSUME NEW s \in InverseVars
  PROVE  InverseLoop[s] = IF s.r0 # 0 THEN InverseLoop[InverseRound(s)] ELSE s
<1> DEFINE out == [v \in InverseVars |-> v]
           Body(f, v) == IF v.r0 # 0 THEN f[InverseRound(v)] ELSE v
           Eq(f) == f = [v \in InverseVars |-> Body(f, v)]
           loop == CHOOSE f : Eq(f)
<1>1. PICK f \in [InverseVars -> InverseVars] : LoopOf(InverseVars, MoreInverse, InverseNext, out, f)
  <2>1. out \in [InverseVars -> InverseVars]
    OBVIOUS
  <2> HIDE DEF out
  <2> QED BY <2>1, InverseLoops, LoopEnds
<1>2. ASSUME NEW v \in InverseVars PROVE f[v] = Body(f, v)
  <2>1. f[v] = IF v \in MoreInverse THEN f[InverseNext[v]] ELSE out[v]
    <3> HIDE DEF out
    <3> QED BY <1>1, Zenon DEF LoopOf
  <2>2. CASE v.r0 # 0
    <3>1. v \in MoreInverse /\ InverseNext[v] = InverseRound(v)
      BY <2>2, Zenon DEF MoreInverse, InverseNext
    <3> QED BY <2>1, <2>2, <3>1
  <2>3. CASE v.r0 = 0
    <3>1. v \notin MoreInverse /\ out[v] = v
      BY <2>3, Zenon DEF MoreInverse
    <3> HIDE DEF out
    <3> QED BY <2>1, <2>3, <3>1
  <2> QED BY <2>2, <2>3
<1>3. Eq(f)
  <2>1. f = [v \in InverseVars |-> f[v]]
    BY <1>1
  <2> HIDE DEF Body
  <2> QED BY <1>2, <2>1, Zenon
<1>4. Eq(loop)
  <2> HIDE DEF Eq
  <2> QED BY <1>3
<1>5. InverseLoop = loop
  BY DEF InverseLoop
<1> HIDE DEF loop
<1>6. loop[s] = Body(loop, s)
  <2> HIDE DEF Body
  <2> QED BY <1>4, Zenon
<1> QED BY <1>5, <1>6

(* What the rounds keep: r and r0 are t * a and t0 * a, but for multiples   *)
(* of n; t and t0 have different signs and grow, as r and r0 get less.      *)
Signs(t, t0, p, p0) == (t + p = 0 /\ t0 = p0) \/ (t = p /\ t0 + p0 = 0)

Euclid(a, n, r, r0, t, t0) ==
  /\ r \in Nat /\ r0 \in Nat /\ t \in Int /\ t0 \in Int /\ r0 < r
  /\ Common(r, r0) = Common(n, a)
  /\ Multiple(r - t * a, n) /\ Multiple(r0 - t0 * a, n)
  /\ \E p, p0 \in Nat : p <= p0 /\ p0 * r + p * r0 = n /\ Signs(t, t0, p, p0)

(* A round keeps what Euclid says. *)
LEMMA EuclidRound ==
  ASSUME NEW n \in Nat \ {0, 1}, NEW a \in 0 .. n - 1,
         NEW r, NEW r0, NEW t, NEW t0, Euclid(a, n, r, r0, t, t0), r0 # 0,
         NEW q \in Nat, NEW e \in Nat, r = q * r0 + e, e < r0, e = r % r0
  PROVE  Euclid(a, n, r0, e, t0, t - q * t0)
<1>1. r \in Nat /\ r0 \in Nat \ {0} /\ t \in Int /\ t0 \in Int /\ r0 < r
  BY DEF Euclid
<1>2. Common(r0, e) = Common(n, a)
  <2>1. Common(r0, r % r0) = Common(r, r0)
    BY <1>1, CommonRound
  <2>2. Common(r, r0) = Common(n, a)
    BY DEF Euclid
  <2> QED BY <2>1, <2>2
<1>3. Multiple(e - (t - q * t0) * a, n)
  <2>1. PICK k \in Int : r - t * a = k * n
    BY DEF Euclid, Multiple
  <2>2. PICK l \in Int : r0 - t0 * a = l * n
    BY DEF Euclid, Multiple
  <2>3. e - (t - q * t0) * a = (k - q * l) * n
    <3>1. a \in Int /\ n \in Int /\ q \in Int /\ e \in Int
      OBVIOUS
    <3>2. (t - q * t0) * a = t * a - q * (t0 * a)
      BY <1>1, <3>1
    <3>3. (k - q * l) * n = k * n - q * (l * n)
      BY <3>1
    <3>4. q * (r0 - t0 * a) = q * r0 - q * (t0 * a)
      BY <1>1, <3>1
    <3>5. t * a \in Int /\ q * (t0 * a) \in Int /\ q * r0 \in Int
      BY <1>1, <3>1
    <3> QED BY <1>1, <2>1, <2>2, <3>1, <3>2, <3>3, <3>4, <3>5
  <2>4. k - q * l \in Int
    OBVIOUS
  <2> QED BY <2>3, <2>4 DEF Multiple
<1>4. q >= 1
  <2> SUFFICES ASSUME q = 0 PROVE FALSE
    OBVIOUS
  <2> QED BY <1>1
<1>5. PICK p \in Nat, p0 \in Nat : p <= p0 /\ p0 * r + p * r0 = n /\ Signs(t, t0, p, p0)
  BY DEF Euclid
<1>6. p + q * p0 \in Nat /\ p0 <= p + q * p0
  <2>1. q * p0 >= 1 * p0 /\ q * p0 \in Nat
    BY <1>4
  <2> QED BY <2>1
<1>7. (p + q * p0) * r0 + p0 * e = n
  <2>1. (p + q * p0) * r0 = p * r0 + p0 * (q * r0)
    BY <1>1
  <2>2. p0 * r = p0 * (q * r0) + p0 * e
    BY <1>1
  <2>3. p * r0 \in Int /\ p0 * (q * r0) \in Int /\ p0 * e \in Int
    BY <1>1
  <2> QED BY <1>5, <2>1, <2>2, <2>3
<1>8. Signs(t0, t - q * t0, p0, p + q * p0)
  <2>1. q * p0 \in Int
    OBVIOUS
  <2>2. CASE t + p = 0 /\ t0 = p0
    BY <1>1, <2>1, <2>2 DEF Signs
  <2>3. CASE t = p /\ t0 + p0 = 0
    <3>1. q * (t0 + p0) = q * t0 + q * p0 /\ q * t0 \in Int
      BY <1>1
    <3> QED BY <1>1, <2>1, <2>3, <3>1 DEF Signs
  <2> QED BY <1>5, <2>2, <2>3 DEF Signs
<1>9. t - q * t0 \in Int /\ Multiple(r0 - t0 * a, n)
  BY <1>1 DEF Euclid
<1> QED BY <1>1, <1>2, <1>3, <1>5, <1>6, <1>7, <1>8, <1>9 DEF Euclid

(* The loop ends with what the rounds keep. *)
LEMMA InverseLoopRight ==
  ASSUME NEW n \in Nat \ {0, 1}, NEW a \in 0 .. n - 1
  PROVE  \E r, t, t0 : InverseOf(a, n) = Vars(r, 0, t, t0) /\ Euclid(a, n, r, 0, t, t0)
<1> DEFINE Kept(s) == Euclid(a, n, s.r, s.r0, s.t, s.t0)
           Ends(s) == \E r, t, t0 : InverseLoop[s] = Vars(r, 0, t, t0) /\ Euclid(a, n, r, 0, t, t0)
           Good == {s \in InverseVars : Kept(s) => Ends(s)}
<1>1. ASSUME NEW s \in InverseVars \ MoreInverse PROVE s \in Good
  <2> SUFFICES ASSUME Kept(s) PROVE Ends(s)
    OBVIOUS
  <2>1. s.r0 = 0 /\ InverseLoop[s] = s
    BY InverseLoopEquation DEF MoreInverse
  <2>2. s = Vars(s.r, s.r0, s.t, s.t0)
    BY DEF InverseVars, Vars
  <2>3. InverseLoop[s] = Vars(s.r, 0, s.t, s.t0) /\ Euclid(a, n, s.r, 0, s.t, s.t0)
    BY <2>1, <2>2
  <2> QED BY <2>3
<1>2. ASSUME NEW s \in MoreInverse, InverseNext[s] \in Good PROVE s \in Good
  <2>0. s \in InverseVars /\ s.r0 # 0
    BY DEF MoreInverse
  <2> SUFFICES ASSUME Kept(s) PROVE Ends(s)
    BY <2>0
  <2>1. InverseNext[s] = InverseRound(s)
    BY <2>0 DEF InverseNext
  <2>2. PICK r \in Nat, r0 \in Nat \ {0}, t \in Int, t0 \in Int : s = Vars(r, r0, t, t0)
    BY <2>0 DEF InverseVars, Vars
  <2>3. s.r = r /\ s.r0 = r0 /\ s.t = t /\ s.t0 = t0
    BY <2>2 DEF Vars
  <2>4. PICK q \in Nat, e \in Nat :
          /\ r = q * r0 + e /\ e < r0 /\ e = r % r0
          /\ InverseRound(Vars(r, r0, t, t0)) = Vars(r0, e, t0, t - q * t0)
          /\ Vars(r0, e, t0, t - q * t0) \in InverseVars
    BY <2>2, InverseRoundOf
  <2>5. Euclid(a, n, r, r0, t, t0)
    BY <2>3
  <2>6. Euclid(a, n, r0, e, t0, t - q * t0)
    BY <2>2, <2>4, <2>5, EuclidRound
  <2>7. PICK v : v = InverseRound(s)
    OBVIOUS
  <2>8. v = Vars(r0, e, t0, t - q * t0)
    BY <2>2, <2>4, <2>7
  <2>9. v.r = r0 /\ v.r0 = e /\ v.t = t0 /\ v.t0 = t - q * t0
    BY <2>8 DEF Vars
  <2>10. Ends(v)
    <3>1. Kept(v)
      BY <2>6, <2>9
    <3> HIDE DEF Kept, Ends
    <3> QED BY <1>2, <2>1, <2>7, <3>1
  <2>11. InverseLoop[s] = InverseLoop[v]
    BY <2>0, <2>7, InverseLoopEquation
  <2> QED BY <2>10, <2>11
<1>3. InverseVars \subseteq Good
  <2> HIDE DEF Good
  <2> QED BY <1>1, <1>2, InverseLoops, LoopInduction
<1> DEFINE v == Vars(n, a, 0, 1)
<1>4. v \in InverseVars /\ v.r = n /\ v.r0 = a /\ v.t = 0 /\ v.t0 = 1
  BY DEF Vars, InverseVars
<1>5. Euclid(a, n, n, a, 0, 1)
  <2>1. Multiple(n - 0 * a, n) /\ Multiple(a - 1 * a, n)
    <3>1. n - 0 * a = 1 * n /\ a - 1 * a = 0 * n
      OBVIOUS
    <3> QED BY <3>1 DEF Multiple
  <2>2. 0 <= 1 /\ 1 * n + 0 * a = n
    OBVIOUS
  <2>3. Signs(0, 1, 0, 1)
    BY DEF Signs
  <2> QED BY <2>1, <2>2, <2>3 DEF Euclid
<1>6. InverseOf(a, n) = InverseLoop[v]
  BY DEF InverseOf, Vars
<1>7. Ends(v)
  <2> HIDE DEF v, Ends
  <2> QED BY <1>3, <1>4, <1>5
<1> QED BY <1>6, <1>7

(* A number below n that has no common divisor with it has an inverse. *)
LEMMA InverseRight ==
  ASSUME NEW n \in Nat \ {0, 1}, NEW a \in 0 .. n - 1, gcd(a, n) = 1
  PROVE  mod_inverse(a, n) \in 1 .. n - 1 /\ (a * mod_inverse(a, n)) % n = 1
<1>1. PICK r, t, t0 : InverseOf(a, n) = Vars(r, 0, t, t0) /\ Euclid(a, n, r, 0, t, t0)
  BY InverseLoopRight
<1>2. r \in Nat \ {0} /\ t \in Int /\ t0 \in Int /\ Common(r, 0) = Common(n, a)
  BY <1>1 DEF Euclid
<1>3. r = 1
  <2>1. r = 1 * r /\ 0 = 0 * r
    BY <1>2
  <2>2. r \in Common(r, 0)
    BY <1>2, <2>1 DEF Common, Multiple
  <2>3. r <= 1
    BY <1>2, <2>2, GcdRight DEF IsGreatest
  <2> QED BY <1>2, <2>3
<1>4. PICK k \in Int : 1 - t * a = k * n
  BY <1>1, <1>3 DEF Euclid, Multiple
<1>5. t <= n /\ t >= -n
  <2>1. PICK p \in Nat, p0 \in Nat : p <= p0 /\ p0 * 1 + p * 0 = n /\ Signs(t, t0, p, p0)
    BY <1>1, <1>3 DEF Euclid
  <2>2. p <= n
    BY <2>1
  <2>3. t + p = 0 \/ t = p
    BY <2>1 DEF Signs
  <2>4. t \in Int /\ p \in Int /\ -n = 0 - n
    BY <1>2
  <2> QED BY <2>2, <2>3, <2>4
<1>6. ASSUME NEW j \in Int PROVE t # j * n
  <2> SUFFICES ASSUME t = j * n PROVE FALSE
    OBVIOUS
  <2>1. 1 = (k + j * a) * n
    <3>1. (j * n) * a = (j * a) * n /\ (k + j * a) * n = k * n + (j * a) * n
      OBVIOUS
    <3>2. (j * a) * n \in Int /\ k * n \in Int
      OBVIOUS
    <3> QED BY <1>4, <3>1, <3>2
  <2>2. PICK m \in Int : m = k + j * a
    OBVIOUS
  <2>3. m * n = 1
    BY <2>1, <2>2
  <2>4. CASE m <= 0
    <3>1. m * n <= 0
      BY <2>4
    <3> QED BY <2>3, <3>1
  <2>5. CASE m >= 1
    <3>1. m * n >= 1 * n
      BY <2>5
    <3> QED BY <2>3, <3>1
  <2> QED BY <2>4, <2>5
<1>7. t # 0 /\ t # n /\ t # -n
  <2>1. t # 0 * n /\ t # 1 * n /\ t # (-1) * n
    BY <1>6
  <2> QED BY <2>1
<1>8. mod_inverse(a, n) = IF t < 0 THEN t + n ELSE t
  <2>1. InverseOf(a, n).r = 1 /\ InverseOf(a, n).t = t
    BY <1>1, <1>3 DEF Vars
  <2>2. CASE t < 0
    BY <2>1, <2>2 DEF mod_inverse
  <2>3. CASE ~(t < 0)
    BY <2>1, <2>3 DEF mod_inverse
  <2> QED BY <2>2, <2>3
<1>9. PICK j \in Int : mod_inverse(a, n) = t + j * n /\ t + j * n \in 1 .. n - 1
  <2>1. CASE t < 0
    <3>1. mod_inverse(a, n) = t + 1 * n /\ t + 1 * n \in 1 .. n - 1
      BY <1>2, <1>5, <1>7, <1>8, <2>1
    <3> QED BY <3>1
  <2>2. CASE ~(t < 0)
    <3>1. mod_inverse(a, n) = t + 0 * n /\ t + 0 * n \in 1 .. n - 1
      BY <1>2, <1>5, <1>7, <1>8, <2>2
    <3> QED BY <3>1
  <2> QED BY <2>1, <2>2
<1>10. a * (t + j * n) = (a * j - k) * n + 1
  <2>1. a * (t + j * n) = t * a + (a * j) * n /\ (a * j - k) * n = (a * j) * n - k * n
    BY <1>2
  <2>2. (a * j) * n \in Int /\ k * n \in Int /\ t * a \in Int
    BY <1>2
  <2> QED BY <1>4, <2>1, <2>2
<1>11. (a * (t + j * n)) % n = 1
  <2>1. PICK m \in Int : m = a * j - k
    OBVIOUS
  <2>2. PICK x : x = a * (t + j * n)
    OBVIOUS
  <2>3. x = m * n + 1 /\ 1 \in 0 .. n - 1 /\ n \in Nat \ {0}
    BY <1>10, <2>1, <2>2
  <2>4. x % n = 1
    <3>1. \A e \in 0 .. n - 1 : x = m * n + e => x % n = e
      BY <2>1, Remainder
    <3> QED BY <2>3, <3>1
  <2> QED BY <2>2, <2>4
<1> QED BY <1>9, <1>11

----------------------------------------------------------------------------
(* Powers. *)

(* A factor may be reduced before the product is. *)
LEMMA Product ==
  ASSUME NEW n \in Nat \ {0}, NEW x \in Int, NEW y \in Int
  PROVE  (x * (y % n)) % n = (x * y) % n /\ ((y % n) * x) % n = (x * y) % n
<1>1. PICK q \in Int, r \in 0 .. n - 1 : y = q * n + r /\ y % n = r
  BY Division
<1>2. PICK z \in Int : z = x * r
  OBVIOUS
<1>3. PICK d \in Int, e \in 0 .. n - 1 : z = d * n + e /\ z % n = e
  BY Division
<1>4. PICK w \in Int : w = x * y
  OBVIOUS
<1>5. w = (x * q + d) * n + e
  <2>1. x * y = (x * q) * n + x * r /\ (x * q + d) * n = (x * q) * n + d * n
    BY <1>1
  <2>2. (x * q) * n \in Int /\ d * n \in Int
    OBVIOUS
  <2> QED BY <1>2, <1>3, <1>4, <2>1, <2>2
<1>6. w % n = e
  <2>1. PICK k \in Int : k = x * q + d
    OBVIOUS
  <2>2. w = k * n + e
    BY <1>5, <2>1
  <2> QED BY <2>2, Remainder
<1>7. r * x = x * r
  OBVIOUS
<1> QED BY <1>1, <1>2, <1>3, <1>4, <1>6, <1>7

(* A remainder is one. *)
LEMMA Residue ==
  ASSUME NEW n \in Nat \ {0}, NEW x \in Int
  PROVE  x % n \in 0 .. n - 1
<1>1. PICK q \in Int, r \in 0 .. n - 1 : x % n = r
  BY Division
<1> QED BY <1>1

(* A number below the modulus is its own remainder. *)
LEMMA Reduced ==
  ASSUME NEW n \in Nat \ {0}, NEW x \in 0 .. n - 1
  PROVE  x % n = x
<1>1. x = 0 * n + x /\ 0 \in Int
  OBVIOUS
<1> QED BY <1>1, Remainder

(* The equations of Power. *)
LEMMA PowerStep ==
  ASSUME NEW n \in Nat \ {0}, NEW a \in Nat
  PROVE  /\ Power(a, 0, n) = 1 % n
         /\ \A k \in Nat : /\ Power(a, k, n) \in 0 .. n - 1
                           /\ Power(a, k + 1, n) = (a * Power(a, k, n)) % n
<1> DEFINE V == 0 .. n - 1
           step == [v \in V |-> (a * v) % n]
           Body(f, k) == IF k = 0 THEN 1 % n ELSE (a * f[k - 1]) % n
           Eq(f) == f = [k \in Nat |-> Body(f, k)]
           r == CHOOSE f : Eq(f)
<1>0. ASSUME NEW v \in V PROVE (a * v) % n \in V
  <2>1. a * v \in Int
    OBVIOUS
  <2> QED BY <2>1, Residue
<1>1. step \in [V -> V]
  BY <1>0
<1>2. PICK f \in [Nat -> V] : f[0] = 1 % n /\ \A k \in Nat : f[k + 1] = step[f[k]]
  <2>1. ASSUME NEW c \in V
        PROVE  \E f \in [Nat -> V] : f[0] = c /\ \A k \in Nat : f[k + 1] = step[f[k]]
    <3> HIDE DEF V, step
    <3> QED BY <1>1, Recursion
  <2>2. 1 % n \in V
    BY Residue
  <2> HIDE DEF V, step
  <2> QED BY <2>1, <2>2
<1>3. ASSUME NEW k \in Nat PROVE f[k] = Body(f, k)
  <2>1. CASE k = 0
    BY <1>2, <2>1
  <2>2. CASE k # 0
    <3>1. k - 1 \in Nat /\ (k - 1) + 1 = k
      BY <2>2
    <3>2. f[k - 1] \in V /\ f[k] = step[f[k - 1]]
      <4> HIDE DEF V, step
      <4> QED BY <1>2, <3>1
    <3> QED BY <2>2, <3>2
  <2> QED BY <2>1, <2>2
<1>4. Eq(f)
  <2>1. f = [k \in Nat |-> f[k]]
    BY <1>2
  <2> HIDE DEF Body
  <2> QED BY <1>3, <2>1, Zenon
<1>5. Eq(r)
  <2> HIDE DEF Eq
  <2> QED BY <1>4
<1>6. \A k \in Nat : Power(a, k, n) = r[k]
  BY DEF Power
<1> HIDE DEF r
<1>7. ASSUME NEW k \in Nat PROVE r[k] = Body(r, k)
  <2> HIDE DEF Body
  <2> QED BY <1>5, Zenon
<1>8. r[0] = 1 % n
  BY <1>7
<1>9. ASSUME NEW k \in Nat PROVE r[k + 1] = (a * r[k]) % n
  <2>1. k + 1 \in Nat /\ k + 1 # 0 /\ (k + 1) - 1 = k
    OBVIOUS
  <2>2. r[k + 1] = Body(r, k + 1)
    <3> HIDE DEF Body
    <3> QED BY <1>7, <2>1
  <2> QED BY <2>1, <2>2
<1> DEFINE S == {k \in Nat : r[k] \in V}
<1>10. Nat \subseteq S
  <2>1. 0 \in S
    BY <1>8, Residue
  <2>2. ASSUME NEW k \in Nat, k \in S PROVE k + 1 \in S
    <3>1. PICK v \in V : v = r[k]
      BY <2>2
    <3>2. r[k + 1] \in V
      BY <1>0, <1>9, <3>1
    <3> QED BY <3>2
  <2> HIDE DEF S
  <2> QED BY <2>1, <2>2, Induction
<1>11. \A k \in Nat : r[k] \in V
  BY <1>10
<1>12. ASSUME NEW k \in Nat
       PROVE  Power(a, k, n) = r[k] /\ Power(a, k + 1, n) = r[k + 1]
  BY <1>6
<1>13. Power(a, 0, n) = 1 % n
  BY <1>6, <1>8
<1> QED BY <1>9, <1>11, <1>12, <1>13

(* The powers of the square are every other power. *)
LEMMA PowerOfSquare ==
  ASSUME NEW n \in Nat \ {0}, NEW b \in Nat, NEW k \in Nat
  PROVE  Power((b * b) % n, k, n) = Power(b, 2 * k, n)
<1> DEFINE S == {j \in Nat : Power((b * b) % n, j, n) = Power(b, 2 * j, n)}
<1>1. PICK c \in Nat : c = (b * b) % n
  <2>1. b * b \in Int
    OBVIOUS
  <2> QED BY <2>1, Residue
<1>2. 0 \in S
  <2>1. 2 * 0 = 0
    OBVIOUS
  <2> QED BY <1>1, <2>1, PowerStep
<1>3. ASSUME NEW j \in Nat, j \in S PROVE j + 1 \in S
  <2>1. PICK x \in Int : x = Power(b, 2 * j, n)
    <3>1. 2 * j \in Nat
      OBVIOUS
    <3> QED BY <3>1, PowerStep
  <2>2. Power(c, j, n) = x
    BY <1>1, <1>3, <2>1
  <2>3. Power(c, j + 1, n) = (c * x) % n
    BY <2>2, PowerStep
  <2>4. Power(b, 2 * j + 1, n) = (b * x) % n
    <3>1. 2 * j \in Nat
      OBVIOUS
    <3> QED BY <2>1, <3>1, PowerStep
  <2>5. Power(b, (2 * j + 1) + 1, n) = (b * ((b * x) % n)) % n
    <3>1. PICK m \in Nat : m = 2 * j + 1
      OBVIOUS
    <3>2. Power(b, m + 1, n) = (b * Power(b, m, n)) % n
      BY PowerStep
    <3> QED BY <2>4, <3>1, <3>2
  <2>6. (b * ((b * x) % n)) % n = (b * (b * x)) % n
    <3>1. b \in Int /\ b * x \in Int
      OBVIOUS
    <3> QED BY <3>1, Product
  <2>7. (c * x) % n = (x * (b * b)) % n
    <3>1. x \in Int /\ b * b \in Int
      OBVIOUS
    <3> QED BY <1>1, <3>1, Product
  <2>8. x * (b * b) = b * (b * x) /\ (2 * j + 1) + 1 = 2 * (j + 1)
    OBVIOUS
  <2> QED BY <1>1, <2>3, <2>5, <2>6, <2>7, <2>8
<1>4. Nat \subseteq S
  <2> HIDE DEF S
  <2> QED BY <1>2, <1>3, Induction
<1> QED BY <1>4

(* The variables of pow_mod. *)
PowOf(o, base, exp) == [o |-> o, base |-> base, exp |-> exp]

(* Those in which it goes on. *)
MorePow == {s \in PowVars : s.exp > 0}

(* A round of pow_mod, for an even and an odd exponent. *)
LEMMA PowRoundOf ==
  ASSUME NEW n \in Nat \ {0}, NEW o \in Nat, NEW b \in Nat, NEW e \in Nat
  PROVE  \E k \in Nat, i \in 0 .. 1 :
           /\ e = 2 * k + i
           /\ PowRound(PowOf(o, b, e), n) = PowOf(IF i = 1 THEN (o * b) % n ELSE o, (b * b) % n, k)
           /\ PowRound(PowOf(o, b, e), n) \in PowVars
<1>1. PICK k \in Nat, i \in 0 .. 1 : e = 2 * k + i /\ e % 2 = i /\ e \div 2 = k
  OBVIOUS
<1>2. (o * b) % n \in Nat /\ (b * b) % n \in Nat
  <2>1. o * b \in Int /\ b * b \in Int
    OBVIOUS
  <2> QED BY <2>1, Residue
<1>3. PowRound(PowOf(o, b, e), n) = PowOf(IF i = 1 THEN (o * b) % n ELSE o, (b * b) % n, k)
  BY <1>1 DEF PowRound, PowOf, Half
<1>4. PowOf(IF i = 1 THEN (o * b) % n ELSE o, (b * b) % n, k) \in PowVars
  BY <1>1, <1>2 DEF PowOf, PowVars
<1> QED BY <1>1, <1>3, <1>4

(* Its loop. *)
PowNext(n) == [s \in PowVars |-> PowRound(s, n)]

PowMeasure == [s \in PowVars |-> s.exp]

(* The loop of pow_mod makes the exponent less. *)
LEMMA PowLoops ==
  ASSUME NEW n \in Nat \ {0}
  PROVE  IsLoop(PowVars, MorePow, PowNext(n), PowMeasure)
<1>1. ASSUME NEW s \in PowVars
      PROVE  PowRound(s, n) \in PowVars /\ (s.exp > 0 => PowRound(s, n).exp < s.exp)
  <2>1. PICK o \in Nat, b \in Nat, e \in Nat : s = PowOf(o, b, e)
    BY DEF PowVars, PowOf
  <2>2. PICK k \in Nat, i \in 0 .. 1 :
           /\ e = 2 * k + i
           /\ PowRound(PowOf(o, b, e), n) = PowOf(IF i = 1 THEN (o * b) % n ELSE o, (b * b) % n, k)
           /\ PowRound(PowOf(o, b, e), n) \in PowVars
    BY PowRoundOf
  <2>3. PowRound(s, n).exp = k /\ s.exp = e
    BY <2>1, <2>2 DEF PowOf
  <2> QED BY <2>1, <2>2, <2>3
<1>2. PowNext(n) \in [PowVars -> PowVars]
  BY <1>1 DEF PowNext
<1>3. PowMeasure \in [PowVars -> Nat]
  BY DEF PowMeasure, PowVars
<1>4. ASSUME NEW s \in MorePow PROVE PowMeasure[PowNext(n)[s]] < PowMeasure[s]
  <2>1. s \in PowVars /\ PowNext(n)[s] = PowRound(s, n) /\ s.exp > 0
    BY DEF PowNext, MorePow
  <2>2. PowMeasure[s] = s.exp /\ PowMeasure[PowRound(s, n)] = PowRound(s, n).exp
    BY <1>1, <2>1 DEF PowMeasure
  <2> QED BY <1>1, <2>1, <2>2
<1> QED BY <1>2, <1>3, <1>4 DEF IsLoop, MorePow

(* The equation of the loop of pow_mod. *)
LEMMA PowLoopEquation ==
  ASSUME NEW n \in Nat \ {0}, NEW s \in PowVars
  PROVE  PowLoop(n)[s] = IF s.exp > 0 THEN PowLoop(n)[PowRound(s, n)] ELSE s.o
<1> DEFINE out == [v \in PowVars |-> v.o]
           Body(f, v) == IF v.exp > 0 THEN f[PowRound(v, n)] ELSE v.o
           Eq(f) == f = [v \in PowVars |-> Body(f, v)]
           loop == CHOOSE f : Eq(f)
<1>1. PICK f \in [PowVars -> Nat] : LoopOf(PowVars, MorePow, PowNext(n), out, f)
  <2>1. out \in [PowVars -> Nat]
    BY DEF PowVars
  <2> HIDE DEF out
  <2> QED BY <2>1, PowLoops, LoopEnds
<1>2. ASSUME NEW v \in PowVars PROVE f[v] = Body(f, v)
  <2>1. f[v] = IF v \in MorePow THEN f[PowNext(n)[v]] ELSE out[v]
    <3> HIDE DEF out
    <3> QED BY <1>1, Zenon DEF LoopOf
  <2>2. CASE v.exp > 0
    <3>1. v \in MorePow /\ PowNext(n)[v] = PowRound(v, n)
      BY <2>2, Zenon DEF MorePow, PowNext
    <3> QED BY <2>1, <2>2, <3>1
  <2>3. CASE ~(v.exp > 0)
    <3>1. v \notin MorePow /\ out[v] = v.o
      BY <2>3, Zenon DEF MorePow
    <3> HIDE DEF out
    <3> QED BY <2>1, <2>3, <3>1
  <2> QED BY <2>2, <2>3
<1>3. Eq(f)
  <2>1. f = [v \in PowVars |-> f[v]]
    BY <1>1
  <2> HIDE DEF Body
  <2> QED BY <1>2, <2>1, Zenon
<1>4. Eq(loop)
  <2> HIDE DEF Eq
  <2> QED BY <1>3
<1>5. PowLoop(n) = loop
  BY DEF PowLoop
<1> HIDE DEF loop
<1>6. loop[s] = Body(loop, s)
  <2> HIDE DEF Body
  <2> QED BY <1>4, Zenon
<1> QED BY <1>5, <1>6

(* Squares and products modulo n make the power. *)
LEMMA PowLoopRight ==
  ASSUME NEW n \in Nat \ {0, 1}, NEW o \in 0 .. n - 1, NEW b \in Nat, NEW e \in Nat
  PROVE  PowLoop(n)[PowOf(o, b, e)] = (o * Power(b, e, n)) % n
<1> DEFINE Right(s) == s.o < n => PowLoop(n)[s] = (s.o * Power(s.base, s.exp, n)) % n
           Good == {s \in PowVars : Right(s)}
<1>1. ASSUME NEW s \in PowVars \ MorePow PROVE s \in Good
  <2> SUFFICES ASSUME s.o < n PROVE PowLoop(n)[s] = (s.o * Power(s.base, s.exp, n)) % n
    OBVIOUS
  <2>1. s.o \in 0 .. n - 1 /\ s.base \in Nat /\ s.exp = 0 /\ PowLoop(n)[s] = s.o
    BY PowLoopEquation DEF MorePow, PowVars
  <2>2. Power(s.base, 0, n) = 1
    <3>1. 1 % n = 1
      BY Reduced
    <3> QED BY <2>1, <3>1, PowerStep
  <2>3. s.o * 1 = s.o
    BY <2>1
  <2> QED BY <2>1, <2>2, <2>3, Reduced
<1>2. ASSUME NEW s \in MorePow, PowNext(n)[s] \in Good PROVE s \in Good
  <2>0. s \in PowVars /\ s.exp > 0
    BY DEF MorePow
  <2> SUFFICES ASSUME s.o < n PROVE PowLoop(n)[s] = (s.o * Power(s.base, s.exp, n)) % n
    BY <2>0
  <2>1. PICK x \in 0 .. n - 1, y \in Nat, m \in Nat : s = PowOf(x, y, m)
    BY <2>0 DEF PowVars, PowOf
  <2>2. s.o = x /\ s.base = y /\ s.exp = m
    BY <2>1 DEF PowOf
  <2>3. PICK k \in Nat, i \in 0 .. 1 :
           /\ m = 2 * k + i
           /\ PowRound(PowOf(x, y, m), n) = PowOf(IF i = 1 THEN (x * y) % n ELSE x, (y * y) % n, k)
           /\ PowRound(PowOf(x, y, m), n) \in PowVars
    <3>1. x \in Nat /\ y \in Nat /\ m \in Nat /\ n \in Nat \ {0}
      BY <2>1
    <3> QED BY <3>1, PowRoundOf
  <2>4. PICK z \in 0 .. n - 1 : z = IF i = 1 THEN (x * y) % n ELSE x
    <3>1. x * y \in Int
      BY <2>1
    <3> QED BY <2>1, <3>1, Residue
  <2>5. PICK v : v = PowRound(s, n)
    OBVIOUS
  <2>6. v.o = z /\ v.base = (y * y) % n /\ v.exp = k
    BY <2>1, <2>3, <2>4, <2>5 DEF PowOf
  <2>7. Right(v)
    <3>1. PowNext(n)[s] = v
      BY <2>0, <2>5 DEF PowNext
    <3> HIDE DEF Right
    <3> QED BY <1>2, <3>1
  <2>8. PowLoop(n)[s] = PowLoop(n)[v]
    BY <2>0, <2>5, PowLoopEquation
  <2>9. PICK w \in Int : w = Power(y, 2 * k, n)
    <3>1. 2 * k \in Nat
      BY <2>3
    <3> QED BY <2>1, <3>1, PowerStep
  <2>10. PowLoop(n)[v] = (z * w) % n
    <3>1. Power((y * y) % n, k, n) = w
      BY <2>1, <2>3, <2>9, PowerOfSquare
    <3>2. z < n
      BY <2>4
    <3> QED BY <2>6, <2>7, <3>1, <3>2
  <2>11. CASE i = 0
    <3>1. m = 2 * k /\ z = x
      BY <2>3, <2>4, <2>11
    <3> QED BY <2>2, <2>8, <2>9, <2>10, <3>1
  <2>12. CASE i = 1
    <3>1. m = 2 * k + 1 /\ z = (x * y) % n
      BY <2>3, <2>4, <2>12
    <3>2. Power(y, m, n) = (y * w) % n
      <4>1. 2 * k \in Nat
        BY <2>3
      <4> QED BY <2>1, <2>9, <3>1, <4>1, PowerStep
    <3>3. (x * ((y * w) % n)) % n = (x * (y * w)) % n
      <4>1. x \in Int /\ y * w \in Int
        BY <2>1, <2>9
      <4> QED BY <4>1, Product
    <3>4. (((x * y) % n) * w) % n = (w * (x * y)) % n
      <4>1. w \in Int /\ x * y \in Int
        BY <2>1, <2>9
      <4> QED BY <4>1, Product
    <3>5. w * (x * y) = x * (y * w)
      BY <2>1, <2>9
    <3> QED BY <2>2, <2>8, <2>10, <3>1, <3>2, <3>3, <3>4, <3>5
  <2> QED BY <2>3, <2>11, <2>12
<1>3. PowVars \subseteq Good
  <2> HIDE DEF Good
  <2> QED BY <1>1, <1>2, PowLoops, LoopInduction
<1>4. PowOf(o, b, e) \in PowVars /\ PowOf(o, b, e).o = o /\ PowOf(o, b, e).base = b
      /\ PowOf(o, b, e).exp = e
  BY DEF PowOf, PowVars
<1>5. Right(PowOf(o, b, e))
  <2> HIDE DEF Right
  <2> QED BY <1>3, <1>4
<1> QED BY <1>4, <1>5

(* pow_mod is the power. *)
LEMMA PowRight ==
  ASSUME NEW n \in Nat \ {0, 1}, NEW a \in 0 .. n - 1, NEW d \in Nat
  PROVE  pow_mod(a, d, n) = Power(a, d, n)
<1>1. pow_mod(a, d, n) = PowLoop(n)[PowOf(1, a % n, d)]
  BY DEF pow_mod, PowOf
<1>2. a % n = a
  BY Reduced
<1>3. PowLoop(n)[PowOf(1, a, d)] = (1 * Power(a, d, n)) % n
  BY PowLoopRight
<1>4. PICK w \in 0 .. n - 1 : w = Power(a, d, n)
  BY PowerStep
<1>5. 1 * w = w /\ w % n = w
  BY Reduced
<1> QED BY <1>1, <1>2, <1>3, <1>4, <1>5

----------------------------------------------------------------------------
(* What ArithmeticRight says of a number and of its results. *)
ArithmeticOf(n, r) ==
  \A a \in 0 .. n - 1 :
     /\ r[a].gcd = Max({d \in 1 .. n : Divides(d, a) /\ Divides(d, n)})
     /\ r[a].power = Power(a, n, n)
     /\ IF r[a].gcd = 1
        THEN r[a].inverse \in 1 .. n - 1 /\ (a * r[a].inverse) % n = 1
        ELSE r[a].inverse = 0

(* ArithmeticRight holds, for all numbers: gcd, mod_inverse and pow_mod     *)
(* return what their names say, with the loops of the code.                 *)
THEOREM ArithmeticIsRight == Spec => []ArithmeticRight
<1>0. ArithmeticRight <=> Unshown(result) \/ task.program # "numtheory" \/ ArithmeticOf(task.input, result)
  BY DEF ArithmeticRight, Done, ArithmeticOf, Unshown
<1>a. ArithmeticRight' <=> (Unshown(result) \/ task.program # "numtheory" \/ ArithmeticOf(task.input, result))'
  BY <1>0, PTL
<1>1. Init => ArithmeticRight
  BY DEF Init, ArithmeticRight, Done
<1>2. ASSUME Given, ArithmeticRight, [Next]_<<task, result>> PROVE ArithmeticRight'
  <2> SUFFICES Unshown(result') \/ task'.program # "numtheory" \/ ArithmeticOf(task'.input, result')
    BY <1>a
  <2>1. CASE NumTheory
    <3>1. task.input \in Nat \ {0, 1} /\ task' = task
      BY <1>2, <2>1, NumbersAssumption DEF NumTheory, Compute, Given
    <3>2. PICK n \in Nat \ {0, 1} : n = task.input
      BY <3>1
    <3>3. result' = [a \in 0 .. n - 1 |->
                     [gcd |-> gcd(a, n), inverse |-> mod_inverse(a, n),
                      power |-> pow_mod(a, n, n), prime |-> is_prime(n, <<a>>)]]
      BY <2>1, <3>2 DEF NumTheory
    <3>4. ASSUME NEW a \in 0 .. n - 1
          PROVE  result'[a].gcd = gcd(a, n) /\ result'[a].inverse = mod_inverse(a, n)
                 /\ result'[a].power = pow_mod(a, n, n)
      BY <3>3
    <3>5. ASSUME NEW a \in 0 .. n - 1
          PROVE  /\ gcd(a, n) = Max({d \in 1 .. n : Divides(d, a) /\ Divides(d, n)})
                 /\ pow_mod(a, n, n) = Power(a, n, n)
                 /\ gcd(a, n) = 1 => mod_inverse(a, n) \in 1 .. n - 1 /\ (a * mod_inverse(a, n)) % n = 1
                 /\ gcd(a, n) # 1 => mod_inverse(a, n) = 0
      <4>1. n \in Nat
        OBVIOUS
      <4>2. gcd(a, n) # 1 => mod_inverse(a, n) = 0
        BY DEF mod_inverse
      <4> QED BY <4>1, <4>2, GcdRight, PowRight, InverseRight
    <3>6. ArithmeticOf(n, result')
      BY <3>4, <3>5, Zenon DEF ArithmeticOf
    <3> QED BY <3>1, <3>2, <3>6
  <2>2. CASE Sorting \/ Cipher \/ LifeGame \/ Pixel \/ Frame
    <3>1. task'.program # "numtheory"
      <4>1. CASE Sorting
        BY <4>1 DEF Sorting, Compute
      <4>2. CASE Cipher
        BY <4>2 DEF Cipher, Compute
      <4>3. CASE LifeGame
        BY <4>3 DEF LifeGame, Compute
      <4>4. CASE Pixel
        BY <4>4 DEF Pixel, Compute
      <4>5. CASE Frame
        BY <4>5 DEF Frame, Compute
      <4> QED BY <2>2, <4>1, <4>2, <4>3, <4>4, <4>5
    <3> QED BY <3>1
  <2>3. CASE UNCHANGED <<task, result>>
    <3>1. task' = task /\ result' = result
      BY <2>3
    <3> QED BY <1>0, <1>2, <3>1
  <2> QED BY <1>2, <2>1, <2>2, <2>3 DEF Next
<1> QED BY <1>1, <1>2, GivenAlways, PTL DEF Spec
=============================================================================
