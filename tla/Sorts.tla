--------------------------------- MODULE Sorts ---------------------------------
(***************************************************************************)
(* The sorts of SortingAffairsInOrder on an array as a sequence: A[i] in   *)
(* the code is A[i + 1] here, except in quick.c and heap.c, which count    *)
(* from 1 themselves.                                                      *)
(***************************************************************************)
EXTENDS Integers, SequencesExt

swap(A, x, y) == [A EXCEPT ![x] = A[y], ![y] = A[x]]

From(first, last) == [n \in 1 .. last - first + 1 |-> first + n - 1]
Down(first, last) == [n \in 1 .. first - last + 1 |-> first - n + 1]

----------------------------------------------------------------------------
(* quick.c.  cmp of the loop's condition compares indices. *)
partition(A, low, high) ==
  LET s == FoldLeft(LAMBDA t, j : IF t.A[j] < t.A[high]
                                  THEN [A |-> swap(t.A, t.i + 1, j), i |-> t.i + 1]
                                  ELSE t,
                    [A |-> A, i |-> low - 1], From(low, high))
  IN [A |-> swap(s.A, s.i + 1, high), p |-> s.i + 1]

quick_sorter[A \in Seq(Int), low \in Nat, high \in Nat] ==
  IF low < high
  THEN LET s == partition(A, low, high)
       IN quick_sorter[quick_sorter[s.A, low, s.p - 1], s.p + 1, high]
  ELSE A

quick_sort(A) == quick_sorter[A, 1, Len(A)]

----------------------------------------------------------------------------
(* heap.c *)
max_child(A, first, last) ==
  IF 2 * first + 1 <= last /\ A[2 * first + 1] > A[2 * first]
  THEN 2 * first + 1 ELSE 2 * first

fix_heap[A \in Seq(Int), mother \in Nat, last \in Nat] ==
  LET great == max_child(A, mother, last)
  IN IF mother <= last \div 2 /\ A[mother] < A[great]
     THEN fix_heap[swap(A, mother, great), great, last]
     ELSE A

(* Of an empty array last - 1 wraps, and fix_heap is called 2^31 - 1 times  *)
(* without doing anything; here there are no rounds.                        *)
build_heap(A) ==
  FoldLeft(LAMBDA B, father : fix_heap[B, father, Len(B)], A, Down((Len(A) - 1) \div 2, 1))

heap_sort(A) ==
  FoldLeft(LAMBDA B, leaf : fix_heap[swap(B, 1, leaf), 1, leaf - 1],
           build_heap(A), Down(Len(A), 2))

----------------------------------------------------------------------------
(* shell.c.  The gaps of gaps.h that a short array meets: the numbers with  *)
(* no prime factors but 2 and 3.                                            *)
gaps == <<18, 16, 12, 9, 8, 6, 4, 3, 2, 1>>

(* The while loop compares arr[k], which its first round overwrites, and    *)
(* not temp.                                                                *)
Shifted[A \in Seq(Int), k \in Nat, x \in Nat, gap \in Nat] ==
  IF x > gap /\ A[k] < A[x - gap]
  THEN Shifted[[A EXCEPT ![x] = A[x - gap]], k, x - gap, gap]
  ELSE [A |-> A, x |-> x]

Inserted(A, k, gap) ==
  LET s == Shifted[A, k, k, gap] IN [s.A EXCEPT ![s.x] = A[k]]

shell_sort(A) ==
  FoldLeft(LAMBDA B, gap : FoldLeft(LAMBDA C, k : Inserted(C, k, gap), B, From(gap + 1, Len(B))),
           A, gaps)

----------------------------------------------------------------------------
(* batcher.c *)
comparator(A, x, y) == IF A[x] > A[y] THEN swap(A, x, y) ELSE A

(* The inner for: (i & p) == r, where p is a power of 2 and r is p or 0.    *)
Compared(A, p, r, d) ==
  FoldLeft(LAMBDA B, i : IF (i \div p) % 2 = r \div p THEN comparator(B, i + 1, i + d + 1) ELSE B,
           A, From(0, Len(A) - d - 1))

MergedOnce(A, p, top) == Compared(A, p, 0, p)

Merged(A, p, top) ==
  LET merge[B \in Seq(Int), q \in Nat, r \in Nat, d \in Nat] ==
        IF d = 0 THEN B ELSE merge[Compared(B, p, r, d), q \div 2, p, q - p]
  IN merge[A, top, 0, p]

Phases[A \in Seq(Int), p \in Nat, top \in Nat] ==
  IF p = 0 THEN A ELSE Phases[Merged(A, p, top), p \div 2, top]

HighestBit[n \in Nat \ {0}] == IF n = 1 THEN 1 ELSE 2 * HighestBit[n \div 2]

batcher_sort(A) ==
  IF Len(A) = 0 THEN A ELSE LET top == HighestBit[Len(A)] IN Phases[A, top, top]
=============================================================================
