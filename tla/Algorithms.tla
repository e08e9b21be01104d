------------------------------- MODULE Algorithms -------------------------------
(***************************************************************************)
(* The sequential programs of the repository, each a function of its input *)
(* that one step computes, against reference definitions of what they are  *)
(* to compute.                                                             *)
(***************************************************************************)
EXTENDS Sorts, SchmidtSamoa, Life, Gpu

CONSTANTS Arrays,    \* inputs of the sorts
          Numbers,   \* arguments of the number theory
          KeyPairs,  \* pairs of primes
          Files,     \* files to encrypt, as sequences of bytes
          Pixels,    \* 15-bit colors
          Rotations, \* values of hue_rotation_
          Columns,   \* values of current_column_ before a frame
          Worlds     \* records of what life reads, and of how many generations

ASSUME NumbersAssumption == Numbers \subseteq Nat \ {0, 1}
ASSUME PixelsAssumption == Pixels \subseteq Nat /\ Rotations \subseteq Int
ASSUME WorldsAssumption ==
  Worlds \subseteq [rows : Nat, cols : Nat, t : BOOLEAN, pairs : Seq(Nat \X Nat), generations : Nat]

VARIABLES task, result

Task(program, input) == [program |-> program, input |-> input]
Done(program) == task.program = program /\ result # << >>

Init ==
  /\ task \in {Task("sorting", A) : A \in Arrays}
        \cup {Task("numtheory", n) : n \in Numbers}
        \cup {Task("cipher", k) : k \in KeyPairs}
        \cup {Task("pixel", p) : p \in Pixels}
        \cup {Task("frame", column) : column \in Columns}
        \cup {Task("life", w) : w \in Worlds}
  /\ result = << >>

Compute(program) == task.program = program /\ result = << >> /\ UNCHANGED task

Sorting ==
  /\ Compute("sorting")
  /\ LET A == task.input
     IN result' = [quick |-> quick_sort(A), heap |-> heap_sort(A),
                   shell |-> shell_sort(A), batcher |-> batcher_sort(A)]

(* For a number n: with each smaller one, the gcd, the inverse and a power, *)
(* and whether a round of is_prime with it passes.                          *)
NumTheory ==
  /\ Compute("numtheory")
  /\ LET n == task.input
     IN result' = [a \in 0 .. n - 1 |->
                     [gcd |-> gcd(a, n), inverse |-> mod_inverse(a, n),
                      power |-> pow_mod(a, n, n), prime |-> is_prime(n, <<a>>)]]

(* A block needs room for a byte beside the first.                          *)
Cipher ==
  /\ Compute("cipher")
  /\ LET n == ss_make_pub(task.input[1], task.input[2])
         key == ss_make_priv(task.input[1], task.input[2])
     IN result' = [key |-> key,
                   numbers |-> [m \in 0 .. key.pq - 1 |-> ss_decrypt(ss_encrypt(m, n), key)],
                   files |-> [f \in IF BlockSize(n) < 2 THEN {} ELSE Files |->
                                ss_decrypt_file(ss_encrypt_file(f, n), key)]]

(* Without -t nothing assigns toroidal. *)
LifeGame ==
  /\ Compute("life")
  /\ LET w == task.input
     IN \E t \in IF w.t THEN {TRUE} ELSE BOOLEAN :
          result' = [toroidal |-> t, life |-> life(w.rows, w.cols, t, w.pairs, w.generations)]

Filters == {"duck", "grayscale", "invert", "pastel", "hue", "crt"}

(* The hues of a color with the two filters that turn or pale it, and what  *)
(* a gray frame shows, under every set of the other filters.                *)
Hues(p) ==
  LET hsv == rgb2hsv(Field(p, 10), Field(p, 5), Field(p, 0))
  IN {hsv, Paled(hsv)} \cup {rotate_hue(hsv, degrees) : degrees \in Rotations}

Settings == [on : SUBSET Filters, line : {0, 1}, degrees : Rotations]

Grays(p) ==
  UNION {decodePixel(p, s.on, s.line, s.degrees) : s \in {s \in Settings : "grayscale" \in s.on}}

Pixel ==
  /\ Compute("pixel")
  /\ result' = [hues |-> Hues(task.input), gray |-> Grays(task.input)]

(* current_column_ is 63 after a frame, a loaded state brings any, and      *)
(* before the first frame nothing has assigned it.                          *)
Frame ==
  /\ Compute("frame")
  /\ result' = render(task.input)

Next == Sorting \/ NumTheory \/ Cipher \/ LifeGame \/ Pixel \/ Frame

Spec == Init /\ [][Next]_<<task, result>>

----------------------------------------------------------------------------
InOrder(A) == SortSeq(A, <)

(* quick_sort, batcher_sort and shell_sort leave every array sorted, a      *)
(* permutation of what it was; heap_sort those of odd length.  shell_sort   *)
(* compares a value it has overwritten and so moves an element once per gap *)
(* at most: that is enough with the gaps of gaps.h, where an array in order *)
(* at gaps 2h and 3h is one move from being in order at h.                  *)
SortsSort ==
  Done("sorting") =>
    /\ result.quick = InOrder(task.input)
    /\ result.batcher = InOrder(task.input)
    /\ result.shell = InOrder(task.input)
    /\ Len(task.input) % 2 = 1 => result.heap = InOrder(task.input)

Power(a, d, n) ==
  LET power[k \in Nat] == IF k = 0 THEN 1 % n ELSE (a * power[k - 1]) % n IN power[d]

Divides(d, n) == n % d = 0

(* gcd, mod_inverse and pow_mod against their definitions: an inverse in    *)
(* range where there is one, 0 where there is none.                         *)
ArithmeticRight ==
  Done("numtheory") =>
    LET n == task.input
    IN \A a \in 0 .. n - 1 :
         /\ result[a].gcd = Max({d \in 1 .. n : Divides(d, a) /\ Divides(d, n)})
         /\ result[a].power = Power(a, n, n)
         /\ IF result[a].gcd = 1
            THEN result[a].inverse \in 1 .. n - 1 /\ (a * result[a].inverse) % n = 1
            ELSE result[a].inverse = 0

(* is_prime never refuses a prime, whatever is drawn, and a round lets an   *)
(* odd composite pass for at most a quarter of the numbers below, and 0.    *)
PrimalityTest ==
  Done("numtheory") =>
    LET n == task.input
        accepted == {a \in 0 .. n - 1 : result[a].prime}
    IN IF n > 1 /\ \A d \in 2 .. n - 1 : ~Divides(d, n)
       THEN accepted = 0 .. n - 1
       ELSE 4 * (Cardinality(accepted) - 1) <= n - 1

(* The private key undoes the public one on every number below pq, where    *)
(* ss_make_priv finds a key.  A file comes back, followed by the zeros that *)
(* filled its last block, also when it ends in zeros, in a full block, or   *)
(* is empty.                                                                *)
DecryptInverts ==
  Done("cipher") /\ result.key.d # 0 =>
    LET size == BlockSize(ss_make_pub(task.input[1], task.input[2])) - 1
    IN /\ \A m \in DOMAIN result.numbers : result.numbers[m] = m
       /\ \A f \in DOMAIN result.files :
            /\ IsPrefix(f, result.files[f])
            /\ Len(result.files[f]) \in Len(f) .. Len(f) + size - 1
            /\ Divides(size, Len(result.files[f]))
            /\ \A i \in Len(f) + 1 .. Len(result.files[f]) : result.files[f][i] = 0

Bad(w, i) == w.pairs[i][1] > w.rows \/ w.pairs[i][2] > w.cols

NextTo(c, d) == c # d /\ c[1] - d[1] \in -1 .. 1 /\ c[2] - d[2] \in -1 .. 1

Near(S, c) == Cardinality({d \in S : NextTo(c, d)})

Conway(S, cells, n) ==
  LET after[k \in Nat] ==
        IF k = 0 THEN S
        ELSE LET P == after[k - 1] IN {c \in cells : Near(P, c) = 3 \/ (c \in P /\ Near(P, c) = 2)}
  IN after[n]

(* On a flat universe life shows Conway's game of life, whatever was in the *)
(* other universe, started from the pairs in range; it gives up only when   *)
(* two of them are out of range.                                            *)
LifeEvolves ==
  Done("life") /\ ~result.toroidal =>
    LET w == task.input
        bad == {i \in DOMAIN w.pairs : Bad(w, i)}
        good == {w.pairs[i] : i \in DOMAIN w.pairs \ bad}
    IN /\ result.life.outcome = "refused" => Cardinality(bad) > 1
       /\ result.life.outcome = "undefined" => \E cell \in good : cell[1] = w.rows \/ cell[2] = w.cols
       /\ result.life.outcome = "printed" => /\ Cardinality(bad) < 2
                                            /\ result.life.grid = Conway(good, Cells(w), w.generations)

(* The color wheel: how far a channel is from v goes up and down with the   *)
(* distance of the hue from it.                                             *)
Channel(in, n) ==
  LET k == (n * in.d + in.h) % (6 * in.d)
  IN in.v * in.d - in.c * Max({0, Min({k, 4 * in.d - k, in.d})})

AddressesOf(line) == {line[x].address : x \in DOMAIN line}

OnWheel(hsv) == hsv.h >= 0 => hsv2rgb(hsv) = <<Channel(hsv, 5), Channel(hsv, 3), Channel(hsv, 1)>>

Video == {a \in 20992 .. 28671 : a % 2 = 0}

(* Six sectors written out by hand are the color wheel, for every hue the   *)
(* filters meet that is not negative (a red with more blue than green has a *)
(* negative one, and gets other channels, negative ones too).  A gray stays *)
(* gray through all the filters that follow the gray scale, whatever noise  *)
(* and rounding do.  And the pixels of a frame show each two bytes of the   *)
(* video memory once, and nothing of the controller's cell behind it.       *)
FramesShown ==
  /\ Done("pixel") => /\ \A hsv \in result.hues : OnWheel(hsv)
                     /\ \A c \in result.gray : Equal(c) /\ c[1] \in Bytes
  /\ Done("frame") => UNION {AddressesOf(result[y]) : y \in DOMAIN result} = Video
=============================================================================
