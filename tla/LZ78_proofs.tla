------------------------------ MODULE LZ78_proofs ------------------------------
(***************************************************************************)
(* Proofs about encode | decode.  The invariant says what the k-th pair in *)
(* the stream names: the k-th word of the file, as the encoder's trie has  *)
(* it and as the decoder's table will have it after k - 1 pairs.  Both     *)
(* programs count their pairs by it, so that neither has to be looked at   *)
(* when the other takes a step.                                            *)
(***************************************************************************)
EXTENDS LZ78, WellFoundedInduction, SequenceTheorems, TLAPS

----------------------------------------------------------------------------
(* Recursive functions, which are the loops of the code, and the numbers    *)
(* and streams they make.                                                   *)

Less == {p \in Nat \X Nat : p[1] < p[2]}

(* Every set of numbers has a least one. *)
LEMMA Least == ASSUME NEW T \in SUBSET Nat, T # {} PROVE \E x \in T : \A y \in T : x <= y
<1>1. IsWellFoundedOn(Less, Nat)
  BY NatLessThanWellFounded DEF OpToRel, Less
<1>2. PICK x \in T : \A y \in T : <<y, x>> \notin Less
  BY <1>1, WFMin
<1>3. ASSUME NEW y \in T PROVE x <= y
  <2>1. <<y, x>> \in Nat \X Nat /\ <<y, x>>[1] = y /\ <<y, x>>[2] = x
    OBVIOUS
  <2>2. ~(y < x)
    BY <1>2, <2>1 DEF Less
  <2> QED BY <2>2
<1> QED BY <1>3

(* A set of numbers with 0 and with every successor has all of them. *)
LEMMA Induction == ASSUME NEW S, 0 \in S, \A n \in Nat : n \in S => n + 1 \in S PROVE Nat \subseteq S
<1> SUFFICES ASSUME NEW k \in Nat, k \notin S PROVE FALSE
  OBVIOUS
<1>1. PICK x \in Nat \ S : \A y \in Nat \ S : x <= y
  BY Least
<1>2. x # 0 /\ x - 1 \in Nat
  BY <1>1
<1>3. x - 1 \in S
  BY <1>1, <1>2
<1> QED BY <1>1, <1>2, <1>3

(* f obeys the equations of a recursive function up to m. *)
Obeys(f, c, step, m) == f[0] = c /\ \A k \in 1 .. m : f[k] = step[<<k, f[k - 1]>>]

(* The equations of a recursive function on 0 .. n have a solution. *)
LEMMA Recursion ==
  ASSUME NEW V, NEW c \in V, NEW n \in Nat, NEW step \in [(1 .. n) \X V -> V]
  PROVE  \E f \in [0 .. n -> V] : Obeys(f, c, step, n)
<1> DEFINE S == {m \in Nat : m <= n => \E f \in [0 .. m -> V] : Obeys(f, c, step, m)}
<1>1. 0 \in S
  <2> DEFINE f == [k \in 0 .. 0 |-> c]
  <2>1. f \in [0 .. 0 -> V] /\ Obeys(f, c, step, 0)
    BY DEF Obeys
  <2> QED BY <2>1
<1>2. ASSUME NEW m \in Nat, m \in S PROVE m + 1 \in S
  <2> SUFFICES ASSUME m + 1 <= n PROVE \E g \in [0 .. m + 1 -> V] : Obeys(g, c, step, m + 1)
    OBVIOUS
  <2>1. PICK f \in [0 .. m -> V] : Obeys(f, c, step, m)
    BY <1>2
  <2>2. f[m] \in V /\ <<m + 1, f[m]>> \in (1 .. n) \X V
    BY <2>1
  <2>3. PICK x \in V : x = step[<<m + 1, f[m]>>]
    BY <2>2
  <2> DEFINE g == [k \in 0 .. m + 1 |-> IF k = m + 1 THEN x ELSE f[k]]
  <2>4. g \in [0 .. m + 1 -> V] /\ g[0] = c
    BY <2>1 DEF Obeys
  <2>5. ASSUME NEW k \in 1 .. m + 1 PROVE g[k] = step[<<k, g[k - 1]>>]
    <3>1. CASE k = m + 1
      <4>1. g[k] = x /\ g[k - 1] = f[m]
        BY <3>1
      <4> QED BY <2>3, <3>1, <4>1
    <3>2. CASE k # m + 1
      <4>1. k \in 1 .. m /\ g[k] = f[k] /\ g[k - 1] = f[k - 1]
        BY <3>2
      <4> QED BY <2>1, <4>1 DEF Obeys
    <3> QED BY <3>1, <3>2
  <2> HIDE DEF g
  <2> QED BY <2>4, <2>5 DEF Obeys
<1>3. Nat \subseteq S
  <2> HIDE DEF S
  <2> QED BY <1>1, <1>2, Induction
<1> QED BY <1>3

(* What its equations keep in V is in V. *)
LEMMA Typed ==
  ASSUME NEW V, NEW n \in Nat, NEW r, r = [k \in 0 .. n |-> r[k]], r[0] \in V,
         \A k \in 1 .. n : r[k - 1] \in V => r[k] \in V
  PROVE  r \in [0 .. n -> V]
<1> DEFINE S == {k \in Nat : k <= n => r[k] \in V}
<1>1. 0 \in S
  OBVIOUS
<1>2. ASSUME NEW k \in Nat, k \in S PROVE k + 1 \in S
  <2> SUFFICES ASSUME k + 1 <= n PROVE r[k + 1] \in V
    OBVIOUS
  <2>1. k + 1 \in 1 .. n /\ (k + 1) - 1 = k /\ r[k] \in V
    BY <1>2
  <2> QED BY <2>1
<1>3. Nat \subseteq S
  <2> HIDE DEF S
  <2> QED BY <1>1, <1>2, Induction
<1> QED BY <1>3

(* A number shifted bit by bit. *)
LEMMA Shifts ==
  ASSUME NEW n \in Nat
  PROVE  /\ RShift(n) \in [0 .. 2 * BITS -> Nat]
         /\ RShift(n)[0] = n
         /\ \A k \in 1 .. 2 * BITS : RShift(n)[k] = RShift(n)[k - 1] \div 2
<1> DEFINE D == 0 .. 2 * BITS
           step == [p \in (1 .. 2 * BITS) \X Nat |-> p[2] \div 2]
           Eq(f) == f = [k \in D |-> IF k = 0 THEN n ELSE f[k - 1] \div 2]
<1>0. 2 * BITS \in Nat
  BY LZ78Assumption
<1>1. step \in [(1 .. 2 * BITS) \X Nat -> Nat]
  OBVIOUS
<1>2. PICK f \in [D -> Nat] : Obeys(f, n, step, 2 * BITS)
  <2> HIDE DEF step
  <2> QED BY <1>0, <1>1, Recursion
<1>3. ASSUME NEW k \in D PROVE f[k] = IF k = 0 THEN n ELSE f[k - 1] \div 2
  <2>1. CASE k = 0
    BY <1>2, <2>1 DEF Obeys
  <2>2. CASE k # 0
    <3>1. k \in 1 .. 2 * BITS /\ f[k - 1] \in Nat
      BY <1>0, <1>2, <2>2
    <3>2. step[<<k, f[k - 1]>>] = f[k - 1] \div 2
      BY <3>1
    <3> QED BY <1>2, <2>2, <3>1, <3>2 DEF Obeys
  <2> QED BY <2>1, <2>2
<1>4. Eq(f)
  <2>1. f = [k \in D |-> f[k]]
    BY <1>2
  <2> HIDE DEF D
  <2> QED BY <1>3, <2>1, Zenon
<1> DEFINE r == RShift(n)
<1>5. r = [k \in D |-> IF k = 0 THEN n ELSE r[k - 1] \div 2]
  <2>1. RShift(n) = CHOOSE g : Eq(g)
    BY DEF RShift
  <2> QED BY <1>4, <2>1
<1> HIDE DEF r
<1>6. \A k \in D : r[k] = IF k = 0 THEN n ELSE r[k - 1] \div 2
  <2> HIDE DEF D
  <2> QED BY <1>5, Zenon
<1>7. r = [k \in D |-> r[k]]
  <2> HIDE DEF D
  <2> QED BY <1>5, <1>6, Zenon
<1>8. r[0] = n /\ \A k \in 1 .. 2 * BITS : r[k] = r[k - 1] \div 2
  BY <1>0, <1>6
<1>9. r \in [D -> Nat]
  <2>1. ASSUME NEW k \in 1 .. 2 * BITS, r[k - 1] \in Nat PROVE r[k] \in Nat
    BY <1>8, <2>1
  <2> QED BY <1>0, <1>7, <1>8, <2>1, Typed
<1> QED BY <1>8, <1>9 DEF r

(* The value of a sequence of bits, from the last to the first. *)
LEMMA Values ==
  ASSUME NEW b \in Seq(0 .. 1)
  PROVE  \E v \in [0 .. Len(b) -> Nat] :
           /\ v[0] = 0 /\ ValueOf(b) = v[Len(b)]
           /\ \A k \in 1 .. Len(b) : v[k] = b[Len(b) + 1 - k] + 2 * v[k - 1]
<1>0. PICK n \in Nat : n = Len(b)
  OBVIOUS
<1> DEFINE D == 0 .. n
           step == [p \in (1 .. n) \X Nat |-> b[n + 1 - p[1]] + 2 * p[2]]
           Eq(f) == f = [k \in D |-> IF k = 0 THEN 0 ELSE b[n + 1 - k] + 2 * f[k - 1]]
<1>10. \A k \in 1 .. n : b[n + 1 - k] \in 0 .. 1
  BY <1>0
<1>1. step \in [(1 .. n) \X Nat -> Nat]
  <2> SUFFICES ASSUME NEW p \in (1 .. n) \X Nat PROVE b[n + 1 - p[1]] + 2 * p[2] \in Nat
    OBVIOUS
  <2>1. p[1] \in 1 .. n /\ p[2] \in Nat
    OBVIOUS
  <2>2. b[n + 1 - p[1]] \in 0 .. 1
    BY <1>10, <2>1
  <2> QED BY <2>1, <2>2
<1>2. PICK f \in [D -> Nat] : Obeys(f, 0, step, n)
  <2> HIDE DEF step
  <2> QED BY <1>0, <1>1, Recursion
<1>3. ASSUME NEW k \in D PROVE f[k] = IF k = 0 THEN 0 ELSE b[n + 1 - k] + 2 * f[k - 1]
  <2>1. CASE k = 0
    BY <1>2, <2>1 DEF Obeys
  <2>2. CASE k # 0
    <3>0. k \in 1 .. n /\ k - 1 \in D
      BY <1>0, <2>2
    <3>1. f[k - 1] \in Nat
      BY <1>2, <3>0, Zenon
    <3>2. step[<<k, f[k - 1]>>] = b[n + 1 - k] + 2 * f[k - 1]
      BY <3>0, <3>1
    <3> QED BY <1>2, <2>2, <3>0, <3>2 DEF Obeys
  <2> QED BY <2>1, <2>2
<1>4. Eq(f)
  <2>1. f = [k \in D |-> f[k]]
    BY <1>2
  <2> HIDE DEF D
  <2> QED BY <1>3, <2>1, Zenon
<1> DEFINE r == CHOOSE g : Eq(g)
<1>5. r = [k \in D |-> IF k = 0 THEN 0 ELSE b[n + 1 - k] + 2 * r[k - 1]] /\ ValueOf(b) = r[n]
  <2>1. Eq(r)
    BY <1>4
  <2>2. ValueOf(b) = r[n]
    BY <1>0 DEF ValueOf
  <2> QED BY <2>1, <2>2
<1> HIDE DEF r
<1>6. \A k \in D : r[k] = IF k = 0 THEN 0 ELSE b[n + 1 - k] + 2 * r[k - 1]
  <2> HIDE DEF D
  <2> QED BY <1>5, Zenon
<1>7. r = [k \in D |-> r[k]]
  <2> HIDE DEF D
  <2> QED BY <1>5, <1>6, Zenon
<1>8. r[0] = 0 /\ \A k \in 1 .. n : r[k] = b[n + 1 - k] + 2 * r[k - 1]
  BY <1>0, <1>6
<1>9. r \in [D -> Nat]
  <2>1. ASSUME NEW k \in 1 .. n, r[k - 1] \in Nat PROVE r[k] \in Nat
    <3>1. b[n + 1 - k] \in 0 .. 1
      BY <1>10
    <3>2. r[k] = b[n + 1 - k] + 2 * r[k - 1]
      BY <1>8
    <3>3. \A x \in 0 .. 1, y \in Nat : x + 2 * y \in Nat
      OBVIOUS
    <3> QED BY <2>1, <3>1, <3>2, <3>3
  <2>2. r[0] \in Nat /\ r = [k \in 0 .. n |-> r[k]] /\ n \in Nat
    BY <1>0, <1>7, <1>8
  <2>3. \A k \in 1 .. n : r[k - 1] \in Nat => r[k] \in Nat
    BY <2>1
  <2>4. r \in [0 .. n -> Nat]
    BY <2>2, <2>3, Typed
  <2> QED BY <2>4
<1> QED BY <1>0, <1>5, <1>8, <1>9

Writers(X) == [buf : Seq(X), file : Seq(X)]

(* v is w with items after it. *)
Follows(v, w, items) == v.file \o v.buf = (w.file \o w.buf) \o items

(* Items after items are all of them in a row. *)
LEMMA FollowsOn ==
  ASSUME NEW X, NEW w \in Writers(X), NEW v \in Writers(X), NEW u \in Writers(X),
         NEW s \in Seq(X), NEW t \in Seq(X), Follows(v, w, s), Follows(u, v, t)
  PROVE  Follows(u, w, s \o t)
<1> DEFINE a == w.file \o w.buf
<1>1. a \in Seq(X)
  BY DEF Writers
<1>2. u.file \o u.buf = (a \o s) \o t
  BY DEF Follows
<1> HIDE DEF a
<1>3. (a \o s) \o t = a \o (s \o t)
  BY <1>1, ConcatAssociative
<1> QED BY <1>2, <1>3 DEF a, Follows

(* v is w with one item more: the file is as long, or a buffer longer. *)
HasOne(X, size, w, x, v) ==
  /\ v \in Writers(X)
  /\ Follows(v, w, <<x>>)
  /\ Len(v.buf) \in 1 .. size
  /\ \/ v.file = w.file
     \/ Len(v.file) = Len(w.file) + size

(* Put: the item comes last, and the file stays or grows by a buffer. *)
LEMMA PutOne ==
  ASSUME NEW X, NEW w \in Writers(X), NEW x \in X, NEW size \in Nat \ {0}, Len(w.buf) <= size
  PROVE  HasOne(X, size, w, x, Put(w, x, size))
<1>0. w.buf \in Seq(X) /\ w.file \in Seq(X) /\ w = [buf |-> w.buf, file |-> w.file]
  BY DEF Writers
<1>1. CASE Len(w.buf) = size
  <2> DEFINE p == Put(w, x, size)
             all == w.file \o w.buf
             one == <<x>>
  <2>1. p = [buf |-> one, file |-> all]
    BY <1>1 DEF Put
  <2>2. all \in Seq(X) /\ Len(all) = Len(w.file) + size /\ one \in Seq(X) /\ Len(one) = 1
    BY <1>0, <1>1
  <2> HIDE DEF p, all, one
  <2>3. p.file = all /\ p.buf = one /\ p \in Writers(X)
    BY <2>1, <2>2 DEF Writers
  <2>4. Follows(p, w, one)
    BY <2>3, Zenon DEF Follows, all
  <2>5. Len(p.buf) = 1 /\ Len(p.file) = Len(w.file) + size
    BY <2>2, <2>3, Zenon
  <2>6. Len(p.buf) \in 1 .. size
    BY <2>5
  <2> QED BY <2>3, <2>4, <2>5, <2>6 DEF p, one, HasOne
<1>2. CASE Len(w.buf) # size
  <2>1. Put(w, x, size) = [buf |-> Append(w.buf, x), file |-> w.file]
    BY <1>0, <1>2 DEF Put
  <2>2. w.file \o Append(w.buf, x) = (w.file \o w.buf) \o <<x>>
    BY <1>0
  <2> QED BY <1>0, <1>2, <2>1, <2>2 DEF Writers, Follows, HasOne
<1> QED BY <1>1, <1>2

(* v is w after items were put into it; B are the lengths its file can have. *)
IsPut(X, size, B, w, items, v) ==
  /\ v \in Writers(X)
  /\ Follows(v, w, items)
  /\ Len(v.buf) <= size /\ (items # << >> => v.buf # << >>)
  /\ Len(v.file) \in B /\ Len(v.file) >= Len(w.file)

(* One item more, after those that were put before. *)
LEMMA IsPutOne ==
  ASSUME NEW X, NEW w \in Writers(X), NEW items \in Seq(X), NEW size \in Nat \ {0},
         NEW B, \A n \in B : n + size \in B, B \subseteq Nat, NEW v, IsPut(X, size, B, w, items, v), NEW x \in X
  PROVE  IsPut(X, size, B, w, items \o <<x>>, Put(v, x, size))
<1>1. v \in Writers(X) /\ Follows(v, w, items) /\ Len(v.buf) <= size /\ Len(v.file) \in B /\ Len(v.file) >= Len(w.file)
  BY DEF IsPut
<1> DEFINE u == Put(v, x, size)
<1> HIDE DEF u
<1>2. HasOne(X, size, v, x, u)
  BY <1>1, PutOne DEF u
<1>3. u \in Writers(X) /\ Follows(u, w, items \o <<x>>)
  <2>1. <<x>> \in Seq(X) /\ u \in Writers(X) /\ Follows(u, v, <<x>>)
    BY <1>2 DEF HasOne
  <2> QED BY <1>1, <2>1, FollowsOn
<1>4. Len(u.file) \in B /\ Len(u.file) >= Len(w.file)
  <2>1. PICK m, n \in Nat : m = Len(w.file) /\ n = Len(v.file) /\ n >= m /\ n \in B
    BY <1>1 DEF Writers
  <2>2. Len(u.file) = n \/ Len(u.file) = n + size
    BY <1>2, <2>1 DEF HasOne
  <2>3. size \in Nat /\ n + size \in B
    BY <2>1
  <2>5. \A i, j, l \in Nat : i >= j => i + l >= j
    OBVIOUS
  <2>4. n >= m /\ n + size >= m
    BY <2>1, <2>3, <2>5
  <2> QED BY <2>1, <2>2, <2>3, <2>4
<1>5. u.buf # << >> /\ Len(u.buf) <= size
  BY <1>2 DEF HasOne
<1> QED BY <1>3, <1>4, <1>5 DEF IsPut, u

(* What is put into a stream comes after what it has, and the file grows by *)
(* whole buffers.                                                           *)
LEMMA Puts ==
  ASSUME NEW X, NEW w \in Writers(X), NEW items \in Seq(X), NEW size \in Nat \ {0}, Len(w.buf) <= size,
         NEW B, Len(w.file) \in B, \A n \in B : n + size \in B, B \subseteq Nat
  PROVE  IsPut(X, size, B, w, items, PutAll(w, items, size))
<1>0. PICK n \in Nat : n = Len(items)
  OBVIOUS
<1> DEFINE D == 0 .. n
           V == {v \in Writers(X) : Len(v.buf) <= size}
           step == [p \in (1 .. n) \X V |-> Put(p[2], items[p[1]], size)]
           Eq(f) == f = [k \in D |-> IF k = 0 THEN w ELSE Put(f[k - 1], items[k], size)]
<1>1. step \in [(1 .. n) \X V -> V]
  <2> SUFFICES ASSUME NEW v \in V, NEW k \in 1 .. n PROVE Put(v, items[k], size) \in V
    OBVIOUS
  <2>1. items[k] \in X
    BY <1>0
  <2>2. v \in Writers(X) /\ Len(v.buf) <= size
    OBVIOUS
  <2>3. Put(v, items[k], size) \in Writers(X) /\ Len(Put(v, items[k], size).buf) \in 1 .. size
    <3>1. HasOne(X, size, v, items[k], Put(v, items[k], size))
      BY <2>1, <2>2, PutOne
    <3> QED BY <3>1 DEF HasOne
  <2> QED BY <2>3
<1>2. PICK f \in [D -> V] : Obeys(f, w, step, n)
  <2> HIDE DEF step
  <2>1. w \in V
    OBVIOUS
  <2> HIDE DEF V
  <2> QED BY <1>0, <1>1, <2>1, Recursion
<1>3. ASSUME NEW k \in D PROVE f[k] = IF k = 0 THEN w ELSE Put(f[k - 1], items[k], size)
  <2>1. CASE k = 0
    BY <1>2, <2>1 DEF Obeys
  <2>2. CASE k # 0
    <3> HIDE DEF V
    <3>1. k \in 1 .. n /\ k - 1 \in D
      BY <2>2
    <3>2. f[k - 1] \in V
      BY <1>2, <3>1, Zenon
    <3>3. step[<<k, f[k - 1]>>] = Put(f[k - 1], items[k], size)
      BY <3>1, <3>2
    <3>4. f[k] = step[<<k, f[k - 1]>>]
      BY <1>2, <3>1, Zenon DEF Obeys
    <3> QED BY <2>2, <3>3, <3>4
  <2> QED BY <2>1, <2>2
<1>4. Eq(f)
  <2>1. f = [k \in D |-> f[k]]
    BY <1>2
  <2> HIDE DEF D, V
  <2> QED BY <1>3, <2>1, Zenon
<1> DEFINE r == CHOOSE g : Eq(g)
<1>5. r = [k \in D |-> IF k = 0 THEN w ELSE Put(r[k - 1], items[k], size)] /\ PutAll(w, items, size) = r[n]
  <2>1. Eq(r)
    BY <1>4
  <2>2. PutAll(w, items, size) = r[n]
    BY <1>0 DEF PutAll
  <2> QED BY <2>1, <2>2
<1> HIDE DEF r
<1>6. \A k \in D : r[k] = IF k = 0 THEN w ELSE Put(r[k - 1], items[k], size)
  <2> HIDE DEF D
  <2> QED BY <1>5, Zenon
<1>7. r[0] = w /\ \A k \in 1 .. n : r[k] = Put(r[k - 1], items[k], size)
  BY <1>6
<1> DEFINE part(k) == SubSeq(items, 1, k)
           S == {k \in Nat : k <= n => IsPut(X, size, B, w, part(k), r[k])}
<1>8. 0 \in S
  <2>1. part(0) = << >>
    OBVIOUS
  <2>2. (w.file \o w.buf) \o << >> = w.file \o w.buf
    BY DEF Writers
  <2>3. IsPut(X, size, B, w, << >>, w)
    BY <2>2 DEF Writers, IsPut, Follows
  <2> QED BY <1>7, <2>1, <2>3
<1>9. ASSUME NEW k \in Nat, k \in S PROVE k + 1 \in S
  <2> SUFFICES ASSUME k + 1 <= n PROVE IsPut(X, size, B, w, part(k + 1), r[k + 1])
    OBVIOUS
  <2>1. IsPut(X, size, B, w, part(k), r[k]) /\ part(k) \in Seq(X)
    BY <1>0, <1>9
  <2>2. k + 1 \in 1 .. n /\ (k + 1) - 1 = k /\ items[k + 1] \in X
    BY <1>0
  <2>3. r[k + 1] = Put(r[k], items[k + 1], size)
    BY <1>7, <2>2
  <2>4. part(k + 1) = part(k) \o <<items[k + 1]>>
    BY <1>0, <2>2, SubSeqRecursiveSecond
  <2> HIDE DEF part
  <2> QED BY <2>1, <2>2, <2>3, <2>4, IsPutOne
<1>10. Nat \subseteq S
  <2> HIDE DEF S
  <2> QED BY <1>8, <1>9, Induction
<1>11. part(n) = items
  BY <1>0, SubSeqFull
<1> HIDE DEF part
<1>12. n \in S
  BY <1>0, <1>10
<1>13. IsPut(X, size, B, w, part(n), r[n])
  BY <1>12
<1> QED BY <1>5, <1>11, <1>13

(* The sizes of the buffers. *)
LEMMA Widths == 2 * BITS \in Nat /\ BITS \in 1 .. 2 * BITS /\ BUFFER \in Nat /\ BUFFER > 1 /\ BUFFER >= BITS
<1>1. BITS \in Nat /\ BITS >= 1 /\ BLOCK \in Nat /\ BLOCK > 1
  BY LZ78Assumption
<1>2. BUFFER \in Nat /\ BUFFER > 1 /\ BUFFER >= BITS
  <2>1. \A m, n \in Nat : m >= 1 /\ n > 1 => m * n \in Nat /\ m * n > 1 /\ m * n >= m
    OBVIOUS
  <2> QED BY <1>1, <2>1 DEF BUFFER
<1> QED BY <1>1, <1>2

(* A smaller number is shifted out no later. *)
LEMMA ShiftsOrdered ==
  ASSUME NEW n \in Nat, NEW m \in Nat, n <= m, NEW w \in 0 .. 2 * BITS, RShift(m)[w] = 0
  PROVE  RShift(n)[w] = 0
<1> DEFINE f == RShift(n)
           g == RShift(m)
           S == {k \in Nat : k <= 2 * BITS => f[k] <= g[k]}
<1>1. /\ f \in [0 .. 2 * BITS -> Nat] /\ f[0] = n
      /\ \A k \in 1 .. 2 * BITS : f[k] = f[k - 1] \div 2
  BY Shifts
<1>2. /\ g \in [0 .. 2 * BITS -> Nat] /\ g[0] = m
      /\ \A k \in 1 .. 2 * BITS : g[k] = g[k - 1] \div 2
  BY Shifts
<1> HIDE DEF f, g
<1>3. 0 \in S
  BY <1>1, <1>2
<1>4. ASSUME NEW k \in Nat, k \in S PROVE k + 1 \in S
  <2> SUFFICES ASSUME k + 1 <= 2 * BITS PROVE f[k + 1] <= g[k + 1]
    OBVIOUS
  <2>1. 2 * BITS \in Nat
    BY Widths
  <2>2. k + 1 \in 1 .. 2 * BITS /\ (k + 1) - 1 = k /\ k \in 0 .. 2 * BITS
    BY <2>1
  <2>3. f[k + 1] = f[k] \div 2 /\ g[k + 1] = g[k] \div 2 /\ f[k] \in Nat /\ g[k] \in Nat
    BY <1>1, <1>2, <2>2
  <2>4. f[k] <= g[k]
    BY <1>4, <2>2
  <2>5. \A x, y \in Nat : x <= y => x \div 2 <= y \div 2
    OBVIOUS
  <2> QED BY <2>3, <2>4, <2>5
<1>5. Nat \subseteq S
  <2> HIDE DEF S
  <2> QED BY <1>3, <1>4, Induction
<1>6. w \in Nat /\ f[w] \in Nat
  BY <1>1, Widths
<1>7. f[w] <= g[w]
  BY <1>5, <1>6, Widths
<1> QED BY <1>6, <1>7 DEF f, g

(* bitlen: the shifts it takes until nothing is left. *)
LEMMA BitLengthFound ==
  ASSUME NEW code \in Nat, code <= MAX_CODE
  PROVE  /\ bitlen(code) \in 0 .. 2 * BITS
         /\ RShift(code)[bitlen(code)] = 0
         /\ \A v \in 0 .. bitlen(code) - 1 : RShift(code)[v] # 0
<1> DEFINE f == RShift(code)
           P(w) == f[w] = 0 /\ \A v \in 0 .. w - 1 : f[v] # 0
           T == {w \in Nat : w <= 2 * BITS /\ f[w] = 0}
<1>1. f[0] = code
  BY Shifts
<1>2. f[2 * BITS] = 0
  <2>1. MAX_CODE \in Nat /\ RShift(MAX_CODE)[2 * BITS] = 0
    BY LZ78Assumption
  <2> QED BY <2>1, ShiftsOrdered, Widths
<1> HIDE DEF f
<1>3. 2 * BITS \in T
  BY <1>2, Widths
<1>4. PICK w \in T : \A v \in T : w <= v
  BY <1>3, Least
<1>5. w \in 0 .. 2 * BITS /\ P(w)
  BY <1>4, Widths
<1>6. bitlen(code) = CHOOSE v \in 0 .. 2 * BITS : P(v)
  BY DEF bitlen, f
<1>7. bitlen(code) \in 0 .. 2 * BITS /\ P(bitlen(code))
  <2> HIDE DEF P
  <2> QED BY <1>5, <1>6
<1> QED BY <1>7 DEF f

(* bitlen: the code is shifted out after so many bits, and only 0 has none. *)
LEMMA BitLength ==
  ASSUME NEW code \in Nat, code <= MAX_CODE
  PROVE  /\ bitlen(code) \in 0 .. 2 * BITS
         /\ RShift(code)[bitlen(code)] = 0
         /\ code > 0 => bitlen(code) > 0
<1>1. RShift(code)[0] = code
  BY Shifts
<1> QED BY <1>1, BitLengthFound

(* Bits that are those of n have the value n. *)
LEMMA BitsRead ==
  ASSUME NEW n \in Nat, NEW b \in Seq(0 .. 1), Len(b) <= 2 * BITS, RShift(n)[Len(b)] = 0,
         \A i \in 1 .. Len(b) : b[i] = BitOf(n, i - 1)
  PROVE  ValueOf(b) = n
<1>0. PICK w \in Nat : w = Len(b) /\ w <= 2 * BITS
  OBVIOUS
<1>1. PICK v \in [0 .. w -> Nat] :
           /\ v[0] = 0 /\ ValueOf(b) = v[w]
           /\ \A k \in 1 .. w : v[k] = b[w + 1 - k] + 2 * v[k - 1]
  BY <1>0, Values
<1> DEFINE f == RShift(n)
           S == {k \in Nat : k <= w => v[k] = f[w - k]}
<1>2. /\ f \in [0 .. 2 * BITS -> Nat] /\ f[0] = n
      /\ \A k \in 1 .. 2 * BITS : f[k] = f[k - 1] \div 2
  BY Shifts
<1>3. f[w] = 0 /\ \A i \in 1 .. w : b[i] = f[i - 1] % 2
  BY <1>0 DEF BitOf
<1> HIDE DEF f
<1>4. 0 \in S
  BY <1>1, <1>3
<1>5. ASSUME NEW k \in Nat, k \in S PROVE k + 1 \in S
  <2> SUFFICES ASSUME k + 1 <= w PROVE v[k + 1] = f[w - (k + 1)]
    OBVIOUS
  <2> DEFINE d == w - k
  <2>10. d \in 1 .. w /\ d = w - k
    BY <1>0
  <2> HIDE DEF d
  <2>0. PICK j \in 1 .. w : j = w - k
    BY <2>10
  <2>1. k + 1 \in 1 .. w /\ w + 1 - (k + 1) = j /\ (k + 1) - 1 = k /\ w - (k + 1) = j - 1
    BY <1>0, <2>0
  <2>2. j \in 1 .. 2 * BITS /\ j - 1 \in 0 .. 2 * BITS
    BY <1>0, <2>0, Widths
  <2>3. v[k + 1] = b[j] + 2 * v[k]
    BY <1>1, <2>1
  <2>4. v[k] = f[j]
    BY <1>5, <2>0
  <2>5. PICK x \in Nat : x = f[j - 1]
    BY <1>2, <2>2
  <2>6. f[j] = x \div 2
    BY <1>2, <2>2, <2>5
  <2>7. b[j] = x % 2
    BY <1>3, <2>0, <2>5
  <2>8. (x % 2) + 2 * (x \div 2) = x
    OBVIOUS
  <2> HIDE DEF S
  <2>9. v[k + 1] = (x % 2) + 2 * (x \div 2)
    BY <2>3, <2>4, <2>6, <2>7, Zenon
  <2> QED BY <2>1, <2>5, <2>8, <2>9, Zenon
<1>6. Nat \subseteq S
  <2> HIDE DEF S
  <2> QED BY <1>4, <1>5, Induction
<1>7. v[w] = f[w - w]
  BY <1>0, <1>6
<1> QED BY <1>0, <1>1, <1>2, <1>7

(* No bit set is 0, at any width. *)
LEMMA ZerosRead ==
  ASSUME NEW b \in Seq(0 .. 1), \A i \in 1 .. Len(b) : b[i] = 0
  PROVE  ValueOf(b) = 0
<1>0. PICK w \in Nat : w = Len(b)
  OBVIOUS
<1>1. PICK v \in [0 .. w -> Nat] :
           /\ v[0] = 0 /\ ValueOf(b) = v[w]
           /\ \A k \in 1 .. w : v[k] = b[w + 1 - k] + 2 * v[k - 1]
  BY <1>0, Values
<1> DEFINE S == {k \in Nat : k <= w => v[k] = 0}
<1>2. 0 \in S
  BY <1>1
<1>3. ASSUME NEW k \in Nat, k \in S PROVE k + 1 \in S
  <2> SUFFICES ASSUME k + 1 <= w PROVE v[k + 1] = 0
    OBVIOUS
  <2>1. k + 1 \in 1 .. w /\ w + 1 - (k + 1) \in 1 .. w /\ (k + 1) - 1 = k
    OBVIOUS
  <2>2. v[k + 1] = b[w + 1 - (k + 1)] + 2 * v[k]
    BY <1>1, <2>1
  <2>3. b[w + 1 - (k + 1)] = 0 /\ v[k] = 0
    BY <1>0, <1>3, <2>1
  <2> QED BY <2>2, <2>3
<1>4. Nat \subseteq S
  <2> HIDE DEF S
  <2> QED BY <1>2, <1>3, Induction
<1> QED BY <1>0, <1>1, <1>4

(* A number is natural, and even when its lowest bit is 0. *)
LEMMA LowBitRead ==
  ASSUME NEW b \in Seq(0 .. 1)
  PROVE  ValueOf(b) \in Nat /\ (Len(b) > 0 /\ b[1] = 0 => ValueOf(b) # 1)
<1>0. PICK w \in Nat : w = Len(b)
  OBVIOUS
<1>1. PICK v \in [0 .. w -> Nat] :
           /\ v[0] = 0 /\ ValueOf(b) = v[w]
           /\ \A k \in 1 .. w : v[k] = b[w + 1 - k] + 2 * v[k - 1]
  BY <1>0, Values
<1>2. ValueOf(b) \in Nat
  BY <1>1
<1>3. ASSUME w > 0, b[1] = 0 PROVE ValueOf(b) # 1
  <2>1. w \in 1 .. w /\ w + 1 - w = 1 /\ w - 1 \in 0 .. w
    BY <1>3
  <2>2. v[w] = 0 + 2 * v[w - 1] /\ v[w - 1] \in Nat
    BY <1>1, <1>3, <2>1
  <2> QED BY <1>1, <2>2
<1> QED BY <1>0, <1>2, <1>3

(* What was appended can be cut off again. *)
LEMMA Halves ==
  ASSUME NEW X, NEW s \in Seq(X), NEW t \in Seq(X)
  PROVE  SubSeq(s \o t, 1, Len(s)) = s /\ SubSeq(s \o t, Len(s) + 1, Len(s) + Len(t)) = t
<1> DEFINE a == s \o t
<1>0. PICK m, n \in Nat : m = Len(s) /\ n = Len(t)
  OBVIOUS
<1>1. a \in Seq(X) /\ Len(a) = m + n
  BY <1>0
<1>2. /\ \A i \in 1 .. m : a[i] = s[i] /\ s[i] \in X
      /\ \A i \in 1 .. n : a[m + i] = t[i] /\ t[i] \in X
  BY <1>0
<1> HIDE DEF a
<1>3. SubSeq(a, 1, m) = s
  <2>1. \A i \in 1 .. m : a[i] \in X
    BY <1>2
  <2>2. /\ SubSeq(a, 1, m) \in Seq(X) /\ Len(SubSeq(a, 1, m)) = m
        /\ \A i \in 1 .. m : SubSeq(a, 1, m)[i] = a[i]
    BY <1>0, <1>1, <2>1, SubSeqProperties
  <2> QED BY <1>0, <1>2, <2>2, SeqEqual
<1>4. SubSeq(a, m + 1, m + n) = t
  <2> DEFINE u == SubSeq(a, m + 1, m + n)
  <2>1. u \in Seq(X) /\ Len(u) = n /\ \A i \in 1 .. n : u[i] = a[m + i]
    BY <1>0, <1>1
  <2> HIDE DEF u
  <2>2. \A i \in 1 .. n : u[i] = t[i]
    BY <1>2, <2>1
  <2>3. u = t
    BY <1>0, <2>1, <2>2, SeqEqual
  <2> QED BY <2>3 DEF u
<1> QED BY <1>0, <1>3, <1>4 DEF a

(* What read_pair makes of the bits of a pair, whose code is no wider than a *)
(* symbol.                                                                   *)
LEMMA PairRead ==
  ASSUME NEW code \in Nat, NEW node \in Nat, node <= code, code <= MAX_CODE, bitlen(code) <= BITS,
         NEW sym \in Symbols
  PROVE  PairOf(CodeBits(node, bitlen(code)) \o SymBits(sym), bitlen(code)) = [code |-> node, sym |-> sym]
<1> DEFINE c == CodeBits(node, bitlen(code))
           s == SymBits(sym)
<1>0. PICK w \in Nat : w = bitlen(code) /\ w <= BITS /\ RShift(node)[w] = 0
  BY BitLength, ShiftsOrdered, Widths
<1>1. c \in Seq(0 .. 1) /\ Len(c) = w /\ \A i \in 1 .. w : c[i] = BitOf(node, i - 1)
  <2>1. ASSUME NEW i \in 1 .. w PROVE (i - 1) % BITS = i - 1 /\ BitOf(node, i - 1) \in 0 .. 1
    <3>1. (i - 1) % BITS = i - 1
      BY <1>0, Widths
    <3>2. RShift(node)[i - 1] \in Nat
      <4>1. i - 1 \in 0 .. 2 * BITS
        BY <1>0, Widths
      <4> QED BY <4>1, Shifts
    <3> QED BY <3>1, <3>2 DEF BitOf
  <2>2. c = [i \in 1 .. w |-> BitOf(node, (i - 1) % BITS)]
    BY <1>0 DEF CodeBits
  <2>3. c \in [1 .. w -> 0 .. 1] /\ \A i \in 1 .. w : c[i] = BitOf(node, i - 1)
    BY <2>1, <2>2
  <2> HIDE DEF c
  <2> QED BY <2>3
<1>2. s \in Seq(0 .. 1) /\ Len(s) = BITS /\ \A i \in 1 .. BITS : s[i] = BitOf(sym, i - 1)
  <2>1. ASSUME NEW i \in 1 .. BITS PROVE BitOf(sym, i - 1) \in 0 .. 1
    <3>1. RShift(sym)[i - 1] \in Nat
      <4>1. i - 1 \in 0 .. 2 * BITS /\ sym \in Nat
        BY Widths DEF Symbols
      <4> QED BY <4>1, Shifts
    <3> QED BY <3>1 DEF BitOf
  <2>2. s = [i \in 1 .. BITS |-> BitOf(sym, i - 1)] /\ BITS \in Nat
    BY Widths DEF SymBits
  <2>3. s \in [1 .. BITS -> 0 .. 1] /\ \A i \in 1 .. BITS : s[i] = BitOf(sym, i - 1)
    BY <2>1, <2>2
  <2> HIDE DEF s
  <2> QED BY <2>2, <2>3
<1> HIDE DEF c, s
<1>3. SubSeq(c \o s, 1, w) = c /\ SubSeq(c \o s, w + 1, w + BITS) = s
  BY <1>1, <1>2, Halves
<1>4. ValueOf(c) = node
  BY <1>0, <1>1, BitsRead, Widths
<1>5. ValueOf(s) = sym
  BY <1>2, BitsRead, Widths DEF Symbols
<1> QED BY <1>0, <1>3, <1>4, <1>5 DEF PairOf, c, s

----------------------------------------------------------------------------
(* The marks: what is known of the stream after each pair of the encoder. *)

Codes == START_CODE .. MAX_CODE - 1
Nodes(code) == {EMPTY_CODE} \cup START_CODE .. code - 1
Succ(code) == IF code + 1 = MAX_CODE THEN START_CODE ELSE code + 1
MarkSet == [bits : Nat, syms : Nat, code : Codes]

(* After k pairs: the bits written, the symbols taken, the code of the next *)
(* word; the k-th word; and the word that c names then.                     *)
BitsAt(m, k) == IF k = 0 THEN HEADER ELSE m[k].bits
SymsAt(m, k) == IF k = 0 THEN 0 ELSE m[k].syms
CodeAt(m, k) == IF k = 0 THEN START_CODE ELSE Succ(m[k].code)
PairWidth(m, k) == bitlen(CodeAt(m, k)) + BITS
WordAt(m, s, k) == SubSeq(s, SymsAt(m, k - 1) + 1, SymsAt(m, k))
Named(m, s, k, c) == IF c = EMPTY_CODE THEN << >> ELSE WordAt(m, s, k + 1 - CodeAt(m, k) + c)

GoodMark(m, n, k) ==
  /\ m[k].bits = BitsAt(m, k - 1) + PairWidth(m, k - 1)
  /\ m[k].code = CodeAt(m, k - 1)
  /\ SymsAt(m, k - 1) < m[k].syms /\ m[k].syms <= n
  /\ HEADER <= m[k].bits /\ m[k].bits <= BitsAt(m, Len(m))
  /\ m[k].code < START_CODE + k

GoodMarks(m, s) ==
  /\ m \in Seq(MarkSet) /\ s \in Seq(Symbols)
  /\ \A k \in 1 .. Len(m) : GoodMark(m, Len(s), k)

Extends(t, s) == Len(s) <= Len(t) /\ \A i \in 1 .. Len(s) : t[i] = s[i]

(* next_code stays a code, and goes up by one at most. *)
LEMMA Succession == \A c \in Codes : Succ(c) \in Codes /\ Succ(c) <= c + 1
  BY LZ78Assumption DEF Codes, Succ, START_CODE

(* A code is positive and so has bits. *)
LEMMA CodeWidth ==
  ASSUME NEW c \in Codes
  PROVE  c \in Nat /\ c <= MAX_CODE /\ bitlen(c) \in Nat /\ bitlen(c) > 0
<1>1. c \in Nat /\ c <= MAX_CODE /\ c > 0
  BY LZ78Assumption DEF Codes, START_CODE
<1> QED BY <1>1, BitLength, Widths

(* What holds of the marks after k pairs. *)
LEMMA AtTypes ==
  ASSUME NEW m, NEW s, GoodMarks(m, s), NEW k \in 0 .. Len(m)
  PROVE  /\ BitsAt(m, k) \in Nat /\ HEADER <= BitsAt(m, k) /\ BitsAt(m, k) <= BitsAt(m, Len(m))
         /\ SymsAt(m, k) \in 0 .. Len(s)
         /\ CodeAt(m, k) \in Codes /\ CodeAt(m, k) <= START_CODE + k
         /\ PairWidth(m, k) \in Nat /\ PairWidth(m, k) > BITS
<1>1. CASE k = 0
  <2>1. START_CODE \in Codes /\ HEADER \in Nat /\ s \in Seq(Symbols) /\ m \in Seq(MarkSet)
    BY LZ78Assumption, Widths DEF Codes, START_CODE, HEADER, GoodMarks
  <2>2. HEADER <= BitsAt(m, Len(m))
    <3>1. CASE Len(m) = 0
      BY <2>1, <3>1 DEF BitsAt
    <3>2. CASE Len(m) # 0
      <4>1. Len(m) \in 1 .. Len(m)
        BY <2>1, <3>2
      <4> QED BY <3>2, <4>1 DEF GoodMarks, GoodMark, BitsAt
    <3> QED BY <3>1, <3>2
  <2>3. BitsAt(m, 0) = HEADER /\ SymsAt(m, 0) = 0 /\ CodeAt(m, 0) = START_CODE
    BY DEF BitsAt, SymsAt, CodeAt
  <2>4. PairWidth(m, 0) \in Nat /\ PairWidth(m, 0) > BITS
    BY <2>1, <2>3, CodeWidth, Widths DEF PairWidth
  <2>5. Len(s) \in Nat /\ START_CODE <= START_CODE + 0
    BY <2>1 DEF START_CODE
  <2> QED BY <1>1, <2>1, <2>2, <2>3, <2>4, <2>5
<1>2. CASE k # 0
  <2>1. m \in Seq(MarkSet) /\ s \in Seq(Symbols) /\ k \in 1 .. Len(m) /\ GoodMark(m, Len(s), k)
    BY <1>2 DEF GoodMarks
  <2>2. m[k] \in MarkSet /\ Len(s) \in Nat
    BY <2>1
  <2>3. BitsAt(m, k) = m[k].bits /\ SymsAt(m, k) = m[k].syms /\ CodeAt(m, k) = Succ(m[k].code)
    BY <1>2 DEF BitsAt, SymsAt, CodeAt
  <2>4. m[k].bits \in Nat /\ m[k].syms \in Nat /\ m[k].code \in Codes
    BY <2>2 DEF MarkSet
  <2>5. /\ m[k].syms <= Len(s) /\ HEADER <= m[k].bits /\ m[k].bits <= BitsAt(m, Len(m))
        /\ m[k].code < START_CODE + k
    BY <2>1 DEF GoodMark
  <2>6. CodeAt(m, k) \in Codes /\ CodeAt(m, k) <= START_CODE + k
    BY <2>3, <2>4, <2>5, Succession DEF Codes, START_CODE
  <2>7. PairWidth(m, k) \in Nat /\ PairWidth(m, k) > BITS
    BY <2>6, CodeWidth, Widths DEF PairWidth
  <2> QED BY <2>2, <2>3, <2>4, <2>5, <2>6, <2>7
<1> QED BY <1>1, <1>2

(* A part of a sequence that grows stays what it is. *)
LEMMA SubSeqKept ==
  ASSUME NEW X, NEW s \in Seq(X), NEW t \in Seq(X), Extends(t, s), NEW a \in Nat, NEW b \in 0 .. Len(s)
  PROVE  SubSeq(t, a + 1, b) = SubSeq(s, a + 1, b)
<1>1. \A i \in 1 .. Len(s) : t[i] = s[i]
  BY DEF Extends
<1>2. \A i \in a + 1 .. b : t[i] = s[i] /\ s[i] \in X /\ t[i] \in X
  BY <1>1
<1> DEFINE u == SubSeq(t, a + 1, b)
           v == SubSeq(s, a + 1, b)
<1>3. /\ u \in Seq(X) /\ Len(u) = IF a + 1 <= b THEN b - (a + 1) + 1 ELSE 0
      /\ \A i \in 1 .. b - (a + 1) + 1 : u[i] = t[a + 1 + i - 1]
  BY <1>2, SubSeqProperties
<1>4. /\ v \in Seq(X) /\ Len(v) = IF a + 1 <= b THEN b - (a + 1) + 1 ELSE 0
      /\ \A i \in 1 .. b - (a + 1) + 1 : v[i] = s[a + 1 + i - 1]
  BY <1>2, SubSeqProperties
<1> HIDE DEF u, v
<1>5. \A i \in 1 .. Len(u) : u[i] = v[i]
  BY <1>2, <1>3, <1>4
<1>6. u = v
  BY <1>3, <1>4, <1>5, SeqEqual
<1> QED BY <1>6 DEF u, v

(* What was marked, and the words of then, stay. *)
LEMMA AtKept ==
  ASSUME NEW m, NEW s, GoodMarks(m, s), NEW m2, Extends(m2, m), NEW k \in 0 .. Len(m)
  PROVE  BitsAt(m2, k) = BitsAt(m, k) /\ SymsAt(m2, k) = SymsAt(m, k) /\ CodeAt(m2, k) = CodeAt(m, k)
  BY DEF Extends, BitsAt, SymsAt, CodeAt

(* The words that were sent stay. *)
LEMMA WordKept ==
  ASSUME NEW m, NEW s, GoodMarks(m, s), NEW m2, Extends(m2, m), NEW s2 \in Seq(Symbols), Extends(s2, s),
         NEW k \in 1 .. Len(m)
  PROVE  WordAt(m2, s2, k) = WordAt(m, s, k)
<1>1. k \in 0 .. Len(m) /\ k - 1 \in 0 .. Len(m)
  BY DEF GoodMarks
<1>2. SymsAt(m2, k) = SymsAt(m, k) /\ SymsAt(m2, k - 1) = SymsAt(m, k - 1)
  BY <1>1, AtKept
<1>3. SymsAt(m, k) \in 0 .. Len(s) /\ SymsAt(m, k - 1) \in 0 .. Len(s) /\ s \in Seq(Symbols)
  BY <1>1, AtTypes DEF GoodMarks
<1>4. PICK a \in Nat, b \in 0 .. Len(s) : a = SymsAt(m, k - 1) /\ b = SymsAt(m, k)
  BY <1>3
<1>5. SubSeq(s2, a + 1, b) = SubSeq(s, a + 1, b)
  BY <1>3, <1>4, SubSeqKept
<1> QED BY <1>2, <1>4, <1>5 DEF WordAt

(* A node names one of the words that were sent. *)
LEMMA NamedIndex ==
  ASSUME NEW m, NEW s, GoodMarks(m, s), NEW k \in 0 .. Len(m), NEW c \in Nodes(CodeAt(m, k)), c # EMPTY_CODE
  PROVE  k + 1 - CodeAt(m, k) + c \in 1 .. k
<1>1. CodeAt(m, k) \in Codes /\ CodeAt(m, k) <= START_CODE + k
  BY AtTypes
<1>2. c \in START_CODE .. CodeAt(m, k) - 1
  BY DEF Nodes
<1> QED BY <1>1, <1>2 DEF START_CODE, Codes

(* What a node names after k pairs stays. *)
LEMMA NamedKept ==
  ASSUME NEW m, NEW s, GoodMarks(m, s), NEW m2, Extends(m2, m), NEW s2 \in Seq(Symbols), Extends(s2, s),
         NEW k \in 0 .. Len(m), NEW c \in Nodes(CodeAt(m, k))
  PROVE  Named(m2, s2, k, c) = Named(m, s, k, c)
<1>1. CASE c = EMPTY_CODE
  BY <1>1 DEF Named
<1>2. CASE c # EMPTY_CODE
  <2> DEFINE j == k + 1 - CodeAt(m, k) + c
  <2>1. j \in 1 .. Len(m)
    BY <1>2, NamedIndex DEF GoodMarks
  <2>2. CodeAt(m2, k) = CodeAt(m, k)
    BY AtKept
  <2>3. WordAt(m2, s2, j) = WordAt(m, s, j)
    <3> HIDE DEF j
    <3> QED BY <2>1, WordKept
  <2> QED BY <1>2, <2>2, <2>3 DEF Named
<1> QED BY <1>1, <1>2

(* A pair more. *)
LEMMA MarkMore ==
  ASSUME NEW m, NEW s, GoodMarks(m, s), NEW s2 \in Seq(Symbols), Extends(s2, s), NEW n \in Nat,
         SymsAt(m, Len(m)) < n, n <= Len(s2), NEW new,
         new = [bits |-> BitsAt(m, Len(m)) + PairWidth(m, Len(m)), syms |-> n, code |-> CodeAt(m, Len(m))]
  PROVE  /\ GoodMarks(Append(m, new), s2) /\ Extends(Append(m, new), m)
         /\ CodeAt(Append(m, new), Len(m) + 1) = Succ(CodeAt(m, Len(m)))
         /\ BitsAt(Append(m, new), Len(m) + 1) = new.bits
         /\ SymsAt(Append(m, new), Len(m) + 1) = n
<1> DEFINE m2 == Append(m, new)
<1>0. PICK l \in Nat : l = Len(m) /\ l \in 0 .. Len(m)
  BY DEF GoodMarks
<1>1. /\ BitsAt(m, l) \in Nat /\ HEADER <= BitsAt(m, l) /\ CodeAt(m, l) \in Codes
      /\ CodeAt(m, l) <= START_CODE + l /\ PairWidth(m, l) \in Nat
  BY <1>0, AtTypes
<1>2. new \in MarkSet
  BY <1>0, <1>1 DEF MarkSet
<1>3. /\ m2 \in Seq(MarkSet) /\ Len(m2) = l + 1 /\ m2[l + 1] = new
      /\ \A k \in 1 .. l : m2[k] = m[k]
  BY <1>0, <1>2 DEF GoodMarks
<1> HIDE DEF m2
<1>4. Extends(m2, m)
  BY <1>0, <1>3 DEF Extends
<1>5. BitsAt(m2, l + 1) = new.bits /\ SymsAt(m2, l + 1) = new.syms /\ CodeAt(m2, l + 1) = Succ(new.code)
  BY <1>3 DEF BitsAt, SymsAt, CodeAt
<1>6. new.bits = BitsAt(m, l) + PairWidth(m, l) /\ new.syms = n /\ new.code = CodeAt(m, l)
  BY <1>0
<1>7. \A k \in 0 .. l : BitsAt(m2, k) = BitsAt(m, k) /\ SymsAt(m2, k) = SymsAt(m, k) /\ CodeAt(m2, k) = CodeAt(m, k)
                        /\ PairWidth(m2, k) = PairWidth(m, k)
  BY <1>0, <1>4, AtKept DEF PairWidth
<1>8. ASSUME NEW k \in 1 .. l + 1 PROVE GoodMark(m2, Len(s2), k)
  <2>1. CASE k = l + 1
    <3>1. k - 1 = l /\ l \in 0 .. l
      BY <1>0, <2>1
    <3>2. m2[k] = new /\ BitsAt(m2, Len(m2)) = new.bits
      BY <1>3, <1>5, <2>1
    <3>3. HEADER <= new.bits /\ new.bits <= new.bits
      <4>1. HEADER \in Nat
        BY Widths DEF HEADER
      <4> QED BY <1>1, <1>6, <4>1
    <3>4. new.code < START_CODE + k
      BY <1>1, <1>6, <2>1 DEF Codes, START_CODE
    <3>5. SymsAt(m2, k - 1) < new.syms /\ new.syms <= Len(s2)
      BY <1>0, <1>6, <1>7, <3>1
    <3> QED BY <1>6, <1>7, <3>1, <3>2, <3>3, <3>4, <3>5 DEF GoodMark
  <2>2. CASE k # l + 1
    <3>1. k \in 1 .. l /\ k - 1 \in 0 .. l /\ k \in 1 .. Len(m)
      BY <1>0, <2>2
    <3>2. GoodMark(m, Len(s), k) /\ m2[k] = m[k]
      BY <1>3, <3>1 DEF GoodMarks
    <3>3. m[k].syms <= Len(s2)
      <4>1. m[k] \in MarkSet /\ Len(s) \in Nat /\ Len(s2) \in Nat /\ Len(s) <= Len(s2)
        BY <3>1 DEF GoodMarks, Extends
      <4> QED BY <3>2, <4>1 DEF GoodMark, MarkSet
    <3>4. m[k].bits <= BitsAt(m2, Len(m2))
      <4>1. m[k].bits <= BitsAt(m, l) /\ m[k].bits \in Nat
        <5>1. m[k] \in MarkSet
          BY <3>1 DEF GoodMarks
        <5> QED BY <1>0, <3>2, <5>1 DEF GoodMark, MarkSet
      <4> QED BY <1>1, <1>3, <1>5, <1>6, <4>1
    <3> QED BY <1>7, <3>1, <3>2, <3>3, <3>4 DEF GoodMark
  <2> QED BY <2>1, <2>2
<1>9. GoodMarks(m2, s2)
  BY <1>3, <1>8 DEF GoodMarks
<1> QED BY <1>0, <1>4, <1>5, <1>6, <1>9 DEF m2

(* A symbol more. *)
LEMMA SymbolMore ==
  ASSUME NEW m, NEW s, GoodMarks(m, s), NEW s2 \in Seq(Symbols), Extends(s2, s)
  PROVE  GoodMarks(m, s2)
<1>1. m \in Seq(MarkSet) /\ Len(s) \in Nat /\ Len(s2) \in Nat /\ Len(s) <= Len(s2)
  BY DEF GoodMarks, Extends
<1>2. ASSUME NEW k \in 1 .. Len(m) PROVE GoodMark(m, Len(s2), k)
  <2>1. GoodMark(m, Len(s), k) /\ m[k] \in MarkSet
    BY <1>1 DEF GoodMarks
  <2>2. m[k].syms <= Len(s2)
    BY <1>1, <2>1 DEF GoodMark, MarkSet
  <2> QED BY <2>1, <2>2 DEF GoodMark
<1> QED BY <1>1, <1>2 DEF GoodMarks

(* The k-th pair is in the stream b, and names the k-th word. *)
PairBits(node, sym, code) == CodeBits(node, bitlen(code)) \o SymBits(sym)

PairIs(m, s, b, k, node, sym) ==
  /\ WordAt(m, s, k) = Append(Named(m, s, k - 1, node), sym)
  /\ \A i \in 1 .. PairWidth(m, k - 1) : b[BitsAt(m, k - 1) + i] = PairBits(node, sym, CodeAt(m, k - 1))[i]

SentPair(m, s, b, k) == \E node \in Nodes(CodeAt(m, k - 1)), sym \in Symbols : PairIs(m, s, b, k, node, sym)

SentAll(m, s, b) == \A k \in 1 .. Len(m) : SentPair(m, s, b, k)

Agree(b2, b, n) == \A i \in 1 .. n : b2[i] = b[i]

(* The nodes below a code are numbers, and none is the STOP code. *)
LEMMA CodesNat == \A c \in Codes : c \in Nat /\ \A n \in Nodes(c) : n \in Nat /\ n < c /\ n # STOP_CODE
  BY LZ78Assumption DEF Codes, Nodes, START_CODE, EMPTY_CODE, STOP_CODE

(* A pair has bitlen(code) + BITS bits. *)
LEMMA PairBitsTyped ==
  ASSUME NEW node \in Nat, NEW sym \in Symbols, NEW code \in Nat, code <= MAX_CODE
  PROVE  PairBits(node, sym, code) \in Seq(0 .. 1) /\ Len(PairBits(node, sym, code)) = bitlen(code) + BITS
<1> DEFINE c == CodeBits(node, bitlen(code))
           s == SymBits(sym)
<1>0. bitlen(code) \in Nat
  BY BitLength, Widths
<1>1. c \in Seq(0 .. 1) /\ Len(c) = bitlen(code)
  <2>1. ASSUME NEW i \in 1 .. bitlen(code) PROVE BitOf(node, (i - 1) % BITS) \in 0 .. 1
    <3>1. (i - 1) % BITS \in 0 .. 2 * BITS
      <4>1. BITS \in Nat /\ BITS > 0 /\ i - 1 \in Nat
        BY <1>0, Widths
      <4> QED BY <4>1
    <3>2. RShift(node)[(i - 1) % BITS] \in Nat
      BY <3>1, Shifts
    <3> QED BY <3>2 DEF BitOf
  <2>2. c \in [1 .. bitlen(code) -> 0 .. 1]
    BY <2>1 DEF CodeBits
  <2> HIDE DEF c
  <2> QED BY <1>0, <2>2
<1>2. s \in Seq(0 .. 1) /\ Len(s) = BITS
  <2>1. ASSUME NEW i \in 1 .. BITS PROVE BitOf(sym, i - 1) \in 0 .. 1
    <3>1. i - 1 \in 0 .. 2 * BITS /\ sym \in Nat
      BY Widths DEF Symbols
    <3>2. RShift(sym)[i - 1] \in Nat
      BY <3>1, Shifts
    <3> QED BY <3>2 DEF BitOf
  <2>2. s \in [1 .. BITS -> 0 .. 1] /\ BITS \in Nat
    BY <2>1, Widths DEF SymBits
  <2> HIDE DEF s
  <2> QED BY <2>2
<1> HIDE DEF c, s
<1>3. c \o s \in Seq(0 .. 1) /\ Len(c \o s) = bitlen(code) + BITS
  BY <1>1, <1>2
<1> QED BY <1>3 DEF PairBits, c, s

(* The bits of the STOP pair. *)
LEMMA StopBits ==
  ASSUME NEW code \in Nat, code <= MAX_CODE
  PROVE  0 \in Symbols /\ \A i \in 1 .. bitlen(code) + BITS : PairBits(STOP_CODE, 0, code)[i] = 0
<1>1. \A k \in 0 .. 2 * BITS : RShift(0)[k] = 0
  <2> DEFINE S == {k \in Nat : k <= 2 * BITS => RShift(0)[k] = 0}
  <2>1. /\ RShift(0)[0] = 0
        /\ \A k \in 1 .. 2 * BITS : RShift(0)[k] = RShift(0)[k - 1] \div 2
    BY Shifts
  <2>2. 0 \in S
    BY <2>1
  <2>3. ASSUME NEW k \in Nat, k \in S PROVE k + 1 \in S
    <3> SUFFICES ASSUME k + 1 <= 2 * BITS PROVE RShift(0)[k + 1] = 0
      OBVIOUS
    <3>1. k + 1 \in 1 .. 2 * BITS /\ (k + 1) - 1 = k /\ k <= 2 * BITS
      BY Widths
    <3>2. RShift(0)[k + 1] = RShift(0)[k] \div 2 /\ RShift(0)[k] = 0
      BY <2>1, <2>3, <3>1
    <3> QED BY <3>2
  <2>4. Nat \subseteq S
    <3> HIDE DEF S
    <3> QED BY <2>2, <2>3, Induction
  <2> QED BY <2>4, Widths
<1>2. 0 \in Symbols
  BY <1>1, Widths DEF Symbols
<1> DEFINE c == CodeBits(STOP_CODE, bitlen(code))
           s == SymBits(0)
<1>3. PICK w \in Nat : w = bitlen(code)
  BY BitLength, Widths
<1>4. c \in Seq(0 .. 1) /\ Len(c) = w /\ \A i \in 1 .. w : c[i] = 0
  <2>1. ASSUME NEW i \in 1 .. w PROVE BitOf(STOP_CODE, (i - 1) % BITS) = 0
    <3>1. (i - 1) % BITS \in 0 .. 2 * BITS
      <4>1. BITS \in Nat /\ BITS > 0 /\ i - 1 \in Nat
        BY <1>3, Widths
      <4> QED BY <4>1
    <3> QED BY <1>1, <3>1 DEF BitOf, STOP_CODE
  <2>2. c = [i \in 1 .. w |-> BitOf(STOP_CODE, (i - 1) % BITS)]
    BY <1>3 DEF CodeBits
  <2>3. c \in [1 .. w -> 0 .. 1] /\ \A i \in 1 .. w : c[i] = 0
    BY <2>1, <2>2
  <2> HIDE DEF c
  <2> QED BY <1>3, <2>3
<1>5. s \in Seq(0 .. 1) /\ Len(s) = BITS /\ \A i \in 1 .. BITS : s[i] = 0
  <2>1. ASSUME NEW i \in 1 .. BITS PROVE BitOf(0, i - 1) = 0
    <3>1. i - 1 \in 0 .. 2 * BITS
      BY Widths
    <3> QED BY <1>1, <3>1 DEF BitOf
  <2>2. s = [i \in 1 .. BITS |-> BitOf(0, i - 1)] /\ BITS \in Nat
    BY Widths DEF SymBits
  <2>3. s \in [1 .. BITS -> 0 .. 1] /\ \A i \in 1 .. BITS : s[i] = 0
    BY <2>1, <2>2
  <2> HIDE DEF s
  <2> QED BY <2>2, <2>3
<1> HIDE DEF c, s
<1>6. \A i \in 1 .. w + BITS : (c \o s)[i] = 0
  BY <1>3, <1>4, <1>5, Widths
<1> QED BY <1>2, <1>3, <1>6 DEF PairBits, c, s

(* A pair stays in the stream, and its word what it is. *)
LEMMA PairKept ==
  ASSUME NEW m, NEW s, GoodMarks(m, s), NEW m2, Extends(m2, m), NEW s2 \in Seq(Symbols), Extends(s2, s),
         NEW b, NEW b2, Agree(b2, b, BitsAt(m, Len(m))), NEW k \in 1 .. Len(m), SentPair(m, s, b, k)
  PROVE  SentPair(m2, s2, b2, k)
<1>0. k - 1 \in 0 .. Len(m) /\ k \in 0 .. Len(m) /\ Len(m) \in Nat
  BY DEF GoodMarks
<1>1. PICK node \in Nodes(CodeAt(m, k - 1)), sym \in Symbols : PairIs(m, s, b, k, node, sym)
  BY DEF SentPair
<1>2. /\ WordAt(m2, s2, k) = WordAt(m, s, k) /\ Named(m2, s2, k - 1, node) = Named(m, s, k - 1, node)
      /\ CodeAt(m2, k - 1) = CodeAt(m, k - 1) /\ BitsAt(m2, k - 1) = BitsAt(m, k - 1)
  BY <1>0, WordKept, NamedKept, AtKept
<1>3. PairWidth(m2, k - 1) = PairWidth(m, k - 1)
  BY <1>2 DEF PairWidth
<1>4. ASSUME NEW i \in 1 .. PairWidth(m, k - 1) PROVE b2[BitsAt(m, k - 1) + i] = b[BitsAt(m, k - 1) + i]
  <2>1. BitsAt(m, k) = BitsAt(m, k - 1) + PairWidth(m, k - 1)
    <3>1. GoodMark(m, Len(s), k) /\ k # 0
      BY <1>0 DEF GoodMarks
    <3> QED BY <3>1 DEF GoodMark, BitsAt
  <2>2. BitsAt(m, k - 1) \in Nat /\ PairWidth(m, k - 1) \in Nat /\ BitsAt(m, k) <= BitsAt(m, Len(m)) /\ BitsAt(m, Len(m)) \in Nat
    BY <1>0, AtTypes
  <2>3. BitsAt(m, k - 1) + i \in 1 .. BitsAt(m, Len(m))
    BY <2>1, <2>2
  <2> QED BY <2>3 DEF Agree
<1>5. PairIs(m2, s2, b2, k, node, sym)
  BY <1>1, <1>2, <1>3, <1>4 DEF PairIs
<1> QED BY <1>2, <1>5 DEF SentPair

(* The pairs stay in a stream that grows. *)
LEMMA SentKept ==
  ASSUME NEW m, NEW s, GoodMarks(m, s), NEW s2 \in Seq(Symbols), Extends(s2, s),
         NEW b, NEW b2, Agree(b2, b, BitsAt(m, Len(m))), SentAll(m, s, b)
  PROVE  SentAll(m, s2, b2)
<1>1. Extends(m, m)
  BY DEF Extends, GoodMarks
<1> QED BY <1>1, PairKept DEF SentAll

(* The symbols since the last pair. *)
Since(m, s) == SubSeq(s, SymsAt(m, Len(m)) + 1, Len(s))

(* b2 is the stream b with the pair of node and sym, which has the mark new. *)
IsSent(m, s, b, s2, node, sym, new, b2) ==
  /\ SentAll(Append(m, new), s2, b2)
  /\ b2 \in Seq(0 .. 1) /\ Len(b2) = BitsAt(Append(m, new), Len(m) + 1)

(* u is s and then t, item by item. *)
IsJoined(X, s, t, u) ==
  /\ u \in Seq(X) /\ Len(u) = Len(s) + Len(t)
  /\ \A i \in 1 .. Len(s) + Len(t) : u[i] = IF i <= Len(s) THEN s[i] ELSE t[i - Len(s)]

(* A concatenation, item by item. *)
LEMMA Joins ==
  ASSUME NEW X, NEW s \in Seq(X), NEW t \in Seq(X)
  PROVE  IsJoined(X, s, t, s \o t)
  BY ConcatProperties DEF IsJoined

(* A stream with a pair more, of the word that has just been read. *)
LEMMA SentMore ==
  ASSUME NEW m, NEW s, GoodMarks(m, s), NEW b \in Seq(0 .. 1), Len(b) = BitsAt(m, Len(m)), SentAll(m, s, b),
         NEW s2 \in Seq(Symbols), Extends(s2, s), SymsAt(m, Len(m)) < Len(s2),
         NEW node \in Nodes(CodeAt(m, Len(m))), NEW sym \in Symbols,
         Since(m, s2) = Append(Named(m, s, Len(m), node), sym),
         NEW new,
         new = [bits |-> BitsAt(m, Len(m)) + PairWidth(m, Len(m)), syms |-> Len(s2), code |-> CodeAt(m, Len(m))],
         NEW b2, b2 = b \o PairBits(node, sym, CodeAt(m, Len(m)))
  PROVE  IsSent(m, s, b, s2, node, sym, new, b2)
<1> DEFINE m2 == Append(m, new)
<1>0. PICK l \in Nat : l = Len(m) /\ l \in 0 .. Len(m) /\ m \in Seq(MarkSet)
  BY DEF GoodMarks
<1>a. Len(s2) \in Nat
  OBVIOUS
<1>1. /\ GoodMarks(m2, s2) /\ Extends(m2, m)
      /\ BitsAt(m2, l + 1) = new.bits
      /\ SymsAt(m2, l + 1) = Len(s2)
  BY <1>0, <1>a, MarkMore
<1>2. Len(m2) = l + 1
  BY <1>0
<1> HIDE DEF m2
<1>3. SymsAt(m2, l) = SymsAt(m, l) /\ BitsAt(m2, l) = BitsAt(m, l) /\ CodeAt(m2, l) = CodeAt(m, l)
  BY <1>0, <1>1, AtKept
<1>4. PairWidth(m2, l) = PairWidth(m, l)
  BY <1>3 DEF PairWidth
<1>5. BitsAt(m, l) \in Nat /\ CodeAt(m, l) \in Codes /\ PairWidth(m, l) \in Nat
  BY <1>0, AtTypes
<1>6. /\ PairBits(node, sym, CodeAt(m, l)) \in Seq(0 .. 1)
      /\ Len(PairBits(node, sym, CodeAt(m, l))) = PairWidth(m, l)
  <2>1. node \in Nat /\ CodeAt(m, l) \in Nat /\ CodeAt(m, l) <= MAX_CODE
    BY <1>0, <1>5, CodesNat, CodeWidth
  <2> QED BY <2>1, PairBitsTyped DEF PairWidth
<1> DEFINE p == PairBits(node, sym, CodeAt(m, l))
<1> HIDE DEF p
<1>7. /\ b2 \in Seq(0 .. 1) /\ Len(b2) = BitsAt(m, l) + PairWidth(m, l)
      /\ \A i \in 1 .. BitsAt(m, l) : b2[i] = b[i]
      /\ \A i \in 1 .. PairWidth(m, l) : b2[BitsAt(m, l) + i] = p[i]
  <2>1. p \in Seq(0 .. 1) /\ Len(p) = PairWidth(m, l) /\ b2 = b \o p /\ Len(b) = BitsAt(m, l)
    BY <1>0, <1>6 DEF p
  <2>2. /\ b2 \in Seq(0 .. 1) /\ Len(b2) = Len(b) + Len(p)
        /\ \A i \in 1 .. Len(b) + Len(p) : b2[i] = IF i <= Len(b) THEN b[i] ELSE p[i - Len(b)]
    <3>1. IsJoined(0 .. 1, b, p, b2)
      BY <2>1, Joins
    <3> QED BY <3>1 DEF IsJoined
  <2>3. ASSUME NEW i \in 1 .. PairWidth(m, l) PROVE b2[BitsAt(m, l) + i] = p[i]
    <3> DEFINE j == BitsAt(m, l) + i
    <3>1. j \in 1 .. Len(b) + Len(p) /\ ~(j <= Len(b)) /\ j - Len(b) = i
      BY <1>5, <2>1
    <3> HIDE DEF j
    <3>2. b2[j] = p[j - Len(b)]
      BY <2>2, <3>1
    <3> QED BY <3>1, <3>2 DEF j
  <2>4. ASSUME NEW i \in 1 .. BitsAt(m, l) PROVE b2[i] = b[i]
    <3>1. i \in 1 .. Len(b) + Len(p) /\ i <= Len(b)
      BY <1>5, <2>1
    <3> QED BY <2>2, <3>1
  <2> QED BY <2>1, <2>2, <2>3, <2>4
<1>8. WordAt(m2, s2, l + 1) = Since(m, s2)
  <2>1. (l + 1) - 1 = l
    OBVIOUS
  <2> QED BY <1>0, <1>1, <1>3, <2>1 DEF WordAt, Since
<1>9. SentPair(m2, s2, b2, l + 1)
  <2>1. (l + 1) - 1 = l
    OBVIOUS
  <2>2. Named(m2, s2, l, node) = Named(m, s, l, node)
    BY <1>0, <1>1, NamedKept
  <2>a. WordAt(m2, s2, l + 1) = Append(Named(m2, s2, l, node), sym)
    <3>1. Since(m, s2) = Append(Named(m, s, l, node), sym)
      BY <1>0
    <3> QED BY <1>8, <2>2, <3>1
  <2>b. \A i \in 1 .. PairWidth(m2, l) : b2[BitsAt(m2, l) + i] = PairBits(node, sym, CodeAt(m2, l))[i]
    BY <1>3, <1>4, <1>7 DEF p
  <2>3. PairIs(m2, s2, b2, l + 1, node, sym)
    BY <2>1, <2>a, <2>b DEF PairIs
  <2> QED BY <1>0, <1>3, <2>1, <2>3 DEF SentPair
<1>10. ASSUME NEW k \in 1 .. l PROVE SentPair(m2, s2, b2, k)
  <2>1. SentPair(m, s, b, k) /\ k \in 1 .. Len(m)
    BY <1>0 DEF SentAll
  <2>2. Agree(b2, b, BitsAt(m, Len(m)))
    BY <1>0, <1>7 DEF Agree
  <2> QED BY <1>1, <2>1, <2>2, PairKept
<1>11. SentAll(m2, s2, b2)
  <2> SUFFICES ASSUME NEW k \in 1 .. l + 1 PROVE SentPair(m2, s2, b2, k)
    BY <1>2 DEF SentAll
  <2>1. CASE k = l + 1
    BY <1>9, <2>1
  <2>2. CASE k # l + 1
    BY <1>10, <2>2
  <2> QED BY <2>1, <2>2
<1>12. new.bits = BitsAt(m, l) + PairWidth(m, l)
  BY <1>0
<1> QED BY <1>0, <1>1, <1>7, <1>8, <1>11, <1>12 DEF m2, IsSent

(* The dictionary of the next pair: of the same words and one more. *)
LEMMA NamedNext ==
  ASSUME NEW m, NEW s, GoodMarks(m, s), NEW k \in 0 .. Len(m) - 1, CodeAt(m, k) + 1 # MAX_CODE
  PROVE  /\ CodeAt(m, k + 1) = CodeAt(m, k) + 1
         /\ \A c \in Nodes(CodeAt(m, k)) : Named(m, s, k + 1, c) = Named(m, s, k, c)
         /\ Named(m, s, k + 1, CodeAt(m, k)) = WordAt(m, s, k + 1)
<1>1. k \in 0 .. Len(m) /\ k + 1 \in 1 .. Len(m) /\ k + 1 # 0 /\ (k + 1) - 1 = k
  BY DEF GoodMarks
<1>2. CodeAt(m, k + 1) = CodeAt(m, k) + 1
  <2>1. m[k + 1].code = CodeAt(m, k)
    BY <1>1 DEF GoodMarks, GoodMark
  <2> QED BY <1>1, <2>1 DEF CodeAt, Succ
<1>3. CodeAt(m, k) \in Codes
  BY <1>1, AtTypes
<1>4. ASSUME NEW c \in Nodes(CodeAt(m, k)) PROVE Named(m, s, k + 1, c) = Named(m, s, k, c)
  <2>1. (k + 1) + 1 - CodeAt(m, k + 1) + c = k + 1 - CodeAt(m, k) + c
    BY <1>2, <1>3, CodesNat
  <2> QED BY <2>1 DEF Named
<1>5. Named(m, s, k + 1, CodeAt(m, k)) = WordAt(m, s, k + 1)
  <2>1. (k + 1) + 1 - CodeAt(m, k + 1) + CodeAt(m, k) = k + 1 /\ CodeAt(m, k) # EMPTY_CODE
    BY <1>2, <1>3 DEF Codes, START_CODE, EMPTY_CODE
  <2> QED BY <2>1 DEF Named
<1> QED BY <1>2, <1>4, <1>5

----------------------------------------------------------------------------
(* The encoder's streams. *)

Blocks == {HEADER + j * BUFFER : j \in Nat}

(* The file of pairs is the header and whole buffers. *)
LEMMA BlockLengths ==
  /\ HEADER \in Blocks /\ Blocks \subseteq Nat
  /\ \A n \in Blocks : n + BUFFER \in Blocks
  /\ \A a, b \in Blocks : a < b => a + BUFFER <= b
<1>0. HEADER \in Nat /\ BUFFER \in Nat /\ BUFFER > 0
  BY Widths DEF HEADER
<1>1. HEADER \in Blocks
  <2>1. HEADER = HEADER + 0 * BUFFER
    BY <1>0
  <2> QED BY <2>1 DEF Blocks
<1>2. ASSUME NEW j \in Nat PROVE j * BUFFER \in Nat /\ (j + 1) * BUFFER = j * BUFFER + BUFFER
  BY <1>0
<1>3. Blocks \subseteq Nat
  BY <1>0, <1>2 DEF Blocks
<1>4. ASSUME NEW n \in Blocks PROVE n + BUFFER \in Blocks
  <2>1. PICK j \in Nat : n = HEADER + j * BUFFER
    BY DEF Blocks
  <2>2. n + BUFFER = HEADER + (j + 1) * BUFFER /\ j + 1 \in Nat
    BY <1>0, <1>2, <2>1
  <2> QED BY <2>2 DEF Blocks
<1>5. ASSUME NEW a \in Blocks, NEW b \in Blocks, a < b PROVE a + BUFFER <= b
  <2>1. PICK i \in Nat : a = HEADER + i * BUFFER
    BY DEF Blocks
  <2>2. PICK j \in Nat : b = HEADER + j * BUFFER
    BY DEF Blocks
  <2>3. ASSUME j <= i PROVE j * BUFFER <= i * BUFFER
    BY <1>0, <2>3
  <2>4. i + 1 <= j
    BY <1>0, <1>2, <1>5, <2>1, <2>2, <2>3
  <2>5. (i + 1) * BUFFER <= j * BUFFER
    BY <1>0, <2>4
  <2> QED BY <1>0, <1>2, <2>1, <2>2, <2>5
<1> QED BY <1>1, <1>3, <1>4, <1>5

(* What is after f still has f, when it is read further. *)
LEMMA LongerKept ==
  ASSUME NEW X, NEW f \in Seq(X), NEW g \in Seq(X), NEW items \in Seq(X), NEW f2 \in Seq(X), NEW g2 \in Seq(X),
         f2 \o g2 = (f \o g) \o items, Len(f) <= Len(f2)
  PROVE  Extends(f2, f)
<1>1. PICK l \in Nat, n \in Nat, k \in Nat : l = Len(f) /\ n = Len(f2) /\ k = Len(g) /\ l <= n
  OBVIOUS
<1>2. f \o g \in Seq(X) /\ Len(f \o g) = l + k /\ Len(items) \in Nat /\ Len(g2) \in Nat
  BY <1>1
<1>3. Len(f2 \o g2) = n + Len(g2)
  BY <1>1, ConcatProperties
<1>4. Len((f \o g) \o items) = l + k + Len(items)
  BY <1>1, <1>2, ConcatProperties
<1>5. n + Len(g2) = l + k + Len(items)
  BY <1>3, <1>4
<1>6. ASSUME NEW i \in 1 .. l PROVE f2[i] = f[i]
  <2>1. i \in 1 .. n + Len(g2) /\ i <= n /\ i \in 1 .. l + k /\ i \in 1 .. l + k + Len(items)
    BY <1>1, <1>2
  <2>2. (f2 \o g2)[i] = f2[i]
    BY <1>1, <2>1, ConcatProperties
  <2>3. ((f \o g) \o items)[i] = (f \o g)[i]
    BY <1>1, <1>2, <2>1, ConcatProperties
  <2>4. (f \o g)[i] = f[i]
    BY <1>1, <2>1, ConcatProperties
  <2> QED BY <2>2, <2>3, <2>4
<1> QED BY <1>1, <1>6 DEF Extends

Whole(w) == w.file \o w.buf

(* What a writer holds is its file and then its buffer. *)
LEMMA Wholes ==
  ASSUME NEW X, NEW w \in Writers(X)
  PROVE  /\ w.file \in Seq(X) /\ w.buf \in Seq(X) /\ Whole(w) \in Seq(X)
         /\ Len(Whole(w)) = Len(w.file) + Len(w.buf) /\ Extends(Whole(w), w.file)
<1>1. PICK f \in Seq(X), g \in Seq(X) : f = w.file /\ g = w.buf
  BY DEF Writers
<1>2. Whole(w) = f \o g
  BY <1>1 DEF Whole
<1> DEFINE u == f \o g
<1>3. /\ u \in Seq(X) /\ Len(u) = Len(f) + Len(g) /\ Len(f) \in Nat /\ Len(g) \in Nat
      /\ \A i \in 1 .. Len(f) + Len(g) : u[i] = IF i <= Len(f) THEN f[i] ELSE g[i - Len(f)]
  BY ConcatProperties
<1> HIDE DEF u
<1>4. Extends(u, f)
  BY <1>3 DEF Extends
<1> QED BY <1>1, <1>2, <1>3, <1>4 DEF u

IsWritten(X, size, B, w, items, r) ==
  /\ r \in Writers(X) /\ Whole(r) = Whole(w) \o items
  /\ Len(r.buf) <= size /\ (items # << >> => r.buf # << >>)
  /\ Len(r.file) \in B /\ Extends(r.file, w.file)

(* The items put come after all that a writer holds, and what is in its     *)
(* file stays.                                                              *)
LEMMA PutWhole ==
  ASSUME NEW X, NEW w \in Writers(X), NEW items \in Seq(X), NEW size \in Nat \ {0}, Len(w.buf) <= size,
         NEW B, Len(w.file) \in B, \A n \in B : n + size \in B, B \subseteq Nat, NEW r, r = PutAll(w, items, size)
  PROVE  IsWritten(X, size, B, w, items, r)
<1>1. IsPut(X, size, B, w, items, r)
  BY Puts
<1>2. /\ r \in Writers(X) /\ Follows(r, w, items) /\ Len(r.buf) <= size /\ (items # << >> => r.buf # << >>)
      /\ Len(r.file) \in B /\ Len(r.file) >= Len(w.file)
  BY <1>1 DEF IsPut
<1>3. Whole(r) = Whole(w) \o items
  BY <1>2 DEF Follows, Whole
<1>4. Extends(r.file, w.file)
  <2>1. PICK f \in Seq(X), g \in Seq(X) : f = w.file /\ g = w.buf
    BY Wholes
  <2>2. PICK f2 \in Seq(X), g2 \in Seq(X) : f2 = r.file /\ g2 = r.buf
    BY <1>2, Wholes
  <2>3. f2 \o g2 = (f \o g) \o items
    BY <1>2, <2>1, <2>2 DEF Follows
  <2>4. Len(f) <= Len(f2)
    BY <1>2, <2>1, <2>2
  <2>5. Extends(f2, f)
    BY <2>3, <2>4, LongerKept
  <2> QED BY <2>1, <2>2, <2>5
<1> QED BY <1>2, <1>3, <1>4 DEF IsWritten

IsPacked(w, node, sym, code, r) ==
  /\ r \in Writers(0 .. 1) /\ Whole(r) = Whole(w) \o PairBits(node, sym, code)
  /\ Len(r.buf) <= BUFFER /\ Len(r.file) \in Blocks /\ Extends(r.file, w.file)

(* write_pair writes the bits of the pair. *)
LEMMA PairWritten ==
  ASSUME NEW w \in Writers(0 .. 1), Len(w.buf) <= BUFFER, Len(w.file) \in Blocks,
         NEW node \in Nat, NEW sym \in Symbols, NEW code \in Nat, code <= MAX_CODE,
         NEW r, r = write_pair(w, node, sym, bitlen(code))
  PROVE  IsPacked(w, node, sym, code, r)
<1>1. PairBits(node, sym, code) \in Seq(0 .. 1)
  BY PairBitsTyped
<1>2. r = PutAll(w, PairBits(node, sym, code), BUFFER)
  BY DEF write_pair, PairBits
<1>3. BUFFER \in Nat \ {0}
  BY Widths
<1>4. IsWritten(0 .. 1, BUFFER, Blocks, w, PairBits(node, sym, code), r)
  BY <1>1, <1>2, <1>3, BlockLengths, PutWhole
<1> QED BY <1>4 DEF IsWritten, IsPacked

(* write_word writes the word. *)
LEMMA WordWritten ==
  ASSUME NEW w \in Writers(Nat), Len(w.buf) <= BLOCK, NEW word \in Seq(Nat), NEW r, r = write_word(w, word)
  PROVE  r \in Writers(Nat) /\ Whole(r) = Whole(w) \o word /\ Len(r.buf) <= BLOCK
<1>1. BLOCK \in Nat \ {0}
  BY LZ78Assumption
<1>2. Len(w.file) \in Nat
  BY Wholes
<1>3. \A n \in Nat : n + BLOCK \in Nat
  BY <1>1
<1>4. r = PutAll(w, word, BLOCK)
  BY DEF write_word
<1>5. IsWritten(Nat, BLOCK, Nat, w, word, r)
  BY <1>1, <1>2, <1>3, <1>4, PutWhole
<1> QED BY <1>5 DEF IsWritten

(* The flush drops less than a symbol's bits. *)
LEMMA Flushed ==
  ASSUME NEW w \in Writers(0 .. 1), NEW f, f = flush_pairs(w)
  PROVE  /\ f \in Seq(0 .. 1) /\ Extends(f, w.file) /\ Extends(Whole(w), f)
         /\ Len(Whole(w)) < Len(f) + BITS
<1>0. PICK a \in Seq(0 .. 1), b \in Seq(0 .. 1) : a = w.file /\ b = w.buf
  BY Wholes
<1>1. PICK k \in Nat, l \in Nat : k = Len(a) /\ l = Len(b)
  OBVIOUS
<1> DEFINE n == BITS * (l \div BITS)
           part == SubSeq(b, 1, n)
<1>2. n \in 0 .. l /\ l < n + BITS
  <2>1. \A x \in Nat, y \in Nat \ {0} : y * (x \div y) \in 0 .. x /\ x < y * (x \div y) + y
    OBVIOUS
  <2>2. BITS \in Nat \ {0}
    BY Widths
  <2> QED BY <1>1, <2>1, <2>2
<1>3. f = a \o part /\ Whole(w) = a \o b
  BY <1>0, <1>1 DEF flush_pairs, Whole
<1> HIDE DEF n
<1>4. part \in Seq(0 .. 1) /\ Len(part) = n /\ \A i \in 1 .. n : part[i] = b[i]
  BY <1>1, <1>2
<1> HIDE DEF part
<1>5. /\ f \in Seq(0 .. 1) /\ Len(f) = k + n
      /\ \A i \in 1 .. k + n : f[i] = IF i <= k THEN a[i] ELSE part[i - k]
  <2>1. /\ a \o part \in Seq(0 .. 1) /\ Len(a \o part) = Len(a) + Len(part)
        /\ \A i \in 1 .. Len(a) + Len(part) : (a \o part)[i] = IF i <= Len(a) THEN a[i] ELSE part[i - Len(a)]
    <3>1. part \in Seq(0 .. 1) /\ a \in Seq(0 .. 1)
      BY <1>0, <1>4
    <3>2. IsJoined(0 .. 1, a, part, a \o part)
      BY <3>1, Joins
    <3> QED BY <3>2 DEF IsJoined
  <2> QED BY <1>1, <1>2, <1>3, <1>4, <2>1
<1>6. /\ Whole(w) \in Seq(0 .. 1) /\ Len(Whole(w)) = k + l
      /\ \A i \in 1 .. k + l : Whole(w)[i] = IF i <= k THEN a[i] ELSE b[i - k]
  <2>1. a \in Seq(0 .. 1) /\ b \in Seq(0 .. 1) /\ Len(a) = k /\ Len(b) = l /\ Whole(w) = a \o b
    BY <1>1, <1>3
  <2>2. IsJoined(0 .. 1, a, b, a \o b)
    BY <2>1, Joins
  <2> QED BY <2>1, <2>2 DEF IsJoined
<1>7. Extends(f, w.file)
  BY <1>0, <1>1, <1>2, <1>5 DEF Extends
<1>8. Extends(Whole(w), f)
  <2>1. ASSUME NEW i \in 1 .. Len(f) PROVE Whole(w)[i] = f[i]
    <3>1. i \in 1 .. k + l /\ i \in 1 .. k + n
      BY <1>1, <1>2, <1>5
    <3>2. CASE i <= k
      BY <1>5, <1>6, <3>1, <3>2
    <3>3. CASE ~(i <= k)
      <4> DEFINE j == i - k
      <4>1. j \in 1 .. n
        BY <1>1, <1>2, <3>1, <3>3
      <4>2. f[i] = part[j] /\ Whole(w)[i] = b[j]
        BY <1>5, <1>6, <3>1, <3>3
      <4> HIDE DEF j
      <4> QED BY <1>4, <4>1, <4>2
    <3> QED BY <3>2, <3>3
  <2> QED BY <1>1, <1>2, <1>5, <1>6, <2>1 DEF Extends
<1>9. Len(Whole(w)) < Len(f) + BITS
  BY <1>1, <1>2, <1>5, <1>6, Widths
<1> QED BY <1>5, <1>7, <1>8, <1>9

(* The remainder of a division, for a divisor that is a constant of the     *)
(* model.                                                                   *)
LEMMA Remainder ==
  ASSUME NEW B \in Nat \ {0}, NEW q \in Nat, NEW r \in 0 .. B - 1, NEW n, n = B * q + r
  PROVE  n % B = r
<1>1. n \in Nat
  <2>1. B * q \in Nat
    OBVIOUS
  <2> QED BY <2>1
<1>2. n = B * (n \div B) + (n % B) /\ n % B \in 0 .. B - 1 /\ n \div B \in Nat
  BY <1>1
<1>3. PICK d \in Nat, e \in 0 .. B - 1 : B * q + r = B * d + e /\ e = n % B
  BY <1>2
<1>4. ~(d < q)
  <2> SUFFICES ASSUME d + 1 <= q PROVE FALSE
    OBVIOUS
  <2>1. B * q >= B * (d + 1) /\ B * (d + 1) = B * d + B
    OBVIOUS
  <2> QED BY <1>3, <2>1
<1>5. ~(d > q)
  <2> SUFFICES ASSUME q + 1 <= d PROVE FALSE
    OBVIOUS
  <2>1. B * d >= B * (q + 1) /\ B * (q + 1) = B * q + B
    OBVIOUS
  <2> QED BY <1>3, <2>1
<1>6. d = q
  BY <1>4, <1>5
<1> QED BY <1>3, <1>6

(* A source that has given s of the data: after whole buffers, or in the    *)
(* last of them, or over data whose length read_sym mistakes.               *)
Sources(data) == [buf : [1 .. BLOCK -> Symbols], index : 0 .. BLOCK - 1, pos : 0 .. Len(data)]

Ahead(r, data, s, last) == \A i \in r.index + 1 .. last : r.buf[i] = data[Len(s) - r.index + i]

InBlocks(r, data, s) ==
  /\ r.pos \in {BLOCK * j : j \in Nat}
  /\ \/ r.index = 0 /\ r.pos = Len(s)
     \/ r.index # 0 /\ r.pos = Len(s) - r.index + BLOCK /\ Ahead(r, data, s, BLOCK)

InLast(r, data, e, s) ==
  /\ e \in 1 .. BLOCK - 1 /\ r.index \in 1 .. e - 1
  /\ Len(data) = Len(s) - r.index + e - 1
  /\ Ahead(r, data, s, e - 1)

Mistaken(data) == Len(data) % BLOCK = BLOCK - 1

Reading(r, data, e, s) ==
  \/ Mistaken(data)
  \/ Extends(data, s) /\ ((e = -1 /\ InBlocks(r, data, s)) \/ InLast(r, data, e, s))

(* read_bytes: at index 0 the buffer takes the next symbols of the data. *)
LEMMA ReadBytes ==
  ASSUME NEW data \in Seq(Symbols), NEW r \in Sources(data), NEW f, f = Refilled(r, data)
  PROVE  /\ f \in Sources(data) /\ f.index = r.index
         /\ r.index # 0 => f = r
         /\ Left(r, data) = Smaller(BLOCK, Len(data) - r.pos) /\ Left(r, data) \in 0 .. BLOCK
         /\ r.index = 0 => /\ f.pos = r.pos + Left(r, data)
                           /\ \A i \in 1 .. Left(r, data) : f.buf[i] = data[r.pos + i]
<1>1. PICK b \in [1 .. BLOCK -> Symbols], x \in 0 .. BLOCK - 1, p \in 0 .. Len(data) :
        r = [buf |-> b, index |-> x, pos |-> p]
  BY DEF Sources
<1>2. r.buf = b /\ r.index = x /\ r.pos = p
  BY <1>1
<1>3. PICK n \in Nat : n = Len(data) /\ BLOCK \in Nat
  BY LZ78Assumption
<1>4. Len(b) = BLOCK /\ DOMAIN b = 1 .. BLOCK
  BY <1>1, <1>3
<1>5. Left(r, data) = Smaller(BLOCK, Len(data) - r.pos)
  BY <1>2, <1>4 DEF Left
<1>6. PICK left \in 0 .. BLOCK : left = Left(r, data) /\ p + left <= n
  BY <1>1, <1>2, <1>3, <1>5 DEF Smaller
<1>7. CASE x # 0
  BY <1>2, <1>5, <1>6, <1>7 DEF Refilled
<1>8. CASE x = 0
  <2> DEFINE c == [i \in 1 .. BLOCK |-> IF i <= left THEN data[p + i] ELSE b[i]]
  <2>1. f = [buf |-> c, index |-> x, pos |-> p + left]
    BY <1>1, <1>2, <1>4, <1>6, <1>8 DEF Refilled, read_bytes
  <2>2. c \in [1 .. BLOCK -> Symbols]
    <3>1. ASSUME NEW i \in 1 .. BLOCK PROVE (IF i <= left THEN data[p + i] ELSE b[i]) \in Symbols
      <4>1. CASE i <= left
        <5>1. p + i \in 1 .. Len(data)
          BY <1>1, <1>3, <1>6, <4>1
        <5> QED BY <4>1, <5>1
      <4>2. CASE ~(i <= left)
        BY <1>1, <4>2
      <4> QED BY <4>1, <4>2
    <3> QED BY <3>1
  <2>3. \A i \in 1 .. left : c[i] = data[p + i]
    BY <1>3, <1>6
  <2> HIDE DEF c
  <2>4. f.buf = c /\ f.index = x /\ f.pos = p + left
    BY <2>1
  <2>5. p + left \in 0 .. Len(data)
    BY <1>1, <1>3, <1>6
  <2>6. f \in Sources(data)
    BY <1>1, <2>1, <2>2, <2>5 DEF Sources
  <2> QED BY <1>2, <1>5, <1>6, <1>8, <2>3, <2>4, <2>6
<1> QED BY <1>7, <1>8

(* read_sym: a symbol more of the data, or the end of it. *)
LEMMA ReadOn ==
  ASSUME NEW data \in Seq(Symbols), NEW s \in Seq(Symbols), NEW r \in Sources(data), NEW e \in -1 .. BLOCK,
         NEW t, t = read_sym(r, data, e)
  PROVE  /\ t.sym \in Symbols /\ t.reader \in Sources(data) /\ t.end \in -1 .. BLOCK
         /\ Reading(r, data, e, s) => IF t.more THEN Reading(t.reader, data, t.end, Append(s, t.sym))
                                      ELSE Mistaken(data) \/ s = data
<1>0. BLOCK \in Nat /\ BLOCK > 1
  BY LZ78Assumption
<1> DEFINE f == Refilled(r, data)
           left == Left(r, data)
<1>1. /\ f \in Sources(data) /\ f.index = r.index
      /\ r.index # 0 => f = r
      /\ left = Smaller(BLOCK, Len(data) - r.pos) /\ left \in 0 .. BLOCK
      /\ r.index = 0 => /\ f.pos = r.pos + left
                        /\ \A i \in 1 .. left : f.buf[i] = data[r.pos + i]
  BY ReadBytes
<1> HIDE DEF f, left
<1>2. PICK b \in [1 .. BLOCK -> Symbols], x \in 0 .. BLOCK - 1, p \in 0 .. Len(data) :
        f = [buf |-> b, index |-> x, pos |-> p]
  BY <1>1 DEF Sources
<1>3. f.buf = b /\ f.index = x /\ f.pos = p /\ r.index = x
  BY <1>1, <1>2
<1>4. PICK y \in 0 .. BLOCK - 1 : y = (x + 1) % BLOCK /\ y = IF x + 1 = BLOCK THEN 0 ELSE x + 1
  <2>0. BLOCK \in Nat \ {0} /\ x \in Nat /\ x + 1 \in Nat /\ x + 1 <= BLOCK
    BY <1>0, <1>2
  <2>1. CASE x + 1 = BLOCK
    <3>1. x + 1 = BLOCK * 1 + 0 /\ 0 \in 0 .. BLOCK - 1
      BY <2>0, <2>1
    <3>2. (x + 1) % BLOCK = 0
      BY <2>0, <3>1, Remainder
    <3> QED BY <2>1, <3>1, <3>2
  <2>2. CASE x + 1 # BLOCK
    <3>1. x + 1 = BLOCK * 0 + (x + 1) /\ x + 1 \in 0 .. BLOCK - 1
      BY <2>0, <2>2
    <3>2. (x + 1) % BLOCK = x + 1
      BY <2>0, <3>1, Remainder
    <3> QED BY <2>2, <3>1, <3>2
  <2> QED BY <2>1, <2>2
<1>5. PICK m : m = End(r, data, e)
  OBVIOUS
<1>6. m = (IF x = 0 /\ left < BLOCK THEN left + 1 ELSE e) /\ m \in -1 .. BLOCK
  BY <1>0, <1>1, <1>3, <1>5 DEF End, left
<1>7. t.reader = [buf |-> b, index |-> y, pos |-> p] /\ t.sym = b[x + 1] /\ t.end = m /\ (t.more <=> y # m)
  <2>1. Len(f.buf) = BLOCK
    BY <1>0, <1>2, <1>3
  <2>2. Advanced(f) = [buf |-> b, index |-> y, pos |-> p]
    BY <1>2, <1>3, <1>4, <2>1 DEF Advanced
  <2>3. Item(f) = b[x + 1]
    BY <1>3 DEF Item
  <2> HIDE DEF f
  <2>4. t = [reader |-> Advanced(f), sym |-> Item(f), end |-> m, more |-> Advanced(f).index # m]
    BY <1>5 DEF read_sym, f
  <2>5. t.reader = Advanced(f) /\ t.sym = Item(f) /\ t.end = m /\ (t.more <=> Advanced(f).index # m)
    <3> DEFINE g == Advanced(f)
               it == Item(f)
               z == g.index
    <3>1. t = [reader |-> g, sym |-> it, end |-> m, more |-> z # m]
      BY <2>4
    <3> HIDE DEF g, it, z
    <3>2. t.reader = g /\ t.sym = it /\ t.end = m
      BY <3>1
    <3>a. PICK w \in BOOLEAN : w = (z # m)
      OBVIOUS
    <3>b. t = [reader |-> g, sym |-> it, end |-> m, more |-> w]
      BY <3>1, <3>a
    <3>c. t.more = w
      BY <3>b
    <3>d. t.more <=> z # m
      BY <3>a, <3>c
    <3> QED BY <3>2, <3>d DEF g, it, z
  <2>6. Advanced(f).index = y
    BY <2>2
  <2> QED BY <2>2, <2>3, <2>5, <2>6
<1>8. t.sym \in Symbols /\ t.reader \in Sources(data) /\ t.end \in -1 .. BLOCK
  <2>1. b[x + 1] \in Symbols
    BY <1>0, <1>2
  <2> QED BY <1>2, <1>4, <1>6, <1>7, <2>1 DEF Sources
<1>9. ASSUME Reading(r, data, e, s)
      PROVE  IF t.more THEN Reading(t.reader, data, t.end, Append(s, t.sym)) ELSE Mistaken(data) \/ s = data
  <2>1. CASE Mistaken(data)
    BY <2>1 DEF Reading
  <2>2. CASE ~Mistaken(data)
    <3>1. PICK l \in Nat, n \in Nat : l = Len(s) /\ n = Len(data) /\ l <= n /\ \A i \in 1 .. l : data[i] = s[i]
      BY <1>9, <2>2 DEF Reading, Extends
    <3>2. ASSUME l = n PROVE s = data
      BY <3>1, <3>2, SeqEqual
    <3>3. ASSUME l + 1 <= n, b[x + 1] = data[l + 1] PROVE Extends(data, Append(s, t.sym)) /\ Len(Append(s, t.sym)) = l + 1
      <4> DEFINE s2 == Append(s, t.sym)
      <4>1. Len(s2) = l + 1 /\ s2[l + 1] = data[l + 1] /\ \A i \in 1 .. l : s2[i] = s[i]
        BY <1>7, <1>8, <3>1, <3>3
      <4> HIDE DEF s2
      <4>2. \A i \in 1 .. l + 1 : data[i] = s2[i]
        BY <3>1, <4>1
      <4> QED BY <3>1, <3>3, <4>1, <4>2 DEF Extends, s2
    <3>4. CASE e = -1 /\ InBlocks(r, data, s) /\ x = 0
      <4>1. r.pos = l /\ r.index = 0 /\ l \in {BLOCK * j : j \in Nat}
        BY <1>3, <3>1, <3>4 DEF InBlocks
      <4>2. p = l + left /\ (\A i \in 1 .. left : b[i] = data[l + i]) /\ y = 1 /\ left = Smaller(BLOCK, n - l)
        BY <1>0, <1>1, <1>3, <1>4, <3>1, <3>4, <4>1
      <4>3. CASE left = BLOCK
        <5>1. m = -1 /\ l + BLOCK <= n
          BY <1>0, <1>6, <3>1, <3>4, <4>2, <4>3 DEF Smaller
        <5>2. b[x + 1] = data[l + 1] /\ l + 1 <= n /\ t.more
          BY <1>0, <1>7, <3>1, <3>4, <4>2, <4>3, <5>1
        <5>3. Extends(data, Append(s, t.sym)) /\ Len(Append(s, t.sym)) = l + 1
          BY <3>3, <5>2
        <5>4. p \in {BLOCK * j : j \in Nat}
          <6>1. PICK j \in Nat : l = BLOCK * j
            BY <4>1
          <6>2. l + BLOCK = BLOCK * (j + 1) /\ j + 1 \in Nat
            BY <1>0, <6>1
          <6> QED BY <4>2, <4>3, <6>2
        <5>5. p = (l + 1) - 1 + BLOCK /\ \A i \in 1 + 1 .. BLOCK : b[i] = data[(l + 1) - 1 + i]
          BY <1>0, <3>1, <4>2, <4>3
        <5>6. InBlocks(t.reader, data, Append(s, t.sym))
          BY <1>7, <4>2, <5>3, <5>4, <5>5 DEF InBlocks, Ahead
        <5> QED BY <1>7, <5>1, <5>2, <5>3, <5>6 DEF Reading
      <4>4. CASE left # BLOCK
        <5>1. left = n - l /\ left < BLOCK /\ m = left + 1 /\ left \in Nat
          BY <1>0, <1>1, <1>6, <3>1, <3>4, <4>2, <4>4 DEF Smaller
        <5>2. left # BLOCK - 1
          <6> SUFFICES ASSUME left = BLOCK - 1 PROVE FALSE
            OBVIOUS
          <6>1. PICK j \in Nat : l = BLOCK * j
            BY <4>1
          <6>2. PICK c \in 0 .. BLOCK - 1 : c = BLOCK - 1
            BY <1>0
          <6>3. n = l + c
            BY <1>0, <3>1, <5>1, <6>2
          <6>a. n = BLOCK * j + c
            BY <6>1, <6>3, Zenon
          <6>b. BLOCK \in Nat \ {0}
            BY <1>0
          <6>c. j \in Nat /\ c \in 0 .. BLOCK - 1
            BY <6>1, <6>2
          <6> HIDE <6>1, <6>2
          <6>4. n % BLOCK = c
            BY <6>a, <6>b, <6>c, Remainder
          <6>5. n % BLOCK = BLOCK - 1
            BY <6>2, <6>4
          <6> QED BY <2>2, <3>1, <6>5 DEF Mistaken
        <5>3. CASE left = 0
          BY <1>7, <3>1, <3>2, <4>2, <5>1, <5>3
        <5>4. CASE left # 0
          <6>1. b[x + 1] = data[l + 1] /\ l + 1 <= n /\ t.more
            BY <1>7, <3>1, <3>4, <4>2, <5>1, <5>4
          <6>2. Extends(data, Append(s, t.sym)) /\ Len(Append(s, t.sym)) = l + 1
            BY <3>3, <6>1
          <6>a. m \in 1 .. BLOCK - 1 /\ 1 \in 1 .. m - 1 /\ n = (l + 1) - 1 + m - 1
            BY <1>0, <3>1, <5>1, <5>2, <5>4
          <6>b. \A i \in 1 + 1 .. m - 1 : i \in 1 .. left /\ (l + 1) - 1 + i = l + i
            BY <3>1, <5>1
          <6>3. /\ m \in 1 .. BLOCK - 1 /\ 1 \in 1 .. m - 1 /\ n = (l + 1) - 1 + m - 1
                /\ \A i \in 1 + 1 .. m - 1 : b[i] = data[(l + 1) - 1 + i]
            BY <4>2, <6>a, <6>b
          <6>4. InLast(t.reader, data, t.end, Append(s, t.sym))
            BY <1>7, <3>1, <4>2, <6>2, <6>3 DEF InLast, Ahead
          <6> QED BY <6>1, <6>2, <6>4 DEF Reading
        <5> QED BY <5>3, <5>4
      <4> QED BY <4>3, <4>4
    <3>5. CASE e = -1 /\ InBlocks(r, data, s) /\ x # 0
      <4>1. /\ f = r /\ p \in {BLOCK * j : j \in Nat} /\ p = l - x + BLOCK
            /\ \A i \in x + 1 .. BLOCK : b[i] = data[l - x + i]
        BY <1>1, <1>3, <3>1, <3>5 DEF InBlocks, Ahead
      <4>2. m = -1 /\ t.more
        BY <1>6, <1>7, <3>5
      <4>3. l - x + (x + 1) = l + 1 /\ x + 1 \in x + 1 .. BLOCK /\ l + 1 <= n
        BY <1>0, <1>2, <3>1, <4>1
      <4>4. b[x + 1] = data[l + 1]
        BY <4>1, <4>3
      <4>5. Extends(data, Append(s, t.sym)) /\ Len(Append(s, t.sym)) = l + 1
        BY <3>3, <4>3, <4>4
      <4>6. InBlocks(t.reader, data, Append(s, t.sym))
        <5>1. CASE x + 1 = BLOCK
          <6>1. y = 0 /\ p = l + 1
            BY <1>4, <3>1, <4>1, <5>1
          <6> QED BY <1>7, <4>1, <4>5, <6>1 DEF InBlocks
        <5>2. CASE x + 1 # BLOCK
          <6>1. y = x + 1 /\ y # 0 /\ p = (l + 1) - y + BLOCK /\ (l + 1) - y = l - x
            <7>1. y = x + 1
              BY <1>4, <5>2
            <7> QED BY <1>2, <3>1, <4>1, <7>1
          <6>2. \A i \in y + 1 .. BLOCK : i \in x + 1 .. BLOCK
            BY <1>0, <1>2, <6>1
          <6> QED BY <1>7, <4>1, <4>5, <6>1, <6>2 DEF InBlocks, Ahead
        <5> QED BY <5>1, <5>2
      <4> QED BY <1>7, <4>2, <4>5, <4>6 DEF Reading
    <3>6. CASE InLast(r, data, e, s)
      <4>1. /\ e \in 1 .. BLOCK - 1 /\ x \in 1 .. e - 1 /\ n = l - x + e - 1
            /\ \A i \in x + 1 .. e - 1 : r.buf[i] = data[l - x + i]
        BY <1>3, <3>1, <3>6 DEF InLast, Ahead
      <4>2. f = r /\ m = e /\ y = x + 1 /\ \A i \in x + 1 .. e - 1 : b[i] = data[l - x + i]
        BY <1>0, <1>1, <1>3, <1>4, <1>6, <4>1
      <4>3. CASE x + 1 = e
        <5>1. l = n /\ y = m
          BY <1>2, <3>1, <4>1, <4>2, <4>3
        <5> QED BY <1>7, <3>2, <5>1
      <4>4. CASE x + 1 # e
        <5>1. l - x + (x + 1) = l + 1 /\ x + 1 \in x + 1 .. e - 1 /\ l + 1 <= n
          BY <1>2, <3>1, <4>1, <4>4
        <5>2. b[x + 1] = data[l + 1]
          BY <4>2, <5>1
        <5>3. Extends(data, Append(s, t.sym)) /\ Len(Append(s, t.sym)) = l + 1
          BY <3>3, <5>1, <5>2
        <5>4. /\ y \in 1 .. e - 1 /\ n = (l + 1) - y + e - 1 /\ (l + 1) - y = l - x
              /\ \A i \in y + 1 .. e - 1 : i \in x + 1 .. e - 1
          <6>1. e \in Nat /\ x \in Nat /\ y = x + 1 /\ x + 1 < e
            <7>1. e \in Nat /\ BLOCK \in Nat
              BY <1>0, <4>1
            <7>2. x \in Nat /\ x < e /\ y = x + 1
              BY <4>1, <4>2, <7>1
            <7>3. x + 1 < e
              BY <4>4, <7>1, <7>2
            <7> QED BY <7>1, <7>2, <7>3
          <6>2. y \in 1 .. e - 1 /\ \A i \in y + 1 .. e - 1 : i \in x + 1 .. e - 1
            BY <6>1
          <6>3. (l + 1) - y = l - x
            BY <1>2, <3>1, <6>1
          <6> QED BY <4>1, <6>2, <6>3
        <5>5. InLast(t.reader, data, t.end, Append(s, t.sym))
          BY <1>7, <3>1, <4>1, <4>2, <5>3, <5>4 DEF InLast, Ahead
        <5>6. t.more
          BY <1>7, <4>2, <4>4
        <5> QED BY <5>3, <5>5, <5>6 DEF Reading
      <4> QED BY <4>3, <4>4
    <3> QED BY <1>9, <2>2, <3>4, <3>5, <3>6 DEF Reading
  <2> QED BY <2>1, <2>2
<1> QED BY <1>8, <1>9

----------------------------------------------------------------------------
(* The encoder's trie. *)

(* The trie of the encoder: an edge leads from the word of a node to the    *)
(* word with one symbol more.                                               *)
Leads(m, s, node, sym, c) == Named(m, s, Len(m), c) = Append(Named(m, s, Len(m), node), sym)

Edge(m, s, node, sym, c) == c \in Nodes(CodeAt(m, Len(m))) \ {EMPTY_CODE} /\ Leads(m, s, node, sym, c)

GoodTrie(m, s, t) ==
  /\ DOMAIN t \subseteq Nodes(CodeAt(m, Len(m))) \X Symbols
  /\ \A node \in Nodes(CodeAt(m, Len(m))), sym \in Symbols :
       <<node, sym>> \in DOMAIN t => Edge(m, s, node, sym, t[<<node, sym>>])

(* The encoder is at the node of what it has read since the last pair. *)
Walking(m, s, t, curr, prev, psym) ==
  /\ GoodTrie(m, s, t)
  /\ curr \in Nodes(CodeAt(m, Len(m)))
  /\ Named(m, s, Len(m), curr) = Since(m, s)
  /\ curr # EMPTY_CODE => /\ prev \in Nodes(CodeAt(m, Len(m))) /\ psym \in Symbols
                          /\ Leads(m, s, prev, psym, curr)

IsMore(m, s, x, s2) ==
  /\ s2 \in Seq(Symbols) /\ Extends(s2, s) /\ Len(s2) = Len(s) + 1
  /\ Since(m, s2) = Append(Since(m, s), x) /\ SymsAt(m, Len(m)) < Len(s2)
  /\ Since(m, s) \in Seq(Symbols) /\ Len(Since(m, s)) = Len(s) - SymsAt(m, Len(m))

(* u is what comes in s after a items. *)
IsEnd(X, s, a, u) == u \in Seq(X) /\ Len(u) = Len(s) - a /\ \A i \in 1 .. Len(s) - a : u[i] = s[a + i]

(* The end of a sequence, item by item. *)
LEMMA Ends ==
  ASSUME NEW X, NEW s \in Seq(X), NEW a \in 0 .. Len(s)
  PROVE  IsEnd(X, s, a, SubSeq(s, a + 1, Len(s)))
  BY DEF IsEnd

(* A symbol more has been read since the last pair. *)
LEMMA SinceMore ==
  ASSUME NEW m, NEW s, GoodMarks(m, s), NEW x \in Symbols, NEW s2, s2 = Append(s, x)
  PROVE  IsMore(m, s, x, s2)
<1>1. PICK l \in Nat, a \in Nat : a <= l /\ l = Len(s) /\ s \in Seq(Symbols) /\ a = SymsAt(m, Len(m))
  <2>1. Len(m) \in 0 .. Len(m) /\ s \in Seq(Symbols) /\ Len(s) \in Nat
    BY DEF GoodMarks
  <2> QED BY <2>1, AtTypes
<1>2. s2 \in Seq(Symbols) /\ Len(s2) = l + 1 /\ s2[l + 1] = x /\ \A i \in 1 .. l : s2[i] = s[i]
  BY <1>1
<1>3. Extends(s2, s)
  BY <1>1, <1>2 DEF Extends
<1> DEFINE u == SubSeq(s, a + 1, l)
           v == SubSeq(s2, a + 1, l + 1)
<1>4. u \in Seq(Symbols) /\ Len(u) = l - a /\ \A i \in 1 .. l - a : u[i] = s[a + i]
  BY <1>1
<1>5. v \in Seq(Symbols) /\ Len(v) = l + 1 - a /\ \A i \in 1 .. l + 1 - a : v[i] = s2[a + i]
  <2>1. PICK k \in Nat : k = l + 1 /\ a <= k /\ k = Len(s2) /\ s2 \in Seq(Symbols)
    BY <1>1, <1>2
  <2>2. a \in 0 .. Len(s2)
    BY <2>1
  <2>3. IsEnd(Symbols, s2, a, v)
    BY <2>1, <2>2, Ends
  <2> QED BY <2>1, <2>3 DEF IsEnd
<1> HIDE DEF u, v
<1> DEFINE w == Append(u, x)
<1>6. w \in Seq(Symbols) /\ Len(w) = l + 1 - a /\ w[l + 1 - a] = x /\ \A i \in 1 .. l - a : w[i] = u[i]
  BY <1>1, <1>4
<1> HIDE DEF w
<1>7. ASSUME NEW i \in 1 .. l + 1 - a PROVE v[i] = w[i]
  <2>1. CASE i = l + 1 - a
    <3>1. a + i = l + 1
      BY <1>1, <2>1
    <3> QED BY <1>2, <1>5, <1>6, <2>1, <3>1
  <2>2. CASE i # l + 1 - a
    <3> DEFINE j == a + i
    <3>1. i \in 1 .. l - a /\ j \in 1 .. l
      BY <1>1, <2>2
    <3>2. v[i] = s2[j] /\ w[i] = s[j]
      BY <1>4, <1>5, <1>6, <3>1
    <3> HIDE DEF j
    <3> QED BY <1>2, <3>1, <3>2
  <2> QED BY <2>1, <2>2
<1>8. v = w
  BY <1>5, <1>6, <1>7, SeqEqual
<1>9. Since(m, s) = u /\ Since(m, s2) = v
  BY <1>1, <1>2 DEF Since, u, v
<1> QED BY <1>1, <1>2, <1>3, <1>4, <1>8, <1>9 DEF w, IsMore

(* What the nodes name does not depend on the symbols to come. *)
SameNames(m, s, s2) == \A c \in Nodes(CodeAt(m, Len(m))) : Named(m, s2, Len(m), c) = Named(m, s, Len(m), c)

(* What the nodes name stays when symbols are read. *)
LEMMA NamesKept ==
  ASSUME NEW m, NEW s, GoodMarks(m, s), NEW s2 \in Seq(Symbols), Extends(s2, s)
  PROVE  SameNames(m, s, s2)
<1>1. Len(m) \in 0 .. Len(m) /\ Extends(m, m)
  BY DEF GoodMarks, Extends
<1> QED BY <1>1, NamedKept DEF SameNames

(* Words that stay what they are leave the trie what it is. *)
LEMMA TrieKept ==
  ASSUME NEW m, NEW s, GoodMarks(m, s), NEW s2 \in Seq(Symbols), Extends(s2, s), NEW t, GoodTrie(m, s, t)
  PROVE  GoodTrie(m, s2, t)
<1>1. SameNames(m, s, s2)
  BY NamesKept
<1> QED BY <1>1 DEF SameNames, GoodTrie, Edge, Leads

(* trie_step. *)
LEMMA WalkOn ==
  ASSUME NEW m, NEW s, GoodMarks(m, s), NEW t, NEW curr, NEW prev, NEW psym, Walking(m, s, t, curr, prev, psym),
         NEW sym \in Symbols, <<curr, sym>> \in DOMAIN t, NEW s2, s2 = Append(s, sym)
  PROVE  GoodMarks(m, s2) /\ Walking(m, s2, t, t[<<curr, sym>>], curr, sym)
<1>1. s2 \in Seq(Symbols) /\ Extends(s2, s) /\ Since(m, s2) = Append(Since(m, s), sym)
  <2>1. IsMore(m, s, sym, s2)
    BY SinceMore
  <2> QED BY <2>1 DEF IsMore
<1>2. SameNames(m, s, s2)
  BY <1>1, NamesKept
<1>3. \A c \in Nodes(CodeAt(m, Len(m))) : Named(m, s2, Len(m), c) = Named(m, s, Len(m), c)
  BY <1>2 DEF SameNames
<1>4. GoodMarks(m, s2)
  BY <1>1, SymbolMore
<1>5. GoodTrie(m, s2, t)
  BY <1>1, TrieKept DEF Walking
<1> DEFINE c == t[<<curr, sym>>]
<1>6. Edge(m, s2, curr, sym, c) /\ curr \in Nodes(CodeAt(m, Len(m)))
  BY <1>5 DEF GoodTrie, Walking
<1> HIDE DEF c
<1>7. Named(m, s2, Len(m), c) = Append(Since(m, s), sym)
  BY <1>3, <1>6 DEF Edge, Leads, Walking
<1> QED BY <1>1, <1>4, <1>5, <1>6, <1>7 DEF Walking, Edge, c

(* m2 is m with the mark of a pair after which s2 has been taken. *)
Marked(m, s2, m2) ==
  /\ GoodMarks(m2, s2) /\ Extends(m2, m) /\ Len(m2) = Len(m) + 1
  /\ CodeAt(m2, Len(m) + 1) = Succ(CodeAt(m, Len(m)))
  /\ BitsAt(m2, Len(m) + 1) = BitsAt(m, Len(m)) + PairWidth(m, Len(m))
  /\ SymsAt(m2, Len(m) + 1) = Len(s2)

(* A word is complete: its pair, its code and its edge. *)
LEMMA WalkEnd ==
  ASSUME NEW m, NEW s, GoodMarks(m, s), NEW t, NEW curr, NEW prev, NEW psym, Walking(m, s, t, curr, prev, psym),
         NEW sym \in Symbols, NEW s2, IsMore(m, s, sym, s2), NEW m2, Marked(m, s2, m2),
         NEW t2, t2 = (IF CodeAt(m, Len(m)) + 1 = MAX_CODE THEN NoEdges
                       ELSE Extended(t, <<curr, sym>>, CodeAt(m, Len(m)))), NEW prev2, NEW psym2
  PROVE  Walking(m2, s2, t2, EMPTY_CODE, prev2, psym2)
<1>0. PICK l \in Nat : l = Len(m) /\ l \in 0 .. Len(m)
  BY DEF GoodMarks
<1>1. /\ s2 \in Seq(Symbols) /\ Extends(s2, s) /\ Since(m, s2) = Append(Since(m, s), sym)
      /\ SymsAt(m, l) < Len(s2) /\ Len(s2) \in Nat
  BY <1>0 DEF IsMore
<1>2. /\ GoodMarks(m2, s2) /\ Extends(m2, m)
      /\ CodeAt(m2, l + 1) = Succ(CodeAt(m, l)) /\ SymsAt(m2, l + 1) = Len(s2)
  BY <1>0 DEF Marked
<1>3. Len(m2) = l + 1
  BY <1>0 DEF Marked
<1>4. PICK c : c = CodeAt(m, l)
  OBVIOUS
<1>5. c \in Codes /\ c \in Nat
  BY <1>0, <1>4, AtTypes, CodesNat
<1>6. Since(m2, s2) = << >> /\ Named(m2, s2, l + 1, EMPTY_CODE) = << >>
  BY <1>1, <1>2, <1>3 DEF Since, Named
<1>7. EMPTY_CODE \in Nodes(CodeAt(m2, l + 1))
  BY DEF Nodes
<1>8. GoodTrie(m2, s2, t2)
  <2>1. CASE c + 1 = MAX_CODE
    <3>1. t2 = << >> /\ DOMAIN t2 = {}
      BY <1>0, <1>4, <2>1 DEF NoEdges
    <3> QED BY <3>1 DEF GoodTrie
  <2>2. CASE c + 1 # MAX_CODE
    <3>1. t2 = Extended(t, <<curr, sym>>, c)
      BY <1>0, <1>4, <2>2
    <3>2. l \in 0 .. Len(m2) - 1 /\ CodeAt(m2, l) = c
      BY <1>0, <1>2, <1>3, <1>4, AtKept
    <3>3. /\ CodeAt(m2, l + 1) = c + 1
          /\ \A n \in Nodes(c) : Named(m2, s2, l + 1, n) = Named(m2, s2, l, n)
          /\ Named(m2, s2, l + 1, c) = WordAt(m2, s2, l + 1)
      <4>1. CodeAt(m2, l) + 1 # MAX_CODE
        BY <2>2, <3>2
      <4>2. /\ CodeAt(m2, l + 1) = CodeAt(m2, l) + 1
            /\ \A n \in Nodes(CodeAt(m2, l)) : Named(m2, s2, l + 1, n) = Named(m2, s2, l, n)
            /\ Named(m2, s2, l + 1, CodeAt(m2, l)) = WordAt(m2, s2, l + 1)
        BY <1>2, <3>2, <4>1, NamedNext
      <4> QED BY <3>2, <4>2
    <3>4. \A n \in Nodes(c) : Named(m2, s2, l + 1, n) = Named(m, s, l, n)
      <4>1. \A n \in Nodes(CodeAt(m, l)) : Named(m2, s2, l, n) = Named(m, s, l, n)
        BY <1>0, <1>1, <1>2, NamedKept
      <4> QED BY <1>4, <3>3, <4>1
    <3>5. WordAt(m2, s2, l + 1) = Append(Named(m, s, l, curr), sym)
      <4>1. SymsAt(m2, l) = SymsAt(m, l) /\ (l + 1) - 1 = l
        BY <1>0, <1>2, AtKept
      <4>2. WordAt(m2, s2, l + 1) = Since(m, s2)
        BY <1>0, <1>2, <4>1 DEF WordAt, Since
      <4> QED BY <1>0, <1>1, <4>2 DEF Walking
    <3>6. Nodes(c) \subseteq Nodes(c + 1) /\ c \in Nodes(c + 1) \ {EMPTY_CODE}
      BY <1>5 DEF Nodes, Codes, START_CODE, EMPTY_CODE
    <3>7. curr \in Nodes(c) /\ GoodTrie(m, s, t)
      BY <1>0, <1>4 DEF Walking
    <3>8. DOMAIN t2 = DOMAIN t \cup {<<curr, sym>>}
      BY <3>1 DEF Extended
    <3>9. DOMAIN t2 \subseteq Nodes(c + 1) \X Symbols
      <4>1. DOMAIN t \subseteq Nodes(c) \X Symbols
        BY <1>0, <1>4, <3>7 DEF GoodTrie
      <4>2. <<curr, sym>> \in Nodes(c + 1) \X Symbols
        BY <3>6, <3>7
      <4>3. Nodes(c) \X Symbols \subseteq Nodes(c + 1) \X Symbols
        BY <3>6
      <4> QED BY <3>8, <4>1, <4>2, <4>3
    <3>10. ASSUME NEW node \in Nodes(c + 1), NEW x \in Symbols, <<node, x>> \in DOMAIN t2
           PROVE  Edge(m2, s2, node, x, t2[<<node, x>>])
      <4>1. CASE <<node, x>> = <<curr, sym>>
        <5>1. t2[<<node, x>>] = c /\ node = curr /\ x = sym
          BY <3>1, <4>1 DEF Extended
        <5>2. Edge(m2, s2, curr, sym, c)
          BY <1>3, <3>3, <3>4, <3>5, <3>6, <3>7 DEF Edge, Leads
        <5> QED BY <5>1, <5>2
      <4>2. CASE <<node, x>> # <<curr, sym>>
        <5>1. t2[<<node, x>>] = t[<<node, x>>] /\ <<node, x>> \in DOMAIN t
          BY <3>1, <3>8, <3>10, <4>2 DEF Extended
        <5>2. node \in Nodes(c)
          BY <1>0, <1>4, <3>7, <5>1 DEF GoodTrie
        <5>3. Edge(m, s, node, x, t[<<node, x>>])
          BY <1>0, <1>4, <3>7, <5>1, <5>2 DEF GoodTrie
        <5> DEFINE n == t[<<node, x>>]
        <5> HIDE DEF n
        <5>4. n \in Nodes(c) \ {EMPTY_CODE} /\ Named(m, s, l, n) = Append(Named(m, s, l, node), x)
          BY <1>0, <1>4, <5>3 DEF Edge, Leads, n
        <5>5. Edge(m2, s2, node, x, n)
          BY <1>3, <3>3, <3>4, <3>6, <5>2, <5>4 DEF Edge, Leads
        <5> QED BY <5>1, <5>5 DEF n
      <4> QED BY <4>1, <4>2
    <3> QED BY <1>3, <3>3, <3>9, <3>10 DEF GoodTrie
  <2> QED BY <2>1, <2>2
<1> QED BY <1>2, <1>3, <1>6, <1>7, <1>8 DEF Walking

Packers == {w \in Writers(0 .. 1) : Len(w.buf) <= BUFFER}

(* The pairs of the marks are in the stream of w, and nothing else. *)
Packing(m, s, w) ==
  /\ w \in Packers /\ Len(w.file) \in Blocks
  /\ SentAll(m, s, Whole(w)) /\ Len(Whole(w)) = BitsAt(m, Len(m))

NextMark(m, s) == [bits |-> BitsAt(m, Len(m)) + PairWidth(m, Len(m)), syms |-> Len(s), code |-> CodeAt(m, Len(m))]

(* What write_pair is given for the pair that names the next word. *)
Pairing(m, s, w, s2, node, sym, m2, r) ==
  /\ GoodMarks(m, s) /\ Packing(m, s, w)
  /\ s2 \in Seq(Symbols) /\ Extends(s2, s) /\ SymsAt(m, Len(m)) < Len(s2)
  /\ node \in Nodes(CodeAt(m, Len(m))) /\ sym \in Symbols
  /\ Since(m, s2) = Append(Named(m, s, Len(m), node), sym)
  /\ m2 = Append(m, NextMark(m, s2))
  /\ r = write_pair(w, node, sym, bitlen(CodeAt(m, Len(m))))

(* write_pair, of the pair that names the next word. *)
LEMMA PairPacked ==
  ASSUME NEW m, NEW s, NEW w, NEW s2, NEW node, NEW sym, NEW m2, NEW r,
         Pairing(m, s, w, s2, node, sym, m2, r)
  PROVE  Marked(m, s2, m2) /\ Packing(m2, s2, r) /\ Extends(r.file, w.file)
<1> SUFFICES ASSUME GoodMarks(m, s), Packing(m, s, w),
                    s2 \in Seq(Symbols), Extends(s2, s), SymsAt(m, Len(m)) < Len(s2),
                    node \in Nodes(CodeAt(m, Len(m))), sym \in Symbols,
                    Since(m, s2) = Append(Named(m, s, Len(m), node), sym),
                    m2 = Append(m, NextMark(m, s2)),
                    r = write_pair(w, node, sym, bitlen(CodeAt(m, Len(m))))
             PROVE  Marked(m, s2, m2) /\ Packing(m2, s2, r) /\ Extends(r.file, w.file)
  BY DEF Pairing
<1> DEFINE new == NextMark(m, s2)
           c == CodeAt(m, Len(m))
           b == Whole(w)
           b2 == b \o PairBits(node, sym, c)
<1>0. w \in Writers(0 .. 1) /\ Len(w.buf) <= BUFFER /\ Len(w.file) \in Blocks
  BY DEF Packing, Packers
<1>1. Len(m) \in Nat /\ Len(m) \in 0 .. Len(m) /\ Len(s2) \in Nat /\ Len(s2) <= Len(s2)
  BY DEF GoodMarks
<1>2. c \in Nat /\ c <= MAX_CODE /\ node \in Nat
  <2>1. c \in Codes
    BY <1>1, AtTypes
  <2> HIDE DEF c
  <2>2. \A n \in Nodes(c) : n \in Nat
    BY <2>1, CodesNat
  <2> QED BY <2>1, <2>2, CodeWidth DEF c
<1>3. new = [bits |-> BitsAt(m, Len(m)) + PairWidth(m, Len(m)), syms |-> Len(s2), code |-> CodeAt(m, Len(m))]
  BY DEF NextMark
<1>4. b \in Seq(0 .. 1) /\ Len(b) = BitsAt(m, Len(m)) /\ SentAll(m, s, b)
  BY <1>0, Wholes DEF Packing
<1> HIDE DEF new, b
<1>5. /\ SentAll(Append(m, new), s2, b2)
      /\ Len(b2) = BitsAt(Append(m, new), Len(m) + 1)
  <2>1. PICK x : x = b \o PairBits(node, sym, CodeAt(m, Len(m)))
    OBVIOUS
  <2>2. IsSent(m, s, b, s2, node, sym, new, x)
    BY <1>3, <1>4, <2>1, SentMore
  <2> QED BY <2>1, <2>2 DEF IsSent
<1>6. Marked(m, s2, Append(m, new))
  <2>1. /\ GoodMarks(Append(m, new), s2) /\ Extends(Append(m, new), m)
        /\ CodeAt(Append(m, new), Len(m) + 1) = Succ(CodeAt(m, Len(m)))
        /\ BitsAt(Append(m, new), Len(m) + 1) = new.bits
        /\ SymsAt(Append(m, new), Len(m) + 1) = Len(s2)
    BY <1>1, <1>3, MarkMore
  <2>2. Len(Append(m, new)) = Len(m) + 1
    BY DEF GoodMarks
  <2>3. new.bits = BitsAt(m, Len(m)) + PairWidth(m, Len(m))
    BY <1>3
  <2> QED BY <2>1, <2>2, <2>3 DEF Marked
<1>7. /\ r \in Writers(0 .. 1) /\ Whole(r) = b2 /\ Len(r.buf) <= BUFFER
      /\ Len(r.file) \in Blocks /\ Extends(r.file, w.file)
  <2> HIDE DEF c
  <2>1. r = write_pair(w, node, sym, bitlen(c))
    BY DEF c
  <2>2. IsPacked(w, node, sym, c, r)
    BY <1>0, <1>2, <2>1, PairWritten
  <2> QED BY <2>2 DEF b, IsPacked
<1>8. m2 = Append(m, new) /\ Len(m2) = Len(m) + 1
  <2>1. m2 = Append(m, new)
    BY DEF new
  <2> QED BY <1>6, <2>1 DEF Marked
<1> HIDE DEF b2
<1>9. Packing(m2, s2, r)
  BY <1>5, <1>7, <1>8 DEF Packing, Packers
<1> QED BY <1>6, <1>7, <1>8, <1>9

(* After the last pair comes the STOP pair, all zeros. *)
Ended(m, b) == \A i \in 1 .. Len(b) : i > BitsAt(m, Len(m)) => b[i] = 0

(* write_pair, of the STOP pair. *)
LEMMA StopPacked ==
  ASSUME NEW m, NEW s, GoodMarks(m, s), NEW w, Packing(m, s, w), NEW code \in Nat, code <= MAX_CODE,
         NEW r, r = write_pair(w, STOP_CODE, 0, bitlen(code))
  PROVE  /\ r \in Packers /\ Len(r.file) \in Blocks /\ Extends(r.file, w.file)
         /\ SentAll(m, s, Whole(r)) /\ Ended(m, Whole(r))
         /\ Len(Whole(r)) = BitsAt(m, Len(m)) + bitlen(code) + BITS
<1>0. w \in Writers(0 .. 1) /\ Len(w.buf) <= BUFFER /\ Len(w.file) \in Blocks /\ STOP_CODE \in Nat
  BY DEF Packing, Packers, STOP_CODE
<1> DEFINE z == PairBits(STOP_CODE, 0, code)
           b == Whole(w)
           b2 == Whole(r)
<1>1. 0 \in Symbols /\ \A i \in 1 .. bitlen(code) + BITS : z[i] = 0
  BY StopBits
<1>2. /\ r \in Writers(0 .. 1) /\ b2 = b \o z /\ Len(r.buf) <= BUFFER
      /\ Len(r.file) \in Blocks /\ Extends(r.file, w.file)
  <2>1. IsPacked(w, STOP_CODE, 0, code, r)
    BY <1>0, <1>1, PairWritten
  <2> QED BY <2>1 DEF IsPacked
<1>3. z \in Seq(0 .. 1) /\ Len(z) = bitlen(code) + BITS
  BY <1>0, <1>1, PairBitsTyped
<1>4. PICK n \in Nat, k \in Nat : n = BitsAt(m, Len(m)) /\ k = bitlen(code) + BITS
  <2>1. Len(m) \in 0 .. Len(m)
    BY DEF GoodMarks
  <2>2. BitsAt(m, Len(m)) \in Nat
    BY <2>1, AtTypes
  <2>3. bitlen(code) + BITS \in Nat
    BY BitLength, Widths
  <2> QED BY <2>2, <2>3
<1>5. b \in Seq(0 .. 1) /\ Len(b) = n
  BY <1>0, <1>4, Wholes DEF Packing
<1> HIDE DEF z, b
<1>6. /\ Len(b \o z) = n + k /\ \A i \in 1 .. n + k : (b \o z)[i] = IF i <= n THEN b[i] ELSE z[i - n]
  <2>1. IsJoined(0 .. 1, b, z, b \o z)
    BY <1>3, <1>5, Joins
  <2> QED BY <1>3, <1>4, <1>5, <2>1 DEF IsJoined
<1> HIDE DEF b2
<1>7. Len(b2) = n + k /\ \A i \in 1 .. n + k : b2[i] = IF i <= n THEN b[i] ELSE z[i - n]
  BY <1>2, <1>6
<1>8. Agree(b2, b, n)
  BY <1>4, <1>7 DEF Agree
<1>9. SentAll(m, s, b2)
  <2>1. SentAll(m, s, b) /\ s \in Seq(Symbols) /\ Extends(s, s)
    BY DEF Packing, b, GoodMarks, Extends
  <2> QED BY <1>4, <1>8, <2>1, SentKept
<1>10. Ended(m, b2)
  <2> SUFFICES ASSUME NEW i \in 1 .. n + k, i > n PROVE b2[i] = 0
    BY <1>4, <1>7 DEF Ended
  <2> DEFINE j == i - n
  <2>1. j \in 1 .. k /\ ~(i <= n)
    BY <1>4
  <2>2. b2[i] = z[j]
    BY <1>7, <2>1
  <2> HIDE DEF j
  <2> QED BY <1>1, <1>4, <2>1, <2>2
<1>11. r \in Packers
  BY <1>2 DEF Packers
<1>12. Len(b2) = BitsAt(m, Len(m)) + bitlen(code) + BITS
  <2>1. bitlen(code) \in Nat /\ BITS \in Nat
    BY BitLength, Widths
  <2> QED BY <1>4, <1>7, <2>1
<1> QED BY <1>2, <1>9, <1>10, <1>11, <1>12 DEF b2

(* flush_pairs: of the zeros at the end, less than a symbol's bits are      *)
(* dropped.                                                                 *)
LEMMA FlushPacked ==
  ASSUME NEW m, NEW s, GoodMarks(m, s), NEW w \in Packers, SentAll(m, s, Whole(w)), Ended(m, Whole(w)),
         NEW n \in Nat, BitsAt(m, Len(m)) <= n, n + BITS <= Len(Whole(w)),
         NEW r, r = [buf |-> << >>, file |-> flush_pairs(w)]
  PROVE  /\ r \in Packers /\ Extends(r.file, w.file) /\ r.buf = << >>
         /\ SentAll(m, s, Whole(r)) /\ Ended(m, Whole(r)) /\ n < Len(Whole(r)) /\ Whole(r) = r.file
<1> DEFINE f == flush_pairs(w)
           b == Whole(w)
<1>1. w \in Writers(0 .. 1)
  BY DEF Packers
<1>2. f \in Seq(0 .. 1) /\ Extends(f, w.file) /\ Extends(b, f) /\ Len(b) < Len(f) + BITS
  BY <1>1, Flushed
<1>3. b \in Seq(0 .. 1)
  BY <1>1, Wholes
<1> HIDE DEF f, b
<1>4. r.buf = << >> /\ r.file = f
  BY DEF f
<1>5. Whole(r) = f
  <2>1. f \o << >> = f
    BY <1>2
  <2> QED BY <1>4, <2>1 DEF Whole
<1>6. r \in Packers
  <2>1. r \in Writers(0 .. 1) /\ Len(r.buf) = 0
    BY <1>2, <1>4 DEF Writers, f
  <2> QED BY <2>1, Widths DEF Packers
<1>7. n < Len(f) /\ Len(f) <= Len(b) /\ \A i \in 1 .. Len(f) : b[i] = f[i]
  <2>1. Len(f) \in Nat /\ Len(b) \in Nat /\ BITS \in Nat /\ n + BITS <= Len(b)
    BY <1>2, <1>3, Widths DEF b
  <2> QED BY <1>2, <2>1 DEF Extends
<1>8. PICK a \in Nat : a = BitsAt(m, Len(m))
  <2>1. Len(m) \in 0 .. Len(m)
    BY DEF GoodMarks
  <2> QED BY <2>1, AtTypes
<1>9. Agree(f, b, a)
  <2>1. \A i \in 1 .. a : i \in 1 .. Len(f)
    BY <1>2, <1>7, <1>8
  <2> QED BY <1>7, <2>1 DEF Agree
<1>10. SentAll(m, s, f)
  <2>1. SentAll(m, s, b) /\ s \in Seq(Symbols) /\ Extends(s, s)
    BY DEF b, GoodMarks, Extends
  <2> QED BY <1>8, <1>9, <2>1, SentKept
<1>11. Ended(m, f)
  <2>1. \A i \in 1 .. Len(f) : i \in 1 .. Len(b)
    BY <1>2, <1>3, <1>7
  <2>2. Ended(m, b)
    BY DEF b
  <2> QED BY <1>7, <2>1, <2>2 DEF Ended
<1> QED BY <1>2, <1>4, <1>5, <1>6, <1>7, <1>10, <1>11

----------------------------------------------------------------------------
(* The decoder's streams. *)

Readers == [buf : [1 .. BUFFER -> 0 .. 1], index : 0 .. BUFFER, pos : Nat, total : Nat]

(* Where a file has got to: whole buffers, unless the encoder has exited, or *)
(* nothing at all.                                                           *)
Grown(file, exited) ==
  file \in Seq(0 .. 1) /\ (exited \/ Len(file) = 0 \/ Len(file) \in Blocks)

(* The reader is at bit a of the file: its buffer is used up, and a part of  *)
(* the next may be read, or the file has ended before; or what is left in it *)
(* is of the file, as far as that goes.                                      *)
Between(r, file, exited, closed, a) ==
  /\ r.index = BUFFER
  /\ \/ /\ a = r.pos - r.total /\ r.total < BUFFER
        /\ \A i \in 1 .. r.total : r.buf[i] = file[a + i]
        /\ r.total # 0 => exited /\ r.pos = Len(file)
     \/ closed /\ r.pos = Len(file) /\ r.pos < a /\ r.total = 0

Within(r, file, exited, a) ==
  /\ r.index # BUFFER /\ r.total = 0 /\ r.index <= a
  /\ \A i \in r.index + 1 .. BUFFER : a - r.index + i <= r.pos => r.buf[i] = file[a - r.index + i]
  /\ \/ r.pos = a - r.index + BUFFER
     \/ exited /\ r.pos = Len(file) /\ r.pos < a - r.index + BUFFER

AtBit(r, file, exited, closed, a) ==
  /\ r.pos <= Len(file)
  /\ r.pos \in Blocks \/ (closed /\ r.pos = Len(file))
  /\ Between(r, file, exited, closed, a) \/ Within(r, file, exited, a)

(* The bits of a pair that have been taken are of the file, as far as it goes. *)
Taken(bs, file, exited, a) ==
  /\ \A i \in 1 .. Len(bs) : a + i <= Len(file) => bs[i] = file[a + i]
  /\ Len(bs) = 0 \/ a + Len(bs) <= Len(file) \/ exited

(* The file grows, until it is closed. *)
Growing(r, bs, file, file2, exited2, closed2, a) ==
  /\ r \in Readers /\ a \in Nat /\ bs \in Seq(0 .. 1) /\ file \in Seq(0 .. 1) /\ file2 \in Seq(0 .. 1)
  /\ Extends(file2, file) /\ exited2 \in BOOLEAN /\ closed2 \in BOOLEAN
  /\ AtBit(r, file, FALSE, FALSE, a + Len(bs)) /\ Taken(bs, file, FALSE, a)
  /\ exited2 => closed2

Grew(r, bs, file2, exited2, closed2, a) ==
  AtBit(r, file2, exited2, closed2, a + Len(bs)) /\ Taken(bs, file2, exited2, a)

(* A reader of a file that is being written stays where it is when the file *)
(* grows, and when it is closed.                                            *)
LEMMA ReaderKept ==
  ASSUME NEW r, NEW bs, NEW file, NEW file2, NEW exited2, NEW closed2, NEW a,
         Growing(r, bs, file, file2, exited2, closed2, a)
  PROVE  Grew(r, bs, file2, exited2, closed2, a)
<1> SUFFICES ASSUME r \in Readers, a \in Nat, bs \in Seq(0 .. 1), file \in Seq(0 .. 1), file2 \in Seq(0 .. 1),
                    Extends(file2, file), exited2 \in BOOLEAN, closed2 \in BOOLEAN,
                    AtBit(r, file, FALSE, FALSE, a + Len(bs)), Taken(bs, file, FALSE, a), exited2 => closed2
             PROVE  Grew(r, bs, file2, exited2, closed2, a)
  BY DEF Growing
<1>1. PICK b \in [1 .. BUFFER -> 0 .. 1], x \in 0 .. BUFFER, p \in Nat, t \in Nat :
        r.buf = b /\ r.index = x /\ r.pos = p /\ r.total = t
  BY DEF Readers
<1>2. PICK n \in Nat, n2 \in Nat, c \in Nat, k \in Nat :
        n = Len(file) /\ n2 = Len(file2) /\ c = a + Len(bs) /\ k = Len(bs)
  OBVIOUS
<1>3. p <= n /\ n <= n2 /\ p \in Blocks /\ \A i \in 1 .. n : file2[i] = file[i]
  BY <1>1, <1>2 DEF AtBit, Extends
<1>4. BUFFER \in Nat
  BY Widths
<1>5. ASSUME Between(r, file, FALSE, FALSE, c) PROVE AtBit(r, file2, exited2, closed2, c)
  <2>1. x = BUFFER /\ c = p - t /\ t < BUFFER /\ t = 0
    BY <1>1, <1>5 DEF Between
  <2>2. Between(r, file2, exited2, closed2, c)
    BY <1>1, <1>2, <1>4, <2>1 DEF Between
  <2> QED BY <1>1, <1>2, <1>3, <2>2 DEF AtBit
<1>6. ASSUME Within(r, file, FALSE, c) PROVE AtBit(r, file2, exited2, closed2, c)
  <2>1. /\ x # BUFFER /\ t = 0 /\ x <= c /\ p = c - x + BUFFER
        /\ \A i \in x + 1 .. BUFFER : c - x + i <= p => b[i] = file[c - x + i]
    BY <1>1, <1>6 DEF Within
  <2>2. ASSUME NEW i \in x + 1 .. BUFFER PROVE b[i] = file2[c - x + i]
    <3> DEFINE j == c - x + i
    <3>1. j \in 1 .. n /\ j <= p
      BY <1>1, <1>2, <1>3, <1>4, <2>1
    <3>2. b[i] = file[j]
      BY <2>1, <3>1
    <3> HIDE DEF j
    <3>3. b[i] = file2[j]
      BY <1>3, <3>1, <3>2
    <3> QED BY <3>3 DEF j
  <2>3. Within(r, file2, exited2, c)
    BY <1>1, <2>1, <2>2 DEF Within
  <2> QED BY <1>1, <1>2, <1>3, <2>3 DEF AtBit
<1>7. AtBit(r, file2, exited2, closed2, a + Len(bs))
  BY <1>2, <1>5, <1>6 DEF AtBit
<1>8. Taken(bs, file2, exited2, a)
  <2>1. /\ \A i \in 1 .. k : a + i <= n => bs[i] = file[a + i]
        /\ k = 0 \/ a + k <= n
    BY <1>2 DEF Taken
  <2>2. ASSUME NEW i \in 1 .. k PROVE bs[i] = file2[a + i]
    <3> DEFINE j == a + i
    <3>1. j \in 1 .. n
      BY <1>2, <2>1
    <3>2. bs[i] = file[j]
      BY <2>1, <3>1
    <3> HIDE DEF j
    <3>3. bs[i] = file2[j]
      BY <1>3, <3>1, <3>2
    <3> QED BY <3>3 DEF j
  <2> QED BY <1>2, <1>3, <2>1, <2>2 DEF Taken
<1> QED BY <1>7, <1>8 DEF Grew

(* A read of read_bytes, and when it has what it wants. *)
Refilling(r, a, file, exited, closed, q) ==
  /\ r \in Readers /\ a \in Nat /\ exited \in BOOLEAN /\ closed \in BOOLEAN
  /\ Grown(file, exited) /\ (exited => closed) /\ AtBit(r, file, exited, closed, a) /\ r.index = BUFFER
  /\ Len(file) - r.pos > 0 \/ closed
  /\ q = ReadOnce(r, file)

IsRead(r, a, file, exited, closed, q) ==
  /\ q \in Readers /\ q.total <= BUFFER
  /\ q.pos = r.pos \/ q.pos > r.pos
  /\ q.pos = r.pos => r.pos = Len(file)
  /\ q.total < BUFFER /\ q.pos > r.pos => AtBit(q, file, exited, closed, a)
  /\ q.total = BUFFER \/ q.pos = r.pos =>
       /\ Filled(q) \in Readers
       /\ exited \/ q.total # 0 => AtBit(Filled(q), file, exited, closed, a)

(* One read of read_bytes: the buffer is never run over, and filled or      *)
(* short it has the bits that follow. Only a reader that got nothing from a *)
(* killed encoder has the block of before.                                  *)
LEMMA ReadMore ==
  ASSUME NEW r, NEW a, NEW file, NEW exited, NEW closed, NEW q, Refilling(r, a, file, exited, closed, q)
  PROVE  IsRead(r, a, file, exited, closed, q)
<1> SUFFICES ASSUME r \in Readers, a \in Nat, exited \in BOOLEAN, closed \in BOOLEAN,
                    Grown(file, exited), exited => closed, AtBit(r, file, exited, closed, a), r.index = BUFFER,
                    Len(file) - r.pos > 0 \/ closed, q = ReadOnce(r, file)
             PROVE  IsRead(r, a, file, exited, closed, q)
  BY DEF Refilling
<1>0. BUFFER \in Nat /\ BUFFER > 0
  BY Widths
<1>1. PICK b \in [1 .. BUFFER -> 0 .. 1], p \in Nat, t \in Nat :
        r = [buf |-> b, index |-> BUFFER, pos |-> p, total |-> t]
  BY DEF Readers
<1>2. r.buf = b /\ r.index = BUFFER /\ r.pos = p /\ r.total = t
  BY <1>1
<1>3. PICK l \in Nat : l = Len(file) /\ p <= l /\ (p \in Blocks \/ (closed /\ p = l))
  BY <1>2 DEF AtBit, Grown
<1>4. Len(b) = BUFFER /\ DOMAIN b = 1 .. BUFFER
  BY <1>0, <1>1
<1>5. PICK n \in 0 .. BUFFER : n = Smaller(BUFFER, l - p) /\ n <= l - p /\ (n < BUFFER => n = l - p)
  <2>1. l - p \in Nat
    BY <1>1, <1>3
  <2>2. CASE BUFFER < l - p
    BY <1>0, <2>1, <2>2 DEF Smaller
  <2>3. CASE ~(BUFFER < l - p)
    BY <1>0, <2>1, <2>3 DEF Smaller
  <2> QED BY <2>2, <2>3
<1> DEFINE v == [i \in 1 .. BUFFER |-> IF i - t \in 1 .. n THEN file[p + i - t] ELSE b[i]]
<1>6. q = [buf |-> v, index |-> BUFFER, pos |-> p + n, total |-> t + n]
  <2>1. Smaller(Len(r.buf), Available(r, file)) = n
    BY <1>2, <1>3, <1>4, <1>5 DEF Available
  <2> QED BY <1>1, <1>2, <1>4, <2>1 DEF ReadOnce
<1>7. v \in [1 .. BUFFER -> 0 .. 1]
  <2> SUFFICES ASSUME NEW i \in 1 .. BUFFER PROVE (IF i - t \in 1 .. n THEN file[p + i - t] ELSE b[i]) \in 0 .. 1
    OBVIOUS
  <2>1. CASE i - t \in 1 .. n
    <3> DEFINE j == p + i - t
    <3>1. j \in 1 .. l
      BY <1>0, <1>1, <1>3, <1>5, <2>1
    <3> HIDE DEF j
    <3>2. file[j] \in 0 .. 1
      BY <1>3, <3>1 DEF Grown
    <3> QED BY <2>1, <3>2 DEF j
  <2>2. CASE ~(i - t \in 1 .. n)
    BY <1>1, <2>2
  <2> QED BY <2>1, <2>2
<1>8. t = 0 => \A i \in 1 .. n : v[i] = file[p + i]
  <2> SUFFICES ASSUME t = 0, NEW i \in 1 .. n PROVE v[i] = file[p + i]
    OBVIOUS
  <2>1. i \in 1 .. BUFFER /\ i - t \in 1 .. n /\ p + i - t = p + i
    BY <1>0, <1>1, <1>5
  <2> QED BY <2>1
<1>9. n = 0 => v = b
  <2> SUFFICES ASSUME n = 0 PROVE \A i \in 1 .. BUFFER : v[i] = b[i]
    BY <1>1
  <2>1. \A i \in 1 .. BUFFER : ~(i - t \in 1 .. n)
    BY <1>0, <1>1
  <2> QED BY <2>1
<1> HIDE DEF v
<1>10. q.buf = v /\ q.index = BUFFER /\ q.pos = p + n /\ q.total = t + n
  BY <1>6
<1>11. Filled(q) = [buf |-> v, index |-> 0, pos |-> p + n, total |-> 0]
  BY <1>10 DEF Filled
<1>12. q \in Readers /\ Filled(q) \in Readers
  BY <1>0, <1>1, <1>5, <1>6, <1>7, <1>11 DEF Readers
<1>13. Between(r, file, exited, closed, a)
  BY <1>2 DEF AtBit, Within
<1>14. /\ \/ /\ a = p - t /\ t < BUFFER /\ (\A i \in 1 .. t : b[i] = file[a + i])
             /\ t # 0 => exited /\ p = l
          \/ closed /\ p = l /\ p < a /\ t = 0
  BY <1>2, <1>3, <1>13 DEF Between
<1>15. t # 0 => n = 0
  BY <1>0, <1>1, <1>3, <1>5, <1>14
<1>16. t + n <= BUFFER
  BY <1>0, <1>1, <1>5, <1>14, <1>15
<1>17. ASSUME t + n < BUFFER, n > 0 PROVE AtBit(q, file, exited, closed, a)
  <2>1. t = 0 /\ n = l - p /\ p # l /\ a = p
    BY <1>0, <1>1, <1>3, <1>5, <1>14, <1>15, <1>17
  <2>2. p \in Blocks
    BY <1>3, <2>1
  <2>3. exited
    <3> SUFFICES ASSUME ~exited PROVE FALSE
      OBVIOUS
    <3>1. l = 0 \/ l \in Blocks
      BY <1>3 DEF Grown
    <3>2. l \in Blocks /\ p < l
      BY <1>1, <1>3, <2>1, <3>1
    <3>3. p + BUFFER <= l
      BY <2>2, <3>2, BlockLengths
    <3> QED BY <1>0, <1>1, <1>3, <1>5, <1>17, <2>1, <3>3
  <2>4. q.pos = l /\ q.total = n
    BY <1>1, <1>3, <1>5, <1>10, <2>1
  <2>5. \A i \in 1 .. n : v[i] = file[a + i]
    BY <1>8, <2>1
  <2>6. a = l - n
    BY <1>1, <1>3, <2>1
  <2>7. Between(q, file, exited, closed, a)
    BY <1>3, <1>10, <1>17, <2>1, <2>3, <2>4, <2>5, <2>6 DEF Between
  <2>8. q.pos <= Len(file) /\ q.pos = Len(file) /\ closed
    BY <1>3, <2>3, <2>4
  <2> QED BY <2>7, <2>8 DEF AtBit
<1>18. ASSUME t + n = BUFFER \/ n = 0, exited \/ t + n # 0 PROVE AtBit(Filled(q), file, exited, closed, a)
  <2> DEFINE f == Filled(q)
  <2>1. f.buf = v /\ f.index = 0 /\ f.pos = p + n /\ f.total = 0
    BY <1>11
  <2> HIDE DEF f
  <2>2. CASE n = 0
    <3>1. p = l
      BY <1>0, <1>1, <1>3, <1>5, <2>2
    <3>2. exited /\ closed /\ v = b
      BY <1>1, <1>9, <1>14, <1>18, <2>2
    <3>3. f.pos = p
      BY <1>1, <2>1, <2>2
    <3>4. CASE a = p - t /\ t < BUFFER /\ \A i \in 1 .. t : b[i] = file[a + i]
      <4>1. \A i \in 1 .. BUFFER : a - 0 + i = a + i /\ (a + i <= p => i \in 1 .. t)
        BY <1>0, <1>1, <3>4
      <4>2. \A i \in 0 + 1 .. BUFFER : a - 0 + i <= p => v[i] = file[a - 0 + i]
        BY <3>2, <3>4, <4>1
      <4>3. p < a - 0 + BUFFER /\ 0 # BUFFER /\ 0 <= a
        BY <1>0, <1>1, <3>4
      <4>4. Within(f, file, exited, a)
        BY <1>3, <2>1, <3>1, <3>2, <3>3, <4>2, <4>3 DEF Within
      <4> QED BY <1>3, <3>1, <3>2, <3>3, <4>4 DEF AtBit, f
    <3>5. CASE p < a
      <4>1. \A i \in 0 + 1 .. BUFFER : ~(a - 0 + i <= p)
        BY <1>0, <1>1, <3>5
      <4>2. p < a - 0 + BUFFER /\ 0 # BUFFER /\ 0 <= a
        BY <1>0, <1>1, <3>5
      <4>3. Within(f, file, exited, a)
        BY <1>3, <2>1, <3>1, <3>2, <3>3, <4>1, <4>2 DEF Within
      <4> QED BY <1>3, <3>1, <3>2, <3>3, <4>3 DEF AtBit, f
    <3> QED BY <1>14, <3>4, <3>5
  <2>3. CASE n # 0
    <3>1. t = 0 /\ n = BUFFER /\ p # l /\ a = p
      BY <1>0, <1>1, <1>3, <1>5, <1>14, <1>15, <1>18, <2>3
    <3>2. p \in Blocks /\ p + BUFFER \in Blocks /\ p + BUFFER <= l
      BY <1>1, <1>3, <1>5, <3>1, BlockLengths
    <3>3. \A i \in 1 .. BUFFER : v[i] = file[p + i]
      BY <1>8, <3>1
    <3>4. \A i \in 0 + 1 .. BUFFER : v[i] = file[a - 0 + i]
      <4>1. \A i \in 1 .. BUFFER : a - 0 + i = p + i
        BY <3>1
      <4> QED BY <3>3, <4>1
    <3>5. p + BUFFER = a - 0 + BUFFER /\ 0 # BUFFER /\ 0 <= a
      BY <1>0, <1>1, <3>1
    <3>6. f.pos = p + BUFFER
      BY <2>1, <3>1
    <3>7. Within(f, file, exited, a)
      BY <2>1, <3>4, <3>5, <3>6 DEF Within
    <3>8. f.pos <= Len(file) /\ f.pos \in Blocks
      BY <1>3, <3>2, <3>6
    <3> QED BY <3>7, <3>8 DEF AtBit, f
  <2> QED BY <2>2, <2>3 DEF f
<1>19. (q.pos > r.pos => n > 0) /\ (q.pos = r.pos => n = 0) /\ (q.pos = r.pos \/ q.pos > r.pos)
  BY <1>1, <1>2, <1>5, <1>10
<1>20. q.pos = r.pos => r.pos = Len(file)
  BY <1>0, <1>1, <1>2, <1>3, <1>5, <1>19
<1> QED BY <1>10, <1>12, <1>16, <1>17, <1>18, <1>19, <1>20 DEF IsRead

(* The loops of read_pair take bits from the buffer. *)
IsTaken(file, exited, closed, width, base, t) ==
  /\ t.reader \in Readers /\ t.bits \in Seq(0 .. 1) /\ Len(t.bits) <= width
  /\ AtBit(t.reader, file, exited, closed, base + Len(t.bits)) /\ Taken(t.bits, file, exited, base)

Taking(r, base, bs, file, exited, closed, width, t) ==
  /\ r \in Readers /\ base \in Nat /\ bs \in Seq(0 .. 1) /\ width \in Nat /\ Len(bs) < width
  /\ exited \in BOOLEAN /\ closed \in BOOLEAN /\ Grown(file, exited) /\ (exited => closed)
  /\ AtBit(r, file, exited, closed, base + Len(bs)) /\ Taken(bs, file, exited, base) /\ r.index # BUFFER
  /\ t = TakeBits(r, bs, width)

(* What read_pair takes from the buffer are the next bits of the pair. *)
LEMMA TakeMore ==
  ASSUME NEW r, NEW base, NEW bs, NEW file, NEW exited, NEW closed, NEW width, NEW t,
         Taking(r, base, bs, file, exited, closed, width, t)
  PROVE  IsTaken(file, exited, closed, width, base, t)
<1> SUFFICES ASSUME r \in Readers, base \in Nat, bs \in Seq(0 .. 1), width \in Nat, Len(bs) < width,
                    exited \in BOOLEAN, closed \in BOOLEAN, Grown(file, exited), exited => closed,
                    AtBit(r, file, exited, closed, base + Len(bs)), Taken(bs, file, exited, base), r.index # BUFFER,
                    t = TakeBits(r, bs, width)
             PROVE  IsTaken(file, exited, closed, width, base, t)
  BY DEF Taking
<1>0. BUFFER \in Nat /\ BUFFER > 0
  BY Widths
<1>1. PICK b \in [1 .. BUFFER -> 0 .. 1], x \in 0 .. BUFFER, p \in Nat, y \in Nat :
        r = [buf |-> b, index |-> x, pos |-> p, total |-> y]
  BY DEF Readers
<1>2. r.buf = b /\ r.index = x /\ r.pos = p /\ r.total = y /\ x # BUFFER
  BY <1>1
<1>3. PICK l \in Nat : l = Len(file) /\ p <= l /\ (p \in Blocks \/ (closed /\ p = l))
  BY <1>2 DEF AtBit, Grown
<1>4. b \in Seq(0 .. 1) /\ Len(b) = BUFFER
  BY <1>0, <1>1
<1>5. PICK k \in Nat, a \in Nat : k = Len(bs) /\ a = base + k
  OBVIOUS
<1>a. x \in Nat /\ x < BUFFER
  BY <1>0, <1>1, <1>2
<1>b. PICK d \in Nat, e \in Nat : d = width - k /\ e = BUFFER - x /\ d > 0 /\ e > 0
  BY <1>0, <1>5, <1>a
<1>6. PICK n \in Nat : n = Smaller(d, e) /\ n > 0 /\ n <= d /\ n <= e
  BY <1>b DEF Smaller
<1>c. n <= BUFFER - x /\ k + n <= width /\ x + n \in Nat /\ x + n <= BUFFER /\ k + n \in Nat
  BY <1>0, <1>5, <1>6, <1>a, <1>b
<1>d. x \in Nat /\ n \in Nat /\ n > 0 /\ x + n <= BUFFER
  BY <1>6, <1>a, <1>c
<1>e. p \in Nat /\ a \in Nat
  BY <1>1, <1>5
<1> DEFINE part == SubSeq(b, x + 1, x + n)
           all == bs \o part
<1>7. t.reader = [buf |-> b, index |-> x + n, pos |-> p, total |-> y] /\ t.bits = all
  <2>1. Smaller(width - Len(bs), Len(r.buf) - r.index) = n
    BY <1>2, <1>4, <1>5, <1>6, <1>b
  <2>2. PICK z : z = x + n
    OBVIOUS
  <2>3. PICK u, v : u = [r EXCEPT !.index = z] /\ v = bs \o SubSeq(r.buf, x + 1, z)
    OBVIOUS
  <2>4. t = [reader |-> u, bits |-> v]
    BY <1>2, <2>1, <2>2, <2>3 DEF TakeBits
  <2>5. u = [buf |-> b, index |-> z, pos |-> p, total |-> y]
    BY <1>1, <2>3
  <2>6. t.reader = u /\ t.bits = v
    BY <2>4
  <2>7. t.reader = [buf |-> b, index |-> z, pos |-> p, total |-> y] /\ t.bits = bs \o SubSeq(b, x + 1, z)
    BY <1>2, <2>3, <2>5, <2>6
  <2> QED BY <2>2, <2>7
<1>8. part \in Seq(0 .. 1) /\ Len(part) = n /\ \A i \in 1 .. n : part[i] = b[x + i]
  BY <1>0, <1>4, <1>d
<1> HIDE DEF part
<1>9. all \in Seq(0 .. 1) /\ Len(all) = k + n /\ \A i \in 1 .. k + n : all[i] = IF i <= k THEN bs[i] ELSE part[i - k]
  <2>1. IsJoined(0 .. 1, bs, part, all)
    BY <1>8, Joins
  <2> HIDE DEF all
  <2> QED BY <1>5, <1>8, <2>1 DEF IsJoined
<1> HIDE DEF all
<1> DEFINE q == t.reader
<1>10. q.buf = b /\ q.index = x + n /\ q.pos = p /\ q.total = y
  BY <1>7
<1>11. q \in Readers
  <2>1. x + n \in 0 .. BUFFER
    BY <1>0, <1>6, <1>a, <1>c
  <2> QED BY <1>1, <1>7, <2>1 DEF Readers
<1> HIDE DEF q
<1>12. Within(r, file, exited, a)
  BY <1>2, <1>5 DEF AtBit, Between
<1>13. /\ y = 0 /\ x <= a
       /\ \A i \in x + 1 .. BUFFER : a - x + i <= p => b[i] = file[a - x + i]
       /\ \/ p = a - x + BUFFER
          \/ exited /\ p = l /\ p < a - x + BUFFER
  BY <1>2, <1>3, <1>12 DEF Within
<1>14. PICK c \in Nat : c = a + n /\ c = base + Len(all)
  <2>1. Len(all) = k + n /\ k \in Nat /\ a = base + k /\ n \in Nat
    BY <1>5, <1>6, <1>9
  <2> QED BY <2>1
<1>15. Between(q, file, exited, closed, c) \/ Within(q, file, exited, c)
  <2>1. CASE x + n = BUFFER
    <3>1. CASE p = a - x + BUFFER
      <4>1. c = p - 0 /\ 0 < BUFFER /\ 0 \in Nat
        BY <1>0, <1>1, <1>14, <2>1, <3>1
      <4>2. \A i \in 1 .. 0 : b[i] = file[c + i]
        OBVIOUS
      <4> QED BY <1>10, <1>13, <2>1, <4>1, <4>2 DEF Between
    <3>2. CASE exited /\ p = l /\ p < a - x + BUFFER
      <4>1. p < c /\ closed
        BY <1>0, <1>d, <1>e, <1>14, <2>1, <3>2
      <4> QED BY <1>3, <1>10, <1>13, <2>1, <3>2, <4>1 DEF Between
    <3> QED BY <1>13, <3>1, <3>2
  <2>2. CASE x + n # BUFFER
    <3>1. c - (x + n) = a - x /\ x + n <= c
      <4>1. c = a + n /\ a \in Nat /\ n \in Nat /\ x \in Nat /\ x <= a
        BY <1>5, <1>6, <1>a, <1>13, <1>14
      <4>2. \A i, j, h \in Nat : i <= j => (j + h) - (i + h) = j - i /\ i + h <= j + h
        OBVIOUS
      <4> QED BY <4>1, <4>2
    <3>2. \A i \in (x + n) + 1 .. BUFFER : i \in x + 1 .. BUFFER
      BY <1>0, <1>6, <1>a
    <3> QED BY <1>3, <1>10, <1>13, <2>2, <3>1, <3>2 DEF Within
  <2> QED BY <2>1, <2>2
<1>16. AtBit(q, file, exited, closed, base + Len(t.bits))
  BY <1>3, <1>7, <1>10, <1>14, <1>15 DEF AtBit
<1>17. base + Len(all) <= l \/ exited
  <2>1. ASSUME p = a - x + BUFFER PROVE c <= l
    BY <1>0, <1>3, <1>d, <1>e, <1>14, <2>1
  <2> QED BY <1>13, <1>14, <2>1
<1>18. ASSUME NEW i \in 1 .. k + n, base + i <= l PROVE all[i] = file[base + i]
  <2>1. CASE i <= k
    <3>1. i \in 1 .. Len(bs) /\ base + i <= Len(file)
      BY <1>3, <1>5, <1>18, <2>1
    <3> QED BY <1>9, <2>1, <3>1 DEF Taken
  <2>2. CASE ~(i <= k)
    <3> DEFINE j == i - k
               h == x + j
    <3>1. j \in 1 .. n /\ h \in x + 1 .. BUFFER /\ a - x + h = base + i
      <4>1. i \in 1 .. k + n /\ k \in Nat /\ n \in Nat /\ a = base + k /\ x \in Nat
        BY <1>5, <1>6, <1>a
      <4>2. j \in 1 .. n
        BY <2>2, <4>1
      <4>3. h \in x + 1 .. BUFFER
        BY <1>0, <1>c, <4>1, <4>2
      <4> QED BY <4>1, <4>2, <4>3
    <3>2. all[i] = part[j]
      BY <1>9, <2>2
    <3>3. part[j] = b[h]
      BY <1>8, <3>1
    <3> HIDE DEF j, h
    <3>4. a - x + h <= p
      <4>1. CASE p = a - x + BUFFER
        <5>1. h \in Nat /\ h <= BUFFER /\ a - x \in Int
          BY <1>0, <1>a, <1>e, <3>1
        <5> QED BY <1>0, <4>1, <5>1
      <4>2. CASE p = l
        BY <1>18, <3>1, <4>2
      <4> QED BY <1>13, <4>1, <4>2
    <3>5. b[h] = file[a - x + h]
      BY <1>13, <3>1, <3>4
    <3> QED BY <3>1, <3>2, <3>3, <3>5
  <2> QED BY <2>1, <2>2
<1>19. Taken(t.bits, file, exited, base)
  BY <1>3, <1>7, <1>9, <1>17, <1>18 DEF Taken
<1> QED BY <1>5, <1>6, <1>c, <1>7, <1>9, <1>11, <1>16, <1>19 DEF IsTaken, q

----------------------------------------------------------------------------
(* The decoder's table. *)

(* What decode reads when it has the bits of a pair. *)
IsPairRead(m, s, d, bs, node, sym) ==
  /\ PairOf(bs, bitlen(CodeAt(m, d))) = [code |-> node, sym |-> sym]
  /\ WordAt(m, s, d + 1) = Append(Named(m, s, d, node), sym)

(* The bits of a pair of the stream are read as the code of its node and    *)
(* its symbol, when the code is no wider than a symbol.                     *)
LEMMA PairKnown ==
  ASSUME NEW m, NEW s, GoodMarks(m, s), NEW b, SentAll(m, s, b), NEW d \in 0 .. Len(m) - 1,
         NEW bs \in Seq(0 .. 1), Len(bs) = PairWidth(m, d), \A i \in 1 .. Len(bs) : bs[i] = b[BitsAt(m, d) + i],
         bitlen(CodeAt(m, d)) <= BITS
  PROVE  \E node \in Nodes(CodeAt(m, d)), sym \in Symbols : IsPairRead(m, s, d, bs, node, sym)
<1>1. d + 1 \in 1 .. Len(m) /\ (d + 1) - 1 = d /\ d \in 0 .. Len(m)
  BY DEF GoodMarks
<1>2. PICK node \in Nodes(CodeAt(m, d)), sym \in Symbols : PairIs(m, s, b, d + 1, node, sym)
  BY <1>1 DEF SentAll, SentPair
<1>3. PICK c : c = CodeAt(m, d)
  OBVIOUS
<1>4. c \in Codes /\ c \in Nat /\ c <= MAX_CODE /\ node \in Nat /\ node <= c
  <2>1. c \in Codes
    BY <1>1, <1>3, AtTypes
  <2>2. c \in Nat /\ node \in Nat /\ node < c
    BY <1>2, <1>3, <2>1, CodesNat
  <2> QED BY <2>1, <2>2, CodeWidth
<1> DEFINE p == PairBits(node, sym, c)
<1>5. p \in Seq(0 .. 1) /\ Len(p) = PairWidth(m, d)
  BY <1>2, <1>3, <1>4, PairBitsTyped DEF PairWidth
<1>6. \A i \in 1 .. PairWidth(m, d) : b[BitsAt(m, d) + i] = p[i]
  BY <1>1, <1>2, <1>3 DEF PairIs
<1> HIDE DEF p
<1>7. bs = p
  BY <1>5, <1>6, SeqEqual
<1>8. PairOf(p, bitlen(c)) = [code |-> node, sym |-> sym]
  <2>1. bitlen(c) <= BITS
    BY <1>3
  <2>2. PairOf(CodeBits(node, bitlen(c)) \o SymBits(sym), bitlen(c)) = [code |-> node, sym |-> sym]
    BY <1>2, <1>4, <2>1, PairRead
  <2> QED BY <2>2 DEF p, PairBits
<1>9. WordAt(m, s, d + 1) = Append(Named(m, s, d, node), sym)
  BY <1>1, <1>2 DEF PairIs
<1> QED BY <1>2, <1>3, <1>7, <1>8, <1>9 DEF IsPairRead

(* read_pair makes numbers of the bits: 0 of zeros, and not 1 when the      *)
(* first bit is 0.                                                          *)
LEMMA CodeRead ==
  ASSUME NEW bs \in Seq(0 .. 1), NEW w \in Nat, w + BITS = Len(bs)
  PROVE  /\ PairOf(bs, w).code \in Nat /\ PairOf(bs, w).sym \in Nat
         /\ (\A i \in 1 .. w : bs[i] = 0) => PairOf(bs, w).code = 0
         /\ w > 0 /\ bs[1] = 0 => PairOf(bs, w).code # 1
<1>0. BITS \in Nat /\ BITS > 0
  BY Widths
<1> DEFINE c == SubSeq(bs, 1, w)
           x == SubSeq(bs, w + 1, w + BITS)
<1>1. c \in Seq(0 .. 1) /\ Len(c) = w /\ \A i \in 1 .. w : c[i] = bs[i]
  BY <1>0
<1>2. x \in Seq(0 .. 1)
  <2>1. \A i \in w + 1 .. w + BITS : bs[i] \in 0 .. 1
    BY <1>0
  <2> QED BY <1>0, <2>1, SubSeqProperties
<1>3. PairOf(bs, w).code = ValueOf(c) /\ PairOf(bs, w).sym = ValueOf(x)
  BY DEF PairOf
<1> HIDE DEF c, x
<1>4. ValueOf(c) \in Nat /\ (Len(c) > 0 /\ c[1] = 0 => ValueOf(c) # 1) /\ ValueOf(x) \in Nat
  BY <1>1, <1>2, LowBitRead
<1>5. (\A i \in 1 .. w : bs[i] = 0) => ValueOf(c) = 0
  BY <1>1, ZerosRead
<1>6. w > 0 /\ bs[1] = 0 => Len(c) > 0 /\ c[1] = 0
  BY <1>1
<1> QED BY <1>3, <1>4, <1>5, <1>6

(* The dictionary of the next pair. *)
NextTable(t, code, word) == IF code + 1 = MAX_CODE THEN EmptyTable ELSE Extended(t, code, word)

(* AddWord leaves a word for each code below next_code. *)
LEMMA TableTyped ==
  ASSUME NEW code \in Codes, NEW t, DOMAIN t = Nodes(code), \A c \in DOMAIN t : t[c] \in Seq(Nat),
         NEW word \in Seq(Nat), NEW t2, t2 = NextTable(t, code, word)
  PROVE  DOMAIN t2 = Nodes(Succ(code)) /\ \A c \in DOMAIN t2 : t2[c] \in Seq(Nat)
<1>1. CASE code + 1 = MAX_CODE
  <2>1. t2 = EmptyTable /\ Succ(code) = START_CODE
    BY <1>1 DEF NextTable, Succ
  <2>2. Nodes(START_CODE) = {EMPTY_CODE}
    BY DEF Nodes, START_CODE, EMPTY_CODE
  <2> QED BY <2>1, <2>2 DEF EmptyTable
<1>2. CASE code + 1 # MAX_CODE
  <2>1. t2 = Extended(t, code, word) /\ Succ(code) = code + 1
    BY <1>2 DEF NextTable, Succ
  <2>2. Nodes(code + 1) = Nodes(code) \cup {code}
    BY DEF Nodes, Codes, START_CODE
  <2> QED BY <2>1, <2>2 DEF Extended
<1> QED BY <1>1, <1>2

(* AddWord leaves the words that the encoder's codes name after its next    *)
(* pair: dictionaries dropped at the same pair.                             *)
LEMMA TableRight ==
  ASSUME NEW m, NEW s, GoodMarks(m, s), NEW d \in 0 .. Len(m) - 1,
         NEW t, DOMAIN t = Nodes(CodeAt(m, d)), \A c \in DOMAIN t : t[c] = Named(m, s, d, c),
         NEW t2, t2 = NextTable(t, CodeAt(m, d), WordAt(m, s, d + 1))
  PROVE  \A c \in Nodes(CodeAt(m, d + 1)) : t2[c] = Named(m, s, d + 1, c)
<1>1. d + 1 \in 1 .. Len(m) /\ (d + 1) - 1 = d /\ d \in 0 .. Len(m) /\ d + 1 # 0
  BY DEF GoodMarks
<1>2. PICK k : k = CodeAt(m, d)
  OBVIOUS
<1>3. k \in Codes /\ k \in Nat /\ k > EMPTY_CODE
  <2>1. k \in Codes
    BY <1>1, <1>2, AtTypes
  <2> QED BY <2>1, CodesNat DEF Codes, START_CODE, EMPTY_CODE
<1>4. CASE k + 1 = MAX_CODE
  <2>1. t2 = EmptyTable
    BY <1>2, <1>4 DEF NextTable
  <2>2. CodeAt(m, d + 1) = START_CODE
    <3>1. m[d + 1].code = k
      BY <1>1, <1>2 DEF GoodMarks, GoodMark
    <3> QED BY <1>1, <1>4, <3>1 DEF CodeAt, Succ
  <2>3. Nodes(START_CODE) = {EMPTY_CODE}
    BY DEF Nodes, START_CODE, EMPTY_CODE
  <2> QED BY <2>1, <2>2, <2>3 DEF EmptyTable, Named
<1>5. CASE k + 1 # MAX_CODE
  <2>1. t2 = Extended(t, k, WordAt(m, s, d + 1))
    BY <1>2, <1>5 DEF NextTable
  <2>2. CodeAt(m, d) + 1 # MAX_CODE
    BY <1>2, <1>5
  <2>3. /\ CodeAt(m, d + 1) = CodeAt(m, d) + 1
        /\ \A c \in Nodes(CodeAt(m, d)) : Named(m, s, d + 1, c) = Named(m, s, d, c)
        /\ Named(m, s, d + 1, CodeAt(m, d)) = WordAt(m, s, d + 1)
    BY <2>2, NamedNext
  <2>4. Nodes(k + 1) = Nodes(k) \cup {k}
    BY <1>3 DEF Nodes, Codes, START_CODE
  <2>5. k \notin Nodes(k)
    BY <1>3 DEF Nodes, EMPTY_CODE
  <2> SUFFICES ASSUME NEW c \in Nodes(k) \cup {k} PROVE t2[c] = Named(m, s, d + 1, c)
    BY <1>2, <2>3, <2>4
  <2>6. CASE c = k
    BY <1>2, <2>1, <2>3, <2>6 DEF Extended
  <2>7. CASE c # k
    <3>1. c \in DOMAIN t /\ c \in Nodes(k)
      BY <1>2, <2>7
    <3>2. t2[c] = t[c]
      BY <2>1, <2>7, <3>1 DEF Extended
    <3>3. t[c] = Named(m, s, d, c)
      BY <3>1
    <3>4. Named(m, s, d + 1, c) = Named(m, s, d, c)
      BY <1>2, <2>3, <3>1
    <3> QED BY <3>2, <3>3, <3>4
  <2> QED BY <2>6, <2>7
<1> QED BY <1>4, <1>5

Restored(m, s, d) == SubSeq(s, 1, SymsAt(m, d))

(* What is restored after a pair more has its word at the end. *)
LEMMA RestoredMore ==
  ASSUME NEW m, NEW s, GoodMarks(m, s), NEW d \in 0 .. Len(m) - 1
  PROVE  Restored(m, s, d + 1) = Restored(m, s, d) \o WordAt(m, s, d + 1)
<1>1. d + 1 \in 1 .. Len(m) /\ (d + 1) - 1 = d /\ d \in 0 .. Len(m) /\ d + 1 # 0 /\ d + 1 \in 0 .. Len(m)
      /\ s \in Seq(Symbols)
  BY DEF GoodMarks
<1>2. PICK a \in Nat, b \in Nat : a = SymsAt(m, d) /\ b = SymsAt(m, d + 1) /\ a < b /\ b <= Len(s)
  <2>1. SymsAt(m, d) \in 0 .. Len(s) /\ SymsAt(m, d + 1) \in 0 .. Len(s) /\ Len(s) \in Nat
    BY <1>1, AtTypes
  <2>2. SymsAt(m, d) < SymsAt(m, d + 1)
    <3>1. GoodMark(m, Len(s), d + 1)
      BY <1>1 DEF GoodMarks
    <3> QED BY <1>1, <3>1 DEF GoodMark, SymsAt
  <2> QED BY <2>1, <2>2
<1> DEFINE u == SubSeq(s, 1, a)
           v == SubSeq(s, a + 1, b)
           w == SubSeq(s, 1, b)
           x == u \o v
<1>3. u \in Seq(Symbols) /\ Len(u) = a /\ \A i \in 1 .. a : u[i] = s[i]
  BY <1>1, <1>2
<1>4. v \in Seq(Symbols) /\ Len(v) = b - a /\ \A i \in 1 .. b - a : v[i] = s[a + i]
  BY <1>1, <1>2
<1>5. w \in Seq(Symbols) /\ Len(w) = b /\ \A i \in 1 .. b : w[i] = s[i]
  BY <1>1, <1>2
<1> HIDE DEF u, v, w
<1>6. x \in Seq(Symbols) /\ Len(x) = b /\ \A i \in 1 .. b : x[i] = IF i <= a THEN u[i] ELSE v[i - a]
  <2>1. a + (b - a) = b
    BY <1>2
  <2>2. /\ x \in Seq(Symbols) /\ Len(x) = Len(u) + Len(v)
        /\ \A i \in 1 .. Len(u) + Len(v) : x[i] = IF i <= Len(u) THEN u[i] ELSE v[i - Len(u)]
    <3>1. IsJoined(Symbols, u, v, x)
      BY <1>3, <1>4, Joins
    <3> QED BY <3>1 DEF IsJoined
  <2> HIDE DEF x
  <2>3. Len(u) = a /\ Len(u) + Len(v) = b
    BY <1>3, <1>4, <2>1
  <2> QED BY <2>2, <2>3
<1> HIDE DEF x
<1>7. ASSUME NEW i \in 1 .. b PROVE w[i] = x[i]
  <2>1. CASE i <= a
    BY <1>2, <1>3, <1>5, <1>6, <2>1
  <2>2. CASE ~(i <= a)
    <3> DEFINE j == i - a
    <3>1. j \in 1 .. b - a /\ a + j = i
      BY <1>2, <2>2
    <3>2. x[i] = v[j]
      BY <1>6, <2>2
    <3> HIDE DEF j
    <3> QED BY <1>4, <1>5, <3>1, <3>2
  <2> QED BY <2>1, <2>2
<1>8. w = x
  BY <1>5, <1>6, <1>7, SeqEqual
<1> QED BY <1>1, <1>2, <1>8 DEF u, v, w, x, Restored, WordAt

(* What has been restored stays when the encoder goes on. *)
LEMMA RestoredKept ==
  ASSUME NEW m, NEW s, GoodMarks(m, s), NEW m2, Extends(m2, m), NEW s2 \in Seq(Symbols), Extends(s2, s),
         NEW d \in 0 .. Len(m)
  PROVE  Restored(m2, s2, d) = Restored(m, s, d)
<1>1. SymsAt(m2, d) = SymsAt(m, d) /\ SymsAt(m, d) \in 0 .. Len(s) /\ s \in Seq(Symbols)
  BY AtKept, AtTypes DEF GoodMarks
<1>2. PICK n \in 0 .. Len(s) : n = SymsAt(m, d)
  BY <1>1
<1>3. 0 \in Nat
  OBVIOUS
<1>4. SubSeq(s2, 0 + 1, n) = SubSeq(s, 0 + 1, n)
  BY <1>1, <1>3, SubSeqKept
<1> QED BY <1>1, <1>2, <1>4 DEF Restored

----------------------------------------------------------------------------
(* The invariant. *)

EncodeStates == {"header", "run", "flush", "exited", "killed"}
DecodeStates == {"header", "run", "done", "crashed", "overrun"}

Types ==
  /\ pc \in [Programs -> EncodeStates \cup DecodeStates]
  /\ pc["encode"] \in EncodeStates /\ pc["decode"] \in DecodeStates
  /\ next_code \in [Programs -> Codes] /\ total_bits \in [Programs -> Nat]
  /\ input \in Seq(Symbols) /\ source \in Sources(input) /\ end \in -1 .. BLOCK
  /\ packed \in Packers
  /\ pairs \in Readers /\ bits \in Seq(0 .. 1)
  /\ words \in Writers(Nat) /\ Len(words.buf) <= BLOCK
  /\ DOMAIN table = Nodes(next_code["decode"]) /\ \A c \in DOMAIN table : table[c] \in Seq(Nat)
  /\ stale \in Seq(Nat)

Stream == Whole(packed)
LastBit == BitsAt(marks, Len(marks))
LastCode == CodeAt(marks, Len(marks))

(* The bits up to which a STOP pair, all zeros, surely goes. *)
StopAt == LastBit + (IF LastPairFillsDictionary THEN 0 ELSE bitlen(LastCode))

(* The pairs name all that was taken, and that is all there is. *)
Complete ==
  /\ SymsAt(marks, Len(marks)) = Len(consumed)
  /\ Mistaken(input) \/ consumed = input
  /\ LastPairFillsDictionary => LastCode = START_CODE

Sent ==
  /\ GoodMarks(marks, consumed)
  /\ SentAll(marks, consumed, Stream)
  /\ Ended(marks, Stream)

Active == pc["encode"] \in {"header", "run"}

Dictionary ==
  Active => /\ next_code["encode"] = LastCode
            /\ Walking(marks, consumed, trie, curr_node, prev_node, prev_sym)
            /\ Reading(source, input, end, consumed)

Written ==
  /\ pc["encode"] = "header" => packed = NewWriter /\ marks = << >> /\ total_bits["encode"] = 0
  /\ pc["encode"] = "run" => Packing(marks, consumed, packed) /\ total_bits["encode"] = LastBit
  /\ pc["encode"] = "flush" => Len(packed.file) \in Blocks /\ StopAt + BITS <= Len(Stream) /\ Complete
  /\ pc["encode"] = "exited" => Stream = packed.file /\ StopAt < Len(Stream) /\ Complete
  /\ pc["encode"] = "killed" =>
       \/ packed = NewWriter /\ marks = << >>
       \/ /\ Len(packed.file) \in Blocks /\ LastBit <= Len(Stream)
          /\ LastBit < Len(Stream) => Complete

Encoding == Sent /\ Dictionary /\ Written

Exited == pc["encode"] = "exited"

(* decode is in the middle of the pair after d pairs. *)
Framing(d) ==
  /\ total_bits["decode"] = BitsAt(marks, d)
  /\ next_code["decode"] = CodeAt(marks, d)
  /\ Len(bits) <= Width("decode")
  /\ AtBit(pairs, packed.file, Exited, Closed, BitsAt(marks, d) + Len(bits))
  /\ Taken(bits, packed.file, Exited, BitsAt(marks, d))

Content(d) ==
  /\ Whole(words) = Restored(marks, consumed, d)
  /\ pc["decode"] \in {"header", "run"} => \A c \in DOMAIN table : table[c] = Named(marks, consumed, d, c)

Decoding(d) ==
  /\ pc["decode"] = "header" => /\ d = 0 /\ bits = << >> /\ pairs = NewPipeReader(BUFFER)
                                /\ next_code["decode"] = START_CODE /\ total_bits["decode"] = 0
  /\ pc["decode"] = "run" => Framing(d)
  /\ pc["decode"] # "overrun"
  /\ Narrow =>
       /\ Content(d)
       /\ pc["decode"] = "done" => ~Active /\ output = consumed /\ (Mistaken(input) \/ consumed = input)
       /\ pc["decode"] = "crashed" => ~Active /\ LastPairFillsDictionary

(* encode was killed and decode goes on with an old block: there is nothing *)
(* more to read, and its output still begins with what came before that.    *)
Astray ==
  /\ pc["encode"] = "killed" /\ pc["decode"] \in {"run", "done", "crashed"}
  /\ pairs.pos = Len(packed.file) /\ pairs.total = 0
  /\ stale[1] \in 0 .. Len(Whole(words))
  /\ Narrow => \E n \in 0 .. Len(consumed) : SubSeq(Whole(words), 1, stale[1]) = SubSeq(consumed, 1, n)

Decoder == IF stale = << >> THEN \E d \in 0 .. Len(marks) : Decoding(d) ELSE Astray

Inv == Types /\ Encoding /\ Decoder

(* What is written when nothing is. *)
LEMMA Nothing ==
  /\ NewWriter \in Packers /\ NewWriter \in Writers(Nat) /\ Whole(NewWriter) = << >>
  /\ NewWriter.file = << >> /\ NewWriter.buf = << >>
  /\ GoodMarks(<< >>, << >>) /\ START_CODE \in Codes
  /\ NewPipeReader(BUFFER) \in Readers
  /\ NewPipeReader(BUFFER).index = BUFFER /\ NewPipeReader(BUFFER).pos = 0 /\ NewPipeReader(BUFFER).total = 0
<1>1. BUFFER \in Nat /\ BUFFER > 0
  BY Widths
<1>2. NewWriter.file = << >> /\ NewWriter.buf = << >>
  BY DEF NewWriter
<1>3. Whole(NewWriter) = << >>
  <2>1. << >> \o << >> = << >>
    OBVIOUS
  <2> QED BY <1>2, <2>1 DEF Whole
<1>4. NewWriter \in Writers(0 .. 1) /\ NewWriter \in Writers(Nat)
  BY DEF NewWriter, Writers
<1>5. NewWriter \in Packers
  <2>1. Len(NewWriter.buf) = 0
    BY <1>2
  <2> QED BY <1>1, <1>4, <2>1 DEF Packers
<1>6. GoodMarks(<< >>, << >>)
  BY DEF GoodMarks
<1>7. START_CODE \in Codes
  BY LZ78Assumption DEF Codes, START_CODE
<1>8. Zeros(BUFFER) \in [1 .. BUFFER -> 0 .. 1]
  BY DEF Zeros
<1>9. PICK z \in [1 .. BUFFER -> 0 .. 1] : NewPipeReader(BUFFER) = [buf |-> z, index |-> BUFFER, pos |-> 0, total |-> 0]
  BY <1>8 DEF NewPipeReader
<1>10. NewPipeReader(BUFFER) \in Readers
  BY <1>1, <1>9 DEF Readers
<1> QED BY <1>2, <1>3, <1>4, <1>5, <1>6, <1>7, <1>9, <1>10

(* The invariant holds at the start. *)
LEMMA Initially == Init => Inv
<1> SUFFICES ASSUME Init PROVE Inv
  OBVIOUS
<1> USE DEF Init
<1>1. /\ pc = [p \in Programs |-> "header"] /\ next_code = [p \in Programs |-> START_CODE]
      /\ total_bits = [p \in Programs |-> 0]
  OBVIOUS
<1>2. /\ pc["encode"] = "header" /\ pc["decode"] = "header" /\ next_code["encode"] = START_CODE
      /\ next_code["decode"] = START_CODE /\ total_bits["encode"] = 0 /\ total_bits["decode"] = 0
  BY <1>1 DEF Programs
<1>3. input \in Seq(Symbols)
  BY InputsAssumption
<1>4. NewReader(BLOCK) \in Sources(input)
  <2>1. BLOCK \in Nat /\ BLOCK > 1
    BY LZ78Assumption
  <2>2. 0 \in Symbols
    BY StopBits, LZ78Assumption
  <2>3. Zeros(BLOCK) \in [1 .. BLOCK -> Symbols]
    BY <2>2 DEF Zeros
  <2>4. PICK z \in [1 .. BLOCK -> Symbols] : NewReader(BLOCK) = [buf |-> z, index |-> 0, pos |-> 0]
    BY <2>3 DEF NewReader
  <2>5. 0 \in 0 .. BLOCK - 1 /\ 0 \in 0 .. Len(input)
    BY <1>3, <2>1
  <2> QED BY <2>4, <2>5 DEF Sources
<1>5. Types
  <2>1. pc \in [Programs -> EncodeStates \cup DecodeStates]
    BY <1>1 DEF EncodeStates
  <2>2. pc["encode"] \in EncodeStates /\ pc["decode"] \in DecodeStates
    BY <1>2 DEF EncodeStates, DecodeStates
  <2>3. next_code \in [Programs -> Codes] /\ total_bits \in [Programs -> Nat]
    BY <1>1, Nothing
  <2>4. end \in -1 .. BLOCK
    BY LZ78Assumption
  <2>5. bits \in Seq(0 .. 1) /\ Len(words.buf) <= BLOCK
    BY Nothing, LZ78Assumption
  <2>6. Nodes(START_CODE) = {EMPTY_CODE}
    BY DEF Nodes, START_CODE, EMPTY_CODE
  <2>7. DOMAIN table = Nodes(next_code["decode"]) /\ \A c \in DOMAIN table : table[c] \in Seq(Nat)
    BY <1>2, <2>6 DEF EmptyTable
  <2>8. stale \in Seq(Nat)
    OBVIOUS
  <2> QED BY <1>3, <1>4, <2>1, <2>2, <2>3, <2>4, <2>5, <2>7, <2>8, Nothing DEF Types
<1>6. Len(marks) = 0 /\ Len(consumed) = 0
  OBVIOUS
<1>7. BitsAt(marks, 0) = HEADER /\ SymsAt(marks, 0) = 0 /\ CodeAt(marks, 0) = START_CODE
  BY DEF BitsAt, SymsAt, CodeAt
<1>8. Sent
  <2>1. Stream = << >> /\ GoodMarks(marks, consumed)
    BY Nothing DEF Stream
  <2>2. SentAll(marks, consumed, Stream)
    BY <1>6 DEF SentAll
  <2>3. Ended(marks, Stream)
    BY <2>1 DEF Ended
  <2> QED BY <2>1, <2>2, <2>3 DEF Sent
<1>9. Dictionary
  <2>1. GoodTrie(marks, consumed, trie)
    BY DEF GoodTrie, NoEdges
  <2>2. EMPTY_CODE \in Nodes(CodeAt(marks, Len(marks)))
    BY DEF Nodes
  <2>3. Named(marks, consumed, Len(marks), EMPTY_CODE) = Since(marks, consumed)
    BY <1>6, <1>7 DEF Named, Since
  <2>4. Walking(marks, consumed, trie, curr_node, prev_node, prev_sym)
    BY <2>1, <2>2, <2>3 DEF Walking
  <2>5. Reading(source, input, end, consumed)
    <3>1. Extends(input, consumed)
      BY <1>3, <1>6 DEF Extends
    <3>2. BLOCK * 0 = 0
      BY LZ78Assumption
    <3>3. source.index = 0 /\ source.pos = 0 /\ 0 \in {BLOCK * j : j \in Nat}
      BY <3>2 DEF NewReader
    <3>4. InBlocks(source, input, consumed)
      BY <1>6, <3>3 DEF InBlocks
    <3> QED BY <3>1, <3>4 DEF Reading
  <2> QED BY <1>2, <1>6, <1>7, <2>4, <2>5 DEF Dictionary, LastCode
<1>10. Written
  BY <1>2 DEF Written
<1>11. Decoding(0)
  <2>1. Content(0)
    <3>1. Whole(words) = << >>
      BY Nothing
    <3>2. Restored(marks, consumed, 0) = << >>
      BY <1>7 DEF Restored
    <3>3. \A c \in DOMAIN table : table[c] = Named(marks, consumed, 0, c)
      BY DEF EmptyTable, Named
    <3> QED BY <3>1, <3>2, <3>3 DEF Content
  <2> QED BY <1>2, <2>1 DEF Decoding
<1>12. Decoder
  BY <1>6, <1>11 DEF Decoder
<1> QED BY <1>5, <1>8, <1>9, <1>10, <1>12 DEF Inv, Encoding

----------------------------------------------------------------------------
(* The encoder's steps. *)

(* The encoder adds to what it has done, until it is closed. *)
Adding ==
  /\ input' = input /\ decoder' = decoder
  /\ pc'["decode"] = pc["decode"] /\ next_code'["decode"] = next_code["decode"]
  /\ total_bits'["decode"] = total_bits["decode"]
  /\ ~Closed
  /\ packed'.file \in Seq(0 .. 1) /\ Extends(packed'.file, packed.file)
  /\ Extends(marks', marks) /\ consumed' \in Seq(Symbols) /\ Extends(consumed', consumed)
  /\ Active \/ (consumed' = consumed /\ curr_node' = curr_node /\ next_code' = next_code /\ ~Active')

(* What the encoder adds to the pipe leaves the decoder where it is. *)
LEMMA DecoderKept == Inv /\ Adding => Decoder'
<1> SUFFICES ASSUME Inv, Adding PROVE Decoder'
  OBVIOUS
<1>0. stale = << >> /\ stale' = stale
  BY DEF Inv, Decoder, Astray, Adding, Closed, decoder
<1>1. PICK d \in 0 .. Len(marks) : Decoding(d)
  BY <1>0 DEF Inv, Decoder
<1>2. GoodMarks(marks, consumed)
  BY DEF Inv, Encoding, Sent
<1>3. /\ Extends(marks', marks) /\ consumed' \in Seq(Symbols) /\ Extends(consumed', consumed)
      /\ packed'.file \in Seq(0 .. 1) /\ Extends(packed'.file, packed.file)
  BY DEF Adding
<1>4. /\ pairs' = pairs /\ bits' = bits /\ table' = table /\ words' = words /\ output' = output
      /\ pc'["decode"] = pc["decode"] /\ next_code'["decode"] = next_code["decode"]
      /\ total_bits'["decode"] = total_bits["decode"] /\ input' = input
  BY DEF Adding, decoder
<1>5. BitsAt(marks', d) = BitsAt(marks, d) /\ CodeAt(marks', d) = CodeAt(marks, d)
  BY <1>1, <1>2, <1>3, AtKept
<1>6. d \in 0 .. Len(marks')
  <2>1. marks \in Seq(MarkSet) /\ Len(marks) <= Len(marks')
    BY <1>2, <1>3 DEF GoodMarks, Extends
  <2> QED BY <1>1, <2>1
<1>7. Narrow' => Narrow
  <2>1. \A k \in 1 .. Len(marks) : k \in 1 .. Len(marks') /\ marks'[k] = marks[k]
    BY <1>2, <1>3 DEF GoodMarks, Extends
  <2> QED BY <2>1 DEF Narrow
<1>8. packed.file \in Seq(0 .. 1) /\ pairs \in Readers /\ bits \in Seq(0 .. 1)
  BY DEF Inv, Types, Packers, Writers
<1>9. ASSUME pc["decode"] = "run" PROVE Framing(d)'
  <2>1. Framing(d)
    BY <1>1, <1>9 DEF Decoding
  <2>2. Exited = FALSE /\ Closed = FALSE
    BY DEF Adding, Closed, Exited
  <2>3. Exited' \in BOOLEAN /\ Closed' \in BOOLEAN /\ (Exited' => Closed')
    BY DEF Exited, Closed
  <2>4. AtBit(pairs, packed.file, FALSE, FALSE, BitsAt(marks, d) + Len(bits)) /\ Taken(bits, packed.file, FALSE, BitsAt(marks, d))
    BY <2>1, <2>2 DEF Framing
  <2>5. BitsAt(marks, d) \in Nat
    BY <1>1, <1>2, AtTypes
  <2>6. /\ AtBit(pairs, packed'.file, Exited', Closed', BitsAt(marks, d) + Len(bits))
        /\ Taken(bits, packed'.file, Exited', BitsAt(marks, d))
    <3>1. Growing(pairs, bits, packed.file, packed'.file, Exited', Closed', BitsAt(marks, d))
      BY <1>3, <1>8, <2>3, <2>4, <2>5 DEF Growing
    <3>2. Grew(pairs, bits, packed'.file, Exited', Closed', BitsAt(marks, d))
      BY <3>1, ReaderKept
    <3> QED BY <3>2 DEF Grew
  <2>7. /\ total_bits'["decode"] = BitsAt(marks', d) /\ next_code'["decode"] = CodeAt(marks', d)
        /\ Len(bits') <= Width("decode")'
    BY <1>4, <1>5, <2>1 DEF Framing, Width
  <2> QED BY <1>4, <1>5, <2>6, <2>7 DEF Framing
<1>10. ASSUME Content(d) PROVE Content(d)'
  <2>1. Restored(marks', consumed', d) = Restored(marks, consumed, d)
    BY <1>1, <1>2, <1>3, RestoredKept
  <2>2. ASSUME pc["decode"] \in {"header", "run"}, NEW c \in DOMAIN table PROVE table[c] = Named(marks', consumed', d, c)
    <3>1. DOMAIN table = Nodes(CodeAt(marks, d))
      <4>1. next_code["decode"] = CodeAt(marks, d)
        <5>1. CASE pc["decode"] = "header"
          <6>1. d = 0 /\ next_code["decode"] = START_CODE
            BY <1>1, <5>1 DEF Decoding
          <6> QED BY <6>1 DEF CodeAt
        <5>2. CASE pc["decode"] = "run"
          BY <1>1, <5>2 DEF Decoding, Framing
        <5> QED BY <2>2, <5>1, <5>2
      <4> QED BY <4>1 DEF Inv, Types
    <3>2. Named(marks', consumed', d, c) = Named(marks, consumed, d, c)
      BY <1>1, <1>2, <1>3, <2>2, <3>1, NamedKept
    <3> QED BY <1>10, <2>2, <3>2 DEF Content
  <2>3. Whole(words) = Restored(marks', consumed', d)
    BY <1>10, <2>1 DEF Content
  <2> QED BY <1>4, <2>2, <2>3 DEF Content
<1>11. ASSUME Narrow' PROVE
         /\ Content(d)'
         /\ pc["decode"] = "done" => ~Active' /\ output = consumed' /\ (Mistaken(input) \/ consumed' = input)
         /\ pc["decode"] = "crashed" => ~Active' /\ LastPairFillsDictionary'
  <2>1. Narrow /\ Content(d)
    BY <1>1, <1>7, <1>11 DEF Decoding
  <2>2. ASSUME pc["decode"] \in {"done", "crashed"}
        PROVE  ~Active /\ consumed' = consumed /\ curr_node' = curr_node /\ next_code' = next_code /\ ~Active'
    <3>1. ~Active
      BY <1>1, <2>1, <2>2 DEF Decoding
    <3> QED BY <3>1 DEF Adding
  <2>3. pc["decode"] = "done" => output = consumed /\ (Mistaken(input) \/ consumed = input)
    BY <1>1, <2>1 DEF Decoding
  <2>4. pc["decode"] = "crashed" => LastPairFillsDictionary
    BY <1>1, <2>1 DEF Decoding
  <2>5. pc["decode"] = "crashed" => LastPairFillsDictionary'
    BY <2>2, <2>4 DEF LastPairFillsDictionary
  <2> QED BY <1>10, <2>1, <2>2, <2>3, <2>5
<1>12. Decoding(d)'
  <2>1. pc'["decode"] = "header" => /\ d = 0 /\ bits' = << >> /\ pairs' = NewPipeReader(BUFFER)
                                    /\ next_code'["decode"] = START_CODE /\ total_bits'["decode"] = 0
    BY <1>1, <1>4 DEF Decoding
  <2>3. pc'["decode"] # "overrun"
    BY <1>1, <1>4 DEF Decoding
  <2> QED BY <1>4, <1>9, <1>11, <2>1, <2>3 DEF Decoding
<1> QED BY <1>0, <1>6, <1>12 DEF Decoder

(* A sequence extends itself. *)
LEMMA ExtendsItself == \A X : \A s \in Seq(X) : Extends(s, s)
  BY DEF Extends

(* What a step of the encoder keeps besides. *)
LEMMA TypesKept ==
  ASSUME Inv, decoder' = decoder, input' = input,
         pc' \in [Programs -> EncodeStates \cup DecodeStates], pc'["encode"] \in EncodeStates,
         pc'["decode"] = pc["decode"], next_code' \in [Programs -> Codes], next_code'["decode"] = next_code["decode"],
         total_bits' \in [Programs -> Nat], source' \in Sources(input), end' \in -1 .. BLOCK, packed' \in Packers
  PROVE  Types'
<1>1. /\ pairs' = pairs /\ bits' = bits /\ table' = table /\ words' = words /\ stale' = stale
  BY DEF decoder
<1> QED BY <1>1 DEF Inv, Types

(* After the pairs of the marks there is nothing yet. *)
LEMMA PackedEnds ==
  ASSUME NEW m, NEW s, GoodMarks(m, s), NEW w, Packing(m, s, w)
  PROVE  SentAll(m, s, Whole(w)) /\ Ended(m, Whole(w))
<1>1. Len(Whole(w)) = BitsAt(m, Len(m)) /\ BitsAt(m, Len(m)) \in Nat
  <2>1. Len(m) \in 0 .. Len(m)
    BY DEF GoodMarks
  <2> QED BY <2>1, AtTypes DEF Packing
<1> QED BY <1>1 DEF Packing, Ended

(* The header is written. *)
LEMMA HeaderStep == Inv /\ WriteHeader => Types' /\ Encoding' /\ Adding
<1> SUFFICES ASSUME Inv, WriteHeader PROVE Types' /\ Encoding' /\ Adding
  OBVIOUS
<1>1. /\ input' = input /\ decoder' = decoder /\ next_code' = next_code /\ source' = source /\ end' = end
      /\ trie' = trie /\ curr_node' = curr_node /\ prev_node' = prev_node /\ prev_sym' = prev_sym
      /\ consumed' = consumed /\ marks' = marks
  BY DEF WriteHeader
<1>2. pc["encode"] = "header" /\ packed = NewWriter /\ marks = << >> /\ total_bits["encode"] = 0
  BY DEF WriteHeader, Inv, Encoding, Written
<1>3. pc' \in [Programs -> EncodeStates \cup DecodeStates] /\ pc'["encode"] = "run" /\ pc'["decode"] = pc["decode"]
  BY DEF WriteHeader, Goto, Inv, Types, Programs, EncodeStates
<1>4. HEADER \in Nat
  BY LZ78Assumption DEF HEADER
<1>5. /\ total_bits' \in [Programs -> Nat] /\ total_bits'["encode"] = HEADER
      /\ total_bits'["decode"] = total_bits["decode"]
  BY <1>2, <1>4 DEF WriteHeader, Counted, Inv, Types, Programs
<1>6. PICK z \in Seq(0 .. 1) : z = Zeros(HEADER) /\ Len(z) = HEADER
  <2>0. Zeros(HEADER) \in [1 .. HEADER -> 0 .. 1]
    BY DEF Zeros
  <2>1. PICK f \in [1 .. HEADER -> 0 .. 1] : f = Zeros(HEADER)
    BY <2>0
  <2>2. f \in Seq(0 .. 1) /\ Len(f) = HEADER
    BY <1>4, <2>1
  <2> QED BY <2>1, <2>2
<1>7. packed' = [buf |-> << >>, file |-> z]
  <2>1. << >> \o z = z
    BY <1>6
  <2>2. packed.file \o z = z
    BY <1>2, <2>1, Nothing
  <2> QED BY <1>2, <1>6, <2>2 DEF WriteHeader, write_header, NewWriter
<1>8. packed'.buf = << >> /\ packed'.file = z
  BY <1>7
<1>9. Whole(packed') = z
  <2>1. z \o << >> = z
    BY <1>6
  <2> QED BY <1>8, <2>1 DEF Whole
<1>10. packed' \in Packers
  <2>1. packed' \in Writers(0 .. 1)
    BY <1>6, <1>7 DEF Writers
  <2>2. Len(packed'.buf) = 0 /\ BUFFER >= 0
    BY <1>8, Widths
  <2> QED BY <2>1, <2>2 DEF Packers
<1>11. GoodMarks(marks, consumed)
  BY DEF Inv, Encoding, Sent
<1>12. Packing(marks, consumed, packed')
  <2>1. Len(marks) = 0 /\ BitsAt(marks, 0) = HEADER
    BY <1>2 DEF BitsAt
  <2>2. SentAll(marks, consumed, z)
    BY <2>1 DEF SentAll
  <2> QED BY <1>6, <1>8, <1>9, <1>10, <2>1, <2>2, BlockLengths DEF Packing
<1>13. Sent'
  BY <1>1, <1>11, <1>12, PackedEnds DEF Sent, Stream
<1>14. Dictionary'
  BY <1>1, <1>2, <1>3 DEF Inv, Encoding, Dictionary, Active, LastCode
<1>15. Written'
  <2>1. LastBit' = HEADER
    BY <1>1, <1>2 DEF LastBit, BitsAt
  <2> QED BY <1>1, <1>3, <1>5, <1>12, <2>1 DEF Written
<1>16. Types'
  <2>1. source' \in Sources(input) /\ end' \in -1 .. BLOCK /\ next_code' \in [Programs -> Codes]
    BY <1>1 DEF Inv, Types
  <2> QED BY <1>1, <1>3, <1>5, <1>10, <2>1, TypesKept DEF EncodeStates
<1>17. Adding
  <2>1. Extends(z, << >>)
    BY <1>6 DEF Extends
  <2>2. Extends(marks, marks) /\ Extends(consumed, consumed) /\ consumed \in Seq(Symbols)
    BY <1>11, ExtendsItself DEF GoodMarks
  <2>3. Active /\ ~Closed
    BY <1>2 DEF Active, Closed
  <2>4. packed.file = << >>
    BY <1>2, Nothing
  <2> QED BY <1>1, <1>3, <1>5, <1>6, <1>8, <2>1, <2>2, <2>3, <2>4 DEF Adding
<1> QED BY <1>13, <1>14, <1>15, <1>16, <1>17 DEF Encoding

(* The encoder is killed: what is in its file stays a header and whole      *)
(* buffers.                                                                 *)
LEMMA KilledStep == Inv /\ Killed => Types' /\ Encoding' /\ Adding
<1> SUFFICES ASSUME Inv, Killed PROVE Types' /\ Encoding' /\ Adding
  OBVIOUS
<1>1. /\ input' = input /\ decoder' = decoder /\ next_code' = next_code /\ total_bits' = total_bits
      /\ source' = source /\ end' = end /\ trie' = trie /\ curr_node' = curr_node /\ packed' = packed
      /\ consumed' = consumed /\ marks' = marks
  BY DEF Killed, encoder
<1>2. /\ pc["encode"] \in {"header", "run", "flush"}
      /\ pc' \in [Programs -> EncodeStates \cup DecodeStates] /\ pc'["encode"] = "killed" /\ pc'["decode"] = pc["decode"]
  BY DEF Killed, Goto, Inv, Types, Programs, EncodeStates
<1>3. GoodMarks(marks, consumed) /\ packed \in Packers
  BY DEF Inv, Types, Encoding, Sent
<1>4. Sent'
  BY <1>1 DEF Inv, Encoding, Sent, Stream
<1>5. Dictionary'
  BY <1>2 DEF Dictionary, Active
<1>6. Written'
  <2>1. CASE pc["encode"] = "header"
    BY <1>1, <1>2, <2>1 DEF Inv, Encoding, Written
  <2>2. CASE pc["encode"] = "run"
    <3>1. Packing(marks, consumed, packed)
      BY <2>2 DEF Inv, Encoding, Written
    <3>2. Len(packed.file) \in Blocks /\ LastBit = Len(Stream) /\ Len(Stream) \in Nat
      <4>1. Len(marks) \in 0 .. Len(marks)
        BY <1>3 DEF GoodMarks
      <4> QED BY <1>3, <3>1, <4>1, AtTypes DEF Packing, LastBit, Stream
    <3>3. Len(packed'.file) \in Blocks /\ LastBit' = Len(Stream') /\ Len(Stream') \in Nat
      BY <1>1, <3>2 DEF LastBit, Stream
    <3> QED BY <1>2, <3>3 DEF Written
  <2>3. CASE pc["encode"] = "flush"
    <3>1. Len(packed.file) \in Blocks /\ StopAt + BITS <= Len(Stream) /\ Complete
      BY <2>3 DEF Inv, Encoding, Written
    <3>2. LastBit <= Len(Stream)
      <4>1. Len(marks) \in 0 .. Len(marks)
        BY <1>3 DEF GoodMarks
      <4>2. LastBit \in Nat /\ LastCode \in Codes
        BY <1>3, <4>1, AtTypes DEF LastBit, LastCode
      <4>3. bitlen(LastCode) \in Nat
        BY <4>2, CodeWidth
      <4>4. LastBit <= StopAt /\ StopAt \in Nat
        BY <4>2, <4>3 DEF StopAt
      <4>5. Len(Stream) \in Nat
        BY <1>3, Wholes DEF Packers, Stream
      <4>6. BITS \in Nat
        BY LZ78Assumption
      <4> QED BY <3>1, <4>2, <4>4, <4>5, <4>6
    <3>3. LastBit' = LastBit /\ Stream' = Stream /\ (Complete => Complete')
      BY <1>1 DEF LastBit, Stream, Complete, LastCode, LastPairFillsDictionary
    <3>4. Len(packed'.file) \in Blocks /\ LastBit' <= Len(Stream') /\ Complete'
      BY <1>1, <3>1, <3>2, <3>3
    <3> QED BY <1>2, <3>4 DEF Written
  <2> QED BY <1>2, <2>1, <2>2, <2>3
<1>7. Types'
  <2>1. source' \in Sources(input) /\ end' \in -1 .. BLOCK /\ next_code' \in [Programs -> Codes] /\ total_bits' \in [Programs -> Nat]
    BY <1>1 DEF Inv, Types
  <2> QED BY <1>1, <1>2, <1>3, <2>1, TypesKept DEF EncodeStates
<1>8. Adding
  <2>1. packed.file \in Seq(0 .. 1)
    BY <1>3 DEF Packers, Writers
  <2>2. /\ Extends(marks, marks) /\ Extends(consumed, consumed) /\ consumed \in Seq(Symbols)
        /\ Extends(packed.file, packed.file)
    BY <1>3, <2>1, ExtendsItself DEF GoodMarks
  <2>3. ~Closed /\ ~Active'
    BY <1>2 DEF Active, Closed
  <2> QED BY <1>1, <1>2, <2>1, <2>2, <2>3 DEF Adding
<1> QED BY <1>4, <1>5, <1>6, <1>7, <1>8 DEF Encoding

(* The symbol, or the end of the file, that the encoder reads. *)
LEMMA EncodeReads ==
  ASSUME Inv, pc["encode"] = "run", NEW r, r = read_sym(source, input, end)
  PROVE  /\ r.sym \in Symbols /\ r.reader \in Sources(input) /\ r.end \in -1 .. BLOCK
         /\ IF r.more THEN Reading(r.reader, input, r.end, Append(consumed, r.sym))
            ELSE Mistaken(input) \/ consumed = input
<1>1. input \in Seq(Symbols) /\ source \in Sources(input) /\ end \in -1 .. BLOCK
  BY DEF Inv, Types
<1>2. consumed \in Seq(Symbols)
  BY DEF Inv, Encoding, Sent, GoodMarks
<1>3. Reading(source, input, end, consumed)
  BY DEF Inv, Encoding, Dictionary, Active
<1> HIDE DEF Inv
<1> QED BY <1>1, <1>2, <1>3, ReadOn

(* A symbol that leads on in the trie. *)
LEMMA StepStep ==
  ASSUME Inv, pc["encode"] = "run", NEW r, r = read_sym(source, input, end), r.more,
         source' = r.reader, end' = r.end, Step(r.sym), prev_sym' = r.sym, consumed' = Append(consumed, r.sym),
         UNCHANGED <<pc, input, decoder>>
  PROVE  Types' /\ Encoding' /\ Adding
<1>1. /\ input' = input /\ decoder' = decoder /\ next_code' = next_code /\ total_bits' = total_bits
      /\ trie' = trie /\ packed' = packed /\ marks' = marks /\ pc' = pc
  BY DEF Step
<1>2. /\ r.sym \in Symbols /\ r.reader \in Sources(input) /\ r.end \in -1 .. BLOCK
      /\ Reading(r.reader, input, r.end, Append(consumed, r.sym))
  BY EncodeReads
<1>3. GoodMarks(marks, consumed) /\ consumed \in Seq(Symbols) /\ packed \in Packers /\ SentAll(marks, consumed, Stream)
      /\ Ended(marks, Stream)
  BY DEF Inv, Types, Encoding, Sent, GoodMarks
<1>4. Walking(marks, consumed, trie, curr_node, prev_node, prev_sym) /\ next_code["encode"] = LastCode
  BY DEF Inv, Encoding, Dictionary, Active
<1>5. Packing(marks, consumed, packed) /\ total_bits["encode"] = LastBit
  BY DEF Inv, Encoding, Written
<1>6. /\ <<curr_node, r.sym>> \in DOMAIN trie /\ curr_node' = trie[<<curr_node, r.sym>>] /\ prev_node' = curr_node
  BY DEF Step, HasChild, trie_step
<1>7. PICK s2 : s2 = Append(consumed, r.sym)
  OBVIOUS
<1>8. GoodMarks(marks, s2) /\ Walking(marks, s2, trie, trie[<<curr_node, r.sym>>], curr_node, r.sym)
  BY <1>2, <1>3, <1>4, <1>6, <1>7, WalkOn
<1>9. consumed' = s2
  BY <1>7
<1>10. s2 \in Seq(Symbols) /\ Extends(s2, consumed)
  BY <1>2, <1>3, <1>7 DEF Extends
<1>11. SentAll(marks, s2, Stream)
  <2>1. Agree(Stream, Stream, BitsAt(marks, Len(marks)))
    BY DEF Agree
  <2>2. PICK b : b = Stream
    OBVIOUS
  <2>3. Agree(b, b, BitsAt(marks, Len(marks))) /\ SentAll(marks, consumed, b)
    BY <1>3, <2>1, <2>2
  <2>4. SentAll(marks, s2, b)
    BY <1>3, <1>10, <2>3, SentKept
  <2> QED BY <2>2, <2>4
<1>12. Sent'
  BY <1>1, <1>3, <1>8, <1>9, <1>11 DEF Sent, Stream
<1>13. Dictionary'
  BY <1>1, <1>2, <1>4, <1>6, <1>7, <1>8, <1>9 DEF Dictionary, LastCode
<1>14. Packing(marks, s2, packed)
  BY <1>5, <1>11 DEF Packing, Stream
<1>15. Written'
  BY <1>1, <1>5, <1>9, <1>14 DEF Written, LastBit
<1>16. Types'
  <2>1. /\ pc' \in [Programs -> EncodeStates \cup DecodeStates] /\ pc'["encode"] \in EncodeStates
        /\ pc'["decode"] = pc["decode"] /\ next_code' \in [Programs -> Codes] /\ total_bits' \in [Programs -> Nat]
    BY <1>1 DEF Inv, Types
  <2> QED BY <1>1, <1>2, <1>3, <2>1, TypesKept
<1>17. Adding
  <2>1. packed.file \in Seq(0 .. 1)
    BY <1>3 DEF Packers, Writers
  <2>2. Extends(marks, marks) /\ Extends(packed.file, packed.file)
    BY <1>3, <2>1, ExtendsItself DEF GoodMarks
  <2>3. Active /\ ~Closed
    BY DEF Active, Closed
  <2> QED BY <1>1, <1>9, <1>10, <2>1, <2>2, <2>3 DEF Adding
<1> QED BY <1>12, <1>13, <1>15, <1>16, <1>17 DEF Encoding

(* A symbol that completes a word: pair, mark, edge and next_code. *)
LEMMA EmitStep ==
  ASSUME Inv, pc["encode"] = "run", NEW r, r = read_sym(source, input, end), r.more,
         source' = r.reader, end' = r.end, Emit(r.sym), prev_sym' = r.sym, consumed' = Append(consumed, r.sym),
         UNCHANGED <<pc, input, decoder>>
  PROVE  Types' /\ Encoding' /\ Adding
<1>1. /\ input' = input /\ decoder' = decoder /\ pc' = pc
  OBVIOUS
<1>2. /\ r.sym \in Symbols /\ r.reader \in Sources(input) /\ r.end \in -1 .. BLOCK
      /\ Reading(r.reader, input, r.end, Append(consumed, r.sym))
  BY EncodeReads
<1>3. GoodMarks(marks, consumed) /\ consumed \in Seq(Symbols) /\ packed \in Packers
  BY DEF Inv, Types, Encoding, Sent, GoodMarks
<1>4. Walking(marks, consumed, trie, curr_node, prev_node, prev_sym) /\ next_code["encode"] = LastCode
  BY DEF Inv, Encoding, Dictionary, Active
<1>5. Packing(marks, consumed, packed) /\ total_bits["encode"] = LastBit
  BY DEF Inv, Encoding, Written
<1>6. Len(marks) \in 0 .. Len(marks) /\ Len(marks) \in Nat
  BY <1>3 DEF GoodMarks
<1>7. LastCode \in Codes /\ LastBit \in Nat /\ PairWidth(marks, Len(marks)) \in Nat
  BY <1>3, <1>6, AtTypes DEF LastBit, LastCode
<1>8. PICK s2 : s2 = Append(consumed, r.sym)
  OBVIOUS
<1>9. IsMore(marks, consumed, r.sym, s2)
  BY <1>2, <1>3, <1>8, SinceMore
<1>10. /\ s2 \in Seq(Symbols) /\ Extends(s2, consumed) /\ Len(s2) = Len(consumed) + 1
       /\ Since(marks, s2) = Append(Since(marks, consumed), r.sym) /\ SymsAt(marks, Len(marks)) < Len(s2)
  BY <1>9 DEF IsMore
<1>11. consumed' = s2
  BY <1>8
<1>12. PICK m2 : m2 = Append(marks, NextMark(marks, s2))
  OBVIOUS
<1>13. marks' = m2
  <2>1. Width("encode") = PairWidth(marks, Len(marks))
    BY <1>4 DEF Width, PairWidth, LastCode
  <2>2. Mark(Len(consumed) + 1) = NextMark(marks, s2)
    BY <1>4, <1>5, <1>10, <2>1 DEF Mark, NextMark, LastBit, LastCode
  <2> QED BY <1>12, <2>2 DEF Emit
<1>14. PICK w : w = packed'
  OBVIOUS
<1>15. w = write_pair(packed, curr_node, r.sym, bitlen(CodeAt(marks, Len(marks))))
  BY <1>4, <1>14 DEF Emit, LastCode
<1>16. /\ curr_node \in Nodes(CodeAt(marks, Len(marks)))
       /\ Since(marks, s2) = Append(Named(marks, consumed, Len(marks), curr_node), r.sym)
  BY <1>4, <1>10 DEF Walking
<1>17. Marked(marks, s2, m2) /\ Packing(m2, s2, w) /\ Extends(w.file, packed.file)
  <2>1. Pairing(marks, consumed, packed, s2, curr_node, r.sym, m2, w)
    BY <1>2, <1>3, <1>5, <1>10, <1>12, <1>15, <1>16 DEF Pairing
  <2> QED BY <2>1, PairPacked
<1>18. /\ GoodMarks(m2, s2) /\ Extends(m2, marks) /\ Len(m2) = Len(marks) + 1
       /\ CodeAt(m2, Len(m2)) = Succ(LastCode)
       /\ BitsAt(m2, Len(m2)) = LastBit + PairWidth(marks, Len(marks))
  BY <1>17 DEF Marked, LastCode, LastBit
<1>19. /\ next_code' \in [Programs -> Codes] /\ next_code'["encode"] = Succ(LastCode)
       /\ next_code'["decode"] = next_code["decode"]
       /\ trie' = (IF LastCode + 1 = MAX_CODE THEN NoEdges ELSE Extended(trie, <<curr_node, r.sym>>, LastCode))
  <2>1. Succ(LastCode) \in Codes
    BY <1>7, Succession
  <2>2. next_code \in [Programs -> Codes]
    BY DEF Inv, Types
  <2>3. next_code' = [next_code EXCEPT !["encode"] = Succ(LastCode)]
    BY <1>4 DEF Emit, NextCode, NextCodeIs, Succ
  <2>4. trie' = (IF LastCode + 1 = MAX_CODE THEN NoEdges ELSE Extended(trie, <<curr_node, r.sym>>, LastCode))
    BY <1>4 DEF Emit, NextCode, WithEdge
  <2> QED BY <2>1, <2>2, <2>3, <2>4 DEF Programs
<1>20. curr_node' = EMPTY_CODE
  BY DEF Emit
<1>21. Walking(m2, s2, trie', EMPTY_CODE, prev_node', prev_sym')
  <2>1. PICK t2 : t2 = trie'
    OBVIOUS
  <2>2. t2 = (IF CodeAt(marks, Len(marks)) + 1 = MAX_CODE THEN NoEdges
              ELSE Extended(trie, <<curr_node, r.sym>>, CodeAt(marks, Len(marks))))
    BY <1>19, <2>1 DEF LastCode
  <2>3. PICK p2, y2 : p2 = prev_node' /\ y2 = prev_sym'
    OBVIOUS
  <2>4. Marked(marks, s2, m2)
    BY <1>17
  <2> HIDE <1>8, <1>12, <1>14
  <2>5. Walking(m2, s2, t2, EMPTY_CODE, p2, y2)
    BY <1>2, <1>3, <1>4, <1>9, <2>2, <2>4, WalkEnd
  <2> QED BY <2>1, <2>3, <2>5
<1>22. /\ total_bits' \in [Programs -> Nat] /\ total_bits'["encode"] = LastBit + PairWidth(marks, Len(marks))
       /\ total_bits'["decode"] = total_bits["decode"]
  <2>1. total_bits' = [total_bits EXCEPT !["encode"] = LastBit + PairWidth(marks, Len(marks))]
    BY <1>4, <1>5 DEF Emit, Counted, Width, PairWidth, LastCode
  <2>2. total_bits \in [Programs -> Nat]
    BY DEF Inv, Types
  <2> QED BY <1>7, <2>1, <2>2 DEF Programs
<1>23. Sent'
  <2>1. SentAll(m2, s2, Whole(w)) /\ Ended(m2, Whole(w))
    BY <1>17, <1>18, PackedEnds
  <2> QED BY <1>11, <1>13, <1>14, <1>18, <2>1 DEF Sent, Stream
<1>24. Dictionary'
  <2>1. next_code'["encode"] = LastCode'
    BY <1>13, <1>18, <1>19 DEF LastCode
  <2> QED BY <1>1, <1>2, <1>8, <1>11, <1>13, <1>20, <1>21, <2>1 DEF Dictionary
<1>25. Written'
  <2>1. total_bits'["encode"] = LastBit'
    BY <1>13, <1>18, <1>22 DEF LastBit
  <2> QED BY <1>1, <1>11, <1>13, <1>14, <1>17, <2>1 DEF Written
<1>26. packed' \in Packers
  BY <1>14, <1>17 DEF Packing
<1>27. Types'
  <2>1. /\ pc' \in [Programs -> EncodeStates \cup DecodeStates] /\ pc'["encode"] \in EncodeStates
        /\ pc'["decode"] = pc["decode"]
    BY <1>1 DEF Inv, Types
  <2> QED BY <1>1, <1>2, <1>19, <1>22, <1>26, <2>1, TypesKept
<1>28. Adding
  <2>1. packed'.file \in Seq(0 .. 1)
    BY <1>26 DEF Packers, Writers
  <2>2. Active /\ ~Closed
    BY DEF Active, Closed
  <2> QED BY <1>1, <1>10, <1>11, <1>13, <1>14, <1>17, <1>18, <1>19, <1>22, <2>1, <2>2 DEF Adding
<1> QED BY <1>23, <1>24, <1>25, <1>27, <1>28 DEF Encoding

(* What EncodeEnd writes before the STOP pair: the pair of the word that    *)
(* was begun, if one was.                                                   *)
Finishing(w, m) ==
  /\ GoodMarks(m, consumed) /\ Packing(m, consumed, w)
  /\ Extends(m, marks) /\ Extends(w.file, packed.file)
  /\ SymsAt(m, Len(m)) = Len(consumed)
  /\ LastPairFillsDictionary => CodeAt(m, Len(m)) = START_CODE
  /\ ~LastPairFillsDictionary => StopWidth = bitlen(CodeAt(m, Len(m)))

(* The pair of a word that is in the trie already: all that was taken is    *)
(* then in pairs, and the width of the STOP pair is that of the next one,   *)
(* unless the dictionary has just been filled.                              *)
LEMMA EncodeFinishes ==
  ASSUME Inv, pc["encode"] = "run",
         NEW w, w = LastPair, NEW m, m = IF curr_node = EMPTY_CODE THEN marks ELSE Append(marks, Mark(Len(consumed)))
  PROVE  Finishing(w, m)
<1>1. GoodMarks(marks, consumed) /\ consumed \in Seq(Symbols) /\ marks \in Seq(MarkSet) /\ packed \in Packers
  BY DEF Inv, Types, Encoding, Sent, GoodMarks
<1>2. Walking(marks, consumed, trie, curr_node, prev_node, prev_sym) /\ next_code["encode"] = LastCode
  BY DEF Inv, Encoding, Dictionary, Active
<1>3. Packing(marks, consumed, packed) /\ total_bits["encode"] = LastBit
  BY DEF Inv, Encoding, Written
<1>4. Len(marks) \in 0 .. Len(marks) /\ Len(marks) \in Nat
  BY <1>1
<1>5. LastCode \in Codes /\ LastCode \in Nat /\ LastCode < MAX_CODE /\ MAX_CODE \in Nat
  <2>1. LastCode \in Codes
    BY <1>1, <1>4, AtTypes DEF LastCode
  <2> QED BY <2>1, LZ78Assumption DEF Codes, START_CODE
<1>6. PICK n \in Nat, l \in Nat : n = SymsAt(marks, Len(marks)) /\ l = Len(consumed) /\ n <= l
  <2>1. SymsAt(marks, Len(marks)) \in 0 .. Len(consumed)
    BY <1>1, <1>4, AtTypes
  <2> QED BY <1>1, <2>1
<1>7. Named(marks, consumed, Len(marks), curr_node) = SubSeq(consumed, n + 1, l)
  BY <1>2, <1>6 DEF Walking, Since
<1>8. Len(SubSeq(consumed, n + 1, l)) = l - n
  BY <1>1, <1>6
<1>9. CASE curr_node = EMPTY_CODE
  <2>1. Len(<< >>) = l - n
    BY <1>7, <1>8, <1>9 DEF Named
  <2>2. SymsAt(marks, Len(marks)) = Len(consumed)
    BY <1>6, <2>1
  <2>3. ~LastPairFillsDictionary /\ StopWidth = bitlen(CodeAt(marks, Len(marks)))
    BY <1>2, <1>9 DEF LastPairFillsDictionary, StopWidth, LastCode
  <2>4. w = packed /\ m = marks
    BY <1>9 DEF LastPair
  <2>5. Extends(marks, marks) /\ Extends(packed.file, packed.file)
    <3>1. packed.file \in Seq(0 .. 1)
      BY <1>1 DEF Packers, Writers
    <3> QED BY <1>1, <3>1, ExtendsItself
  <2> QED BY <1>1, <1>3, <2>2, <2>3, <2>4, <2>5 DEF Finishing
<1>10. CASE curr_node # EMPTY_CODE
  <2>1. /\ prev_node \in Nodes(CodeAt(marks, Len(marks))) /\ prev_sym \in Symbols
        /\ Since(marks, consumed) = Append(Named(marks, consumed, Len(marks), prev_node), prev_sym)
    BY <1>2, <1>10 DEF Walking, Leads
  <2>2. SymsAt(marks, Len(marks)) < Len(consumed)
    <3>1. Named(marks, consumed, Len(marks), prev_node) \in Seq(Symbols)
      <4>1. \A a \in Int, b \in Int : a >= 1 /\ b <= l => SubSeq(consumed, a, b) \in Seq(Symbols)
        BY <1>1, <1>6
      <4>2. CASE prev_node = EMPTY_CODE
        BY <4>2 DEF Named
      <4>3. CASE prev_node # EMPTY_CODE
        <5>1. Len(marks) + 1 - CodeAt(marks, Len(marks)) + prev_node \in 1 .. Len(marks)
          BY <1>1, <1>4, <2>1, <4>3, NamedIndex
        <5>2. PICK k \in 1 .. Len(marks) : k = Len(marks) + 1 - CodeAt(marks, Len(marks)) + prev_node
          BY <5>1
        <5>3. k \in 0 .. Len(marks) /\ k - 1 \in 0 .. Len(marks)
          BY <1>4, <5>2
        <5>4. SymsAt(marks, k) \in 0 .. l /\ SymsAt(marks, k - 1) \in 0 .. l
          BY <1>1, <1>6, <5>3, AtTypes
        <5>5. WordAt(marks, consumed, k) \in Seq(Symbols)
          BY <1>6, <4>1, <5>4 DEF WordAt
        <5> QED BY <4>3, <5>2, <5>5 DEF Named
      <4> QED BY <4>2, <4>3
    <3>2. Len(Append(Named(marks, consumed, Len(marks), prev_node), prev_sym)) > 0
      BY <2>1, <3>1
    <3>3. Since(marks, consumed) = SubSeq(consumed, n + 1, l)
      BY <1>6 DEF Since
    <3>4. l - n > 0
      BY <1>8, <2>1, <3>2, <3>3
    <3> QED BY <1>6, <3>4
  <2>3. m = Append(marks, NextMark(marks, consumed))
    <3>1. Width("encode") = PairWidth(marks, Len(marks))
      BY <1>2 DEF Width, PairWidth, LastCode
    <3>2. Mark(Len(consumed)) = NextMark(marks, consumed)
      BY <1>2, <1>3, <3>1 DEF Mark, NextMark, LastBit, LastCode
    <3> QED BY <1>10, <3>2
  <2>4. w = write_pair(packed, prev_node, prev_sym, bitlen(CodeAt(marks, Len(marks))))
    BY <1>2, <1>10 DEF LastPair, LastCode
  <2>5. Extends(consumed, consumed)
    BY <1>1, ExtendsItself
  <2>6. Marked(marks, consumed, m) /\ Packing(m, consumed, w) /\ Extends(w.file, packed.file)
    <3>1. Pairing(marks, consumed, packed, consumed, prev_node, prev_sym, m, w)
      BY <1>1, <1>3, <2>1, <2>2, <2>3, <2>4, <2>5 DEF Pairing
    <3> QED BY <3>1, PairPacked
  <2>7. /\ GoodMarks(m, consumed) /\ Extends(m, marks) /\ Len(m) = Len(marks) + 1
        /\ CodeAt(m, Len(m)) = Succ(LastCode) /\ SymsAt(m, Len(m)) = Len(consumed)
    BY <2>6 DEF Marked, LastCode
  <2>8. LastPairFillsDictionary <=> LastCode + 1 = MAX_CODE
    BY <1>2, <1>10 DEF LastPairFillsDictionary
  <2>9. ASSUME LastCode + 1 # MAX_CODE PROVE StopWidth = bitlen(CodeAt(m, Len(m)))
    <3>1. LastCode + 1 \in Nat /\ LastCode + 1 = MAX_CODE * 0 + (LastCode + 1) /\ LastCode + 1 \in 0 .. MAX_CODE - 1
      BY <1>5, <2>9
    <3>2. MAX_CODE \in Nat \ {0}
      BY LZ78Assumption
    <3>3. (LastCode + 1) % MAX_CODE = LastCode + 1
      BY <3>1, <3>2, Remainder
    <3> QED BY <1>2, <1>10, <2>7, <2>9, <3>3 DEF StopWidth, Succ
  <2> QED BY <2>6, <2>7, <2>8, <2>9 DEF Finishing, Succ
<1> QED BY <1>9, <1>10

(* The end of the file. *)
LEMMA EndStep == Inv /\ EncodeEnd => Types' /\ Encoding' /\ Adding
<1> SUFFICES ASSUME Inv, EncodeEnd PROVE Types' /\ Encoding' /\ Adding
  OBVIOUS
<1>1. /\ input' = input /\ decoder' = decoder /\ next_code' = next_code /\ total_bits' = total_bits
      /\ curr_node' = curr_node /\ consumed' = consumed /\ pc["encode"] = "run"
  BY DEF EncodeEnd
<1>2. /\ pc' \in [Programs -> EncodeStates \cup DecodeStates] /\ pc'["encode"] = "flush" /\ pc'["decode"] = pc["decode"]
  BY DEF EncodeEnd, Goto, Inv, Types, Programs, EncodeStates
<1>3. PICK r : r = read_sym(source, input, end) /\ ~r.more /\ source' = r.reader /\ end' = r.end
  BY DEF EncodeEnd
<1>4. source' \in Sources(input) /\ end' \in -1 .. BLOCK /\ (Mistaken(input) \/ consumed = input)
  BY <1>1, <1>3, EncodeReads
<1>5. PICK w, m : /\ w = LastPair
                  /\ m = IF curr_node = EMPTY_CODE THEN marks ELSE Append(marks, Mark(Len(consumed)))
  OBVIOUS
<1>6. Finishing(w, m)
  BY <1>1, <1>5, EncodeFinishes
<1>7. marks' = m
  BY <1>5 DEF EncodeEnd
<1> HIDE <1>5
<1>8. /\ GoodMarks(m, consumed) /\ Packing(m, consumed, w)
      /\ Extends(m, marks) /\ Extends(w.file, packed.file)
      /\ SymsAt(m, Len(m)) = Len(consumed)
      /\ LastPairFillsDictionary => CodeAt(m, Len(m)) = START_CODE
      /\ ~LastPairFillsDictionary => StopWidth = bitlen(CodeAt(m, Len(m)))
  BY <1>6 DEF Finishing
<1>9. Len(m) \in 0 .. Len(m)
  BY <1>8 DEF GoodMarks
<1>10. BitsAt(m, Len(m)) \in Nat /\ CodeAt(m, Len(m)) \in Codes
  BY <1>8, <1>9, AtTypes
<1>11. PICK code \in Nat : code <= MAX_CODE /\ StopWidth = bitlen(code)
  <2>1. next_code["encode"] \in Codes /\ MAX_CODE \in Nat /\ MAX_CODE > 0
    BY LZ78Assumption DEF Inv, Types, Programs
  <2>2. next_code["encode"] \in Nat /\ next_code["encode"] <= MAX_CODE
    BY <2>1, CodeWidth
  <2>3. (next_code["encode"] + 1) % MAX_CODE \in Nat /\ (next_code["encode"] + 1) % MAX_CODE <= MAX_CODE
    BY <2>1, <2>2
  <2> QED BY <2>2, <2>3 DEF StopWidth
<1>12. PICK p : p = packed'
  OBVIOUS
<1>13. p = write_pair(w, STOP_CODE, 0, bitlen(code))
  BY <1>5, <1>11, <1>12 DEF EncodeEnd
<1>14. /\ p \in Packers /\ Len(p.file) \in Blocks /\ Extends(p.file, w.file)
       /\ SentAll(m, consumed, Whole(p)) /\ Ended(m, Whole(p))
       /\ Len(Whole(p)) = BitsAt(m, Len(m)) + bitlen(code) + BITS
  BY <1>8, <1>11, <1>13, StopPacked
<1>15. bitlen(code) \in Nat /\ BITS \in Nat
  BY <1>11, BitLength, LZ78Assumption
<1>16. Sent'
  BY <1>1, <1>7, <1>8, <1>12, <1>14 DEF Sent, Stream
<1>17. Dictionary'
  BY <1>2 DEF Dictionary, Active
<1>18. Complete'
  BY <1>1, <1>4, <1>7, <1>8 DEF Complete, LastPairFillsDictionary, LastCode
<1>19. StopAt' + BITS <= Len(Stream')
  <2>1. StopAt' = BitsAt(m, Len(m)) + (IF LastPairFillsDictionary THEN 0 ELSE bitlen(CodeAt(m, Len(m))))
    BY <1>1, <1>7 DEF StopAt, LastBit, LastCode, LastPairFillsDictionary
  <2>2. Len(Stream') = BitsAt(m, Len(m)) + bitlen(code) + BITS
    BY <1>12, <1>14 DEF Stream
  <2>3. ~LastPairFillsDictionary => bitlen(code) = bitlen(CodeAt(m, Len(m)))
    BY <1>8, <1>11
  <2> QED BY <1>10, <1>15, <2>1, <2>2, <2>3
<1>20. Written'
  BY <1>2, <1>12, <1>14, <1>18, <1>19 DEF Written
<1>21. Types'
  <2>1. next_code' \in [Programs -> Codes] /\ next_code'["decode"] = next_code["decode"] /\ total_bits' \in [Programs -> Nat]
    BY <1>1 DEF Inv, Types
  <2> QED BY <1>1, <1>2, <1>4, <1>12, <1>14, <2>1, TypesKept DEF EncodeStates
<1>22. Adding
  <2>1. p.file \in Seq(0 .. 1) /\ w.file \in Seq(0 .. 1) /\ packed.file \in Seq(0 .. 1)
    BY <1>8, <1>14 DEF Packers, Packing, Writers, Inv, Types
  <2>2. Extends(p.file, packed.file)
    <3>1. PICK f \in Seq(0 .. 1), g \in Seq(0 .. 1), h \in Seq(0 .. 1) : f = p.file /\ g = w.file /\ h = packed.file
      BY <2>1
    <3>2. Extends(f, g) /\ Extends(g, h)
      BY <1>8, <1>14, <3>1
    <3>3. Extends(f, h)
      BY <3>1, <3>2 DEF Extends
    <3> QED BY <3>1, <3>3
  <2>3. Extends(consumed, consumed) /\ consumed \in Seq(Symbols)
    BY <1>8, ExtendsItself DEF GoodMarks
  <2>4. Active /\ ~Closed
    BY <1>1 DEF Active, Closed
  <2> QED BY <1>1, <1>2, <1>7, <1>8, <1>12, <2>1, <2>2, <2>3, <2>4 DEF Adding
<1> QED BY <1>16, <1>17, <1>20, <1>21, <1>22 DEF Encoding

(* The flush: enough zeros are left for the code of the STOP pair. *)
LEMMA FlushStep == Inv /\ Flush => Types' /\ Encoding' /\ Adding
<1> SUFFICES ASSUME Inv, Flush PROVE Types' /\ Encoding' /\ Adding
  OBVIOUS
<1>1. /\ input' = input /\ decoder' = decoder /\ next_code' = next_code /\ total_bits' = total_bits
      /\ source' = source /\ end' = end /\ curr_node' = curr_node /\ consumed' = consumed /\ marks' = marks
      /\ pc["encode"] = "flush" /\ packed' = [buf |-> << >>, file |-> flush_pairs(packed)]
  BY DEF Flush
<1>2. /\ pc' \in [Programs -> EncodeStates \cup DecodeStates] /\ pc'["encode"] = "exited" /\ pc'["decode"] = pc["decode"]
  BY DEF Flush, Goto, Inv, Types, Programs, EncodeStates
<1>3. GoodMarks(marks, consumed) /\ packed \in Packers /\ SentAll(marks, consumed, Stream) /\ Ended(marks, Stream)
  BY DEF Inv, Types, Encoding, Sent
<1>4. StopAt + BITS <= Len(Stream) /\ Complete
  BY <1>1 DEF Inv, Encoding, Written
<1>5. StopAt \in Nat /\ BitsAt(marks, Len(marks)) <= StopAt
  <2>1. Len(marks) \in 0 .. Len(marks)
    BY <1>3 DEF GoodMarks
  <2>2. BitsAt(marks, Len(marks)) \in Nat /\ CodeAt(marks, Len(marks)) \in Codes
    BY <1>3, <2>1, AtTypes
  <2>3. bitlen(LastCode) \in Nat
    BY <2>2, CodeWidth DEF LastCode
  <2> QED BY <2>2, <2>3 DEF StopAt, LastBit
<1>6. PICK p, n : p = packed' /\ n = StopAt
  OBVIOUS
<1>7. p = [buf |-> << >>, file |-> flush_pairs(packed)]
  BY <1>1, <1>6
<1>8. n \in Nat /\ BitsAt(marks, Len(marks)) <= n /\ n + BITS <= Len(Whole(packed)) /\ SentAll(marks, consumed, Whole(packed))
      /\ Ended(marks, Whole(packed))
  BY <1>3, <1>4, <1>5, <1>6 DEF Stream
<1> HIDE <1>6
<1>9. /\ p \in Packers /\ Extends(p.file, packed.file) /\ p.buf = << >>
      /\ SentAll(marks, consumed, Whole(p)) /\ Ended(marks, Whole(p)) /\ n < Len(Whole(p)) /\ Whole(p) = p.file
  BY <1>3, <1>7, <1>8, FlushPacked
<1>10. Sent'
  BY <1>1, <1>3, <1>6, <1>9 DEF Sent, Stream
<1>11. Dictionary'
  BY <1>2 DEF Dictionary, Active
<1>12. Written'
  <2>1. Complete' /\ StopAt' = StopAt
    BY <1>1, <1>4 DEF Complete, StopAt, LastBit, LastCode, LastPairFillsDictionary
  <2>2. Stream' = packed'.file /\ StopAt' < Len(Stream')
    BY <1>6, <1>9, <2>1 DEF Stream
  <2> QED BY <1>2, <2>1, <2>2 DEF Written
<1>13. Types'
  <2>1. /\ next_code' \in [Programs -> Codes] /\ total_bits' \in [Programs -> Nat]
        /\ source' \in Sources(input) /\ end' \in -1 .. BLOCK
    BY <1>1 DEF Inv, Types
  <2> QED BY <1>1, <1>2, <1>6, <1>9, <2>1, TypesKept DEF EncodeStates
<1>14. Adding
  <2>1. packed'.file \in Seq(0 .. 1) /\ Extends(packed'.file, packed.file)
    BY <1>6, <1>9 DEF Packers, Writers
  <2>2. Extends(marks, marks) /\ Extends(consumed, consumed) /\ consumed \in Seq(Symbols)
    BY <1>3, ExtendsItself DEF GoodMarks
  <2>3. ~Closed /\ ~Active'
    BY <1>1, <1>2 DEF Active, Closed
  <2> QED BY <1>1, <1>2, <2>1, <2>2, <2>3 DEF Adding
<1> QED BY <1>10, <1>11, <1>12, <1>13, <1>14 DEF Encoding

----------------------------------------------------------------------------
(* The decoder's steps. *)

(* A step of the decoder leaves the encoder alone. *)
Awaiting ==
  /\ input' = input /\ encoder' = encoder
  /\ pc'["encode"] = pc["encode"] /\ next_code'["encode"] = next_code["encode"]
  /\ total_bits'["encode"] = total_bits["encode"]

(* A step of the decoder changes nothing for the encoder. *)
LEMMA EncodingKept == Inv /\ Awaiting => Encoding'
<1> SUFFICES ASSUME Inv, Awaiting PROVE Encoding'
  OBVIOUS
<1>1. /\ input' = input /\ source' = source /\ end' = end /\ trie' = trie /\ curr_node' = curr_node
      /\ prev_node' = prev_node /\ prev_sym' = prev_sym /\ packed' = packed /\ consumed' = consumed /\ marks' = marks
      /\ pc'["encode"] = pc["encode"] /\ next_code'["encode"] = next_code["encode"]
      /\ total_bits'["encode"] = total_bits["encode"]
  BY DEF Awaiting, encoder
<1>2. Stream' = Stream /\ LastBit' = LastBit /\ LastCode' = LastCode
  BY <1>1 DEF Stream, LastBit, LastCode
<1>3. LastPairFillsDictionary' = LastPairFillsDictionary
  BY <1>1 DEF LastPairFillsDictionary
<1>4. StopAt' = StopAt /\ (Complete => Complete') /\ (Active' => Active)
  BY <1>1, <1>2, <1>3 DEF StopAt, Complete, Active
<1>5. Sent /\ Dictionary /\ Written
  BY DEF Inv, Encoding
<1>6. Sent'
  BY <1>1, <1>2, <1>5 DEF Sent
<1>7. Dictionary'
  BY <1>1, <1>2, <1>4, <1>5 DEF Dictionary
<1>8. Written'
  BY <1>1, <1>2, <1>4, <1>5 DEF Written
<1> QED BY <1>6, <1>7, <1>8 DEF Encoding

(* The types a step of the decoder keeps besides. *)
LEMMA DecodeTypes ==
  ASSUME Inv, Awaiting, pc' \in [Programs -> EncodeStates \cup DecodeStates], pc'["decode"] \in DecodeStates,
         next_code' \in [Programs -> Codes], total_bits' \in [Programs -> Nat],
         pairs' \in Readers, bits' \in Seq(0 .. 1), words' \in Writers(Nat), Len(words'.buf) <= BLOCK,
         DOMAIN table' = Nodes(next_code'["decode"]), \A c \in DOMAIN table' : table'[c] \in Seq(Nat),
         stale' \in Seq(Nat)
  PROVE  Types'
<1>1. /\ input' = input /\ source' = source /\ end' = end /\ packed' = packed /\ pc'["encode"] = pc["encode"]
  BY DEF Awaiting, encoder
<1> QED BY <1>1 DEF Inv, Types

(* What the decoder finds in the pipe. *)
LEMMA Piped ==
  ASSUME Inv
  PROVE  /\ Grown(packed.file, Exited) /\ Exited \in BOOLEAN /\ Closed \in BOOLEAN /\ (Exited => Closed)
         /\ packed.file \in Seq(0 .. 1) /\ Extends(Stream, packed.file) /\ Stream \in Seq(0 .. 1)
         /\ Len(packed.file) <= Len(Stream)
<1>1. Exited \in BOOLEAN /\ Closed \in BOOLEAN /\ (Exited => Closed)
  BY DEF Exited, Closed
<1>2. packed \in Writers(0 .. 1)
  BY DEF Inv, Types, Packers
<1>3. packed.file \in Seq(0 .. 1) /\ Extends(Stream, packed.file) /\ Stream \in Seq(0 .. 1)
  BY <1>2, Wholes DEF Stream
<1>4. Exited \/ Len(packed.file) = 0 \/ Len(packed.file) \in Blocks
  <2>1. packed = NewWriter => Len(packed.file) = 0
    BY Nothing
  <2>2. pc["encode"] \in EncodeStates
    BY DEF Inv, Types
  <2>3. CASE pc["encode"] = "header"
    BY <2>1, <2>3 DEF Inv, Encoding, Written
  <2>4. CASE pc["encode"] = "run"
    BY <2>4 DEF Inv, Encoding, Written, Packing
  <2>5. CASE pc["encode"] = "flush"
    BY <2>5 DEF Inv, Encoding, Written
  <2>6. CASE pc["encode"] = "exited"
    BY <2>6 DEF Exited
  <2>7. CASE pc["encode"] = "killed"
    BY <2>1, <2>7 DEF Inv, Encoding, Written
  <2> QED BY <2>2, <2>3, <2>4, <2>5, <2>6, <2>7 DEF EncodeStates
<1>5. Len(packed.file) <= Len(Stream)
  BY <1>3 DEF Extends
<1> QED BY <1>1, <1>3, <1>4, <1>5 DEF Grown

(* The header is read, or what there is of it. *)
LEMMA ReadHeaderStep == Inv /\ ReadHeader => Inv'
<1> SUFFICES ASSUME Inv, ReadHeader PROVE Inv'
  OBVIOUS
<1>1. /\ input' = input /\ encoder' = encoder /\ next_code' = next_code /\ bits' = bits /\ table' = table
      /\ words' = words /\ output' = output /\ stale' = stale /\ pc["decode"] = "header" /\ Readable
  BY DEF ReadHeader
<1>2. /\ packed' = packed /\ consumed' = consumed /\ marks' = marks /\ curr_node' = curr_node
  BY <1>1 DEF encoder
<1>3. /\ pc' \in [Programs -> EncodeStates \cup DecodeStates] /\ pc'["encode"] = pc["encode"] /\ pc'["decode"] = "run"
  BY DEF ReadHeader, Goto, Inv, Types, Programs, DecodeStates
<1>0. stale = << >>
  BY <1>1 DEF Inv, Decoder, Astray
<1>4. PICK d \in 0 .. Len(marks) : Decoding(d)
  BY <1>0 DEF Inv, Decoder
<1>5. /\ d = 0 /\ bits = << >> /\ pairs = NewPipeReader(BUFFER) /\ next_code["decode"] = START_CODE
      /\ total_bits["decode"] = 0
  BY <1>1, <1>4 DEF Decoding
<1>6. HEADER \in Nat /\ HEADER > 0 /\ BUFFER \in Nat /\ BUFFER > 0
  BY Widths, LZ78Assumption DEF HEADER
<1>7. /\ total_bits' \in [Programs -> Nat] /\ total_bits'["encode"] = total_bits["encode"]
      /\ total_bits'["decode"] = HEADER
  BY <1>5, <1>6 DEF ReadHeader, Counted, Inv, Types, Programs
<1>8. Awaiting
  BY <1>1, <1>3, <1>7 DEF Awaiting
<1>9. PICK l \in Nat : l = Len(packed.file)
  BY Piped
<1>10. PICK p \in Nat : p = Smaller(HEADER, l) /\ (IF HEADER < l THEN p = HEADER ELSE p = l)
  BY <1>6 DEF Smaller
<1>11. PICK z \in [1 .. BUFFER -> 0 .. 1] : pairs = [buf |-> z, index |-> BUFFER, pos |-> 0, total |-> 0]
  <2>1. Zeros(BUFFER) \in [1 .. BUFFER -> 0 .. 1]
    BY DEF Zeros
  <2> QED BY <1>5, <2>1 DEF NewPipeReader
<1>12. pairs' = [buf |-> z, index |-> BUFFER, pos |-> p, total |-> 0]
  <2>1. Available(pairs, packed.file) = l
    BY <1>9, <1>11 DEF Available
  <2>2. pairs' = [pairs EXCEPT !.pos = p]
    BY <1>10, <2>1 DEF ReadHeader
  <2> QED BY <1>11, <2>2
<1>13. pairs' \in Readers
  BY <1>6, <1>10, <1>11, <1>12 DEF Readers
<1>14. AtBit(pairs', packed.file, Exited, Closed, HEADER)
  <2>1. pairs'.index = BUFFER /\ pairs'.pos = p /\ pairs'.total = 0
    BY <1>12
  <2>2. CASE HEADER <= l
    <3>1. p = HEADER
      BY <1>6, <1>9, <1>10, <2>2
    <3>2. HEADER = p - 0 /\ 0 < BUFFER /\ p <= l /\ p \in Blocks
      BY <1>6, <2>2, <3>1, BlockLengths
    <3>3. Between(pairs', packed.file, Exited, Closed, HEADER)
      BY <2>1, <3>2 DEF Between
    <3> QED BY <1>9, <2>1, <3>2, <3>3 DEF AtBit
  <2>3. CASE l < HEADER
    <3>1. p = l
      BY <1>6, <1>9, <1>10, <2>3
    <3>2. l \notin Blocks
      <4> SUFFICES ASSUME NEW j \in Nat, l = HEADER + j * BUFFER PROVE FALSE
        BY DEF Blocks
      <4>1. j * BUFFER \in Nat
        BY <1>6
      <4> QED BY <1>6, <1>9, <2>3, <4>1
    <3>3. Closed
      <4>1. l > 0 => Exited
        BY <1>9, <3>2, Piped DEF Grown
      <4>2. Available(pairs, packed.file) = l
        BY <1>9, <1>11 DEF Available
      <4>3. l > 0 \/ Closed
        BY <1>1, <4>2 DEF Readable
      <4> QED BY <4>1, <4>3, Piped
    <3>4. Between(pairs', packed.file, Exited, Closed, HEADER)
      BY <1>9, <2>1, <2>3, <3>1, <3>3 DEF Between
    <3>5. pairs'.pos <= Len(packed.file) /\ pairs'.pos = Len(packed.file)
      BY <1>9, <2>1, <3>1
    <3> QED BY <3>3, <3>4, <3>5 DEF AtBit
  <2> QED BY <1>6, <1>9, <2>2, <2>3
<1>15. BitsAt(marks, 0) = HEADER /\ CodeAt(marks, 0) = START_CODE
  BY DEF BitsAt, CodeAt
<1>16. Framing(0)'
  <2>1. Len(bits') = 0
    BY <1>1, <1>5
  <2>2. Taken(bits', packed'.file, Exited', HEADER)
    BY <2>1 DEF Taken
  <2>3. AtBit(pairs', packed'.file, Exited', Closed', HEADER + Len(bits'))
    BY <1>2, <1>3, <1>6, <1>14, <2>1 DEF Exited, Closed
  <2>4. Len(bits') <= Width("decode")'
    <3>1. next_code'["decode"] \in Codes
      BY <1>1 DEF Inv, Types, Programs
    <3>2. bitlen(next_code'["decode"]) \in Nat /\ BITS \in Nat
      BY <3>1, CodeWidth, LZ78Assumption
    <3> QED BY <2>1, <3>2 DEF Width
  <2> QED BY <1>1, <1>2, <1>5, <1>7, <1>15, <2>2, <2>3, <2>4 DEF Framing
<1>17. Decoding(0)'
  <2>1. Narrow' => Content(0)'
    BY <1>1, <1>2, <1>4, <1>5 DEF Decoding, Narrow, Content
  <2> QED BY <1>3, <1>16, <2>1 DEF Decoding
<1>18. Decoder'
  BY <1>0, <1>1, <1>2, <1>4, <1>5, <1>17 DEF Decoder
<1>19. Types'
  <2>1. /\ next_code' \in [Programs -> Codes] /\ bits' \in Seq(0 .. 1) /\ words' \in Writers(Nat) /\ Len(words'.buf) <= BLOCK
        /\ stale' \in Seq(Nat)
        /\ DOMAIN table' = Nodes(next_code'["decode"]) /\ \A c \in DOMAIN table' : table'[c] \in Seq(Nat)
    BY <1>1 DEF Inv, Types
  <2> QED BY <1>3, <1>7, <1>8, <1>13, <2>1, DecodeTypes DEF DecodeStates
<1> QED BY <1>8, <1>18, <1>19, EncodingKept DEF Inv

(* decode in the middle of a pair. *)
LEMMA InPair ==
  ASSUME Inv, NEW d \in 0 .. Len(marks), Framing(d)
  PROVE  /\ BitsAt(marks, d) \in Nat /\ Width("decode") = PairWidth(marks, d) /\ Width("decode") \in Nat /\ Width("decode") > BITS
         /\ CodeAt(marks, d) \in Codes
         /\ pairs \in Readers /\ bits \in Seq(0 .. 1) /\ Len(bits) \in Nat /\ Len(pairs.buf) = BUFFER
         /\ AtBit(pairs, packed.file, Exited, Closed, BitsAt(marks, d) + Len(bits))
         /\ Taken(bits, packed.file, Exited, BitsAt(marks, d))
<1>1. GoodMarks(marks, consumed) /\ pairs \in Readers /\ bits \in Seq(0 .. 1)
  BY DEF Inv, Types, Encoding, Sent
<1>2. BitsAt(marks, d) \in Nat /\ CodeAt(marks, d) \in Codes /\ PairWidth(marks, d) \in Nat /\ PairWidth(marks, d) > BITS
  BY <1>1, AtTypes
<1>3. Width("decode") = PairWidth(marks, d)
  BY DEF Framing, Width, PairWidth
<1>4. Len(pairs.buf) = BUFFER
  BY <1>1, Widths DEF Readers
<1> QED BY <1>1, <1>2, <1>3, <1>4 DEF Framing

(* A step of the decoder that keeps what it has decoded. *)
LEMMA KeptTypes ==
  ASSUME Inv, Awaiting, next_code' = next_code, total_bits' = total_bits, table' = table, words' = words,
         pc' = pc, pairs' \in Readers, bits' \in Seq(0 .. 1), stale' \in Seq(Nat)
  PROVE  Types'
<1>1. /\ next_code' \in [Programs -> Codes] /\ total_bits' \in [Programs -> Nat]
      /\ pc' \in [Programs -> EncodeStates \cup DecodeStates] /\ pc'["decode"] \in DecodeStates
      /\ words' \in Writers(Nat) /\ Len(words'.buf) <= BLOCK
      /\ DOMAIN table' = Nodes(next_code'["decode"]) /\ \A c \in DOMAIN table' : table'[c] \in Seq(Nat)
  BY DEF Inv, Types
<1> QED BY <1>1, DecodeTypes

(* What decode has written is a sequence of symbols. *)
LEMMA WordsTyped ==
  ASSUME Inv
  PROVE  Whole(words) \in Seq(Nat) /\ Len(Whole(words)) \in Nat /\ Decoded = Whole(words)
<1>1. words \in Writers(Nat)
  BY DEF Inv, Types
<1>2. Whole(words) \in Seq(Nat)
  BY <1>1, Wholes
<1>3. PICK x \in Seq(Nat) : x = Whole(words)
  BY <1>2
<1>4. Len(x) \in Nat
  OBVIOUS
<1>5. Decoded = Whole(words)
  BY DEF Whole, Decoded
<1> QED BY <1>3, <1>4, <1>5

(* A read of nothing, when encode was killed: decode goes on with the block *)
(* before, and until then it has restored what came through the pipe.       *)
LEMMA GoesAstray ==
  ASSUME Inv, Awaiting, NEW d \in 0 .. Len(marks), Decoding(d), stale = << >>, pc["encode"] = "killed",
         pc["decode"] = "run", pc' = pc, words' = words, stale' = Append(stale, Len(Decoded)),
         pairs'.pos = Len(packed.file), pairs'.total = 0
  PROVE  Decoder'
<1>1. packed' = packed /\ consumed' = consumed /\ marks' = marks
  BY DEF Awaiting, encoder
<1>2. PICK x : x = Whole(words)
  OBVIOUS
<1>3. x \in Seq(Nat) /\ Len(x) \in Nat /\ Decoded = x
  BY <1>2, WordsTyped
<1>4. stale' # << >> /\ stale'[1] = Len(x)
  BY <1>3
<1>5. Whole(words') = x
  BY <1>2
<1>6. ASSUME Narrow' PROVE \E n \in 0 .. Len(consumed) : SubSeq(x, 1, stale'[1]) = SubSeq(consumed, 1, n)
  <2>1. Narrow
    BY <1>1, <1>6 DEF Narrow
  <2>2. x = SubSeq(consumed, 1, SymsAt(marks, d))
    BY <1>2, <2>1 DEF Decoding, Content, Restored
  <2>3. SymsAt(marks, d) \in 0 .. Len(consumed)
    <3>1. GoodMarks(marks, consumed)
      BY DEF Inv, Encoding, Sent
    <3> QED BY <3>1, AtTypes
  <2>4. SubSeq(x, 1, Len(x)) = x
    BY <1>3
  <2> QED BY <1>4, <2>2, <2>3, <2>4
<1>7. Astray'
  <2>1. pc'["encode"] = "killed" /\ pc'["decode"] = "run"
    OBVIOUS
  <2> QED BY <1>1, <1>3, <1>4, <1>5, <1>6, <2>1 DEF Astray
<1> QED BY <1>4, <1>7 DEF Decoder

(* A read of decode: the one that would overrun the buffer does not happen. *)
LEMMA FillStep == Inv /\ stale = << >> /\ Fill => Inv'
<1> SUFFICES ASSUME Inv, stale = << >>, Fill PROVE Inv'
  OBVIOUS
<1>1. /\ input' = input /\ encoder' = encoder /\ next_code' = next_code /\ total_bits' = total_bits
      /\ bits' = bits /\ table' = table /\ words' = words /\ output' = output
      /\ pc["decode"] = "run" /\ UsedUp(pairs) /\ Readable
  BY DEF Fill, Running
<1>2. packed' = packed /\ consumed' = consumed /\ marks' = marks /\ curr_node' = curr_node
  BY <1>1 DEF encoder
<1>3. PICK d \in 0 .. Len(marks) : Decoding(d)
  BY DEF Inv, Decoder
<1>4. Framing(d)
  BY <1>1, <1>3 DEF Decoding
<1>5. PICK a : a = BitsAt(marks, d) + Len(bits)
  OBVIOUS
<1>6. /\ pairs \in Readers /\ bits \in Seq(0 .. 1) /\ a \in Nat /\ Len(pairs.buf) = BUFFER
      /\ AtBit(pairs, packed.file, Exited, Closed, a)
  <2>1. BitsAt(marks, d) \in Nat /\ Len(bits) \in Nat
    BY <1>4, InPair
  <2> QED BY <1>4, <1>5, <2>1, InPair DEF Framing
<1>7. PICK r : /\ r = ReadOnce(pairs, packed.file)
               /\ \/ r.total > Len(r.buf) /\ Goto("decode", "overrun") /\ pairs' = r /\ UNCHANGED stale
                  \/ r.total < Len(r.buf) /\ r.pos > pairs.pos /\ pairs' = r /\ UNCHANGED <<pc, stale>>
                  \/ /\ r.total = Len(r.buf) \/ r.pos = pairs.pos
                     /\ pairs' = Filled(r)
                     /\ IF r.total = 0 /\ pc["encode"] = "killed"
                        THEN Len(stale) < MaxStale /\ stale' = Append(stale, Len(Decoded))
                        ELSE UNCHANGED stale
                     /\ UNCHANGED pc
  BY DEF Fill
<1>8. PICK l \in Nat : l = Len(packed.file)
  BY Piped
<1>9. pairs.pos \in Nat /\ pairs.pos <= l /\ pairs.index = BUFFER /\ BUFFER \in Nat /\ BUFFER > 0
  BY <1>1, <1>6, <1>8, Widths DEF AtBit, Readers, UsedUp
<1>10. Refilling(pairs, a, packed.file, Exited, Closed, r)
  <2>1. Len(packed.file) - pairs.pos > 0 \/ Closed
    BY <1>1 DEF Readable, Available
  <2> QED BY <1>6, <1>7, <1>9, <2>1, Piped DEF Refilling
<1>11. IsRead(pairs, a, packed.file, Exited, Closed, r)
  BY <1>10, ReadMore
<1>12. /\ r \in Readers /\ r.total <= BUFFER
       /\ r.pos = pairs.pos \/ r.pos > pairs.pos
       /\ r.pos = pairs.pos => pairs.pos = Len(packed.file)
       /\ r.total < BUFFER /\ r.pos > pairs.pos => AtBit(r, packed.file, Exited, Closed, a)
       /\ r.total = BUFFER \/ r.pos = pairs.pos =>
            /\ Filled(r) \in Readers
            /\ Exited \/ r.total # 0 => AtBit(Filled(r), packed.file, Exited, Closed, a)
  BY <1>11 DEF IsRead
<1>13. Len(r.buf) = BUFFER /\ r.total \in Nat
  BY <1>9, <1>12 DEF Readers
<1>14. pc' = pc
  BY <1>7, <1>9, <1>12, <1>13
<1>15. Awaiting
  BY <1>1, <1>14 DEF Awaiting
<1>16. CASE AtBit(pairs', packed.file, Exited, Closed, a) /\ pairs' \in Readers /\ stale' = stale
  <2>1. Framing(d)'
    BY <1>1, <1>2, <1>4, <1>5, <1>14, <1>16 DEF Framing, Width, Exited, Closed
  <2>2. Decoding(d)'
    <3>1. Narrow' => Content(d)'
      BY <1>1, <1>2, <1>3, <1>14 DEF Decoding, Narrow, Content
    <3> QED BY <1>1, <1>14, <2>1, <3>1 DEF Decoding
  <2>3. Decoder'
    BY <1>2, <1>3, <1>16, <2>2 DEF Decoder
  <2>4. Types'
    <3>1. stale' \in Seq(Nat)
      BY <1>16 DEF Inv, Types
    <3> QED BY <1>1, <1>6, <1>14, <1>15, <1>16, <3>1, KeptTypes
  <2> QED BY <1>15, <2>3, <2>4, EncodingKept DEF Inv
<1>17. CASE r.total < BUFFER /\ r.pos > pairs.pos /\ pairs' = r /\ stale' = stale
  BY <1>12, <1>16, <1>17
<1>18. CASE /\ r.total = BUFFER \/ r.pos = pairs.pos
            /\ pairs' = Filled(r)
            /\ IF r.total = 0 /\ pc["encode"] = "killed"
               THEN Len(stale) < MaxStale /\ stale' = Append(stale, Len(Decoded))
               ELSE stale' = stale
  <2>1. pairs' \in Readers /\ (Exited \/ r.total # 0 => AtBit(pairs', packed.file, Exited, Closed, a))
    BY <1>12, <1>18
  <2>2. CASE r.total = 0 /\ pc["encode"] = "killed"
    <3>1. stale' = Append(stale, Len(Decoded))
      BY <1>18, <2>2
    <3>2. pairs'.pos = Len(packed.file) /\ pairs'.total = 0
      BY <1>9, <1>12, <1>18, <2>2 DEF Filled
    <3>3. Decoder'
      BY <1>1, <1>3, <1>14, <1>15, <2>2, <3>1, <3>2, GoesAstray
    <3>4. stale' \in Seq(Nat)
      <4>1. Len(Decoded) \in Nat
        BY WordsTyped
      <4> QED BY <3>1, <4>1 DEF Inv, Types
    <3>5. Types'
      BY <1>1, <1>6, <1>14, <1>15, <2>1, <3>4, KeptTypes
    <3> QED BY <1>15, <3>3, <3>5, EncodingKept DEF Inv
  <2>3. CASE ~(r.total = 0 /\ pc["encode"] = "killed")
    <3>1. Exited \/ r.total # 0
      <4> SUFFICES ASSUME r.total = 0 PROVE Exited
        OBVIOUS
      <4>1. pairs.pos = Len(packed.file)
        BY <1>9, <1>12, <1>18
      <4>2. Closed
        BY <1>1, <1>8, <4>1 DEF Readable, Available
      <4> QED BY <2>3, <4>2 DEF Closed, Exited
    <3>2. stale' = stale
      BY <1>18, <2>3
    <3> QED BY <1>16, <2>1, <3>1, <3>2
  <2> QED BY <2>2, <2>3
<1> QED BY <1>7, <1>9, <1>12, <1>13, <1>17, <1>18

(* Bits of a pair are taken. *)
LEMMA TakeStep == Inv /\ stale = << >> /\ Take => Inv'
<1> SUFFICES ASSUME Inv, stale = << >>, Take PROVE Inv'
  OBVIOUS
<1>1. /\ input' = input /\ encoder' = encoder /\ next_code' = next_code /\ total_bits' = total_bits /\ pc' = pc
      /\ table' = table /\ words' = words /\ output' = output /\ stale' = stale
      /\ pc["decode"] = "run" /\ Len(bits) < Width("decode") /\ ~UsedUp(pairs)
  BY DEF Take, Running
<1>2. packed' = packed /\ consumed' = consumed /\ marks' = marks /\ curr_node' = curr_node
  BY <1>1 DEF encoder
<1>3. PICK d \in 0 .. Len(marks) : Decoding(d)
  BY DEF Inv, Decoder
<1>4. Framing(d)
  BY <1>1, <1>3 DEF Decoding
<1>5. PICK t : t = TakeBits(pairs, bits, Width("decode")) /\ pairs' = t.reader /\ bits' = t.bits
  BY DEF Take
<1>6. pairs.index # BUFFER
  BY <1>1, <1>4, InPair DEF UsedUp
<1>7. Taking(pairs, BitsAt(marks, d), bits, packed.file, Exited, Closed, Width("decode"), t)
  BY <1>1, <1>4, <1>5, <1>6, InPair, Piped DEF Taking
<1>8. IsTaken(packed.file, Exited, Closed, Width("decode"), BitsAt(marks, d), t)
  BY <1>7, TakeMore
<1>9. /\ pairs' \in Readers /\ bits' \in Seq(0 .. 1) /\ Len(bits') <= Width("decode")
      /\ AtBit(pairs', packed.file, Exited, Closed, BitsAt(marks, d) + Len(bits'))
      /\ Taken(bits', packed.file, Exited, BitsAt(marks, d))
  BY <1>5, <1>8 DEF IsTaken
<1> HIDE <1>5
<1>10. Framing(d)'
  BY <1>1, <1>2, <1>4, <1>9 DEF Framing, Width, Exited, Closed
<1>11. Decoding(d)'
  <2>1. Narrow' => Content(d)'
    BY <1>1, <1>2, <1>3 DEF Decoding, Narrow, Content
  <2> QED BY <1>1, <1>10, <2>1 DEF Decoding
<1>12. Decoder'
  BY <1>1, <1>2, <1>3, <1>11 DEF Decoder
<1>13. Awaiting
  BY <1>1 DEF Awaiting
<1>14. Types'
  <2>1. stale' \in Seq(Nat)
    BY <1>1 DEF Inv, Types
  <2> QED BY <1>1, <1>9, <1>13, <2>1, KeptTypes
<1> QED BY <1>12, <1>13, <1>14, EncodingKept DEF Inv

(* The bits of a pair of the encoder are those of its stream. *)
LEMMA PairInside ==
  ASSUME Inv, NEW d \in 0 .. Len(marks), Framing(d), Len(bits) = Width("decode"), d # Len(marks)
  PROVE  /\ d \in 0 .. Len(marks) - 1 /\ d + 1 \in 0 .. Len(marks)
         /\ BitsAt(marks, d + 1) = BitsAt(marks, d) + Width("decode")
         /\ CodeAt(marks, d + 1) = Succ(CodeAt(marks, d))
         /\ \A i \in 1 .. Len(bits) : bits[i] = Stream[BitsAt(marks, d) + i]
<1>1. GoodMarks(marks, consumed) /\ marks \in Seq(MarkSet)
  BY DEF Inv, Encoding, Sent, GoodMarks
<1>2. Len(marks) \in Nat /\ d \in Nat /\ d + 1 \in 1 .. Len(marks) /\ d + 1 \in 0 .. Len(marks) /\ d \in 0 .. Len(marks) - 1
      /\ Len(marks) \in 0 .. Len(marks) /\ (d + 1) - 1 = d /\ d + 1 # 0
  BY <1>1
<1>3. PICK a \in Nat, w \in Nat, b \in Nat, n \in Nat :
        /\ a = BitsAt(marks, d) /\ w = Width("decode") /\ b = BitsAt(marks, d + 1) /\ n = Len(packed.file)
        /\ w = PairWidth(marks, d) /\ w > 0
  <2>1. BITS \in Nat
    BY LZ78Assumption
  <2>2. /\ BitsAt(marks, d) \in Nat /\ Width("decode") = PairWidth(marks, d)
        /\ Width("decode") \in Nat /\ Width("decode") > BITS
    BY InPair
  <2>3. Width("decode") > 0
    BY <2>1, <2>2
  <2>4. BitsAt(marks, d + 1) \in Nat
    BY <1>1, <1>2, AtTypes
  <2>5. Len(packed.file) \in Nat
    BY Piped
  <2> QED BY <2>2, <2>3, <2>4, <2>5
<1>4. GoodMark(marks, Len(consumed), d + 1)
  BY <1>1, <1>2 DEF GoodMarks
<1>5. /\ BitsAt(marks, d + 1) = BitsAt(marks, d) + Width("decode")
      /\ CodeAt(marks, d + 1) = Succ(CodeAt(marks, d))
  <2>1. marks[d + 1].bits = BitsAt(marks, d) + PairWidth(marks, d) /\ marks[d + 1].code = CodeAt(marks, d)
    BY <1>2, <1>4 DEF GoodMark
  <2>2. BitsAt(marks, d + 1) = marks[d + 1].bits /\ CodeAt(marks, d + 1) = Succ(marks[d + 1].code)
    BY <1>2 DEF BitsAt, CodeAt
  <2> QED BY <1>3, <2>1, <2>2
<1>6. b = a + w
  BY <1>3, <1>5
<1>7. a + Len(bits) <= n
  <2>1. Taken(bits, packed.file, Exited, a)
    BY <1>3, InPair
  <2>2. Len(bits) = w
    BY <1>3
  <2>3. CASE a + w <= n
    BY <2>2, <2>3
  <2>4. CASE Exited
    <3>1. Stream = packed.file /\ StopAt < Len(Stream)
      BY <2>4 DEF Inv, Encoding, Written, Exited
    <3>2. b <= LastBit /\ LastBit \in Nat /\ LastCode \in Codes
      BY <1>1, <1>2, <1>3, AtTypes DEF LastBit, LastCode
    <3>3. bitlen(LastCode) \in Nat
      BY <3>2, CodeWidth
    <3>4. LastBit <= StopAt /\ StopAt \in Nat
      BY <3>2, <3>3 DEF StopAt
    <3> QED BY <1>3, <1>6, <2>2, <3>1, <3>2, <3>4
  <2> QED BY <1>3, <2>1, <2>2, <2>3, <2>4 DEF Taken
<1>8. ASSUME NEW i \in 1 .. Len(bits) PROVE bits[i] = Stream[a + i]
  <2>1. Len(bits) = w
    BY <1>3
  <2>2. i \in Nat /\ i >= 1 /\ i <= w
    BY <1>3, <1>8, <2>1
  <2>3. a + i \in 1 .. n /\ a + i <= n
    BY <1>3, <1>7, <2>1, <2>2
  <2>4. bits[i] = packed.file[a + i]
    BY <1>3, <1>8, <2>3, InPair DEF Taken
  <2>5. \A j \in 1 .. n : Stream[j] = packed.file[j]
    BY <1>3, Piped DEF Extends
  <2> QED BY <2>3, <2>4, <2>5
<1> QED BY <1>2, <1>3, <1>5, <1>8

(* After the last pair of the encoder there is its STOP pair, or what is     *)
(* left of it.                                                               *)
LEMMA AfterLast ==
  ASSUME Inv, Framing(Len(marks)), Len(bits) = Width("decode"),
         NEW p, p = PairOf(bits, bitlen(next_code["decode"]))
  PROVE  /\ ~Active /\ Complete
         /\ p.code \notin DOMAIN table
         /\ p.code # STOP_CODE => LastPairFillsDictionary
<1>1. GoodMarks(marks, consumed) /\ marks \in Seq(MarkSet)
  BY DEF Inv, Encoding, Sent, GoodMarks
<1>2. Len(marks) \in 0 .. Len(marks) /\ Len(marks) \in Nat
  BY <1>1
<1>3. PICK a \in Nat, w \in Nat, n \in Nat, m \in Nat :
        /\ a = LastBit /\ w = Width("decode") /\ n = Len(packed.file) /\ m = Len(Stream) /\ w > 0 /\ n <= m
        /\ a >= HEADER
  <2>1. BITS \in Nat
    BY LZ78Assumption
  <2>2. LastBit \in Nat /\ LastBit >= HEADER /\ Width("decode") \in Nat /\ Width("decode") > BITS
    BY <1>1, <1>2, InPair, AtTypes DEF LastBit
  <2>3. Len(packed.file) \in Nat /\ Len(Stream) \in Nat /\ Len(packed.file) <= Len(Stream)
    BY Piped
  <2> QED BY <2>1, <2>2, <2>3
<1>4. /\ bits \in Seq(0 .. 1) /\ Taken(bits, packed.file, Exited, a) /\ Len(bits) = w
      /\ next_code["decode"] = LastCode /\ LastCode \in Codes
  BY <1>2, <1>3, InPair DEF LastBit, LastCode, Framing
<1>5. PICK c \in Nat : c = bitlen(LastCode) /\ c > 0 /\ c + BITS = w
  <2>1. bitlen(LastCode) \in Nat /\ bitlen(LastCode) > 0
    BY <1>4, CodeWidth
  <2> QED BY <1>3, <1>4, <2>1 DEF Width
<1>6. a + w <= n \/ Exited
  BY <1>3, <1>4 DEF Taken
<1>7. ~Active /\ Complete
  <2>1. pc["encode"] \in EncodeStates
    BY DEF Inv, Types
  <2>2. CASE Exited
    BY <2>2 DEF Exited, Active, Inv, Encoding, Written
  <2>3. CASE a + w <= n /\ pc["encode"] = "header"
    <3>1. packed = NewWriter
      BY <2>3 DEF Inv, Encoding, Written
    <3>2. n = 0
      BY <1>3, <3>1, Nothing
    <3> QED BY <1>3, <2>3, <3>2
  <2>4. CASE a + w <= n /\ pc["encode"] = "run"
    <3>1. Packing(marks, consumed, packed)
      BY <2>4 DEF Inv, Encoding, Written
    <3>2. m = a
      BY <1>3, <3>1 DEF Packing, Stream, LastBit
    <3> QED BY <1>3, <2>4, <3>2
  <2>5. CASE pc["encode"] = "flush"
    BY <2>5 DEF Active, Inv, Encoding, Written
  <2>6. CASE a + w <= n /\ pc["encode"] = "killed"
    <3>1. packed # NewWriter
      <4> SUFFICES ASSUME packed = NewWriter PROVE FALSE
        OBVIOUS
      <4>1. n = 0
        BY <1>3, Nothing
      <4> QED BY <1>3, <2>6, <4>1
    <3>2. LastBit < Len(Stream) => Complete
      BY <2>6, <3>1 DEF Inv, Encoding, Written
    <3>3. LastBit < Len(Stream)
      BY <1>3, <2>6
    <3> QED BY <2>6, <3>2, <3>3 DEF Active
  <2> QED BY <1>6, <2>1, <2>2, <2>3, <2>4, <2>5, <2>6 DEF EncodeStates, Exited
<1>8. ASSUME NEW i \in 1 .. w, a + i <= n PROVE bits[i] = 0
  <2>1. i \in Nat /\ i >= 1
    BY <1>3, <1>8
  <2>2. a + i \in 1 .. m /\ a + i > a /\ a + i \in 1 .. n
    BY <1>3, <1>8, <2>1
  <2>3. bits[i] = packed.file[a + i]
    BY <1>3, <1>4, <1>8 DEF Taken
  <2>4. Stream[a + i] = packed.file[a + i]
    BY <1>3, <2>2, Piped DEF Extends
  <2>5. Stream[a + i] = 0
    <3>1. Ended(marks, Stream)
      BY DEF Inv, Encoding, Sent
    <3> QED BY <1>3, <2>2, <3>1 DEF Ended, LastBit
  <2> QED BY <2>3, <2>4, <2>5
<1>9. /\ p.code \in Nat
      /\ (\A i \in 1 .. c : bits[i] = 0) => p.code = 0
      /\ c > 0 /\ bits[1] = 0 => p.code # 1
  <2>1. p = PairOf(bits, c)
    BY <1>4, <1>5
  <2> QED BY <1>4, <1>5, <2>1, CodeRead
<1>10. DOMAIN table = Nodes(LastCode)
  BY <1>4 DEF Inv, Types
<1>11. CASE a + w <= n
  <2>1. ASSUME NEW i \in 1 .. c PROVE i \in 1 .. w /\ a + i <= n
    <3>1. BITS \in Nat /\ c \in Nat /\ c + BITS = w
      BY <1>5, LZ78Assumption
    <3>2. i \in Nat /\ i >= 1 /\ i <= w
      BY <3>1
    <3> QED BY <1>3, <1>11, <3>2
  <2>2. p.code = 0
    BY <1>8, <1>9, <2>1
  <2> QED BY <1>4, <1>7, <1>10, <2>2, CodesNat DEF STOP_CODE
<1>12. CASE ~(a + w <= n)
  <2>1. Stream = packed.file /\ StopAt < Len(Stream)
    BY <1>6, <1>12 DEF Inv, Encoding, Written, Exited
  <2>2. n = m
    BY <1>3, <2>1
  <2>3. CASE ~LastPairFillsDictionary
    <3>1. a + c < n
      BY <1>3, <1>5, <2>1, <2>2, <2>3 DEF StopAt
    <3>2. \A i \in 1 .. c : i \in 1 .. w /\ a + i <= n
      BY <1>3, <1>5, <3>1, LZ78Assumption
    <3>3. p.code = 0
      BY <1>8, <1>9, <3>2
    <3> QED BY <1>4, <1>7, <1>10, <3>3, CodesNat DEF STOP_CODE
  <2>4. CASE LastPairFillsDictionary
    <3>1. a + 0 < n
      BY <1>3, <2>1, <2>2, <2>4 DEF StopAt
    <3>2. 1 \in 1 .. w /\ a + 1 <= n
      BY <1>3, <3>1
    <3>3. p.code # 1
      BY <1>5, <1>8, <1>9, <3>2
    <3>4. LastCode = START_CODE
      BY <1>7, <2>4 DEF Complete
    <3>5. Nodes(START_CODE) = {1}
      BY DEF Nodes, START_CODE, EMPTY_CODE
    <3> QED BY <1>7, <1>10, <2>4, <3>3, <3>4, <3>5
  <2> QED BY <2>3, <2>4
<1> QED BY <1>11, <1>12

(* decode has a pair whose code is in its table: what it does with it ...   *)
AddsWord(p, code, w, word) ==
  /\ Types' /\ Awaiting
  /\ next_code["decode"] = code /\ code \in Codes /\ bitlen(code) \in Nat /\ w \in Nat /\ bitlen(code) + BITS = w
  /\ word = Append(table[p.code], p.sym) /\ word \in Seq(Nat)
  /\ Whole(words') = Whole(words) \o word
  /\ table' = NextTable(table, code, word) /\ DOMAIN table' = Nodes(Succ(code))
  /\ next_code'["decode"] = Succ(code)
  /\ total_bits'["decode"] = total_bits["decode"] + w

LEMMA WordAdded ==
  ASSUME Inv, pc["decode"] = "run", Len(bits) = Width("decode"),
         NEW p, p = PairOf(bits, bitlen(next_code["decode"])), p.code \in DOMAIN table,
         words' = write_word(words, word_append_sym(table[p.code], p.sym)),
         AddWord(word_append_sym(table[p.code], p.sym), next_code["decode"]),
         pc' = pc, bits' = << >>, Counted("decode", Width("decode")), input' = input, encoder' = encoder, pairs' = pairs,
         stale' = stale
  PROVE  AddsWord(p, next_code["decode"], Width("decode"), Append(table[p.code], p.sym))
<1>4. PICK code, w : code = next_code["decode"] /\ w = Width("decode")
  OBVIOUS
<1>5. /\ code \in Codes /\ w \in Nat /\ bitlen(code) \in Nat /\ bitlen(code) + BITS = w
      /\ bits \in Seq(0 .. 1) /\ Len(bits) = w /\ total_bits["decode"] \in Nat
  <2>1. code \in Codes /\ bits \in Seq(0 .. 1) /\ total_bits["decode"] \in Nat
    BY <1>4 DEF Inv, Types, Programs
  <2>2. bitlen(code) \in Nat /\ BITS \in Nat
    BY <2>1, CodeWidth, LZ78Assumption
  <2> QED BY <1>4, <2>1, <2>2 DEF Width
<1>6. PICK word : word = Append(table[p.code], p.sym)
  OBVIOUS
<1>7. word \in Seq(Nat)
  <2>1. p.sym \in Nat
    BY <1>4, <1>5, CodeRead
  <2>2. table[p.code] \in Seq(Nat)
    BY DEF Inv, Types
  <2> QED BY <1>6, <2>1, <2>2
<1>8. PICK v : v = words'
  OBVIOUS
<1>9. v = write_word(words, word)
  BY <1>6, <1>8 DEF word_append_sym
<1>10. v \in Writers(Nat) /\ Whole(v) = Whole(words) \o word /\ Len(v.buf) <= BLOCK
  <2>1. words \in Writers(Nat) /\ Len(words.buf) <= BLOCK
    BY DEF Inv, Types
  <2> QED BY <1>7, <1>9, <2>1, WordWritten
<1>11. PICK t2 : t2 = NextTable(table, code, word)
  OBVIOUS
<1>12. /\ next_code' = [next_code EXCEPT !["decode"] = Succ(code)] /\ table' = t2
  BY <1>4, <1>6, <1>11 DEF AddWord, NextCodeIs, Succ, NextTable, word_append_sym
<1>13. /\ next_code' \in [Programs -> Codes] /\ next_code'["decode"] = Succ(code)
       /\ next_code'["encode"] = next_code["encode"]
  <2>1. Succ(code) \in Codes
    BY <1>5, Succession
  <2>2. next_code \in [Programs -> Codes]
    BY DEF Inv, Types
  <2> QED BY <1>12, <2>1, <2>2 DEF Programs
<1>14. DOMAIN t2 = Nodes(Succ(code)) /\ \A c \in DOMAIN t2 : t2[c] \in Seq(Nat)
  <2>1. DOMAIN table = Nodes(code) /\ \A c \in DOMAIN table : table[c] \in Seq(Nat)
    BY <1>4 DEF Inv, Types
  <2> QED BY <1>5, <1>7, <1>11, <2>1, TableTyped
<1>15. /\ total_bits' \in [Programs -> Nat] /\ total_bits'["decode"] = total_bits["decode"] + w
       /\ total_bits'["encode"] = total_bits["encode"]
  <2>1. total_bits \in [Programs -> Nat] /\ total_bits' = [total_bits EXCEPT !["decode"] = @ + w]
    BY <1>4, <1>5 DEF Counted, Inv, Types
  <2>2. total_bits["decode"] + w \in Nat
    BY <1>5
  <2> QED BY <2>1, <2>2 DEF Programs
<1>16. Awaiting
  BY <1>13, <1>15 DEF Awaiting
<1>17. Types'
  <2>1. /\ pc' \in [Programs -> EncodeStates \cup DecodeStates] /\ pc'["decode"] \in DecodeStates /\ pairs' \in Readers
        /\ stale' \in Seq(Nat)
    BY DEF Inv, Types
  <2>2. << >> \in Seq(0 .. 1)
    OBVIOUS
  <2> QED BY <1>8, <1>10, <1>12, <1>13, <1>14, <1>15, <1>16, <2>1, <2>2, DecodeTypes
<1>18. AddsWord(p, code, w, word)
  BY <1>4, <1>5, <1>6, <1>7, <1>8, <1>10, <1>11, <1>12, <1>13, <1>14, <1>15, <1>16, <1>17 DEF AddsWord
<1> QED BY <1>4, <1>6, <1>18

(* ... and that it is the next word of the file. *)
LEMMA WordStep ==
  ASSUME Inv, NEW d \in 0 .. Len(marks), d # Len(marks), Decoding(d), pc["decode"] = "run",
         Len(bits) = Width("decode"),
         NEW p, p = PairOf(bits, bitlen(next_code["decode"])), p.code \in DOMAIN table,
         AddsWord(p, next_code["decode"], Width("decode"), Append(table[p.code], p.sym)),
         pc' = pc, bits' = << >>, input' = input, encoder' = encoder, pairs' = pairs
  PROVE  Decoding(d + 1)'
<1>1. Framing(d)
  BY DEF Decoding
<1>2. packed' = packed /\ consumed' = consumed /\ marks' = marks /\ curr_node' = curr_node
  BY DEF encoder
<1>3. GoodMarks(marks, consumed) /\ SentAll(marks, consumed, Stream)
  BY DEF Inv, Encoding, Sent
<1>4. PICK code, w : code = CodeAt(marks, d) /\ w = Width("decode")
  OBVIOUS
<1>6. PICK word : word = Append(table[p.code], p.sym)
  OBVIOUS
<1>9. next_code["decode"] = code
  BY <1>1, <1>4 DEF Framing
<1>7. AddsWord(p, code, w, word)
  BY <1>4, <1>6, <1>9
<1>5. /\ next_code["decode"] = code /\ code \in Codes /\ w = PairWidth(marks, d) /\ w \in Nat
      /\ bitlen(code) \in Nat /\ bitlen(code) + BITS = w /\ bits \in Seq(0 .. 1) /\ Len(bits) = w
      /\ total_bits["decode"] = BitsAt(marks, d) /\ BitsAt(marks, d) \in Nat
  BY <1>1, <1>4, <1>7, <1>9, InPair DEF Framing, AddsWord
<1>8. PICK v : v = words'
  OBVIOUS
<1>11. PICK t2 : t2 = NextTable(table, code, word)
  OBVIOUS
<1>10. Whole(v) = Whole(words) \o word
  BY <1>8, <1>7 DEF AddsWord
<1>12. table' = t2
  BY <1>11, <1>7 DEF AddsWord
<1>13. next_code'["decode"] = Succ(code)
  BY <1>7 DEF AddsWord
<1>14. DOMAIN t2 = Nodes(Succ(code))
  BY <1>12, <1>7 DEF AddsWord
<1>15. total_bits'["decode"] = BitsAt(marks, d) + w
  BY <1>5, <1>7 DEF AddsWord
<1>18. /\ d \in 0 .. Len(marks) - 1 /\ d + 1 \in 0 .. Len(marks)
       /\ BitsAt(marks, d + 1) = BitsAt(marks, d) + w
       /\ CodeAt(marks, d + 1) = Succ(code)
       /\ \A i \in 1 .. Len(bits) : bits[i] = Stream[BitsAt(marks, d) + i]
  BY <1>1, <1>4, PairInside
<1>19. Framing(d + 1)'
  <2>1. BitsAt(marks, d) + Len(bits) = BitsAt(marks, d + 1) + Len(<< >>)
    BY <1>5, <1>18
  <2>2. AtBit(pairs, packed.file, Exited, Closed, BitsAt(marks, d + 1) + Len(<< >>))
    BY <1>1, <2>1 DEF Framing
  <2>3. Taken(<< >>, packed.file, Exited, BitsAt(marks, d + 1))
    BY DEF Taken
  <2>4. Len(<< >>) <= Width("decode")'
    <3>1. bitlen(next_code'["decode"]) \in Nat /\ BITS \in Nat
      BY <1>13, Succession, <1>5, CodeWidth, LZ78Assumption
    <3> QED BY <3>1 DEF Width
  <2> QED BY <1>2, <1>13, <1>15, <1>18, <2>2, <2>3, <2>4 DEF Framing, Exited, Closed
<1>20. ASSUME Narrow PROVE Content(d + 1)'
  <2>1. Content(d)
    BY <1>20 DEF Decoding
  <2>2. bitlen(code) <= BITS
    <3>1. code = marks[d + 1].code /\ d + 1 \in 1 .. Len(marks)
      <4>1. d + 1 \in 1 .. Len(marks) /\ (d + 1) - 1 = d
        BY <1>3, <1>18 DEF GoodMarks
      <4>2. GoodMark(marks, Len(consumed), d + 1)
        BY <1>3, <4>1 DEF GoodMarks
      <4> QED BY <1>4, <4>1, <4>2 DEF GoodMark
    <3> QED BY <1>20, <3>1 DEF Narrow
  <2>3. PICK node \in Nodes(CodeAt(marks, d)), sym \in Symbols : IsPairRead(marks, consumed, d, bits, node, sym)
    <3>1. PICK b : b = Stream
      OBVIOUS
    <3>2. SentAll(marks, consumed, b) /\ \A i \in 1 .. Len(bits) : bits[i] = b[BitsAt(marks, d) + i]
      BY <1>3, <1>18, <3>1
    <3>3. bits \in Seq(0 .. 1) /\ Len(bits) = PairWidth(marks, d) /\ bitlen(CodeAt(marks, d)) <= BITS
      BY <1>4, <1>5, <2>2
    <3> QED BY <1>3, <1>18, <3>2, <3>3, PairKnown
  <2>4. p.code = node /\ p.sym = sym
    BY <1>4, <1>5, <2>3 DEF IsPairRead
  <2>5. word = WordAt(marks, consumed, d + 1)
    BY <1>4, <1>5, <1>6, <2>1, <2>3, <2>4 DEF IsPairRead, Content
  <2>6. Whole(v) = Restored(marks, consumed, d + 1)
    BY <1>3, <1>10, <1>18, <2>1, <2>5, RestoredMore DEF Content
  <2>7. \A c \in Nodes(CodeAt(marks, d + 1)) : t2[c] = Named(marks, consumed, d + 1, c)
    <3>1. DOMAIN table = Nodes(CodeAt(marks, d)) /\ \A c \in DOMAIN table : table[c] = Named(marks, consumed, d, c)
      BY <1>4, <1>5, <2>1 DEF Content, Inv, Types
    <3>2. t2 = NextTable(table, CodeAt(marks, d), WordAt(marks, consumed, d + 1))
      BY <1>4, <1>11, <2>5
    <3> QED BY <1>3, <1>18, <3>1, <3>2, TableRight
  <2> QED BY <1>2, <1>8, <1>12, <1>14, <1>18, <2>6, <2>7 DEF Content
<1>21. Decoding(d + 1)'
  <2>1. Narrow' => Narrow
    BY <1>2 DEF Narrow
  <2> QED BY <1>19, <1>20, <2>1 DEF Decoding
<1> QED BY <1>21

(* decode has a pair whose code is not in its table: STOP, or a crash.      *)
Stops(p) ==
  /\ p.code = STOP_CODE => pc' = [pc EXCEPT !["decode"] = "done"] /\ output' = flush_words(words)
  /\ p.code # STOP_CODE => pc' = [pc EXCEPT !["decode"] = "crashed"]
  /\ words' = words /\ table' = table /\ next_code' = next_code /\ bits' = << >>
  /\ Counted("decode", Width("decode")) /\ input' = input /\ encoder' = encoder /\ pairs' = pairs
  /\ stale' = stale

LEMMA Stopped ==
  ASSUME Inv, NEW p, Stops(p)
  PROVE  /\ Types' /\ Awaiting
         /\ pc'["encode"] = pc["encode"] /\ pc'["decode"] = IF p.code = STOP_CODE THEN "done" ELSE "crashed"
<1>4. /\ pc' \in [Programs -> EncodeStates \cup DecodeStates] /\ pc'["encode"] = pc["encode"]
      /\ pc'["decode"] = IF p.code = STOP_CODE THEN "done" ELSE "crashed"
  <2>1. CASE p.code = STOP_CODE
    BY <2>1 DEF Stops, Inv, Types, Programs, DecodeStates
  <2>2. CASE p.code # STOP_CODE
    BY <2>2 DEF Stops, Inv, Types, Programs, DecodeStates
  <2> QED BY <2>1, <2>2
<1>5. total_bits' \in [Programs -> Nat] /\ total_bits'["encode"] = total_bits["encode"]
  <2>1. next_code["decode"] \in Codes /\ total_bits["decode"] \in Nat
    BY DEF Inv, Types, Programs
  <2>2. Width("decode") \in Nat
    BY <2>1, CodeWidth, LZ78Assumption DEF Width
  <2>3. total_bits["decode"] + Width("decode") \in Nat
    BY <2>1, <2>2
  <2> QED BY <2>3 DEF Stops, Counted, Inv, Types, Programs
<1>6. Awaiting
  BY <1>4, <1>5 DEF Awaiting, Stops
<1>7. Types'
  <2>1. /\ next_code' \in [Programs -> Codes] /\ words' \in Writers(Nat) /\ Len(words'.buf) <= BLOCK /\ pairs' \in Readers
        /\ DOMAIN table' = Nodes(next_code'["decode"]) /\ \A c \in DOMAIN table' : table'[c] \in Seq(Nat)
        /\ stale' \in Seq(Nat)
    BY DEF Inv, Types, Stops
  <2>2. bits' \in Seq(0 .. 1)
    BY DEF Stops
  <2>3. pc'["decode"] \in DecodeStates
    BY <1>4 DEF DecodeStates
  <2> QED BY <1>4, <1>5, <1>6, <2>1, <2>2, <2>3, DecodeTypes
<1> QED BY <1>4, <1>6, <1>7

(* Without an old block that is the end of the stream. *)
LEMMA StopStep ==
  ASSUME Inv, NEW d \in 0 .. Len(marks), Decoding(d), pc["decode"] = "run", Len(bits) = Width("decode"),
         NEW p, p = PairOf(bits, bitlen(next_code["decode"])), p.code \notin DOMAIN table, Stops(p)
  PROVE  Decoding(d)'
<1>1. Framing(d)
  BY DEF Decoding
<1>2. /\ packed' = packed /\ consumed' = consumed /\ marks' = marks /\ curr_node' = curr_node
      /\ input' = input /\ words' = words /\ next_code' = next_code
  BY DEF encoder, Stops
<1>3. GoodMarks(marks, consumed) /\ SentAll(marks, consumed, Stream) /\ consumed \in Seq(Symbols)
  BY DEF Inv, Encoding, Sent, GoodMarks
<1>4. pc'["encode"] = pc["encode"] /\ pc'["decode"] = IF p.code = STOP_CODE THEN "done" ELSE "crashed"
  BY Stopped
<1>8. ASSUME Narrow
      PROVE  /\ ~Active /\ Complete /\ Content(d) /\ Restored(marks, consumed, d) = consumed
             /\ p.code # STOP_CODE => LastPairFillsDictionary
  <2>1. Content(d)
    BY <1>8 DEF Decoding
  <2>2. CASE d = Len(marks)
    <3>1. /\ ~Active /\ Complete
          /\ p.code # STOP_CODE => LastPairFillsDictionary
      BY <1>1, <2>2, AfterLast
    <3>2. Restored(marks, consumed, d) = consumed
      <4>1. SymsAt(marks, d) = Len(consumed)
        BY <2>2, <3>1 DEF Complete
      <4>2. \A X : \A s \in Seq(X) : SubSeq(s, 1, Len(s)) = s
        OBVIOUS
      <4> QED BY <1>3, <4>1, <4>2 DEF Restored
    <3> QED BY <2>1, <3>1, <3>2
  <2>3. CASE d # Len(marks)
    <3>1. /\ d \in 0 .. Len(marks) - 1
          /\ \A i \in 1 .. Len(bits) : bits[i] = Stream[BitsAt(marks, d) + i]
      BY <1>1, <2>3, PairInside
    <3>2. next_code["decode"] = CodeAt(marks, d)
      BY <1>1 DEF Framing
    <3>3. bitlen(CodeAt(marks, d)) <= BITS
      <4>1. d + 1 \in 1 .. Len(marks) /\ (d + 1) - 1 = d
        BY <1>3, <3>1 DEF GoodMarks
      <4>2. GoodMark(marks, Len(consumed), d + 1)
        BY <1>3, <4>1 DEF GoodMarks
      <4>3. CodeAt(marks, d) = marks[d + 1].code
        BY <4>1, <4>2 DEF GoodMark
      <4> QED BY <1>8, <4>1, <4>3 DEF Narrow
    <3>4. PICK node \in Nodes(CodeAt(marks, d)), sym \in Symbols : IsPairRead(marks, consumed, d, bits, node, sym)
      <4>1. PICK b : b = Stream
        OBVIOUS
      <4>2. SentAll(marks, consumed, b) /\ \A i \in 1 .. Len(bits) : bits[i] = b[BitsAt(marks, d) + i]
        BY <1>3, <3>1, <4>1
      <4>3. bits \in Seq(0 .. 1) /\ Len(bits) = PairWidth(marks, d)
        BY <1>1, InPair
      <4> QED BY <1>3, <3>1, <3>3, <4>2, <4>3, PairKnown
    <3>5. p.code = node /\ DOMAIN table = Nodes(CodeAt(marks, d))
      BY <3>2, <3>4 DEF IsPairRead, Inv, Types
    <3> QED BY <3>4, <3>5
  <2> QED BY <2>2, <2>3
<1>9. ASSUME Narrow, p.code = STOP_CODE PROVE output' = consumed
  BY <1>8, <1>9 DEF Content, flush_words, Whole, Stops
<1>10. Decoding(d)'
  <2>1. Narrow' => Narrow
    BY <1>2 DEF Narrow
  <2>2. ASSUME Narrow PROVE Content(d)'
    BY <1>2, <1>4, <1>8, <2>2 DEF Content
  <2>3. ASSUME Narrow PROVE ~Active' /\ (LastPairFillsDictionary => LastPairFillsDictionary') /\ (Mistaken(input') \/ consumed' = input')
    BY <1>2, <1>4, <1>8, <2>3 DEF Active, LastPairFillsDictionary, Complete
  <2> QED BY <1>2, <1>4, <1>8, <1>9, <2>1, <2>2, <2>3 DEF Decoding
<1> QED BY <1>10

(* What decode does with a pair, whatever it took it from. *)
Decodes(p) ==
  \/ /\ p.code \in DOMAIN table /\ pc' = pc
     /\ AddsWord(p, next_code["decode"], Width("decode"), Append(table[p.code], p.sym))
  \/ p.code \notin DOMAIN table /\ Stops(p)

LEMMA PairDecoded ==
  ASSUME Inv, Decode
  PROVE  /\ pc["decode"] = "run" /\ Len(bits) = Width("decode") /\ bits' = << >> /\ input' = input
         /\ encoder' = encoder /\ pairs' = pairs /\ stale' = stale
         /\ \E p \in {PairOf(bits, bitlen(next_code["decode"]))} : Decodes(p)
<1>1. /\ pc["decode"] = "run" /\ Len(bits) = Width("decode") /\ bits' = << >> /\ Counted("decode", Width("decode"))
      /\ input' = input /\ encoder' = encoder /\ pairs' = pairs /\ stale' = stale
  BY DEF Decode
<1>5. PICK p : /\ p = PairOf(bits, bitlen(next_code["decode"]))
               /\ \/ /\ p.code \in DOMAIN table
                     /\ words' = write_word(words, word_append_sym(table[p.code], p.sym))
                     /\ AddWord(word_append_sym(table[p.code], p.sym), next_code["decode"])
                     /\ UNCHANGED <<pc, output>>
                  \/ /\ p.code = STOP_CODE
                     /\ Goto("decode", "done")
                     /\ output' = flush_words(words)
                     /\ UNCHANGED <<words, table, next_code>>
                  \/ /\ p.code \notin DOMAIN table \cup {STOP_CODE}
                     /\ Goto("decode", "crashed")
                     /\ UNCHANGED <<words, output, table, next_code>>
  BY DEF Decode
<1>6. STOP_CODE \notin DOMAIN table
  <2>1. DOMAIN table = Nodes(next_code["decode"]) /\ next_code["decode"] \in Codes
    BY DEF Inv, Types, Programs
  <2> QED BY <2>1, CodesNat
<1>7. CASE p.code \in DOMAIN table
  <2>1. /\ words' = write_word(words, word_append_sym(table[p.code], p.sym))
        /\ AddWord(word_append_sym(table[p.code], p.sym), next_code["decode"]) /\ pc' = pc
    BY <1>5, <1>6, <1>7
  <2>2. AddsWord(p, next_code["decode"], Width("decode"), Append(table[p.code], p.sym))
    BY <1>1, <1>5, <1>7, <2>1, WordAdded
  <2> QED BY <1>1, <1>5, <1>7, <2>1, <2>2 DEF Decodes
<1>8. CASE p.code \notin DOMAIN table
  <2>1. /\ p.code = STOP_CODE => pc' = [pc EXCEPT !["decode"] = "done"] /\ output' = flush_words(words)
        /\ p.code # STOP_CODE => pc' = [pc EXCEPT !["decode"] = "crashed"]
        /\ words' = words /\ table' = table /\ next_code' = next_code
    BY <1>5, <1>8 DEF Goto
  <2>2. Stops(p)
    BY <1>1, <2>1 DEF Stops
  <2> QED BY <1>1, <1>5, <1>8, <2>2 DEF Decodes
<1> QED BY <1>7, <1>8

(* A pair is decoded. *)
LEMMA DecodeStep == Inv /\ stale = << >> /\ Decode => Inv'
<1> SUFFICES ASSUME Inv, stale = << >>, Decode PROVE Inv'
  OBVIOUS
<1>1. /\ pc["decode"] = "run" /\ Len(bits) = Width("decode") /\ bits' = << >>
      /\ input' = input /\ encoder' = encoder /\ pairs' = pairs /\ stale' = stale
  BY PairDecoded
<1>2. marks' = marks
  BY <1>1 DEF encoder
<1>3. PICK d \in 0 .. Len(marks) : Decoding(d)
  BY DEF Inv, Decoder
<1>4. Framing(d)
  BY <1>1, <1>3 DEF Decoding
<1>5. PICK p : p = PairOf(bits, bitlen(next_code["decode"])) /\ Decodes(p)
  BY PairDecoded
<1>7. CASE p.code \in DOMAIN table
  <2>1. AddsWord(p, next_code["decode"], Width("decode"), Append(table[p.code], p.sym)) /\ pc' = pc
    BY <1>5, <1>7 DEF Decodes
  <2>2. d # Len(marks)
    BY <1>1, <1>4, <1>5, <1>7, AfterLast
  <2>3. Decoding(d + 1)'
    BY <1>1, <1>3, <1>5, <1>7, <2>1, <2>2, WordStep
  <2>4. d + 1 \in 0 .. Len(marks)
    BY <1>1, <1>4, <2>2, PairInside
  <2>5. Decoder'
    BY <1>1, <1>2, <2>3, <2>4 DEF Decoder
  <2>6. Types' /\ Awaiting
    BY <2>1 DEF AddsWord
  <2> QED BY <2>5, <2>6, EncodingKept DEF Inv
<1>8. CASE p.code \notin DOMAIN table
  <2>1. Stops(p)
    BY <1>5, <1>8 DEF Decodes
  <2>2. Decoding(d)'
    BY <1>1, <1>3, <1>5, <1>8, <2>1, StopStep
  <2>3. Decoder'
    BY <1>1, <1>2, <2>2 DEF Decoder
  <2>4. Types' /\ Awaiting
    BY <2>1, Stopped
  <2> QED BY <2>3, <2>4, EncodingKept DEF Inv
<1> QED BY <1>7, <1>8

----------------------------------------------------------------------------
(* decode with an old block. *)

(* What it writes now comes after what it has restored. *)
LEMMA AstrayKept ==
  ASSUME Inv, stale # << >>, Awaiting, stale'[1] = stale[1], stale' # << >>,
         pc'["decode"] \in {"run", "done", "crashed"},
         pairs'.pos = pairs.pos, pairs'.total = 0,
         NEW word \in Seq(Nat), Whole(words') = Whole(words) \o word
  PROVE  Decoder'
<1>1. packed' = packed /\ consumed' = consumed /\ marks' = marks /\ pc'["encode"] = pc["encode"]
  BY DEF Awaiting, encoder
<1>2. Astray
  BY DEF Inv, Decoder
<1>3. PICK x, y : x = Whole(words) /\ y = x \o word
  OBVIOUS
<1>4. x \in Seq(Nat) /\ Len(x) \in Nat
  BY <1>3, WordsTyped
<1>5. Len(y) = Len(x) + Len(word) /\ Len(word) \in Nat /\ y \in Seq(Nat)
  BY <1>3, <1>4
<1>6. PICK n \in 0 .. Len(x) : n = stale[1]
  BY <1>2, <1>3 DEF Astray
<1>7. SubSeq(y, 1, n) = SubSeq(x, 1, n)
  <2>1. \A i \in 1 .. Len(x) : y[i] = x[i]
    BY <1>3, <1>4
  <2>2. Extends(y, x)
    BY <1>4, <1>5, <2>1 DEF Extends
  <2> QED BY <1>4, <1>5, <1>6, <2>1, SeqEqual
<1>8. Whole(words') = y /\ n \in 0 .. Len(y)
  BY <1>3, <1>4, <1>5, <1>6
<1>9. ASSUME Narrow' PROVE \E k \in 0 .. Len(consumed) : SubSeq(y, 1, n) = SubSeq(consumed, 1, k)
  <2>1. Narrow
    BY <1>1, <1>9 DEF Narrow
  <2> QED BY <1>2, <1>3, <1>6, <1>7, <2>1 DEF Astray
<1>10. Astray'
  BY <1>1, <1>2, <1>6, <1>8, <1>9 DEF Astray
<1> QED BY <1>10 DEF Decoder

(* ... which is nothing, in most steps. *)
LEMMA AstrayStays ==
  ASSUME Inv, stale # << >>, Awaiting, stale'[1] = stale[1], stale' # << >>,
         pc'["decode"] \in {"run", "done", "crashed"},
         pairs'.pos = pairs.pos, pairs'.total = 0, words' = words
  PROVE  Decoder'
<1>1. Whole(words') = Whole(words) \o << >>
  <2>1. Whole(words) \in Seq(Nat)
    BY WordsTyped
  <2>2. \A x \in Seq(Nat) : x \o << >> = x
    OBVIOUS
  <2> QED BY <2>1, <2>2
<1>2. << >> \in Seq(Nat)
  OBVIOUS
<1> QED BY <1>1, <1>2, AstrayKept

(* It reads nothing and has the old block again. *)
LEMMA AstrayFills == Inv /\ stale # << >> /\ Fill => Inv'
<1> SUFFICES ASSUME Inv, stale # << >>, Fill PROVE Inv'
  OBVIOUS
<1>1. /\ input' = input /\ encoder' = encoder /\ next_code' = next_code /\ total_bits' = total_bits
      /\ bits' = bits /\ table' = table /\ words' = words /\ pc["decode"] = "run"
  BY DEF Fill, Running
<1>2. Astray /\ pairs \in Readers /\ bits \in Seq(0 .. 1) /\ stale \in Seq(Nat)
  BY DEF Inv, Decoder, Types
<1>3. BUFFER \in Nat /\ BUFFER > 0
  BY Widths
<1>4. PICK b \in [1 .. BUFFER -> 0 .. 1], x \in 0 .. BUFFER, p \in Nat :
        pairs = [buf |-> b, index |-> x, pos |-> p, total |-> 0] /\ p = Len(packed.file)
  BY <1>2 DEF Readers, Astray
<1>5. PICK r : r = ReadOnce(pairs, packed.file)
  OBVIOUS
<1>6. r = pairs
  <2>1. DOMAIN b = 1 .. BUFFER /\ Len(b) = BUFFER
    BY <1>3, <1>4
  <2>2. Smaller(Len(pairs.buf), Available(pairs, packed.file)) = 0
    <3>1. Available(pairs, packed.file) = 0 /\ Len(pairs.buf) = BUFFER
      BY <1>4, <2>1 DEF Available
    <3> QED BY <1>3, <3>1 DEF Smaller
  <2>3. pairs.buf = b /\ pairs.index = x /\ pairs.pos = p /\ pairs.total = 0
    BY <1>4
  <2> DEFINE v == [i \in 1 .. BUFFER |-> IF i - 0 \in 1 .. 0 THEN packed.file[p + i - 0] ELSE b[i]]
  <2>4. r = [buf |-> v, index |-> x, pos |-> p + 0, total |-> 0 + 0]
    BY <1>4, <1>5, <2>1, <2>2, <2>3 DEF ReadOnce
  <2>5. v = b
    BY <1>4
  <2> HIDE DEF v
  <2>6. p + 0 = p /\ 0 + 0 = 0
    BY <1>4
  <2> QED BY <1>4, <2>4, <2>5, <2>6
<1>7. r.total = 0 /\ Len(r.buf) = BUFFER /\ r.pos = pairs.pos /\ pairs.pos \in Nat
  BY <1>3, <1>4, <1>6
<1>8. pc["encode"] = "killed"
  BY <1>2 DEF Astray
<1>9. pairs' = Filled(r) /\ stale' = Append(stale, Len(Decoded)) /\ pc' = pc
  BY <1>3, <1>5, <1>7, <1>8 DEF Fill
<1>10. pairs' = [buf |-> b, index |-> 0, pos |-> p, total |-> 0]
  BY <1>4, <1>6, <1>9 DEF Filled
<1>11. pairs' \in Readers /\ pairs'.pos = pairs.pos /\ pairs'.total = 0
  BY <1>3, <1>4, <1>10 DEF Readers
<1>12. stale' \in Seq(Nat) /\ stale' # << >> /\ stale'[1] = stale[1]
  <2>1. Len(Decoded) \in Nat
    BY WordsTyped
  <2>2. Len(stale) > 0
    BY <1>2
  <2> QED BY <1>2, <1>9, <2>1, <2>2
<1>13. Awaiting
  BY <1>1, <1>9 DEF Awaiting
<1>14. Types'
  BY <1>1, <1>2, <1>9, <1>11, <1>12, <1>13, KeptTypes
<1>15. Decoder'
  BY <1>1, <1>9, <1>11, <1>12, <1>13, AstrayStays
<1> QED BY <1>13, <1>14, <1>15, EncodingKept DEF Inv

(* It takes bits from the old block. *)
LEMMA AstrayTakes == Inv /\ stale # << >> /\ Take => Inv'
<1> SUFFICES ASSUME Inv, stale # << >>, Take PROVE Inv'
  OBVIOUS
<1>1. /\ input' = input /\ encoder' = encoder /\ next_code' = next_code /\ total_bits' = total_bits /\ pc' = pc
      /\ table' = table /\ words' = words /\ stale' = stale
      /\ pc["decode"] = "run" /\ Len(bits) < Width("decode") /\ ~UsedUp(pairs)
  BY DEF Take, Running
<1>2. Astray /\ pairs \in Readers /\ bits \in Seq(0 .. 1) /\ stale \in Seq(Nat) /\ next_code["decode"] \in Codes
  BY DEF Inv, Decoder, Types, Programs
<1>3. BUFFER \in Nat /\ BUFFER > 0
  BY Widths
<1>4. PICK b \in [1 .. BUFFER -> 0 .. 1], x \in 0 .. BUFFER, p \in Nat :
        pairs = [buf |-> b, index |-> x, pos |-> p, total |-> 0]
  BY <1>2 DEF Readers, Astray
<1>5. Width("decode") \in Nat
  BY <1>2, CodeWidth, LZ78Assumption DEF Width
<1>6. b \in Seq(0 .. 1) /\ Len(b) = BUFFER /\ x \in Nat /\ x < BUFFER
  <2>1. Len(b) = BUFFER
    BY <1>3, <1>4
  <2> QED BY <1>1, <1>3, <1>4, <2>1 DEF UsedUp
<1>7. PICK n \in Nat : n = Smaller(Width("decode") - Len(bits), BUFFER - x) /\ n <= BUFFER - x
  <2>1. PICK c \in Nat, e \in Nat : c = Width("decode") - Len(bits) /\ e = BUFFER - x
    BY <1>1, <1>2, <1>3, <1>5, <1>6
  <2> QED BY <2>1 DEF Smaller
<1>8. pairs' = [buf |-> b, index |-> x + n, pos |-> p, total |-> 0] /\ bits' = bits \o SubSeq(b, x + 1, x + n)
  <2>1. pairs.buf = b /\ pairs.index = x /\ Len(pairs.buf) = BUFFER
    BY <1>4, <1>6
  <2>2. PICK z : z = [pairs EXCEPT !.index = x + n]
    OBVIOUS
  <2>3. PICK u : u = bits \o SubSeq(b, x + 1, x + n)
    OBVIOUS
  <2>4. TakeBits(pairs, bits, Width("decode")) = [reader |-> z, bits |-> u]
    BY <1>7, <2>1, <2>2, <2>3 DEF TakeBits
  <2>5. pairs' = z /\ bits' = bits \o SubSeq(b, x + 1, x + n)
    <3>1. PICK t : t = TakeBits(pairs, bits, Width("decode"))
      OBVIOUS
    <3>2. pairs' = t.reader /\ bits' = t.bits
      BY <3>1 DEF Take
    <3>3. t = [reader |-> z, bits |-> u]
      BY <2>4, <3>1
    <3>4. t.reader = z /\ t.bits = u
      BY <3>3
    <3> QED BY <2>3, <3>2, <3>4
  <2>6. z = [buf |-> b, index |-> x + n, pos |-> p, total |-> 0]
    BY <1>4, <2>2
  <2> QED BY <2>5, <2>6
<1>9. pairs' \in Readers /\ pairs'.pos = pairs.pos /\ pairs'.total = 0
  <2>1. x + n \in 0 .. BUFFER
    BY <1>3, <1>6, <1>7
  <2> QED BY <1>4, <1>8, <2>1 DEF Readers
<1>10. bits' \in Seq(0 .. 1)
  <2>1. PICK u : u = SubSeq(b, x + 1, x + n)
    OBVIOUS
  <2>2. \A i \in x + 1 .. x + n : b[i] \in 0 .. 1
    BY <1>3, <1>4, <1>6, <1>7
  <2>3. u \in Seq(0 .. 1)
    BY <1>6, <1>7, <2>1, <2>2, SubSeqProperties
  <2> QED BY <1>2, <1>8, <2>1, <2>3
<1>11. Awaiting
  BY <1>1 DEF Awaiting
<1>12. Types'
  BY <1>1, <1>2, <1>9, <1>10, <1>11, KeptTypes
<1>13. Decoder'
  BY <1>1, <1>9, <1>11, AstrayStays
<1> QED BY <1>11, <1>12, <1>13, EncodingKept DEF Inv

(* It decodes a pair of the old block, whatever that is. *)
LEMMA AstrayDecodes == Inv /\ stale # << >> /\ Decode => Inv'
<1> SUFFICES ASSUME Inv, stale # << >>, Decode PROVE Inv'
  OBVIOUS
<1>1. pc["decode"] = "run" /\ pairs' = pairs /\ stale' = stale
  BY PairDecoded
<1>2. PICK p : Decodes(p)
  BY PairDecoded
<1>3. pairs'.pos = pairs.pos /\ pairs'.total = 0
  BY <1>1 DEF Inv, Decoder, Astray
<1>4. CASE p.code \in DOMAIN table
  <2>1. AddsWord(p, next_code["decode"], Width("decode"), Append(table[p.code], p.sym)) /\ pc' = pc
    BY <1>2, <1>4 DEF Decodes
  <2>2. PICK word \in Seq(Nat) : Whole(words') = Whole(words) \o word
    BY <2>1 DEF AddsWord
  <2>3. Types' /\ Awaiting
    BY <2>1 DEF AddsWord
  <2>4. Decoder'
    BY <1>1, <1>3, <2>1, <2>2, <2>3, AstrayKept
  <2> QED BY <2>3, <2>4, EncodingKept DEF Inv
<1>5. CASE p.code \notin DOMAIN table
  <2>1. Stops(p)
    BY <1>2, <1>5 DEF Decodes
  <2>2. Types' /\ Awaiting /\ pc'["decode"] \in {"run", "done", "crashed"}
    BY <2>1, Stopped
  <2>3. words' = words
    BY <2>1 DEF Stops
  <2>4. Decoder'
    BY <1>1, <1>3, <2>2, <2>3, AstrayStays
  <2> QED BY <2>2, <2>4, EncodingKept DEF Inv
<1> QED BY <1>4, <1>5

----------------------------------------------------------------------------
(* The theorems. *)

(* A symbol is encoded. *)
LEMMA EncodeStep == Inv /\ Encode => Types' /\ Encoding' /\ Adding
<1> SUFFICES ASSUME Inv, Encode PROVE Types' /\ Encoding' /\ Adding
  OBVIOUS
<1>1. PICK r : /\ r = read_sym(source, input, end) /\ r.more
               /\ source' = r.reader /\ end' = r.end
               /\ Step(r.sym) \/ Emit(r.sym)
               /\ prev_sym' = r.sym
               /\ consumed' = Append(consumed, r.sym)
  BY DEF Encode
<1>2. pc["encode"] = "run" /\ UNCHANGED <<pc, input, decoder>>
  BY DEF Encode
<1>3. CASE Step(r.sym)
  BY <1>1, <1>2, <1>3, StepStep
<1>4. CASE Emit(r.sym)
  BY <1>1, <1>2, <1>4, EmitStep
<1> QED BY <1>1, <1>3, <1>4

(* Nothing happens. *)
LEMMA Stutters == Inv /\ UNCHANGED vars => Inv'
<1> SUFFICES ASSUME Inv, UNCHANGED vars PROVE Inv'
  OBVIOUS
<1>1. Awaiting /\ pc' = pc /\ next_code' = next_code /\ total_bits' = total_bits
      /\ pairs' = pairs /\ bits' = bits /\ table' = table /\ words' = words /\ output' = output /\ stale' = stale
  BY DEF vars, decoder, Awaiting
<1>2. /\ packed' = packed /\ consumed' = consumed /\ marks' = marks /\ curr_node' = curr_node /\ input' = input
  BY <1>1 DEF Awaiting, encoder
<1>3. Types'
  <2>1. pairs' \in Readers /\ bits' \in Seq(0 .. 1) /\ stale' \in Seq(Nat)
    BY <1>1 DEF Inv, Types
  <2> QED BY <1>1, <2>1, KeptTypes
<1>4. Encoding'
  BY <1>1, EncodingKept
<1>5. CASE stale = << >>
  <2>1. PICK d \in 0 .. Len(marks) : Decoding(d)
    BY <1>5 DEF Inv, Decoder
  <2>2. Decoding(d)'
    <3>1. Framing(d) => Framing(d)'
      BY <1>1, <1>2 DEF Framing, Width, Exited, Closed
    <3>2. Content(d) => Content(d)'
      BY <1>1, <1>2 DEF Content
    <3>3. /\ Narrow' => Narrow /\ (Active' => Active)
          /\ LastPairFillsDictionary => LastPairFillsDictionary'
      BY <1>1, <1>2 DEF Narrow, Active, LastPairFillsDictionary
    <3> QED BY <1>1, <1>2, <2>1, <3>1, <3>2, <3>3 DEF Decoding
  <2>3. Decoder'
    BY <1>1, <1>2, <1>5, <2>1, <2>2 DEF Decoder
  <2> QED BY <1>3, <1>4, <2>3 DEF Inv
<1>6. CASE stale # << >>
  <2>1. Astray
    BY <1>6 DEF Inv, Decoder
  <2>2. Decoder'
    BY <1>1, <1>6, <2>1, AstrayStays DEF Astray
  <2> QED BY <1>3, <1>4, <2>2 DEF Inv
<1> QED BY <1>5, <1>6

(* The inductive invariant holds throughout, for symbols of any width,      *)
(* buffers of any size and any code at which the dictionary is dropped.     *)
THEOREM Invariance == Spec => []Inv
<1>1. ASSUME Inv, [Next]_vars PROVE Inv'
  <2>1. ASSUME WriteHeader \/ Encode \/ EncodeEnd \/ Flush \/ Killed PROVE Inv'
    <3>1. Types' /\ Encoding' /\ Adding
      BY <1>1, <2>1, HeaderStep, EncodeStep, EndStep, FlushStep, KilledStep
    <3> QED BY <1>1, <3>1, DecoderKept DEF Inv
  <2>2. CASE ReadHeader
    BY <1>1, <2>2, ReadHeaderStep
  <2>3. CASE Fill
    BY <1>1, <2>3, FillStep, AstrayFills
  <2>4. CASE Take
    BY <1>1, <2>4, TakeStep, AstrayTakes
  <2>5. CASE Decode
    BY <1>1, <2>5, DecodeStep, AstrayDecodes
  <2>6. CASE UNCHANGED vars
    BY <1>1, <2>6, Stutters
  <2> QED BY <1>1, <2>1, <2>2, <2>3, <2>4, <2>5, <2>6 DEF Next
<1> QED BY Initially, <1>1, PTL DEF Spec

(* The programs' variables have their types, next_code stays below MAX_CODE *)
(* in both, and neither buffer of encode and decode holds more than a block *)
(* (the static buffers of io.c).                                            *)
THEOREM TypeCorrect == Spec => []TypeOK
<1>1. Inv => TypeOK
  <2> SUFFICES ASSUME Inv PROVE TypeOK
    OBVIOUS
  <2>1. Types
    BY DEF Inv
  <2>2. Codes = START_CODE .. MAX_CODE - 1
    BY DEF Codes
  <2>3. packed \in Packers => Len(packed.buf) <= BUFFER
    BY DEF Packers
  <2>4. source.index \in 0 .. BLOCK - 1 /\ pairs.index \in 0 .. BUFFER
    BY <2>1 DEF Types, Sources, Readers
  <2>5. DOMAIN table \subseteq {EMPTY_CODE} \cup START_CODE .. MAX_CODE - 1
    <3>1. next_code["decode"] \in Codes
      BY <2>1 DEF Types, Programs
    <3> QED BY <2>1, <3>1, LZ78Assumption DEF Types, Codes, Nodes, START_CODE
  <2> QED BY <2>1, <2>2, <2>3, <2>4, <2>5 DEF Types, TypeOK, EncodeStates, DecodeStates
<1> QED BY <1>1, Invariance, PTL

(* decode never reads beyond its buffer, although read_bytes asks for a     *)
(* whole one after a short read: what comes after the header are whole      *)
(* buffers until encode has exited.                                         *)
THEOREM BlocksAreEnough == Spec => []NeverOverruns
<1>1. Inv => NeverOverruns
  BY DEF Inv, Decoder, Decoding, Astray, NeverOverruns
<1> QED BY <1>1, Invariance, PTL

(* After each pair that decode has read it has counted the bits that encode *)
(* had after one of its pairs: the two read and write with the same widths, *)
(* whatever the codes are, also when encode is killed, until decode has     *)
(* read all that came.                                                      *)
THEOREM WidthsAgree == Spec => []InStep
<1>1. Inv => InStep
  <2> SUFFICES ASSUME Inv, pc["decode"] = "run", stale = << >>
               PROVE  total_bits["decode"] \in {HEADER} \cup {marks[k].bits : k \in DOMAIN marks}
    BY DEF InStep
  <2>1. PICK d \in 0 .. Len(marks) : Decoding(d)
    BY DEF Inv, Decoder
  <2>2. total_bits["decode"] = BitsAt(marks, d)
    BY <2>1 DEF Decoding, Framing
  <2>3. marks \in Seq(MarkSet)
    BY DEF Inv, Encoding, Sent, GoodMarks
  <2>4. d = 0 \/ d \in DOMAIN marks
    BY <2>1, <2>3
  <2> QED BY <2>2, <2>4 DEF BitsAt
<1> QED BY <1>1, Invariance, PTL

(* As long as no pair had a code wider than a symbol, what decode has       *)
(* written is the beginning of what encode took in, at every moment; after  *)
(* encode was killed, what it had written when the pipe was empty.  (A      *)
(* wider code is written from the wrong bits: that is the finding of        *)
(* EveryFileComesBack, and why this and the next theorem say Narrow.)       *)
THEOREM WordsRestored == Spec => []Restores
<1>1. Inv => Restores
  <2> SUFFICES ASSUME Inv, Narrow PROVE IsPrefix(Sound, consumed)
    BY DEF Restores
  <2>1. GoodMarks(marks, consumed) /\ consumed \in Seq(Symbols)
    BY DEF Inv, Encoding, Sent, GoodMarks
  <2>2. PICK n \in 0 .. Len(consumed) : Sound = SubSeq(consumed, 1, n)
    <3>1. CASE stale = << >>
      <4>1. PICK d \in 0 .. Len(marks) : Decoding(d)
        BY <3>1 DEF Inv, Decoder
      <4>2. Sound = SubSeq(consumed, 1, SymsAt(marks, d))
        BY <3>1, <4>1 DEF Sound, Decoded, Decoding, Content, Whole, Restored
      <4> QED BY <2>1, <4>2, AtTypes
    <3>2. CASE stale # << >>
      BY <3>2 DEF Inv, Decoder, Astray, Sound, Decoded, Whole
    <3> QED BY <3>1, <3>2
  <2>3. PICK s : s = SubSeq(consumed, 1, n)
    OBVIOUS
  <2>4. s \in Seq(Symbols) /\ Len(s) = n /\ \A i \in 1 .. n : s[i] = consumed[i]
    BY <2>1, <2>3
  <2>5. IsPrefix(s, consumed)
    BY <2>1, <2>3, <2>4 DEF IsPrefix
  <2> QED BY <2>2, <2>3, <2>5
<1> QED BY <1>1, Invariance, PTL

(* As long as no pair had a code wider than a symbol, and encode is not     *)
(* killed, decode ends with all that encode took in, which is the whole     *)
(* file unless read_sym mistakes its length, and it meets no code without a *)
(* word unless the last pair fills the dictionary.  After a killed encode   *)
(* this holds while decode has not come to an old block.                    *)
THEOREM FilesRestored == Spec => []RoundTrip
<1>1. Inv => RoundTrip
  <2>1. ASSUME Inv, Narrow, stale = << >>
        PROVE  /\ pc["decode"] = "done" => output = consumed /\ (Mistaken(input) \/ consumed = input)
               /\ pc["decode"] = "crashed" => LastPairFillsDictionary
    <3>1. PICK d \in 0 .. Len(marks) : Decoding(d)
      BY <2>1 DEF Inv, Decoder
    <3> QED BY <2>1, <3>1 DEF Decoding
  <2> QED BY <2>1 DEF RoundTrip, Mistaken
<1> QED BY <1>1, Invariance, PTL
=============================================================================
