----------------------------- MODULE Memory_proofs -----------------------------
(***************************************************************************)
(* Theorems about the get/set tool, for any inputs, names, contents and    *)
(* sizes of its buffers and any number of runs.                            *)
(***************************************************************************)
EXTENDS Memory, FiniteSetTheorems, SequenceTheorems, TLAPS

Symbols == UNION {Range(s) : s \in Inputs \cup Names \cup Contents}
Text == Seq(Symbols)

LEMMA AllText == Inputs \subseteq Text /\ Names \subseteq Text /\ Contents \subseteq Text
<1>1. ASSUME NEW s \in Inputs \cup Names \cup Contents PROVE s \in Text
  <2>1. s \in Seq(Range(s))
    BY MemoryAssumption
  <2>2. Range(s) \subseteq Symbols
    BY DEF Symbols
  <2>. QED  BY <2>1, <2>2 DEF Text
<1>. QED  BY <1>1

----------------------------------------------------------------------------
(* Pieces of sequences *)

LEMMA SubText ==
  ASSUME NEW s \in Text, NEW m \in Nat \ {0}, NEW n \in Nat, n <= Len(s)
  PROVE  /\ SubSeq(s, m, n) \in Text
         /\ Len(SubSeq(s, m, n)) = IF m <= n THEN n - m + 1 ELSE 0
         /\ \A i \in 1 .. n - m + 1 : SubSeq(s, m, n)[i] = s[m + i - 1]
<1>1. \A i \in m .. n : s[i] \in Symbols
  BY ElementOfSeq DEF Text
<1>. HIDE DEF Symbols
<1>. QED  BY <1>1, SubSeqProperties DEF Text

(* Every nonempty set of naturals has a least element. *)
Less == OpToRel(<, Nat)

LEMMA LeastElement ==
  ASSUME NEW S, S \subseteq Nat, S # {}
  PROVE  \E x \in S : \A y \in S : x <= y
<1>1. IsWellFoundedOn(Less, Nat)
  BY NatLessThanWellFounded DEF Less
<1>2. PICK x \in S : \A y \in S : ~(<<y, x>> \in Less)
  BY <1>1, WFMin
<1>3. Less = {ss \in Nat \X Nat : ss[1] < ss[2]}
  BY Zenon DEF Less, OpToRel
<1>4. ASSUME NEW y \in S PROVE x <= y
  <2>1. x \in Nat /\ y \in Nat /\ <<y, x>> \in Nat \X Nat
    OBVIOUS
  <2>2. <<y, x>>[1] = y /\ <<y, x>>[2] = x
    OBVIOUS
  <2>3. ~(y < x)
    BY <1>2, <1>3, <2>1, <2>2
  <2>. QED  BY <2>1, <2>3
<1>. QED  BY <1>4

LEMMA MinIsLeast ==
  ASSUME NEW S, S \subseteq Nat, S # {}
  PROVE  Min(S) \in S /\ \A y \in S : Min(S) <= y
BY LeastElement DEF Min

NewlineIn(s) == SelectInSeq(s, LAMBDA c : c = "\n")

LEMMA NewlineIsMin ==
  ASSUME NEW s
  PROVE  NewlineIn(s) = LET I == {i \in 1 .. Len(s) : s[i] = "\n"}
                        IN IF I # {} THEN Min(I) ELSE 0
BY DEF NewlineIn, SelectInSeq

LEMMA FirstNewline ==
  ASSUME NEW s \in Text
  PROVE  \/ /\ NewlineIn(s) = 0
            /\ \A i \in 1 .. Len(s) : s[i] # "\n"
         \/ /\ NewlineIn(s) \in 1 .. Len(s)
            /\ s[NewlineIn(s)] = "\n"
            /\ \A i \in 1 .. NewlineIn(s) - 1 : s[i] # "\n"
<1>. DEFINE I == {i \in 1 .. Len(s) : s[i] = "\n"}
<1>1. NewlineIn(s) = IF I # {} THEN Min(I) ELSE 0
  BY NewlineIsMin
<1>2. Len(s) \in Nat
  BY DEF Text
<1>3. CASE I # {}
  <2>1. PICK n : n = Min(I)
    OBVIOUS
  <2>2. I \subseteq Nat
    BY <1>2
  <2>3. n \in I /\ \A y \in I : n <= y
    BY <1>3, <2>1, <2>2, MinIsLeast
  <2>4. n \in 1 .. Len(s) /\ s[n] = "\n"
    BY <2>3
  <2>5. ASSUME NEW i \in 1 .. n - 1 PROVE s[i] # "\n"
    <3>1. i \in 1 .. Len(s) /\ ~(n <= i)
      BY <1>2, <2>4
    <3>. QED  BY <2>3, <3>1
  <2>. QED  BY <1>1, <1>3, <2>1, <2>4, <2>5
<1>4. CASE I = {}
  BY <1>1, <1>4
<1>. QED  BY <1>3, <1>4

LEMMA LineText ==
  ASSUME NEW s \in Text
  PROVE  readLine(s).line \in Text /\ readLine(s).rest \in Text
<1>. DEFINE n == NewlineIn(s)
            all == IF n = 0 THEN Len(s) ELSE n - 1
            totalRead == Shorter(all, LINE - 1)
            next == totalRead + (IF n > 0 /\ totalRead < LINE - 1 THEN 2 ELSE 1)
<1>1. n \in 0 .. Len(s) /\ Len(s) \in Nat
  BY FirstNewline DEF Text
<1>2. totalRead \in 0 .. Len(s) /\ next \in Nat \ {0}
  BY <1>1, MemoryAssumption DEF Shorter
<1>3. SubSeq(s, 1, totalRead) \in Text /\ SubSeq(s, next, Len(s)) \in Text
  BY <1>1, <1>2, SubText
<1>. QED  BY <1>3 DEF readLine, NewlineIn

(* A line that ends before its buffer does is read with its newline.        *)
LEMMA LineFits ==
  ASSUME NEW s \in Text, NEW n \in 1 .. Len(s), s[n] = "\n",
         \A i \in 1 .. n - 1 : s[i] # "\n", n < LINE
  PROVE  readLine(s).rest = SubSeq(s, n + 1, Len(s))
<1>1. Len(s) \in Nat
  BY DEF Text
<1>2. NewlineIn(s) = n
  BY <1>1, FirstNewline
<1>3. Shorter(n - 1, LINE - 1) = n - 1 /\ n - 1 < LINE - 1
  BY MemoryAssumption DEF Shorter
<1>4. n > 0 /\ n # 0 /\ (n - 1) + 2 = n + 1
  OBVIOUS
<1>. QED  BY <1>2, <1>3, <1>4 DEF readLine, NewlineIn

LEMMA PieceOfPiece ==
  ASSUME NEW s \in Text, NEW a \in Nat \ {0}, NEW e \in Nat, a <= e + 1, e <= Len(s),
         NEW m \in Nat \ {0}, NEW n \in Nat, n <= e - a + 1
  PROVE  SubSeq(SubSeq(s, a, e), m, n) = SubSeq(s, a + m - 1, a + n - 1)
<1>. DEFINE t == SubSeq(s, a, e)
            u == SubSeq(t, m, n)
            v == SubSeq(s, a + m - 1, a + n - 1)
<1>1. t \in Text /\ Len(t) = e - a + 1 /\ \A i \in 1 .. e - a + 1 : t[i] = s[a + i - 1]
  BY SubText
<1>2. /\ u \in Text /\ Len(u) = (IF m <= n THEN n - m + 1 ELSE 0)
      /\ \A i \in 1 .. n - m + 1 : u[i] = t[m + i - 1]
  <2>. HIDE DEF t
  <2>. QED  BY <1>1, SubText
<1>3. /\ v \in Text /\ Len(v) = (IF m <= n THEN n - m + 1 ELSE 0)
      /\ \A i \in 1 .. n - m + 1 : v[i] = s[a + m - 1 + i - 1]
  <2>1. a + m - 1 \in Nat \ {0} /\ a + n - 1 \in Nat /\ a + n - 1 <= Len(s)
    BY DEF Text
  <2>2. (a + n - 1) - (a + m - 1) + 1 = n - m + 1 /\ (a + m - 1 <= a + n - 1 <=> m <= n)
    OBVIOUS
  <2>. QED  BY <2>1, <2>2, SubText
<1>4. ASSUME NEW i \in 1 .. Len(u) PROVE u[i] = v[i]
  <2>1. i \in 1 .. n - m + 1 /\ m + i - 1 \in 1 .. e - a + 1
    BY <1>2
  <2>2. a + (m + i - 1) - 1 = a + m - 1 + i - 1
    BY <2>1
  <2>. HIDE DEF t, u, v
  <2>. QED  BY <1>1, <1>2, <1>3, <2>1, <2>2
<1>. HIDE DEF u, v
<1>5. u = v
  BY <1>2, <1>3, <1>4, SeqEqual DEF Text
<1>. QED  BY <1>5 DEF u, v

(* One line after another. *)
LEMMA NextLine ==
  ASSUME NEW s \in Text, NEW p \in 0 .. Len(s), NEW q \in p + 1 .. Len(s), s[q] = "\n",
         \A i \in p + 1 .. q - 1 : s[i] # "\n", q - p < LINE
  PROVE  readLine(SubSeq(s, p + 1, Len(s))).rest = SubSeq(s, q + 1, Len(s))
<1>. DEFINE t == SubSeq(s, p + 1, Len(s))
<1>1. Len(s) \in Nat /\ p \in Nat /\ q \in Nat /\ q - p \in Nat
  BY DEF Text
<1>2. t \in Text /\ Len(t) = Len(s) - p /\ \A i \in 1 .. Len(s) - p : t[i] = s[p + i]
  BY <1>1, SubText
<1>3. q - p \in 1 .. Len(t) /\ t[q - p] = "\n"
  BY <1>1, <1>2
<1>4. ASSUME NEW i \in 1 .. q - p - 1 PROVE t[i] # "\n"
  BY <1>1, <1>2
<1>5. readLine(t).rest = SubSeq(t, q - p + 1, Len(t))
  <2>. HIDE DEF t
  <2>. QED  BY <1>2, <1>3, <1>4, LineFits
<1>6. SubSeq(t, q - p + 1, Len(s) - p) = SubSeq(s, (p + 1) + (q - p + 1) - 1, (p + 1) + (Len(s) - p) - 1)
  BY <1>1, PieceOfPiece
<1>7. (p + 1) + (q - p + 1) - 1 = q + 1 /\ (p + 1) + (Len(s) - p) - 1 = Len(s)
  BY <1>1
<1>. QED  BY <1>2, <1>5, <1>6, <1>7

LEMMA OneMore ==
  ASSUME NEW S, IsFiniteSet(S), NEW x, x \notin S, NEW T, T = S \cup {x}
  PROVE  IsFiniteSet(T) /\ Cardinality(T) = Cardinality(S) + 1
BY FS_AddElement

LEMMA OneLess ==
  ASSUME NEW S, IsFiniteSet(S), NEW x \in S, NEW T, T = S \ {x}
  PROVE  IsFiniteSet(T) /\ Cardinality(T) = Cardinality(S) - 1 /\ Cardinality(T) \in Nat
BY FS_RemoveElement, FS_CardinalityType

(* The third line's end is the third newline. *)
LEMMA ThirdOfSet ==
  ASSUME NEW N, N \subseteq Nat, IsFiniteSet(N),
         NEW p1 \in N, NEW p2 \in N, NEW p3 \in N, p1 < p2, p2 < p3,
         \A j \in N : j < p3 => j = p1 \/ j = p2
  PROVE  (CHOOSE i \in N : Cardinality({j \in N : j < i}) = 2) = p3
<1>. DEFINE Before(i) == {j \in N : j < i}
<1>0. p1 \in Nat /\ p2 \in Nat /\ p3 \in Nat
  OBVIOUS
<1>1. /\ Cardinality({p1}) = 1 /\ IsFiniteSet({p1})
      /\ Cardinality({p1, p2}) = 2 /\ IsFiniteSet({p1, p2})
      /\ Cardinality({p1, p2, p3}) = 3
  <2>1. Cardinality({p1}) = 1 /\ IsFiniteSet({p1})
    BY FS_Singleton
  <2>2. Cardinality({p1, p2}) = 2 /\ IsFiniteSet({p1, p2})
    <3>1. p2 \notin {p1} /\ {p1} \cup {p2} = {p1, p2}
      BY <1>0
    <3>. QED  BY <2>1, <3>1, OneMore
  <2>3. Cardinality({p1, p2, p3}) = 3
    <3>1. p3 \notin {p1, p2} /\ {p1, p2} \cup {p3} = {p1, p2, p3}
      BY <1>0
    <3>. QED  BY <2>2, <3>1, OneMore
  <2>. QED  BY <2>1, <2>2, <2>3
<1>2. Cardinality(Before(p3)) = 2
  <2>1. Before(p3) \subseteq {p1, p2}
    OBVIOUS
  <2>2. p1 \in Before(p3) /\ p2 \in Before(p3)
    BY <1>0
  <2>3. Before(p3) = {p1, p2}
    BY <2>1, <2>2
  <2>. QED  BY <1>1, <2>3
<1>3. ASSUME NEW i \in N, Cardinality(Before(i)) = 2 PROVE i = p3
  <2>1. CASE i < p3
    <3>1. ASSUME NEW j \in Before(i) PROVE j = p1
      <4>1. j \in N /\ j \in Nat /\ i \in Nat /\ j < i
        OBVIOUS
      <4>2. i = p1 \/ i = p2
        BY <2>1
      <4>3. j = p1 \/ j = p2
        BY <1>0, <2>1, <4>1
      <4>. QED  BY <1>0, <4>1, <4>2, <4>3
    <3>2. Cardinality(Before(i)) <= 1
      <4>1. Before(i) \in SUBSET {p1}
        BY <3>1
      <4>. QED  BY <1>1, <4>1, FS_Subset
    <3>. QED  BY <1>3, <3>2
  <2>2. CASE p3 < i
    <3>1. {p1, p2, p3} \subseteq Before(i) /\ Before(i) \subseteq N
      BY <2>2
    <3>2. 3 <= Cardinality(Before(i))
      BY <1>1, <3>1, FS_Subset
    <3>. QED  BY <1>3, <3>2
  <2>. QED  BY <2>1, <2>2
<1>. HIDE DEF Before
<1>4. (CHOOSE i \in N : Cardinality(Before(i)) = 2) = p3
  BY <1>2, <1>3
<1>. QED  BY <1>4 DEF Before

Content3(s) == readLine(readLine(readLine(s).rest).rest).rest

(* When no line fills its buffer, what readLine leaves after three lines is *)
(* what comes after the third newline.                                      *)
LEMMA ThirdLine ==
  ASSUME given \in Text, LinesFit
  PROVE  /\ ThirdLineEnd \in 1 .. Len(given)
         /\ Content3(given) = SubSeq(given, ThirdLineEnd + 1, Len(given))
<1>1. PICK s \in Text : s = given
  OBVIOUS
<1>2. PICK N : N = Newlines
  OBVIOUS
<1>3. Len(s) \in Nat /\ N = {i \in 1 .. Len(s) : s[i] = "\n"}
  BY <1>1, <1>2 DEF Newlines, Text
<1>4. IsFiniteSet(N) /\ N \subseteq Nat /\ Cardinality(N) > 2
  <2>1. IsFiniteSet(1 .. Len(s)) /\ N \subseteq 1 .. Len(s)
    BY <1>3, FS_Interval
  <2>. QED  BY <1>2, <1>3, <2>1, FS_Subset DEF LinesFit
<1>5. PICK p1 \in N : \A y \in N : p1 <= y
  <2>1. N # {}
    BY <1>4, FS_EmptySet
  <2>. QED  BY <1>4, <2>1, LeastElement
<1>6. IsFiniteSet(N \ {p1}) /\ Cardinality(N \ {p1}) > 1
  <2>1. N \ {p1} = N \ {p1} /\ Cardinality(N) \in Nat
    BY <1>4, FS_CardinalityType
  <2>. QED  BY <1>4, <2>1, OneLess
<1>7. PICK p2 \in N \ {p1} : \A y \in N \ {p1} : p2 <= y
  <2>1. N \ {p1} # {} /\ N \ {p1} \subseteq Nat
    BY <1>4, <1>6, FS_EmptySet
  <2>. QED  BY <2>1, LeastElement
<1>8. PICK p3 \in (N \ {p1}) \ {p2} : \A y \in (N \ {p1}) \ {p2} : p3 <= y
  <2>1. Cardinality((N \ {p1}) \ {p2}) > 0
    BY <1>6, <1>7, OneLess, FS_CardinalityType
  <2>2. (N \ {p1}) \ {p2} # {} /\ (N \ {p1}) \ {p2} \subseteq Nat
    BY <1>4, <2>1, FS_EmptySet
  <2>. QED  BY <2>2, LeastElement
<1>9. /\ p1 \in 1 .. Len(s) /\ p2 \in 1 .. Len(s) /\ p3 \in 1 .. Len(s)
      /\ s[p1] = "\n" /\ s[p2] = "\n" /\ s[p3] = "\n" /\ p1 < p2 /\ p2 < p3
  BY <1>3, <1>5, <1>7, <1>8
<1>10. /\ \A i \in 1 .. p1 - 1 : s[i] # "\n"
       /\ \A i \in p1 + 1 .. p2 - 1 : s[i] # "\n"
       /\ \A i \in p2 + 1 .. p3 - 1 : s[i] # "\n"
  BY <1>3, <1>5, <1>7, <1>8, <1>9
<1>11. ThirdLineEnd = p3
  <2>1. (CHOOSE i \in N : Cardinality({j \in N : j < i}) = 2) = p3
    <3>1. \A j \in N : j < p3 => j = p1 \/ j = p2
      BY <1>4, <1>8, <1>9
    <3>2. p1 \in N /\ p2 \in N /\ p3 \in N
      BY <1>7, <1>8
    <3>. QED  BY <1>4, <1>9, <3>1, <3>2, ThirdOfSet
  <2>. QED  BY <1>2, <2>1 DEF ThirdLineEnd
<1>12. \A i \in {0} \cup N : i < p3 => \E j \in N : j > i /\ j - i < LINE
  BY <1>2, <1>11 DEF LinesFit
<1>13. p1 - 0 < LINE /\ p2 - p1 < LINE /\ p3 - p2 < LINE
  <2>1. LINE \in Nat
    BY MemoryAssumption
  <2>2. PICK j \in N : j > 0 /\ j - 0 < LINE
    BY <1>9, <1>12
  <2>3. PICK k \in N : k > p1 /\ k - p1 < LINE
    BY <1>5, <1>9, <1>12
  <2>4. PICK l \in N : l > p2 /\ l - p2 < LINE
    BY <1>7, <1>9, <1>12
  <2>5. p1 <= j /\ p2 <= k /\ p3 <= l
    BY <1>4, <1>5, <1>7, <1>8, <1>9, <2>3, <2>4
  <2>. QED  BY <1>4, <1>9, <2>1, <2>2, <2>3, <2>4, <2>5
<1>14. readLine(s).rest = SubSeq(s, p1 + 1, Len(s))
  BY <1>9, <1>10, <1>13, LineFits
<1>15. readLine(SubSeq(s, p1 + 1, Len(s))).rest = SubSeq(s, p2 + 1, Len(s))
  BY <1>3, <1>9, <1>10, <1>13, NextLine
<1>16. readLine(SubSeq(s, p2 + 1, Len(s))).rest = SubSeq(s, p3 + 1, Len(s))
  BY <1>3, <1>9, <1>10, <1>13, NextLine
<1>. QED  BY <1>1, <1>9, <1>11, <1>14, <1>15, <1>16 DEF Content3

----------------------------------------------------------------------------
(* The inductive invariant *)

Stored == [kind : {"none", "dir", "file"}, data : Text]
Places == Ended \cup {"main", "get", "read", "print", "content", "set", "write"}

Types ==
  /\ files \in [Names -> Stored] /\ before \in [Names -> Stored]
  /\ remembered \in [Names -> Stored]
  /\ pc \in Places
  /\ stdin \in Text /\ given \in Text /\ filePath \in Text /\ dataBuffer \in Text
  /\ readBuffer \in Text /\ printed \in Text
  /\ dataSize \in Nat /\ offset \in Nat /\ readFailed \in BOOLEAN

(* A run knows what it was given, whatever it has read of it so far.        *)
Parsed ==
  /\ pc = "main" => stdin = given
  /\ pc \in {"content", "set", "write"} => given[1] = "set" /\ stdin = Content3(given)
  /\ pc \in {"set", "write"} => dataBuffer = Piece(stdin, 1, dataSize)
  /\ pc \in {"main", "get"} => printed = << >> /\ readBuffer = << >> /\ offset = 0

(* A get has printed, or still has in its buffer, what it has read.         *)
Printing ==
  /\ pc \in {"read", "print"} =>
       /\ filePath \in Names /\ offset <= Len(files[filePath].data)
       /\ printed \o readBuffer = SubSeq(files[filePath].data, 1, offset)
  /\ pc = "read" => readBuffer = << >>
  /\ pc = "ok" => \/ given[1] = "set"
                  \/ filePath \in Names /\ (readFailed \/ printed = files[filePath].data)

(* What a file is remembered to hold, it holds.                             *)
Remembering ==
  /\ \A f \in Names : remembered[f] # None => remembered[f] = files[f]
  /\ pc = "write" => remembered[filePath] = None

(* Only the open of a set changes a file before its write does.             *)
Writing ==
  /\ pc \in {"main", "content", "set", "get", "read", "print", "invalid"} => files = before
  /\ pc = "write" => /\ filePath \in Names /\ files[filePath] = File(<< >>)
                     /\ \A f \in Names : f # filePath => files[f] = before[f]

Inv == Types /\ Parsed /\ Printing /\ Remembering /\ Writing /\ FailuresKeepPrefix

----------------------------------------------------------------------------
(* What the operators of the model give *)

LEMMA PieceText ==
  ASSUME NEW s \in Text, NEW first \in Nat \ {0}, NEW n \in Nat
  PROVE  Piece(s, first, n) \in Text
<1>1. Shorter(first + n - 1, Len(s)) \in Nat /\ Shorter(first + n - 1, Len(s)) <= Len(s)
  BY DEF Shorter, Text
<1>. QED  BY <1>1, SubText DEF Piece

LEMMA StoredFile == ASSUME NEW d \in Text PROVE File(d) \in Stored
BY DEF File, Stored

LEMMA EmptyText == << >> \in Text
BY DEF Text

LEMMA OverwrittenEmpty ==
  ASSUME NEW s \in Text
  PROVE  Overwritten(<< >>, s) = s
<1>1. Len(s) \in Nat /\ Len(<< >>) = 0
  BY DEF Text
<1>2. SubSeq(<< >>, Len(s) + 1, Len(<< >>)) = << >>
  BY <1>1, SubSeqEmpty
<1>3. s \o << >> = s
  BY ConcatEmptySeq DEF Text
<1>. QED  BY <1>2, <1>3 DEF Overwritten

(* The content read for a set is the one that was meant.                    *)
LEMMA MeantIsRead ==
  ASSUME given \in Text, dataSize \in Nat, LinesFit
  PROVE  Meant = Piece(Content3(given), 1, dataSize)
<1>1. PICK T : T = ThirdLineEnd
  OBVIOUS
<1>2. T \in 1 .. Len(given) /\ Content3(given) = SubSeq(given, T + 1, Len(given))
  BY <1>1, ThirdLine
<1>3. PICK s \in Text : s = given
  OBVIOUS
<1>4. PICK size \in Nat : size = dataSize
  OBVIOUS
<1>5. Len(s) \in Nat
  BY DEF Text
<1>6. Len(SubSeq(s, T + 1, Len(s))) = Len(s) - T
  BY <1>2, <1>3, <1>5, SubText
<1>7. /\ Shorter(1 + size - 1, Len(s) - T) \in Nat
      /\ Shorter(1 + size - 1, Len(s) - T) <= Len(s) - (T + 1) + 1
      /\ Shorter(T + 1 + size - 1, Len(s)) = T + Shorter(1 + size - 1, Len(s) - T)
  BY <1>2, <1>3, <1>5 DEF Shorter
<1>8. SubSeq(SubSeq(s, T + 1, Len(s)), 1, Shorter(1 + size - 1, Len(s) - T))
        = SubSeq(s, T + 1 + 1 - 1, T + 1 + Shorter(1 + size - 1, Len(s) - T) - 1)
  BY <1>2, <1>3, <1>5, <1>7, PieceOfPiece
<1>9. /\ T + 1 + 1 - 1 = T + 1
      /\ T + 1 + Shorter(1 + size - 1, Len(s) - T) - 1 = Shorter(T + 1 + size - 1, Len(s))
  BY <1>2, <1>3, <1>5, <1>7
<1>10. Meant = SubSeq(s, T + 1, Shorter(T + 1 + size - 1, Len(s)))
  BY <1>1, <1>3, <1>4 DEF Meant, Piece
<1>11. Piece(Content3(given), 1, dataSize)
         = SubSeq(SubSeq(s, T + 1, Len(s)), 1, Shorter(1 + size - 1, Len(s) - T))
  BY <1>2, <1>3, <1>4, <1>6 DEF Piece
<1>. QED  BY <1>8, <1>9, <1>10, <1>11

----------------------------------------------------------------------------
(* The invariant holds at first, and every action keeps it *)

LEMMA InitInv == Init => Inv
<1>. SUFFICES ASSUME Init PROVE Inv
  OBVIOUS
<1>1. files \in [Names -> Stored]
  <2>1. None \in Stored /\ Dir \in Stored
    BY EmptyText DEF None, Dir, Stored
  <2>2. \A d \in Contents : File(d) \in Stored
    BY AllText, StoredFile
  <2>3. {None, Dir} \cup {File(d) : d \in Contents} \subseteq Stored
    BY <2>1, <2>2
  <2>. QED  BY <2>3 DEF Init
<1>2. Types
  BY <1>1, EmptyText DEF Init, Types, Places, Ended
<1>3. Parsed /\ Printing /\ Remembering /\ Writing /\ FailuresKeepPrefix
  BY DEF Init, Parsed, Printing, Remembering, Writing, FailuresKeepPrefix
<1>. QED  BY <1>2, <1>3 DEF Inv

LEMMA StartStep ==
  ASSUME Inv, NEW input \in Inputs, Start(input)
  PROVE  Inv'
<1>1. Types'
  BY AllText, EmptyText DEF Inv, Types, Start, Places, Ended
<1>2. Remembering'
  BY DEF Inv, Start, Remembering
<1>3. Parsed' /\ Printing' /\ Writing' /\ FailuresKeepPrefix'
  BY DEF Start, Parsed, Printing, Writing, FailuresKeepPrefix
<1>. QED  BY <1>1, <1>2, <1>3 DEF Inv

LEMMA KilledStep ==
  ASSUME Inv, Killed
  PROVE  Inv'
<1>0. /\ pc' = "killed" /\ pc \notin Ended
      /\ UNCHANGED <<files, command, offset, readBuffer, history, printed, readFailed, remembered>>
  BY DEF Killed
<1>1. Types'
  BY <1>0 DEF Inv, Types, command, history, Places, Ended
<1>2. Remembering' /\ Parsed' /\ Printing' /\ Writing'
  BY <1>0 DEF Inv, Remembering, Parsed, Printing, Writing
<1>3. FailuresKeepPrefix'
  <2>1. pc \in {"main", "get", "read", "print", "content", "set", "write"}
    BY <1>0 DEF Inv, Types, Places
  <2>2. CASE pc = "write"
    <3>1. /\ filePath \in Names /\ files[filePath] = File(<< >>)
          /\ \A f \in Names : f # filePath => files[f] = before[f]
      BY <2>2 DEF Inv, Writing
    <3>2. IsPrefix(<< >>, dataBuffer)
      <4>1. SubSeq(<< >>, 1, 0) = << >> /\ SubSeq(dataBuffer, 1, 0) = << >>
        BY SubSeqEmpty
      <4>2. Len(dataBuffer) \in Nat /\ Len(<< >>) = 0
        BY DEF Inv, Types, Text
      <4>. QED  BY <4>1, <4>2 DEF IsPrefix
    <3>3. files[filePath].kind = "file" /\ files[filePath].data = << >>
      BY <3>1 DEF File
    <3>. QED  BY <1>0, <3>1, <3>2, <3>3 DEF FailuresKeepPrefix, command, history
  <2>3. CASE pc # "write"
    <3>1. files = before
      BY <2>1, <2>3 DEF Inv, Writing
    <3>. QED  BY <1>0, <3>1 DEF FailuresKeepPrefix, command, history
  <2>. QED  BY <2>2, <2>3
<1>. QED  BY <1>1, <1>2, <1>3 DEF Inv

LEMMA CommandStep ==
  ASSUME Inv, Command
  PROVE  Inv'
<1>0. /\ pc = "main"
      /\ UNCHANGED <<files, dataBuffer, offset, readBuffer, history, printed, readFailed,
                     remembered>>
  BY DEF Command
<1>1. files = before /\ stdin = given /\ printed = << >> /\ readBuffer = << >> /\ offset = 0
  BY <1>0 DEF Inv, Writing, Parsed
<1>2. Opened.rest \in Text /\ Path.line \in Text /\ Path.rest \in Text
  <2>1. stdin \in Text
    BY DEF Inv, Types
  <2>. QED  BY <2>1, LineText DEF Opened, Path
<1>3. CASE pc' = "get" /\ filePath' = Path.line /\ UNCHANGED <<stdin, dataSize>>
  <2>1. Types'
    BY <1>0, <1>2, <1>3 DEF Inv, Types, history, Places, Ended
  <2>2. Parsed' /\ Printing'
    BY <1>0, <1>1, <1>3 DEF Parsed, Printing
  <2>3. Remembering' /\ Writing' /\ FailuresKeepPrefix'
    BY <1>0, <1>1, <1>3 DEF Inv, Remembering, Writing, FailuresKeepPrefix, history
  <2>. QED  BY <2>1, <2>2, <2>3 DEF Inv
<1>4. CASE /\ ValidSet /\ pc' = "content"
           /\ filePath' = Path.line /\ dataSize' = SizeOf(Size.line) /\ stdin' = Size.rest
  <2>1. Types'
    <3>1. Size.rest \in Text
      BY <1>2, LineText DEF Size
    <3>2. SizeOf(Size.line) \in Nat
      BY <1>4, MemoryAssumption DEF ValidSet
    <3>. QED  BY <1>0, <1>2, <1>4, <3>1, <3>2 DEF Inv, Types, history, Places, Ended
  <2>2. Parsed'
    <3>1. stdin' = Content3(given)
      BY <1>1, <1>4 DEF Content3, Opened, Path, Size
    <3>2. given[1] = "set"
      <4>1. PICK n \in Int : readLine(given).line = SubSeq(given, 1, n)
        <5>1. NewlineIn(given) \in Nat /\ Len(given) \in Nat
          BY FirstNewline DEF Inv, Types, Text
        <5>2. /\ Shorter(Len(given), LINE - 1) \in Int
              /\ Shorter(NewlineIn(given) - 1, LINE - 1) \in Int
          BY <5>1, MemoryAssumption DEF Shorter
        <5>. QED  BY <5>1, <5>2 DEF readLine, NewlineIn
      <4>2. SubSeq(given, 1, n) = <<"set">>
        BY <1>1, <1>4, <4>1 DEF ValidSet, Opened
      <4>3. PICK t : t = SubSeq(given, 1, n)
        OBVIOUS
      <4>4. t = <<"set">>
        BY <4>2, <4>3
      <4>5. Len(t) = 1 /\ t[1] = "set"
        BY <4>4
      <4>. QED  BY <4>3, <4>5
    <3>. QED  BY <1>0, <1>4, <3>1, <3>2 DEF Parsed, history
  <2>3. Printing' /\ Remembering' /\ Writing' /\ FailuresKeepPrefix'
    BY <1>0, <1>1, <1>4 DEF Inv, Printing, Remembering, Writing, FailuresKeepPrefix, history
  <2>. QED  BY <2>1, <2>2, <2>3 DEF Inv
<1>5. CASE pc' = "invalid" /\ UNCHANGED <<stdin, filePath, dataSize>>
  <2>1. Types'
    BY <1>0, <1>5 DEF Inv, Types, history, Places, Ended
  <2>2. Parsed' /\ Printing' /\ Remembering' /\ Writing' /\ FailuresKeepPrefix'
    BY <1>0, <1>1, <1>5 DEF Inv, Parsed, Printing, Remembering, Writing, FailuresKeepPrefix,
                            history
  <2>. QED  BY <2>1, <2>2 DEF Inv
<1>. QED  BY <1>3, <1>4, <1>5 DEF Command

LEMMA ContentStep ==
  ASSUME Inv, Content
  PROVE  Inv'
<1>0. /\ pc = "content"
      /\ UNCHANGED <<files, stdin, filePath, dataSize, offset, readBuffer, history, printed,
                     readFailed, remembered>>
  BY DEF Content
<1>1. \/ pc' = "set" /\ dataBuffer' = Piece(stdin, 1, dataSize)
      \/ pc' = "failed" /\ dataBuffer' = dataBuffer
  BY DEF Content
<1>2. Types'
  <2>1. Piece(stdin, 1, dataSize) \in Text
    BY PieceText DEF Inv, Types
  <2>. QED  BY <1>0, <1>1, <2>1 DEF Inv, Types, history, Places, Ended
<1>3. files = before
  BY <1>0 DEF Inv, Writing
<1>4. Parsed' /\ Printing' /\ Remembering' /\ Writing' /\ FailuresKeepPrefix'
  BY <1>0, <1>1, <1>3 DEF Inv, Parsed, Printing, Remembering, Writing, FailuresKeepPrefix,
                          history
<1>. QED  BY <1>2, <1>4 DEF Inv

LEMMA SetStep ==
  ASSUME Inv, Set
  PROVE  Inv'
<1>0. /\ pc = "set" /\ filePath \in Names
      /\ UNCHANGED <<command, offset, readBuffer, history, printed, readFailed>>
  BY DEF Set
<1>1. files = before
  BY <1>0 DEF Inv, Writing
<1>2. CASE SetOpen
  <2>1. /\ pc' = "write"
        /\ files' = [files EXCEPT ![filePath] = File(<< >>)]
        /\ remembered' = [remembered EXCEPT ![filePath] = None]
    BY <1>2 DEF SetOpen
  <2>2. File(<< >>) \in Stored /\ None \in Stored
    BY EmptyText, StoredFile DEF None, Stored
  <2>3. Types'
    BY <1>0, <2>1, <2>2 DEF Inv, Types, command, history, Places
  <2>4. /\ files'[filePath] = File(<< >>) /\ remembered'[filePath] = None
        /\ \A f \in Names : f # filePath => files'[f] = files[f] /\ remembered'[f] = remembered[f]
    BY <1>0, <2>1 DEF Inv, Types
  <2>5. Remembering'
    BY <1>0, <2>1, <2>4 DEF Inv, Remembering, command
  <2>6. Parsed' /\ Printing'
    BY <1>0, <2>1 DEF Inv, Parsed, Printing, command, history
  <2>7. Writing' /\ FailuresKeepPrefix'
    BY <1>0, <1>1, <2>1, <2>4 DEF Writing, FailuresKeepPrefix, command, history
  <2>. QED  BY <2>3, <2>5, <2>6, <2>7 DEF Inv
<1>3. CASE SetNotOpened
  <2>1. pc' = "failed" /\ UNCHANGED <<files, remembered>>
    BY <1>3 DEF SetNotOpened
  <2>2. Types'
    BY <1>0, <2>1 DEF Inv, Types, command, history, Places, Ended
  <2>3. Parsed' /\ Printing' /\ Remembering' /\ Writing' /\ FailuresKeepPrefix'
    BY <1>0, <1>1, <2>1 DEF Inv, Parsed, Printing, Remembering, Writing, FailuresKeepPrefix,
                            command, history
  <2>. QED  BY <2>2, <2>3 DEF Inv
<1>. QED  BY <1>2, <1>3 DEF Set

LEMMA SetWriteStep ==
  ASSUME Inv, SetWrite
  PROVE  Inv'
<1>0. /\ pc = "write"
      /\ UNCHANGED <<command, offset, readBuffer, history, printed, readFailed>>
  BY DEF SetWrite
<1>1. PICK n \in 0 .. Len(dataBuffer) : Write(n)
  BY DEF SetWrite
<1>2. PICK d : d = SubSeq(dataBuffer, 1, n)
  OBVIOUS
<1>3. n \in Nat /\ dataBuffer \in Text /\ Len(dataBuffer) \in Nat
  BY DEF Inv, Types, Text
<1>4. d \in Text /\ Len(d) = n
  BY <1>2, <1>3, SubText
<1>5. /\ filePath \in Names /\ files[filePath] = File(<< >>) /\ remembered[filePath] = None
      /\ \A f \in Names : f # filePath => files[f] = before[f]
  BY <1>0 DEF Inv, Writing, Remembering
<1>6. files' = [files EXCEPT ![filePath] = File(d)]
  <2>1. PICK x : x = Overwritten(files[filePath].data, d)
    OBVIOUS
  <2>2. files' = [files EXCEPT ![filePath].data = x]
    BY <1>1, <1>2, <2>1 DEF Write
  <2>3. files[filePath].data = << >>
    BY <1>5 DEF File
  <2>4. x = d
    BY <1>4, <2>1, <2>3, OverwrittenEmpty
  <2>5. [files[filePath] EXCEPT !.data = d] = File(d)
    BY <1>5 DEF File
  <2>. QED  BY <2>2, <2>4, <2>5
<1>7. /\ files' \in [Names -> Stored] /\ files'[filePath] = File(d)
      /\ \A f \in Names : f # filePath => files'[f] = before[f]
  BY <1>4, <1>5, <1>6, StoredFile DEF Inv, Types
<1>8. pc' \in {IF n = Len(dataBuffer) THEN "ok" ELSE "failed", "killed"}
  BY <1>1 DEF Write
<1>9. remembered' = IF pc' = "ok" /\ LinesFit
                    THEN [remembered EXCEPT ![filePath] = File(Meant)] ELSE remembered
  BY DEF SetWrite
<1>10. pc' = "ok" /\ LinesFit => File(Meant) = files'[filePath]
  <2>. SUFFICES ASSUME pc' = "ok", LinesFit PROVE Meant = d
    BY <1>7
  <2>1. d = dataBuffer
    <3>1. n = Len(dataBuffer)
      BY <1>8
    <3>. QED  BY <1>2, <1>3, <3>1, SubSeqFull DEF Text
  <2>2. dataBuffer = Piece(Content3(given), 1, dataSize)
    BY <1>0 DEF Inv, Parsed
  <2>. QED  BY <2>1, <2>2, MeantIsRead DEF Inv, Types
<1>11. Remembering'
  <2>1. ASSUME NEW f \in Names, remembered'[f] # None PROVE remembered'[f] = files'[f]
    <3>1. remembered \in [Names -> Stored]
      BY DEF Inv, Types
    <3>2. CASE f = filePath
      BY <1>5, <1>9, <1>10, <2>1, <3>1, <3>2
    <3>3. CASE f # filePath
      <4>1. remembered'[f] = remembered[f] /\ files'[f] = files[f]
        BY <1>5, <1>7, <1>9, <3>1, <3>3
      <4>. QED  BY <2>1, <4>1 DEF Inv, Remembering
    <3>. QED  BY <3>2, <3>3
  <2>. QED  BY <1>8, <2>1 DEF Remembering
<1>12. Types'
  <2>1. remembered' \in [Names -> Stored]
    <3>1. CASE pc' = "ok" /\ LinesFit
      <4>1. File(Meant) \in Stored
        BY <1>5, <1>7, <1>10, <3>1
      <4>. QED  BY <1>9, <3>1, <4>1 DEF Inv, Types
    <3>2. CASE ~(pc' = "ok" /\ LinesFit)
      BY <1>9, <3>2 DEF Inv, Types
    <3>. QED  BY <3>1, <3>2
  <2>. QED  BY <1>0, <1>7, <1>8, <2>1 DEF Inv, Types, command, history, Places, Ended
<1>13. Parsed' /\ Printing' /\ Writing'
  BY <1>0, <1>8 DEF Inv, Parsed, Printing, Writing, command, history
<1>14. FailuresKeepPrefix'
  <2>1. IsPrefix(d, dataBuffer)
    <3>1. SubSeq(d, 1, Len(d)) = d
      BY <1>4, SubSeqFull DEF Text
    <3>. QED  BY <1>2, <1>3, <1>4, <3>1 DEF IsPrefix
  <2>2. files'[filePath].kind = "file" /\ files'[filePath].data = d
    BY <1>7 DEF File
  <2>. QED  BY <1>0, <1>7, <1>8, <2>1, <2>2 DEF FailuresKeepPrefix, command, history
<1>. QED  BY <1>11, <1>12, <1>13, <1>14 DEF Inv

LEMMA GetStep ==
  ASSUME Inv, Get
  PROVE  Inv'
<1>0. /\ pc = "get" /\ filePath \in Names /\ pc' \in {"read", "invalid"}
      /\ UNCHANGED <<files, command, offset, readBuffer, history, printed, readFailed, remembered>>
  BY DEF Get
<1>1. files = before /\ printed = << >> /\ readBuffer = << >> /\ offset = 0
  BY <1>0 DEF Inv, Writing, Parsed
<1>2. Types'
  BY <1>0 DEF Inv, Types, command, history, Places, Ended
<1>3. Printing'
  <2>1. Len(files[filePath].data) \in Nat
    BY <1>0 DEF Inv, Types, Stored, Text
  <2>2. << >> \o << >> = << >> /\ SubSeq(files[filePath].data, 1, 0) = << >>
    BY SubSeqEmpty
  <2>. QED  BY <1>0, <1>1, <2>1, <2>2 DEF Printing, command
<1>4. Parsed' /\ Remembering' /\ Writing' /\ FailuresKeepPrefix'
  BY <1>0, <1>1 DEF Inv, Parsed, Remembering, Writing, FailuresKeepPrefix, command, history
<1>. QED  BY <1>2, <1>3, <1>4 DEF Inv

LEMMA GetReadStep ==
  ASSUME Inv, GetRead
  PROVE  Inv'
<1>0. /\ pc = "read"
      /\ UNCHANGED <<files, command, history, printed, remembered>>
  BY DEF GetRead
<1>1. PICK chunk : chunk = Piece(files[filePath].data, offset + 1, CHUNK)
  OBVIOUS
<1>2. \/ /\ chunk # << >> /\ readBuffer' = chunk /\ offset' = offset + Len(chunk)
         /\ pc' = "print" /\ readFailed' = readFailed
      \/ /\ pc' = "ok" /\ readFailed' = (chunk # << >>)
         /\ readBuffer' = readBuffer /\ offset' = offset
  BY <1>1 DEF GetRead
<1>3. /\ filePath \in Names /\ offset \in Nat /\ offset <= Len(files[filePath].data)
      /\ readBuffer = << >> /\ printed \o readBuffer = SubSeq(files[filePath].data, 1, offset)
  BY <1>0 DEF Inv, Types, Printing
<1>4. PICK data \in Text : data = files[filePath].data
  BY <1>3 DEF Inv, Types, Stored
<1>5. printed = SubSeq(data, 1, offset)
  <2>1. printed \o << >> = printed
    BY ConcatEmptySeq DEF Inv, Types, Text
  <2>. QED  BY <1>3, <1>4, <2>1
<1>6. PICK e \in Nat : e = Shorter(offset + 1 + CHUNK - 1, Len(data))
  BY <1>3, MemoryAssumption DEF Shorter, Text
<1>7. /\ chunk = SubSeq(data, offset + 1, e) /\ e <= Len(data) /\ Len(data) \in Nat
      /\ (e < offset + 1 => offset = Len(data))
  BY <1>1, <1>3, <1>4, <1>6, MemoryAssumption DEF Piece, Shorter, Text
<1>8. chunk \in Text /\ Len(chunk) = IF offset + 1 <= e THEN e - offset ELSE 0
  BY <1>3, <1>7, SubText
<1>9. CASE /\ chunk # << >> /\ readBuffer' = chunk /\ offset' = offset + Len(chunk)
           /\ pc' = "print" /\ readFailed' = readFailed
  <2>1. offset + 1 <= e
    <3>1. e < offset + 1 => chunk = << >>
      BY <1>3, <1>7, SubSeqEmpty
    <3>. QED  BY <1>3, <1>9, <3>1
  <2>2. offset' = e /\ offset' \in Nat
    BY <1>3, <1>8, <1>9, <2>1
  <2>3. printed \o chunk = SubSeq(data, 1, e)
    <3>1. offset \in 1 - 1 .. Len(data) /\ e \in offset .. Len(data) /\ 1 \in 1 .. Len(data) + 1
      BY <1>3, <1>7, <2>1
    <3>. QED  BY <1>5, <1>7, <3>1, ConcatAdjacentSubSeq DEF Text
  <2>4. Types'
    BY <1>0, <1>8, <1>9, <2>2 DEF Inv, Types, command, history, Places
  <2>5. Printing'
    BY <1>0, <1>3, <1>4, <1>7, <1>9, <2>2, <2>3 DEF Printing, command
  <2>6. Parsed' /\ Remembering' /\ Writing' /\ FailuresKeepPrefix'
    BY <1>0, <1>9 DEF Inv, Parsed, Remembering, Writing, FailuresKeepPrefix, command, history
  <2>. QED  BY <2>4, <2>5, <2>6 DEF Inv
<1>10. CASE /\ pc' = "ok" /\ readFailed' = (chunk # << >>)
            /\ readBuffer' = readBuffer /\ offset' = offset
  <2>1. Types'
    BY <1>0, <1>10 DEF Inv, Types, command, history, Places, Ended
  <2>2. Printing'
    <3>1. CASE chunk # << >>
      <4>1. readFailed'
        BY <1>10, <3>1
      <4>. QED  BY <1>0, <1>3, <1>10, <4>1 DEF Printing, command
    <3>2. CASE chunk = << >>
      <4>1. offset = Len(data)
        <5>1. Len(chunk) = 0
          BY <3>2
        <5>. QED  BY <1>3, <1>7, <1>8, <5>1
      <4>2. printed = data
        BY <1>5, <4>1, SubSeqFull DEF Text
      <4>. QED  BY <1>0, <1>3, <1>4, <1>10, <4>2 DEF Printing, command
    <3>. QED  BY <3>1, <3>2
  <2>3. Parsed' /\ Remembering' /\ Writing' /\ FailuresKeepPrefix'
    BY <1>0, <1>10 DEF Inv, Parsed, Remembering, Writing, FailuresKeepPrefix, command, history
  <2>. QED  BY <2>1, <2>2, <2>3 DEF Inv
<1>. QED  BY <1>2, <1>9, <1>10

LEMMA GetPrintStep ==
  ASSUME Inv, GetPrint
  PROVE  Inv'
<1>0. /\ pc = "print"
      /\ UNCHANGED <<files, command, offset, history, readFailed, remembered>>
  BY DEF GetPrint
<1>1. files = before
  BY <1>0 DEF Inv, Writing
<1>2. CASE pc' = "failed" /\ UNCHANGED <<readBuffer, printed>>
  <2>1. Types'
    BY <1>0, <1>2 DEF Inv, Types, command, history, Places, Ended
  <2>2. Parsed' /\ Printing' /\ Remembering' /\ Writing' /\ FailuresKeepPrefix'
    BY <1>0, <1>1, <1>2 DEF Inv, Parsed, Printing, Remembering, Writing, FailuresKeepPrefix,
                            command, history
  <2>. QED  BY <2>1, <2>2 DEF Inv
<1>3. ASSUME NEW n \in 1 .. Len(readBuffer), Printed(n),
             readBuffer' = SubSeq(readBuffer, n + 1, Len(readBuffer)),
             pc' = IF n = Len(readBuffer) THEN "read" ELSE "print"
      PROVE  Inv'
  <2>1. PICK r \in Text : r = readBuffer
    BY DEF Inv, Types
  <2>2. PICK p \in Text : p = printed
    BY DEF Inv, Types
  <2>3. n \in 1 .. Len(r) /\ Len(r) \in Nat /\ n \in Nat
    BY <2>1 DEF Text
  <2>4. SubSeq(r, 1, n) \in Text /\ SubSeq(r, n + 1, Len(r)) \in Text
    BY <2>3, SubText
  <2>5. printed' = p \o SubSeq(r, 1, n) /\ readBuffer' = SubSeq(r, n + 1, Len(r))
    BY <1>3, <2>1, <2>2 DEF Printed
  <2>6. printed' \in Text /\ readBuffer' \in Text
    BY <2>4, <2>5, ConcatProperties DEF Text
  <2>7. printed' \o readBuffer' = printed \o readBuffer
    <3>1. SubSeq(r, 1, n) \o SubSeq(r, n + 1, Len(r)) = SubSeq(r, 1, Len(r))
      <4>1. 1 \in 1 .. Len(r) + 1 /\ n \in 1 - 1 .. Len(r) /\ Len(r) \in n .. Len(r)
        BY <2>3
      <4>. QED  BY <4>1, ConcatAdjacentSubSeq DEF Text
    <3>2. SubSeq(r, 1, Len(r)) = r
      BY SubSeqFull DEF Text
    <3>3. (p \o SubSeq(r, 1, n)) \o SubSeq(r, n + 1, Len(r))
            = p \o (SubSeq(r, 1, n) \o SubSeq(r, n + 1, Len(r)))
      <4>1. PICK u \in Text : u = SubSeq(r, 1, n)
        BY <2>4
      <4>2. PICK v \in Text : v = SubSeq(r, n + 1, Len(r))
        BY <2>4
      <4>3. (p \o u) \o v = p \o (u \o v)
        BY ConcatAssociative DEF Text
      <4>. QED  BY <4>1, <4>2, <4>3
    <3>. QED  BY <2>1, <2>2, <2>5, <3>1, <3>2, <3>3
  <2>8. pc' = "read" => readBuffer' = << >>
    <3>1. n = Len(r) => SubSeq(r, n + 1, Len(r)) = << >>
      BY <2>3, SubSeqEmpty
    <3>. QED  BY <1>3, <2>1, <2>5, <3>1
  <2>9. Types'
    BY <1>0, <1>3, <2>6 DEF Inv, Types, command, history, Places
  <2>10. Printing'
    BY <1>0, <1>3, <2>7, <2>8 DEF Inv, Printing, command
  <2>11. Parsed' /\ Remembering' /\ Writing' /\ FailuresKeepPrefix'
    BY <1>0, <1>1, <1>3 DEF Inv, Parsed, Remembering, Writing, FailuresKeepPrefix, command, history
  <2>. QED  BY <2>9, <2>10, <2>11 DEF Inv
<1>. QED  BY <1>2, <1>3 DEF GetPrint

LEMMA InvStep == Inv /\ [Next]_vars => Inv'
<1>. SUFFICES ASSUME Inv, [Next]_vars PROVE Inv'
  OBVIOUS
<1>1. CASE Next
  BY <1>1, StartStep, CommandStep, ContentStep, SetStep, SetWriteStep, GetStep, GetReadStep,
     GetPrintStep, KilledStep DEF Next
<1>2. CASE UNCHANGED vars
  BY <1>2 DEF vars, command, history, Inv, Types, Parsed, Printing, Remembering, Writing,
              FailuresKeepPrefix
<1>. QED  BY <1>1, <1>2

(* The inductive invariant: what a run has parsed, printed and written so   *)
(* far is what its input and the files say, and what was remembered holds.  *)
THEOREM Invariance == Spec => []Inv
BY InitInv, InvStep, PTL DEF Spec

(* A get with exit code 0 prints what the last set of the file that said OK *)
(* was given, for any buffers, names, contents and number of runs.          *)
THEOREM GetsRemember == Spec => []Remembers
<1>1. Inv => Remembers
  <2>. SUFFICES ASSUME Inv, pc = "ok", given[1] = "get", ~readFailed
                PROVE  /\ printed = files[filePath].data
                       /\ remembered[filePath] # None => printed = remembered[filePath].data
    BY DEF Remembers
  <2>1. filePath \in Names /\ printed = files[filePath].data
    BY DEF Inv, Printing
  <2>. QED  BY <2>1 DEF Inv, Remembering
<1>. QED  BY <1>1, Invariance, PTL

(* A run that does not say OK has changed nothing, or left a beginning of   *)
(* what its set was to write.                                               *)
THEOREM FailuresHarmless == Spec => []FailuresKeepPrefix
<1>1. Inv => FailuresKeepPrefix
  BY DEF Inv
<1>. QED  BY <1>1, Invariance, PTL
=============================================================================
