--------------------------- MODULE HttpServer_proofs ---------------------------
(***************************************************************************)
(* Theorems about HttpServer, for any number of workers, connections and   *)
(* URIs, any requests, files and length of a body.                         *)
(***************************************************************************)
EXTENDS HttpServer, RWLockOps_proofs, SequenceTheorems, WellFoundedInduction

(* The places of a GET and of a PUT, from the parsing of the request on,    *)
(* and those where the worker has looked up the node of its URI.            *)
AwaitingReaders == {"r_blocked", "r_woken"}
AwaitingWriters == {"w_blocked", "w_woken"}
GetOnNode == {"get_lock"} \cup AwaitingReaders \cup Reading
PutOnNode == {"put_lock"} \cup AwaitingWriters \cup Writing
GetPlaces == {"get_lookup", "get_end"} \cup GetOnNode
PutPlaces == {"put_access", "put_lookup", "put_end"} \cup PutOnNode

Count(n, S) == Cardinality(At(n, S))

Entry == [method : {"GET", "PUT"}, uri : URIs, code : Nat, conn : Conns, body : Seq(Nat)]

Row == [uri : URIs, lock : IntLock]

Break == [uri : URIs, lines : Nat, data : Seq(Nat)]

Types ==
  /\ nodes \in Seq(Row)
  /\ pc \in [Workers -> Places] /\ node \in [Workers -> Nat]
  /\ req \in [Workers -> Request \cup {NoRequest}]
  /\ conn \in [Workers -> Conns \cup {0}]
  /\ log \in Seq(Entry)
  /\ files \in [URIs -> File]
  /\ existed \in [Workers -> BOOLEAN]
  /\ size \in [Workers -> Nat] /\ sent \in [Workers -> Seq(Nat)]
  /\ fds \in Int
  /\ broken \in Seq(Break)

(* A connection a worker has, or will have, was accepted.                   *)
Accepted ==
  /\ chan \in Seq(Conns) /\ arrived \subseteq Conns /\ closed \subseteq arrived
  /\ \A i \in DOMAIN chan : chan[i] \in arrived
  /\ \A w \in Workers : conn[w] \in arrived \cup {0}

(* What the place of a worker says of its locals. *)
Placed ==
  \A w \in Workers :
    /\ pc[w] \in GetPlaces => req[w] \in Request /\ req[w].method = "GET"
    /\ pc[w] \in PutPlaces => req[w] \in Request /\ req[w].method = "PUT"
    /\ pc[w] # "pop" => conn[w] \in Conns
    /\ pc[w] \in GetOnNode \cup PutOnNode =>
         node[w] \in DOMAIN nodes /\ nodes[node[w]].uri = Uri(w)
    /\ node[w] <= Len(nodes)

(* The table has one node for a URI, and one for each URI that was logged.  *)
Table == /\ \A m, n \in DOMAIN nodes : nodes[m].uri = nodes[n].uri => m = n
         /\ \A k \in DOMAIN log : \E n \in DOMAIN nodes : nodes[n].uri = log[k].uri

(* Each counter of each lock counts the workers it stands for.              *)
NodeCounts(n) ==
  /\ nodes[n].lock.priority = "N_WAY" /\ nodes[n].lock.n_way = 1
  /\ nodes[n].lock.readers = Count(n, Reading)
  /\ nodes[n].lock.writers = Count(n, Writing) + Cardinality(Refusals(nodes[n].uri))
  /\ nodes[n].lock.waiting_readers = Count(n, AwaitingReaders)
  /\ nodes[n].lock.waiting_writers = Count(n, AwaitingWriters)

LocksCount == \A n \in DOMAIN nodes : NodeCounts(n)

(* A worker that writes is alone on its node. *)
WriterAlone ==
  \A v, w \in Workers :
    v # w /\ pc[w] \in Writing /\ node[v] = node[w] => pc[v] \notin Reading \cup Writing

Locking == Types /\ Accepted /\ Placed /\ Table /\ LocksCount /\ WriterAlone

(* No more is sent than was declared.                                       *)
Bounded == \A w \in Workers : Len(sent[w]) <= size[w]

(* The file a worker sends is one, and what a worker has received so far is *)
(* all there is in the file, and at most one body.                          *)
Transferring ==
  \A w \in Workers :
    /\ pc[w] \in {"sending", "get_unlock"} => The(w).kind = "file"
    /\ pc[w] = "receiving" =>
         /\ The(w).kind = "file" /\ Len(The(w).data) <= Chunks
         /\ \A i \in DOMAIN The(w).data : The(w).data[i] = conn[w]

(* A file that access said exists is still there when it is opened.         *)
Seeking == {"put_lookup", "put_lock", "w_blocked", "w_woken", "put_open"}

Existing ==
  \A w \in Workers :
    pc[w] \in Seeking /\ existed[w] => The(w).kind \notin {"absent", "nowhere"}

BrokenBefore == \A b \in DOMAIN broken : broken[b].lines <= Len(log)

(* What a replay of the whole log, and of the uploads that broke off, says  *)
(* that the file of a URI is.                                               *)
Now(u, found) == Replayed(u, Len(log), found)

Receives(u) == \E w \in Workers : pc[w] = "receiving" /\ Uri(w) = u

FilesFollow(found) == \A u \in URIs : ~Receives(u) => files[u] = Now(u, found)

(* What a worker found when it opened the file it receives.                 *)
Opened(found) ==
  \A w \in Workers :
    pc[w] = "receiving" => /\ Now(Uri(w), found).kind \in {"absent", "file"}
                           /\ existed[w] => Now(Uri(w), found).kind = "file"

Replays(found) ==
  \A k \in DOMAIN log : Explains(Replayed(log[k].uri, k - 1, found), log[k])

Matches(found) == FilesFollow(found) /\ Opened(found) /\ Replays(found)

Contents == /\ Bounded /\ Transferring /\ StableWhileSending /\ OneUploadPerFile
            /\ Existing /\ BrokenBefore /\ FilesClosed
            /\ \E found \in Initial : Matches(found)

Inv == Locking /\ Contents

-----------------------------------------------------------------------------
(* Counting workers.                                                        *)

LEMMA CountNat ==
  ASSUME NEW n, NEW S
  PROVE  /\ IsFiniteSet(At(n, S)) /\ Count(n, S) \in Nat
         /\ Count(n, S) = 0 <=> At(n, S) = {}
BY HttpAssumption, FS_Subset, FS_CardinalityType, FS_EmptySet DEF At, Count

Change(from, to, S) == Share(to, S) - Share(from, S)

(* What w adds to the count of node n.                                      *)
Delta(w, n, S) == IF node[w] = n THEN Change(pc[w], pc'[w], S) ELSE 0

(* A step of w leaves the others where they are, but may wake some of them. *)
Others(w) ==
  \A v \in Workers \ {w} :
    /\ node'[v] = node[v] /\ req'[v] = req[v] /\ conn'[v] = conn[v]
    /\ existed'[v] = existed[v] /\ size'[v] = size[v] /\ sent'[v] = sent[v]
    /\ \/ pc'[v] = pc[v]
       \/ pc[v] = "r_blocked" /\ pc'[v] = "r_woken"
       \/ pc[v] = "w_blocked" /\ pc'[v] = "w_woken"

Counted(S) == /\ "r_blocked" \in S <=> "r_woken" \in S
              /\ "w_blocked" \in S <=> "w_woken" \in S

(* Two sets that agree but for w differ in size by what w adds.             *)
LEMMA OneDiffers ==
  ASSUME NEW A, NEW B, NEW w, IsFiniteSet(A), \A v : v # w => (v \in B <=> v \in A)
  PROVE  /\ Cardinality(A) \in Nat
         /\ Cardinality(B) = Cardinality(A) + Share(w, B) - Share(w, A)
<1>1. Cardinality(A) \in Nat
  BY FS_CardinalityType
<1>2. CASE w \in B /\ w \notin A
  <2>1. B = A \cup {w}
    BY <1>2
  <2>. QED  BY <1>1, <1>2, <2>1, FS_AddElement DEF Share
<1>3. CASE w \notin B /\ w \in A
  <2>1. B = A \ {w}
    BY <1>3
  <2>. QED  BY <1>1, <1>3, <2>1, FS_RemoveElement DEF Share
<1>4. CASE w \in B <=> w \in A
  <2>1. B = A
    BY <1>4
  <2>. QED  BY <1>1, <2>1 DEF Share
<1>. QED  BY <1>2, <1>3, <1>4

LEMMA CountChanges ==
  ASSUME NEW CONSTANT w \in Workers, Others(w), NEW CONSTANT S, Counted(S),
         node'[w] = node[w] \/ (pc[w] \notin S /\ pc'[w] \notin S), NEW CONSTANT n
  PROVE  Count(n, S)' = Count(n, S) + Delta(w, n, S)
<1>. DEFINE A == At(n, S)
            B == At(n, S)'
<1>1. \A v : v # w => (v \in B <=> v \in A)
  BY DEF Others, Counted, At
<1>2. IsFiniteSet(A)
  BY CountNat
<1>3. Share(w, B) - Share(w, A) = Delta(w, n, S)
  BY DEF At, Delta, Change, Share
<1>. HIDE DEF A, B
<1>4. /\ Cardinality(A) \in Nat
      /\ Cardinality(B) = Cardinality(A) + Share(w, B) - Share(w, A)
  BY <1>1, <1>2, OneDiffers
<1>5. Share(w, A) \in Int /\ Share(w, B) \in Int
  BY DEF Share
<1>. QED  BY <1>3, <1>4, <1>5 DEF Count, A, B

LEMMA KindsCounted ==
  Counted(Reading) /\ Counted(Writing) /\ Counted(AwaitingReaders) /\ Counted(AwaitingWriters)
BY DEF Counted, Reading, Writing, AwaitingReaders, AwaitingWriters

-----------------------------------------------------------------------------
(* The steps of a worker, sorted by what they do to the table and its locks: *)
(* a lookup, a step on a lock, or one that leaves the table alone.           *)

Lookups(w) == \E garbage \in InitServed : \/ Lookup(w, "get_lookup", "get_lock", garbage)
                                          \/ Lookup(w, "put_lookup", "put_lock", garbage)

Tries(w) == \/ pc[w] = "get_lock" /\ ReaderTry(w, "get_lock", ReaderArrives(LockOf(w)))
            \/ pc[w] = "r_woken" /\ ReaderTry(w, "r_woken", LockOf(w))
            \/ pc[w] = "put_lock" /\ WriterTry(w, "put_lock", WriterArrives(LockOf(w)))
            \/ pc[w] = "w_woken" /\ WriterTry(w, "w_woken", LockOf(w))

Unlocks(w) == \/ ReaderUnlock(w, "get_unlock", "get_end")
              \/ ReaderUnlock(w, "get_release", "end")
              \/ WriterUnlock(w, "put_unlock", "put_end")

Transfers(w) == \/ PutAccess(w) \/ GetOpen(w) \/ SendChunk(w) \/ SendDone(w)
                \/ PutOpen(w) \/ RecvChunk(w) \/ RecvDone(w)

LEMMA WorkSorted ==
  ASSUME NEW w, Work(w)
  PROVE  Take(w) \/ Lookups(w) \/ Tries(w) \/ Unlocks(w) \/ Transfers(w) \/ Close(w)
BY DEF Work, Get, Put, Lookups, Tries, Unlocks, Transfers

LEMMA SeqElements ==
  ASSUME NEW S, NEW s \in Seq(S)
  PROVE  DOMAIN s = 1 .. Len(s) /\ Len(s) \in Nat /\ \A i \in DOMAIN s : s[i] \in S
BY LenProperties

(* A worker past its lookup has a lock. *)
LEMMA LockTyped ==
  ASSUME Types, Placed, NEW CONSTANT w \in Workers, pc[w] \in GetOnNode \cup PutOnNode
  PROVE  /\ node[w] \in DOMAIN nodes /\ LockOf(w) \in IntLock
         /\ nodes[node[w]].uri = Uri(w) /\ Uri(w) \in URIs
<1>1. node[w] \in DOMAIN nodes /\ nodes[node[w]].uri = Uri(w)
  BY DEF Placed
<1>2. nodes[node[w]] \in [uri : URIs, lock : IntLock]
  BY <1>1, SeqElements DEF Types, Row
<1>. QED  BY <1>1, <1>2 DEF LockOf

LEMMA WorkOthers ==
  ASSUME Types, Placed, NEW CONSTANT w \in Workers, Work(w)
  PROVE  Others(w) /\ pc' \in [Workers -> Places]
<1>. USE DEF Types, Places, Others, Goto, OnlyLocks, locals, job
<1>1. CASE Take(w)
  <2>1. PICK r \in Requests : pc' = [pc EXCEPT ![w] = Branch(r)]
    BY <1>1 DEF Take
  <2>2. Branch(r) \in {"get_lookup", "put_access", "end"}
    BY DEF Branch
  <2>. QED  BY <1>1, <2>1, <2>2 DEF Take
<1>2. CASE Lookups(w)
  BY <1>2 DEF Lookups, Lookup
<1>3. CASE Tries(w)
  BY <1>3 DEF Tries, ReaderTry, WriterTry
<1>4. CASE Unlocks(w)
  <2>1. PICK R \in SUBSET At(node[w], {"r_blocked"}), W \in SUBSET At(node[w], {"w_blocked"}),
             to \in {"get_end", "put_end", "end"} : pc' = LeaveAndWake(w, to, R, W)
    <3>1. CASE WriterUnlock(w, "put_unlock", "put_end")
      <4>1. LockOf(w) \in IntLock
        BY <3>1, LockTyped DEF WriterUnlock, PutOnNode, Writing
      <4>2. WriterLeaves(LockOf(w)).priority \in Priority
        BY <4>1, OpsType DEF IntLock
      <4>. QED  BY <3>1, <4>2 DEF WriterUnlock, ReadersWokenByWriter, WritersWokenByWriter,
                                  Signals, Priority
    <3>2. CASE \/ ReaderUnlock(w, "get_unlock", "get_end")
               \/ ReaderUnlock(w, "get_release", "end")
      BY <3>2 DEF ReaderUnlock, WritersWokenByReader, Signals
    <3>. QED  BY <1>4, <3>1, <3>2 DEF Unlocks
  <2>2. UNCHANGED locals
    BY <1>4 DEF Unlocks, ReaderUnlock, WriterUnlock
  <2>. QED  BY <2>1, <2>2 DEF LeaveAndWake, At
<1>5. CASE Transfers(w)
  <2>1. CASE PutAccess(w) \/ SendChunk(w) \/ SendDone(w) \/ RecvChunk(w) \/ RecvDone(w)
    BY <2>1 DEF PutAccess, SendChunk, SendDone, RecvChunk, RecvDone
  <2>2. CASE GetOpen(w)
    BY <2>2 DEF GetOpen, GetRefused
  <2>3. CASE PutOpen(w)
    BY <2>3 DEF PutOpen
  <2>. QED  BY <1>5, <2>1, <2>2, <2>3 DEF Transfers
<1>6. CASE Close(w)
  BY <1>6 DEF Close
<1>. QED  BY <1>1, <1>2, <1>3, <1>4, <1>5, <1>6, WorkSorted

-----------------------------------------------------------------------------
(* The table after each sort of step.                                       *)

(* Nodes are never removed, and keep their URI. *)
Grows == /\ nodes' \in Seq(Row) /\ DOMAIN nodes \subseteq DOMAIN nodes'
         /\ \A n \in DOMAIN nodes : nodes'[n].uri = nodes[n].uri

LEMMA SetLockNodes ==
  ASSUME Types, NEW CONSTANT w \in Workers, node[w] \in DOMAIN nodes,
         NEW l \in IntLock, SetLock(w, l)
  PROVE  /\ Grows /\ DOMAIN nodes' = DOMAIN nodes
         /\ \A n \in DOMAIN nodes :
              nodes'[n].lock = IF n = node[w] THEN l ELSE nodes[n].lock
<1>. DEFINE k == node[w]
            e == [nodes[k] EXCEPT !.lock = l]
<1>1. nodes \in Seq(Row) /\ nodes[k] \in Row /\ k \in 1 .. Len(nodes)
  BY SeqElements DEF Types, Row
<1>2. e \in Row /\ e.uri = nodes[k].uri /\ e.lock = l
  BY <1>1 DEF Row
<1>3. nodes' = [nodes EXCEPT ![k] = e]
  BY DEF SetLock
<1>4. nodes' \in Seq(Row) /\ Len(nodes') = Len(nodes)
  BY <1>1, <1>2, <1>3, ExceptSeq
<1>5. DOMAIN nodes' = DOMAIN nodes
  BY <1>3
<1>6. \A n \in DOMAIN nodes : nodes'[n] = IF n = k THEN e ELSE nodes[n]
  BY <1>3
<1>. QED  BY <1>2, <1>4, <1>5, <1>6 DEF Grows

(* m is the lock l, its counters changed by what a worker that goes from    *)
(* one place to another leaves and joins.                                   *)
Fits(m, l, from, to) ==
  /\ m \in IntLock /\ SamePolicy(m, l)
  /\ m.readers = l.readers + Change(from, to, Reading)
  /\ m.writers = l.writers + Change(from, to, Writing)
  /\ m.waiting_readers = l.waiting_readers + Change(from, to, AwaitingReaders)
  /\ m.waiting_writers = l.waiting_writers + Change(from, to, AwaitingWriters)

LEMMA LockFunctionsFit ==
  ASSUME NEW l \in IntLock
  PROVE  /\ Fits(ReaderArrives(l), l, "get_lock", "r_blocked")
         /\ Fits(AdmitReader(ReaderArrives(l)), l, "get_lock", "get_open")
         /\ Fits(l, l, "r_woken", "r_blocked")
         /\ Fits(AdmitReader(l), l, "r_woken", "get_open")
         /\ Fits(WriterArrives(l), l, "put_lock", "w_blocked")
         /\ Fits(AdmitWriter(WriterArrives(l)), l, "put_lock", "put_open")
         /\ Fits(l, l, "w_woken", "w_blocked")
         /\ Fits(AdmitWriter(l), l, "w_woken", "put_open")
         /\ Fits(ReaderLeaves(l), l, "get_unlock", "get_end")
         /\ Fits(ReaderLeaves(l), l, "get_release", "end")
         /\ Fits(WriterLeaves(l), l, "put_unlock", "put_end")
<1>. DEFINE r == ReaderArrives(l)
            w == WriterArrives(l)
<1>1. r \in IntLock /\ w \in IntLock
  BY OpsType
<1>2. /\ SamePolicy(r, l) /\ SamePolicy(w, l)
      /\ Counters(r, l.readers, l.writers, l.waiting_readers + 1, l.waiting_writers,
                  l.served_readers)
      /\ Counters(w, l.readers, l.writers, l.waiting_readers, l.waiting_writers + 1,
                  l.served_readers)
  BY OpsEffect
<1>3. /\ AdmitReader(r) \in IntLock /\ SamePolicy(AdmitReader(r), r)
      /\ Counters(AdmitReader(r), r.readers + 1, r.writers, r.waiting_readers - 1,
                  r.waiting_writers, r.served_readers + 1)
  BY <1>1, OpsType, OpsEffect
<1>4. /\ AdmitWriter(w) \in IntLock /\ SamePolicy(AdmitWriter(w), w)
      /\ Counters(AdmitWriter(w), w.readers, w.writers + 1, w.waiting_readers,
                  w.waiting_writers - 1, w.served_readers)
  BY <1>1, OpsType, OpsEffect
<1>5. /\ AdmitReader(l) \in IntLock /\ SamePolicy(AdmitReader(l), l)
       /\ Counters(AdmitReader(l), l.readers + 1, l.writers, l.waiting_readers - 1,
                   l.waiting_writers, l.served_readers + 1)
       /\ AdmitWriter(l) \in IntLock /\ SamePolicy(AdmitWriter(l), l)
       /\ Counters(AdmitWriter(l), l.readers, l.writers + 1, l.waiting_readers,
                   l.waiting_writers - 1, l.served_readers)
  BY OpsType, OpsEffect
<1>6. /\ ReaderLeaves(l) \in IntLock /\ SamePolicy(ReaderLeaves(l), l)
       /\ Counters(ReaderLeaves(l), l.readers - 1, l.writers, l.waiting_readers,
                   l.waiting_writers, l.served_readers)
       /\ WriterLeaves(l) \in IntLock /\ SamePolicy(WriterLeaves(l), l)
       /\ Counters(WriterLeaves(l), l.readers, l.writers - 1, l.waiting_readers,
                   l.waiting_writers, 0)
  BY OpsType, OpsEffect
<1>. HIDE DEF r, w
<1>. USE DEF Fits, Change, Share, Reading, Writing, AwaitingReaders, AwaitingWriters,
             Counters, SamePolicy, IntLock
<1>7. Fits(r, l, "get_lock", "r_blocked") /\ Fits(w, l, "put_lock", "w_blocked")
  BY <1>1, <1>2
<1>8. Fits(AdmitReader(r), l, "get_lock", "get_open")
  BY <1>2, <1>3
<1>9. Fits(AdmitWriter(w), l, "put_lock", "put_open")
  BY <1>2, <1>4
<1>10. Fits(l, l, "r_woken", "r_blocked") /\ Fits(l, l, "w_woken", "w_blocked")
  OBVIOUS
<1>11. Fits(AdmitReader(l), l, "r_woken", "get_open")
  BY <1>5
<1>12. Fits(AdmitWriter(l), l, "w_woken", "put_open")
  BY <1>5
<1>13. /\ Fits(ReaderLeaves(l), l, "get_unlock", "get_end")
       /\ Fits(ReaderLeaves(l), l, "get_release", "end")
  BY <1>6
<1>14. Fits(WriterLeaves(l), l, "put_unlock", "put_end")
  BY <1>6
<1>. QED  BY <1>7, <1>8, <1>9, <1>10, <1>11, <1>12, <1>13, <1>14 DEF r, w

(* A step on the lock of w's node.  Nobody writes when w comes in, and      *)
(* nobody reads when it comes in to write.                                  *)
LockMoves(w, to, l) ==
  /\ SetLock(w, l) /\ pc'[w] = to /\ Fits(l, LockOf(w), pc[w], to)
  /\ \/ pc[w] \in GetOnNode /\ to \in {"r_blocked", "get_open", "get_end", "end"}
     \/ pc[w] \in PutOnNode /\ to \in {"w_blocked", "put_open", "put_end"}
  /\ to \in Reading => LockOf(w).writers <= 0
  /\ to \in Writing => LockOf(w).writers <= 0 /\ LockOf(w).readers <= 0

LEMMA LockSteps ==
  ASSUME Types, Placed, NEW CONSTANT w \in Workers, Tries(w) \/ Unlocks(w)
  PROVE  OnlyLocks /\ \E to, l : LockMoves(w, to, l)
<1>. DEFINE L == LockOf(w)
<1>1. pc \in [Workers -> Places]
  BY DEF Types
<1>. USE DEF GetOnNode, PutOnNode, Reading, Writing, AwaitingReaders, AwaitingWriters
<1>2. OnlyLocks /\ pc[w] \in GetOnNode \cup PutOnNode
  BY DEF Tries, Unlocks, ReaderTry, WriterTry, ReaderUnlock, WriterUnlock
<1>3. L \in IntLock
  BY <1>2, LockTyped
<1>4. /\ ReaderArrives(L).writers = L.writers /\ WriterArrives(L).writers = L.writers
      /\ WriterArrives(L).readers = L.readers
  BY <1>3, OpsEffect DEF Counters
<1>5. /\ \A l \in IntLock : ~ReaderWaits(l) => l.writers <= 0
      /\ \A l \in IntLock : ~WriterWaits(l) => l.writers <= 0 /\ l.readers <= 0
  BY DEF ReaderWaits, WriterWaits, IntLock
<1>6. ReaderArrives(L) \in IntLock /\ WriterArrives(L) \in IntLock
  BY <1>3, OpsType
<1>. HIDE DEF L
<1>7. CASE pc[w] = "get_lock" /\ ReaderTry(w, "get_lock", ReaderArrives(L))
  <2>1. \/ SetLock(w, ReaderArrives(L)) /\ pc'[w] = "r_blocked"
        \/ /\ SetLock(w, AdmitReader(ReaderArrives(L))) /\ pc'[w] = "get_open"
           /\ L.writers <= 0
    BY <1>1, <1>4, <1>5, <1>6, <1>7 DEF ReaderTry, Goto
  <2>2. \E to, l : LockMoves(w, to, l)
    BY <1>3, <1>7, <2>1, LockFunctionsFit DEF LockMoves, L
  <2>. QED  BY <1>2, <2>2
<1>8. CASE pc[w] = "r_woken" /\ ReaderTry(w, "r_woken", L)
  <2>1. \/ SetLock(w, L) /\ pc'[w] = "r_blocked"
        \/ SetLock(w, AdmitReader(L)) /\ pc'[w] = "get_open" /\ L.writers <= 0
    BY <1>1, <1>3, <1>5, <1>8 DEF ReaderTry, Goto
  <2>2. \E to, l : LockMoves(w, to, l)
    BY <1>3, <1>8, <2>1, LockFunctionsFit DEF LockMoves, L
  <2>. QED  BY <1>2, <2>2
<1>9. CASE pc[w] = "put_lock" /\ WriterTry(w, "put_lock", WriterArrives(L))
  <2>1. \/ SetLock(w, WriterArrives(L)) /\ pc'[w] = "w_blocked"
        \/ /\ SetLock(w, AdmitWriter(WriterArrives(L))) /\ pc'[w] = "put_open"
           /\ L.writers <= 0 /\ L.readers <= 0
    BY <1>1, <1>4, <1>5, <1>6, <1>9 DEF WriterTry, Goto
  <2>2. \E to, l : LockMoves(w, to, l)
    BY <1>3, <1>9, <2>1, LockFunctionsFit DEF LockMoves, L
  <2>. QED  BY <1>2, <2>2
<1>10. CASE pc[w] = "w_woken" /\ WriterTry(w, "w_woken", L)
  <2>1. \/ SetLock(w, L) /\ pc'[w] = "w_blocked"
        \/ /\ SetLock(w, AdmitWriter(L)) /\ pc'[w] = "put_open"
           /\ L.writers <= 0 /\ L.readers <= 0
    BY <1>1, <1>3, <1>5, <1>10 DEF WriterTry, Goto
  <2>2. \E to, l : LockMoves(w, to, l)
    BY <1>3, <1>10, <2>1, LockFunctionsFit DEF LockMoves, L
  <2>. QED  BY <1>2, <2>2
<1>11. CASE Unlocks(w)
  <2>1. \/ pc[w] = "get_unlock" /\ pc'[w] = "get_end" /\ SetLock(w, ReaderLeaves(L))
        \/ pc[w] = "get_release" /\ pc'[w] = "end" /\ SetLock(w, ReaderLeaves(L))
        \/ pc[w] = "put_unlock" /\ pc'[w] = "put_end" /\ SetLock(w, WriterLeaves(L))
    BY <1>11 DEF Unlocks, ReaderUnlock, WriterUnlock, LeaveAndWake, L
  <2>2. \E to, l : LockMoves(w, to, l)
    BY <1>3, <2>1, LockFunctionsFit DEF LockMoves, L
  <2>. QED  BY <1>2, <2>2
<1>. QED  BY <1>7, <1>8, <1>9, <1>10, <1>11 DEF Tries, L

-----------------------------------------------------------------------------
(* What the steps log.                                                      *)

IsRefusal(e) == e.method = "PUT" /\ e.code = 403

(* The step of w logs nothing, or one entry for the URI of w.               *)
LogStep(w, refused) ==
  \/ log' = log /\ ~refused
  \/ \E e \in Entry : /\ log' = Append(log, e) /\ e.uri = Uri(w)
                      /\ IsRefusal(e) <=> refused

LEMMA LogAppended ==
  ASSUME Types, NEW e \in Entry, log' = Append(log, e)
  PROVE  /\ log' \in Seq(Entry) /\ Len(log) \in Nat
         /\ DOMAIN log = 1 .. Len(log) /\ DOMAIN log' = 1 .. Len(log) + 1
         /\ \A k \in DOMAIN log : log'[k] = log[k]
         /\ log'[Len(log) + 1] = e
BY AppendProperties, LenProperties DEF Types

LEMMA RefusalsFinite ==
  ASSUME Types, NEW u
  PROVE  /\ IsFiniteSet(Refusals(u)) /\ Cardinality(Refusals(u)) \in Nat
         /\ Refusals(u) \subseteq 1 .. Len(log)
<1>1. Len(log) \in Nat /\ DOMAIN log = 1 .. Len(log)
  BY LenProperties DEF Types
<1>2. IsFiniteSet(1 .. Len(log)) /\ Refusals(u) \subseteq 1 .. Len(log)
  BY <1>1, FS_Interval DEF Refusals
<1>. QED  BY <1>2, FS_Subset, FS_CardinalityType

LEMMA RefusalsChange ==
  ASSUME Types, NEW CONSTANT w \in Workers, NEW CONSTANT refused \in BOOLEAN,
         LogStep(w, refused), NEW CONSTANT u
  PROVE  Cardinality(Refusals(u)') =
           Cardinality(Refusals(u)) + (IF refused /\ u = Uri(w) THEN 1 ELSE 0)
<1>1. IsFiniteSet(Refusals(u)) /\ Cardinality(Refusals(u)) \in Nat
  BY RefusalsFinite
<1>2. CASE log' = log /\ ~refused
  <2>1. Refusals(u)' = Refusals(u)
    BY <1>2 DEF Refusals
  <2>. QED  BY <1>1, <1>2, <2>1
<1>3. ASSUME NEW e \in Entry, log' = Append(log, e), e.uri = Uri(w),
             IsRefusal(e) <=> refused
      PROVE  Cardinality(Refusals(u)') =
               Cardinality(Refusals(u)) + (IF refused /\ u = Uri(w) THEN 1 ELSE 0)
  <2>. DEFINE n == Len(log) + 1
  <2>1. /\ n \in Nat /\ DOMAIN log = 1 .. n - 1 /\ DOMAIN log' = 1 .. n
        /\ \A k \in DOMAIN log : log'[k] = log[k]
        /\ log'[n] = e
    BY <1>3, LogAppended
  <2>2. DOMAIN log' = DOMAIN log \cup {n} /\ n \notin DOMAIN log
    BY <2>1
  <2>. HIDE DEF n
  <2>3. CASE refused /\ u = Uri(w)
    <3>1. Refusals(u)' = Refusals(u) \cup {n} /\ n \notin Refusals(u)
      BY <1>3, <2>1, <2>2, <2>3 DEF Refusals, IsRefusal
    <3>. QED  BY <1>1, <2>3, <3>1, FS_AddElement
  <2>4. CASE ~(refused /\ u = Uri(w))
    <3>1. Refusals(u)' = Refusals(u)
      BY <1>3, <2>1, <2>2, <2>4 DEF Refusals, IsRefusal
    <3>. QED  BY <1>1, <2>4, <3>1
  <2>. QED  BY <2>3, <2>4
<1>. QED  BY <1>2, <1>3 DEF LogStep

LEMMA LoggedEntry ==
  ASSUME Types, Placed, NEW CONSTANT w \in Workers,
         pc[w] \in GetOnNode \cup PutOnNode, NEW code \in Nat, NEW body \in Seq(Nat),
         Logged(w, code, body)
  PROVE  \E e \in Entry : /\ log' = Append(log, e) /\ e.uri = Uri(w) /\ e.code = code
                          /\ e.method = req[w].method /\ e.body = body /\ e.conn = conn[w]
<1>. DEFINE e == [method |-> req[w].method, uri |-> Uri(w),
                  code |-> code, conn |-> conn[w], body |-> body]
<1>1. req[w].method \in {"GET", "PUT"} /\ Uri(w) \in URIs
  BY LockTyped DEF Placed, GetPlaces, PutPlaces
<1>2. conn[w] \in Conns
  BY DEF Placed, GetOnNode, PutOnNode, Reading, Writing, AwaitingReaders, AwaitingWriters
<1>3. e \in Entry
  BY <1>1, <1>2 DEF Entry
<1>. QED  BY <1>3 DEF Logged

(* The transfers leave the table alone.  Only the refused PUT leaves the    *)
(* places its lock counts it in, and it is logged.                          *)
LEMMA TransferSteps ==
  ASSUME Types, Placed, NEW CONSTANT w \in Workers, Transfers(w)
  PROVE  /\ UNCHANGED <<arrivals, nodes, job>>
         /\ \/ pc[w] = "put_access" /\ pc'[w] = "put_lookup" /\ log' = log
            \/ pc[w] \in Reading /\ pc'[w] \in Reading /\ LogStep(w, FALSE)
            \/ pc[w] \in Writing /\ pc'[w] \in Writing /\ LogStep(w, FALSE)
            \/ pc[w] = "put_open" /\ pc'[w] = "end" /\ LogStep(w, TRUE)
<1>1. /\ pc \in [Workers -> Places] /\ << >> \in Seq(Nat) /\ sent[w] \in Seq(Nat)
      /\ pc[w] \in GetPlaces => req[w].method = "GET"
      /\ pc[w] \in PutPlaces => req[w].method = "PUT"
  BY DEF Types, Placed
<1>2. ASSUME NEW code \in Nat, NEW body \in Seq(Nat), Logged(w, code, body),
             pc[w] \in GetOnNode \cup PutOnNode
      PROVE  /\ req[w].method = "PUT" /\ code = 403 => LogStep(w, TRUE)
             /\ req[w].method # "PUT" \/ code # 403 => LogStep(w, FALSE)
  <2>1. PICK e \in Entry : /\ log' = Append(log, e) /\ e.uri = Uri(w) /\ e.code = code
                           /\ e.method = req[w].method
    BY <1>2, LoggedEntry
  <2>. QED  BY <2>1 DEF LogStep, IsRefusal
<1>. USE DEF Goto, locals, GetPlaces, PutPlaces, GetOnNode, PutOnNode, Reading, Writing
<1>3. CASE PutAccess(w)
  BY <1>1, <1>3 DEF PutAccess, LogStep
<1>4. CASE GetOpen(w)
  <2>1. CASE log' = log
    BY <1>1, <1>4, <2>1 DEF GetOpen, GetRefused, LogStep
  <2>2. ASSUME NEW code \in Nat, Logged(w, code, << >>) PROVE LogStep(w, FALSE)
    <3>1. pc[w] = "get_open"
      BY <1>4 DEF GetOpen
    <3>. QED  BY <1>1, <1>2, <2>2, <3>1
  <2>3. /\ UNCHANGED <<arrivals, nodes, job>> /\ pc[w] \in Reading /\ pc'[w] \in Reading
        /\ log' = log \/ \E code \in {400, 403, 404} : Logged(w, code, << >>)
    BY <1>1, <1>4 DEF GetOpen, GetRefused
  <2>4. LogStep(w, FALSE)
    BY <2>1, <2>2, <2>3 DEF LogStep
  <2>. QED  BY <2>3, <2>4
<1>5. CASE SendChunk(w)
  BY <1>1, <1>5 DEF SendChunk, LogStep
<1>6. CASE SendDone(w)
  <2>1. CASE log' = log
    BY <1>1, <1>6, <2>1 DEF SendDone, LogStep
  <2>2. CASE Logged(w, 200, sent[w])
    <3>1. pc[w] = "sending" /\ 200 # 403 /\ 200 \in Nat
      BY <1>6 DEF SendDone
    <3>2. pc[w] \in GetOnNode \cup PutOnNode /\ req[w].method # "PUT"
      BY <1>1, <3>1
    <3>3. PICK e \in Entry : /\ log' = Append(log, e) /\ e.uri = Uri(w) /\ e.code = 200
                             /\ e.method = req[w].method
      BY <1>1, <2>2, <3>1, <3>2, LoggedEntry
    <3>4. LogStep(w, FALSE)
      BY <3>2, <3>3 DEF LogStep, IsRefusal
    <3>. QED  BY <1>1, <1>6, <3>4 DEF SendDone
  <2>. QED  BY <1>6, <2>1, <2>2 DEF SendDone
<1>7. CASE PutOpen(w)
  <2>1. CASE log' = log /\ Goto(w, "put_open", "receiving")
    BY <1>1, <1>7, <2>1 DEF PutOpen, LogStep
  <2>2. CASE Logged(w, 403, << >>) /\ Goto(w, "put_open", "end")
    <3>1. pc[w] = "put_open" /\ 403 \in Nat
      BY <2>2
    <3>2. LogStep(w, TRUE)
      BY <1>1, <1>2, <2>2, <3>1
    <3>. QED  BY <1>1, <1>7, <2>2, <3>2 DEF PutOpen
  <2>. QED  BY <1>7, <2>1, <2>2 DEF PutOpen
<1>8. CASE RecvChunk(w)
  BY <1>1, <1>8 DEF RecvChunk, LogStep
<1>9. CASE RecvDone(w)
  <2>1. CASE log' = log
    BY <1>1, <1>9, <2>1 DEF RecvDone, LogStep
  <2>2. ASSUME NEW code \in {200, 201}, Logged(w, code, << >>) PROVE LogStep(w, FALSE)
    <3>1. pc[w] = "receiving" /\ code \in Nat /\ code # 403
      BY <1>9, <2>2 DEF RecvDone
    <3>. QED  BY <1>1, <1>2, <2>2, <3>1
  <2>. QED  BY <1>1, <1>9, <2>1, <2>2 DEF RecvDone
<1>. QED  BY <1>3, <1>4, <1>5, <1>6, <1>7, <1>8, <1>9 DEF Transfers

-----------------------------------------------------------------------------
(* The counters go on counting.                                             *)

(* Those of node n, when its lock changed by what w did to the counts.      *)
LEMMA NodeStillCounts ==
  ASSUME Types, NEW CONSTANT w \in Workers, Others(w), Grows,
         NEW CONSTANT refused \in BOOLEAN, LogStep(w, refused),
         \A S \in {Reading, Writing, AwaitingReaders, AwaitingWriters} :
           node'[w] = node[w] \/ (pc[w] \notin S /\ pc'[w] \notin S),
         NEW CONSTANT n \in DOMAIN nodes, NodeCounts(n), nodes[n].lock \in IntLock,
         LET l == nodes[n].lock
             m == nodes'[n].lock
             refusal == IF refused /\ nodes[n].uri = Uri(w) THEN 1 ELSE 0
         IN  /\ SamePolicy(m, l)
             /\ m.readers = l.readers + Delta(w, n, Reading)
             /\ m.writers = l.writers + Delta(w, n, Writing) + refusal
             /\ m.waiting_readers =
                  l.waiting_readers + Delta(w, n, AwaitingReaders)
             /\ m.waiting_writers =
                  l.waiting_writers + Delta(w, n, AwaitingWriters)
  PROVE  NodeCounts(n)'
<1>. DEFINE l == nodes[n].lock
            m == nodes'[n].lock
            D(S) == Delta(w, n, S)
<1>1. PICK u : u = nodes[n].uri /\ u = nodes'[n].uri
  BY DEF Grows
<1>2. /\ Refusals(nodes[n].uri) = Refusals(u) /\ Refusals(nodes[n].uri)' = Refusals(u)'
  BY <1>1 DEF Refusals
<1>3. Cardinality(Refusals(u)') =
        Cardinality(Refusals(u)) + (IF refused /\ u = Uri(w) THEN 1 ELSE 0)
  BY RefusalsChange
<1>4. ASSUME NEW CONSTANT S \in {Reading, Writing, AwaitingReaders, AwaitingWriters}
      PROVE  D(S) \in Int /\ Count(n, S) \in Nat /\ Count(n, S)' = Count(n, S) + D(S)
  <2>1. D(S) \in Int /\ Count(n, S) \in Nat
    BY CountNat DEF Delta, Change, Share
  <2>2. Counted(S)
    BY KindsCounted
  <2>3. Count(n, S)' = Count(n, S) + D(S)
    BY <2>2, CountChanges
  <2>. HIDE DEF D
  <2>. QED  BY <2>1, <2>3
<1>5. /\ SamePolicy(m, l) /\ l \in IntLock
      /\ m.readers = l.readers + D(Reading)
      /\ m.writers = l.writers + D(Writing)
                       + (IF refused /\ u = Uri(w) THEN 1 ELSE 0)
      /\ m.waiting_readers = l.waiting_readers + D(AwaitingReaders)
      /\ m.waiting_writers = l.waiting_writers + D(AwaitingWriters)
  BY <1>1
<1>6. /\ Cardinality(Refusals(u)) \in Nat
      /\ l.priority = "N_WAY" /\ l.n_way = 1
      /\ l.readers = Count(n, Reading)
      /\ l.writers = Count(n, Writing) + Cardinality(Refusals(u))
      /\ l.waiting_readers = Count(n, AwaitingReaders)
      /\ l.waiting_writers = Count(n, AwaitingWriters)
  BY <1>2, RefusalsFinite DEF NodeCounts
<1>. HIDE DEF D, l, m
<1>7. /\ m.priority = "N_WAY" /\ m.n_way = 1
      /\ m.readers = Count(n, Reading)'
      /\ m.waiting_readers = Count(n, AwaitingReaders)'
      /\ m.waiting_writers = Count(n, AwaitingWriters)'
  BY <1>4, <1>5, <1>6 DEF SamePolicy
<1>8. m.writers = Count(n, Writing)' + Cardinality(Refusals(u)')
  BY <1>3, <1>4, <1>5, <1>6
<1>. QED  BY <1>2, <1>7, <1>8 DEF NodeCounts, m

LEMMA RowsTyped ==
  ASSUME Types
  PROVE  /\ nodes \in Seq(Row) /\ DOMAIN nodes = 1 .. Len(nodes) /\ Len(nodes) \in Nat
         /\ \A n \in DOMAIN nodes : nodes[n].uri \in URIs /\ nodes[n].lock \in IntLock
<1>1. nodes \in Seq(Row)
  BY DEF Types, Row
<1>2. /\ DOMAIN nodes = 1 .. Len(nodes) /\ Len(nodes) \in Nat
      /\ \A n \in DOMAIN nodes : nodes[n] \in Row
  BY <1>1, SeqElements
<1>. QED  BY <1>1, <1>2 DEF Row

LEMMA LookupSteps ==
  ASSUME Types, Placed, Table, NEW CONSTANT w \in Workers, Lookups(w)
  PROVE  /\ UNCHANGED <<conn, req, log>> /\ Grows
         /\ node'[w] \in DOMAIN nodes' /\ nodes'[node'[w]].uri = Uri(w) /\ Uri(w) \in URIs
         /\ \/ pc[w] = "get_lookup" /\ pc'[w] = "get_lock"
            \/ pc[w] = "put_lookup" /\ pc'[w] = "put_lock"
         /\ \/ nodes' = nodes
            \/ /\ \A n \in DOMAIN nodes : nodes'[n] = nodes[n] /\ nodes[n].uri # Uri(w)
               /\ node'[w] = Len(nodes) + 1 /\ DOMAIN nodes' = 1 .. Len(nodes) + 1
               /\ \E g \in InitServed : nodes'[node'[w]].lock = NewLock("N_WAY", 1, g)
<1>1. /\ UNCHANGED <<conn, req, log>>
      /\ \/ pc[w] = "get_lookup" /\ pc'[w] = "get_lock"
         \/ pc[w] = "put_lookup" /\ pc'[w] = "put_lock"
  BY DEF Lookups, Lookup, Goto, Types
<1>2. Uri(w) \in URIs
  BY <1>1 DEF Placed, GetPlaces, PutPlaces, Request, Uri
<1>3. nodes \in Seq(Row) /\ DOMAIN nodes = 1 .. Len(nodes) /\ Len(nodes) \in Nat
  BY SeqElements DEF Types, Row
<1>4. CASE \E n \in hashLockLookup(Uri(w)) : node' = [node EXCEPT ![w] = n] /\ UNCHANGED nodes
  BY <1>1, <1>2, <1>3, <1>4 DEF hashLockLookup, Grows, Types
<1>5. ASSUME NEW g \in InitServed,
             hashLockLookup(Uri(w)) = {},
             attach(Uri(w), NewLock("N_WAY", 1, g)),
             node' = [node EXCEPT ![w] = Len(nodes')]
      PROVE  /\ Grows
             /\ node'[w] \in DOMAIN nodes' /\ nodes'[node'[w]].uri = Uri(w)
             /\ \A n \in DOMAIN nodes : nodes'[n] = nodes[n] /\ nodes[n].uri # Uri(w)
             /\ node'[w] = Len(nodes) + 1 /\ DOMAIN nodes' = 1 .. Len(nodes) + 1
             /\ nodes'[node'[w]].lock = NewLock("N_WAY", 1, g)
  <2>. DEFINE e == [uri |-> Uri(w), lock |-> NewLock("N_WAY", 1, g)]
  <2>1. e \in Row
    <3>1. g \in Int
      BY HttpAssumption
    <3>. QED  BY <1>2, <3>1 DEF Row, IntLock, NewLock, Priority
  <2>2. nodes' = Append(nodes, e)
    BY <1>5 DEF attach
  <2>3. /\ nodes' \in Seq(Row) /\ Len(nodes') = Len(nodes) + 1
        /\ \A n \in 1 .. Len(nodes) : nodes'[n] = nodes[n]
        /\ nodes'[Len(nodes) + 1] = e
    BY <1>3, <2>1, <2>2, AppendProperties
  <2>4. DOMAIN nodes' = 1 .. Len(nodes) + 1
    BY <2>3, LenProperties
  <2>5. \A n \in DOMAIN nodes : nodes[n].uri # Uri(w)
    <3>1. ASSUME NEW n \in DOMAIN nodes, nodes[n].uri = Uri(w) PROVE FALSE
      <4>1. \A m \in 1 .. n - 1 : m \in DOMAIN nodes /\ m # n
        BY <1>3
      <4>2. n \in hashLockLookup(Uri(w))
        BY <3>1, <4>1 DEF hashLockLookup, Table
      <4>. QED  BY <1>5, <4>2
    <3>. QED  BY <3>1
  <2>6. node'[w] = Len(nodes) + 1 /\ e.uri = Uri(w) /\ e.lock = NewLock("N_WAY", 1, g)
    BY <1>5, <2>3 DEF Types
  <2>. HIDE DEF e
  <2>. QED  BY <1>3, <2>3, <2>4, <2>5, <2>6 DEF Grows
<1>6. \/ \E n \in hashLockLookup(Uri(w)) : node' = [node EXCEPT ![w] = n] /\ UNCHANGED nodes
      \/ \E g \in InitServed : /\ hashLockLookup(Uri(w)) = {}
                               /\ attach(Uri(w), NewLock("N_WAY", 1, g))
                               /\ node' = [node EXCEPT ![w] = Len(nodes')]
  BY DEF Lookups, Lookup
<1>7. ASSUME NEW g \in InitServed,
             hashLockLookup(Uri(w)) = {},
             attach(Uri(w), NewLock("N_WAY", 1, g)),
             node' = [node EXCEPT ![w] = Len(nodes')]
      PROVE  /\ Grows
             /\ node'[w] \in DOMAIN nodes' /\ nodes'[node'[w]].uri = Uri(w)
             /\ \A n \in DOMAIN nodes : nodes'[n] = nodes[n] /\ nodes[n].uri # Uri(w)
             /\ node'[w] = Len(nodes) + 1 /\ DOMAIN nodes' = 1 .. Len(nodes) + 1
             /\ \E i \in InitServed : nodes'[node'[w]].lock = NewLock("N_WAY", 1, i)
  BY <1>5, <1>7
<1>. QED  BY <1>1, <1>2, <1>4, <1>6, <1>7

(* Nobody is on a node that is not in the table. *)
LEMMA NobodyBeyond ==
  ASSUME Types, Placed, NEW CONSTANT n, n \notin DOMAIN nodes,
         NEW CONSTANT S \in {Reading, Writing, AwaitingReaders, AwaitingWriters}
  PROVE  Count(n, S) = 0
<1>1. S \subseteq GetOnNode \cup PutOnNode
  BY DEF GetOnNode, PutOnNode
<1>2. At(n, S) = {}
  BY <1>1 DEF Placed, At
<1>. QED  BY <1>2, CountNat

(* Outside is everywhere no counter counts. *)
Outside == Places \ (Reading \cup Writing \cup AwaitingReaders \cup AwaitingWriters)

(* A worker that moves about outside, among the readers or among the        *)
(* writers changes no count.                                                *)
LEMMA NodeUnchanged ==
  ASSUME Types, NEW CONSTANT w \in Workers, Others(w), Grows, LogStep(w, FALSE),
         \/ pc[w] \in Outside /\ pc'[w] \in Outside
         \/ /\ node'[w] = node[w]
            /\ \/ pc[w] \in Reading /\ pc'[w] \in Reading
               \/ pc[w] \in Writing /\ pc'[w] \in Writing,
         NEW CONSTANT n \in DOMAIN nodes, NodeCounts(n), nodes'[n].lock = nodes[n].lock
  PROVE  NodeCounts(n)'
<1>. DEFINE D(S) == Delta(w, n, S)
            l == nodes[n].lock
<1>1. D(Reading) = 0 /\ D(Writing) = 0 /\ D(AwaitingReaders) = 0 /\ D(AwaitingWriters) = 0
  BY DEF Delta, Change, Share, Outside, Reading, Writing, AwaitingReaders, AwaitingWriters
<1>2. \A S \in {Reading, Writing, AwaitingReaders, AwaitingWriters} :
        node'[w] = node[w] \/ (pc[w] \notin S /\ pc'[w] \notin S)
  BY DEF Outside
<1>3. l \in IntLock
  BY RowsTyped
<1>. HIDE DEF D, l
<1>4. /\ SamePolicy(l, l)
      /\ l.readers = l.readers + D(Reading)
      /\ l.writers = l.writers + D(Writing) + 0
      /\ l.waiting_readers = l.waiting_readers + D(AwaitingReaders)
      /\ l.waiting_writers = l.waiting_writers + D(AwaitingWriters)
  BY <1>1, <1>3 DEF IntLock, SamePolicy
<1>. QED  BY <1>2, <1>3, <1>4, NodeStillCounts DEF D, l

LEMMA LocksCountStep ==
  ASSUME Locking, NEW CONSTANT w \in Workers, Work(w)
  PROVE  LocksCount' /\ Grows /\ \E refused \in BOOLEAN : LogStep(w, refused)
<1>1. Types /\ Placed /\ Table /\ Others(w) /\ pc[w] \in Places /\ nodes \in Seq(Row)
  BY WorkOthers DEF Locking, Types, Row
<1>2. \A n \in DOMAIN nodes : NodeCounts(n) /\ nodes[n].lock \in IntLock
  BY <1>1, RowsTyped DEF Locking, LocksCount
<1>3. nodes' = nodes => Grows /\ \A n \in DOMAIN nodes : nodes'[n].lock = nodes[n].lock
  BY <1>1 DEF Grows
<1>4. CASE Take(w) \/ Close(w)
  <2>1. /\ nodes' = nodes /\ log' = log
        /\ pc[w] \in {"pop", "get_end", "put_end", "end"}
        /\ pc'[w] \in {"pop", "get_lookup", "put_access", "end"}
    BY <1>1, <1>4 DEF Take, Close, Branch, Types
  <2>2. pc[w] \in Outside /\ pc'[w] \in Outside /\ LogStep(w, FALSE)
    BY <2>1 DEF Outside, Places, Reading, Writing, AwaitingReaders, AwaitingWriters, LogStep
  <2>3. \A n \in DOMAIN nodes : NodeCounts(n)'
    BY <1>1, <1>2, <1>3, <2>1, <2>2, NodeUnchanged
  <2>. QED  BY <1>3, <2>1, <2>2, <2>3 DEF LocksCount
<1>5. CASE Lookups(w)
  <2>1. /\ log' = log /\ Grows
        /\ \/ pc[w] = "get_lookup" /\ pc'[w] = "get_lock"
           \/ pc[w] = "put_lookup" /\ pc'[w] = "put_lock"
        /\ \/ nodes' = nodes
           \/ /\ \A n \in DOMAIN nodes : nodes'[n] = nodes[n] /\ nodes[n].uri # Uri(w)
              /\ node'[w] = Len(nodes) + 1 /\ DOMAIN nodes' = 1 .. Len(nodes) + 1
              /\ \E g \in InitServed : nodes'[node'[w]].lock = NewLock("N_WAY", 1, g)
        /\ nodes'[node'[w]].uri = Uri(w)
    BY <1>1, <1>5, LookupSteps
  <2>2. pc[w] \in Outside /\ pc'[w] \in Outside /\ LogStep(w, FALSE)
    BY <2>1 DEF Outside, Places, Reading, Writing, AwaitingReaders, AwaitingWriters, LogStep
  <2>3. \A n \in DOMAIN nodes : NodeCounts(n)'
    BY <1>1, <1>2, <2>1, <2>2, NodeUnchanged
  <2>4. CASE nodes' = nodes
    BY <2>1, <2>2, <2>3, <2>4 DEF LocksCount
  <2>5. CASE /\ \A n \in DOMAIN nodes : nodes'[n] = nodes[n] /\ nodes[n].uri # Uri(w)
             /\ node'[w] = Len(nodes) + 1 /\ DOMAIN nodes' = 1 .. Len(nodes) + 1
             /\ \E g \in InitServed : nodes'[node'[w]].lock = NewLock("N_WAY", 1, g)
    <3>1. PICK n : n = Len(nodes) + 1
      OBVIOUS
    <3>2. /\ DOMAIN nodes = 1 .. Len(nodes) /\ Len(nodes) \in Nat /\ n \notin DOMAIN nodes
          /\ DOMAIN nodes' = DOMAIN nodes \cup {n}
      BY <1>1, <2>5, <3>1, SeqElements
    <3>3. ASSUME NEW CONSTANT S \in {Reading, Writing, AwaitingReaders, AwaitingWriters}
          PROVE  Count(n, S)' = 0
      <4>1. Counted(S) /\ pc[w] \notin S /\ pc'[w] \notin S
        BY <2>2, KindsCounted DEF Outside
      <4>2. Count(n, S)' = Count(n, S) + Delta(w, n, S)
        BY <1>1, <4>1, CountChanges
      <4>3. Count(n, S) = 0 /\ Delta(w, n, S) = 0
        BY <1>1, <3>2, <4>1, NobodyBeyond DEF Delta, Change, Share
      <4>. QED  BY <4>2, <4>3
    <3>4. PICK u : u = Uri(w)
      OBVIOUS
    <3>5. Refusals(u)' = {}
      BY <1>1, <2>1, <2>5, <3>4 DEF Refusals, Table
    <3>6. Refusals(nodes[n].uri)' = Refusals(u)'
      BY <2>1, <2>5, <3>1, <3>4 DEF Refusals
    <3>7. PICK g : nodes'[node'[w]].lock = NewLock("N_WAY", 1, g)
      BY <2>5
    <3>8. NodeCounts(n)'
      BY <2>5, <3>1, <3>3, <3>5, <3>6, <3>7, FS_EmptySet DEF NodeCounts, NewLock
    <3>. QED  BY <2>1, <2>2, <2>3, <3>2, <3>8 DEF LocksCount
  <2>. QED  BY <2>1, <2>4, <2>5
<1>6. CASE Tries(w) \/ Unlocks(w)
  <2>1. OnlyLocks /\ \E to, l : LockMoves(w, to, l)
    BY <1>1, <1>6, LockSteps
  <2>2. PICK l : LockMoves(w, pc'[w], l)
    BY <2>1 DEF LockMoves
  <2>3. /\ node' = node /\ LogStep(w, FALSE) /\ SetLock(w, l)
        /\ Fits(l, LockOf(w), pc[w], pc'[w]) /\ l \in IntLock
        /\ node[w] \in DOMAIN nodes
    <3>1. pc[w] \in GetOnNode \cup PutOnNode
      BY <2>2 DEF LockMoves
    <3>. QED  BY <1>1, <2>1, <2>2, <3>1, LockTyped DEF OnlyLocks, locals, job, LogStep, LockMoves, Fits
  <2>4. /\ Grows /\ DOMAIN nodes' = DOMAIN nodes
        /\ \A n \in DOMAIN nodes : nodes'[n].lock = IF n = node[w] THEN l ELSE nodes[n].lock
    BY <1>1, <2>3, SetLockNodes
  <2>5. ASSUME NEW CONSTANT n \in DOMAIN nodes PROVE NodeCounts(n)'
    <3>. DEFINE D(S) == Delta(w, n, S)
                m == nodes'[n].lock
                o == nodes[n].lock
    <3>1. \A S : D(S) \in Int
      BY DEF Delta, Change, Share
    <3>2. NodeCounts(n) /\ o \in IntLock
      BY <1>2
    <3>. HIDE DEF D, m, o
    <3>3. CASE node[w] = n
      <4>1. Fits(m, o, pc[w], pc'[w])
        BY <2>3, <2>4, <3>3 DEF LockOf, m, o
      <4>2. /\ SamePolicy(m, o)
            /\ m.readers = o.readers + D(Reading)
            /\ m.writers = o.writers + D(Writing) + 0
            /\ m.waiting_readers = o.waiting_readers + D(AwaitingReaders)
            /\ m.waiting_writers = o.waiting_writers + D(AwaitingWriters)
        BY <3>1, <3>2, <3>3, <4>1 DEF Fits, D, Delta, IntLock
      <4>. QED  BY <1>1, <2>3, <2>4, <3>2, <3>3, <4>2, NodeStillCounts DEF D, m, o
    <3>4. CASE node[w] # n
      <4>1. m = o
        BY <2>4, <3>4 DEF m, o
      <4>2. /\ SamePolicy(m, o)
            /\ m.readers = o.readers + D(Reading)
            /\ m.writers = o.writers + D(Writing) + 0
            /\ m.waiting_readers = o.waiting_readers + D(AwaitingReaders)
            /\ m.waiting_writers = o.waiting_writers + D(AwaitingWriters)
        BY <3>2, <3>4, <4>1 DEF SamePolicy, IntLock, D, Delta
      <4>. QED  BY <1>1, <2>3, <2>4, <3>2, <3>4, <4>2, NodeStillCounts DEF D, m, o
    <3>. QED  BY <3>3, <3>4
  <2>. QED  BY <2>3, <2>4, <2>5 DEF LocksCount
<1>7. CASE Transfers(w)
  <2>1. /\ nodes' = nodes /\ node' = node
        /\ \/ pc[w] = "put_access" /\ pc'[w] = "put_lookup" /\ LogStep(w, FALSE)
           \/ pc[w] \in Reading /\ pc'[w] \in Reading /\ LogStep(w, FALSE)
           \/ pc[w] \in Writing /\ pc'[w] \in Writing /\ LogStep(w, FALSE)
           \/ pc[w] = "put_open" /\ pc'[w] = "end" /\ LogStep(w, TRUE)
    BY <1>1, <1>7, TransferSteps DEF job, LogStep
  <2>2. pc[w] = "put_access" /\ pc'[w] = "put_lookup" => pc[w] \in Outside /\ pc'[w] \in Outside
    BY DEF Outside, Places, Reading, Writing, AwaitingReaders, AwaitingWriters
  <2>3. CASE LogStep(w, FALSE) /\ ~(pc[w] = "put_open" /\ pc'[w] = "end")
    <3>1. \A n \in DOMAIN nodes : NodeCounts(n)'
      BY <1>1, <1>2, <1>3, <2>1, <2>2, <2>3, NodeUnchanged
    <3>. QED  BY <1>3, <2>1, <2>3, <3>1 DEF LocksCount
  <2>4. CASE pc[w] = "put_open" /\ pc'[w] = "end" /\ LogStep(w, TRUE)
    <3>1. node[w] \in DOMAIN nodes /\ nodes[node[w]].uri = Uri(w)
      BY <1>1, <2>4, LockTyped DEF PutOnNode, Writing
    <3>2. ASSUME NEW CONSTANT n \in DOMAIN nodes PROVE NodeCounts(n)'
      <4>. DEFINE D(S) == Delta(w, n, S)
                  o == nodes[n].lock
      <4>1. /\ D(Writing) = IF node[w] = n THEN -1 ELSE 0
            /\ D(Reading) = 0 /\ D(AwaitingReaders) = 0 /\ D(AwaitingWriters) = 0
        BY <2>4 DEF Delta, Change, Share, Reading, Writing, AwaitingReaders, AwaitingWriters
      <4>2. NodeCounts(n) /\ o \in IntLock
        BY <1>2
      <4>3. nodes[n].uri = Uri(w) <=> node[w] = n
        BY <1>1, <3>1 DEF Table
      <4>. HIDE DEF D, o
      <4>4. /\ SamePolicy(o, o)
            /\ o.readers = o.readers + D(Reading)
            /\ o.writers = o.writers + D(Writing) + (IF nodes[n].uri = Uri(w) THEN 1 ELSE 0)
            /\ o.waiting_readers = o.waiting_readers + D(AwaitingReaders)
            /\ o.waiting_writers = o.waiting_writers + D(AwaitingWriters)
        BY <4>1, <4>2, <4>3 DEF SamePolicy, IntLock
      <4>. QED  BY <1>1, <1>3, <2>1, <2>4, <4>2, <4>4, NodeStillCounts DEF D, o
    <3>. QED  BY <1>3, <2>1, <2>4, <3>2 DEF LocksCount
  <2>. QED  BY <2>1, <2>3, <2>4 DEF Reading, Writing
<1>. QED  BY <1>4, <1>5, <1>6, <1>7, WorkSorted

-----------------------------------------------------------------------------
(* The table and the workers' places on it.                                 *)

LEMMA PlacedStep ==
  ASSUME Locking, NEW CONSTANT w \in Workers, Work(w)
  PROVE  Placed'
<1>1. Types /\ Accepted /\ Placed /\ Table /\ Others(w) /\ Grows
  BY WorkOthers, LocksCountStep DEF Locking
<1>2. /\ DOMAIN nodes = 1 .. Len(nodes) /\ Len(nodes) \in Nat
      /\ DOMAIN nodes' = 1 .. Len(nodes') /\ Len(nodes') \in Nat
      /\ Len(nodes) <= Len(nodes')
  <2>1. DOMAIN nodes = 1 .. Len(nodes) /\ Len(nodes) \in Nat
    BY <1>1, RowsTyped
  <2>2. DOMAIN nodes' = 1 .. Len(nodes') /\ Len(nodes') \in Nat
    BY <1>1, LenProperties DEF Grows
  <2>3. Len(nodes) = 0 \/ Len(nodes) \in DOMAIN nodes
    BY <2>1
  <2>4. Len(nodes) <= Len(nodes')
    BY <1>1, <2>1, <2>2, <2>3 DEF Grows
  <2>. QED  BY <2>1, <2>2, <2>4
<1>. DEFINE WellPlaced(v) ==
       /\ pc[v] \in GetPlaces => req[v] \in Request /\ req[v].method = "GET"
       /\ pc[v] \in PutPlaces => req[v] \in Request /\ req[v].method = "PUT"
       /\ pc[v] # "pop" => conn[v] \in Conns
       /\ pc[v] \in GetOnNode \cup PutOnNode =>
            node[v] \in DOMAIN nodes /\ nodes[node[v]].uri = Uri(v)
       /\ node[v] <= Len(nodes)
<1>3. \A v \in Workers : WellPlaced(v) /\ node[v] \in Nat
  BY <1>1 DEF Placed, Types
<1>4. ASSUME NEW v \in Workers \ {w} PROVE WellPlaced(v)'
  <2>1. /\ node'[v] = node[v] /\ req'[v] = req[v] /\ conn'[v] = conn[v]
        /\ pc'[v] \in GetPlaces <=> pc[v] \in GetPlaces
        /\ pc'[v] \in PutPlaces <=> pc[v] \in PutPlaces
        /\ pc'[v] \in GetOnNode \cup PutOnNode <=> pc[v] \in GetOnNode \cup PutOnNode
        /\ pc'[v] = "pop" <=> pc[v] = "pop"
    BY <1>1 DEF Others, GetPlaces, PutPlaces, GetOnNode, PutOnNode, Reading, Writing,
                AwaitingReaders, AwaitingWriters
  <2>. QED  BY <1>1, <1>2, <1>3, <2>1 DEF Grows, Uri
<1>. USE DEF GetPlaces, PutPlaces, GetOnNode, PutOnNode, Reading, Writing,
             AwaitingReaders, AwaitingWriters
<1>5. WellPlaced(w)'
  <2>1. CASE Take(w)
    <3>1. PICK r \in Requests : /\ pc' = [pc EXCEPT ![w] = Branch(r)]
                                /\ req' = [req EXCEPT ![w] = r]
      BY <2>1 DEF Take
    <3>2. r \in Request /\ r.method \in {"GET", "PUT", "OTHER"}
      BY HttpAssumption DEF Request
    <3>3. \/ pc'[w] = "get_lookup" /\ r.method = "GET"
          \/ pc'[w] = "put_access" /\ r.method = "PUT"
          \/ pc'[w] = "end"
      BY <1>1, <3>1, <3>2 DEF Branch, Types
    <3>4. Head(chan) \in Conns /\ conn'[w] = Head(chan) /\ req'[w] = r
      BY <1>1, <2>1, <3>1, HeadTailProperties DEF Take, Accepted, Types
    <3>5. node'[w] <= Len(nodes')
      BY <1>3, <2>1 DEF Take
    <3>. QED  BY <3>2, <3>3, <3>4, <3>5
  <2>2. CASE Lookups(w)
    <3>1. /\ UNCHANGED <<conn, req>>
          /\ node'[w] \in DOMAIN nodes' /\ nodes'[node'[w]].uri = Uri(w)
          /\ \/ pc[w] = "get_lookup" /\ pc'[w] = "get_lock"
             \/ pc[w] = "put_lookup" /\ pc'[w] = "put_lock"
      BY <1>1, <2>2, LookupSteps
    <3>. QED  BY <1>2, <1>3, <3>1 DEF Uri
  <2>3. CASE Tries(w) \/ Unlocks(w)
    <3>1. OnlyLocks /\ \E to, l : LockMoves(w, to, l)
      BY <1>1, <2>3, LockSteps
    <3>2. \/ pc[w] \in GetOnNode /\ pc'[w] \in {"r_blocked", "get_open", "get_end", "end"}
          \/ pc[w] \in PutOnNode /\ pc'[w] \in {"w_blocked", "put_open", "put_end"}
      BY <3>1 DEF LockMoves
    <3>3. UNCHANGED <<node, req, conn>>
      BY <3>1 DEF OnlyLocks, locals, job
    <3>. HIDE DEF Reading, Writing
    <3>. QED  BY <1>1, <1>2, <1>3, <3>2, <3>3 DEF Grows, Uri, Reading, Writing
  <2>4. CASE Transfers(w)
    <3>1. UNCHANGED <<nodes, node, req, conn>>
      BY <1>1, <2>4, TransferSteps DEF job
    <3>2. \/ pc[w] = "put_access" /\ pc'[w] = "put_lookup"
          \/ pc[w] \in Reading /\ pc'[w] \in Reading
          \/ pc[w] \in Writing /\ pc'[w] \in Writing \cup {"end"}
      BY <1>1, <2>4, TransferSteps
    <3>. QED  BY <1>3, <3>1, <3>2 DEF Uri
  <2>5. CASE Close(w)
    <3>1. pc'[w] = "pop" /\ node'[w] = 0
      BY <1>1, <2>5 DEF Close, Types
    <3>. QED  BY <1>2, <3>1
  <2>. QED  BY <2>1, <2>2, <2>3, <2>4, <2>5, WorkSorted
<1>. HIDE DEF WellPlaced
<1>6. \A v \in Workers : WellPlaced(v)'
  BY <1>4, <1>5
<1>. QED  BY <1>6 DEF WellPlaced, Placed

(* Who logs is on the node of its URI.                                      *)
LEMMA TableStep ==
  ASSUME Locking, NEW CONSTANT w \in Workers, Work(w)
  PROVE  Table'
<1>1. Types /\ Placed /\ Table /\ Grows
  BY LocksCountStep DEF Locking
<1>2. \A m, n \in DOMAIN nodes' : nodes'[m].uri = nodes'[n].uri => m = n
  <2>1. CASE DOMAIN nodes' = DOMAIN nodes
    BY <1>1, <2>1 DEF Grows, Table
  <2>2. CASE Lookups(w)
    <3>1. CASE nodes' = nodes
      BY <1>1, <3>1 DEF Table
    <3>2. CASE /\ \A n \in DOMAIN nodes : nodes'[n] = nodes[n] /\ nodes[n].uri # Uri(w)
               /\ node'[w] = Len(nodes) + 1 /\ DOMAIN nodes' = 1 .. Len(nodes) + 1
      <4>1. nodes'[Len(nodes) + 1].uri = Uri(w)
        BY <1>1, <2>2, <3>2, LookupSteps
      <4>2. DOMAIN nodes = 1 .. Len(nodes) /\ Len(nodes) \in Nat
        BY <1>1, RowsTyped
      <4>3. DOMAIN nodes' = DOMAIN nodes \cup {Len(nodes) + 1}
        BY <3>2, <4>2
      <4>4. /\ \A m \in DOMAIN nodes : nodes'[m].uri = nodes[m].uri /\ nodes'[m].uri # Uri(w)
            /\ \A m, n \in DOMAIN nodes : nodes[m].uri = nodes[n].uri => m = n
        BY <1>1, <3>2 DEF Table
      <4>. QED  BY <4>1, <4>3, <4>4
    <3>. QED  BY <1>1, <2>2, <3>1, <3>2, LookupSteps
  <2>3. CASE Tries(w) \/ Unlocks(w)
    <3>1. PICK to, l : LockMoves(w, to, l)
      BY <1>1, <2>3, LockSteps
    <3>2. pc[w] \in GetOnNode \cup PutOnNode /\ l \in IntLock /\ SetLock(w, l)
      BY <3>1 DEF LockMoves, Fits
    <3>. QED  BY <1>1, <2>1, <3>2, LockTyped, SetLockNodes
  <2>4. CASE Transfers(w)
    BY <1>1, <2>4, <2>1, TransferSteps
  <2>5. CASE Take(w) \/ Close(w)
    BY <2>1, <2>5 DEF Take, Close
  <2>. QED  BY <2>2, <2>3, <2>4, <2>5, WorkSorted
<1>3. ASSUME NEW k \in DOMAIN log' PROVE \E n \in DOMAIN nodes' : nodes'[n].uri = log'[k].uri
  <2>1. CASE log' = log
    BY <1>1, <2>1 DEF Grows, Table
  <2>2. CASE log' # log
    <3>1. Transfers(w)
      BY <1>1, <2>2, WorkSorted, LookupSteps, LockSteps DEF Take, Close, OnlyLocks
    <3>2. /\ pc[w] \in Reading \cup Writing
          /\ \E refused \in BOOLEAN : LogStep(w, refused)
      BY <1>1, <2>2, <3>1, TransferSteps DEF Writing
    <3>3. node[w] \in DOMAIN nodes /\ nodes[node[w]].uri = Uri(w)
      BY <1>1, <3>2 DEF Placed, GetOnNode, PutOnNode
    <3>4. PICK e \in Entry : log' = Append(log, e) /\ e.uri = Uri(w)
      BY <2>2, <3>2 DEF LogStep
    <3>5. /\ DOMAIN log = 1 .. Len(log) /\ DOMAIN log' = 1 .. Len(log) + 1 /\ Len(log) \in Nat
          /\ \A i \in DOMAIN log : log'[i] = log[i]
          /\ log'[Len(log) + 1] = e
      BY <1>1, <3>4, LogAppended
    <3>6. CASE k \in DOMAIN log
      BY <1>1, <3>5, <3>6 DEF Grows, Table
    <3>7. CASE k = Len(log) + 1
      BY <1>1, <3>3, <3>4, <3>5, <3>7 DEF Grows
    <3>. QED  BY <3>5, <3>6, <3>7
  <2>. QED  BY <2>1, <2>2
<1>. QED  BY <1>2, <1>3 DEF Table

(* Who comes in to read finds nobody writing, and who comes in to write     *)
(* finds nobody at all.                                                     *)
LEMMA Enters ==
  ASSUME Locking, NEW CONSTANT w \in Workers, Work(w)
  PROVE  /\ pc'[w] \in Reading =>
              /\ node'[w] = node[w]
              /\ pc[w] \in Reading \/ At(node[w], Writing) = {}
         /\ pc'[w] \in Writing =>
              /\ node'[w] = node[w]
              /\ pc[w] \in Writing \/ (At(node[w], Writing) = {} /\ At(node[w], Reading) = {})
<1>1. Types /\ Placed /\ Table /\ LocksCount
  BY DEF Locking
<1>2. CASE Take(w)
  BY <1>1, <1>2 DEF Take, Branch, Types, Reading, Writing
<1>3. CASE Lookups(w)
  <2>1. pc'[w] \in {"get_lock", "put_lock"}
    BY <1>1, <1>3, LookupSteps
  <2>. QED  BY <2>1 DEF Reading, Writing
<1>4. CASE Tries(w) \/ Unlocks(w)
  <2>1. OnlyLocks /\ \E to, l : LockMoves(w, to, l)
    BY <1>1, <1>4, LockSteps
  <2>2. /\ node' = node /\ pc[w] \in GetOnNode \cup PutOnNode
        /\ pc'[w] \in Reading => LockOf(w).writers <= 0
        /\ pc'[w] \in Writing => LockOf(w).writers <= 0 /\ LockOf(w).readers <= 0
    BY <2>1 DEF LockMoves, OnlyLocks, locals, job
  <2>3. node[w] \in DOMAIN nodes
    BY <1>1, <2>2 DEF Placed
  <2>4. /\ LockOf(w).readers = Count(node[w], Reading)
        /\ LockOf(w).writers = Count(node[w], Writing)
                                 + Cardinality(Refusals(nodes[node[w]].uri))
    BY <1>1, <2>3 DEF LocksCount, NodeCounts, LockOf
  <2>5. /\ Cardinality(Refusals(nodes[node[w]].uri)) \in Nat
        /\ Count(node[w], Reading) \in Nat /\ Count(node[w], Writing) \in Nat
    BY <1>1, RefusalsFinite, CountNat
  <2>6. /\ LockOf(w).writers <= 0 => Count(node[w], Writing) = 0
        /\ LockOf(w).readers <= 0 => Count(node[w], Reading) = 0
    BY <2>4, <2>5
  <2>7. /\ LockOf(w).writers <= 0 => At(node[w], Writing) = {}
        /\ LockOf(w).readers <= 0 => At(node[w], Reading) = {}
    BY <2>6, CountNat
  <2>. QED  BY <2>2, <2>7
<1>5. CASE Transfers(w)
  <2>1. UNCHANGED job
    BY <1>1, <1>5, TransferSteps
  <2>2. \/ pc'[w] = "put_lookup"
        \/ pc[w] \in Reading /\ pc'[w] \in Reading
        \/ pc[w] \in Writing /\ pc'[w] \in Writing
        \/ pc'[w] = "end"
    BY <1>1, <1>5, TransferSteps
  <2>. QED  BY <2>1, <2>2 DEF Reading, Writing, job
<1>6. CASE Close(w)
  BY <1>1, <1>6 DEF Close, Types, Reading, Writing
<1>. QED  BY <1>2, <1>3, <1>4, <1>5, <1>6, WorkSorted

LEMMA WriterAloneStep ==
  ASSUME Locking, NEW CONSTANT w \in Workers, Work(w)
  PROVE  WriterAlone'
<1>1. Types /\ Placed /\ WriterAlone /\ Others(w)
  BY WorkOthers DEF Locking
<1>2. \A v \in Workers \ {w} :
        /\ node'[v] = node[v]
        /\ pc'[v] \in Reading <=> pc[v] \in Reading
        /\ pc'[v] \in Writing <=> pc[v] \in Writing
  BY <1>1 DEF Others, Reading, Writing
<1>3. ASSUME NEW v \in Workers \ {w}, node'[v] = node'[w]
      PROVE  /\ pc'[v] \in Writing => pc'[w] \notin Reading \cup Writing
             /\ pc'[w] \in Writing => pc'[v] \notin Reading \cup Writing
  <2>1. node'[w] = node[w] => /\ pc'[v] \in Writing => v \in At(node[w], Writing)
                              /\ pc'[v] \in Reading => v \in At(node[w], Reading)
    BY <1>2, <1>3 DEF At
  <2>2. /\ pc[v] \in Writing /\ node[v] = node[w] => pc[w] \notin Reading \cup Writing
        /\ pc[w] \in Writing /\ node[v] = node[w] => pc[v] \notin Reading \cup Writing
    BY <1>1 DEF WriterAlone
  <2>3. /\ pc'[w] \in Reading =>
              /\ node'[w] = node[w]
              /\ pc[w] \in Reading \/ At(node[w], Writing) = {}
        /\ pc'[w] \in Writing =>
              /\ node'[w] = node[w]
              /\ pc[w] \in Writing \/ (At(node[w], Writing) = {} /\ At(node[w], Reading) = {})
    BY Enters
  <2>4. ASSUME pc'[w] \in Reading, pc'[v] \in Writing PROVE FALSE
    BY <1>2, <1>3, <2>1, <2>2, <2>3, <2>4
  <2>5. ASSUME pc'[w] \in Writing, pc'[v] \in Reading \cup Writing PROVE FALSE
    <3>1. node'[w] = node[w] /\ node[v] = node[w] /\ pc[v] \in Reading \cup Writing
      BY <1>2, <1>3, <2>3, <2>5
    <3>2. pc[w] \in Writing
      BY <2>1, <2>3, <2>5, <3>1
    <3>. QED  BY <2>2, <3>1, <3>2
  <2>. QED  BY <2>4, <2>5
<1>. QED  BY <1>1, <1>2, <1>3 DEF WriterAlone

-----------------------------------------------------------------------------
(* What the steps do to the files and to the locals of a transfer.          *)

LEMMA FileOf ==
  ASSUME Types, Placed, NEW w \in Workers, pc[w] \in GetPlaces \cup PutPlaces
  PROVE  /\ Uri(w) \in URIs /\ The(w) \in File /\ The(w).data \in Seq(Nat)
         /\ req[w].method \in {"GET", "PUT"} /\ conn[w] \in Conns /\ conn[w] \in Nat
<1>1. req[w] \in Request /\ req[w].method \in {"GET", "PUT"} /\ conn[w] \in Conns
  BY DEF Placed, GetPlaces, PutPlaces, GetOnNode, PutOnNode, Reading, Writing,
         AwaitingReaders, AwaitingWriters
<1>2. Uri(w) \in URIs /\ conn[w] \in Nat
  BY <1>1, HttpAssumption DEF Request, Uri
<1>. QED  BY <1>1, <1>2 DEF The, Types, File

(* w writes d into the file of its URI.                                     *)
Writes(w, d) ==
  /\ files' = [files EXCEPT ![Uri(w)] = [kind |-> "file", data |-> d]]
  /\ pc[w] \in {"put_open", "receiving"} /\ pc'[w] = "receiving"
  /\ UNCHANGED <<req, conn, node, existed, size, sent, log, broken>>
  /\ The(w).kind \in {"absent", "file"}
  /\ d \in Seq(Nat) /\ Len(d) <= Chunks /\ \A i \in DOMAIN d : d[i] = conn[w]

LEMMA FileExcept ==
  ASSUME NEW f \in File, f.kind = "file", NEW d
  PROVE  [f EXCEPT !.data = d] = [kind |-> "file", data |-> d]
BY DEF File

LEMMA FilesStep ==
  ASSUME Types, Placed, Transferring, NEW CONSTANT w \in Workers, Work(w)
  PROVE  (files' = files /\ pc'[w] # "receiving") \/ \E d : Writes(w, d)
<1>. pc \in [Workers -> Places]
  BY DEF Types
<1>1. CASE PutOpen(w) /\ pc'[w] = "receiving"
  <2>1. << >> \in Seq(Nat) /\ Len(<< >>) = 0 /\ DOMAIN << >> = {}
    OBVIOUS
  <2>2. Writes(w, << >>)
    BY <1>1, <2>1, HttpAssumption DEF PutOpen, Goto, Types, Writes, job
  <2>. QED  BY <2>2
<1>2. CASE RecvChunk(w)
  <2>. DEFINE d == Append(The(w).data, conn[w])
  <2>1. /\ Uri(w) \in URIs /\ The(w) \in File /\ The(w).data \in Seq(Nat) /\ conn[w] \in Nat
        /\ The(w).kind = "file" /\ \A i \in DOMAIN The(w).data : The(w).data[i] = conn[w]
    BY <1>2, FileOf DEF RecvChunk, Goto, PutPlaces, PutOnNode, Writing, Transferring
  <2>2. /\ d \in Seq(Nat) /\ Len(d) = Len(The(w).data) + 1
        /\ Len(The(w).data) \in Nat
        /\ \A i \in 1 .. Len(The(w).data) : d[i] = The(w).data[i]
        /\ d[Len(d)] = conn[w]
    BY <2>1, AppendProperties, LenProperties
  <2>3. \A i \in DOMAIN d : d[i] = conn[w]
    BY <2>1, <2>2, LenProperties
  <2>4. Len(d) <= Chunks
    BY <1>2, <2>2, HttpAssumption DEF RecvChunk
  <2>5. files' = [files EXCEPT ![Uri(w)] = [kind |-> "file", data |-> d]]
    <3>1. [The(w) EXCEPT !.data = d] = [kind |-> "file", data |-> d]
      BY <2>1, FileExcept
    <3>2. files' = [files EXCEPT ![Uri(w)] = [The(w) EXCEPT !.data = d]]
      BY <1>2 DEF RecvChunk, The
    <3>. QED  BY <3>1, <3>2
  <2>6. Writes(w, d)
    BY <1>2, <2>1, <2>2, <2>3, <2>4, <2>5 DEF RecvChunk, Goto, Types, Writes, locals, job
  <2>. QED  BY <2>6
<1>3. CASE PutOpen(w) /\ pc'[w] # "receiving"
  BY <1>3 DEF PutOpen, Goto
<1>4. CASE Take(w) \/ Lookups(w) \/ Close(w)
  BY <1>4 DEF Take, Branch, Lookups, Lookup, Goto, Close
<1>5. CASE Tries(w) \/ Unlocks(w)
  <2>1. OnlyLocks /\ \E to, l : LockMoves(w, to, l)
    BY <1>5, LockSteps
  <2>2. pc'[w] # "receiving"
    BY <2>1 DEF LockMoves
  <2>. QED  BY <2>1, <2>2 DEF OnlyLocks
<1>6. CASE PutAccess(w) \/ GetOpen(w) \/ SendChunk(w) \/ SendDone(w) \/ RecvDone(w)
  BY <1>6 DEF PutAccess, GetOpen, GetRefused, SendChunk, SendDone, RecvDone, Goto
<1>. QED  BY <1>1, <1>2, <1>3, <1>4, <1>5, <1>6, WorkSorted DEF Transfers

(* What w does to size and sent: it begins to send, sends a chunk, closes,  *)
(* or leaves them alone.                                                    *)
Starts(w) ==
  /\ pc[w] = "get_open" /\ pc'[w] = "sending" /\ The(w).kind = "file"
  /\ size' = [size EXCEPT ![w] = Declared(Len(The(w).data))] /\ sent' = [sent EXCEPT ![w] = << >>]
  /\ UNCHANGED <<files, req, node>>

Sends(w) ==
  /\ pc[w] = "sending" /\ pc'[w] = "sending"
  /\ Len(sent[w]) < size[w] /\ Len(sent[w]) < Len(The(w).data)
  /\ sent' = [sent EXCEPT ![w] = Append(@, The(w).data[Len(@) + 1])]
  /\ UNCHANGED <<size, files, req, node>>

Resets(w) ==
  /\ pc'[w] = "pop"
  /\ size' = [size EXCEPT ![w] = 0] /\ sent' = [sent EXCEPT ![w] = << >>]

Keeps(w) ==
  /\ UNCHANGED <<size, sent>>
  /\ pc'[w] \in {"sending", "get_unlock"} =>
       pc[w] = "sending" /\ UNCHANGED <<files, req, node>>

LEMMA DeclaredNat == ASSUME NEW n \in Nat PROVE Declared(n) \in Nat
<1>1. n % IntRange \in Nat
  BY HttpAssumption
<1>. QED  BY <1>1 DEF Declared

LEMMA SendsStep ==
  ASSUME Types, Placed, NEW CONSTANT w \in Workers, Work(w)
  PROVE  Starts(w) \/ Sends(w) \/ Resets(w) \/ Keeps(w)
<1>. pc \in [Workers -> Places]
  BY DEF Types
<1>1. CASE Take(w)
  BY <1>1 DEF Take, Branch, Keeps
<1>2. CASE Lookups(w)
  BY <1>2 DEF Lookups, Lookup, Goto, Keeps
<1>3. CASE Tries(w) \/ Unlocks(w)
  <2>1. OnlyLocks /\ \E to, l : LockMoves(w, to, l)
    BY <1>3, LockSteps
  <2>2. pc'[w] \notin {"sending", "get_unlock"}
    BY <2>1 DEF LockMoves
  <2>. QED  BY <2>1, <2>2 DEF OnlyLocks, locals, Keeps
<1>4. CASE GetOpen(w)
  BY <1>4 DEF GetOpen, GetRefused, Goto, job, Starts, Keeps
<1>5. CASE SendChunk(w) \/ SendDone(w)
  BY <1>5 DEF SendChunk, SendDone, Goto, job, Sends, Keeps
<1>6. CASE PutAccess(w) \/ PutOpen(w) \/ RecvChunk(w) \/ RecvDone(w)
  BY <1>6 DEF PutAccess, PutOpen, RecvChunk, RecvDone, Goto, locals, Keeps
<1>7. CASE Close(w)
  BY <1>7 DEF Close, Resets
<1>. QED  BY <1>1, <1>2, <1>3, <1>4, <1>5, <1>6, <1>7, WorkSorted DEF Transfers

-----------------------------------------------------------------------------
(* Types and the connections.                                               *)

LEMMA TypesStep ==
  ASSUME Locking, Transferring, NEW CONSTANT w \in Workers, Work(w)
  PROVE  Types'
<1>1. Types /\ Accepted /\ Placed /\ Table /\ Grows /\ pc' \in [Workers -> Places]
  BY WorkOthers, LocksCountStep DEF Locking
<1>2. nodes' \in Seq(Row)
  BY <1>1 DEF Grows
<1>3. log' \in Seq(Entry)
  <2>1. \E refused \in BOOLEAN : LogStep(w, refused)
    BY LocksCountStep
  <2>2. log' = log \/ \E e \in Entry : log' = Append(log, e)
    BY <2>1 DEF LogStep
  <2>. QED  BY <1>1, <2>2, LogAppended DEF Types
<1>4. files' \in [URIs -> File]
  <2>1. CASE files' = files
    BY <1>1, <2>1 DEF Types
  <2>2. ASSUME NEW d, Writes(w, d) PROVE files' \in [URIs -> File]
    <3>1. [kind |-> "file", data |-> d] \in File
      BY <2>2 DEF Writes, File, Kinds
    <3>. QED  BY <1>1, <2>2, <3>1 DEF Writes, Types
  <2>. QED  BY <1>1, <2>1, <2>2, FilesStep
<1>5. size' \in [Workers -> Nat] /\ sent' \in [Workers -> Seq(Nat)]
  <2>1. /\ size \in [Workers -> Nat] /\ sent \in [Workers -> Seq(Nat)]
        /\ << >> \in Seq(Nat)
    BY <1>1 DEF Types
  <2>2. CASE Starts(w)
    <3>1. The(w).data \in Seq(Nat)
      BY <1>1, <2>2, FileOf DEF Starts, GetPlaces, GetOnNode, Reading
    <3>. QED  BY <2>1, <2>2, <3>1, DeclaredNat, LenProperties DEF Starts
  <2>3. CASE Sends(w)
    <3>1. The(w).data \in Seq(Nat) /\ sent[w] \in Seq(Nat)
      BY <1>1, <2>1, <2>3, FileOf DEF Sends, GetPlaces, GetOnNode, Reading
    <3>2. Len(sent[w]) + 1 \in 1 .. Len(The(w).data)
      BY <2>3, <3>1, LenProperties DEF Sends
    <3>3. The(w).data[Len(sent[w]) + 1] \in Nat
      BY <3>1, <3>2, SeqElements
    <3>4. Append(sent[w], The(w).data[Len(sent[w]) + 1]) \in Seq(Nat)
      BY <3>1, <3>3, AppendProperties
    <3>. QED  BY <2>1, <2>3, <3>4 DEF Sends
  <2>4. CASE Resets(w)
    BY <2>1, <2>4 DEF Resets
  <2>5. CASE Keeps(w)
    BY <2>1, <2>5 DEF Keeps
  <2>. QED  BY <1>1, <2>2, <2>3, <2>4, <2>5, SendsStep
<1>6. node' \in [Workers -> Nat]
  <2>1. node \in [Workers -> Nat] /\ Len(nodes) \in Nat /\ DOMAIN nodes = 1 .. Len(nodes)
    BY <1>1, RowsTyped DEF Types
  <2>2. CASE Lookups(w)
    <3>1. Len(nodes') \in Nat
      BY <1>2, LenProperties
    <3>2. \A n \in hashLockLookup(Uri(w)) : n \in Nat
      BY <2>1 DEF hashLockLookup
    <3>. QED  BY <2>1, <2>2, <3>1, <3>2 DEF Lookups, Lookup
  <2>3. CASE Tries(w) \/ Unlocks(w)
    BY <1>1, <2>1, <2>3, LockSteps DEF OnlyLocks, locals, job
  <2>4. CASE Transfers(w)
    BY <1>1, <2>1, <2>4, TransferSteps DEF job
  <2>5. CASE Take(w)
    BY <2>1, <2>5 DEF Take
  <2>6. CASE Close(w)
    BY <2>1, <2>6 DEF Close
  <2>. QED  BY <2>2, <2>3, <2>4, <2>5, <2>6, WorkSorted
<1>7. /\ req' \in [Workers -> Request \cup {NoRequest}]
      /\ conn' \in [Workers -> Conns \cup {0}]
      /\ existed' \in [Workers -> BOOLEAN] /\ fds' \in Int /\ broken' \in Seq(Break)
  <2>1. /\ req \in [Workers -> Request \cup {NoRequest}]
        /\ conn \in [Workers -> Conns \cup {0}]
        /\ existed \in [Workers -> BOOLEAN] /\ fds \in Int /\ broken \in Seq(Break)
    BY <1>1 DEF Types
  <2>2. CASE Take(w)
    <3>1. Head(chan) \in Conns
      BY <1>1, <2>2, HeadTailProperties DEF Take, Accepted
    <3>. QED  BY <2>1, <2>2, <3>1, HttpAssumption DEF Take
  <2>3. CASE Lookups(w)
    BY <2>1, <2>3 DEF Lookups, Lookup, held
  <2>4. CASE Tries(w) \/ Unlocks(w)
    BY <1>1, <2>1, <2>4, LockSteps DEF OnlyLocks, locals, job, held
  <2>5. CASE PutAccess(w)
    <3>1. (The(w).kind \notin {"absent", "nowhere"}) \in BOOLEAN
      OBVIOUS
    <3>. QED  BY <2>1, <2>5, <3>1 DEF PutAccess, job, held
  <2>6. CASE GetOpen(w)
    BY <2>1, <2>6 DEF GetOpen, job
  <2>7. CASE SendChunk(w) \/ SendDone(w) \/ PutOpen(w) \/ RecvChunk(w)
    BY <2>1, <2>7 DEF SendChunk, SendDone, PutOpen, RecvChunk, locals, job, held
  <2>8. CASE RecvDone(w)
    <3>. DEFINE e == [uri |-> Uri(w), lines |-> Len(log), data |-> The(w).data]
    <3>1. Uri(w) \in URIs /\ The(w).data \in Seq(Nat)
      BY <1>1, <2>8, FileOf DEF RecvDone, Goto, PutPlaces, PutOnNode, Writing
    <3>2. Len(log) \in Nat
      BY <1>1, LenProperties DEF Types
    <3>3. e \in Break
      BY <3>1, <3>2 DEF Break
    <3>4. Append(broken, e) \in Seq(Break)
      BY <2>1, <3>3, AppendProperties
    <3>5. broken' = broken \/ broken' = Append(broken, e)
      BY <2>8 DEF RecvDone
    <3>. HIDE DEF e
    <3>. QED  BY <2>1, <2>8, <3>4, <3>5 DEF RecvDone, job, held
  <2>9. CASE Close(w)
    BY <2>1, <2>9 DEF Close, CloseFile
  <2>. QED  BY <2>2, <2>3, <2>4, <2>5, <2>6, <2>7, <2>8, <2>9, WorkSorted DEF Transfers
<1>. QED  BY <1>1, <1>2, <1>3, <1>4, <1>5, <1>6, <1>7 DEF Types

LEMMA AcceptedStep ==
  ASSUME Locking, NEW CONSTANT w \in Workers, Work(w)
  PROVE  Accepted'
<1>1. Types /\ Accepted /\ Placed
  BY DEF Locking
<1>2. CASE Take(w)
  <2>1. chan \in Seq(Conns) /\ chan # << >> /\ Len(chan) \in Nat /\ DOMAIN chan = 1 .. Len(chan)
    BY <1>1, <1>2, LenProperties DEF Take, Accepted
  <2>2. /\ Tail(chan) \in Seq(Conns) /\ Head(chan) = chan[1] /\ 1 \in DOMAIN chan
        /\ DOMAIN Tail(chan) = 1 .. Len(chan) - 1
        /\ \A i \in 1 .. Len(chan) - 1 : Tail(chan)[i] = chan[i + 1]
    BY <2>1, HeadTailProperties, LenProperties
  <2>3. \A i \in DOMAIN Tail(chan) : Tail(chan)[i] \in arrived
    BY <1>1, <2>1, <2>2 DEF Accepted
  <2>. QED  BY <1>1, <1>2, <2>2, <2>3 DEF Take, Accepted, Types
<1>3. CASE Close(w)
  <2>1. conn[w] \in Conns
    BY <1>1, <1>3 DEF Close, Placed
  <2>2. conn[w] # 0
    BY <2>1, HttpAssumption
  <2>. QED  BY <1>1, <1>3, <2>2 DEF Close, Accepted, Types
<1>4. UNCHANGED <<arrivals, conn>> => Accepted'
  BY <1>1 DEF Accepted, arrivals
<1>5. CASE Lookups(w)
  BY <1>4, <1>5 DEF Lookups, Lookup
<1>6. CASE Tries(w) \/ Unlocks(w)
  BY <1>1, <1>4, <1>6, LockSteps DEF OnlyLocks, locals, job
<1>7. CASE Transfers(w)
  BY <1>1, <1>4, <1>7, TransferSteps DEF job
<1>. QED  BY <1>2, <1>3, <1>5, <1>6, <1>7, WorkSorted

(* What w logs, and when.                                                   *)
Logs(w, e) ==
  /\ e \in Entry /\ log' = Append(log, e)
  /\ e.uri = Uri(w) /\ e.conn = conn[w] /\ e.method = req[w].method
  /\ UNCHANGED <<files, broken, req>>
  /\ \/ /\ pc[w] = "get_open" /\ pc'[w] = "get_release"
        /\ \/ e.code = 400
           \/ e.code = 404 /\ The(w).kind \in {"absent", "nowhere"}
           \/ e.code = 403 /\ The(w).kind \in {"forbidden", "directory"}
     \/ /\ pc[w] = "sending" /\ pc'[w] = "get_unlock"
        /\ e.code = 200 /\ e.body = sent[w] /\ Len(sent[w]) = size[w]
     \/ /\ pc[w] = "put_open" /\ pc'[w] = "end" /\ e.code = 403
        /\ The(w).kind \in {"nowhere", "forbidden", "directory"}
     \/ /\ pc[w] = "receiving" /\ pc'[w] = "put_unlock"
        /\ e.code = (IF existed[w] THEN 200 ELSE 201) /\ Len(The(w).data) >= Chunks

(* The upload of w breaks off. *)
Breaks(w) ==
  /\ pc[w] = "receiving" /\ pc'[w] = "put_unlock"
  /\ broken' = Append(broken, [uri |-> Uri(w), lines |-> Len(log), data |-> The(w).data])
  /\ UNCHANGED <<log, files, req>>

Quiet(w) ==
  /\ UNCHANGED <<log, broken>>
  /\ pc[w] = "receiving" => pc'[w] = "receiving" /\ UNCHANGED req

LEMMA LogSteps ==
  ASSUME Types, Placed, NEW CONSTANT w \in Workers, Work(w)
  PROVE  (\E e : Logs(w, e)) \/ Breaks(w) \/ Quiet(w)
<1>1. /\ pc \in [Workers -> Places] /\ << >> \in Seq(Nat) /\ sent[w] \in Seq(Nat)
      /\ 200 \in Nat /\ 201 \in Nat /\ 400 \in Nat /\ 403 \in Nat /\ 404 \in Nat
  BY DEF Types
<1>11. ASSUME NEW code \in Nat, Logged(w, code, << >>), pc[w] \in GetOnNode \cup PutOnNode
       PROVE  \E e \in Entry : /\ log' = Append(log, e) /\ e.uri = Uri(w) /\ e.code = code
                              /\ e.method = req[w].method /\ e.conn = conn[w]
  <2>. DEFINE body == << >>
  <2>1. body \in Seq(Nat) /\ Logged(w, code, body)
    BY <1>1, <1>11
  <2>. HIDE DEF body
  <2>. QED  BY <1>11, <2>1, LoggedEntry
<1>2. CASE Take(w)
  BY <1>2 DEF Take, Quiet
<1>3. CASE Lookups(w)
  BY <1>3 DEF Lookups, Lookup, Goto, Quiet
<1>4. CASE Tries(w) \/ Unlocks(w)
  <2>1. OnlyLocks /\ \E to, l : LockMoves(w, to, l)
    BY <1>4, LockSteps
  <2>2. pc[w] # "receiving"
    BY <2>1, <1>4 DEF Tries, Unlocks, ReaderUnlock, WriterUnlock
  <2>. QED  BY <2>1, <2>2 DEF OnlyLocks, Quiet
<1>5. CASE Close(w)
  BY <1>5 DEF Close, Quiet
<1>6. CASE GetOpen(w)
  <2>1. CASE log' = log
    BY <1>6, <2>1 DEF GetOpen, Quiet
  <2>2. ASSUME NEW code \in {400, 403, 404}, GetRefused(w, code),
               \/ code = 400
               \/ code = 404 /\ The(w).kind \in {"absent", "nowhere"}
               \/ code = 403 /\ The(w).kind \in {"forbidden", "directory"}
        PROVE  \E e : Logs(w, e)
    <3>1. /\ Logged(w, code, << >>) /\ code \in Nat /\ pc'[w] = "get_release"
          /\ pc[w] = "get_open"
      BY <1>1, <2>2 DEF GetRefused, Goto
    <3>2. PICK e \in Entry : /\ log' = Append(log, e) /\ e.uri = Uri(w) /\ e.code = code
                             /\ e.method = req[w].method /\ e.conn = conn[w]
      BY <1>11, <3>1 DEF GetOnNode, Reading
    <3>3. UNCHANGED <<files, broken, req>>
      BY <1>6 DEF GetOpen, job
    <3>4. Logs(w, e)
      BY <2>2, <3>1, <3>2, <3>3 DEF Logs
    <3>. QED  BY <3>4
  <2>3. \/ log' = log
        \/ GetRefused(w, 400)
        \/ GetRefused(w, 404) /\ The(w).kind \in {"absent", "nowhere"}
        \/ GetRefused(w, 403) /\ The(w).kind \in {"forbidden", "directory"}
    BY <1>6 DEF GetOpen
  <2>. QED  BY <2>1, <2>2, <2>3
<1>7. CASE SendDone(w)
  <2>1. CASE log' = log
    BY <1>7, <2>1 DEF SendDone, Goto, Quiet
  <2>2. CASE Len(sent[w]) = size[w] /\ Logged(w, 200, sent[w])
    <3>1. pc[w] \in GetOnNode \cup PutOnNode
      BY <1>7 DEF SendDone, Goto, GetOnNode, Reading
    <3>2. PICK e \in Entry : /\ log' = Append(log, e) /\ e.uri = Uri(w) /\ e.code = 200
                             /\ e.method = req[w].method /\ e.body = sent[w]
                             /\ e.conn = conn[w]
      <4>. DEFINE body == sent[w]
      <4>1. body \in Seq(Nat) /\ Logged(w, 200, body) /\ 200 \in Nat
        BY <1>1, <2>2
      <4>. HIDE DEF body
      <4>2. \E e \in Entry : /\ log' = Append(log, e) /\ e.uri = Uri(w) /\ e.code = 200
                             /\ e.method = req[w].method /\ e.body = body /\ e.conn = conn[w]
        BY <3>1, <4>1, LoggedEntry
      <4>. QED  BY <4>2 DEF body
    <3>3. Logs(w, e)
      BY <1>1, <1>7, <2>2, <3>2 DEF SendDone, Goto, job, Logs
    <3>. QED  BY <3>3
  <2>. QED  BY <1>7, <2>1, <2>2 DEF SendDone
<1>8. CASE PutOpen(w)
  <2>1. CASE log' = log
    BY <1>1, <1>8, <2>1 DEF PutOpen, Quiet
  <2>2. CASE /\ Logged(w, 403, << >>) /\ Goto(w, "put_open", "end") /\ UNCHANGED files
             /\ The(w).kind \in {"nowhere", "forbidden", "directory"}
    <3>1. pc[w] \in GetOnNode \cup PutOnNode
      BY <2>2 DEF Goto, PutOnNode, Writing
    <3>2. PICK e \in Entry : /\ log' = Append(log, e) /\ e.uri = Uri(w) /\ e.code = 403
                             /\ e.method = req[w].method /\ e.conn = conn[w]
      BY <1>1, <1>11, <2>2, <3>1
    <3>3. Logs(w, e)
      BY <1>1, <1>8, <2>2, <3>2 DEF PutOpen, Goto, job, Logs
    <3>. QED  BY <3>3
  <2>. QED  BY <1>8, <2>1, <2>2 DEF PutOpen
<1>9. CASE RecvDone(w)
  <2>1. CASE /\ log' = log
             /\ broken' = Append(broken, [uri |-> Uri(w), lines |-> Len(log), data |-> The(w).data])
    BY <1>1, <1>9, <2>1 DEF RecvDone, Goto, job, Breaks
  <2>2. ASSUME NEW code \in {200, 201}, Logged(w, code, << >>),
               code = (IF existed[w] THEN 200 ELSE 201),
               Len(The(w).data) >= Chunks, broken' = broken
        PROVE  \E e : Logs(w, e)
    <3>1. pc[w] \in GetOnNode \cup PutOnNode /\ code \in Nat
      BY <1>9, <2>2 DEF RecvDone, Goto, PutOnNode, Writing
    <3>2. PICK e \in Entry : /\ log' = Append(log, e) /\ e.uri = Uri(w) /\ e.code = code
                             /\ e.method = req[w].method /\ e.conn = conn[w]
      BY <1>11, <2>2, <3>1
    <3>3. Logs(w, e)
      BY <1>1, <1>9, <2>2, <3>2 DEF RecvDone, Goto, job, Logs
    <3>. QED  BY <3>3
  <2>. QED  BY <1>9, <2>1, <2>2 DEF RecvDone
<1>10. CASE PutAccess(w) \/ SendChunk(w) \/ RecvChunk(w)
  BY <1>1, <1>10 DEF PutAccess, SendChunk, RecvChunk, Goto, locals, job, Quiet
<1>. QED  BY <1>2, <1>3, <1>4, <1>5, <1>6, <1>7, <1>8, <1>9, <1>10, WorkSorted DEF Transfers

-----------------------------------------------------------------------------
(* The files and what is sent of them.                                      *)

(* Nobody reads or writes the file another worker writes.                   *)
LEMMA WriterExclusive ==
  ASSUME Locking, NEW v \in Workers, NEW w \in Workers, v # w,
         pc[w] \in Writing, pc[v] \in Reading \cup Writing
  PROVE  Uri(v) # Uri(w)
<1>1. /\ node[w] \in DOMAIN nodes /\ nodes[node[w]].uri = Uri(w)
      /\ node[v] \in DOMAIN nodes /\ nodes[node[v]].uri = Uri(v)
  BY DEF Locking, Placed, GetOnNode, PutOnNode
<1>. QED  BY <1>1 DEF Locking, Table, WriterAlone

LEMMA BoundedStep ==
  ASSUME Locking, Contents, NEW CONSTANT w \in Workers, Work(w)
  PROVE  Bounded'
<1>1. Types /\ Placed /\ Bounded /\ Transferring /\ Others(w)
  BY WorkOthers DEF Locking, Contents
<1>2. Len(sent'[w]) <= size'[w]
  <2>1. sent \in [Workers -> Seq(Nat)] /\ size \in [Workers -> Nat] /\ Len(<< >>) = 0
    BY <1>1 DEF Types
  <2>2. CASE Starts(w)
    <3>1. The(w).data \in Seq(Nat)
      BY <1>1, <2>2, FileOf DEF Starts, GetPlaces, GetOnNode, Reading
    <3>. QED  BY <2>1, <2>2, <3>1, DeclaredNat, LenProperties DEF Starts
  <2>3. CASE Sends(w)
    <3>. DEFINE x == The(w).data[Len(sent[w]) + 1]
    <3>1. sent'[w] = Append(sent[w], x) /\ size'[w] = size[w] /\ Len(sent[w]) < size[w]
      BY <2>1, <2>3 DEF Sends
    <3>2. Len(Append(sent[w], x)) = Len(sent[w]) + 1
      BY <2>1
    <3>3. Len(sent[w]) \in Nat /\ size[w] \in Nat
      BY <2>1, LenProperties
    <3>. QED  BY <3>1, <3>2, <3>3
  <2>4. CASE Resets(w)
    BY <2>1, <2>4 DEF Resets
  <2>5. CASE Keeps(w)
    BY <1>1, <2>5 DEF Keeps, Bounded
  <2>. QED  BY <1>1, <2>2, <2>3, <2>4, <2>5, SendsStep
<1>. QED  BY <1>1, <1>2 DEF Bounded, Others

LEMMA TransferringStep ==
  ASSUME Locking, Contents, NEW CONSTANT w \in Workers, Work(w)
  PROVE  Transferring'
<1>1. Types /\ Placed /\ Transferring /\ Others(w)
  BY WorkOthers DEF Locking, Contents
<1>. DEFINE Good(v) ==
       /\ pc[v] \in {"sending", "get_unlock"} => The(v).kind = "file"
       /\ pc[v] = "receiving" =>
            /\ The(v).kind = "file" /\ Len(The(v).data) <= Chunks
            /\ \A i \in DOMAIN The(v).data : The(v).data[i] = conn[v]
<1>2. \A v \in Workers : Good(v)
  BY <1>1 DEF Transferring
<1>3. ASSUME NEW v \in Workers \ {w} PROVE Good(v)'
  <2>1. /\ Uri(v)' = Uri(v) /\ conn'[v] = conn[v]
        /\ pc'[v] \in {"sending", "get_unlock"} <=> pc[v] \in {"sending", "get_unlock"}
        /\ pc'[v] = "receiving" <=> pc[v] = "receiving"
    BY <1>1 DEF Others, Uri
  <2>2. CASE files' = files
    BY <1>2, <2>1, <2>2 DEF The
  <2>3. ASSUME NEW d, Writes(w, d) PROVE Good(v)'
    <3>1. CASE pc[v] \in {"sending", "get_unlock", "receiving"}
      <4>1. Uri(v) # Uri(w)
        BY <2>3, <3>1, WriterExclusive DEF Writes, Reading, Writing
      <4>2. The(v)' = The(v)
        BY <1>1, <2>1, <2>3, <4>1 DEF Writes, The, Types
      <4>. QED  BY <1>2, <2>1, <4>2
    <3>2. CASE pc[v] \notin {"sending", "get_unlock", "receiving"}
      BY <2>1, <3>2
    <3>. QED  BY <3>1, <3>2
  <2>. HIDE DEF Good
  <2>. QED  BY <1>1, <2>2, <2>3, FilesStep
<1>4. Good(w)'
  <2>1. pc'[w] \in {"sending", "get_unlock"} => The(w)'.kind = "file"
    <3>1. CASE Starts(w)
      BY <3>1 DEF Starts, The, Uri
    <3>2. CASE Sends(w) \/ Keeps(w)
      BY <1>2, <3>2 DEF Sends, Keeps, The, Uri
    <3>3. CASE Resets(w)
      BY <3>3 DEF Resets
    <3>. QED  BY <1>1, <3>1, <3>2, <3>3, SendsStep
  <2>2. ASSUME NEW d, Writes(w, d)
        PROVE  The(w)' = [kind |-> "file", data |-> d] /\ conn'[w] = conn[w]
    <3>1. Uri(w) \in URIs
      BY <1>1, <2>2, FileOf DEF Writes, PutPlaces, PutOnNode, Writing
    <3>. QED  BY <1>1, <2>2, <3>1 DEF Writes, Types, The, Uri
  <2>3. ASSUME pc'[w] = "receiving"
        PROVE  /\ The(w)'.kind = "file" /\ Len(The(w)'.data) <= Chunks
               /\ \A i \in DOMAIN The(w)'.data : The(w)'.data[i] = conn'[w]
    <3>1. PICK d : Writes(w, d)
      BY <1>1, <2>3, FilesStep
    <3>2. Len(d) <= Chunks /\ \A i \in DOMAIN d : d[i] = conn[w]
      BY <3>1 DEF Writes
    <3>. QED  BY <2>2, <3>1, <3>2
  <2>. QED  BY <2>1, <2>3
<1>. HIDE DEF Good
<1>5. \A v \in Workers : Good(v)'
  BY <1>3, <1>4
<1>. QED  BY <1>5 DEF Good, Transferring

LEMMA StableStep ==
  ASSUME Locking, Contents, NEW CONSTANT w \in Workers, Work(w)
  PROVE  StableWhileSending'
<1>1. Types /\ Placed /\ Transferring /\ Others(w)
  BY WorkOthers DEF Locking, Contents
<1>. DEFINE Stable(v) ==
       pc[v] \in {"sending", "get_unlock"} =>
         /\ size[v] = Declared(Len(The(v).data))
         /\ IsBeginning(sent[v], The(v).data)
<1>2. \A v \in Workers : Stable(v)
  BY DEF Contents, StableWhileSending
<1>3. ASSUME NEW v \in Workers \ {w} PROVE Stable(v)'
  <2>1. /\ Uri(v)' = Uri(v) /\ sent'[v] = sent[v] /\ size'[v] = size[v]
        /\ pc'[v] \in {"sending", "get_unlock"} <=> pc[v] \in {"sending", "get_unlock"}
    BY <1>1 DEF Others, Uri
  <2>2. CASE files' = files
    BY <1>2, <2>1, <2>2 DEF The
  <2>3. ASSUME NEW d, Writes(w, d) PROVE Stable(v)'
    <3>1. CASE pc[v] \in {"sending", "get_unlock"}
      <4>1. Uri(v) # Uri(w)
        BY <2>3, <3>1, WriterExclusive DEF Writes, Reading, Writing
      <4>2. The(v)' = The(v)
        BY <1>1, <2>1, <2>3, <4>1 DEF Writes, The, Types
      <4>. QED  BY <1>2, <2>1, <4>2
    <3>2. CASE pc[v] \notin {"sending", "get_unlock"}
      BY <2>1, <3>2
    <3>. QED  BY <3>1, <3>2
  <2>. HIDE DEF Stable
  <2>. QED  BY <1>1, <2>2, <2>3, FilesStep
<1>4. Stable(w)'
  <2>1. sent \in [Workers -> Seq(Nat)] /\ size \in [Workers -> Nat]
    BY <1>1 DEF Types
  <2>2. CASE Starts(w)
    <3>1. The(w)' = The(w) /\ size'[w] = Declared(Len(The(w).data)) /\ sent'[w] = << >>
      BY <2>1, <2>2 DEF Starts, The, Uri
    <3>2. IsBeginning(<< >>, The(w).data)
      BY DEF IsBeginning
    <3>. QED  BY <3>1, <3>2
  <2>3. CASE Sends(w)
    <3>. DEFINE s == sent[w]
                x == The(w).data[Len(s) + 1]
    <3>1. The(w)' = The(w) /\ size'[w] = size[w] /\ sent'[w] = Append(s, x)
      BY <2>1, <2>3 DEF Sends, The, Uri
    <3>2. s \in Seq(Nat) /\ The(w).data \in Seq(Nat) /\ Len(s) + 1 \in 1 .. Len(The(w).data)
      BY <1>1, <2>1, <2>3, FileOf, LenProperties DEF Sends, GetPlaces, GetOnNode, Reading
    <3>3. x \in Nat
      BY <3>2, SeqElements
    <3>4. /\ Len(Append(s, x)) = Len(s) + 1 /\ Len(s) \in Nat
          /\ \A i \in 1 .. Len(s) : Append(s, x)[i] = s[i]
          /\ Append(s, x)[Len(s) + 1] = x
      BY <3>2, <3>3, AppendProperties, LenProperties
    <3>5. size[w] = Declared(Len(The(w).data)) /\ IsBeginning(s, The(w).data)
      BY <1>2, <2>3 DEF Sends
    <3>6. DOMAIN Append(s, x) = 1 .. Len(s) + 1 /\ DOMAIN s = 1 .. Len(s)
      BY <3>2, <3>3, <3>4, AppendProperties, LenProperties
    <3>7. ASSUME NEW i \in 1 .. Len(s) + 1
          PROVE  i <= Len(The(w).data) /\ Append(s, x)[i] = The(w).data[i]
      <4>1. CASE i \in 1 .. Len(s)
        BY <3>4, <3>5, <3>6, <4>1 DEF IsBeginning
      <4>2. CASE i = Len(s) + 1
        BY <3>2, <3>4, <4>2
      <4>. QED  BY <3>4, <4>1, <4>2
    <3>8. IsBeginning(Append(s, x), The(w).data)
      BY <3>6, <3>7 DEF IsBeginning
    <3>. HIDE DEF s, x
    <3>. QED  BY <3>1, <3>5, <3>8
  <2>4. CASE Resets(w)
    BY <2>4 DEF Resets
  <2>5. CASE Keeps(w)
    BY <1>2, <2>5 DEF Keeps, The, Uri
  <2>. HIDE DEF Stable
  <2>. QED  BY <1>1, <2>2, <2>3, <2>4, <2>5, SendsStep
<1>. HIDE DEF Stable
<1>5. \A v \in Workers : Stable(v)'
  BY <1>3, <1>4
<1>. QED  BY <1>5 DEF Stable, StableWhileSending

LEMMA OneUploadStep ==
  ASSUME Locking, Contents, NEW CONSTANT w \in Workers, Work(w)
  PROVE  OneUploadPerFile'
<1>1. Types /\ Placed /\ Transferring /\ OneUploadPerFile
  BY DEF Locking, Contents
<1>2. CASE files' = files
  BY <1>1, <1>2 DEF OneUploadPerFile
<1>3. ASSUME NEW d, Writes(w, d), NEW u \in URIs
      PROVE  \A i, j \in DOMAIN files'[u].data : files'[u].data[i] = files'[u].data[j]
  <2>1. CASE u = Uri(w)
    <3>1. files'[u].data = d
      BY <1>1, <1>3, <2>1 DEF Writes, Types
    <3>. QED  BY <1>3, <3>1 DEF Writes
  <2>2. CASE u # Uri(w)
    BY <1>1, <1>3, <2>2 DEF Writes, Types, OneUploadPerFile
  <2>. QED  BY <2>1, <2>2
<1>. QED  BY <1>1, <1>2, <1>3, FilesStep DEF OneUploadPerFile

-----------------------------------------------------------------------------
(* The log.                                                                 *)

LEMMA LogGrows ==
  ASSUME Types, NEW CONSTANT w \in Workers, NEW e, Logs(w, e)
  PROVE  /\ Len(log) \in Nat /\ DOMAIN log = 1 .. Len(log) /\ DOMAIN log' = 1 .. Len(log) + 1
         /\ \A k \in DOMAIN log : log'[k] = log[k]
         /\ log'[Len(log) + 1] = e
BY LogAppended DEF Logs

(* Who logs a GET or a PUT is at a place of one. *)
LEMMA LogsMethod ==
  ASSUME Placed, NEW CONSTANT w \in Workers, NEW e, Logs(w, e)
  PROVE  /\ e.method = "GET" => pc[w] \in {"get_open", "sending"}
         /\ e.method = "PUT" => pc[w] \in {"put_open", "receiving"}
         /\ pc[w] \in {"get_open", "sending"} => e.method = "GET"
         /\ pc[w] \in {"put_open", "receiving"} => e.method = "PUT"
BY DEF Logs, Placed, GetPlaces, PutPlaces, GetOnNode, PutOnNode, Reading, Writing

(* A file that access found is not lost before it is opened.                *)
LEMMA ExistingStep ==
  ASSUME Locking, Contents, NEW CONSTANT w \in Workers, Work(w)
  PROVE  Existing'
<1>1. Types /\ Placed /\ Transferring /\ Existing /\ Others(w) /\ pc \in [Workers -> Places]
  BY WorkOthers DEF Locking, Contents, Types
<1>. DEFINE Exists(v) == The(v).kind \notin {"absent", "nowhere"}
<1>2. ASSUME NEW v \in Workers, Uri(v)' = Uri(v), Uri(v) \in URIs, Exists(v)
      PROVE  Exists(v)'
  <2>1. CASE files' = files
    BY <1>2, <2>1 DEF The
  <2>2. ASSUME NEW d, Writes(w, d) PROVE Exists(v)'
    BY <1>1, <1>2, <2>2 DEF Writes, The, Types
  <2>. QED  BY <1>1, <2>1, <2>2, FilesStep
<1>3. \A v \in Workers : pc[v] \in Seeking => Uri(v) \in URIs
  BY <1>1, FileOf DEF Seeking, PutPlaces, PutOnNode, AwaitingWriters, Writing
<1>4. ASSUME NEW v \in Workers \ {w}, pc'[v] \in Seeking, existed'[v] PROVE Exists(v)'
  <2>1. pc[v] \in Seeking /\ existed[v] /\ Uri(v)' = Uri(v)
    BY <1>1, <1>4 DEF Others, Seeking, Uri
  <2>. QED  BY <1>1, <1>2, <1>3, <2>1 DEF Existing
<1>5. ASSUME pc'[w] \in Seeking, existed'[w] PROVE Exists(w)'
  <2>1. CASE PutAccess(w)
    <3>1. existed'[w] = Exists(w) /\ UNCHANGED <<files, req>>
      BY <1>1, <2>1 DEF PutAccess, Types, job
    <3>. QED  BY <1>5, <3>1 DEF The, Uri
  <2>2. CASE pc[w] \in Seeking /\ UNCHANGED <<req, existed>>
    <3>1. Uri(w)' = Uri(w) /\ Exists(w)
      BY <1>1, <1>5, <2>2 DEF Existing, Uri
    <3>. QED  BY <1>2, <1>3, <2>2, <3>1
  <2>3. CASE Lookups(w)
    <3>1. pc[w] \in Seeking
      BY <1>1, <1>5, <2>3 DEF Lookups, Lookup, Goto, Seeking
    <3>. QED  BY <2>2, <2>3, <3>1 DEF Lookups, Lookup
  <2>4. CASE Tries(w) \/ Unlocks(w)
    <3>1. OnlyLocks
      BY <1>1, <2>4, LockSteps
    <3>2. pc[w] \in Seeking
      BY <1>1, <1>5, <2>4 DEF Tries, ReaderTry, WriterTry, Unlocks, ReaderUnlock, WriterUnlock,
                              LeaveAndWake, Goto, Seeking
    <3>. QED  BY <2>2, <3>1, <3>2 DEF OnlyLocks, locals, job
  <2>5. CASE Take(w) \/ Close(w)
    BY <1>1, <1>5, <2>5 DEF Take, Branch, Close, Seeking
  <2>6. CASE GetOpen(w) \/ SendChunk(w) \/ SendDone(w) \/ PutOpen(w) \/ RecvChunk(w) \/ RecvDone(w)
    BY <1>1, <1>5, <2>6 DEF GetOpen, GetRefused, SendChunk, SendDone, PutOpen, RecvChunk,
                            RecvDone, Goto, Seeking
  <2>. QED  BY <2>1, <2>3, <2>4, <2>5, <2>6, WorkSorted DEF Transfers
<1>. QED  BY <1>4, <1>5 DEF Existing

-----------------------------------------------------------------------------
(* What a replay says of a file, and how a step changes it.                 *)

Less == {p \in Nat \X Nat : p[1] < p[2]}

LEMMA LatestIs ==
  ASSUME NEW n \in Nat, NEW S \in SUBSET (0 .. n), S # {}
  PROVE  Latest(S) \in S /\ \A m \in S : m <= Latest(S)
<1>. DEFINE T == {n - m : m \in S}
<1>1. T \subseteq Nat /\ T # {}
  <2>1. \A m \in S : n - m \in Nat
    OBVIOUS
  <2>. QED  BY <2>1
<1>2. IsWellFoundedOn(Less, Nat)
  BY NatLessThanWellFounded DEF OpToRel, Less
<1>3. PICK x \in T : \A y \in T : <<y, x>> \notin Less
  <2>. HIDE DEF T
  <2>. QED  BY <1>1, <1>2, WFMin
<1>4. PICK k \in S : x = n - k
  BY <1>3
<1>5. ASSUME NEW m \in S PROVE m <= k
  <2>1. n - m \in T /\ n - m \in Nat /\ x \in Nat
    BY <1>1, <1>3
  <2>2. <<n - m, x>> \in Nat \X Nat /\ <<n - m, x>>[1] = n - m /\ <<n - m, x>>[2] = x
    BY <2>1
  <2>3. <<n - m, x>> \notin Less
    BY <1>3, <2>1
  <2>4. ~(n - m < x)
    BY <2>2, <2>3 DEF Less
  <2>. QED  BY <1>4, <2>4
<1>. QED  BY <1>5 DEF Latest

(* An upload that breaks off joins those before it.                         *)
LEMMA BreakAppended ==
  ASSUME Types, NEW e \in Break, broken' = Append(broken, e)
  PROVE  /\ DOMAIN broken' = DOMAIN broken \cup {Len(broken) + 1}
         /\ \A b \in DOMAIN broken : broken'[b] = broken[b]
         /\ broken'[Len(broken) + 1] = e
<1>1. /\ Len(broken) \in Nat /\ DOMAIN broken = 1 .. Len(broken)
      /\ DOMAIN broken' = 1 .. Len(broken) + 1
      /\ \A b \in 1 .. Len(broken) : broken'[b] = broken[b]
      /\ broken'[Len(broken) + 1] = e
  BY AppendProperties, LenProperties DEF Types
<1>. QED  BY <1>1

LEMMA BreakTyped ==
  ASSUME Types, Placed, NEW CONSTANT w \in Workers, Breaks(w)
  PROVE  [uri |-> Uri(w), lines |-> Len(log), data |-> The(w).data] \in Break
<1>1. Uri(w) \in URIs /\ The(w).data \in Seq(Nat)
  BY FileOf DEF Breaks, PutPlaces, PutOnNode, Writing
<1>2. Len(log) \in Nat
  BY LenProperties DEF Types
<1>. QED  BY <1>1, <1>2 DEF Break

(* The numbers Replayed takes the latest of are among those that exist.     *)
LEMMA PastTyped ==
  ASSUME Types, NEW u, NEW k \in Nat, k <= Len(log)
  PROVE  /\ Latest(Uploads(u, k) \cup {0}) \in Uploads(u, k) \cup {0}
         /\ Latest(Uploads(u, k) \cup {0}) \in 0 .. k
         /\ \A j : BrokenSince(u, j, k) # {} =>
              Latest(BrokenSince(u, j, k)) \in BrokenSince(u, j, k)
<1>1. Uploads(u, k) \cup {0} \in SUBSET (0 .. k)
  BY DEF Uploads
<1>2. Latest(Uploads(u, k) \cup {0}) \in Uploads(u, k) \cup {0}
  BY <1>1, LatestIs
<1>3. ASSUME NEW j, BrokenSince(u, j, k) # {}
      PROVE  Latest(BrokenSince(u, j, k)) \in BrokenSince(u, j, k)
  <2>1. Len(broken) \in Nat /\ DOMAIN broken = 1 .. Len(broken)
    BY LenProperties DEF Types
  <2>2. BrokenSince(u, j, k) \in SUBSET (0 .. Len(broken))
    BY <2>1 DEF BrokenSince
  <2>. QED  BY <1>3, <2>1, <2>2, LatestIs
<1>. QED  BY <1>1, <1>2, <1>3

(* A replay of the first k lines depends on them, and on the uploads to the *)
(* URI that broke off before the next one.                                  *)
LEMMA ReplayedKept ==
  ASSUME Types, NEW CONSTANT u, NEW CONSTANT k \in Nat, NEW CONSTANT found, k <= Len(log),
         \A j \in 1 .. k : log'[j] = log[j],
         DOMAIN broken \subseteq DOMAIN broken',
         \A b \in DOMAIN broken : broken'[b] = broken[b],
         \A b \in DOMAIN broken' \ DOMAIN broken :
           broken'[b].uri # u \/ broken'[b].lines \notin 0 .. k
  PROVE  Replayed(u, k, found)' = Replayed(u, k, found)
<1>1. Uploads(u, k)' = Uploads(u, k)
  BY DEF Uploads
<1>2. PICK last : last = Latest(Uploads(u, k) \cup {0})
  OBVIOUS
<1>3. last \in 0 .. k /\ (last # 0 => log'[last] = log[last])
  <2>1. last \in 0 .. k
    BY <1>2, PastTyped
  <2>2. last # 0 => last \in 1 .. k
    BY <2>1
  <2>. QED  BY <2>1, <2>2
<1>4. last .. k \subseteq 0 .. k
  BY <1>3
<1>5. BrokenSince(u, last, k)' = BrokenSince(u, last, k)
  BY <1>4 DEF BrokenSince
<1>6. PICK cut : cut = BrokenSince(u, last, k)
  OBVIOUS
<1>7. cut # {} => broken'[Latest(cut)] = broken[Latest(cut)]
  <2>1. cut # {} => Latest(cut) \in DOMAIN broken
    BY <1>6, PastTyped DEF BrokenSince
  <2>. QED  BY <2>1
<1>8. Replayed(u, k, found) =
        IF cut # {} THEN Uploaded(broken[Latest(cut)].data)
        ELSE IF last # 0 THEN Uploaded([i \in 1 .. Chunks |-> log[last].conn])
        ELSE found[u]
  BY <1>2, <1>6, Zenon DEF Replayed
<1>9. Replayed(u, k, found)' =
        IF cut # {} THEN Uploaded(broken'[Latest(cut)].data)
        ELSE IF last # 0 THEN Uploaded([i \in 1 .. Chunks |-> log'[last].conn])
        ELSE found[u]
  BY <1>1, <1>2, <1>5, <1>6, Zenon DEF Replayed
<1>10. CASE cut # {}
  BY <1>7, <1>8, <1>9, <1>10
<1>11. CASE cut = {} /\ last # 0
  BY <1>3, <1>8, <1>9, <1>11
<1>12. CASE cut = {} /\ last = 0
  BY <1>8, <1>9, <1>12
<1>. QED  BY <1>10, <1>11, <1>12

IsUpload(e) == e.method = "PUT" /\ e.code \in {200, 201}

(* All the chunks an upload by connection c leaves.                         *)
Body(c) == [i \in 1 .. Chunks |-> c]

(* What a step makes of the replay of all there is: an upload that is       *)
(* logged puts its body in the file, one that breaks off what it left, and  *)
(* nothing else changes it.                                                 *)
LEMMA NowAfterEntry ==
  ASSUME Types, BrokenBefore, NEW CONSTANT w \in Workers, NEW CONSTANT e, Logs(w, e),
         NEW CONSTANT u, NEW CONSTANT found
  PROVE  /\ ~(e.uri = u /\ IsUpload(e)) => Now(u, found)' = Now(u, found)
         /\ e.uri = u /\ IsUpload(e) => Now(u, found)' = Uploaded(Body(e.conn))
<1>1. PICK n : n = Len(log)
  OBVIOUS
<1>2. /\ n \in Nat /\ Len(log') = n + 1 /\ DOMAIN log = 1 .. n
      /\ \A k \in 1 .. n : log'[k] = log[k]
      /\ log'[n + 1] = e
  BY <1>1, LogGrows, AppendProperties DEF Logs, Types
<1>3. broken' = broken
  BY DEF Logs
<1>4. \A b \in DOMAIN broken : broken[b].lines \in Nat /\ broken[b].lines <= n
  <2>1. \A b \in DOMAIN broken : broken[b] \in Break
    BY SeqElements DEF Types
  <2>. QED  BY <1>1, <2>1 DEF Break, BrokenBefore
<1>5. CASE ~(e.uri = u /\ IsUpload(e))
  <2>1. Uploads(u, n + 1)' = Uploads(u, n)
    BY <1>2, <1>5 DEF Uploads, IsUpload
  <2>2. PICK last : last = Latest(Uploads(u, n) \cup {0})
    OBVIOUS
  <2>3. last \in 0 .. n
    BY <1>1, <1>2, <2>2, PastTyped
  <2>4. BrokenSince(u, last, n + 1)' = BrokenSince(u, last, n)
    BY <1>2, <1>3, <1>4, <2>3 DEF BrokenSince
  <2>5. last # 0 => log'[last] = log[last]
    BY <1>2, <2>3
  <2>6. Replayed(u, n, found) =
          IF BrokenSince(u, last, n) # {}
          THEN Uploaded(broken[Latest(BrokenSince(u, last, n))].data)
          ELSE IF last # 0 THEN Uploaded([i \in 1 .. Chunks |-> log[last].conn])
          ELSE found[u]
    BY <2>2, Zenon DEF Replayed
  <2>7. Replayed(u, n + 1, found)' =
          IF BrokenSince(u, last, n) # {}
          THEN Uploaded(broken'[Latest(BrokenSince(u, last, n))].data)
          ELSE IF last # 0 THEN Uploaded([i \in 1 .. Chunks |-> log'[last].conn])
          ELSE found[u]
    BY <2>1, <2>2, <2>4, Zenon DEF Replayed
  <2>8. Replayed(u, n + 1, found)' = Replayed(u, n, found)
    <3>1. CASE BrokenSince(u, last, n) # {}
      BY <1>3, <2>6, <2>7, <3>1
    <3>2. CASE BrokenSince(u, last, n) = {} /\ last # 0
      BY <2>5, <2>6, <2>7, <3>2
    <3>3. CASE BrokenSince(u, last, n) = {} /\ last = 0
      BY <2>6, <2>7, <3>3
    <3>. QED  BY <3>1, <3>2, <3>3
  <2>9. Now(u, found) = Replayed(u, n, found) /\ Now(u, found)' = Replayed(u, n + 1, found)'
    BY <1>1, <1>2 DEF Now, Replayed
  <2>. QED  BY <1>5, <2>8, <2>9
<1>6. CASE e.uri = u /\ IsUpload(e)
  <2>1. PICK S : S = Uploads(u, n + 1)' \cup {0}
    OBVIOUS
  <2>2. S \in SUBSET (0 .. n + 1) /\ n + 1 \in S
    BY <1>2, <1>6, <2>1 DEF Uploads, IsUpload
  <2>3. Latest(S) = n + 1
    <3>1. n + 1 \in Nat /\ S # {}
      BY <1>2, <2>2
    <3>2. Latest(S) \in S /\ n + 1 <= Latest(S)
      BY <2>2, <3>1, LatestIs
    <3>3. PICK x : x = Latest(S)
      OBVIOUS
    <3>4. x \in 0 .. n + 1 /\ n + 1 <= x
      BY <2>2, <3>2, <3>3
    <3>. QED  BY <1>2, <3>3, <3>4
  <2>4. BrokenSince(u, n + 1, n + 1)' = {}
    BY <1>2, <1>3, <1>4 DEF BrokenSince
  <2>5. Replayed(u, n + 1, found)' =
          IF BrokenSince(u, n + 1, n + 1)' # {}
          THEN Uploaded(broken'[Latest(BrokenSince(u, n + 1, n + 1)')].data)
          ELSE IF n + 1 # 0 THEN Uploaded([i \in 1 .. Chunks |-> log'[n + 1].conn])
          ELSE found[u]
    BY <2>1, <2>3, Zenon DEF Replayed
  <2>6. Replayed(u, n + 1, found)' = Uploaded(Body(e.conn))
    BY <1>2, <2>4, <2>5 DEF Body
  <2>7. Now(u, found)' = Replayed(u, n + 1, found)'
    BY <1>2 DEF Now, Replayed
  <2>. QED  BY <1>6, <2>6, <2>7
<1>. QED  BY <1>5, <1>6

LEMMA NowAfterBreak ==
  ASSUME Types, Placed, NEW CONSTANT w \in Workers, Breaks(w),
         NEW CONSTANT u, NEW CONSTANT found
  PROVE  /\ Uri(w) # u => Now(u, found)' = Now(u, found)
         /\ Uri(w) = u => Now(u, found)' = Uploaded(The(w).data)
<1>1. PICK n, e : n = Len(log) /\ e = [uri |-> Uri(w), lines |-> Len(log), data |-> The(w).data]
  OBVIOUS
<1>2. n \in Nat /\ log' = log /\ e \in Break /\ broken' = Append(broken, e)
  BY <1>1, BreakTyped, LenProperties DEF Breaks, Types
<1>3. PICK m : m = Len(broken) + 1
  OBVIOUS
<1>4. /\ DOMAIN broken' = DOMAIN broken \cup {m}
      /\ \A b \in DOMAIN broken : broken'[b] = broken[b]
      /\ broken'[m] = e
  BY <1>2, <1>3, BreakAppended
<1>5. Now(u, found) = Replayed(u, n, found) /\ Now(u, found)' = Replayed(u, n, found)'
  BY <1>1, <1>2 DEF Now, Replayed
<1>6. CASE Uri(w) # u
  <2>1. \A b \in DOMAIN broken' \ DOMAIN broken : broken'[b].uri # u
    BY <1>1, <1>4, <1>6
  <2>2. Replayed(u, n, found)' = Replayed(u, n, found)
    BY <1>1, <1>2, <1>4, <2>1, ReplayedKept
  <2>. QED  BY <1>5, <1>6, <2>2
<1>7. CASE Uri(w) = u
  <2>1. Uploads(u, n)' = Uploads(u, n)
    BY <1>2 DEF Uploads
  <2>2. PICK last : last = Latest(Uploads(u, n) \cup {0})
    OBVIOUS
  <2>3. last \in 0 .. n
    BY <1>1, <1>2, <2>2, PastTyped
  <2>4. PICK cut : cut = BrokenSince(u, last, n)'
    OBVIOUS
  <2>5. m \in cut /\ cut \in SUBSET (0 .. m) /\ m \in Nat
    <3>1. Len(broken) \in Nat /\ DOMAIN broken = 1 .. Len(broken)
      BY LenProperties DEF Types
    <3>2. m \in Nat /\ DOMAIN broken' \subseteq 0 .. m
      BY <1>3, <1>4, <3>1
    <3>3. n \in last .. n
      BY <1>2, <2>3
    <3>. QED  BY <1>1, <1>4, <1>7, <2>4, <3>2, <3>3 DEF BrokenSince
  <2>6. Latest(cut) = m
    <3>1. Latest(cut) \in cut /\ m <= Latest(cut)
      BY <2>5, LatestIs
    <3>2. PICK x : x = Latest(cut)
      OBVIOUS
    <3>3. x \in 0 .. m /\ m <= x
      BY <2>5, <3>1, <3>2
    <3>. QED  BY <2>5, <3>2, <3>3
  <2>7. Replayed(u, n, found)' =
          IF cut # {} THEN Uploaded(broken'[Latest(cut)].data)
          ELSE IF last # 0 THEN Uploaded([i \in 1 .. Chunks |-> log'[last].conn])
          ELSE found[u]
    BY <2>1, <2>2, <2>4, Zenon DEF Replayed
  <2>8. Replayed(u, n, found)' = Uploaded(e.data)
    BY <1>4, <2>5, <2>6, <2>7
  <2>. QED  BY <1>1, <1>5, <1>7, <2>8
<1>. QED  BY <1>6, <1>7

LEMMA NowAfterQuiet ==
  ASSUME Types, NEW CONSTANT w \in Workers, Quiet(w), NEW CONSTANT u, NEW CONSTANT found
  PROVE  Now(u, found)' = Now(u, found)
<1>1. PICK n : n = Len(log)
  OBVIOUS
<1>2. n \in Nat /\ log' = log /\ broken' = broken
  BY <1>1, LenProperties DEF Types, Quiet
<1>3. Replayed(u, n, found)' = Replayed(u, n, found)
  BY <1>1, <1>2, ReplayedKept
<1>. QED  BY <1>1, <1>2, <1>3 DEF Now, Replayed

(* Only the worker that receives the file of a URI changes its replay.      *)
LEMMA NowKept ==
  ASSUME Types, Placed, BrokenBefore, NEW CONSTANT w \in Workers, Work(w),
         NEW CONSTANT u, NEW CONSTANT found, ~(pc[w] = "receiving" /\ Uri(w) = u)
  PROVE  Now(u, found)' = Now(u, found)
<1>1. CASE Quiet(w)
  BY <1>1, NowAfterQuiet
<1>2. CASE Breaks(w)
  BY <1>2, NowAfterBreak DEF Breaks
<1>3. ASSUME NEW e, Logs(w, e) PROVE Now(u, found)' = Now(u, found)
  <2>1. ~(e.uri = u /\ IsUpload(e))
    BY <1>3, LogsMethod DEF Logs, IsUpload
  <2>. QED  BY <1>3, <2>1, NowAfterEntry
<1>. QED  BY <1>1, <1>2, <1>3, LogSteps

LEMMA BrokenStep ==
  ASSUME Types, Placed, BrokenBefore, NEW CONSTANT w \in Workers, Work(w)
  PROVE  BrokenBefore'
<1>1. \A b \in DOMAIN broken : broken[b].lines \in Nat /\ broken[b].lines <= Len(log)
  <2>1. \A b \in DOMAIN broken : broken[b] \in Break
    BY SeqElements DEF Types
  <2>. QED  BY <2>1 DEF Break, BrokenBefore
<1>2. Len(log) \in Nat
  BY LenProperties DEF Types
<1>3. CASE Quiet(w)
  BY <1>1, <1>3 DEF Quiet, BrokenBefore
<1>4. ASSUME NEW e, Logs(w, e) PROVE BrokenBefore'
  <2>1. Len(log') = Len(log) + 1 /\ broken' = broken
    BY <1>4, AppendProperties DEF Logs, Types
  <2>. QED  BY <1>1, <1>2, <2>1 DEF BrokenBefore
<1>5. CASE Breaks(w)
  <2>1. PICK e \in Break : broken' = Append(broken, e) /\ e.lines = Len(log)
    BY <1>5, BreakTyped DEF Breaks
  <2>2. /\ DOMAIN broken' = DOMAIN broken \cup {Len(broken) + 1}
        /\ \A b \in DOMAIN broken : broken'[b] = broken[b]
        /\ broken'[Len(broken) + 1] = e
    BY <2>1, BreakAppended
  <2>. QED  BY <1>1, <1>2, <1>5, <2>1, <2>2 DEF Breaks, BrokenBefore
<1>. QED  BY <1>3, <1>4, <1>5, LogSteps

-----------------------------------------------------------------------------
(* The files follow the log, and the log the files.                         *)

LEMMA NobodyElseReceives ==
  ASSUME Locking, NEW w \in Workers, pc[w] \in Reading \cup Writing, pc[w] # "receiving"
  PROVE  ~Receives(Uri(w))
<1>1. ASSUME NEW v \in Workers, pc[v] = "receiving", Uri(v) = Uri(w) PROVE FALSE
  <2>1. v # w /\ pc[v] \in Writing
    BY <1>1 DEF Writing
  <2>. QED  BY <1>1, <2>1, WriterExclusive
<1>. QED  BY <1>1 DEF Receives

LEMMA FollowStep ==
  ASSUME Locking, Contents, NEW CONSTANT w \in Workers, Work(w),
         NEW CONSTANT found, FilesFollow(found)
  PROVE  FilesFollow(found)'
<1>1. Types /\ Placed /\ Transferring /\ BrokenBefore /\ Others(w)
  BY WorkOthers DEF Locking, Contents
<1>2. SUFFICES ASSUME NEW u \in URIs, ~Receives(u)' PROVE files'[u] = Now(u, found)'
  BY DEF FilesFollow
<1>3. \A v \in Workers \ {w} : pc[v] = "receiving" => Uri(v) # u
  BY <1>1, <1>2 DEF Receives, Others, Uri
<1>4. ASSUME ~(pc[w] = "receiving" /\ Uri(w) = u), files'[u] = files[u]
      PROVE  files'[u] = Now(u, found)'
  <2>1. files[u] = Now(u, found)
    BY <1>2, <1>3, <1>4 DEF FilesFollow, Receives
  <2>2. Now(u, found)' = Now(u, found)
    BY <1>1, <1>4, NowKept
  <2>. QED  BY <1>4, <2>1, <2>2
<1>5. ASSUME NEW d, Writes(w, d) PROVE files'[u] = Now(u, found)'
  <2>1. Uri(w) # u
    BY <1>2, <1>5 DEF Writes, Receives, Uri
  <2>2. files'[u] = files[u]
    BY <1>1, <1>5, <2>1 DEF Writes, Types
  <2>. QED  BY <1>4, <2>1, <2>2
<1>6. CASE files' = files /\ pc'[w] # "receiving" /\ pc[w] = "receiving" /\ Uri(w) = u
  <2>1. /\ files[u].kind = "file" /\ files[u] \in File /\ Len(files[u].data) <= Chunks
        /\ \A i \in DOMAIN files[u].data : files[u].data[i] = conn[w]
    BY <1>1, <1>6 DEF Transferring, The, Types
  <2>2. files[u] = Uploaded(files[u].data) /\ files[u].data \in Seq(Nat)
    BY <2>1 DEF File, Uploaded
  <2>3. CASE Breaks(w)
    BY <1>1, <1>6, <2>2, <2>3, NowAfterBreak DEF The
  <2>4. ASSUME NEW e, Logs(w, e) PROVE files'[u] = Now(u, found)'
    <3>1. e.uri = u /\ IsUpload(e) /\ e.conn = conn[w] /\ Len(files[u].data) >= Chunks
      BY <1>1, <1>6, <2>4, LogsMethod DEF Logs, IsUpload, The
    <3>2. files[u].data = Body(conn[w])
      <4>1. Len(files[u].data) \in Nat /\ Chunks \in Nat
        BY <2>2, HttpAssumption, LenProperties
      <4>2. Len(files[u].data) = Chunks
        BY <2>1, <3>1, <4>1
      <4>. QED  BY <2>1, <2>2, <4>2, LenProperties DEF Body
    <3>3. Now(u, found)' = Uploaded(Body(conn[w]))
      BY <1>1, <2>4, <3>1, NowAfterEntry
    <3>. QED  BY <1>6, <2>2, <3>2, <3>3
  <2>. QED  BY <1>1, <1>6, <2>3, <2>4, LogSteps DEF Quiet
<1>. QED  BY <1>1, <1>4, <1>5, <1>6, FilesStep

LEMMA OpenedStep ==
  ASSUME Locking, Contents, NEW CONSTANT w \in Workers, Work(w),
         NEW CONSTANT found, FilesFollow(found), Opened(found)
  PROVE  Opened(found)'
<1>1. Types /\ Placed /\ Transferring /\ Existing /\ BrokenBefore /\ Others(w)
  BY WorkOthers DEF Locking, Contents
<1>. DEFINE Good(v) == /\ Now(Uri(v), found).kind \in {"absent", "file"}
                       /\ existed[v] => Now(Uri(v), found).kind = "file"
<1>2. ASSUME NEW v \in Workers, Good(v), Uri(v)' = Uri(v), existed'[v] = existed[v],
             ~(pc[w] = "receiving" /\ Uri(w) = Uri(v))
      PROVE  Good(v)'
  <2>1. PICK u : u = Uri(v)
    OBVIOUS
  <2>2. Now(u, found)' = Now(u, found)
    BY <1>1, <1>2, <2>1, NowKept
  <2>3. Now(Uri(v), found) = Now(u, found) /\ Now(Uri(v), found)' = Now(u, found)'
    BY <1>2, <2>1 DEF Now, Replayed
  <2>. QED  BY <1>2, <2>2, <2>3
<1>3. ASSUME NEW v \in Workers \ {w}, pc'[v] = "receiving" PROVE Good(v)'
  <2>1. /\ pc[v] = "receiving" /\ Uri(v)' = Uri(v) /\ existed'[v] = existed[v]
    BY <1>1, <1>3 DEF Others, Uri
  <2>2. ~(pc[w] = "receiving" /\ Uri(w) = Uri(v))
    BY <2>1, WriterExclusive DEF Writing
  <2>. QED  BY <1>2, <2>1, <2>2 DEF Opened
<1>4. ASSUME pc'[w] = "receiving" PROVE Good(w)'
  <2>1. PICK d : Writes(w, d)
    BY <1>1, <1>4, FilesStep
  <2>2. PICK u : u = Uri(w)
    OBVIOUS
  <2>3. Uri(w)' = Uri(w) /\ existed'[w] = existed[w] /\ u \in URIs
    BY <1>1, <2>1, <2>2, FileOf DEF Writes, Uri, PutPlaces, PutOnNode, Writing
  <2>4. Good(w)
    <3>1. CASE pc[w] = "receiving"
      BY <3>1 DEF Opened
    <3>2. CASE pc[w] = "put_open"
      <4>1. ~Receives(Uri(w))
        BY <3>2, NobodyElseReceives DEF Writing
      <4>2. files[u] = Now(u, found)
        BY <2>2, <2>3, <4>1 DEF FilesFollow
      <4>3. The(w).kind \in {"absent", "file"} /\ (existed[w] => The(w).kind # "absent")
        BY <1>1, <2>1, <3>2 DEF Writes, Existing, Seeking
      <4>. QED  BY <2>2, <4>2, <4>3 DEF The
    <3>. QED  BY <2>1, <3>1, <3>2 DEF Writes
  <2>5. Now(u, found)' = Now(u, found)
    <3>1. Quiet(w)
      BY <2>1 DEF Writes, Quiet
    <3>. QED  BY <1>1, <3>1, NowAfterQuiet
  <2>6. Now(Uri(w), found) = Now(u, found) /\ Now(Uri(w), found)' = Now(u, found)'
    BY <2>2, <2>3 DEF Now, Replayed
  <2>. QED  BY <2>3, <2>4, <2>5, <2>6
<1>. HIDE DEF Good
<1>5. \A v \in Workers : pc'[v] = "receiving" => Good(v)'
  BY <1>3, <1>4
<1>. QED  BY <1>5 DEF Good, Opened

LEMMA ReplayStep ==
  ASSUME Locking, Contents, NEW CONSTANT w \in Workers, Work(w),
         NEW CONSTANT found, Matches(found)
  PROVE  Replays(found)'
<1>1. /\ Types /\ Placed /\ Transferring /\ StableWhileSending /\ BrokenBefore
      /\ FilesFollow(found) /\ Opened(found) /\ Replays(found)
  BY DEF Locking, Contents, Matches
<1>2. PICK n : n = Len(log)
  OBVIOUS
<1>3. n \in Nat /\ DOMAIN log = 1 .. n
  BY <1>1, <1>2, LenProperties DEF Types
<1>. DEFINE Extended ==
       /\ \A k \in 1 .. n : log'[k] = log[k]
       /\ DOMAIN broken \subseteq DOMAIN broken'
       /\ \A b \in DOMAIN broken : broken'[b] = broken[b]
       /\ \A b \in DOMAIN broken' \ DOMAIN broken : broken'[b].lines = n
<1>4. Extended
  <2>1. CASE Quiet(w)
    BY <2>1 DEF Quiet
  <2>2. ASSUME NEW e, Logs(w, e) PROVE Extended
    BY <1>1, <1>3, <2>2, LogGrows DEF Logs
  <2>3. CASE Breaks(w)
    <3>1. PICK e \in Break : broken' = Append(broken, e) /\ e.lines = n
      BY <1>1, <1>2, <2>3, BreakTyped DEF Breaks
    <3>2. /\ DOMAIN broken' = DOMAIN broken \cup {Len(broken) + 1}
          /\ \A b \in DOMAIN broken : broken'[b] = broken[b]
          /\ broken'[Len(broken) + 1] = e
      BY <1>1, <3>1, BreakAppended
    <3>. QED  BY <2>3, <3>1, <3>2 DEF Breaks
  <2>. HIDE DEF Extended
  <2>. QED  BY <1>1, <2>1, <2>2, <2>3, LogSteps
<1>5. ASSUME NEW k \in 1 .. n PROVE Explains(Replayed(log[k].uri, k - 1, found), log[k])'
  <2>1. PICK u, i : u = log[k].uri /\ i = k - 1
    OBVIOUS
  <2>2. i \in Nat /\ i < n /\ \A j \in 1 .. i : j \in 1 .. n
    BY <1>3, <1>5, <2>1
  <2>3. Replayed(u, i, found)' = Replayed(u, i, found)
    <3>1. \A b \in DOMAIN broken' \ DOMAIN broken : broken'[b].lines \notin 0 .. i
      BY <1>3, <1>4, <2>2
    <3>. HIDE DEF Extended
    <3>2. /\ \A j \in 1 .. i : log'[j] = log[j]
          /\ DOMAIN broken \subseteq DOMAIN broken'
          /\ \A b \in DOMAIN broken : broken'[b] = broken[b]
      BY <1>4, <2>2 DEF Extended
    <3>. QED  BY <1>1, <1>2, <2>2, <3>1, <3>2, ReplayedKept
  <2>4. PICK line : line = log[k]
    OBVIOUS
  <2>5. log'[k] = line /\ line.uri = u
    BY <1>4, <2>1, <2>4
  <2>6. Explains(Replayed(u, i, found), line)
    BY <1>1, <1>3, <2>1, <2>4 DEF Replays
  <2>7. Explains(Replayed(u, i, found)', line)
    BY <2>3, <2>6
  <2>8. Replayed(log[k].uri, k - 1, found)' = Replayed(u, i, found)'
    BY <2>1, <2>5 DEF Replayed, Uploads, BrokenSince
  <2>. QED  BY <2>5, <2>7, <2>8
<1>6. ASSUME NEW e, Logs(w, e) PROVE Explains(Replayed(e.uri, n, found)', e)
  <2>1. PICK u : u = Uri(w)
    OBVIOUS
  <2>2. e.uri = u /\ broken' = broken
    BY <1>6, <2>1 DEF Logs
  <2>3. Replayed(u, n, found)' = Now(u, found)
    <3>1. Replayed(u, n, found)' = Replayed(u, n, found)
      BY <1>1, <1>2, <1>3, <1>4, <2>2, ReplayedKept
    <3>. QED  BY <1>2, <3>1 DEF Now
  <2>. DEFINE file == Now(u, found)
  <2>4. Explains(file, e)
    <3>1. /\ e.method = "GET" <=> pc[w] \in {"get_open", "sending"}
          /\ e.method = "PUT" <=> pc[w] \in {"put_open", "receiving"}
          /\ u \in URIs
      BY <1>1, <1>6, <2>1, LogsMethod, FileOf DEF Logs, GetPlaces, PutPlaces, GetOnNode,
         PutOnNode, Reading, Writing
    <3>2. pc[w] # "receiving" => file = The(w)
      <4>1. pc[w] # "receiving" => ~Receives(Uri(w))
        BY <1>6, NobodyElseReceives DEF Logs, Reading, Writing
      <4>. QED  BY <1>1, <2>1, <3>1, <4>1 DEF FilesFollow, The
    <3>3. pc[w] = "receiving" =>
            file.kind \in {"absent", "file"} /\ (existed[w] => file.kind = "file")
      BY <1>1, <2>1 DEF Opened
    <3>. HIDE DEF file
    <3>4. CASE pc[w] = "get_open"
      <4>1. /\ e.method = "GET"
            /\ \/ e.code = 400
               \/ e.code = 404 /\ file.kind \in {"absent", "nowhere"}
               \/ e.code = 403 /\ file.kind \in {"forbidden", "directory"}
        BY <1>6, <3>1, <3>2, <3>4 DEF Logs
      <4>. QED  BY <4>1 DEF Explains
    <3>5. CASE pc[w] = "sending"
      <4>1. /\ e.method = "GET" /\ e.code = 200 /\ e.body = sent[w] /\ Len(sent[w]) = size[w]
        BY <1>6, <3>1, <3>5 DEF Logs
      <4>2. /\ file.kind = "file" /\ size[w] = Declared(Len(file.data))
            /\ IsBeginning(sent[w], file.data)
        BY <1>1, <3>2, <3>5 DEF Transferring, StableWhileSending
      <4>. QED  BY <4>1, <4>2 DEF Explains
    <3>6. CASE pc[w] = "put_open"
      <4>1. /\ e.method = "PUT" /\ e.code = 403
            /\ file.kind \in {"nowhere", "forbidden", "directory"}
        BY <1>6, <3>1, <3>2, <3>6 DEF Logs
      <4>. QED  BY <4>1 DEF Explains
    <3>7. CASE pc[w] = "receiving"
      <4>1. e.method = "PUT" /\ e.code = (IF existed[w] THEN 200 ELSE 201)
        BY <1>6, <3>1, <3>7 DEF Logs
      <4>. QED  BY <3>3, <3>7, <4>1 DEF Explains
    <3>. QED  BY <1>6, <3>4, <3>5, <3>6, <3>7 DEF Logs
  <2>5. Replayed(e.uri, n, found)' = Replayed(u, n, found)'
    BY <2>2
  <2>. QED  BY <2>3, <2>4, <2>5
<1>7. CASE log' = log
  <2>1. DOMAIN log' = 1 .. n
    BY <1>3, <1>7
  <2>. QED  BY <1>5, <2>1 DEF Replays
<1>8. ASSUME NEW e, Logs(w, e) PROVE Replays(found)'
  <2>1. DOMAIN log' = 1 .. n + 1 /\ log'[n + 1] = e
    BY <1>1, <1>2, <1>8, LogGrows
  <2>2. Explains(Replayed(log[n + 1].uri, (n + 1) - 1, found), log[n + 1])'
    <3>1. (n + 1) - 1 = n
      BY <1>3
    <3>2. Explains(Replayed(e.uri, n, found)', e)
      BY <1>6, <1>8
    <3>. QED  BY <2>1, <3>1, <3>2
  <2>3. ASSUME NEW k \in 1 .. n + 1
        PROVE  Explains(Replayed(log[k].uri, k - 1, found), log[k])'
    <3>1. CASE k \in 1 .. n
      BY <1>5, <3>1
    <3>2. CASE k = n + 1
      BY <2>2, <3>2
    <3>. QED  BY <1>3, <3>1, <3>2
  <2>. QED  BY <2>1, <2>3 DEF Replays
<1>. QED  BY <1>1, <1>7, <1>8, LogSteps DEF Breaks, Quiet

LEMMA MatchesStep ==
  ASSUME Locking, Contents, NEW CONSTANT w \in Workers, Work(w)
  PROVE  \E found \in Initial : Matches(found)'
<1>1. PICK found \in Initial : Matches(found)
  BY DEF Contents
<1>2. FilesFollow(found)' /\ Opened(found)' /\ Replays(found)'
  BY <1>1, FollowStep, OpenedStep, ReplayStep DEF Matches
<1>. QED  BY <1>2 DEF Matches

-----------------------------------------------------------------------------
(* The descriptors.                                                         *)

(* Where a worker has a file open. *)
Open == {"sending", "get_unlock", "get_end", "receiving", "put_unlock", "put_end"}

InPlace(S) == {w \in Workers : pc[w] \in S}

LEMMA InPlaceChanges ==
  ASSUME NEW CONSTANT w \in Workers, Others(w), NEW CONSTANT S, Counted(S)
  PROVE  /\ Cardinality(InPlace(S)) \in Nat
         /\ Cardinality(InPlace(S)') = Cardinality(InPlace(S)) + Change(pc[w], pc'[w], S)
<1>. DEFINE A == InPlace(S)
            B == InPlace(S)'
<1>1. \A v : v # w => (v \in B <=> v \in A)
  BY DEF Others, Counted, InPlace
<1>2. IsFiniteSet(A)
  BY HttpAssumption, FS_Subset DEF InPlace
<1>3. Share(w, B) - Share(w, A) = Change(pc[w], pc'[w], S)
  BY DEF InPlace, Change, Share
<1>. HIDE DEF A, B
<1>4. /\ Cardinality(A) \in Nat
      /\ Cardinality(B) = Cardinality(A) + Share(w, B) - Share(w, A)
  BY <1>1, <1>2, OneDiffers
<1>5. Share(w, A) \in Int /\ Share(w, B) \in Int
  BY DEF Share
<1>. QED  BY <1>3, <1>4, <1>5 DEF A, B

(* A directory stays one, and nothing becomes one. *)
LEMMA DirectoriesStay ==
  ASSUME Types, Placed, Transferring, NEW CONSTANT w \in Workers, Work(w), NEW u \in URIs
  PROVE  files'[u].kind = "directory" <=> files[u].kind = "directory"
<1>1. ASSUME NEW d, Writes(w, d)
      PROVE  files'[u].kind = "directory" <=> files[u].kind = "directory"
  BY <1>1 DEF Writes, Types, The
<1>. QED  BY <1>1, FilesStep

LEMMA DirectoryGetsChange ==
  ASSUME Types, Placed, Transferring, NEW CONSTANT w \in Workers, Work(w)
  PROVE  /\ Cardinality(DirectoryGets) \in Nat
         /\ Cardinality(DirectoryGets') =
              Cardinality(DirectoryGets)
                + (IF Len(log) + 1 \in DirectoryGets' THEN 1 ELSE 0)
<1>. DEFINE n == Len(log) + 1
<1>1. /\ log \in Seq(Entry) /\ Len(log) \in Nat /\ n = Len(log) + 1
      /\ DOMAIN log = 1 .. Len(log) /\ \A k \in DOMAIN log : log[k] \in Entry
  BY SeqElements DEF Types
<1>2. /\ DOMAIN log \subseteq DOMAIN log' /\ DOMAIN log' \subseteq DOMAIN log \cup {n}
      /\ \A k \in DOMAIN log : log'[k] = log[k]
  <2>1. CASE log' = log
    BY <2>1
  <2>2. ASSUME NEW e, Logs(w, e)
        PROVE  /\ DOMAIN log \subseteq DOMAIN log' /\ DOMAIN log' \subseteq DOMAIN log \cup {n}
               /\ \A k \in DOMAIN log : log'[k] = log[k]
    <3>1. /\ DOMAIN log' = 1 .. Len(log) + 1 /\ \A k \in DOMAIN log : log'[k] = log[k]
      BY <2>2, LogGrows
    <3>. QED  BY <1>1, <3>1
  <2>. QED  BY <2>1, <2>2, LogSteps DEF Breaks, Quiet
<1>3. n \notin DOMAIN log /\ DirectoryGets \subseteq DOMAIN log
  BY <1>1 DEF DirectoryGets
<1>. HIDE DEF n
<1>4. \A k \in DOMAIN log : log[k].uri \in URIs
  BY <1>1 DEF Entry
<1>5. \A k \in DOMAIN log : k \in DirectoryGets' <=> k \in DirectoryGets
  BY <1>2, <1>4, DirectoriesStay DEF DirectoryGets
<1>6. DirectoryGets' \subseteq DOMAIN log \cup {n}
  BY <1>2 DEF DirectoryGets
<1>7. IsFiniteSet(DirectoryGets) /\ Cardinality(DirectoryGets) \in Nat
  <2>1. IsFiniteSet(1 .. Len(log)) /\ DirectoryGets \subseteq 1 .. Len(log)
    BY <1>1, <1>3, FS_Interval
  <2>. QED  BY <2>1, FS_Subset, FS_CardinalityType
<1>8. CASE n \in DirectoryGets'
  <2>1. DirectoryGets' = DirectoryGets \cup {n} /\ n \notin DirectoryGets
    BY <1>3, <1>5, <1>6, <1>8
  <2>2. Cardinality(DirectoryGets') = Cardinality(DirectoryGets) + 1
    BY <1>7, <2>1, FS_AddElement
  <2>. QED  BY <1>7, <1>8, <2>2 DEF n
<1>9. CASE n \notin DirectoryGets'
  <2>1. DirectoryGets' = DirectoryGets
    BY <1>3, <1>5, <1>6, <1>9
  <2>2. Cardinality(DirectoryGets') = Cardinality(DirectoryGets)
    BY <2>1
  <2>. QED  BY <1>7, <1>9, <2>2 DEF n
<1>. QED  BY <1>8, <1>9

LEMMA LoggedCode ==
  ASSUME Types, NEW w, NEW code, NEW body, Logged(w, code, body)
  PROVE  log' # log /\ log'[Len(log) + 1].code = code
<1>1. log \in Seq(Entry) /\ Len(log) \in Nat
  BY LenProperties DEF Types
<1>2. PICK e : log' = Append(log, e) /\ e.code = code
  BY DEF Logged
<1>3. Len(log') = Len(log) + 1 /\ log'[Len(log) + 1] = e
  BY <1>1, <1>2
<1>. QED  BY <1>1, <1>2, <1>3

(* A step opens and closes files as it comes to and leaves the places where *)
(* one is open; only a GET of a directory opens one and does not come there.*)
LEMMA FdsStep ==
  ASSUME Types, Placed, Transferring, NEW CONSTANT w \in Workers, Work(w)
  PROVE  fds' = fds + Change(pc[w], pc'[w], Open)
                    + (IF Len(log) + 1 \in DirectoryGets' THEN 1 ELSE 0)
<1>. DEFINE leaks == Len(log) + 1 \in DirectoryGets'
<1>1. pc \in [Workers -> Places] /\ fds \in Int
  BY DEF Types
<1>2. log' = log => ~leaks
  <2>1. DOMAIN log = 1 .. Len(log) /\ Len(log) \in Nat
    BY LenProperties DEF Types
  <2>. QED  BY <2>1 DEF DirectoryGets
<1>3. ASSUME NEW CONSTANT e, Logs(w, e)
      PROVE  leaks <=> e.method = "GET" /\ e.code = 403 /\ The(w).kind = "directory"
  <2>1. Len(log) + 1 \in DOMAIN log' /\ log'[Len(log) + 1] = e
    BY <1>3, LogGrows
  <2>2. e.uri = Uri(w) /\ files' = files
    BY <1>3 DEF Logs
  <2>. QED  BY <2>1, <2>2 DEF DirectoryGets, The
<1>. SUFFICES fds' = fds + Change(pc[w], pc'[w], Open) + (IF leaks THEN 1 ELSE 0)
  OBVIOUS
<1>. HIDE DEF leaks
<1>. USE DEF Change, Share, Open
<1>4. CASE Take(w)
  BY <1>1, <1>2, <1>4 DEF Take, Branch
<1>5. CASE Lookups(w)
  BY <1>1, <1>2, <1>5 DEF Lookups, Lookup, Goto, held
<1>6. CASE Tries(w)
  <2>1. OnlyLocks
    BY <1>6, LockSteps
  <2>2. pc[w] \notin Open /\ pc'[w] \notin Open
    BY <1>1, <1>6 DEF Tries, ReaderTry, WriterTry, Goto
  <2>. QED  BY <1>1, <1>2, <2>1, <2>2 DEF OnlyLocks, held
<1>7. CASE Unlocks(w)
  <2>1. OnlyLocks
    BY <1>7, LockSteps
  <2>2. \/ pc[w] = "get_unlock" /\ pc'[w] = "get_end"
        \/ pc[w] = "get_release" /\ pc'[w] = "end"
        \/ pc[w] = "put_unlock" /\ pc'[w] = "put_end"
    BY <1>7 DEF Unlocks, ReaderUnlock, WriterUnlock, LeaveAndWake
  <2>. QED  BY <1>1, <1>2, <2>1, <2>2 DEF OnlyLocks, held
<1>8. CASE Close(w)
  BY <1>1, <1>2, <1>8 DEF Close, CloseFile
<1>9. ASSUME NEW CONSTANT code, NEW CONSTANT body, Logged(w, code, body),
             code \in {200, 201, 400, 403, 404}
      PROVE  leaks <=> /\ code = 403 /\ The(w).kind = "directory"
                       /\ pc[w] \in {"get_open", "sending"}
  <2>1. log' # log /\ log'[Len(log) + 1].code = code
    BY <1>9, LoggedCode
  <2>2. PICK e : Logs(w, e)
    BY <2>1, LogSteps DEF Breaks, Quiet
  <2>3. e.code = code
    BY <2>1, <2>2, LogGrows
  <2>4. e.method = "GET" <=> pc[w] \in {"get_open", "sending"}
    BY <2>2, LogsMethod DEF Logs
  <2>. QED  BY <1>3, <2>2, <2>3, <2>4
<1>10. CASE GetOpen(w)
  <2>1. ASSUME NEW CONSTANT code \in {400, 403, 404}, GetRefused(w, code)
        PROVE  /\ leaks <=> code = 403 /\ The(w).kind = "directory"
               /\ pc[w] = "get_open" /\ pc'[w] = "get_release"
    <3>1. Logged(w, code, << >>) /\ pc[w] = "get_open" /\ pc'[w] = "get_release"
      BY <1>1, <2>1 DEF GetRefused, Goto
    <3>2. PICK body : Logged(w, code, body)
      BY <3>1
    <3>. QED  BY <1>9, <3>1, <3>2
  <2>2. CASE GetRefused(w, 400) /\ UNCHANGED fds
    BY <1>1, <2>1, <2>2
  <2>3. CASE GetRefused(w, 404) /\ UNCHANGED fds
    BY <1>1, <2>1, <2>3
  <2>4. CASE The(w).kind = "forbidden" /\ GetRefused(w, 403) /\ UNCHANGED fds
    BY <1>1, <2>1, <2>4
  <2>5. CASE The(w).kind = "directory" /\ GetRefused(w, 403) /\ fds' = fds + 1
    BY <1>1, <2>1, <2>5
  <2>6. CASE Goto(w, "get_open", "sending") /\ fds' = fds + 1 /\ UNCHANGED log
    BY <1>1, <1>2, <2>6 DEF Goto
  <2>. QED  BY <1>10, <2>2, <2>3, <2>4, <2>5, <2>6 DEF GetOpen
<1>11. CASE SendChunk(w) \/ PutAccess(w) \/ RecvChunk(w)
  BY <1>1, <1>2, <1>11 DEF SendChunk, PutAccess, RecvChunk, Goto, held
<1>12. CASE SendDone(w)
  <2>1. fds' = fds /\ pc[w] = "sending" /\ pc'[w] = "get_unlock"
    BY <1>1, <1>12 DEF SendDone, Goto, held
  <2>2. ~leaks
    <3>1. log' = log \/ \E body : Logged(w, 200, body)
      BY <1>12 DEF SendDone
    <3>. QED  BY <1>2, <1>9, <3>1
  <2>. QED  BY <1>1, <2>1, <2>2
<1>13. CASE PutOpen(w)
  <2>1. \/ fds' = fds + 1 /\ pc'[w] = "receiving" /\ log' = log
        \/ fds' = fds /\ pc'[w] = "end" /\ \E body : Logged(w, 403, body)
    BY <1>1, <1>13 DEF PutOpen, Goto
  <2>2. ~leaks /\ pc[w] = "put_open"
    <3>1. pc[w] = "put_open"
      BY <1>13 DEF PutOpen
    <3>. QED  BY <1>2, <1>9, <2>1, <3>1
  <2>. QED  BY <1>1, <2>1, <2>2
<1>14. CASE RecvDone(w)
  <2>1. fds' = fds /\ pc[w] = "receiving" /\ pc'[w] = "put_unlock"
    BY <1>1, <1>14 DEF RecvDone, Goto, held
  <2>2. ~leaks
    <3>1. log' = log \/ \E code \in {200, 201} : \E body : Logged(w, code, body)
      BY <1>14 DEF RecvDone
    <3>. QED  BY <1>2, <1>9, <2>1, <3>1
  <2>. QED  BY <1>1, <2>1, <2>2
<1>. QED  BY <1>4, <1>5, <1>6, <1>7, <1>8, <1>10, <1>11, <1>12, <1>13, <1>14, WorkSorted
          DEF Transfers

LEMMA FilesClosedStep ==
  ASSUME Locking, Contents, NEW CONSTANT w \in Workers, Work(w)
  PROVE  FilesClosed'
<1>1. Types /\ Placed /\ Transferring /\ FilesClosed /\ Others(w)
  BY WorkOthers DEF Locking, Contents
<1>2. fds = Cardinality(InPlace(Open)) + Cardinality(DirectoryGets)
  BY <1>1 DEF FilesClosed, InPlace, Open
<1>3. /\ Cardinality(InPlace(Open)) \in Nat
      /\ Cardinality(InPlace(Open)') = Cardinality(InPlace(Open)) + Change(pc[w], pc'[w], Open)
  <2>1. Counted(Open)
    BY DEF Counted, Open
  <2>. QED  BY <1>1, <2>1, InPlaceChanges
<1>4. /\ Cardinality(DirectoryGets) \in Nat
      /\ Cardinality(DirectoryGets') =
           Cardinality(DirectoryGets) + (IF Len(log) + 1 \in DirectoryGets' THEN 1 ELSE 0)
  BY <1>1, DirectoryGetsChange
<1>5. fds' = fds + Change(pc[w], pc'[w], Open)
                 + (IF Len(log) + 1 \in DirectoryGets' THEN 1 ELSE 0)
  BY <1>1, FdsStep
<1>6. Change(pc[w], pc'[w], Open) \in Int
  BY DEF Change, Share
<1>7. fds' = Cardinality(InPlace(Open)') + Cardinality(DirectoryGets')
  BY <1>2, <1>3, <1>4, <1>5, <1>6
<1>. QED  BY <1>7 DEF FilesClosed, InPlace, Open

-----------------------------------------------------------------------------
(* The beginning, the dispatcher and the theorems.                          *)

LEMMA InitInv == Init => Inv
<1>. SUFFICES ASSUME Init PROVE Inv
  OBVIOUS
<1>1. files \in Initial
  BY DEF Init
<1>2. files \in [URIs -> Found]
  BY <1>1, HttpAssumption
<1>3. files \in [URIs -> File]
  BY <1>2 DEF Found
<1>. /\ nodes = << >> /\ log = << >> /\ chan = << >> /\ arrived = {} /\ closed = {}
     /\ pc = [w \in Workers |-> "pop"] /\ node = [w \in Workers |-> 0]
     /\ conn = [w \in Workers |-> 0] /\ req \in [Workers -> {NoRequest}]
     /\ existed = [w \in Workers |-> FALSE] /\ size = [w \in Workers |-> 0]
     /\ sent = [w \in Workers |-> << >>] /\ fds = 0 /\ broken = << >>
  BY DEF Init, newHT
<1>5. Types
  <2>1. /\ << >> \in Seq(Row) /\ << >> \in Seq(Entry) /\ << >> \in Seq(Nat) /\ << >> \in Seq(Break)
        /\ "pop" \in Places
    BY DEF Places
  <2>. QED  BY <1>3, <2>1 DEF Types
<1>6. Accepted
  BY DEF Accepted
<1>7. Placed
  BY DEF Placed, GetPlaces, PutPlaces, GetOnNode, PutOnNode, Reading, Writing,
         AwaitingReaders, AwaitingWriters
<1>8. Table /\ LocksCount /\ WriterAlone
  BY DEF Table, LocksCount, WriterAlone, Writing
<1>9. Bounded
  <2>1. \A w \in Workers : sent[w] = << >> /\ size[w] = 0
    OBVIOUS
  <2>. QED  BY <2>1 DEF Bounded
<1>10. OneUploadPerFile
  BY <1>2 DEF OneUploadPerFile, Found
<1>11. Transferring /\ StableWhileSending /\ Existing /\ BrokenBefore
  BY DEF Transferring, StableWhileSending, Existing, BrokenBefore, Seeking
<1>12. PICK found \in Initial : found = files
  BY <1>1
<1>13. Matches(found)
  <2>1. \A u : Now(u, found) = found[u]
    <3>1. Len(log) = 0 /\ \A u, j : Uploads(u, 0) = {} /\ BrokenSince(u, j, 0) = {}
      BY DEF Uploads, BrokenSince
    <3>2. Latest({0}) = 0
      <4>1. {0} \in SUBSET (0 .. 0) /\ {0} # {} /\ 0 \in Nat
        OBVIOUS
      <4>2. Latest({0}) \in {0}
        BY <4>1, LatestIs
      <4>. QED  BY <4>2
    <3>3. \A u : Uploads(u, 0) \cup {0} = {0}
      BY <3>1
    <3>4. ASSUME NEW u PROVE Replayed(u, 0, found) = found[u]
      <4>1. Latest(Uploads(u, 0) \cup {0}) = 0
        BY <3>2, <3>3
      <4>2. BrokenSince(u, Latest(Uploads(u, 0) \cup {0}), 0) = {}
        BY <3>1
      <4>. QED  BY <4>1, <4>2 DEF Replayed
    <3>. QED  BY <3>1, <3>4 DEF Now
  <2>2. FilesFollow(found)
    BY <1>12, <2>1 DEF FilesFollow
  <2>3. Opened(found) /\ Replays(found)
    BY DEF Opened, Replays
  <2>. QED  BY <2>2, <2>3 DEF Matches
<1>14. FilesClosed
  <2>1. DirectoryGets = {}
    BY DEF DirectoryGets
  <2>2. InPlace(Open) = {}
    BY DEF InPlace, Open
  <2>3. fds = Cardinality(InPlace(Open)) + Cardinality(DirectoryGets)
    BY <2>1, <2>2, FS_EmptySet
  <2>. QED  BY <2>3 DEF FilesClosed, InPlace, Open
<1>. QED  BY <1>5, <1>6, <1>7, <1>8, <1>9, <1>10, <1>11, <1>13, <1>14
          DEF Inv, Locking, Contents

(* What the rest of the invariant is about.                                 *)
others == <<files, fds, nodes, pc, locals, log, broken>>

LEMMA InvKept ==
  ASSUME Inv, UNCHANGED others, Accepted'
  PROVE  Inv'
<1>1. /\ UNCHANGED <<files, fds, nodes, pc, conn, req, node, existed, size, sent, log, broken>>
      /\ Types /\ Placed /\ Table /\ LocksCount /\ WriterAlone
      /\ Bounded /\ Transferring /\ StableWhileSending /\ OneUploadPerFile
      /\ Existing /\ BrokenBefore /\ FilesClosed
  BY DEF others, locals, job, Inv, Locking, Contents
<1>2. Types' /\ Placed' /\ Table' /\ WriterAlone'
  BY <1>1 DEF Types, Placed, Table, WriterAlone, Uri
<1>3. LocksCount'
  <2>1. \A n, S : Count(n, S)' = Count(n, S)
    BY <1>1 DEF Count, At
  <2>2. ASSUME NEW n \in DOMAIN nodes PROVE NodeCounts(n)'
    <3>1. Refusals(nodes[n].uri)' = Refusals(nodes[n].uri) /\ NodeCounts(n)
      BY <1>1 DEF Refusals, LocksCount
    <3>. QED  BY <1>1, <2>1, <3>1 DEF NodeCounts
  <2>. QED  BY <1>1, <2>2 DEF LocksCount
<1>4. /\ Bounded' /\ Transferring' /\ StableWhileSending' /\ OneUploadPerFile'
      /\ Existing' /\ BrokenBefore'
  BY <1>1 DEF Bounded, Transferring, StableWhileSending, OneUploadPerFile, Existing, BrokenBefore,
              The, Uri
<1>5. PICK found \in Initial : Matches(found)
  BY DEF Inv, Contents
<1>6. Matches(found)'
  <2>1. ASSUME NEW u, NEW k PROVE Replayed(u, k, found)' = Replayed(u, k, found)
    <3>1. Uploads(u, k)' = Uploads(u, k)
      BY <1>1 DEF Uploads
    <3>2. \A j : BrokenSince(u, j, k)' = BrokenSince(u, j, k)
      BY <1>1 DEF BrokenSince
    <3>. QED  BY <1>1, <3>1, <3>2 DEF Replayed
  <2>2. \A u : Now(u, found)' = Now(u, found)
    BY <1>1, <2>1 DEF Now
  <2>3. FilesFollow(found)'
    BY <1>1, <1>5, <2>2 DEF Matches, FilesFollow, Receives, Uri
  <2>4. Opened(found)'
    BY <1>1, <1>5, <2>2 DEF Matches, Opened, Uri
  <2>5. Replays(found)'
    BY <1>1, <1>5, <2>1 DEF Matches, Replays
  <2>. QED  BY <2>3, <2>4, <2>5 DEF Matches
<1>7. FilesClosed'
  <2>1. DirectoryGets' = DirectoryGets /\ InPlace(Open)' = InPlace(Open)
    BY <1>1 DEF DirectoryGets, InPlace
  <2>2. fds' = Cardinality(InPlace(Open)') + Cardinality(DirectoryGets')
    BY <1>1, <2>1 DEF FilesClosed, InPlace, Open
  <2>. QED  BY <2>2 DEF FilesClosed, InPlace, Open
<1>. QED  BY <1>2, <1>3, <1>4, <1>5, <1>6, <1>7 DEF Inv, Locking, Contents

LEMMA AcceptStep ==
  ASSUME Inv, NEW c \in Conns, Accept(c)
  PROVE  Inv'
<1>1. Accepted /\ UNCHANGED <<others, closed>>
  BY DEF Inv, Locking, Accept, others, held
<1>2. /\ chan' = Append(chan, c) /\ arrived' = arrived \cup {c} /\ conn' = conn
  BY DEF Accept, locals, job
<1>3. /\ Append(chan, c) \in Seq(Conns)
      /\ DOMAIN chan = 1 .. Len(chan) /\ Len(chan) \in Nat
      /\ DOMAIN Append(chan, c) = 1 .. Len(chan) + 1
      /\ \A i \in 1 .. Len(chan) : Append(chan, c)[i] = chan[i]
      /\ Append(chan, c)[Len(chan) + 1] = c
  BY <1>1, AppendProperties, LenProperties DEF Accepted
<1>4. \A i \in DOMAIN Append(chan, c) : Append(chan, c)[i] \in arrived \cup {c}
  BY <1>1, <1>3 DEF Accepted
<1>5. Accepted'
  BY <1>1, <1>2, <1>3, <1>4 DEF Accepted
<1>. QED  BY <1>1, <1>5, InvKept

LEMMA WorkStep ==
  ASSUME Inv, NEW CONSTANT w \in Workers, Work(w)
  PROVE  Inv'
<1>1. Locking /\ Contents /\ Transferring
  BY DEF Inv, Contents
<1>2. Types' /\ Accepted' /\ Placed' /\ Table' /\ LocksCount' /\ WriterAlone'
  BY <1>1, TypesStep, AcceptedStep, PlacedStep, TableStep, LocksCountStep, WriterAloneStep
<1>3. /\ Bounded' /\ Transferring' /\ StableWhileSending' /\ OneUploadPerFile'
      /\ Existing' /\ BrokenBefore' /\ FilesClosed'
      /\ \E found \in Initial : Matches(found)'
  BY <1>1, BoundedStep, TransferringStep, StableStep, OneUploadStep, ExistingStep, BrokenStep,
     MatchesStep, FilesClosedStep DEF Locking, Contents
<1>. QED  BY <1>2, <1>3 DEF Inv, Locking, Contents

(* Inv holds in every state: what the workers hold, what the locks count   *)
(* and what is in the files and the log fit together.                       *)
THEOREM Invariance == Spec => []Inv
<1>1. ASSUME Inv, [Next]_vars PROVE Inv'
  <2>1. CASE UNCHANGED vars
    <3>1. UNCHANGED <<others, chan, arrived, closed>>
      BY <2>1 DEF vars, others, arrivals, held
    <3>2. Accepted'
      BY <1>1, <3>1 DEF Inv, Locking, Accepted, others, locals, job
    <3>. QED  BY <1>1, <3>1, <3>2, InvKept
  <2>2. ASSUME NEW c \in Conns, Accept(c) PROVE Inv'
    BY <1>1, <2>2, AcceptStep
  <2>3. ASSUME NEW w \in Workers, Work(w) PROVE Inv'
    BY <1>1, <2>3, WorkStep
  <2>. QED  BY <1>1, <2>1, <2>2, <2>3 DEF Next
<1>. QED  BY InitInv, <1>1, PTL DEF Spec

LEMMA SeqIn ==
  ASSUME NEW S, NEW T, NEW s \in Seq(S), \A i \in DOMAIN s : s[i] \in T
  PROVE  s \in Seq(T)
<1>1. s \in [1 .. Len(s) -> T] /\ Len(s) \in Nat
  BY LenProperties
<1>. QED  BY <1>1

(* The workers' locals, the table, the queue and the files keep their types.*)
THEOREM TypeCorrect == Spec => []TypeOK
<1>1. Inv => TypeOK
  <2>. SUFFICES ASSUME Inv PROVE TypeOK
    OBVIOUS
  <2>1. /\ Types /\ Accepted /\ Placed /\ LocksCount /\ Bounded
    BY DEF Inv, Locking, Contents
  <2>2. nodes \in Seq([uri : URIs, lock : Lock])
    <3>1. /\ nodes \in Seq(Row) /\ DOMAIN nodes = 1 .. Len(nodes) /\ Len(nodes) \in Nat
          /\ \A n \in DOMAIN nodes : nodes[n] \in Row
      BY <2>1, RowsTyped, SeqElements DEF Row
    <3>2. ASSUME NEW n \in DOMAIN nodes PROVE nodes[n] \in [uri : URIs, lock : Lock]
      <4>1. nodes[n] \in Row /\ NodeCounts(n) /\ Cardinality(Refusals(nodes[n].uri)) \in Nat
        BY <2>1, <3>1, RefusalsFinite DEF LocksCount
      <4>2. \A S : Count(n, S) \in Nat
        BY CountNat
      <4>3. /\ nodes[n].lock.readers \in Nat /\ nodes[n].lock.writers \in Nat
            /\ nodes[n].lock.waiting_readers \in Nat /\ nodes[n].lock.waiting_writers \in Nat
        BY <4>1, <4>2 DEF NodeCounts
      <4>4. nodes[n].lock \in Lock
        BY <4>1, <4>3 DEF Row, IntLock, Lock
      <4>. QED  BY <4>1, <4>4 DEF Row
    <3>. QED  BY <3>1, <3>2, SeqIn
  <2>3. node \in [Workers -> 0 .. Len(nodes)]
    <3>1. Len(nodes) \in Nat /\ \A w \in Workers : node[w] <= Len(nodes)
      BY <2>1, RowsTyped DEF Placed
    <3>. QED  BY <2>1, <3>1 DEF Types
  <2>. QED  BY <2>1, <2>2, <2>3 DEF TypeOK, Types, Accepted, Bounded
<1>. QED  BY Invariance, <1>1, PTL

(* The workers on a URI use one lock, which counts those inside its GET and *)
(* PUT sections and the refused PUTs that never left it.                    *)
THEOREM LocksCorrect == Spec => []OneLockPerUri
<1>1. Inv => OneLockPerUri
  BY DEF Inv, Locking, Table, LocksCount, NodeCounts, Count, OneLockPerUri
<1>. QED  BY Invariance, <1>1, PTL

(* Nobody changes a file while a GET sends it.                              *)
THEOREM SendingStable == Spec => []StableWhileSending
<1>1. Inv => StableWhileSending
  BY DEF Inv, Contents
<1>. QED  BY Invariance, <1>1, PTL

(* Two PUTs never mix their chunks in a file.                               *)
THEOREM UploadsApart == Spec => []OneUploadPerFile
<1>1. Inv => OneUploadPerFile
  BY DEF Inv, Contents
<1>. QED  BY Invariance, <1>1, PTL

(* The audit log, with the uploads that broke off, replays: each GET and PUT *)
(* in it was answered as those before it left its file, but for a 201.      *)
THEOREM LogCorrect == Spec => []LogReplays
<1>1. Inv => LogReplays
  BY DEF Inv, Contents, Matches, Replays, LogReplays
<1>. QED  BY Invariance, <1>1, PTL

(* The descriptors that are open are those of the workers in a transfer,    *)
(* and one for each GET of a directory, which stays open.                   *)
THEOREM DescriptorsClosed == Spec => []FilesClosed
<1>1. Inv => FilesClosed
  BY DEF Inv, Contents
<1>. QED  BY Invariance, <1>1, PTL
=============================================================================
