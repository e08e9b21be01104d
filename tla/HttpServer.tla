------------------------------ MODULE HttpServer ------------------------------
(***************************************************************************)
(* httpserver_with_locks_and_threads/httpserver.c: a dispatcher, a bounded *)
(* queue of connections, and workers that serve GET and PUT requests under *)
(* one reader/writer lock per URI.  The queue is the FIFO that             *)
(* BoundedQueue implements; the locks are those of RWLockOps.  conn_* and  *)
(* listener_* come as an object file: they are modelled from their calls.  *)
(***************************************************************************)
EXTENDS RWLockOps, Sequences

CONSTANTS Workers,   \* the worker threads, as many as the queue has slots
          Conns,     \* the connections clients open, numbered from 1
          URIs,
          Requests,  \* the requests a connection may carry
          Initial,   \* the files there may be before the server starts
          InitServed,  \* what malloc may leave in the served_readers of a lock
          Chunks,    \* bound: the pieces in which a body is received
          IntRange,  \* the pieces of 2^32 bytes, where an int wraps
          Failures   \* TRUE: a transfer may break off

VARIABLES chan,   \* the queue of connections
          arrived, closed,   \* connections accepted, and closed
          files,  \* the file each URI names
          fds,    \* how many descriptors of files are open
          objs,   \* the connections whose conn_t is allocated
          nodes,  \* the hash table: its list of nodes [uri, lock]
          pc, conn, req, node, existed, size, sent,  \* the workers' locals
          log,    \* the audit log on stderr, with what a GET sent
          broken  \* history: the uploads that broke off, after how many lines
                  \* of the log, and what each left

arrivals == <<chan, arrived, closed>>
job == <<conn, req, node>>
locals == <<job, existed, size, sent>>
held == <<fds, objs>>
vars == <<chan, arrived, closed, files, held, nodes, pc, locals, log, broken>>

(* plain: AlphaNumeric accepts the URI.  OTHER: the method is not supported, *)
(* or conn_parse rejects the request.                                       *)
Request == [method : {"GET", "PUT", "OTHER"}, uri : URIs, plain : BOOLEAN]
NoRequest == [method |-> "OTHER"]

(* nowhere: there is no such file and open cannot create it.  A file that   *)
(* the server finds holds chunks marked 0, an upload those marked with its  *)
(* connection.                                                              *)
Kinds == {"absent", "nowhere", "file", "forbidden", "directory"}
File == [kind : Kinds, data : Seq(Nat)]
Found == {f \in File : /\ f.kind # "file" => f.data = << >>
                       /\ \A i \in DOMAIN f.data : f.data[i] = 0}

ASSUME HttpAssumption ==
  /\ IsFiniteSet(Workers) /\ Conns \subseteq Nat \ {0}
  /\ Requests \subseteq Request
  /\ \A found \in Initial : found \in [URIs -> Found]
  /\ InitServed \subseteq Int
  /\ Chunks \in Nat /\ IntRange \in Nat \ {0} /\ Failures \in BOOLEAN

newHT == << >>

Init == /\ chan = << >> /\ arrived = {} /\ closed = {}
        /\ files \in Initial
        /\ fds = 0 /\ objs = {}
        /\ nodes = newHT
        /\ pc = [w \in Workers |-> "pop"]
        /\ conn = [w \in Workers |-> 0] /\ req \in [Workers -> {NoRequest}]
        /\ node = [w \in Workers |-> 0]
        /\ existed = [w \in Workers |-> FALSE]
        /\ size = [w \in Workers |-> 0]
        /\ sent = [w \in Workers |-> << >>]
        /\ log = << >> /\ broken = << >>

Uri(w) == req[w].uri
The(w) == files[Uri(w)]
LockOf(w) == nodes[node[w]].lock
At(n, S) == {w \in Workers : node[w] = n /\ pc[w] \in S}

Goto(w, from, to) == pc[w] = from /\ pc' = [pc EXCEPT ![w] = to]
SetLock(w, l) == nodes' = [nodes EXCEPT ![node[w]].lock = l]

Logged(w, code, body) ==
  log' = Append(log, [method |-> req[w].method, uri |-> Uri(w),
                      code |-> code, conn |-> conn[w], body |-> body])

----------------------------------------------------------------------------
(* main: listener_accept, then queue_push.  A connection accepted while the *)
(* queue is full waits in the dispatcher's hands; nothing can tell that     *)
(* from its waiting to be accepted.                                         *)
Accept(c) ==
  /\ c \notin arrived /\ \A d \in Conns : d < c => d \in arrived
  /\ Len(chan) < Cardinality(Workers)
  /\ arrived' = arrived \cup {c}
  /\ chan' = Append(chan, c)
  /\ UNCHANGED <<closed, files, held, nodes, pc, locals, log, broken>>

(* request_parser: conn_parse, then a branch on the method; what is neither *)
(* GET nor PUT, or has an error in it, is answered right away.              *)
Branch(r) == CASE r.method = "GET" -> "get_lookup"
               [] r.method = "PUT" -> "put_access"
               [] OTHER -> "end"

(* worker_thread pops a connection and has request_parser parse it.         *)
Take(w) ==
  /\ pc[w] = "pop" /\ chan # << >>
  /\ chan' = Tail(chan)
  /\ conn' = [conn EXCEPT ![w] = Head(chan)]
  /\ objs' = objs \cup {Head(chan)}
  /\ \E r \in Requests :
       /\ req' = [req EXCEPT ![w] = r]
       /\ pc' = [pc EXCEPT ![w] = Branch(r)]
  /\ UNCHANGED <<arrived, closed, files, fds, nodes, node, existed, size, sent, log, broken>>

(* The table: hashLockLookup returns the first node of the URI, attach puts *)
(* a node at the end of the list.                                           *)
hashLockLookup(uri) == {n \in DOMAIN nodes : /\ nodes[n].uri = uri
                                             /\ \A m \in 1 .. n - 1 : nodes[m].uri # uri}

attach(uri, lock) == nodes' = Append(nodes, [uri |-> uri, lock |-> lock])

(* Both under the mutex, from pthread_mutex_lock to the unlock. *)
AttachAlways(w, from, to, garbage) ==
  /\ Goto(w, from, to)
  /\ attach(Uri(w), NewLock("N_WAY", 1, garbage))
  /\ node' = [node EXCEPT ![w] = Len(nodes')]
  /\ UNCHANGED <<arrivals, held, files, conn, req, existed, size, sent, log, broken>>

Lookup(w, from, to, garbage) ==
  /\ Goto(w, from, to)
  /\ \/ \E n \in hashLockLookup(Uri(w)) : /\ node' = [node EXCEPT ![w] = n]
                                          /\ UNCHANGED nodes
     \/ /\ hashLockLookup(Uri(w)) = {}
        /\ attach(Uri(w), NewLock("N_WAY", 1, garbage))
        /\ node' = [node EXCEPT ![w] = Len(nodes')]
  /\ UNCHANGED <<arrivals, held, files, conn, req, existed, size, sent, log, broken>>

OnlyLocks == UNCHANGED <<arrivals, held, files, locals, log, broken>>

(* reader_lock and writer_lock: one test of their loops.  from is where the *)
(* worker calls, or where a signal put it.                                  *)
ReaderTry(w, from, l) ==
  /\ \/ ReaderWaits(l) /\ Goto(w, from, "r_blocked") /\ SetLock(w, l)
     \/ ~ReaderWaits(l) /\ Goto(w, from, "get_open") /\ SetLock(w, AdmitReader(l))
  /\ OnlyLocks

WriterTry(w, from, l) ==
  /\ \/ WriterWaits(l) /\ Goto(w, from, "w_blocked") /\ SetLock(w, l)
     \/ ~WriterWaits(l) /\ Goto(w, from, "put_open") /\ SetLock(w, AdmitWriter(l))
  /\ OnlyLocks

LeaveAndWake(w, to, R, W) ==
  [v \in Workers |-> IF v = w THEN to
                     ELSE IF v \in R THEN "r_woken"
                     ELSE IF v \in W THEN "w_woken" ELSE pc[v]]

ReaderUnlock(w, from, to) ==
  /\ pc[w] = from
  /\ SetLock(w, ReaderLeaves(LockOf(w)))
  /\ \E W \in WritersWokenByReader(At(node[w], {"w_blocked"})) :
       pc' = LeaveAndWake(w, to, {}, W)
  /\ OnlyLocks

WriterUnlock(w, from, to) ==
  /\ pc[w] = from
  /\ \E l \in {WriterLeaves(LockOf(w))} :
       /\ SetLock(w, l)
       /\ \E R \in ReadersWokenByWriter(l, At(node[w], {"r_blocked"})),
             W \in WritersWokenByWriter(l, At(node[w], {"w_blocked"})) :
            pc' = LeaveAndWake(w, to, R, W)
  /\ OnlyLocks

----------------------------------------------------------------------------
(* GET, once the reader lock is held.  An error is logged, and answered     *)
(* before the lock is released; the descriptor of a directory stays open.   *)
(* The size goes through an int and arrives as a uint64_t: what wraps to a  *)
(* negative number is more than any file has.                               *)
SizeWraps(n) == 2 * (n % IntRange) >= IntRange

Declared(n) == IF SizeWraps(n) THEN n + 1 ELSE n % IntRange

GetRefused(w, code) ==
  /\ Goto(w, "get_open", "get_release")
  /\ Logged(w, code, << >>)
  /\ UNCHANGED <<size, sent>>

GetOpen(w) ==
  /\ pc[w] = "get_open"
  /\ \/ ~req[w].plain /\ GetRefused(w, 400) /\ UNCHANGED fds
     \/ /\ req[w].plain
        /\ \/ The(w).kind \in {"absent", "nowhere"} /\ GetRefused(w, 404) /\ UNCHANGED fds
           \/ The(w).kind = "forbidden" /\ GetRefused(w, 403) /\ UNCHANGED fds
           \/ The(w).kind = "directory" /\ GetRefused(w, 403) /\ fds' = fds + 1
           \/ /\ The(w).kind = "file"
              /\ Goto(w, "get_open", "sending")
              /\ fds' = fds + 1
              /\ size' = [size EXCEPT ![w] = Declared(Len(The(w).data))]
              /\ sent' = [sent EXCEPT ![w] = << >>]
              /\ UNCHANGED log
  /\ UNCHANGED <<arrivals, files, objs, nodes, job, existed, broken>>

(* conn_send_file, one chunk a step; it reports an error when the client is *)
(* gone or the file ends before its size.                                   *)
SendChunk(w) ==
  /\ Goto(w, "sending", "sending")
  /\ Len(sent[w]) < size[w] /\ Len(sent[w]) < Len(The(w).data)
  /\ sent' = [sent EXCEPT ![w] = Append(@, The(w).data[Len(@) + 1])]
  /\ UNCHANGED <<arrivals, held, files, nodes, job, existed, size, log, broken>>

SendDone(w) ==
  /\ Goto(w, "sending", "get_unlock")
  /\ \/ /\ Len(sent[w]) = size[w]
        /\ Logged(w, 200, sent[w])
     \/ /\ Len(sent[w]) < size[w] /\ (Failures \/ Len(The(w).data) < size[w])
        /\ UNCHANGED log
  /\ UNCHANGED <<arrivals, held, files, nodes, job, existed, size, sent, broken>>

----------------------------------------------------------------------------
(* PUT *)
PutAccess(w) ==
  /\ Goto(w, "put_access", "put_lookup")
  /\ existed' = [existed EXCEPT ![w] = The(w).kind \notin {"absent", "nowhere"}]
  /\ UNCHANGED <<arrivals, held, files, nodes, job, size, sent, log, broken>>

PutOpenKeepsData(w) ==
  /\ Goto(w, "put_open", "receiving")
  /\ files' = [files EXCEPT ![Uri(w)] = [kind |-> "file", data |-> The(w).data]]
  /\ fds' = fds + 1
  /\ UNCHANGED <<arrivals, objs, nodes, locals, log, broken>>

PutOpen(w) ==
  /\ pc[w] = "put_open"
  /\ \/ /\ The(w).kind \in {"absent", "file"}
        /\ Goto(w, "put_open", "receiving")
        /\ files' = [files EXCEPT ![Uri(w)] = [kind |-> "file", data |-> << >>]]
        /\ fds' = fds + 1
        /\ UNCHANGED log
     \/ /\ The(w).kind \in {"nowhere", "forbidden", "directory"}
        /\ Goto(w, "put_open", "end")   \* past writer_unlock
        /\ Logged(w, 403, << >>)
        /\ UNCHANGED <<files, fds>>
  /\ UNCHANGED <<arrivals, objs, nodes, job, existed, size, sent, broken>>

RecvChunk(w) ==
  /\ Goto(w, "receiving", "receiving")
  /\ Len(The(w).data) < Chunks
  /\ files' = [files EXCEPT ![Uri(w)].data = Append(@, conn[w])]
  /\ UNCHANGED <<arrivals, held, nodes, locals, log, broken>>

(* The 200 or 201 of a PUT is decided by what access said before the lock.  *)
RecvDoneEarly(w) ==
  /\ Goto(w, "receiving", "put_unlock")
  /\ Logged(w, 200, << >>)
  /\ UNCHANGED <<arrivals, held, files, nodes, job, existed, size, sent, broken>>

RecvDone(w) ==
  /\ Goto(w, "receiving", "put_unlock")
  /\ \/ /\ Len(The(w).data) >= Chunks
        /\ Logged(w, IF existed[w] THEN 200 ELSE 201, << >>)
        /\ UNCHANGED broken
     \/ /\ Failures /\ Len(The(w).data) < Chunks
        /\ broken' = Append(broken, [uri |-> Uri(w), lines |-> Len(log), data |-> The(w).data])
        /\ UNCHANGED log
  /\ UNCHANGED <<arrivals, held, files, nodes, job, existed, size, sent>>

(* What is left is local to the worker: close(fd) if a file was opened, the *)
(* response, conn_delete, and back in worker_thread close(connfd).  A GET   *)
(* that sent a file returns before conn_delete.                             *)
CloseFileOfPut(w) == fds' = IF pc[w] = "put_end" THEN fds - 1 ELSE fds

CloseFile(w) == fds' = IF pc[w] \in {"get_end", "put_end"} THEN fds - 1 ELSE fds

Close(w) ==
  /\ pc[w] \in {"get_end", "put_end", "end"}
  /\ pc' = [pc EXCEPT ![w] = "pop"]
  /\ CloseFile(w)
  /\ objs' = IF pc[w] = "get_end" THEN objs ELSE objs \ {conn[w]}
  /\ closed' = closed \cup {conn[w]}
  /\ conn' = [conn EXCEPT ![w] = 0] /\ req' = [req EXCEPT ![w] = NoRequest]
  /\ node' = [node EXCEPT ![w] = 0] /\ existed' = [existed EXCEPT ![w] = FALSE]
  /\ size' = [size EXCEPT ![w] = 0] /\ sent' = [sent EXCEPT ![w] = << >>]
  /\ UNCHANGED <<chan, arrived, files, nodes, log, broken>>

Get(w) ==
  \/ \E garbage \in InitServed : Lookup(w, "get_lookup", "get_lock", garbage)
  \/ pc[w] = "get_lock" /\ ReaderTry(w, "get_lock", ReaderArrives(LockOf(w)))
  \/ pc[w] = "r_woken" /\ ReaderTry(w, "r_woken", LockOf(w))
  \/ GetOpen(w) \/ SendChunk(w) \/ SendDone(w)
  \/ ReaderUnlock(w, "get_unlock", "get_end")
  \/ ReaderUnlock(w, "get_release", "end")

Put(w) ==
  \/ PutAccess(w)
  \/ \E garbage \in InitServed : Lookup(w, "put_lookup", "put_lock", garbage)
  \/ pc[w] = "put_lock" /\ WriterTry(w, "put_lock", WriterArrives(LockOf(w)))
  \/ pc[w] = "w_woken" /\ WriterTry(w, "w_woken", LockOf(w))
  \/ PutOpen(w) \/ RecvChunk(w) \/ RecvDone(w)
  \/ WriterUnlock(w, "put_unlock", "put_end")

Work(w) == Take(w) \/ Get(w) \/ Put(w) \/ Close(w)

Next == (\E c \in Conns : Accept(c)) \/ (\E w \in Workers : Work(w))

(* The workers never stop; a transfer ends because the sockets carry a      *)
(* timeout (listener_accept); clients need not come.                        *)
Fairness == \A w \in Workers : WF_vars(Work(w))

Spec == Init /\ [][Next]_vars

FairSpec == Spec /\ Fairness

----------------------------------------------------------------------------
Places == {"pop", "get_lookup", "get_lock", "r_blocked", "r_woken", "get_open",
           "sending", "get_unlock", "get_release", "get_end", "put_access",
           "put_lookup", "put_lock", "w_blocked", "w_woken", "put_open",
           "receiving", "put_unlock", "put_end", "end"}

Reading == {"get_open", "sending", "get_unlock", "get_release"}
Writing == {"put_open", "receiving", "put_unlock"}

(* The workers' locals and the table have their types; no more is sent than *)
(* was declared.                                                            *)
TypeOK ==
  /\ chan \in Seq(Conns) /\ arrived \subseteq Conns
  /\ closed \subseteq arrived
  /\ files \in [URIs -> File]
  /\ nodes \in Seq([uri : URIs, lock : Lock])
  /\ pc \in [Workers -> Places]
  /\ conn \in [Workers -> Conns \cup {0}] /\ node \in [Workers -> 0 .. Len(nodes)]
  /\ \A w \in Workers : Len(sent[w]) <= size[w]

(* The PUTs of a URI that open refused: these go on without unlocking.      *)
Refusals(u) == {k \in DOMAIN log : log[k].method = "PUT" /\ log[k].uri = u
                                   /\ log[k].code = 403}

(* All the workers on a URI use one lock, and each lock counts the workers  *)
(* inside its GET and PUT sections, and the refused PUT that never left.    *)
OneLockPerUri ==
  /\ \A m, n \in DOMAIN nodes : nodes[m].uri = nodes[n].uri => m = n
  /\ \A n \in DOMAIN nodes :
       /\ nodes[n].lock.readers = Cardinality(At(n, Reading))
       /\ nodes[n].lock.writers =
            Cardinality(At(n, Writing)) + Cardinality(Refusals(nodes[n].uri))

DirectoryGets == {k \in DOMAIN log : log[k].method = "GET" /\ log[k].code = 403
                                     /\ files[log[k].uri].kind = "directory"}

(* Every descriptor a request opens is closed again, on failures too, but   *)
(* for the one of each GET of a directory, which never is.                  *)
FilesClosed ==
  fds = Cardinality({w \in Workers : pc[w] \in {"sending", "get_unlock", "get_end",
                                                "receiving", "put_unlock", "put_end"}})
        + Cardinality(DirectoryGets)

IsBeginning(s, data) == \A i \in DOMAIN s : i <= Len(data) /\ s[i] = data[i]

(* While a GET sends a file nobody changes it: what was sent is the         *)
(* beginning of what is on disk, and the size sent ahead is that of the     *)
(* file, or what an int makes of it.                                        *)
StableWhileSending ==
  \A w \in Workers : pc[w] \in {"sending", "get_unlock"} =>
    /\ size[w] = Declared(Len(The(w).data))
    /\ IsBeginning(sent[w], The(w).data)

(* A file holds the chunks of one upload: two PUTs never mix. *)
OneUploadPerFile ==
  \A u \in URIs : \A i, j \in DOMAIN files[u].data : files[u].data[i] = files[u].data[j]

(* The logged uploads of a URI among the first k lines of the log, and the  *)
(* file that the last upload before line k + 1 left: one that broke off     *)
(* since the last logged one, that one, or nobody's and what was found.     *)
Uploads(u, k) == {j \in 1 .. k : /\ log[j].uri = u /\ log[j].method = "PUT"
                                 /\ log[j].code \in {200, 201}}

Latest(S) == CHOOSE n \in S : \A m \in S : m <= n

BrokenSince(u, j, k) == {b \in DOMAIN broken : broken[b].uri = u /\ broken[b].lines \in j .. k}

Uploaded(data) == [kind |-> "file", data |-> data]

Replayed(u, k, found) ==
  LET last == Latest(Uploads(u, k) \cup {0})
      cut  == BrokenSince(u, last, k)
  IN IF cut # {} THEN Uploaded(broken[Latest(cut)].data)
     ELSE IF last # 0 THEN Uploaded([i \in 1 .. Chunks |-> log[last].conn])
     ELSE found[u]

(* What a request that was answered so saw of the file.  A PUT that calls   *)
(* its file new asked before it had the lock: see CreatedOnce.              *)
Explains(file, line) ==
  CASE line.method = "GET" /\ line.code = 200 ->
         /\ file.kind = "file" /\ Len(line.body) = Declared(Len(file.data))
         /\ IsBeginning(line.body, file.data)
    [] line.method = "GET" /\ line.code = 404 -> file.kind \in {"absent", "nowhere"}
    [] line.method = "GET" /\ line.code = 403 -> file.kind \in {"forbidden", "directory"}
    [] line.method = "PUT" /\ line.code = 200 -> file.kind = "file"
    [] line.method = "PUT" /\ line.code = 201 -> file.kind \in {"absent", "file"}
    [] line.method = "PUT" /\ line.code = 403 -> file.kind \in {"nowhere", "forbidden", "directory"}
    [] OTHER -> TRUE

(* The audit log, with the uploads that broke off and left no line in it,   *)
(* replays: starting from the files the server found, each line was         *)
(* answered as the uploads before it left its file.  A GET after an upload  *)
(* that broke off is answered 200 with the beginning that is left, which    *)
(* no line explains.  The one code that need not be what a replay gives is  *)
(* the 201 of a PUT.                                                        *)
LogReplays ==
  \E found \in Initial :
    \A k \in DOMAIN log : Explains(Replayed(log[k].uri, k - 1, found), log[k])

(* "based on whether the file existed": no file is created twice. *)
CreatedOnce ==
  \A k \in DOMAIN log :
    log[k].method = "PUT" /\ log[k].code = 201 => Uploads(log[k].uri, k - 1) = {}

(* "Release the writer lock": a worker that has answered a PUT holds no     *)
(* lock any more.                                                           *)
PutReleases ==
  \A n \in DOMAIN nodes : nodes[n].lock.writers <= Cardinality(At(n, Writing))

(* A worker that sleeps for ever: the lock of its URI was never released by *)
(* a PUT that open refused, or it is a reader that the n_way + 1 signals of *)
(* writer_unlock did not reach and no writer comes.                         *)
Stuck(w) ==
  \/ pc[w] \in {"r_blocked", "w_blocked"} /\ Refusals(Uri(w)) # {}
  \/ pc[w] = "r_blocked" /\ At(node[w], Writing \cup {"w_blocked", "w_woken"}) = {}

(* In the end every connection that was accepted is closed, unless its      *)
(* worker, or all the workers while it is in the queue, are stuck.          *)
EveryConnectionCloses ==
  \A c \in Conns :
    <>[](c \in arrived => \/ c \in closed
                          \/ \E w \in Workers : conn[w] = c /\ Stuck(w)
                          \/ \A w \in Workers : Stuck(w))
=============================================================================
