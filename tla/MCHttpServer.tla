----------------------------- MODULE MCHttpServer -----------------------------
(***************************************************************************)
(* Requests, files and the symmetry of the workers for TLC.                *)
(***************************************************************************)
EXTENDS HttpServer, TLC

Req(m, u, p) == [method |-> m, uri |-> u, plain |-> p]

Three == 1 .. 3
Four == 1 .. 4
Alike == Permutations(Workers)

(* served_readers as malloc may leave it; a writer leaves it 0. *)
Garbage == {-1, 1}
Zeroed == {0}

Without(kind) == [kind |-> kind, data |-> << >>]
OfSize(n) == [kind |-> "file", data |-> [i \in 1 .. n |-> 0]]

(* One file, read and written. *)
OneUri == {"a"}
ReadsAndWrites == {Req("GET", "a", TRUE), Req("PUT", "a", TRUE)}
Absent == {[u \in OneUri |-> Without("absent")]}

(* Next to it a URI that names what cannot be written, and requests with    *)
(* errors in them.  An int makes 1 of the size of one file found, and a     *)
(* negative number of the other.                                            *)
TwoUris == {"a", "b"}
WithErrors == ReadsAndWrites \cup {Req("GET", "b", TRUE), Req("PUT", "b", TRUE),
                                   Req("GET", "a", FALSE), Req("OTHER", "a", TRUE)}
BadNeighbour == {[a |-> Without("absent"), b |-> Without("forbidden")],
                 [a |-> OfSize(9), b |-> Without("directory")],
                 [a |-> OfSize(4), b |-> Without("nowhere")]}

(* A file that may refuse to be opened. *)
AbsentOrForbidden == {[u \in OneUri |-> Without("absent")],
                      [u \in OneUri |-> Without("forbidden")]}

(* For the violation runs: PUTs alone. *)
Puts == {Req("PUT", "a", TRUE)}
Refused == {[u \in OneUri |-> Without("forbidden")]}

(* Idle workers are alike, so that it is all the same which of them takes   *)
(* the next connection: here it is the lowest.  (SYMMETRY is not for        *)
(* liveness.)                                                               *)
LowestTakes ==
  \A w \in Workers : pc[w] = "pop" /\ pc'[w] # "pop" =>
    \A v \in Workers : v < w => pc[v] # "pop"

InTurn == Init /\ [][Next /\ LowestTakes]_vars /\ Fairness
=============================================================================
