----------------------------- MODULE TextIndex -----------------------------
(***************************************************************************)
(* What a BM25 index promises its callers, whatever its memtable, its      *)
(* segments and its locks do: a document is added once, is never lost, and *)
(* a query answers with exactly the documents added so far.  Ranking and   *)
(* LIMIT are left out: a query here is one whose limit exceeds the corpus. *)
(***************************************************************************)
CONSTANTS Backends,   \* the server processes that use the index
          Docs,       \* heap tuples (CTIDs) that may be indexed
          NoAnswer    \* a backend that has no query result

VARIABLES indexed,    \* the documents the index holds
          answer      \* answer[b]: the result of the query b has just run

abstractVars == <<indexed, answer>>

Init ==
    /\ indexed = {}
    /\ answer = [b \in Backends |-> NoAnswer]

(* An INSERT reaches the index. *)
Add(d) ==
    /\ d \notin indexed
    /\ indexed' = indexed \cup {d}
    /\ UNCHANGED answer

(* A query is answered from one state of the index. *)
Query(b) ==
    /\ answer' = [answer EXCEPT ![b] = indexed]
    /\ UNCHANGED indexed

(* The executor has consumed the answer. *)
Consume(b) ==
    /\ answer' = [answer EXCEPT ![b] = NoAnswer]
    /\ UNCHANGED indexed

Next ==
    \/ \E d \in Docs : Add(d)
    \/ \E b \in Backends : Query(b) \/ Consume(b)

Spec == Init /\ [][Next]_abstractVars
=============================================================================
