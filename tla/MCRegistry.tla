----------------------------- MODULE MCRegistry -----------------------------
EXTENDS Registry, TLC

Symmetries == Permutations(Backends) \cup Permutations(Rows)

(* Each row is of a tenant of its own. *)
OneRowEach == [r \in Rows |-> r]
=============================================================================
