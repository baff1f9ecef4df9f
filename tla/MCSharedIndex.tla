--------------------------- MODULE MCSharedIndex ---------------------------
(* Small instances of SharedIndex for TLC. *)
EXTENDS SharedIndex, TLC

CONSTANTS d1, d2, d3, d4

(* Two terms in the first document, none in the last. *)
MCDocTerms == [d \in Docs |-> IF d = d1 THEN 2 ELSE IF d = d4 THEN 0 ELSE 1]

BackendSymmetry == Permutations(Backends)
=============================================================================
