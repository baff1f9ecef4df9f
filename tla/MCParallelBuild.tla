-------------------------- MODULE MCParallelBuild --------------------------
(* Small instances of ParallelBuild for TLC. *)
EXTENDS ParallelBuild, TLC

CONSTANTS d1, d2, d3, d4, d5

(* A block that fills a worker's buffers three times over, and a shorter   *)
(* one for the other worker.                                               *)
MCHeapBlocks == {{d1, d2, d3}, {d4, d5}}
=============================================================================
