--------------------------- MODULE SegmentLevels ---------------------------
(***************************************************************************)
(* The on-disk half of an index as the metapage describes it: for every    *)
(* level a chain of segments (level_heads[level] and, from there, the      *)
(* next_segment fields of the segment headers) and, kept apart from the    *)
(* chain, the number of segments in it (level_counts[level]).  A segment   *)
(* is the set of the documents its docmap holds; a chain is the sequence   *)
(* of its segments, head first.                                            *)
(***************************************************************************)
EXTENDS Integers, Sequences

CONSTANTS Docs,              \* documents (CTIDs)
          MaxLevels,         \* TP_MAX_LEVELS
          SegmentsPerLevel   \* GUC pg_textsearch.segments_per_level

ASSUME LevelsAssumption ==
    /\ MaxLevels \in Nat \ {0}
    /\ SegmentsPerLevel \in Nat \ {0}

Levels == 0 .. MaxLevels - 1

Segments == SUBSET Docs

(* The metapage of an empty index: tp_init_metapage. *)
EmptyChains == [l \in Levels |-> <<>>]
ZeroCounts  == [l \in Levels |-> 0]

(* The documents of a chain. *)
ChainDocs(chain) == UNION {chain[i] : i \in DOMAIN chain}

(* The documents of all levels. *)
LinkedDocs(chains) == UNION {ChainDocs(chains[l]) : l \in Levels}

(* No document is in two segments, of the same chain or of two. *)
SegmentsDisjoint(chains) ==
    \A l, m \in Levels :
        \A i \in DOMAIN chains[l], j \in DOMAIN chains[m] :
            l # m \/ i # j => chains[l][i] \cap chains[m][j] = {}

(* A written segment becomes the head of a level: its next_segment is the  *)
(* old head, level_heads is the segment, level_counts goes up by one.      *)
LinkSegment(chains, l, seg) == [chains EXCEPT ![l] = <<seg>> \o @]
CountSegment(counts, l)     == [counts EXCEPT ![l] = @ + 1]

(* Mutant: a level may reach the threshold without being merged. *)
NeedsCompactionLate(counts, l) ==
    /\ l < MaxLevels - 1
    /\ counts[l] > SegmentsPerLevel

(* tp_maybe_compact_level: is this level to be merged? *)
NeedsCompaction(counts, l) ==
    /\ l < MaxLevels - 1
    /\ counts[l] >= SegmentsPerLevel

(* Mutant: the last segment of the chain is not opened. *)
MergeSourcesShort(chain, num) == SubSeq(chain, 1, num - 1)

(* The first num segments of a chain, or all of them if there are fewer:   *)
(* the sources tp_merge_level_segments opens.                              *)
MergeSources(chain, num) ==
    SubSeq(chain, 1, IF num < Len(chain) THEN num ELSE Len(chain))

(* The metapage update that ends a merge: the source level is emptied, the *)
(* merged segment becomes the head of the level above.                     *)
ReplaceLevel(chains, l, merged) ==
    [chains EXCEPT ![l] = <<>>, ![l + 1] = <<merged>> \o @]

(* Mutants: the sources are subtracted, one too many; the merged segment   *)
(* is not counted.                                                         *)
RecountLevelSubtract(counts, l) ==
    [counts EXCEPT ![l] = @ - (SegmentsPerLevel + 1), ![l + 1] = @ + 1]
RecountLevelSources(counts, l) == [counts EXCEPT ![l] = 0]

RecountLevel(counts, l) ==
    [counts EXCEPT ![l] = 0, ![l + 1] = @ + 1]
=============================================================================
