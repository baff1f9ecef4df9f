------------------------------ MODULE TopKHeap ------------------------------
(***************************************************************************)
(* The bounded min-heap that keeps the k best results of a query           *)
(* (src/src/query/bmw.c).  A heap is the sequence of its entries; entry    *)
(* i+1 is array slot i, so the root (the weakest result) is heap[1] and    *)
(* the children of position i are 2i and 2i+1.                             *)
(*                                                                         *)
(* An entry is [score, ctid, seg, doc].  A memtable result knows its ctid  *)
(* and has seg = NoSegment, doc = 0; a segment result has ctid = NoCtid    *)
(* until tp_topk_resolve_ctids.                                            *)
(***************************************************************************)
EXTENDS Integers, Sequences, SequencesExt

CONSTANTS
    NoSegment,   \* InvalidBlockNumber: larger than every segment's root block
    NoCtid       \* an invalid item pointer

MemtableEntry(ctid, score) == [score |-> score, ctid |-> ctid, seg |-> NoSegment, doc |-> 0]
SegmentEntry(seg, doc, score) == [score |-> score, ctid |-> NoCtid, seg |-> seg, doc |-> doc]

(* heap_less: x is weaker than y and belongs closer to the root. *)
heap_less(x, y) ==
    \/ x.score < y.score
    \/ /\ x.score = y.score
       /\ IF x.ctid # NoCtid /\ y.ctid # NoCtid THEN x.ctid > y.ctid
          ELSE x.doc > y.doc \/ (x.doc = y.doc /\ x.seg > y.seg)

heap_swap(h, i, j) == [h EXCEPT ![i] = h[j], ![j] = h[i]]

(* The two sift loops, one iteration per value of n: step[n] is the heap and the
   position after n iterations; a finished loop stays where it is. *)
heap_sift_up(h, i) ==
    LET step[n \in 0 .. Len(h)] ==
            IF n = 0 THEN <<h, i>>
            ELSE LET g == step[n - 1][1]
                     p == step[n - 1][2]
                 IN  IF p > 1 /\ heap_less(g[p], g[p \div 2])
                     THEN <<heap_swap(g, p, p \div 2), p \div 2>> ELSE <<g, p>>
    IN  step[Len(h)][1]

heap_sift_down(h, i) ==
    LET weaker(g, a, b) == IF a <= Len(g) /\ heap_less(g[a], g[b]) THEN a ELSE b
        smallest(g, p) == weaker(g, 2 * p + 1, weaker(g, 2 * p, p))
        step[n \in 0 .. Len(h)] ==
            IF n = 0 THEN <<h, i>>
            ELSE LET g == step[n - 1][1]
                     p == step[n - 1][2]
                 IN  <<heap_swap(g, p, smallest(g, p)), smallest(g, p)>>
    IN  step[Len(h)][1]

(* The lowest score that can still enter: 0 until the heap is full. *)
tp_topk_threshold(h, k) == IF Len(h) >= k THEN h[1].score ELSE 0

tp_topk_dominated(h, k, score) == Len(h) >= k /\ score < h[1].score

(* Equal scores: two known ctids or two doc ids can be compared, a memtable result
   and a segment result cannot, and then the root stays. *)
heap_beats_root(h, e) ==
    \/ e.score > h[1].score
    \/ /\ e.score = h[1].score
       /\ \/ e.ctid # NoCtid /\ h[1].ctid # NoCtid /\ e.ctid < h[1].ctid
          \/ e.ctid = NoCtid /\ h[1].ctid = NoCtid /\ e.doc < h[1].doc

(* tp_topk_add_memtable and tp_topk_add_segment differ only in the entry they store. *)
tp_topk_add(h, k, e) ==
    IF Len(h) < k THEN heap_sift_up(Append(h, e), Len(h) + 1)
    ELSE IF heap_beats_root(h, e) THEN heap_sift_down([h EXCEPT ![1] = e], 1)
    ELSE h

(* lookup[seg][doc + 1] is the ctid that the segment's document map stores. *)
tp_topk_resolve_ctids(h, lookup) ==
    [i \in DOMAIN h |->
        IF h[i].seg = NoSegment THEN h[i]
        ELSE [h[i] EXCEPT !.ctid = lookup[h[i].seg][h[i].doc + 1], !.seg = NoSegment]]

compare_heap_entries(x, y) == x.score > y.score \/ (x.score = y.score /\ x.ctid < y.ctid)

(* What qsort may make of an array: any rearrangement that is in order. *)
arrangements(s) == {[j \in DOMAIN s |-> s[f[j]]] : f \in {g \in [DOMAIN s -> DOMAIN s] : IsInjective(g)}}

(* The results in output order. *)
tp_topk_extract(h) ==
    {s \in arrangements(h) : \A a, b \in DOMAIN s : a < b => ~compare_heap_entries(s[b], s[a])}
=============================================================================
