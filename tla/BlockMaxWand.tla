---------------------------- MODULE BlockMaxWand ----------------------------
(***************************************************************************)
(* One top-k query: src/src/query/bmw.c over the posting iterators of      *)
(* src/src/segment/scan.c.  The memtable is scored exhaustively, then      *)
(* every segment is scored with Block-Max WAND, which skips the documents  *)
(* and blocks whose upper bound cannot beat the k-th best score so far.    *)
(*                                                                         *)
(* A query runs in one backend under the index lock, so nothing            *)
(* interleaves with it: what can go wrong is the skipping.  A step of the  *)
(* specification is one step of the loop of score_segment_multi_term_bmw   *)
(* (or one block of the single-term loop).                                 *)
(***************************************************************************)
EXTENDS SegmentFormat, TopKHeap

CONSTANT Queries   \* the queries asked: [mem, docs, tenants, terms, k, tenant]
(* mem: set of memtable documents; docs: the documents of each segment, in the order the
   level chains are walked; tenants: whether the index keeps tenant data; terms: sequence
   of [term, idf, query_freq], one per distinct query term; k: the LIMIT; tenant: the
   tenant filter, 0 for none. *)

(* What the index guarantees of the documents a query meets: a row is indexed once (its ctid
   is a valid one and stored in one place), every length is in the reach of the length
   table, a segment has fewer documents than there are doc ids, and without a tenant column
   every row has tenant 0. *)
StoredOK(c) ==
    /\ c.mem \subseteq Document /\ IsFiniteSet(c.mem)
    /\ c.docs \in Seq(SUBSET Document) /\ Len(c.docs) < NoSegment
    /\ \A n \in DOMAIN c.docs : IsFiniteSet(c.docs[n]) /\ Cardinality(c.docs[n]) < UINT32_MAX
    /\ \A d \in c.mem : d.ctid # NoCtid
    /\ \A d, e \in c.mem : d.ctid = e.ctid => d = e
    /\ \A m, n \in DOMAIN c.docs : \A d \in c.docs[m], e \in c.docs[n] : d.ctid = e.ctid => m = n /\ d = e
    /\ \A n \in DOMAIN c.docs : \A d \in c.docs[n] :
         /\ \A e \in c.mem : d.ctid # e.ctid
         /\ FieldNormTable[1] <= d.len
         /\ c.tenants \/ d.tenant = 0

QueryOK(c) ==
    /\ c.terms \in Seq([term : Term, idf : Nat, query_freq : Nat \ {0}]) /\ c.terms # << >>
    /\ c.k \in Nat \ {0} /\ c.tenant \in Nat /\ c.tenants \in BOOLEAN

ASSUME LimitsAssumption == NoSegment \in Nat /\ NoCtid \in Nat
ASSUME QueriesAssumption == \A c \in Queries : StoredOK(c) /\ QueryOK(c)

VARIABLES
    query,    \* the query being run, with its segments: [mem, segs, terms, k, tenant]
    todo,     \* matching memtable documents not scored yet
    heap,     \* TpTopKHeap
    si,       \* number of the segment being scored
    lo, hi,   \* doc-id range of the tenant in it (min_doc_id, max_doc_id)
    block,    \* single-term loop: the current block
    terms,    \* multi-term loop: the term states, in the order of their doc ids
    active,   \* active_count
    pivot,    \* [len, doc] of the current iteration
    i,        \* position in the block, or in the loop over the pivot terms
    pc,
    result    \* what tp_topk_extract returned

vars == <<query, todo, heap, si, lo, hi, block, terms, active, pivot, i, pc, result>>

-----------------------------------------------------------------------------
(* Scores.  The shape of BM25 in integers: proportional to idf, growing and saturating
   with the term frequency, falling with the document length. *)
compute_bm25_score(idf, tf, len) == (idf * 12 * tf) \div (tf + len)

(* The bound of a block: the score of a document with its largest frequency and the
   length stored for it. *)
tp_compute_block_max_score(skip, idf) ==
    compute_bm25_score(idf, skip.block_max_tf, decode_fieldnorm(skip.block_max_norm))

(* A matching term scores above 0 (the logarithm of the idf is positive in the code; the
   integers here must not round it away). *)
ASSUME ScoresAssumption ==
    \A c \in Queries : \A q \in DOMAIN c.terms :
        LET positive(d, len) == d.tf[c.terms[q].term] > 0
                => compute_bm25_score(c.terms[q].idf, d.tf[c.terms[q].term], len) > 0
        IN  /\ \A d \in c.mem : positive(d, d.len)
            /\ \A n \in DOMAIN c.docs : \A d \in c.docs[n] :
                   positive(d, decode_fieldnorm(encode_fieldnorm(d.len)))

seg == query.segs[si]
nterms == Len(query.terms)
threshold == tp_topk_threshold(heap, query.k)

-----------------------------------------------------------------------------
(* Iterators.  A term state is [q, found, blk, pos, fin]: q numbers the query term,
   blk and pos the current block and the place in it, both from 0. *)

list(ts) == seg.post[query.terms[ts.q].term]
skip(ts) == seg.skip[query.terms[ts.q].term]
nblocks(ts) == Len(skip(ts))

current_posting(ts) == Block(list(ts), ts.blk)[ts.pos + 1]

term_current_doc_id(ts) ==
    IF ~ts.found \/ ts.fin THEN UINT32_MAX ELSE current_posting(ts).doc

tp_segment_posting_iterator_init(q) ==
    [q |-> q, found |-> has_term(seg, query.terms[q].term), blk |-> 0, pos |-> 0,
     fin |-> ~has_term(seg, query.terms[q].term)]

block_max(ts, b) ==
    tp_compute_block_max_score(skip(ts)[b + 1], query.terms[ts.q].idf)

(* The largest bound over all blocks of a term, for pivot selection. *)
max_score(ts) ==
    IF ~ts.found THEN 0
    ELSE Max({block_max(ts, b) : b \in 0 .. nblocks(ts) - 1}) * query.terms[ts.q].query_freq

advance_term_iterator(ts) ==
    IF ts.pos + 1 < skip(ts)[ts.blk + 1].doc_count THEN [ts EXCEPT !.pos = @ + 1]
    ELSE IF ts.blk + 1 < nblocks(ts) THEN [ts EXCEPT !.blk = @ + 1, !.pos = 0]
    ELSE [ts EXCEPT !.blk = @ + 1, !.fin = TRUE]

(* Linear scan of block b from a place on; failing that, the start of the next block. *)
scan_block(ts, b, from, target) ==
    LET hits == {p \in from .. skip(ts)[b + 1].doc_count - 1 : Block(list(ts), b)[p + 1].doc >= target}
    IN  IF hits # {} THEN [ts EXCEPT !.blk = b, !.pos = Min(hits)]
        ELSE IF b + 1 < nblocks(ts) THEN [ts EXCEPT !.blk = b + 1, !.pos = 0]
        ELSE [ts EXCEPT !.blk = b + 1, !.fin = TRUE]

(* Seek to the first document at or after the target.  Beyond the current block the
   binary search over the cached last doc ids ends at the first block that reaches the
   target, or at the last block when none does. *)
seek_term_to_doc(ts, target) ==
    LET later == ts.blk + 1 .. nblocks(ts) - 1
        target_block == Min({nblocks(ts) - 1} \cup {b \in later : skip(ts)[b + 1].last_doc_id >= target})
    IN  IF ~ts.found \/ ts.fin THEN ts
        ELSE IF target <= skip(ts)[ts.blk + 1].last_doc_id THEN scan_block(ts, ts.blk, ts.pos, target)
        ELSE IF later = {} THEN [ts EXCEPT !.fin = TRUE]
        ELSE scan_block(ts, target_block, 0, target)

(* qsort by current doc id; the order of equal terms is unspecified. *)
sorted_by_doc_id(s) ==
    \A a, b \in DOMAIN s : a < b => term_current_doc_id(s[a]) <= term_current_doc_id(s[b])

sort_terms_by_doc_id(s) == {t \in arrangements(s) : sorted_by_doc_id(t)}

(* Mutant: the term stays where it is. *)
restore_orderingStay(s, ord) == s

(* Move the term at ord right, in front of the first term that is not before it. *)
restore_ordering(s, ord) ==
    LET stop == Min({Len(s) + 1} \cup
                    {j \in ord + 1 .. Len(s) : term_current_doc_id(s[j]) >= term_current_doc_id(s[ord])})
    IN  [j \in DOMAIN s |->
            CASE j < ord \/ j >= stop -> s[j]
              [] j = stop - 1 -> s[ord]
              [] OTHER -> s[j + 1]]

(* active_count drops when the term just moved ran out. *)
drop(ts) == IF ts.fin THEN 1 ELSE 0

-----------------------------------------------------------------------------
(* The memtable: every matching posting is scored with the exact document length. *)

tenant_match(d) == query.tenant = 0 \/ d.tenant = query.tenant

(* The single-term path leaves the query frequency, a common factor of all scores, out. *)
query_freq(q) == IF nterms = 1 THEN 1 ELSE query.terms[q].query_freq

(* tf[t] is how often t occurs in the document. *)
doc_score(tf, len) ==
    Total([q \in 1 .. nterms |->
              LET n == tf[query.terms[q].term]
              IN  IF n = 0 THEN 0 ELSE compute_bm25_score(query.terms[q].idf, n, len) * query_freq(q)])

mem_matches ==
    {d \in query.mem : tenant_match(d) /\ \E q \in 1 .. nterms : d.tf[query.terms[q].term] > 0}

mem_score(d) == doc_score(d.tf, d.len)

(* score_memtable_single_term, score_memtable_multi_term: one document at a time, in the
   order of the posting list or of the hash table. *)
ScoreMemtableDoc ==
    /\ pc = "memtable"
    /\ \E d \in todo :
         /\ heap' = IF tp_topk_dominated(heap, query.k, mem_score(d)) THEN heap
                    ELSE tp_topk_add(heap, query.k, MemtableEntry(d.ctid, mem_score(d)))
         /\ todo' = todo \ {d}
    /\ UNCHANGED <<query, si, lo, hi, block, terms, active, pivot, i, pc, result>>

MemtableDone ==
    /\ pc = "memtable" /\ todo = {}
    /\ pc' = "segment"
    /\ UNCHANGED <<query, todo, heap, si, lo, hi, block, terms, active, pivot, i, result>>

-----------------------------------------------------------------------------
(* The walk over the segments. *)

tenant_range ==
    IF query.tenant # 0 /\ seg.tenant_ordered
    THEN tp_segment_get_tenant_doc_range(seg, query.tenant) ELSE <<0, UINT32_MAX>>

LeaveSegment == si' = si + 1 /\ pc' = "segment"

SkipSegment ==
    /\ pc = "segment" /\ si <= Len(query.segs)
    /\ tenant_range = << >>
    /\ LeaveSegment
    /\ UNCHANGED <<query, todo, heap, lo, hi, block, terms, active, pivot, i, result>>

OpenSingle ==
    /\ pc = "segment" /\ si <= Len(query.segs)
    /\ nterms = 1 /\ tenant_range # << >>
    /\ IF has_term(seg, query.terms[1].term)
       THEN /\ lo' = tenant_range[1] /\ hi' = tenant_range[2]
            /\ block' = 0 /\ pc' = "block"
            /\ UNCHANGED si
       ELSE LeaveSegment /\ UNCHANGED <<lo, hi, block>>
    /\ UNCHANGED <<query, todo, heap, terms, active, pivot, i, result>>

(* init_segment_term_states, the first sort, the seek to the tenant's range and the
   second sort. *)
OpenMulti ==
    LET fresh == [q \in 1 .. nterms |-> tp_segment_posting_iterator_init(q)]
        first == tenant_range[1]
        moved(s) == [j \in DOMAIN s |->
                       IF first > 0 /\ term_current_doc_id(s[j]) < first
                       THEN seek_term_to_doc(s[j], first) ELSE s[j]]
        found == {q \in 1 .. nterms : fresh[q].found}
    IN  /\ pc = "segment" /\ si <= Len(query.segs)
        /\ nterms > 1 /\ tenant_range # << >>
        /\ IF found = {}
           THEN LeaveSegment /\ UNCHANGED <<lo, hi, terms, active>>
           ELSE /\ lo' = first /\ hi' = tenant_range[2]
                /\ \E s \in sort_terms_by_doc_id(fresh) : terms' \in sort_terms_by_doc_id(moved(s))
                /\ active' = Cardinality({q \in found : ~moved(fresh)[q].fin})
                /\ pc' = "pivot"
                /\ UNCHANGED si
        /\ UNCHANGED <<query, todo, heap, block, pivot, i, result>>

-----------------------------------------------------------------------------
(* Single term: block by block. *)

(* A block of one other tenant: the 16 bits differ. *)
wrong_tenant_block(entry) ==
    query.tenant # 0 /\ entry.mode = "single" /\ entry.low16 # query.tenant % 65536

skip_block(entry) ==
    \/ entry.last_doc_id < lo
    \/ tp_compute_block_max_score(entry, query.terms[1].idf) < threshold
    \/ wrong_tenant_block(entry)

(* Per-document tenant check, only where no tenant range applies. *)
tenant_rejects(id) ==
    query.tenant # 0 /\ hi = UINT32_MAX /\ tp_segment_get_tenant_id(seg, id) # query.tenant

posting_score(q, p) ==
    compute_bm25_score(query.terms[q].idf, p.frequency, decode_fieldnorm(p.norm))

single_term == query.terms[1].term

SkipBlock ==
    /\ pc = "block" /\ block < block_count(seg, single_term)
    /\ skip_block(seg.skip[single_term][block + 1])
    /\ block' = block + 1
    /\ UNCHANGED <<query, todo, heap, si, lo, hi, terms, active, pivot, i, pc, result>>

LoadBlock ==
    /\ pc = "block" /\ block < block_count(seg, single_term)
    /\ ~skip_block(seg.skip[single_term][block + 1])
    /\ i' = 1 /\ pc' = "posting"
    /\ UNCHANGED <<query, todo, heap, si, lo, hi, block, terms, active, pivot, result>>

(* One posting of the block; past the tenant's range the rest of the block is left. *)
ScorePosting ==
    LET b == Block(seg.post[single_term], block)
        p == b[i]
        score == posting_score(1, p)
    IN  /\ pc = "posting"
        /\ IF i > Len(b) \/ p.doc > hi
           THEN block' = block + 1 /\ pc' = "block" /\ UNCHANGED <<heap, i>>
           ELSE /\ heap' = IF \/ p.doc < lo \/ tenant_rejects(p.doc)
                             \/ tp_topk_dominated(heap, query.k, score) THEN heap
                           ELSE tp_topk_add(heap, query.k, SegmentEntry(si, p.doc, score))
                /\ i' = i + 1
                /\ UNCHANGED <<block, pc>>
        /\ UNCHANGED <<query, todo, si, lo, hi, terms, active, pivot, result>>

SingleDone ==
    /\ pc = "block" /\ block >= block_count(seg, query.terms[1].term)
    /\ LeaveSegment
    /\ UNCHANGED <<query, todo, heap, lo, hi, block, terms, active, pivot, i, result>>

-----------------------------------------------------------------------------
(* Several terms: the WAND loop. *)

(* Accumulated bound of the first n terms; exhausted terms end the walk. *)
accumulated(n) == Total([j \in 1 .. n |-> max_score(terms[j])])

pivot_terms ==
    {n \in 1 .. nterms : /\ \A j \in 1 .. n : term_current_doc_id(terms[j]) # UINT32_MAX
                         /\ accumulated(n) > threshold}

(* The pivot is the first term whose prefix can beat the threshold, together with the
   terms behind it on the same document. *)
find_wand_pivot ==
    LET doc == term_current_doc_id(terms[Min(pivot_terms)])
    IN  [len |-> Min({nterms} \cup {n \in Min(pivot_terms) .. nterms - 1 :
                                        term_current_doc_id(terms[n + 1]) # doc}),
         doc |-> doc]

pivot_found == active > 0 /\ pivot_terms # {} /\ find_wand_pivot.doc <= hi

EndWand ==
    /\ pc = "pivot" /\ ~pivot_found
    /\ LeaveSegment
    /\ UNCHANGED <<query, todo, heap, lo, hi, block, terms, active, pivot, i, result>>

FindPivot ==
    /\ pc = "pivot" /\ pivot_found
    /\ pivot' = find_wand_pivot
    /\ i' = 1 /\ pc' = "seek"
    /\ UNCHANGED <<query, todo, heap, si, lo, hi, block, terms, active, result>>

(* One iteration of seek_to_pivot.  A term that was moved gives its place to another
   one, which is looked at next. *)
SeekTerm ==
    LET ts == terms[i]
        moved == seek_term_to_doc(ts, pivot.doc)
    IN  /\ pc = "seek" /\ i <= pivot.len
        /\ IF term_current_doc_id(ts) = UINT32_MAX
           THEN active' = active - 1 /\ pc' = "pivot" /\ UNCHANGED <<terms, i>>
           ELSE IF term_current_doc_id(ts) < pivot.doc
           THEN /\ terms' = restore_ordering([terms EXCEPT ![i] = moved], i)
                /\ active' = active - drop(moved)
                /\ pc' = IF moved.fin THEN "pivot" ELSE "seek"
                /\ UNCHANGED i
           ELSE i' = i + 1 /\ UNCHANGED <<terms, active, pc>>
        /\ UNCHANGED <<query, todo, heap, si, lo, hi, block, pivot, result>>

(* compute_block_max_at_pivot *)
block_upper ==
    Total([j \in 1 .. pivot.len |->
              IF terms[j].fin THEN 0
              ELSE block_max(terms[j], terms[j].blk) * query.terms[terms[j].q].query_freq])

Seeked == pc = "seek" /\ i > pivot.len

(* Move term j to the target document. *)
seek_and_reorder(j, target) ==
    LET moved == seek_term_to_doc(terms[j], target)
    IN  /\ terms' = restore_ordering([terms EXCEPT ![j] = moved], j)
        /\ active' = active - drop(moved)

live_pivot_terms == {j \in 1 .. pivot.len : term_current_doc_id(terms[j]) # UINT32_MAX}

best_scorer ==
    Min({j \in live_pivot_terms : \A n \in live_pivot_terms : max_score(terms[n]) <= max_score(terms[j])})

min_block_end == Min({skip(terms[j])[terms[j].blk + 1].last_doc_id : j \in live_pivot_terms})

first_other_doc == IF pivot.len < nterms THEN term_current_doc_id(terms[pivot.len + 1]) ELSE UINT32_MAX

(* Mutants: the cap is forgotten; the target is the end of the block, not the next
   document. *)
block_max_skip_advanceUncapped == seek_and_reorder(best_scorer, min_block_end + 1)

block_max_skip_advanceInclusive == seek_and_reorder(best_scorer, Min({min_block_end, first_other_doc}))

(* The bound of the current blocks is not above the threshold, so the best scorer is moved
   behind the first of them to end, but not past the first term that took no part. *)
block_max_skip_advance == seek_and_reorder(best_scorer, Min({min_block_end + 1, first_other_doc}))

SkipBlocks ==
    /\ Seeked /\ block_upper <= threshold
    /\ block_max_skip_advance
    /\ pc' = "pivot"
    /\ UNCHANGED <<query, todo, heap, si, lo, hi, block, pivot, i, result>>

(* verify_pivot_alignment *)
aligned == \A j \in 1 .. pivot.len : term_current_doc_id(terms[j]) = pivot.doc

Realign ==
    /\ Seeked /\ block_upper > threshold /\ ~aligned
    /\ pc' = "pivot"
    /\ UNCHANGED <<query, todo, heap, si, lo, hi, block, terms, active, pivot, i, result>>

WrongTenant ==
    /\ Seeked /\ block_upper > threshold /\ aligned /\ tenant_rejects(pivot.doc)
    /\ i' = pivot.len /\ pc' = "reject"
    /\ UNCHANGED <<query, todo, heap, si, lo, hi, block, terms, active, pivot, result>>

score_pivot_document ==
    Total([j \in 1 .. pivot.len |->
              posting_score(terms[j].q, current_posting(terms[j])) * query.terms[terms[j].q].query_freq])

ScorePivot ==
    /\ Seeked /\ block_upper > threshold /\ aligned /\ ~tenant_rejects(pivot.doc)
    /\ heap' = IF score_pivot_document > 0 /\ ~tp_topk_dominated(heap, query.k, score_pivot_document)
               THEN tp_topk_add(heap, query.k, SegmentEntry(si, pivot.doc, score_pivot_document))
               ELSE heap
    /\ i' = pivot.len /\ pc' = "advance"
    /\ UNCHANGED <<query, todo, si, lo, hi, block, terms, active, pivot, result>>

(* The two loops that leave the pivot document, from the last pivot term down. *)
MoveTerm(moved) ==
    /\ i >= 1
    /\ IF term_current_doc_id(terms[i]) = pivot.doc
       THEN /\ terms' = restore_ordering([terms EXCEPT ![i] = moved], i)
            /\ active' = active - drop(moved)
       ELSE UNCHANGED <<terms, active>>
    /\ i' = i - 1
    /\ UNCHANGED <<query, todo, heap, si, lo, hi, block, pivot, pc, result>>

AdvanceTerm == pc = "advance" /\ MoveTerm(advance_term_iterator(terms[i]))

(* A block that holds one other tenant is left as a whole. *)
RejectTerm ==
    LET ts == terms[i]
        entry == skip(ts)[ts.blk + 1]
    IN  /\ pc = "reject"
        /\ MoveTerm(IF wrong_tenant_block(entry) THEN seek_term_to_doc(ts, entry.last_doc_id + 1)
                    ELSE advance_term_iterator(ts))

LoopAgain ==
    /\ pc \in {"advance", "reject"} /\ i = 0
    /\ pc' = "pivot"
    /\ UNCHANGED <<query, todo, heap, si, lo, hi, block, terms, active, pivot, i, result>>

-----------------------------------------------------------------------------

Extract ==
    LET lookup == [s \in DOMAIN query.segs |-> query.segs[s].ctid]
    IN  /\ pc = "segment" /\ si > Len(query.segs)
        /\ result' \in tp_topk_extract(tp_topk_resolve_ctids(heap, lookup))
        /\ heap' = << >>
        /\ pc' = "done"
        /\ UNCHANGED <<query, todo, si, lo, hi, block, terms, active, pivot, i>>

Done == pc = "done" /\ UNCHANGED vars

Init ==
    /\ \E c \in Queries :
         query = [mem |-> c.mem, terms |-> c.terms, k |-> c.k, tenant |-> c.tenant,
                  segs |-> [n \in DOMAIN c.docs |-> tp_write_segment(c.docs[n], c.tenants, << >>)]]
    /\ todo = mem_matches
    /\ heap = << >> /\ si = 1 /\ lo = 0 /\ hi = UINT32_MAX /\ block = 0
    /\ terms = << >> /\ active = 0 /\ pivot = [len |-> 0, doc |-> 0] /\ i = 0
    /\ pc = "memtable" /\ result = << >>

Wand ==
    \/ EndWand \/ FindPivot \/ SeekTerm \/ SkipBlocks \/ Realign \/ WrongTenant
    \/ ScorePivot \/ AdvanceTerm \/ RejectTerm \/ LoopAgain

Next ==
    \/ ScoreMemtableDoc \/ MemtableDone
    \/ SkipSegment \/ OpenSingle \/ OpenMulti
    \/ SkipBlock \/ LoadBlock \/ ScorePosting \/ SingleDone
    \/ Wand
    \/ Extract \/ Done

(* The backend keeps executing: unless the query is over, the state changes again and
   again.  This is WF_vars(Next) with its ENABLED part, pc # "done", written out. *)
KeepsRunning == []<>(pc = "done") \/ []<><<TRUE>>_vars

Spec == Init /\ [][Next]_vars /\ KeepsRunning

-----------------------------------------------------------------------------
(* What the query is asked for, independently of the skipping. *)

seg_matches(n) ==
    LET g == query.segs[n]
    IN  {d \in 0 .. g.num_docs - 1 :
            /\ query.tenant = 0 \/ g.tenant[d + 1] = query.tenant
            /\ \E q \in 1 .. nterms : /\ has_term(g, query.terms[q].term)
                                      /\ \E p \in Range(g.post[query.terms[q].term]) : p.doc = d}

seg_score(n, d) ==
    LET g == query.segs[n]
        hits(t) == IF has_term(g, t) THEN {p \in Range(g.post[t]) : p.doc = d} ELSE {}
        tf == [t \in Term |-> IF hits(t) = {} THEN 0 ELSE (CHOOSE p \in hits(t) : TRUE).frequency]
    IN  doc_score(tf, decode_fieldnorm(g.norm[d + 1]))

(* Every matching document with the score that the exhaustive sum gives it. *)
Matches ==
    {[seg |-> 0, id |-> d.ctid, score |-> mem_score(d), ctid |-> d.ctid] : d \in mem_matches}
    \cup UNION {{[seg |-> n, id |-> d, score |-> seg_score(n, d),
                  ctid |-> tp_segment_lookup_ctid(query.segs[n], d)] : d \in seg_matches(n)} :
                     n \in 1 .. Len(query.segs)}

(* The assumption that block-max pruning rests on: the bound stored for a block is not
   below the score of any of its postings. *)
BoundsCover ==
    \A n \in 1 .. Len(query.segs), q \in 1 .. nterms :
        LET g == query.segs[n]
            t == query.terms[q].term
        IN  has_term(g, t) =>
              \A b \in 0 .. block_count(g, t) - 1 : \A p \in Range(Block(g.post[t], b)) :
                  posting_score(q, p) <= tp_compute_block_max_score(g.skip[t][b + 1], query.terms[q].idf)

(* The assumption that tenant pruning rests on: a tenant-ordered segment that has no
   range for the tenant has no document of it. *)
RangesCover ==
    \A n \in 1 .. Len(query.segs) :
        LET g == query.segs[n]
        IN  query.tenant # 0 /\ g.tenant_ordered /\ tp_segment_get_tenant_doc_range(g, query.tenant) = << >>
                => \A d \in 1 .. g.num_docs : g.tenant[d] # query.tenant

(* The state has its types, and tp_topk_add never lets the heap hold more than k results. *)
TypeOK ==
    /\ todo \subseteq query.mem /\ Len(heap) <= query.k
    /\ si \in 1 .. Len(query.segs) + 1
    /\ active \in 0 .. nterms /\ i \in 0 .. Max({nterms, TP_BLOCK_SIZE}) + 1 /\ pivot.len \in 0 .. nterms
    /\ pc \in {"memtable", "segment", "block", "posting", "pivot", "seek", "advance", "reject", "done"}

InWand == pc \in {"pivot", "seek", "advance", "reject"}

(* heap_sift_up and heap_sift_down keep the weakest result at the root, whatever mix of
   memtable entries (compared by ctid) and segment entries (compared by doc id) the heap
   holds: the threshold that all pruning uses is the k-th best score. *)
HeapOrdered == \A j \in 2 .. Len(heap) : ~heap_less(heap[j], heap[j \div 2])

(* active_count, which ends the WAND loop, is decremented in five places: it always is
   the number of terms that have a document left, so the loop ends neither with live
   terms nor never. *)
ActiveCountExact ==
    InWand => active = Cardinality({j \in DOMAIN terms : terms[j].found /\ ~terms[j].fin})

(* Pivot selection walks the terms from the lowest doc id on; the single insertion step
   of restore_ordering after every move keeps them sorted. *)
TermsSorted == pc = "pivot" => sorted_by_doc_id(terms)

(* The structures that all pruning relies on stay sound: the heap's threshold is the k-th
   best score so far, the terms are in order, and the count of active ones is right. *)
WandInv == TypeOK /\ HeapOrdered /\ ActiveCountExact /\ TermsSorted

(* Every matching document of the segment that some of its terms has left behind either
   is in the heap or does not score above the threshold: pivots, block skips and seeks
   lose no winner. *)
SkippedCannotWin ==
    (pc = "pivot" /\ BoundsCover) =>
        \A d \in {x \in seg_matches(si) : lo <= x /\ x <= hi} :
            \/ seg_score(si, d) <= threshold
            \/ \E j \in DOMAIN heap : heap[j].seg = si /\ heap[j].doc = d
            \/ \A j \in DOMAIN terms :
                 terms[j].found /\ (\E p \in Range(list(terms[j])) : p.doc = d)
                     => term_current_doc_id(terms[j]) <= d

(* The results are the k best scores of the exhaustive evaluation, in descending order
   (which of several documents with the k-th score are returned is left open). *)
TopKScores ==
    pc = "done" =>
        /\ \A j \in 1 .. Len(result) - 1 : result[j].score >= result[j + 1].score
        /\ Len(result) = Min({query.k, Cardinality(Matches)})
        /\ \A m \in Matches :
             LET better(S) == Cardinality({x \in S : x.score >= m.score})
             IN  Cardinality({j \in DOMAIN result : result[j].score >= m.score})
                     = Min({query.k, better(Matches)})

(* Where the stored block bounds are bounds and the stored tenant ranges complete, WAND
   loses no result: pruning over memtable and segments returns what the exhaustive
   evaluation does. *)
TopKScoresIfBounded == (pc = "done" /\ BoundsCover /\ RangesCover) => TopKScores

(* The comment at the range lookup, "Tenant has no docs in this segment": a segment is only
   skipped when no document of it matches. *)
SkippedHasNoDocs ==
    pc = "segment" /\ si <= Len(query.segs) /\ tenant_range = << >> => seg_matches(si) = {}

(* Every row returned is a matching document of the right tenant with its full score,
   and no row is returned twice. *)
ResultsSound ==
    (pc = "done" /\ BoundsCover) =>
        /\ \A j \in DOMAIN result : \E m \in Matches : m.ctid = result[j].ctid /\ m.score = result[j].score
        /\ \A j, n \in DOMAIN result : j # n => result[j].ctid # result[n].ctid

(* Where the stored block bounds and tenant ranges can be relied on, the answer of a query
   is exact. *)
ResultsExact == TopKScoresIfBounded /\ ResultsSound

(* The loops end: each round of the WAND loop moves a term or scores a document. *)
QueryEnds == <>(pc = "done")
=============================================================================
