---------------------------- MODULE SegmentMerge ----------------------------
(***************************************************************************)
(* tp_merge_level_segments: the segments of one level are merged into one  *)
(* segment of the next level.  The dictionaries are merged term by term;   *)
(* then the document map of the union is built, and the posting list of    *)
(* every term is collected from its sources by an n-way merge, renumbered  *)
(* and written out.  The merged segment becomes the head of the next       *)
(* level, which may be due for a merge itself.                             *)
(*                                                                         *)
(* The merge runs under the index lock: only its own steps are modelled.   *)
(* The metapage update and the freed pages are in SharedIndex and          *)
(* CrashRecovery.                                                          *)
(***************************************************************************)
EXTENDS SegmentFormat

CONSTANTS
    NoSegment,   \* "no segment": InvalidBlockNumber
    Inputs       \* [chain, upper]: the segments of the level and of the next one

(* Terms are compared with strcmp: a term is its rank in that order. *)
ASSUME TermAssumption == Term \subseteq Int

(* A segment that a writer has finished: the sections agree in their sizes, and the postings
   refer to documents of the segment.  (Postings of one document may be repeated, and need
   not have its norm: that is what a merge leaves of a reused CTID.) *)
Readable(s) ==
    /\ s.num_docs \in Nat /\ s.has_tenant_data \in BOOLEAN
    /\ s.ctid \in [1 .. s.num_docs -> Nat] /\ IsInjective(s.ctid)
    /\ s.norm \in [1 .. s.num_docs -> DOMAIN FieldNormTable]
    /\ s.tenant \in [1 .. s.num_docs -> Nat]
    /\ DOMAIN s.post \subseteq Term /\ IsFiniteSet(DOMAIN s.post) /\ DOMAIN s.post # {}
    /\ \A t \in DOMAIN s.post :
         /\ s.post[t] # << >> /\ s.doc_freq[t] = Len(s.post[t])
         /\ s.post[t] \in Seq([doc : 0 .. s.num_docs - 1, frequency : Nat \ {0}, norm : DOMAIN FieldNormTable])
         /\ Len(s.skip[t]) = num_blocks(s.post[t])
         /\ \A b \in 1 .. Len(s.skip[t]) : s.skip[t][b].doc_count = Len(Block(s.post[t], b - 1))

ASSUME InputsAssumption ==
    \A in \in Inputs :
        /\ in.chain \in Seq(Range(in.chain)) /\ in.chain # << >> /\ \A i \in DOMAIN in.chain : Readable(in.chain[i])
        /\ in.upper \in Seq(Range(in.upper)) /\ \A i \in DOMAIN in.upper : Readable(in.upper[i])

VARIABLES
    pc,            \* open, terms, collect, sections, link, done
    chain,         \* the level's segments, newest (the head) first
    upper,         \* the segments of the next level, newest first
    opened,        \* how many segments of the chain were opened
    sources,       \* the merge sources: [reader, current_idx]
    merged_terms,  \* [term, segment_refs]
    docmap,        \* the finalized document map
    psources,      \* posting sources of the term being written
    postings,      \* the postings collected for it
    written,       \* the posting lists written so far
    merged         \* the merged segment

vars == <<pc, chain, upper, opened, sources, merged_terms, docmap, psources, postings,
          written, merged>>

-----------------------------------------------------------------------------
(* Dictionary merge. *)

(* The dictionary of a segment is sorted. *)
dictionary(seg) == Sorted(DOMAIN seg.post, <)

exhausted(source) == source.current_idx > Len(dictionary(source.reader))

merge_read_term_at_index(source) == dictionary(source.reader)[source.current_idx]

merge_source_advance(source) == [source EXCEPT !.current_idx = @ + 1]

(* No writer produces a segment without a term, so every segment becomes a source. *)
merge_source_init(seg) == [reader |-> seg, current_idx |-> 1]

live_sources == {i \in DOMAIN sources : ~exhausted(sources[i])}

merge_find_min_source ==
    CHOOSE i \in live_sources :
        \A j \in live_sources :
            \/ merge_read_term_at_index(sources[i]) < merge_read_term_at_index(sources[j])
            \/ /\ merge_read_term_at_index(sources[i]) = merge_read_term_at_index(sources[j])
               /\ i <= j

-----------------------------------------------------------------------------
(* Document map. *)

(* The entry of a source document; the length is the decoded norm. *)
docmap_entry(seg, j) ==
    [ctid |-> seg.ctid[j], tenant |-> tp_segment_get_tenant_id(seg, j - 1), len |-> decode_fieldnorm(seg.norm[j])]

(* Mutant: a later source overwrites the entry. *)
tp_docmap_addLast(srcs) ==
    LET added(i) == {j \in 1 .. srcs[i].reader.num_docs :
                       \A h \in i + 1 .. Len(srcs) : srcs[i].reader.ctid[j] \notin Range(srcs[h].reader.ctid)}
    IN  UNION {{docmap_entry(srcs[i].reader, j) : j \in added(i)} : i \in DOMAIN srcs}

(* The documents of the sources.  A CTID that an earlier source of the chain holds keeps
   that source's length and tenant (tp_docmap_add). *)
tp_docmap_add(srcs) ==
    LET added(i) == {j \in 1 .. srcs[i].reader.num_docs :
                       \A h \in 1 .. i - 1 : srcs[i].reader.ctid[j] \notin Range(srcs[h].reader.ctid)}
    IN  UNION {{docmap_entry(srcs[i].reader, j) : j \in added(i)} : i \in DOMAIN srcs}

build_merged_docmap(srcs) == tp_docmap_finalize(tp_docmap_add(srcs))

tp_docmap_lookup(map, ctid) == CHOOSE id \in 0 .. Len(map.docs) - 1 : map.docs[id + 1].ctid = ctid

(* Mutant: the mapping is taken before finalize, when ids are in the order of addition. *)
old_to_newUnsorted(map, srcs, i, old_doc_id) ==
    LET c == srcs[i].reader.ctid[old_doc_id + 1]
        h == Min({g \in DOMAIN srcs : c \in Range(srcs[g].reader.ctid)})
        seen == UNION {Range(srcs[g].reader.ctid) : g \in 1 .. h - 1}
        ctids == srcs[h].reader.ctid
        o == CHOOSE o \in DOMAIN ctids : ctids[o] = c
    IN  Cardinality(seen) + Cardinality({n \in 1 .. o - 1 : ctids[n] \notin seen})

(* mapping->old_to_new[i][old_doc_id]: the finalized id of a source document. *)
old_to_new(map, srcs, i, old_doc_id) ==
    tp_docmap_lookup(map, srcs[i].reader.ctid[old_doc_id + 1])

-----------------------------------------------------------------------------
(* Posting merge. *)

(* A posting source: the position in the term's blocks of one segment. *)
posting_source_init(i, t) == [source |-> i, term |-> t, block |-> 0, in_block |-> 0]

reader(ps) == sources[ps.source].reader

posting_exhausted(ps) == ps.block >= block_count(reader(ps), ps.term)

posting_source_load_block(ps) == Block(reader(ps).post[ps.term], ps.block)

(* The current posting with the CTID of its document and its tenant. *)
posting_source_convert_current(ps) ==
    LET bp == posting_source_load_block(ps)[ps.in_block + 1]
    IN  [source_idx |-> ps.source, old_doc_id |-> bp.doc,
         ctid |-> tp_segment_lookup_ctid(reader(ps), bp.doc),
         frequency |-> bp.frequency, fieldnorm |-> bp.norm,
         tenant_id |-> tp_segment_get_tenant_id(reader(ps), bp.doc)]

(* Mutant: the position is not reset when the next block is loaded. *)
posting_source_advanceStale(ps) ==
    IF ps.in_block + 1 < reader(ps).skip[ps.term][ps.block + 1].doc_count
    THEN [ps EXCEPT !.in_block = @ + 1]
    ELSE [ps EXCEPT !.block = @ + 1]

posting_source_advance(ps) ==
    IF ps.in_block + 1 < reader(ps).skip[ps.term][ps.block + 1].doc_count
    THEN [ps EXCEPT !.in_block = @ + 1]
    ELSE [ps EXCEPT !.block = @ + 1, !.in_block = 0]

live_psources == {p \in DOMAIN psources : ~posting_exhausted(psources[p])}

(* The source whose current CTID is smallest; the first one among equals.  In a
   tenant-ordered segment the CTIDs of a list are not ascending. *)
find_min_posting_source ==
    LET ctid(p) == posting_source_convert_current(psources[p]).ctid
    IN  CHOOSE p \in live_psources :
            \A q \in live_psources : ctid(p) < ctid(q) \/ (ctid(p) = ctid(q) /\ p <= q)

(* The term being written, and the posting sources of a term. *)
current_merged == merged_terms[Len(written) + 1]
sources_of(mt) == [r \in DOMAIN mt.segment_refs |-> posting_source_init(mt.segment_refs[r], mt.term)]

(* The collected postings under their new ids. *)
block_postings(map, collected) ==
    [n \in DOMAIN collected |->
        BlockPosting(old_to_new(map, sources, collected[n].source_idx, collected[n].old_doc_id),
                     collected[n].frequency, collected[n].fieldnorm)]

(* What qsort may make of them: the order of two postings with one id is left open. *)
sorted_postings(list) ==
    {[n \in DOMAIN list |-> list[f[n]]] :
        f \in {g \in Injection(DOMAIN list, DOMAIN list) :
                 \A a, b \in DOMAIN list : a < b => ~cmp_block_posting_by_doc_id(list[g[b]], list[g[a]])}}

-----------------------------------------------------------------------------
(* Tenant sections. *)

any_tenant == \E i \in DOMAIN sources : sources[i].reader.has_tenant_data

(* The sources' stored counts are added up, tenant by tenant. *)
merged_tenant_stats ==
    LET stats(i) == IF sources[i].reader.has_tenant_data THEN sources[i].reader.tenant_stats ELSE << >>
        tids == UNION {DOMAIN stats(i) : i \in DOMAIN sources}
    IN  [x \in tids |->
           Total([i \in DOMAIN sources |-> IF x \in DOMAIN stats(i) THEN stats(i)[x] ELSE 0])]

(* Postings of a term per tenant, recounted from the postings of the sources. *)
merged_tdf(w) ==
    LET tid(n) == w.collected[n].tenant_id
    IN  [x \in {tid(n) : n \in DOMAIN w.collected} \ {0} |->
           Cardinality({n \in DOMAIN w.collected : tid(n) = x})]

write_merged_segment ==
    LET lists == [t \in {merged_terms[n].term : n \in DOMAIN merged_terms} |->
                    written[CHOOSE n \in DOMAIN merged_terms : merged_terms[n].term = t].list]
        seg == Segment(docmap, lists, any_tenant,
                       IF any_tenant THEN merged_tenant_stats ELSE << >>)
    IN  IF any_tenant
        THEN [seg EXCEPT !.tenant_df =
                [t \in DOMAIN lists |->
                   merged_tdf(written[CHOOSE n \in DOMAIN merged_terms : merged_terms[n].term = t])]]
        ELSE seg

-----------------------------------------------------------------------------
Init ==
    /\ pc = "open"
    /\ \E in \in Inputs : chain = in.chain /\ upper = in.upper
    /\ opened = 0
    /\ sources = << >> /\ merged_terms = << >> /\ docmap = << >>
    /\ psources = << >> /\ postings = << >> /\ written = << >>
    /\ merged = NoSegment

OpenSource ==
    /\ pc = "open" /\ opened < Len(chain)
    /\ opened' = opened + 1
    /\ sources' = Append(sources, merge_source_init(chain[opened + 1]))
    /\ UNCHANGED <<pc, chain, upper, merged_terms, docmap, psources, postings, written, merged>>

StartMerge ==
    /\ pc = "open" /\ opened = Len(chain)
    /\ pc' = "terms"
    /\ UNCHANGED <<chain, upper, opened, sources, merged_terms, docmap, psources, postings, written, merged>>

(* The smallest term is added with a reference to every source that is at it, and those
   sources move on. *)
MergeTerm ==
    /\ pc = "terms" /\ live_sources # {}
    /\ LET t == merge_read_term_at_index(sources[merge_find_min_source])
           at == {i \in live_sources : merge_read_term_at_index(sources[i]) = t}
       IN  /\ merged_terms' = Append(merged_terms, [term |-> t, segment_refs |-> Sorted(at, <)])
           /\ sources' = [i \in DOMAIN sources |->
                            IF i \in at THEN merge_source_advance(sources[i]) ELSE sources[i]]
    /\ UNCHANGED <<pc, chain, upper, opened, docmap, psources, postings, written, merged>>

BuildDocmap ==
    /\ pc = "terms" /\ live_sources = {}
    /\ pc' = "collect"
    /\ docmap' = build_merged_docmap(sources)
    /\ psources' = sources_of(merged_terms[1])
    /\ UNCHANGED <<chain, upper, opened, sources, merged_terms, postings, written, merged>>

CollectPosting ==
    /\ pc = "collect" /\ live_psources # {}
    /\ LET p == find_min_posting_source
       IN  /\ postings' = Append(postings, posting_source_convert_current(psources[p]))
           /\ psources' = [psources EXCEPT ![p] = posting_source_advance(@)]
    /\ UNCHANGED <<pc, chain, upper, opened, sources, merged_terms, docmap, written, merged>>

(* The term's list is complete: it is renumbered, sorted, and written with its skip entries. *)
WriteTerm ==
    /\ pc = "collect" /\ live_psources = {}
    /\ \E list \in sorted_postings(block_postings(docmap, postings)) :
         written' = Append(written, [list |-> list, collected |-> postings])
    /\ postings' = << >>
    /\ IF Len(written') = Len(merged_terms)
       THEN pc' = "sections" /\ psources' = << >>
       ELSE pc' = pc /\ psources' = sources_of(merged_terms[Len(written') + 1])
    /\ UNCHANGED <<chain, upper, opened, sources, merged_terms, docmap, merged>>

WriteSections ==
    /\ pc = "sections"
    /\ pc' = "link"
    /\ merged' = write_merged_segment
    /\ UNCHANGED <<chain, upper, opened, sources, merged_terms, docmap, psources, postings, written>>

(* Mutant: the merged level is not cleared. *)
LinkMergedUncleared ==
    /\ pc = "link" /\ pc' = "open" /\ opened' = 0
    /\ sources' = << >> /\ merged_terms' = << >> /\ docmap' = << >> /\ written' = << >> /\ merged' = NoSegment
    /\ UNCHANGED <<chain, upper, psources, postings>>

(* The merged segment is put at the head of the next level; when that level has other
   segments and is due as well, it is merged in turn. *)
LinkMerged ==
    /\ pc = "link"
    /\ chain' = <<merged>> \o upper /\ upper' = << >>
    /\ pc' = IF upper = << >> THEN "done" ELSE "open"
    /\ opened' = 0
    /\ sources' = << >> /\ merged_terms' = << >> /\ docmap' = << >> /\ written' = << >>
    /\ UNCHANGED <<psources, postings, merged>>

Done == pc = "done" /\ UNCHANGED vars

Merging ==
    \/ OpenSource \/ StartMerge \/ MergeTerm \/ BuildDocmap
    \/ CollectPosting \/ WriteTerm \/ WriteSections \/ LinkMerged
Next == Merging \/ Done

(* The merge is one backend's call; nothing in it waits. *)
Spec == Init /\ [][Next]_vars /\ WF_vars(Merging)

-----------------------------------------------------------------------------
(* The state has its types, and a posting source that is not exhausted points at a posting
   of the block it has loaded. *)
TypeOK ==
    /\ pc \in {"open", "terms", "collect", "sections", "link", "done"}
    /\ opened \in 0 .. Len(chain)
    /\ \A i \in DOMAIN sources : sources[i].current_idx \in 1 .. Len(dictionary(sources[i].reader)) + 1
    /\ \A n \in DOMAIN merged_terms :
         merged_terms[n].term \in Term /\ Range(merged_terms[n].segment_refs) \subseteq DOMAIN sources
    /\ pc = "collect" => \A p \in DOMAIN psources :
         /\ psources[p].source \in DOMAIN sources /\ psources[p].term = current_merged.term
         /\ p \in live_psources => psources[p].in_block < Len(posting_source_load_block(psources[p]))

(* How often a segment says that a term occurs in its document j. *)
StoredFrequency(s, t, j) ==
    IF ~has_term(s, t) \/ {n \in DOMAIN s.post[t] : s.post[t][n].doc = j - 1} = {} THEN 0
    ELSE s.post[t][CHOOSE n \in DOMAIN s.post[t] : s.post[t][n].doc = j - 1].frequency

(* A document of a segment, rebuilt from the postings; and the documents of several segments. *)
StoredDoc(s, j) ==
    [ctid |-> s.ctid[j], tenant |-> tp_segment_get_tenant_id(s, j - 1),
     len |-> decode_fieldnorm(s.norm[j]), tf |-> [t \in Term |-> StoredFrequency(s, t, j)]]
StoredDocs(segs) == UNION {{StoredDoc(s, j) : j \in 1 .. s.num_docs} : s \in segs}

(* What a merge leaves of a reused CTID: a list with two postings of one document, or a
   posting with the norm of the other row. *)
OneRowEach(s) ==
    \A t \in DOMAIN s.post : \A m, n \in DOMAIN s.post[t] :
        /\ m # n => s.post[t][m].doc # s.post[t][n].doc
        /\ s.post[t][n].norm = s.norm[s.post[t][n].doc + 1]

NoReusedCtid ==
    \A i, j \in DOMAIN chain :
        OneRowEach(chain[i]) /\ (i # j => Range(chain[i].ctid) \cap Range(chain[j].ctid) = {})

(* Merging is the same as spilling all the documents at once: the doc ids, norms, lists,
   skip entries, tenant ranges and per-tenant frequencies of the merged segment are those
   tp_write_segment gives for the union (a CTID in two segments is the case set apart). *)
MergedAsWritten ==
    pc = "link" /\ NoReusedCtid =>
        merged = tp_write_segment(StoredDocs({sources[i].reader : i \in DOMAIN sources}),
                                  any_tenant, merged.tenant_stats)

(* The postings of a term in a segment; a document is told by its CTID. *)
PostingsOf(s, t) ==
    IF has_term(s, t)
    THEN [n \in DOMAIN s.post[t] |->
            <<s.ctid[s.post[t][n].doc + 1], s.post[t][n].frequency, s.post[t][n].norm>>]
    ELSE << >>

Occurrences(list, x) == Cardinality({n \in DOMAIN list : list[n] = x})

(* No posting is lost or taken twice by a merge, also when a heap slot was reused and two
   segments hold its CTID. *)
PostingsConserved ==
    pc = "link" =>
        \A t \in Term :
            \A x \in Range(PostingsOf(merged, t)) \cup UNION {Range(PostingsOf(chain[i], t)) : i \in DOMAIN chain} :
                Occurrences(PostingsOf(merged, t), x)
                  = Total([i \in DOMAIN chain |-> Occurrences(PostingsOf(chain[i], t), x)])

(* Every posting is counted for the tenant of its document. *)
TenantsAgree(s) ==
    \A t \in DOMAIN s.post :
        LET tenant_of == [id \in 0 .. s.num_docs - 1 |-> s.tenant[id + 1]] IN s.tenant_df[t] = tenant_docfreq(tenant_of, s.post[t])

(* A query reads the same document frequencies before and after the merge, overall and for
   every tenant when all the merged segments carry tenant data.  (Once a merge has put the
   postings of two rows on one reused CTID, the next merge counts both for the newer row's
   tenant: a segment with such postings is set apart.) *)
DocFreqKept ==
    pc = "link" =>
        \A t \in Term, x \in UNION {Range(chain[i].tenant) : i \in DOMAIN chain} :
            /\ tp_segment_get_doc_freq(merged, t)
                 = Total([i \in DOMAIN chain |-> tp_segment_get_doc_freq(chain[i], t)])
            /\ (x # 0 /\ \A i \in DOMAIN chain : chain[i].has_tenant_data /\ TenantsAgree(chain[i])) =>
                 tp_batch_get_segment_tenant_doc_freq(merged, t, x)
                   = Total([i \in DOMAIN chain |-> tp_batch_get_segment_tenant_doc_freq(chain[i], t, x)])

(* When two segments hold a CTID, the newer one decides its length and tenant. *)
NewestLengthWins ==
    pc = "link" =>
        \A j \in DOMAIN merged.ctid :
            LET holders == {i \in DOMAIN sources : merged.ctid[j] \in Range(sources[i].reader.ctid)}
                s == sources[Min(holders)].reader
                old == CHOOSE o \in DOMAIN s.ctid : s.ctid[o] = merged.ctid[j]
            IN  /\ merged.norm[j] = s.norm[old]
                /\ tp_segment_get_tenant_id(merged, j - 1) = tp_segment_get_tenant_id(s, old - 1)

(* What a merge conserves whatever its sources hold: the postings, the frequencies that
   queries read, and for a CTID held twice the newer row's length and tenant. *)
MergeConserves == PostingsConserved /\ DocFreqKept /\ NewestLengthWins

(* Every merge, and the merge it sets off, ends. *)
MergeEnds == <>(pc = "done")
=============================================================================
