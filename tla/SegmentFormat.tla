---------------------------- MODULE SegmentFormat ----------------------------
(***************************************************************************)
(* What an immutable segment holds: the document map that assigns          *)
(* segment-local doc ids, the posting list of every term cut into blocks,  *)
(* one skip entry per block, the tenant sections, and the queries the      *)
(* readers make of them.  Byte offsets, pages and the block codec are left *)
(* out: a segment is the record that a reader gets back.                   *)
(*                                                                         *)
(* A document is [ctid, tenant, len, tf]: tf[t] is how often term t occurs *)
(* in it (0: not at all) and tenant 0 means "no tenant".                   *)
(***************************************************************************)
EXTENDS Integers, Sequences, FiniteSets, SequencesExt, FiniteSetsExt

CONSTANTS
    Term,            \* the lexemes
    TP_BLOCK_SIZE,   \* postings per block (128 in the code)
    UINT32_MAX,      \* "no document" and "no upper limit"
    FieldNormTable   \* decode table of the length quantisation, ascending

ASSUME BlockSizeAssumption == TP_BLOCK_SIZE \in Nat \ {0}
ASSUME DocIdAssumption == UINT32_MAX \in Nat
ASSUME FieldNormAssumption ==
    /\ FieldNormTable \in Seq(Nat) /\ FieldNormTable # << >>
    /\ \A i, j \in DOMAIN FieldNormTable : i < j => FieldNormTable[i] < FieldNormTable[j]

Document == [ctid : Nat, tenant : Nat, len : Nat, tf : [Term -> Nat]]

(* What a running total of u[1], u[2], ... ends at. *)
Total(u) == LET s[j \in 0 .. Len(u)] == IF j = 0 THEN 0 ELSE s[j - 1] + u[j] IN s[Len(u)]

(* The elements of S in the order of a strict total order: what qsort returns. *)
Sorted(S, before(_, _)) ==
    [n \in 1 .. Cardinality(S) |-> CHOOSE x \in S : Cardinality({y \in S : before(y, x)}) = n - 1]

(* The largest table entry that does not exceed the length, and back. *)
encode_fieldnorm(len) == Max({i \in DOMAIN FieldNormTable : FieldNormTable[i] <= len})
decode_fieldnorm(norm) == FieldNormTable[norm]

-----------------------------------------------------------------------------
(* The document map. *)

docmap_entry_cmp_by_ctid(d, e) == d.ctid < e.ctid

docmap_entry_cmp_by_tenant_then_ctid(d, e) ==
    d.tenant < e.tenant \/ (d.tenant = e.tenant /\ d.ctid < e.ctid)

has_tenants(docs) == \E d \in docs : d.tenant # 0

(* The documents in the order of their doc ids: entry i+1 has doc id i. *)
doc_order(docs) ==
    IF has_tenants(docs) THEN Sorted(docs, docmap_entry_cmp_by_tenant_then_ctid)
                         ELSE Sorted(docs, docmap_entry_cmp_by_ctid)

(* One range per run of equal tenant ids, found by comparing each entry with the
   next one; past the last entry the comparison is with UINT32_MAX. *)
tenant_ranges(order) ==
    LET tid(i) == IF i < Len(order) THEN order[i + 1].tenant ELSE UINT32_MAX
        \* the positions i in 1..num_docs where a run is closed
        Ends == {i \in 1 .. Len(order) : tid(i) # order[i].tenant}
        RunStart(i) == Max({0} \cup {j \in Ends : j < i})
    IN  {[tenant |-> order[i].tenant, first |-> RunStart(i), count |-> i - RunStart(i)] :
            i \in {e \in Ends : order[e].tenant # 0}}

tp_docmap_finalize(docs) ==
    LET order == doc_order(docs)
    IN  [docs |-> order,
         norm |-> [i \in DOMAIN order |-> encode_fieldnorm(order[i].len)],
         tenant_ordered |-> has_tenants(docs),
         ranges |-> IF has_tenants(docs) THEN tenant_ranges(order) ELSE {}]

-----------------------------------------------------------------------------
(* Posting lists, blocks and skip entries. *)

(* What a writer has per posting before it cuts blocks; ids are doc ids. *)
BlockPosting(id, freq, norm) == [doc |-> id, frequency |-> freq, norm |-> norm]

num_blocks(list) == (Len(list) + TP_BLOCK_SIZE - 1) \div TP_BLOCK_SIZE

(* Block b of a posting list (blocks are numbered from 0). *)
Block(list, b) ==
    SubSeq(list, b * TP_BLOCK_SIZE + 1,
           IF (b + 1) * TP_BLOCK_SIZE < Len(list) THEN (b + 1) * TP_BLOCK_SIZE ELSE Len(list))

(* Tenant mode of a block: every document of one tenant, several tenants, or none. *)
tenant_mode(tids) ==
    CASE Cardinality(tids) > 1 -> "mixed"
      [] tids = {0} -> "none"
      [] OTHER -> "single"

(* The skip entry of a block, computed by every writer in the same loop: note that
   block_max_norm is the largest norm, that of the longest document.  tenant_of gives
   the tenant of a doc id; the entry keeps only 16 bits of it (tid % 2^16). *)
SkipEntry(block, tenant_of) ==
    LET tids == {tenant_of[block[j].doc] : j \in DOMAIN block}
    IN  [last_doc_id |-> Max({block[j].doc : j \in DOMAIN block}),
         doc_count |-> Len(block),
         block_max_tf |-> Max({block[j].frequency : j \in DOMAIN block}),
         block_max_norm |-> Max({block[j].norm : j \in DOMAIN block}),
         mode |-> tenant_mode(tids),
         low16 |-> IF tenant_mode(tids) = "single" THEN (CHOOSE x \in tids : TRUE) % 65536 ELSE 0]

SkipEntries(list, tenant_of) ==
    [b \in 1 .. num_blocks(list) |-> SkipEntry(Block(list, b - 1), tenant_of)]

(* How many postings of a list belong to each tenant (tenant 0 is not counted). *)
tenant_docfreq(tenant_of, list) ==
    [x \in {tenant_of[list[j].doc] : j \in DOMAIN list} \ {0} |->
        Cardinality({j \in DOMAIN list : tenant_of[list[j].doc] = x})]

(* A segment as a reader sees it.  lists[t] is the posting list written for term t,
   already in doc-id order; a term whose list is empty is not in the dictionary. *)
Segment(docmap, lists, has_tenant_data, tenant_stats) ==
    LET ids == 0 .. Len(docmap.docs) - 1
        tenant_of == [id \in ids |-> docmap.docs[id + 1].tenant]
        nobody == [id \in ids |-> 0]
    IN  [num_docs |-> Len(docmap.docs),
         ctid |-> [i \in DOMAIN docmap.docs |-> docmap.docs[i].ctid],
         norm |-> docmap.norm,
         tenant |-> [i \in DOMAIN docmap.docs |-> docmap.docs[i].tenant],
         has_tenant_data |-> has_tenant_data,
         \* the flag is set together with the ranges section
         tenant_ordered |-> docmap.tenant_ordered /\ docmap.ranges # {},
         ranges |-> docmap.ranges,
         post |-> lists,
         skip |-> [t \in DOMAIN lists |->
                     IF has_tenant_data /\ docmap.tenant_ordered THEN SkipEntries(lists[t], tenant_of)
                     ELSE SkipEntries(lists[t], nobody)],
         doc_freq |-> [t \in DOMAIN lists |-> Len(lists[t])],
         tenant_df |-> IF has_tenant_data
                       THEN [t \in DOMAIN lists |-> tenant_docfreq(tenant_of, lists[t])]
                       ELSE << >>,
         tenant_stats |-> tenant_stats]

cmp_block_posting_by_doc_id(p, q) == p.doc < q.doc

(* tp_write_segment: the segment that a spill writes for the documents of the memtable.
   The memtable's posting lists are in insertion order; every posting is looked up in the
   docmap and the list is sorted by doc id before it is cut into blocks. *)
tp_write_segment(docs, has_tenant_data, tenant_stats) ==
    LET docmap == tp_docmap_finalize(docs)
        ids(t) == {i \in DOMAIN docmap.docs : docmap.docs[i].tf[t] > 0}
        entry(t, i) == BlockPosting(i - 1, docmap.docs[i].tf[t], docmap.norm[i])
        terms == {t \in Term : ids(t) # {}}
    IN  Segment(docmap,
                [t \in terms |-> Sorted({entry(t, i) : i \in ids(t)},
                                              cmp_block_posting_by_doc_id)],
                has_tenant_data, tenant_stats)

-----------------------------------------------------------------------------
(* What readers ask of a segment. *)

has_term(seg, t) == t \in DOMAIN seg.post

block_count(seg, t) == Len(seg.skip[t])

tp_segment_lookup_ctid(seg, id) == seg.ctid[id + 1]

(* Without a tenant map (no tenant data was written) every document has tenant 0. *)
tp_segment_get_tenant_id(seg, id) ==
    IF seg.has_tenant_data /\ id < seg.num_docs THEN seg.tenant[id + 1] ELSE 0

(* Mutant: the range ends one document too late. *)
tp_segment_get_tenant_doc_rangeLong(seg, tenant) ==
    LET mine == {r \in seg.ranges : r.tenant = tenant}
    IN  IF mine = {} THEN << >>
        ELSE LET r == CHOOSE r \in mine : TRUE IN <<r.first, r.first + r.count>>

(* The doc ids of a tenant in a tenant-ordered segment, or << >> when it has no range. *)
tp_segment_get_tenant_doc_range(seg, tenant) ==
    LET mine == {r \in seg.ranges : r.tenant = tenant}
    IN  IF mine = {} THEN << >>
        ELSE LET r == CHOOSE r \in mine : TRUE IN <<r.first, r.first + r.count - 1>>

(* Document frequency of a term in a segment, and its per-tenant form, as the batch lookup
   of a query adds it up: a segment without tenant sections answers with its global number
   (the lookup of a single term counts it as 0; its caller falls back for the chain). *)
tp_segment_get_doc_freq(seg, t) == IF has_term(seg, t) THEN seg.doc_freq[t] ELSE 0

tp_batch_get_segment_tenant_doc_freq(seg, t, tenant) ==
    CASE ~has_term(seg, t) -> 0
      [] has_term(seg, t) /\ ~seg.has_tenant_data -> seg.doc_freq[t]
      [] OTHER -> IF tenant \in DOMAIN seg.tenant_df[t] THEN seg.tenant_df[t][tenant] ELSE 0
=============================================================================
