------------------------ MODULE BlockMaxWandProofs -------------------------
(***************************************************************************)
(* Proofs about the top-k search of BlockMaxWand, for every memtable, set  *)
(* of segments, query, tenant, k and block size that its assumptions       *)
(* admit:                                                                  *)
(*                                                                         *)
(*   WandInvHolds        the heap, the order of the terms and active_count *)
(*                       are right at every step;                          *)
(*   NoWinnerSkipped     pruning loses no result;                          *)
(*   AnswersExact        the answer is that of the exhaustive evaluation.  *)
(*                                                                         *)
(* Three invariants build on each other.  Shape says where the iterators,  *)
(* the pivot and the heap are; with it comes WandInv.  Sound adds the      *)
(* scores: every document of the segment that can still win is in front of *)
(* all of its terms, and the heap holds fully scored results that will not *)
(* be met again.  Exact adds what was left behind: all of it is in the     *)
(* heap, or the heap is full of results that are not weaker.               *)
(***************************************************************************)
EXTENDS BlockMaxWand, SegmentProofs

-----------------------------------------------------------------------------
(* The query *)

QueryTerm == [term : Term, idf : Nat, query_freq : Nat \ {0}]

(* No posting scores 0. *)
MemScores ==
    \A d \in query.mem : \A q \in 1 .. nterms :
        d.tf[query.terms[q].term] > 0
            => compute_bm25_score(query.terms[q].idf, d.tf[query.terms[q].term], d.len) > 0

(* ... nor does one of a segment. *)
SegScores(n) ==
    \A q \in 1 .. nterms : has_term(query.segs[n], query.terms[q].term) =>
        \A j \in 1 .. Len(query.segs[n].post[query.terms[q].term]) :
            posting_score(q, query.segs[n].post[query.terms[q].term][j]) > 0

(* A ctid belongs to one document. *)
OneCtid ==
    /\ \A d, e \in query.mem : d.ctid = e.ctid => d = e
    /\ \A n \in 1 .. Len(query.segs) : \A a \in 1 .. query.segs[n].num_docs :
          \A d \in query.mem : d.ctid # query.segs[n].ctid[a]
    /\ \A m, n \in 1 .. Len(query.segs) :
          \A a \in 1 .. query.segs[m].num_docs, b \in 1 .. query.segs[n].num_docs :
              query.segs[m].ctid[a] = query.segs[n].ctid[b] => m = n /\ a = b

(* What holds of every query, and is not changed by running it. *)
QueryInv ==
    /\ query.mem \subseteq Document /\ IsFiniteSet(query.mem) /\ \A d \in query.mem : d.ctid # NoCtid
    /\ query.terms \in Seq(QueryTerm) /\ nterms \in Nat \ {0} /\ DOMAIN query.terms = 1 .. nterms
    /\ query.k \in Nat \ {0} /\ query.tenant \in Nat
    /\ DOMAIN query.segs = 1 .. Len(query.segs) /\ Len(query.segs) \in Nat /\ Len(query.segs) < NoSegment
    /\ \A n \in 1 .. Len(query.segs) : WellFormed(query.segs[n]) /\ SegScores(n)
    /\ MemScores
    /\ OneCtid

(* A query starts on segments that tp_write_segment wrote. *)
LEMMA QueryInvInit == Init => QueryInv
  <1> SUFFICES ASSUME Init PROVE QueryInv
    OBVIOUS
  <1>1. PICK c \in Queries :
         query = [mem |-> c.mem, terms |-> c.terms, k |-> c.k, tenant |-> c.tenant,
                  segs |-> [n \in DOMAIN c.docs |-> tp_write_segment(c.docs[n], c.tenants, << >>)]]
    BY DEF Init
  <1>2. StoredOK(c) /\ QueryOK(c)
    BY QueriesAssumption
  <1> DEFINE written == [n \in DOMAIN c.docs |-> tp_write_segment(c.docs[n], c.tenants, << >>)]
  <1>w. \A n \in DOMAIN c.docs : written[n] = tp_write_segment(c.docs[n], c.tenants, << >>)
    OBVIOUS
  <1>d. DOMAIN written = DOMAIN c.docs
    OBVIOUS
  <1>l. written = [n \in DOMAIN c.docs |-> written[n]]
    OBVIOUS
  <1> HIDE DEF written
  <1>3. query.mem = c.mem /\ query.terms = c.terms /\ query.k = c.k /\ query.tenant = c.tenant /\ query.segs = written
    BY <1>1 DEF written
  <1>4. /\ c.docs \in Seq(SUBSET Document) /\ Len(c.docs) \in Nat /\ DOMAIN c.docs = 1 .. Len(c.docs)
        /\ Len(query.segs) = Len(c.docs) /\ DOMAIN query.segs = 1 .. Len(c.docs)
    <2>1. c.docs \in Seq(SUBSET Document)
      BY <1>2 DEF StoredOK
    <2>2. Len(c.docs) \in Nat /\ DOMAIN c.docs = 1 .. Len(c.docs)
      BY <2>1
    <2>3. Len(written) = Len(c.docs)
      BY <1>l, <2>2
    <2> QED BY <1>3, <1>d, <2>1, <2>2, <2>3
  <1>5. ASSUME NEW n \in 1 .. Len(c.docs)
        PROVE  DocsOK(c.docs[n], c.tenants)
    <2>1. c.docs[n] \in SUBSET Document
      BY <1>4
    <2> QED BY <1>2, <1>4, <2>1 DEF StoredOK, DocsOK, QueryOK
  <1>6. ASSUME NEW n \in 1 .. Len(c.docs)
        PROVE  WellFormed(query.segs[n]) /\ WrittenFrom(query.segs[n], c.docs[n], doc_order(c.docs[n]))
    <2>1. query.segs[n] = tp_write_segment(c.docs[n], c.tenants, << >>)
      BY <1>3, <1>4, <1>w
    <2> DEFINE g == query.segs[n]
    <2>2. g = tp_write_segment(c.docs[n], c.tenants, << >>)
      BY <2>1
    <2> HIDE DEF g
    <2>3. WellFormed(g) /\ WrittenFrom(g, c.docs[n], doc_order(c.docs[n]))
      BY <1>5, <2>2, WrittenWellFormed
    <2> QED BY <2>3 DEF g
  <1>7. /\ query.terms \in Seq(QueryTerm) /\ nterms \in Nat \ {0} /\ DOMAIN query.terms = 1 .. nterms
        /\ query.k \in Nat \ {0} /\ query.tenant \in Nat
    <2>1. query.terms \in Seq(QueryTerm) /\ query.terms # << >> /\ query.k \in Nat \ {0} /\ query.tenant \in Nat
      BY <1>2, <1>3 DEF QueryOK, QueryTerm
    <2> QED BY <2>1 DEF nterms
  <1>8. MemScores
    <2> SUFFICES ASSUME NEW d \in query.mem, NEW q \in 1 .. nterms, d.tf[query.terms[q].term] > 0
                 PROVE  compute_bm25_score(query.terms[q].idf, d.tf[query.terms[q].term], d.len) > 0
      BY DEF MemScores
    <2>1. q \in DOMAIN c.terms /\ d \in c.mem /\ d.tf[c.terms[q].term] > 0
      BY <1>3, <1>7
    <2>2. compute_bm25_score(c.terms[q].idf, d.tf[c.terms[q].term], d.len) > 0
      BY <2>1, ScoresAssumption
    <2> QED BY <1>3, <2>2
  <1>9. ASSUME NEW n \in 1 .. Len(c.docs) PROVE SegScores(n)
    <2> DEFINE g == query.segs[n]
    <2> SUFFICES ASSUME NEW q \in 1 .. nterms, has_term(g, query.terms[q].term),
                        NEW j \in 1 .. Len(g.post[query.terms[q].term])
                 PROVE  posting_score(q, g.post[query.terms[q].term][j]) > 0
      BY DEF SegScores
    <2> DEFINE t == query.terms[q].term
               p == g.post[t][j]
               d == doc_order(c.docs[n])[p.doc + 1]
    <2>1. t \in DOMAIN g.post
      BY DEF has_term
    <2>2. ListOK(g, t) /\ g.post[t] \in PostingList
      BY <1>6, <2>1 DEF WellFormed, ListOK
    <2>3. p \in Posting
      <3>1. PICK L : L = g.post[t]
        OBVIOUS
      <3>2. L \in Seq(Posting) /\ j \in 1 .. Len(L)
        BY <2>2, <3>1 DEF PostingList
      <3>3. L[j] \in Posting
        BY <3>2
      <3> QED BY <3>1, <3>3
    <2>4. p.doc \in 0 .. g.num_docs - 1 /\ p.norm = g.norm[p.doc + 1] /\ g.num_docs \in Nat
      BY <1>6, <2>2 DEF ListOK, WellFormed
    <2>5. p.doc + 1 \in 1 .. g.num_docs
      <3> HIDE DEF p, g
      <3> QED BY <2>4
    <2>6. d \in c.docs[n] /\ p.frequency = d.tf[t] /\ p.norm = encode_fieldnorm(d.len)
      BY <1>6, <2>1, <2>4, <2>5 DEF WrittenFrom
    <2>7. d.tf[t] > 0
      <3> HIDE DEF d, t, p, g
      <3>1. p.frequency \in Nat \ {0}
        BY <2>3 DEF Posting
      <3> QED BY <2>6, <3>1
    <2>8. q \in DOMAIN c.terms /\ t = c.terms[q].term /\ query.terms[q].idf = c.terms[q].idf
      BY <1>3, <1>7
    <2> HIDE DEF d, t, p, g
    <2>9. compute_bm25_score(c.terms[q].idf, d.tf[t], decode_fieldnorm(encode_fieldnorm(d.len))) > 0
      BY <1>4, <2>6, <2>7, <2>8, ScoresAssumption
    <2>10. posting_score(q, p) > 0
      BY <2>6, <2>8, <2>9 DEF posting_score
    <2> QED BY <2>10 DEF t, p
  <1>10. OneCtid
    <2>1. ASSUME NEW n \in 1 .. Len(c.docs), NEW a \in 1 .. query.segs[n].num_docs
          PROVE  /\ doc_order(c.docs[n])[a] \in c.docs[n]
                 /\ query.segs[n].ctid[a] = doc_order(c.docs[n])[a].ctid
                 /\ \A b \in 1 .. query.segs[n].num_docs :
                       a # b => doc_order(c.docs[n])[a].ctid # doc_order(c.docs[n])[b].ctid
      BY <1>6 DEF WrittenFrom
    <2>2. \A d, e \in query.mem : d.ctid = e.ctid => d = e
      BY <1>2, <1>3 DEF StoredOK
    <2>3. ASSUME NEW n \in 1 .. Len(c.docs), NEW a \in 1 .. query.segs[n].num_docs, NEW d \in query.mem
          PROVE  d.ctid # query.segs[n].ctid[a]
      BY <1>2, <1>3, <1>4, <2>1 DEF StoredOK
    <2>4. ASSUME NEW m \in 1 .. Len(c.docs), NEW n \in 1 .. Len(c.docs),
                 NEW a \in 1 .. query.segs[m].num_docs, NEW b \in 1 .. query.segs[n].num_docs,
                 query.segs[m].ctid[a] = query.segs[n].ctid[b]
          PROVE  m = n /\ a = b
      <3>1. doc_order(c.docs[m])[a] \in c.docs[m] /\ doc_order(c.docs[n])[b] \in c.docs[n]
            /\ doc_order(c.docs[m])[a].ctid = doc_order(c.docs[n])[b].ctid
        BY <2>1, <2>4
      <3>2. m = n
        <4>1. \A x, y \in DOMAIN c.docs : \A d \in c.docs[x], e \in c.docs[y] : d.ctid = e.ctid => x = y
          BY <1>2 DEF StoredOK
        <4>2. m \in DOMAIN c.docs /\ n \in DOMAIN c.docs
          BY <1>4
        <4> QED BY <3>1, <4>1, <4>2, Zenon
      <3>3. a = b
        BY <2>1, <3>1, <3>2
      <3> QED BY <3>2, <3>3
    <2> QED BY <1>4, <2>2, <2>3, <2>4 DEF OneCtid
  <1>11. /\ query.mem \subseteq Document /\ IsFiniteSet(query.mem) /\ Len(query.segs) < NoSegment
         /\ \A d \in query.mem : d.ctid # NoCtid
    BY <1>2, <1>3, <1>4 DEF StoredOK
  <1> QED BY <1>4, <1>6, <1>7, <1>8, <1>9, <1>10, <1>11 DEF QueryInv

(* Running a query changes none of them. *)
LEMMA QueryInvStep == QueryInv /\ query' = query => QueryInv'
  <1> SUFFICES ASSUME QueryInv, query' = query PROVE QueryInv'
    OBVIOUS
  <1>1. nterms' = nterms
    BY DEF nterms
  <1>2. MemScores' <=> MemScores
    BY <1>1 DEF MemScores
  <1>3. \A q, p : posting_score(q, p)' = posting_score(q, p)
    BY DEF posting_score
  <1>4. \A n : SegScores(n)' <=> SegScores(n)
    BY <1>1, <1>3 DEF SegScores
  <1>5. OneCtid' <=> OneCtid
    BY DEF OneCtid
  <1> QED BY <1>1, <1>2, <1>4, <1>5 DEF QueryInv

-----------------------------------------------------------------------------
(* Iterators *)

(* The lists of the segment, by query term. *)
term_of(q) == query.terms[q].term
Blks(q) == Len(seg.skip[term_of(q)])
BlkLen(q, b) == seg.skip[term_of(q)][b + 1].doc_count
BlkLast(q, b) == seg.skip[term_of(q)][b + 1].last_doc_id
BlkDoc(q, b, x) == Block(seg.post[term_of(q)], b)[x + 1].doc

(* The places of a term's list, and their order. *)
Place(q, b, x) == b \in 0 .. Blks(q) - 1 /\ x \in 0 .. BlkLen(q, b) - 1

(* Places and documents are in the same order, and the last document of a block is the one
   its skip entry names. *)
PlacesOK(q) ==
    /\ Blks(q) \in Nat \ {0}
    /\ \A b \in 0 .. Blks(q) - 1 :
          /\ BlkLen(q, b) \in Nat \ {0} /\ BlkLast(q, b) \in Nat
          /\ \E x \in 0 .. BlkLen(q, b) - 1 : BlkDoc(q, b, x) = BlkLast(q, b)
    /\ \A b, x : Place(q, b, x) => /\ BlkDoc(q, b, x) \in Nat /\ BlkDoc(q, b, x) < UINT32_MAX
                                   /\ BlkDoc(q, b, x) <= BlkLast(q, b)
    /\ \A b, x, c, y : Place(q, b, x) /\ Place(q, c, y) /\ (b < c \/ (b = c /\ x < y))
                           => BlkDoc(q, b, x) < BlkDoc(q, c, y)

(* The term occurs in document d. *)
Hits(q, d) == has_term(seg, term_of(q)) /\ \E b, x : Place(q, b, x) /\ BlkDoc(q, b, x) = d

(* The walk is at a segment. *)
InSegment == si \in 1 .. Len(query.segs)

(* The segment that the walk is at is well formed. *)
LEMMA SegOK ==
    ASSUME QueryInv, InSegment
    PROVE  /\ WellFormed(seg) /\ SegScores(si)
           /\ \A q \in 1 .. nterms : term_of(q) \in Term /\ query.terms[q].idf \in Nat /\ query.terms[q].query_freq \in Nat \ {0}
  <1>1. WellFormed(seg) /\ SegScores(si)
    BY DEF QueryInv, InSegment, seg
  <1>2. ASSUME NEW q \in 1 .. nterms PROVE query.terms[q] \in QueryTerm
    BY DEF QueryInv, nterms
  <1> QED BY <1>1, <1>2 DEF QueryTerm, term_of

(* The posting list of a term, as blocks and positions in them, is sorted. *)
LEMMA TermPlaces ==
    ASSUME QueryInv, InSegment, NEW q \in 1 .. nterms, has_term(seg, term_of(q))
    PROVE  PlacesOK(q)
  <1> DEFINE t == term_of(q)
             L == seg.post[t]
             B(b) == Block(L, b)
             nb == num_blocks(L)
  <1>1. WellFormed(seg) /\ t \in DOMAIN seg.post
    BY SegOK DEF has_term
  <1>2. ListOK(seg, t) /\ seg.num_docs \in Nat /\ seg.num_docs < UINT32_MAX
    BY <1>1 DEF WellFormed
  <1>3. L \in PostingList /\ Len(seg.skip[t]) = nb
        /\ (\A b \in 0 .. nb - 1 : EntryOK(seg.skip[t][b + 1], B(b), seg.tenant))
        /\ \A n \in 1 .. Len(L) : L[n].doc \in 0 .. seg.num_docs - 1
    BY <1>2 DEF ListOK
  <1>4. /\ nb \in Nat \ {0}
        /\ \A b \in 0 .. nb - 1 : B(b) \in Seq(Posting) /\ Len(B(b)) \in Nat \ {0}
        /\ \A b \in 0 .. nb - 1 : \A x \in 1 .. Len(B(b)) : \E n \in 1 .. Len(L) : B(b)[x] = L[n]
        /\ \A b, c \in 0 .. nb - 1 : \A x \in 1 .. Len(B(b)), y \in 1 .. Len(B(c)) :
              b < c \/ (b = c /\ x < y) => B(b)[x].doc < B(c)[y].doc
    BY <1>3, BlockPlaces
  <1>5. Blks(q) = nb
    BY <1>3 DEF Blks
  <1>6. \A b \in 0 .. nb - 1 : /\ BlkLen(q, b) = Len(B(b)) /\ BlkLen(q, b) \in Nat \ {0}
                               /\ BlkLast(q, b) \in Nat
                               /\ \E x \in 1 .. BlkLen(q, b) : B(b)[x].doc = BlkLast(q, b)
                               /\ \A x \in 1 .. BlkLen(q, b) : B(b)[x].doc <= BlkLast(q, b)
    <2> SUFFICES ASSUME NEW b \in 0 .. nb - 1
                 PROVE  /\ BlkLen(q, b) = Len(B(b)) /\ BlkLen(q, b) \in Nat \ {0}
                        /\ BlkLast(q, b) \in Nat
                        /\ \E x \in 1 .. BlkLen(q, b) : B(b)[x].doc = BlkLast(q, b)
                        /\ \A x \in 1 .. BlkLen(q, b) : B(b)[x].doc <= BlkLast(q, b)
      OBVIOUS
    <2>1. EntryOK(seg.skip[t][b + 1], B(b), seg.tenant) /\ Len(B(b)) \in Nat \ {0}
      BY <1>3, <1>4
    <2>2. BlkLen(q, b) = seg.skip[t][b + 1].doc_count /\ BlkLast(q, b) = seg.skip[t][b + 1].last_doc_id
      BY DEF BlkLen, BlkLast
    <2> HIDE DEF B, t
    <2> QED BY <2>1, <2>2 DEF EntryOK
  <1>7. \A b, x : BlkDoc(q, b, x) = B(b)[x + 1].doc
    BY DEF BlkDoc
  <1> HIDE DEF B, nb
  <1>8. ASSUME NEW b, NEW x, Place(q, b, x)
        PROVE  b \in 0 .. nb - 1 /\ x \in Nat /\ x + 1 \in 1 .. Len(B(b)) /\ x + 1 \in 1 .. BlkLen(q, b)
    BY <1>4, <1>5, <1>6, <1>8 DEF Place
  <1>9. ASSUME NEW b \in 0 .. Blks(q) - 1 PROVE \E x \in 0 .. BlkLen(q, b) - 1 : BlkDoc(q, b, x) = BlkLast(q, b)
    <2>1. PICK x \in 1 .. BlkLen(q, b) : B(b)[x].doc = BlkLast(q, b)
      BY <1>5, <1>6
    <2>2. BlkLen(q, b) \in Nat
      BY <1>5, <1>6
    <2>3. x - 1 \in 0 .. BlkLen(q, b) - 1 /\ (x - 1) + 1 = x
      BY <2>2
    <2>4. BlkDoc(q, b, x - 1) = BlkLast(q, b)
      BY <1>7, <2>1, <2>3
    <2> QED BY <2>3, <2>4
  <1>10. ASSUME NEW b, NEW x, Place(q, b, x)
         PROVE  /\ BlkDoc(q, b, x) \in Nat /\ BlkDoc(q, b, x) < UINT32_MAX
                /\ BlkDoc(q, b, x) <= BlkLast(q, b)
    <2>1. b \in 0 .. nb - 1 /\ x + 1 \in 1 .. Len(B(b)) /\ x + 1 \in 1 .. BlkLen(q, b)
      BY <1>8, <1>10
    <2>2. PICK n \in 1 .. Len(L) : B(b)[x + 1] = L[n]
      BY <1>4, <2>1
    <2>3. L[n].doc \in 0 .. seg.num_docs - 1
      BY <1>3
    <2>4. BlkDoc(q, b, x) = L[n].doc
      BY <1>7, <2>2
    <2>5. B(b)[x + 1].doc <= BlkLast(q, b)
      BY <1>6, <2>1
    <2> QED BY <1>2, <1>7, <2>3, <2>4, <2>5, LimitsAssumption, DocIdAssumption
  <1>11. ASSUME NEW b, NEW x, NEW c, NEW y, Place(q, b, x), Place(q, c, y), b < c \/ (b = c /\ x < y)
         PROVE  BlkDoc(q, b, x) < BlkDoc(q, c, y)
    <2>1. b \in 0 .. nb - 1 /\ x \in Nat /\ x + 1 \in 1 .. Len(B(b))
          /\ c \in 0 .. nb - 1 /\ y \in Nat /\ y + 1 \in 1 .. Len(B(c))
      BY <1>8, <1>11
    <2>2. b < c \/ (b = c /\ x + 1 < y + 1)
      BY <1>11, <2>1
    <2>3. B(b)[x + 1].doc < B(c)[y + 1].doc
      BY <1>4, <2>1, <2>2
    <2> QED BY <1>7, <2>3
  <1>12. \A b \in 0 .. Blks(q) - 1 : BlkLen(q, b) \in Nat \ {0} /\ BlkLast(q, b) \in Nat
    BY <1>5, <1>6
  <1>13. Blks(q) \in Nat \ {0}
    BY <1>4, <1>5
  <1> QED BY <1>9, <1>10, <1>11, <1>12, <1>13 DEF PlacesOK

(* The document a term state stands on. *)
Cur(ts) == term_current_doc_id(ts)

(* A TpTermState. *)
TermState == [q : 1 .. nterms, found : BOOLEAN, blk : Nat, pos : Nat, fin : BOOLEAN]

(* A term state stands on a posting, or is finished. *)
Valid(ts) ==
    /\ ts \in TermState
    /\ ts.found = has_term(seg, term_of(ts.q))
    /\ ~ts.found => ts.fin
    /\ ~ts.fin => Place(ts.q, ts.blk, ts.pos)

(* m is ts moved to the target: it passes no document at or after it. *)
Moved(ts, m, target) ==
    /\ Valid(m) /\ m.q = ts.q /\ m.found = ts.found
    /\ target <= Cur(m) /\ Cur(ts) <= Cur(m)
    /\ \A d \in Nat : Hits(ts.q, d) /\ Cur(ts) <= d /\ d < Cur(m) => d < target

(* A term state that is not finished stands on a document of its list. *)
LEMMA CurType ==
    ASSUME QueryInv, InSegment, NEW ts, Valid(ts)
    PROVE  /\ Cur(ts) \in Nat /\ Cur(ts) <= UINT32_MAX
           /\ Cur(ts) = UINT32_MAX <=> ts.fin
           /\ ts.fin = TRUE \/ ts.fin = FALSE
           /\ ~ts.fin => /\ Place(ts.q, ts.blk, ts.pos) /\ Cur(ts) = BlkDoc(ts.q, ts.blk, ts.pos)
                         /\ PlacesOK(ts.q) /\ ts.found /\ Hits(ts.q, Cur(ts))
                         /\ Cur(ts) < UINT32_MAX
  <1>1. ts.q \in 1 .. nterms /\ ts.found \in BOOLEAN /\ ts.fin \in BOOLEAN
    BY DEF Valid, TermState
  <1>2. CASE ts.fin
    BY <1>1, <1>2, LimitsAssumption, DocIdAssumption DEF Cur, term_current_doc_id
  <1>3. CASE ~ts.fin
    <2>1. ts.found /\ Place(ts.q, ts.blk, ts.pos) /\ has_term(seg, term_of(ts.q))
      BY <1>1, <1>3 DEF Valid
    <2>2. PlacesOK(ts.q)
      BY <1>1, <2>1, TermPlaces
    <2>3. Cur(ts) = BlkDoc(ts.q, ts.blk, ts.pos)
      BY <1>3, <2>1 DEF Cur, term_current_doc_id, current_posting, list, BlkDoc, term_of
    <2>4. Cur(ts) \in Nat /\ Cur(ts) < UINT32_MAX
      BY <2>1, <2>2, <2>3 DEF PlacesOK
    <2>5. Hits(ts.q, Cur(ts))
      BY <2>1, <2>3 DEF Hits
    <2> QED BY <1>1, <1>3, <2>1, <2>2, <2>3, <2>4, <2>5, LimitsAssumption, DocIdAssumption
  <1> QED BY <1>1, <1>2, <1>3

(* A term state moved to a place of its list, or past its end. *)
LEMMA MoveToPlace ==
    ASSUME QueryInv, InSegment, NEW ts, Valid(ts), ~ts.fin,
           NEW b, NEW x, Place(ts.q, b, x), NEW m, m = [ts EXCEPT !.blk = b, !.pos = x],
           NEW target, target \in Nat, target <= BlkDoc(ts.q, b, x), Cur(ts) <= BlkDoc(ts.q, b, x),
           \A c, y : Place(ts.q, c, y) /\ Cur(ts) <= BlkDoc(ts.q, c, y) /\ BlkDoc(ts.q, c, y) < BlkDoc(ts.q, b, x)
                        => BlkDoc(ts.q, c, y) < target
    PROVE  Moved(ts, m, target)
  <1>1. ts \in TermState /\ ts.q \in 1 .. nterms /\ ts.found = has_term(seg, term_of(ts.q)) /\ ts.found
    BY CurType DEF Valid, TermState
  <1>2. b \in Nat /\ x \in Nat
    <2>1. PlacesOK(ts.q)
      BY CurType
    <2> QED BY <2>1 DEF Place, PlacesOK
  <1>3. m \in TermState /\ m.q = ts.q /\ m.found = ts.found /\ m.fin = ts.fin /\ m.blk = b /\ m.pos = x
    BY <1>1, <1>2 DEF TermState
  <1>4. Valid(m)
    BY <1>1, <1>3 DEF Valid
  <1>5. Cur(m) = BlkDoc(ts.q, b, x)
    BY <1>3, <1>4, CurType
  <1>6. ASSUME NEW d \in Nat, Hits(ts.q, d), Cur(ts) <= d, d < Cur(m) PROVE d < target
    <2>1. PICK c, y : Place(ts.q, c, y) /\ BlkDoc(ts.q, c, y) = d
      BY <1>6 DEF Hits
    <2> QED BY <1>5, <1>6, <2>1
  <1> QED BY <1>3, <1>4, <1>5, <1>6 DEF Moved

(* A term that has no document left at or after the target is finished. *)
LEMMA MoveToEnd ==
    ASSUME QueryInv, InSegment, NEW ts, Valid(ts), ~ts.fin,
           NEW b \in Nat, NEW m, m = [ts EXCEPT !.blk = b, !.fin = TRUE],
           NEW target, target \in Nat, target <= UINT32_MAX,
           \A c, y : Place(ts.q, c, y) /\ Cur(ts) <= BlkDoc(ts.q, c, y) => BlkDoc(ts.q, c, y) < target
    PROVE  Moved(ts, m, target)
  <1>1. ts \in TermState /\ ts.q \in 1 .. nterms /\ ts.found = has_term(seg, term_of(ts.q)) /\ ts.found
    BY CurType DEF Valid, TermState
  <1>3. m \in TermState /\ m.q = ts.q /\ m.found = ts.found /\ m.fin
    BY <1>1 DEF TermState
  <1>4. Valid(m)
    BY <1>1, <1>3 DEF Valid
  <1>5. Cur(m) = UINT32_MAX /\ Cur(ts) <= UINT32_MAX
    BY <1>3, <1>4, CurType
  <1>6. ASSUME NEW d \in Nat, Hits(ts.q, d), Cur(ts) <= d, d < Cur(m) PROVE d < target
    <2>1. PICK c, y : Place(ts.q, c, y) /\ BlkDoc(ts.q, c, y) = d
      BY <1>6 DEF Hits
    <2> QED BY <1>6, <2>1
  <1> QED BY <1>3, <1>4, <1>5, <1>6 DEF Moved

(* advance_term_iterator moves to the next document of the list. *)
LEMMA AdvanceMoves ==
    ASSUME QueryInv, InSegment, NEW ts, Valid(ts), ~ts.fin
    PROVE  Moved(ts, advance_term_iterator(ts), Cur(ts) + 1)
  <1> DEFINE q == ts.q
             b == ts.blk
             x == ts.pos
             m == advance_term_iterator(ts)
  <1>1. /\ Place(q, b, x) /\ Cur(ts) = BlkDoc(q, b, x) /\ PlacesOK(q) /\ ts.found
        /\ Cur(ts) \in Nat /\ Cur(ts) < UINT32_MAX
    BY CurType
  <1>2. skip(ts)[ts.blk + 1].doc_count = BlkLen(q, b) /\ nblocks(ts) = Blks(q)
    BY DEF skip, nblocks, BlkLen, Blks, term_of
  <1>3. m = IF x + 1 < BlkLen(q, b) THEN [ts EXCEPT !.pos = @ + 1]
            ELSE IF b + 1 < Blks(q) THEN [ts EXCEPT !.blk = @ + 1, !.pos = 0]
            ELSE [ts EXCEPT !.blk = @ + 1, !.fin = TRUE]
    BY <1>2 DEF advance_term_iterator
  <1>4. ts \in TermState /\ b \in Nat /\ x \in Nat /\ Blks(q) \in Nat /\ b < Blks(q) /\ BlkLen(q, b) \in Nat /\ x < BlkLen(q, b)
    BY <1>1 DEF Valid, TermState, Place, PlacesOK
  <1> HIDE DEF m, q, b, x
  <1>5. CASE x + 1 < BlkLen(q, b)
    <2>1. m = [ts EXCEPT !.blk = b, !.pos = x + 1]
      BY <1>3, <1>4, <1>5 DEF b, x, TermState
    <2>2. Place(q, b, x + 1)
      BY <1>1, <1>4, <1>5 DEF Place
    <2>3. BlkDoc(q, b, x) < BlkDoc(q, b, x + 1) /\ BlkDoc(q, b, x) \in Nat /\ BlkDoc(q, b, x + 1) \in Nat
      BY <1>1, <1>4, <2>2 DEF PlacesOK
    <2>4. ASSUME NEW c, NEW y, Place(q, c, y), Cur(ts) <= BlkDoc(q, c, y), BlkDoc(q, c, y) < BlkDoc(q, b, x + 1)
          PROVE  BlkDoc(q, c, y) < Cur(ts) + 1
      <3>1. c \in Nat /\ y \in Nat /\ BlkDoc(q, c, y) \in Nat
        BY <1>1, <2>4 DEF Place, PlacesOK
      <3>2. ~(b < c \/ (b = c /\ x + 1 < y)) /\ ~(b = c /\ x + 1 = y)
        BY <1>1, <2>2, <2>3, <2>4, <3>1 DEF PlacesOK
      <3>3. ~(c < b \/ (c = b /\ y < x))
        BY <1>1, <2>4, <3>1 DEF PlacesOK
      <3>4. c = b /\ y = x
        BY <1>4, <3>1, <3>2, <3>3
      <3> QED BY <1>1, <3>4
    <2>5. Cur(ts) + 1 \in Nat /\ Cur(ts) + 1 <= BlkDoc(q, b, x + 1) /\ Cur(ts) <= BlkDoc(q, b, x + 1)
      BY <1>1, <2>3
    <2> QED BY <2>1, <2>2, <2>4, <2>5, MoveToPlace DEF q, m
  <1>6. CASE ~(x + 1 < BlkLen(q, b)) /\ b + 1 < Blks(q)
    <2>1. m = [ts EXCEPT !.blk = b + 1, !.pos = 0]
      BY <1>3, <1>4, <1>6 DEF b, x, TermState
    <2>2. Place(q, b + 1, 0)
      BY <1>1, <1>4, <1>6 DEF Place, PlacesOK
    <2>3. BlkDoc(q, b, x) < BlkDoc(q, b + 1, 0) /\ BlkDoc(q, b, x) \in Nat /\ BlkDoc(q, b + 1, 0) \in Nat
      BY <1>1, <1>4, <2>2 DEF PlacesOK
    <2>4. ASSUME NEW c, NEW y, Place(q, c, y), Cur(ts) <= BlkDoc(q, c, y), BlkDoc(q, c, y) < BlkDoc(q, b + 1, 0)
          PROVE  BlkDoc(q, c, y) < Cur(ts) + 1
      <3>1. c \in Nat /\ y \in Nat /\ BlkDoc(q, c, y) \in Nat
        BY <1>1, <2>4 DEF Place, PlacesOK
      <3>2. ~(b + 1 < c \/ (b + 1 = c /\ 0 < y)) /\ ~(b + 1 = c /\ 0 = y)
        BY <1>1, <2>2, <2>3, <2>4, <3>1 DEF PlacesOK
      <3>3. ~(c < b \/ (c = b /\ y < x))
        BY <1>1, <2>4, <3>1 DEF PlacesOK
      <3>4. c = b /\ x <= y
        BY <1>4, <3>1, <3>2, <3>3
      <3>5. y < BlkLen(q, b)
        BY <1>4, <2>4, <3>4 DEF Place
      <3>6. y = x
        BY <1>4, <1>6, <3>1, <3>4, <3>5
      <3> QED BY <1>1, <3>4, <3>6
    <2>5. Cur(ts) + 1 \in Nat /\ Cur(ts) + 1 <= BlkDoc(q, b + 1, 0) /\ Cur(ts) <= BlkDoc(q, b + 1, 0)
      BY <1>1, <2>3
    <2> QED BY <2>1, <2>2, <2>4, <2>5, MoveToPlace DEF q, m
  <1>7. CASE ~(x + 1 < BlkLen(q, b)) /\ ~(b + 1 < Blks(q))
    <2>1. m = [ts EXCEPT !.blk = b + 1, !.fin = TRUE] /\ b + 1 \in Nat
      BY <1>3, <1>4, <1>7 DEF b, x, TermState
    <2>4. ASSUME NEW c, NEW y, Place(q, c, y), Cur(ts) <= BlkDoc(q, c, y)
          PROVE  BlkDoc(q, c, y) < Cur(ts) + 1
      <3>1. c \in Nat /\ y \in Nat /\ BlkDoc(q, c, y) \in Nat /\ c < Blks(q)
        BY <1>1, <1>4, <2>4 DEF Place, PlacesOK
      <3>3. ~(c < b \/ (c = b /\ y < x))
        BY <1>1, <2>4, <3>1 DEF PlacesOK
      <3>4. c = b /\ x <= y
        BY <1>4, <1>7, <3>1, <3>3
      <3>5. y < BlkLen(q, b)
        BY <1>4, <2>4, <3>4 DEF Place
      <3>6. y = x
        BY <1>4, <1>7, <3>1, <3>4, <3>5
      <3> QED BY <1>1, <3>4, <3>6
    <2>5. Cur(ts) + 1 \in Nat /\ Cur(ts) + 1 <= UINT32_MAX
      BY <1>1, LimitsAssumption, DocIdAssumption
    <2> QED BY <2>1, <2>4, <2>5, MoveToEnd DEF q, m
  <1> QED BY <1>5, <1>6, <1>7 DEF m

(* The target block of a seek: no block before it reaches the target. *)
LEMMA ScanMoves ==
    ASSUME QueryInv, InSegment, NEW ts, Valid(ts), ~ts.fin,
           NEW target \in Nat, target <= UINT32_MAX,
           NEW b \in 0 .. Blks(ts.q) - 1, NEW from \in 0 .. BlkLen(ts.q, b) - 1,
           \/ b = ts.blk /\ from = ts.pos
           \/ ts.blk < b /\ from = 0 /\ \A c \in ts.blk .. b - 1 : BlkLast(ts.q, c) < target,
           b = Blks(ts.q) - 1 \/ target <= BlkLast(ts.q, b)
    PROVE  Moved(ts, scan_block(ts, b, from, target), target)
  <1> DEFINE q == ts.q
             m == scan_block(ts, b, from, target)
             hits == {p \in from .. BlkLen(q, b) - 1 : BlkDoc(q, b, p) >= target}
  <1>1. /\ Place(q, ts.blk, ts.pos) /\ Cur(ts) = BlkDoc(q, ts.blk, ts.pos) /\ PlacesOK(q) /\ ts.found
        /\ Cur(ts) \in Nat /\ Cur(ts) < UINT32_MAX
    BY CurType
  <1>2. ts \in TermState /\ ts.blk \in Nat /\ ts.pos \in Nat /\ Blks(q) \in Nat /\ ts.blk < Blks(q) /\ BlkLen(q, b) \in Nat
        /\ b \in Nat /\ from \in Nat
    BY <1>1 DEF Valid, TermState, Place, PlacesOK
  <1>3. m = IF hits # {} THEN [ts EXCEPT !.blk = b, !.pos = Min(hits)]
            ELSE IF b + 1 < Blks(q) THEN [ts EXCEPT !.blk = b + 1, !.pos = 0]
            ELSE [ts EXCEPT !.blk = b + 1, !.fin = TRUE]
    BY DEF scan_block, skip, list, nblocks, BlkLen, Blks, BlkDoc, term_of
  <1>4. \A p \in from .. BlkLen(q, b) - 1 : Place(q, b, p) /\ BlkDoc(q, b, p) \in Nat
    BY <1>1, <1>2 DEF Place, PlacesOK
  <1>5. ASSUME NEW c, NEW y, Place(q, c, y), Cur(ts) <= BlkDoc(q, c, y)
        PROVE  /\ c \in Nat /\ y \in Nat /\ BlkDoc(q, c, y) \in Nat /\ c < Blks(q)
               /\ c < b => BlkDoc(q, c, y) < target
               /\ c = b => y \in from .. BlkLen(q, b) - 1
    <2>1. c \in Nat /\ y \in Nat /\ BlkDoc(q, c, y) \in Nat /\ c < Blks(q)
      BY <1>1, <1>2, <1>5 DEF Place, PlacesOK
    <2>2. ~(c < ts.blk \/ (c = ts.blk /\ y < ts.pos))
      BY <1>1, <1>5, <2>1 DEF PlacesOK
    <2>3. ts.blk <= c /\ (c = ts.blk => ts.pos <= y)
      BY <1>2, <2>1, <2>2
    <2>4. c < b => BlkDoc(q, c, y) < target
      <3> SUFFICES ASSUME c < b PROVE BlkDoc(q, c, y) < target
        OBVIOUS
      <3>1. c \in ts.blk .. b - 1
        BY <1>2, <2>1, <2>3
      <3>2. BlkLast(q, c) < target
        BY <2>1, <2>3, <3>1, <1>2
      <3>3. BlkDoc(q, c, y) <= BlkLast(q, c) /\ BlkLast(q, c) \in Nat
        BY <1>1, <1>2, <1>5, <2>1 DEF PlacesOK
      <3> QED BY <2>1, <3>2, <3>3
    <2>5. c = b => y \in from .. BlkLen(q, b) - 1
      BY <1>2, <1>5, <2>1, <2>3 DEF Place
    <2> QED BY <2>1, <2>4, <2>5
  <1> HIDE DEF m, q
  <1>6. CASE hits # {}
    <2> DEFINE x == Min(hits)
    <2>1. hits \in SUBSET Nat
      BY <1>2
    <2>2. x \in hits /\ \A y \in hits : x <= y
      <3> HIDE DEF hits
      <3> QED BY <1>6, <2>1, MinNat
    <2>3. m = [ts EXCEPT !.blk = b, !.pos = x]
      BY <1>3, <1>6
    <2>4. x \in from .. BlkLen(q, b) - 1 /\ x \in Nat /\ BlkDoc(q, b, x) >= target /\ Place(q, b, x) /\ BlkDoc(q, b, x) \in Nat
      BY <1>2, <1>4, <2>2
    <2>5. \A y \in from .. BlkLen(q, b) - 1 : y < x => BlkDoc(q, b, y) < target
      <3> HIDE DEF x
      <3> SUFFICES ASSUME NEW y \in from .. BlkLen(q, b) - 1, y < x PROVE BlkDoc(q, b, y) < target
        OBVIOUS
      <3>1. y \notin hits
        <4> HIDE DEF hits
        <4> QED BY <1>2, <2>2, <2>4
      <3>2. BlkDoc(q, b, y) \in Nat
        BY <1>4
      <3> QED BY <3>1, <3>2
    <2> HIDE DEF x, hits
    <2>6. Cur(ts) <= BlkDoc(q, b, x)
      <3>1. (ts.blk = b /\ ts.pos = x) \/ ts.blk < b \/ (ts.blk = b /\ ts.pos < x)
        BY <1>2, <2>4
      <3>2. CASE ts.blk = b /\ ts.pos = x
        BY <1>1, <3>2
      <3>3. CASE ts.blk < b \/ (ts.blk = b /\ ts.pos < x)
        <4>1. BlkDoc(q, ts.blk, ts.pos) < BlkDoc(q, b, x)
          BY <1>1, <2>4, <3>3 DEF PlacesOK
        <4> QED BY <1>1, <2>4, <4>1
      <3> QED BY <3>1, <3>2, <3>3
    <2>7. ASSUME NEW c, NEW y, Place(q, c, y), Cur(ts) <= BlkDoc(q, c, y), BlkDoc(q, c, y) < BlkDoc(q, b, x)
          PROVE  BlkDoc(q, c, y) < target
      <3>1. c \in Nat /\ y \in Nat /\ BlkDoc(q, c, y) \in Nat
        BY <1>5, <2>7
      <3>2. c < b \/ (c = b /\ y < x)
        <4>1. ~(b < c \/ (b = c /\ x < y))
          BY <1>1, <2>4, <2>7, <3>1 DEF PlacesOK
        <4>2. ~(b = c /\ x = y)
          BY <2>4, <2>7
        <4> QED BY <1>2, <2>4, <3>1, <4>1, <4>2
      <3>3. CASE c < b
        BY <1>5, <2>7, <3>3
      <3>4. CASE c = b /\ y < x
        <4>1. y \in from .. BlkLen(q, b) - 1
          BY <1>5, <2>7, <3>4
        <4> QED BY <2>5, <3>4, <4>1
      <3> QED BY <3>2, <3>3, <3>4
    <2>8. target <= BlkDoc(q, b, x)
      BY <2>4
    <2> QED BY <2>3, <2>4, <2>6, <2>7, <2>8, MoveToPlace DEF q, m
  <1>7. CASE hits = {}
    <2>1. \A y \in from .. BlkLen(q, b) - 1 : BlkDoc(q, b, y) < target
      BY <1>4, <1>7
    <2>2. BlkLast(q, b) < target
      <3>1. PICK y \in 0 .. BlkLen(q, b) - 1 : BlkDoc(q, b, y) = BlkLast(q, b)
        BY <1>1 DEF PlacesOK, q
      <3>2. BlkLen(q, b) - 1 \in from .. BlkLen(q, b) - 1 /\ y <= BlkLen(q, b) - 1 /\ y \in Nat
        BY <1>2 DEF q
      <3>3. Place(q, b, y) /\ Place(q, b, BlkLen(q, b) - 1)
        BY <1>2, <3>2 DEF Place, q
      <3>4. BlkDoc(q, b, y) <= BlkDoc(q, b, BlkLen(q, b) - 1)
        <4>1. y = BlkLen(q, b) - 1 \/ y < BlkLen(q, b) - 1
          BY <1>2, <3>2
        <4>2. BlkDoc(q, b, y) \in Nat
          BY <1>1, <3>3 DEF PlacesOK
        <4>3. CASE y = BlkLen(q, b) - 1
          BY <4>2, <4>3
        <4>4. CASE y < BlkLen(q, b) - 1
          <5>1. BlkDoc(q, b, y) < BlkDoc(q, b, BlkLen(q, b) - 1)
            BY <1>1, <3>3, <4>4 DEF PlacesOK
          <5>2. BlkDoc(q, b, BlkLen(q, b) - 1) \in Nat
            BY <1>1, <3>3 DEF PlacesOK
          <5> QED BY <4>2, <5>1, <5>2
        <4> QED BY <4>1, <4>3, <4>4
      <3>5. BlkDoc(q, b, BlkLen(q, b) - 1) < target /\ BlkDoc(q, b, BlkLen(q, b) - 1) \in Nat /\ BlkDoc(q, b, y) \in Nat
        BY <1>1, <2>1, <3>2, <3>3 DEF PlacesOK
      <3> QED BY <3>1, <3>4, <3>5
    <2>3. b = Blks(q) - 1
      <3>1. BlkLast(q, b) \in Nat
        BY <1>1 DEF PlacesOK, q
      <3> QED BY <2>2, <3>1 DEF q
    <2>4. m = [ts EXCEPT !.blk = b + 1, !.fin = TRUE] /\ b + 1 \in Nat
      BY <1>2, <1>3, <1>7, <2>3
    <2>5. ASSUME NEW c, NEW y, Place(q, c, y), Cur(ts) <= BlkDoc(q, c, y)
          PROVE  BlkDoc(q, c, y) < target
      <3>1. c \in Nat /\ y \in Nat /\ BlkDoc(q, c, y) \in Nat /\ c < Blks(q)
        BY <1>5, <2>5
      <3>2. c < b \/ c = b
        BY <1>2, <2>3, <3>1
      <3>3. CASE c < b
        BY <1>5, <2>5, <3>3
      <3>4. CASE c = b
        BY <1>5, <2>1, <2>5, <3>4
      <3> QED BY <3>2, <3>3, <3>4
    <2> QED BY <2>4, <2>5, MoveToEnd DEF q, m
  <1> QED BY <1>6, <1>7 DEF m

(* seek_term_to_doc moves to the first document at or after the target, over however many
   blocks. *)
LEMMA SeekMoves ==
    ASSUME QueryInv, InSegment, NEW ts, Valid(ts), ~ts.fin,
           NEW target \in Nat, target <= UINT32_MAX
    PROVE  Moved(ts, seek_term_to_doc(ts, target), target)
  <1> DEFINE q == ts.q
             m == seek_term_to_doc(ts, target)
             later == ts.blk + 1 .. Blks(q) - 1
             reach == {b \in later : BlkLast(q, b) >= target}
             tb == Min({Blks(q) - 1} \cup reach)
  <1>1. /\ Place(q, ts.blk, ts.pos) /\ Cur(ts) = BlkDoc(q, ts.blk, ts.pos) /\ PlacesOK(q) /\ ts.found
        /\ Cur(ts) \in Nat /\ Cur(ts) < UINT32_MAX
    BY CurType
  <1>2. ts \in TermState /\ ts.blk \in Nat /\ ts.pos \in Nat /\ Blks(q) \in Nat /\ ts.blk < Blks(q)
        /\ ts.blk \in 0 .. Blks(q) - 1 /\ ts.pos \in 0 .. BlkLen(q, ts.blk) - 1
    BY <1>1 DEF Valid, TermState, Place, PlacesOK
  <1>3. m = IF target <= BlkLast(q, ts.blk) THEN scan_block(ts, ts.blk, ts.pos, target)
            ELSE IF later = {} THEN [ts EXCEPT !.fin = TRUE]
            ELSE scan_block(ts, tb, 0, target)
    BY <1>1 DEF seek_term_to_doc, skip, nblocks, BlkLast, Blks, term_of
  <1>4. CASE target <= BlkLast(q, ts.blk)
    BY <1>2, <1>3, <1>4, ScanMoves
  <1>5. CASE ~(target <= BlkLast(q, ts.blk)) /\ later = {}
    <2>1. m = [ts EXCEPT !.blk = ts.blk, !.fin = TRUE]
      BY <1>2, <1>3, <1>5 DEF TermState
    <2>2. BlkLast(q, ts.blk) \in Nat /\ BlkLast(q, ts.blk) < target /\ ts.blk = Blks(q) - 1
      BY <1>1, <1>2, <1>5 DEF PlacesOK
    <2>3. ASSUME NEW c, NEW y, Place(q, c, y), Cur(ts) <= BlkDoc(q, c, y)
          PROVE  BlkDoc(q, c, y) < target
      <3>1. c \in Nat /\ y \in Nat /\ BlkDoc(q, c, y) \in Nat /\ c < Blks(q)
        BY <1>1, <1>2, <2>3 DEF Place, PlacesOK
      <3>2. ~(c < ts.blk)
        BY <1>1, <2>3, <3>1 DEF PlacesOK
      <3>3. c = ts.blk
        BY <1>2, <2>2, <3>1, <3>2
      <3>4. BlkDoc(q, c, y) <= BlkLast(q, c)
        BY <1>1, <2>3 DEF PlacesOK
      <3> QED BY <2>2, <3>1, <3>3, <3>4
    <2> HIDE DEF m
    <2>4. Moved(ts, m, target)
      BY <1>2, <2>1, <2>3, MoveToEnd
    <2> QED BY <2>4 DEF m
  <1>6. CASE ~(target <= BlkLast(q, ts.blk)) /\ later # {}
    <2> DEFINE S == {Blks(q) - 1} \cup reach
    <2>1. S \in SUBSET Nat /\ S # {} /\ Blks(q) - 1 \in S
      BY <1>2
    <2>2. tb \in S /\ \A y \in S : tb <= y
      <3> HIDE DEF S
      <3>1. Min(S) \in S /\ \A y \in S : Min(S) <= y
        BY <2>1, MinNat
      <3> QED BY <3>1 DEF S
    <2>3. m = scan_block(ts, tb, 0, target)
      BY <1>3, <1>6
    <2>4. Blks(q) - 1 \in later
      BY <1>2, <1>6
    <2>5. tb \in later /\ (tb = Blks(q) - 1 \/ target <= BlkLast(q, tb))
      BY <2>2, <2>4
    <2> HIDE DEF tb, m
    <2>6. ts.blk < tb /\ tb \in 0 .. Blks(q) - 1 /\ tb \in Nat
      BY <1>2, <2>5
    <2>7. ASSUME NEW c \in ts.blk .. tb - 1 PROVE BlkLast(q, c) < target
      <3>1. c \in Nat /\ c < tb /\ c \in 0 .. Blks(q) - 1
        BY <1>2, <2>6
      <3>2. BlkLast(q, c) \in Nat
        BY <1>1, <3>1 DEF PlacesOK
      <3>3. CASE c = ts.blk
        BY <1>6, <3>2, <3>3
      <3>4. CASE c # ts.blk
        <4>1. c \in later
          BY <1>2, <2>6, <3>1, <3>4
        <4>2. c \notin reach
          BY <2>2, <2>6, <3>1
        <4> QED BY <3>2, <4>1, <4>2
      <3> QED BY <3>3, <3>4
    <2>8. BlkLen(q, tb) \in Nat \ {0} /\ 0 \in 0 .. BlkLen(q, tb) - 1
      BY <1>1, <2>6 DEF PlacesOK
    <2> QED BY <2>3, <2>5, <2>6, <2>7, <2>8, ScanMoves DEF m
  <1> QED BY <1>4, <1>5, <1>6

-----------------------------------------------------------------------------
(* Keeping the terms in order *)

(* r is s with the term at ord moved right, in front of position stop. *)
Inserted(s, r, ord, stop, n) ==
    /\ stop \in ord + 1 .. n + 1
    /\ r = [j \in 1 .. n |-> IF j < ord \/ j >= stop THEN s[j] ELSE IF j = stop - 1 THEN s[ord] ELSE s[j + 1]]
    /\ \A j \in ord + 1 .. stop - 1 : Cur(s[j]) < Cur(s[ord])
    /\ stop <= n => Cur(s[ord]) <= Cur(s[stop])

(* restore_ordering takes the moved term to the place where it belongs. *)
LEMMA RestoreInserts ==
    ASSUME NEW n \in Nat, NEW s, s = [j \in 1 .. n |-> s[j]], \A j \in 1 .. n : Cur(s[j]) \in Nat,
           NEW ord \in 1 .. n
    PROVE  \E stop : Inserted(s, restore_ordering(s, ord), ord, stop, n)
  <1> DEFINE later == {j \in ord + 1 .. n : Cur(s[j]) >= Cur(s[ord])}
             S == {n + 1} \cup later
             stop == Min(S)
             r == restore_ordering(s, ord)
  <1>1. Len(s) = n /\ DOMAIN s = 1 .. n
    OBVIOUS
  <1>2. r = [j \in 1 .. n |->
            CASE j < ord \/ j >= stop -> s[j]
              [] j = stop - 1 -> s[ord]
              [] OTHER -> s[j + 1]]
    BY <1>1 DEF restore_ordering, Cur
  <1>3. S \in SUBSET Nat /\ n + 1 \in S
    OBVIOUS
  <1>4. stop \in S /\ \A y \in S : stop <= y
    <2> HIDE DEF S
    <2> QED BY <1>3, MinNat
  <1>5. stop \in ord + 1 .. n + 1
    BY <1>4
  <1>6. stop <= n => Cur(s[ord]) <= Cur(s[stop])
    BY <1>4
  <1> HIDE DEF stop, r
  <1>7. ASSUME NEW j \in ord + 1 .. stop - 1 PROVE Cur(s[j]) < Cur(s[ord])
    <2>1. j \in ord + 1 .. n /\ j < stop
      BY <1>5
    <2>2. j \notin S
      <3> HIDE DEF S
      <3> QED BY <1>4, <1>5, <2>1
    <2>3. ~(Cur(s[j]) >= Cur(s[ord]))
      BY <2>1, <2>2
    <2>4. j \in 1 .. n
      BY <2>1
    <2> QED BY <2>3, <2>4
  <1>8. r = [j \in 1 .. n |-> IF j < ord \/ j >= stop THEN s[j] ELSE IF j = stop - 1 THEN s[ord] ELSE s[j + 1]]
    BY <1>2, <1>5
  <1>9. Inserted(s, r, ord, stop, n)
    BY <1>5, <1>6, <1>7, <1>8 DEF Inserted
  <1> QED BY <1>9 DEF r

(* It loses no term and repeats none. *)
LEMMA InsertedRearranged ==
    ASSUME NEW n \in Nat, NEW s, NEW r, NEW ord \in 1 .. n, NEW stop, Inserted(s, r, ord, stop, n)
    PROVE  Rearranged(s, r, n) /\ r = [j \in 1 .. n |-> r[j]]
  <1> DEFINE f == [j \in 1 .. n |-> IF j < ord \/ j >= stop THEN j ELSE IF j = stop - 1 THEN ord ELSE j + 1]
  <1>1. stop \in ord + 1 .. n + 1
    BY DEF Inserted
  <1>2. f \in [1 .. n -> 1 .. n]
    BY <1>1
  <1>3. \A a, b \in 1 .. n : f[a] = f[b] => a = b
    BY <1>1
  <1>4. \A j \in 1 .. n : r[j] = s[f[j]]
    BY <1>1 DEF Inserted
  <1>5. f \in Perms(n)
    BY <1>2, <1>3 DEF Perms
  <1>6. r = [j \in 1 .. n |-> r[j]]
    BY DEF Inserted
  <1> HIDE DEF f
  <1> QED BY <1>4, <1>5, <1>6 DEF Rearranged

(* The move keeps the order when only the moved term was out of place, to the left. *)
LEMMA InsertedSorted ==
    ASSUME NEW n \in Nat, NEW s, NEW r, NEW ord \in 1 .. n, NEW stop, Inserted(s, r, ord, stop, n),
           \A j \in 1 .. n : Cur(s[j]) \in Nat,
           \A a, b \in 1 .. n : a < b /\ b # ord /\ a # ord => Cur(s[a]) <= Cur(s[b]),
           \A a \in 1 .. n : a < ord => Cur(s[a]) <= Cur(s[ord])
    PROVE  \A a, b \in 1 .. n : a < b => Cur(r[a]) <= Cur(r[b])
  <1>1. /\ stop \in ord + 1 .. n + 1
        /\ \A j \in ord + 1 .. stop - 1 : Cur(s[j]) < Cur(s[ord])
        /\ stop <= n => Cur(s[ord]) <= Cur(s[stop])
    BY DEF Inserted
  <1>2. \A j \in 1 .. n : /\ j < ord \/ j >= stop => r[j] = s[j]
                          /\ j = stop - 1 => r[j] = s[ord]
                          /\ ord <= j /\ j < stop - 1 => r[j] = s[j + 1]
    BY <1>1 DEF Inserted
  <1>3. \A b \in 1 .. n : b >= stop => Cur(s[ord]) <= Cur(s[b])
    <2> SUFFICES ASSUME NEW b \in 1 .. n, b >= stop PROVE Cur(s[ord]) <= Cur(s[b])
      OBVIOUS
    <2>1. stop \in 1 .. n /\ stop # ord /\ b # ord
      BY <1>1
    <2>2. Cur(s[ord]) <= Cur(s[stop])
      BY <1>1, <2>1
    <2>3. b = stop \/ Cur(s[stop]) <= Cur(s[b])
      BY <2>1
    <2> QED BY <2>1, <2>2, <2>3
  <1> SUFFICES ASSUME NEW a \in 1 .. n, NEW b \in 1 .. n, a < b PROVE Cur(r[a]) <= Cur(r[b])
    OBVIOUS
  <1>4. CASE b < ord
    BY <1>1, <1>2, <1>4
  <1>5. CASE a < ord /\ ord <= b /\ b < stop - 1
    <2>1. r[a] = s[a] /\ r[b] = s[b + 1] /\ b + 1 \in 1 .. n /\ a < b + 1 /\ b + 1 # ord /\ a # ord
      BY <1>1, <1>2, <1>5
    <2> QED BY <2>1
  <1>6. CASE a < ord /\ b = stop - 1
    <2>1. r[a] = s[a] /\ r[b] = s[ord]
      BY <1>1, <1>2, <1>6
    <2> QED BY <1>6, <2>1
  <1>7. CASE a < ord /\ b >= stop
    <2>1. r[a] = s[a] /\ r[b] = s[b] /\ b # ord /\ a # ord
      BY <1>1, <1>2, <1>7
    <2> QED BY <2>1
  <1>8. CASE ord <= a /\ a < stop - 1 /\ b < stop - 1
    <2>1. r[a] = s[a + 1] /\ r[b] = s[b + 1] /\ a + 1 \in 1 .. n /\ b + 1 \in 1 .. n /\ a + 1 < b + 1 /\ b + 1 # ord /\ a + 1 # ord
      BY <1>1, <1>2, <1>8
    <2> QED BY <2>1
  <1>9. CASE ord <= a /\ a < stop - 1 /\ b = stop - 1
    <2>1. r[a] = s[a + 1] /\ r[b] = s[ord] /\ a + 1 \in ord + 1 .. stop - 1 /\ a + 1 \in 1 .. n
      BY <1>1, <1>2, <1>9
    <2>2. Cur(s[a + 1]) < Cur(s[ord])
      BY <1>1, <2>1
    <2> QED BY <2>1, <2>2
  <1>10. CASE ord <= a /\ a < stop - 1 /\ b >= stop
    <2>1. r[a] = s[a + 1] /\ r[b] = s[b] /\ a + 1 \in 1 .. n /\ a + 1 < b /\ b # ord /\ a + 1 # ord
      BY <1>1, <1>2, <1>10
    <2> QED BY <2>1
  <1>11. CASE a = stop - 1 /\ b >= stop
    <2>1. r[a] = s[ord] /\ r[b] = s[b]
      BY <1>1, <1>2, <1>11
    <2> QED BY <1>3, <1>11, <2>1
  <1>12. CASE a >= stop
    <2>1. r[a] = s[a] /\ r[b] = s[b] /\ b # ord /\ a # ord
      BY <1>1, <1>2, <1>12
    <2> QED BY <2>1
  <1> QED BY <1>1, <1>4, <1>5, <1>6, <1>7, <1>8, <1>9, <1>10, <1>11, <1>12

(* sort_terms_by_doc_id sorts the terms, loses none and repeats none. *)
LEMMA SortRearranges ==
    ASSUME NEW n \in Nat, NEW s, s = [j \in 1 .. n |-> s[j]], NEW t \in sort_terms_by_doc_id(s)
    PROVE  /\ Rearranged(s, t, n) /\ t = [j \in 1 .. n |-> t[j]]
           /\ \A a, b \in 1 .. n : a < b => Cur(t[a]) <= Cur(t[b])
  <1>1. DOMAIN s = 1 .. n
    OBVIOUS
  <1>2. t \in arrangements(s) /\ sorted_by_doc_id(t)
    BY DEF sort_terms_by_doc_id
  <1>3. PICK f \in {g \in [DOMAIN s -> DOMAIN s] : IsInjective(g)} : t = [j \in DOMAIN s |-> s[f[j]]]
    BY <1>2 DEF arrangements
  <1>4. f \in Perms(n)
    BY <1>1, <1>3 DEF Perms, IsInjective
  <1>5. t = [j \in 1 .. n |-> t[j]] /\ (\A j \in 1 .. n : t[j] = s[f[j]]) /\ DOMAIN t = 1 .. n
    BY <1>1, <1>3
  <1> QED BY <1>2, <1>4, <1>5 DEF Rearranged, sorted_by_doc_id, Cur

(* The term states of the WAND loop: one for each query term, in doc-id order. *)
TermsAre(s) ==
    /\ s = [j \in 1 .. nterms |-> s[j]]
    /\ \A j \in 1 .. nterms : Valid(s[j])
    /\ \A a, b \in 1 .. nterms : s[a].q = s[b].q => a = b
    /\ \A a, b \in 1 .. nterms : a < b => Cur(s[a]) <= Cur(s[b])

(* The terms that have a document left. *)
LiveSet(s) == {j \in 1 .. nterms : s[j].found /\ ~s[j].fin}

LiveStates == {ts \in TermState : ts.found /\ ~ts.fin}

(* The live terms can be counted. *)
LEMMA LiveSetFinite ==
    ASSUME QueryInv, NEW s
    PROVE  IsFiniteSet(LiveSet(s)) /\ Cardinality(LiveSet(s)) \in 0 .. nterms
  <1>1. nterms \in Nat
    BY DEF QueryInv
  <1>2. LiveSet(s) \subseteq 1 .. nterms
    BY DEF LiveSet
  <1>3. IsFiniteSet(1 .. nterms) /\ Cardinality(1 .. nterms) = nterms
    BY <1>1, IntervalCard
  <1>4. IsFiniteSet(LiveSet(s)) /\ Cardinality(LiveSet(s)) <= nterms
    BY <1>2, <1>3, FS_Subset
  <1>5. Cardinality(LiveSet(s)) \in Nat
    BY <1>4, FS_CardinalityType
  <1> QED BY <1>1, <1>4, <1>5

(* How many terms are live does not depend on their order. *)
LEMMA RearrangedLive ==
    ASSUME QueryInv, NEW s, NEW r, Rearranged(s, r, nterms), \A j \in 1 .. nterms : Valid(s[j])
    PROVE  /\ Cardinality(LiveSet(r)) = Cardinality(LiveSet(s))
           /\ \A j \in 1 .. nterms : Valid(r[j])
  <1>1. PICK f \in Perms(nterms) : \A j \in 1 .. nterms : r[j] = s[f[j]]
    BY DEF Rearranged
  <1>2. f \in [1 .. nterms -> 1 .. nterms]
    BY DEF Perms
  <1>3. \A j \in 1 .. nterms : Valid(r[j])
    BY <1>1, <1>2
  <1>4. LiveSet(s) = Among(s, nterms, LiveStates)
    BY DEF LiveSet, LiveStates, Valid, Among
  <1>5. LiveSet(r) = Among(r, nterms, LiveStates)
    BY <1>3 DEF LiveSet, LiveStates, Valid, Among
  <1>6. Cardinality(Among(r, nterms, LiveStates)) = Cardinality(Among(s, nterms, LiveStates))
    <2>1. nterms \in Nat
      BY DEF QueryInv
    <2> QED BY <2>1, RearrangedCard
  <1> QED BY <1>3, <1>4, <1>5, <1>6

(* Rearranged terms are still one for each query term. *)
LEMMA RearrangedDistinct ==
    ASSUME NEW n \in Nat, NEW s, NEW r, Rearranged(s, r, n), \A a, b \in 1 .. n : s[a].q = s[b].q => a = b
    PROVE  \A a, b \in 1 .. n : r[a].q = r[b].q => a = b
  BY DEF Rearranged, Perms

(* Where the terms are after the one at o has moved on. *)
Step(s, r, o, m) ==
    \A j \in 1 .. nterms : r[j] = m \/ \E k \in 1 .. nterms : k # o /\ r[j] = s[k]

(* Moving one term and restoring the order keeps the terms sorted, and the count of live
   ones falls by one exactly when the moved term is finished. *)
LEMMA TermMoves ==
    ASSUME QueryInv, InSegment, NEW s, TermsAre(s), NEW o \in 1 .. nterms, ~s[o].fin,
           NEW target, NEW m, Moved(s[o], m, target)
    PROVE  LET u == [s EXCEPT ![o] = m]
               r == restore_ordering(u, o)
           IN  /\ TermsAre(r)
               /\ \E stop : Inserted(u, r, o, stop, nterms)
               /\ Cardinality(LiveSet(r)) = Cardinality(LiveSet(s)) - drop(m)
               /\ Step(s, r, o, m)
  <1> DEFINE u == [s EXCEPT ![o] = m]
             r == restore_ordering(u, o)
  <1>n. nterms \in Nat
    BY DEF QueryInv
  <1>1. /\ s = [j \in 1 .. nterms |-> s[j]]
        /\ \A j \in 1 .. nterms : Valid(s[j]) /\ Cur(s[j]) \in Nat
        /\ \A a, b \in 1 .. nterms : s[a].q = s[b].q => a = b
        /\ \A a, b \in 1 .. nterms : a < b => Cur(s[a]) <= Cur(s[b])
    BY CurType DEF TermsAre
  <1>2. Valid(m) /\ m.q = s[o].q /\ m.found = s[o].found /\ Cur(s[o]) <= Cur(m) /\ Cur(m) \in Nat
        /\ (m.fin = TRUE \/ m.fin = FALSE)
    BY CurType DEF Moved
  <1>3. /\ u = [j \in 1 .. nterms |-> u[j]] /\ u[o] = m
        /\ \A j \in 1 .. nterms : j # o => u[j] = s[j]
    BY <1>1
  <1> HIDE DEF u, r
  <1>4. \A j \in 1 .. nterms : Valid(u[j]) /\ Cur(u[j]) \in Nat /\ u[j].q = s[j].q
    BY <1>1, <1>2, <1>3
  <1>5. PICK stop : Inserted(u, r, o, stop, nterms)
    BY <1>n, <1>3, <1>4, RestoreInserts DEF r
  <1>6. Rearranged(u, r, nterms) /\ r = [j \in 1 .. nterms |-> r[j]]
    BY <1>n, <1>5, InsertedRearranged
  <1>7. \A a, b \in 1 .. nterms : a < b => Cur(r[a]) <= Cur(r[b])
    <2>1. \A a, b \in 1 .. nterms : a < b /\ b # o /\ a # o => Cur(u[a]) <= Cur(u[b])
      BY <1>1, <1>3
    <2>2. \A a \in 1 .. nterms : a < o => Cur(u[a]) <= Cur(u[o])
      <3> SUFFICES ASSUME NEW a \in 1 .. nterms, a < o PROVE Cur(u[a]) <= Cur(u[o])
        OBVIOUS
      <3>1. u[a] = s[a] /\ Cur(s[a]) <= Cur(s[o]) /\ Cur(s[a]) \in Nat /\ Cur(s[o]) \in Nat
        BY <1>1, <1>3
      <3> QED BY <1>2, <1>3, <3>1
    <2>3. \A j \in 1 .. nterms : Cur(u[j]) \in Nat
      BY <1>4
    <2> QED BY <1>n, <1>5, <2>1, <2>2, <2>3, InsertedSorted
  <1>8. \A j \in 1 .. nterms : Valid(u[j])
    BY <1>4
  <1>9. Cardinality(LiveSet(r)) = Cardinality(LiveSet(u)) /\ \A j \in 1 .. nterms : Valid(r[j])
    BY <1>6, <1>8, RearrangedLive
  <1>10. \A a, b \in 1 .. nterms : r[a].q = r[b].q => a = b
    <2>1. \A a, b \in 1 .. nterms : u[a].q = u[b].q => a = b
      BY <1>1, <1>4
    <2> QED BY <1>n, <1>6, <2>1, RearrangedDistinct
  <1>11. TermsAre(r)
    BY <1>6, <1>7, <1>9, <1>10 DEF TermsAre
  <1>12. Step(s, r, o, m)
    <2>1. PICK f \in Perms(nterms) : \A j \in 1 .. nterms : r[j] = u[f[j]]
      BY <1>6 DEF Rearranged
    <2>2. f \in [1 .. nterms -> 1 .. nterms]
      BY DEF Perms
    <2> SUFFICES ASSUME NEW j \in 1 .. nterms PROVE r[j] = m \/ \E k \in 1 .. nterms : k # o /\ r[j] = s[k]
      BY DEF Step
    <2>3. f[j] \in 1 .. nterms /\ r[j] = u[f[j]]
      BY <2>1, <2>2
    <2> QED BY <1>3, <2>3
  <1>13. Cardinality(LiveSet(u)) = Cardinality(LiveSet(s)) - drop(m)
    <2>1. s[o].found
      BY <1>1, CurType
    <2>2. CASE ~m.fin
      <3>1. LiveSet(u) = LiveSet(s)
        <4>1. ASSUME NEW j \in 1 .. nterms PROVE j \in LiveSet(u) <=> j \in LiveSet(s)
          <5>1. CASE j = o
            BY <1>2, <1>3, <2>1, <2>2, <5>1 DEF LiveSet
          <5>2. CASE j # o
            BY <1>3, <5>2 DEF LiveSet
          <5> QED BY <5>1, <5>2
        <4> QED BY <4>1 DEF LiveSet
      <3>2. drop(m) = 0 /\ Cardinality(LiveSet(s)) \in Nat
        BY <2>2, LiveSetFinite, <1>n DEF drop
      <3> QED BY <3>1, <3>2
    <2>3. CASE m.fin
      <3>1. LiveSet(u) = LiveSet(s) \ {o} /\ o \in LiveSet(s)
        <4>1. ASSUME NEW j \in 1 .. nterms PROVE j \in LiveSet(u) <=> j \in LiveSet(s) /\ j # o
          <5>1. CASE j = o
            BY <1>2, <1>3, <2>1, <2>3, <5>1 DEF LiveSet
          <5>2. CASE j # o
            BY <1>3, <5>2 DEF LiveSet
          <5> QED BY <5>1, <5>2
        <4>2. o \in LiveSet(s)
          BY <2>1 DEF LiveSet
        <4> QED BY <4>1, <4>2 DEF LiveSet
      <3>2. IsFiniteSet(LiveSet(s))
        BY LiveSetFinite
      <3>3. Cardinality(LiveSet(u)) = Cardinality(LiveSet(s)) - 1
        BY <3>1, <3>2, FS_RemoveElement
      <3> QED BY <2>3, <3>3 DEF drop
    <2> QED BY <1>2, <2>2, <2>3
  <1> QED BY <1>5, <1>9, <1>11, <1>12, <1>13 DEF u, r

-----------------------------------------------------------------------------
(* The heap *)

(* A sequence is a rearrangement of itself. *)
LEMMA RearrangedRefl ==
    ASSUME NEW n \in Nat, NEW s
    PROVE  Rearranged(s, s, n)
  <1>1. [j \in 1 .. n |-> j] \in Perms(n)
    BY DEF Perms
  <1>2. \A j \in 1 .. n : s[j] = s[[x \in 1 .. n |-> x][j]]
    OBVIOUS
  <1> QED BY <1>1, <1>2, Zenon DEF Rearranged

(* Rearranging twice is rearranging. *)
LEMMA RearrangedTrans ==
    ASSUME NEW n \in Nat, NEW s, NEW t, NEW u, Rearranged(s, t, n), Rearranged(t, u, n)
    PROVE  Rearranged(s, u, n)
  <1>1. PICK f \in Perms(n) : \A j \in 1 .. n : t[j] = s[f[j]]
    BY DEF Rearranged
  <1>2. PICK g \in Perms(n) : \A j \in 1 .. n : u[j] = t[g[j]]
    BY DEF Rearranged
  <1> DEFINE fg == [j \in 1 .. n |-> f[g[j]]]
  <1>3. fg \in Perms(n)
    BY <1>1, <1>2 DEF Perms
  <1>4. \A j \in 1 .. n : u[j] = s[fg[j]]
    BY <1>1, <1>2 DEF Perms
  <1> HIDE DEF fg
  <1> QED BY <1>3, <1>4 DEF Rearranged

(* A memtable entry knows its ctid, a segment entry its segment and doc id. *)
Entry ==
    {e \in [score : Nat, ctid : Nat, seg : Nat, doc : Nat] :
        \/ e.ctid # NoCtid /\ e.seg = NoSegment /\ e.doc = 0
        \/ e.ctid = NoCtid /\ e.seg < NoSegment}

(* w is h with two entries swapped. *)
Swapped(h, w, a, b, n) ==
    /\ w \in [1 .. n -> Entry] /\ Rearranged(h, w, n)
    /\ \A j \in 1 .. n : w[j] = IF j = a THEN h[b] ELSE IF j = b THEN h[a] ELSE h[j]

(* heap_swap rearranges the heap. *)
LEMMA SwapRearranged ==
    ASSUME NEW n \in Nat, NEW h \in [1 .. n -> Entry], NEW a \in 1 .. n, NEW b \in 1 .. n
    PROVE  Swapped(h, heap_swap(h, a, b), a, b, n)
  <1> DEFINE f == [j \in 1 .. n |-> IF j = a THEN b ELSE IF j = b THEN a ELSE j]
             s == heap_swap(h, a, b)
  <1>1. f \in Perms(n)
    BY DEF Perms
  <1>2. s \in [1 .. n -> Entry] /\ \A j \in 1 .. n : s[j] = IF j = a THEN h[b] ELSE IF j = b THEN h[a] ELSE h[j]
    BY DEF heap_swap
  <1>3. \A j \in 1 .. n : s[j] = h[f[j]]
    BY <1>2
  <1> HIDE DEF f, s
  <1>4. Rearranged(h, s, n)
    BY <1>1, <1>3 DEF Rearranged
  <1>5. Swapped(h, s, a, b, n)
    BY <1>2, <1>4 DEF Swapped
  <1> QED BY <1>5 DEF s

(* y is not weaker than x. *)
Weaker(x, y) == ~heap_less(y, x)

(* heap_less compares any mix of entries consistently. *)
LEMMA WeakerOrder ==
    ASSUME NEW x \in Entry, NEW y \in Entry, NEW z \in Entry
    PROVE  /\ Weaker(x, x)
           /\ heap_less(x, y) => Weaker(x, y)
           /\ Weaker(x, y) /\ Weaker(y, z) => Weaker(x, z)
           /\ Weaker(x, y) => x.score <= y.score
  <1>1. /\ x.score \in Nat /\ x.ctid \in Nat /\ x.seg \in Nat /\ x.doc \in Nat
        /\ (x.ctid # NoCtid /\ x.seg = NoSegment /\ x.doc = 0) \/ (x.ctid = NoCtid /\ x.seg < NoSegment)
    BY DEF Entry
  <1>2. /\ y.score \in Nat /\ y.ctid \in Nat /\ y.seg \in Nat /\ y.doc \in Nat
        /\ (y.ctid # NoCtid /\ y.seg = NoSegment /\ y.doc = 0) \/ (y.ctid = NoCtid /\ y.seg < NoSegment)
    BY DEF Entry
  <1>3. /\ z.score \in Nat /\ z.ctid \in Nat /\ z.seg \in Nat /\ z.doc \in Nat
        /\ (z.ctid # NoCtid /\ z.seg = NoSegment /\ z.doc = 0) \/ (z.ctid = NoCtid /\ z.seg < NoSegment)
    BY DEF Entry
  <1>4. NoSegment \in Nat /\ NoCtid \in Nat
    BY LimitsAssumption, DocIdAssumption
  <1>5. Weaker(x, x)
    BY <1>1, <1>4 DEF Weaker, heap_less
  <1>6. heap_less(x, y) => Weaker(x, y)
    BY <1>1, <1>2, <1>4 DEF Weaker, heap_less
  <1>7. Weaker(x, y) /\ Weaker(y, z) => Weaker(x, z)
    BY <1>1, <1>2, <1>3, <1>4 DEF Weaker, heap_less
  <1>8. Weaker(x, y) => x.score <= y.score
    BY <1>1, <1>2 DEF Weaker, heap_less
  <1> QED BY <1>5, <1>6, <1>7, <1>8

(* The arithmetic of the tree. *)
LEMMA Half ==
    ASSUME NEW j \in Nat, j >= 2
    PROVE  j \div 2 \in Nat /\ 1 <= j \div 2 /\ j \div 2 < j
  OBVIOUS

(* The children of a position. *)
LEMMA HalfOf ==
    ASSUME NEW j \in Nat, NEW p \in Nat
    PROVE  j \div 2 = p <=> j = 2 * p \/ j = 2 * p + 1
  OBVIOUS

(* A heap of n entries: no child is weaker than its parent. *)
Heap(h, n) == h \in [1 .. n -> Entry] /\ \A j \in 2 .. n : Weaker(h[j \div 2], h[j])

(* The root of a heap is its weakest result: the threshold that all pruning uses is the
   lowest score held. *)
LEMMA RootWeakest ==
    ASSUME NEW n \in Nat, NEW h, Heap(h, n), NEW j \in 1 .. n
    PROVE  Weaker(h[1], h[j]) /\ h[1].score <= h[j].score /\ h[1] \in Entry /\ h[j] \in Entry
  <1> DEFINE G == {m \in Nat : \A x \in 1 .. n : x <= m => Weaker(h[1], h[x])}
  <1>0. \A x \in 1 .. n : h[x] \in Entry
    BY DEF Heap
  <1>1. 0 \in G
    OBVIOUS
  <1>2. ASSUME NEW m \in Nat, m \in G PROVE m + 1 \in G
    <2> SUFFICES ASSUME NEW x \in 1 .. n, x <= m + 1 PROVE Weaker(h[1], h[x])
      OBVIOUS
    <2>1. CASE x = 1
      BY <1>0, <2>1, WeakerOrder
    <2>2. CASE x # 1
      <3>1. x \in Nat /\ x >= 2
        BY <2>2
      <3>2. x \div 2 \in Nat /\ 1 <= x \div 2 /\ x \div 2 < x
        BY <3>1, Half
      <3>3. PICK y \in Nat : y = x \div 2
        BY <3>2
      <3>4. y \in 1 .. n /\ y <= m
        BY <3>2, <3>3
      <3>5. Weaker(h[1], h[y])
        BY <1>2, <3>4
      <3>6. Weaker(h[y], h[x])
        BY <3>1, <3>3 DEF Heap
      <3>7. h[1] \in Entry /\ h[y] \in Entry /\ h[x] \in Entry
        BY <1>0, <3>4
      <3> QED BY <3>5, <3>6, <3>7, WeakerOrder
    <2> QED BY <2>1, <2>2
  <1>3. n \in G
    <2> HIDE DEF G
    <2> QED BY <1>1, <1>2, NatSetInduction
  <1>4. Weaker(h[1], h[j])
    BY <1>3
  <1>5. h[1] \in Entry /\ h[j] \in Entry
    BY <1>0
  <1> QED BY <1>4, <1>5, WeakerOrder

(* One iteration of heap_sift_up. *)
UpStep(g, p) == IF p > 1 /\ heap_less(g[p], g[p \div 2]) THEN <<heap_swap(g, p, p \div 2), p \div 2>> ELSE <<g, p>>

(* step holds the iterations of heap_sift_up. *)
IsUp(step, h, k, n) == step = [m \in 0 .. n |-> IF m = 0 THEN <<h, k>> ELSE UpStep(step[m - 1][1], step[m - 1][2])]

(* The loop of heap_sift_up, as a sequence of its iterations. *)
LEMMA UpExists ==
    ASSUME NEW h, Len(h) \in Nat, NEW k
    PROVE  \E step : IsUp(step, h, k, Len(h)) /\ heap_sift_up(h, k) = step[Len(h)][1]
  <1> DEFINE G == {n \in Nat : \E s : IsUp(s, h, k, n)}
  <1>1. 0 \in G
    <2>1. IsUp([m \in 0 .. 0 |-> <<h, k>>], h, k, 0)
      BY DEF IsUp
    <2> QED BY <2>1
  <1>2. \A n \in Nat : n \in G => n + 1 \in G
    <2> SUFFICES ASSUME NEW n \in Nat, NEW s, IsUp(s, h, k, n)
                 PROVE  \E t : IsUp(t, h, k, n + 1)
      OBVIOUS
    <2> DEFINE t == [m \in 0 .. n + 1 |-> IF m = n + 1 THEN UpStep(s[n][1], s[n][2]) ELSE s[m]]
    <2>1. s = [m \in 0 .. n |-> IF m = 0 THEN <<h, k>> ELSE UpStep(s[m - 1][1], s[m - 1][2])]
      BY DEF IsUp
    <2>2. ASSUME NEW m \in 0 .. n + 1
          PROVE  t[m] = IF m = 0 THEN <<h, k>> ELSE UpStep(t[m - 1][1], t[m - 1][2])
      BY <2>1
    <2>3. t = [m \in 0 .. n + 1 |-> t[m]]
      OBVIOUS
    <2> HIDE DEF t
    <2>4. IsUp(t, h, k, n + 1)
      BY <2>2, <2>3 DEF IsUp
    <2> QED BY <2>4
  <1>3. Len(h) \in G
    <2> HIDE DEF G
    <2> QED BY <1>1, <1>2, NatSetInduction
  <1> DEFINE step[n \in 0 .. Len(h)] ==
            IF n = 0 THEN <<h, k>>
            ELSE LET g == step[n - 1][1]
                     p == step[n - 1][2]
                 IN  IF p > 1 /\ heap_less(g[p], g[p \div 2])
                     THEN <<heap_swap(g, p, p \div 2), p \div 2>> ELSE <<g, p>>
  <1>5. IsUp(step, h, k, Len(h))
    BY <1>3 DEF IsUp, UpStep
  <1>6. heap_sift_up(h, k) = step[Len(h)][1]
    BY DEF heap_sift_up
  <1> HIDE DEF step
  <1> QED BY <1>5, <1>6

(* While p is sifted up: only p may be weaker than its parent. *)
UpInv(h, g, p, n) ==
    /\ g \in [1 .. n -> Entry] /\ p \in 1 .. n /\ Rearranged(h, g, n)
    /\ \A j \in 2 .. n : j # p => Weaker(g[j \div 2], g[j])
    /\ p > 1 => \A j \in 2 .. n : j \div 2 = p => Weaker(g[p \div 2], g[j])

(* The sift has ended. *)
UpDone(g, p) == p = 1 \/ Weaker(g[p \div 2], g[p])

(* An iteration of heap_sift_up leaves only the sifted entry out of place, and moves it up. *)
LEMMA UpKeeps ==
    ASSUME NEW n \in Nat, NEW h, NEW g, NEW p, UpInv(h, g, p, n)
    PROVE  LET s == UpStep(g, p)
           IN  /\ UpInv(h, s[1], s[2], n)
               /\ UpDone(g, p) => s = <<g, p>>
               /\ ~UpDone(g, p) => s[2] < p
  <1>0. /\ g \in [1 .. n -> Entry] /\ p \in 1 .. n /\ Rearranged(h, g, n)
        /\ \A j \in 2 .. n : j # p => Weaker(g[j \div 2], g[j])
        /\ p > 1 => \A j \in 2 .. n : j \div 2 = p => Weaker(g[p \div 2], g[j])
    BY DEF UpInv
  <1>1. CASE UpDone(g, p)
    <2>1. UpStep(g, p) = <<g, p>>
      BY <1>0, <1>1 DEF UpDone, UpStep, Weaker
    <2> QED BY <1>1, <2>1
  <1>2. CASE ~UpDone(g, p)
    <2>1. p > 1 /\ heap_less(g[p], g[p \div 2]) /\ p \in Nat /\ p >= 2
      BY <1>0, <1>2 DEF UpDone, Weaker
    <2>2. PICK r \in Nat : r = p \div 2 /\ 1 <= r /\ r < p
      BY <2>1, Half
    <2> DEFINE w == heap_swap(g, p, r)
    <2>3. UpStep(g, p) = <<w, r>>
      BY <2>1, <2>2 DEF UpStep
    <2>4. r \in 1 .. n
      BY <1>0, <2>2
    <2>5. /\ Rearranged(g, w, n) /\ w \in [1 .. n -> Entry]
          /\ \A j \in 1 .. n : w[j] = IF j = p THEN g[r] ELSE IF j = r THEN g[p] ELSE g[j]
      <3>1. g \in [1 .. n -> Entry] /\ p \in 1 .. n
        BY <1>0
      <3>2. Swapped(g, w, p, r, n)
        BY <2>4, <3>1, SwapRearranged
      <3> QED BY <3>2 DEF Swapped
    <2> HIDE DEF w
    <2>6. Rearranged(h, w, n)
      BY <1>0, <2>5, RearrangedTrans
    <2>7. \A j \in 1 .. n : g[j] \in Entry
      BY <1>0
    <2>8. ASSUME NEW j \in 2 .. n, j # r PROVE Weaker(w[j \div 2], w[j])
      <3>1. PICK q \in Nat : q = j \div 2 /\ 1 <= q /\ q < j
        BY Half
      <3>2. q \in 1 .. n /\ j \in 1 .. n
        BY <3>1
      <3>3. CASE j = p
        <4>1. w[j] = g[r] /\ w[q] = g[p] /\ q = r
          BY <2>2, <2>5, <3>1, <3>2, <3>3
        <4> QED BY <1>0, <2>1, <2>2, <2>4, <2>7, <3>1, <4>1, WeakerOrder
      <3>4. CASE j # p /\ q = p
        <4>1. w[j] = g[j] /\ w[q] = g[r]
          BY <2>5, <2>8, <3>2, <3>4
        <4>2. Weaker(g[p \div 2], g[j])
          BY <1>0, <2>1, <3>1, <3>4
        <4> QED BY <2>2, <3>1, <4>1, <4>2
      <3>5. CASE j # p /\ q = r
        <4>1. w[j] = g[j] /\ w[q] = g[p]
          BY <2>2, <2>5, <2>8, <3>2, <3>5
        <4>2. Weaker(g[r], g[j])
          BY <1>0, <3>1, <3>5
        <4>3. Weaker(g[p], g[r])
          BY <1>0, <2>1, <2>2, <2>4, <2>7, WeakerOrder
        <4>4. Weaker(g[p], g[j])
          BY <1>0, <2>4, <2>7, <3>2, <4>2, <4>3, WeakerOrder
        <4> QED BY <3>1, <4>1, <4>4
      <3>6. CASE j # p /\ q # p /\ q # r
        <4>1. w[j] = g[j] /\ w[q] = g[q]
          BY <2>5, <2>8, <3>2, <3>6
        <4>2. Weaker(g[q], g[j])
          BY <1>0, <3>1, <3>6
        <4> QED BY <3>1, <4>1, <4>2
      <3> QED BY <3>3, <3>4, <3>5, <3>6
    <2>9. ASSUME r > 1, NEW j \in 2 .. n, j \div 2 = r PROVE Weaker(w[r \div 2], w[j])
      <3>1. PICK q \in Nat : q = r \div 2 /\ 1 <= q /\ q < r
        BY <2>2, <2>9, Half
      <3>2. q \in 1 .. n /\ j \in 1 .. n /\ q # p /\ q # r /\ j # r
        BY <2>2, <2>4, <2>9, <3>1, Half
      <3>3. w[q] = g[q]
        BY <2>5, <3>2
      <3>4. Weaker(g[q], g[r])
        <4>1. r \in 2 .. n /\ r # p
          BY <2>2, <2>4, <2>9
        <4> QED BY <1>0, <3>1, <4>1
      <3>5. CASE j = p
        <4>1. w[j] = g[r]
          BY <2>5, <3>2, <3>5
        <4> QED BY <3>1, <3>3, <3>4, <4>1
      <3>6. CASE j # p
        <4>1. w[j] = g[j]
          BY <2>5, <3>2, <3>6
        <4>2. Weaker(g[r], g[j])
          BY <1>0, <2>9, <3>6
        <4>3. Weaker(g[q], g[j])
          BY <2>4, <2>7, <3>2, <3>4, <4>2, WeakerOrder
        <4> QED BY <3>1, <3>3, <4>1, <4>3
      <3> QED BY <3>5, <3>6
    <2>10. UpInv(h, w, r, n)
      BY <2>4, <2>5, <2>6, <2>8, <2>9 DEF UpInv
    <2> QED BY <1>2, <2>2, <2>3, <2>10
  <1> QED BY <1>1, <1>2

(* heap_sift_up ends with a heap of the same entries. *)
LEMMA SiftUp ==
    ASSUME NEW n \in Nat, NEW h \in [1 .. n -> Entry], NEW k \in 1 .. n, UpInv(h, h, k, n)
    PROVE  Heap(heap_sift_up(h, k), n) /\ Rearranged(h, heap_sift_up(h, k), n)
  <1>1. Len(h) = n
    OBVIOUS
  <1>2. PICK step : IsUp(step, h, k, n) /\ heap_sift_up(h, k) = step[n][1]
    BY <1>1, UpExists
  <1>3. step[0] = <<h, k>> /\ \A m \in Nat : m < n => step[m + 1] = UpStep(step[m][1], step[m][2])
    <2>1. step[0] = <<h, k>>
      BY <1>2 DEF IsUp
    <2>2. ASSUME NEW m \in Nat, m < n PROVE step[m + 1] = UpStep(step[m][1], step[m][2])
      <3>1. m + 1 \in 0 .. n /\ m + 1 # 0 /\ (m + 1) - 1 = m
        BY <2>2
      <3>2. step[m + 1] = UpStep(step[(m + 1) - 1][1], step[(m + 1) - 1][2])
        BY <1>2, <3>1 DEF IsUp
      <3> QED BY <3>1, <3>2
    <2> QED BY <2>1, <2>2
  <1> DEFINE good(m) == /\ UpInv(h, step[m][1], step[m][2], n)
                        /\ UpDone(step[m][1], step[m][2]) \/ step[m][2] + m <= k
             G == {m \in Nat : m <= n => good(m)}
  <1>4. 0 \in G
    BY <1>3
  <1>5. ASSUME NEW m \in Nat, m \in G PROVE m + 1 \in G
    <2>0. m + 1 \in Nat
      OBVIOUS
    <2> SUFFICES ASSUME m + 1 <= n PROVE good(m + 1)
      BY <2>0, Zenon
    <2>1. m < n /\ m <= n /\ good(m)
      BY <1>5
    <2> DEFINE g == step[m][1]
               p == step[m][2]
               s == UpStep(g, p)
    <2>2. step[m + 1] = s
      BY <1>3, <2>1
    <2>i. UpInv(h, g, p, n) /\ (UpDone(g, p) \/ p + m <= k)
      BY <2>1
    <2> HIDE DEF s, g, p
    <2>3. /\ UpInv(h, s[1], s[2], n)
          /\ UpDone(g, p) => s = <<g, p>>
          /\ ~UpDone(g, p) => s[2] < p
      BY <2>i, UpKeeps DEF s
    <2>4. p \in Nat /\ s[2] \in Nat
      BY <2>i, <2>3 DEF UpInv
    <2>5. UpDone(s[1], s[2]) \/ s[2] + (m + 1) <= k
      <3>1. CASE UpDone(g, p)
        BY <2>3, <3>1
      <3>2. CASE ~UpDone(g, p)
        BY <2>i, <2>3, <2>4, <3>2
      <3> QED BY <3>1, <3>2
    <2> QED BY <2>2, <2>3, <2>5
  <1>6. n \in G
    <2> HIDE DEF G
    <2> QED BY <1>4, <1>5, NatSetInduction
  <1> DEFINE g == step[n][1]
             p == step[n][2]
  <1>7. UpInv(h, g, p, n) /\ (UpDone(g, p) \/ p + n <= k)
    BY <1>6
  <1> HIDE DEF g, p
  <1>8. p \in 1 .. n /\ g \in [1 .. n -> Entry] /\ Rearranged(h, g, n)
        /\ \A j \in 2 .. n : j # p => Weaker(g[j \div 2], g[j])
    BY <1>7 DEF UpInv
  <1>9. UpDone(g, p)
    BY <1>7, <1>8
  <1>10. Heap(g, n)
    BY <1>8, <1>9 DEF Heap, UpDone
  <1> QED BY <1>2, <1>8, <1>10 DEF g

(* One iteration of heap_sift_down. *)
WeakerOf(g, a, b) == IF a <= Len(g) /\ heap_less(g[a], g[b]) THEN a ELSE b
Smallest(g, p) == WeakerOf(g, 2 * p + 1, WeakerOf(g, 2 * p, p))
DownStep(g, p) == <<heap_swap(g, p, Smallest(g, p)), Smallest(g, p)>>

(* step holds the iterations of heap_sift_down. *)
IsDown(step, h, k, n) == step = [m \in 0 .. n |-> IF m = 0 THEN <<h, k>> ELSE DownStep(step[m - 1][1], step[m - 1][2])]

(* The loop of heap_sift_down, as a sequence of its iterations. *)
LEMMA DownExists ==
    ASSUME NEW h, Len(h) \in Nat, NEW k
    PROVE  \E step : IsDown(step, h, k, Len(h)) /\ heap_sift_down(h, k) = step[Len(h)][1]
  <1> DEFINE G == {n \in Nat : \E s : IsDown(s, h, k, n)}
  <1>1. 0 \in G
    <2>1. IsDown([m \in 0 .. 0 |-> <<h, k>>], h, k, 0)
      BY DEF IsDown
    <2> QED BY <2>1
  <1>2. \A n \in Nat : n \in G => n + 1 \in G
    <2> SUFFICES ASSUME NEW n \in Nat, NEW s, IsDown(s, h, k, n)
                 PROVE  \E t : IsDown(t, h, k, n + 1)
      OBVIOUS
    <2> DEFINE t == [m \in 0 .. n + 1 |-> IF m = n + 1 THEN DownStep(s[n][1], s[n][2]) ELSE s[m]]
    <2>1. s = [m \in 0 .. n |-> IF m = 0 THEN <<h, k>> ELSE DownStep(s[m - 1][1], s[m - 1][2])]
      BY DEF IsDown
    <2>2. ASSUME NEW m \in 0 .. n + 1
          PROVE  t[m] = IF m = 0 THEN <<h, k>> ELSE DownStep(t[m - 1][1], t[m - 1][2])
      BY <2>1
    <2>3. t = [m \in 0 .. n + 1 |-> t[m]]
      OBVIOUS
    <2> HIDE DEF t
    <2>4. IsDown(t, h, k, n + 1)
      BY <2>2, <2>3 DEF IsDown
    <2> QED BY <2>4
  <1>3. Len(h) \in G
    <2> HIDE DEF G
    <2> QED BY <1>1, <1>2, NatSetInduction
  <1> DEFINE weaker(g, a, b) == IF a <= Len(g) /\ heap_less(g[a], g[b]) THEN a ELSE b
             smallest(g, p) == weaker(g, 2 * p + 1, weaker(g, 2 * p, p))
             step[n \in 0 .. Len(h)] ==
                IF n = 0 THEN <<h, k>>
                ELSE LET g == step[n - 1][1]
                         p == step[n - 1][2]
                     IN  <<heap_swap(g, p, smallest(g, p)), smallest(g, p)>>
  <1>5. IsDown(step, h, k, Len(h))
    BY <1>3 DEF IsDown, DownStep, Smallest, WeakerOf
  <1>6. heap_sift_down(h, k) = step[Len(h)][1]
    BY DEF heap_sift_down
  <1> HIDE DEF step
  <1> QED BY <1>5, <1>6

(* While p is sifted down: only children of p may be weaker than it. *)
DownInv(h, g, p, n) ==
    /\ g \in [1 .. n -> Entry] /\ p \in 1 .. n /\ Rearranged(h, g, n)
    /\ \A j \in 2 .. n : j \div 2 # p => Weaker(g[j \div 2], g[j])
    /\ p > 1 => \A j \in 2 .. n : j \div 2 = p => Weaker(g[p \div 2], g[j])

(* The sift has ended. *)
DownDone(g, p, n) == \A j \in 2 .. n : j \div 2 = p => Weaker(g[p], g[j])

(* Smallest finds the weakest of p and its children. *)
LEMMA SmallestOf ==
    ASSUME NEW n \in Nat, NEW g \in [1 .. n -> Entry], NEW p \in 1 .. n
    PROVE  /\ Smallest(g, p) \in 1 .. n
           /\ Smallest(g, p) = p \/ (Smallest(g, p) \div 2 = p /\ Smallest(g, p) > p /\ heap_less(g[Smallest(g, p)], g[p]))
           /\ \A j \in 2 .. n : j \div 2 = p => Weaker(g[Smallest(g, p)], g[j])
           /\ Weaker(g[Smallest(g, p)], g[p])
  <1> DEFINE a == WeakerOf(g, 2 * p, p)
             b == WeakerOf(g, 2 * p + 1, a)
  <1>0. Len(g) = n /\ Smallest(g, p) = b /\ p \in Nat /\ p >= 1 /\ p <= n
    BY DEF Smallest
  <1>e. \A j \in 1 .. n : g[j] \in Entry
    OBVIOUS
  <1>1. /\ a \in 1 .. n /\ (a = p \/ (a = 2 * p /\ heap_less(g[a], g[p])))
        /\ 2 * p <= n => Weaker(g[a], g[2 * p])
        /\ Weaker(g[a], g[p])
    <2>1. CASE 2 * p <= n /\ heap_less(g[2 * p], g[p])
      <3>1. a = 2 * p /\ 2 * p \in 1 .. n
        BY <1>0, <2>1 DEF WeakerOf
      <3> QED BY <1>e, <2>1, <3>1, WeakerOrder
    <2>2. CASE ~(2 * p <= n /\ heap_less(g[2 * p], g[p]))
      <3>1. a = p
        BY <1>0, <2>2 DEF WeakerOf
      <3>2. 2 * p <= n => Weaker(g[a], g[2 * p])
        BY <2>2, <3>1 DEF Weaker
      <3> QED BY <1>e, <3>1, <3>2, WeakerOrder
    <2> QED BY <2>1, <2>2
  <1> HIDE DEF a
  <1>2. /\ b \in 1 .. n /\ (b = a \/ (b = 2 * p + 1 /\ heap_less(g[b], g[a])))
        /\ 2 * p + 1 <= n => Weaker(g[b], g[2 * p + 1])
        /\ Weaker(g[b], g[a])
    <2>1. CASE 2 * p + 1 <= n /\ heap_less(g[2 * p + 1], g[a])
      <3>1. b = 2 * p + 1 /\ 2 * p + 1 \in 1 .. n
        BY <1>0, <2>1 DEF WeakerOf
      <3> QED BY <1>1, <1>e, <2>1, <3>1, WeakerOrder
    <2>2. CASE ~(2 * p + 1 <= n /\ heap_less(g[2 * p + 1], g[a]))
      <3>1. b = a
        BY <1>0, <2>2 DEF WeakerOf
      <3>2. 2 * p + 1 <= n => Weaker(g[b], g[2 * p + 1])
        BY <2>2, <3>1 DEF Weaker
      <3> QED BY <1>1, <1>e, <3>1, <3>2, WeakerOrder
    <2> QED BY <2>1, <2>2
  <1> HIDE DEF b
  <1>3. Weaker(g[b], g[p])
    BY <1>1, <1>2, <1>e, WeakerOrder
  <1>4. 2 * p <= n => Weaker(g[b], g[2 * p])
    <2> SUFFICES ASSUME 2 * p <= n PROVE Weaker(g[b], g[2 * p])
      OBVIOUS
    <2>1. 2 * p \in 1 .. n
      BY <1>0
    <2> QED BY <1>1, <1>2, <1>e, <2>1, WeakerOrder
  <1>5. ASSUME NEW j \in 2 .. n, j \div 2 = p PROVE Weaker(g[b], g[j])
    <2>1. j = 2 * p \/ j = 2 * p + 1
      BY <1>0, <1>5, HalfOf
    <2> QED BY <1>2, <1>4, <2>1
  <1>6. b = p \/ (b \div 2 = p /\ b > p /\ heap_less(g[b], g[p]))
    <2>1. CASE b = a
      <3>1. CASE a = p
        BY <2>1, <3>1
      <3>2. CASE a # p
        <4>1. b = 2 * p /\ heap_less(g[b], g[p]) /\ b \in Nat
          BY <1>0, <1>1, <2>1, <3>2
        <4>2. b \div 2 = p
          BY <1>0, <4>1, HalfOf
        <4> QED BY <1>0, <4>1, <4>2
      <3> QED BY <3>1, <3>2
    <2>2. CASE b # a
      <3>1. b = 2 * p + 1 /\ b \in Nat /\ heap_less(g[b], g[a])
        BY <1>0, <1>2, <2>2
      <3>2. b \div 2 = p
        BY <1>0, <3>1, HalfOf
      <3>3. heap_less(g[b], g[p])
        <4>1. ~heap_less(g[b], g[p]) => Weaker(g[p], g[b])
          BY DEF Weaker
        <4>2. Weaker(g[p], g[b]) => Weaker(g[a], g[b])
          BY <1>1, <1>2, <1>e, WeakerOrder
        <4>3. ~Weaker(g[a], g[b])
          BY <3>1 DEF Weaker
        <4> QED BY <4>1, <4>2, <4>3
      <3> QED BY <1>0, <3>1, <3>2, <3>3
    <2> QED BY <2>1, <2>2
  <1> QED BY <1>0, <1>2, <1>3, <1>5, <1>6

(* An iteration of heap_sift_down leaves only the sifted entry out of place, and moves it
   down until it is in place. *)
LEMMA DownKeeps ==
    ASSUME NEW n \in Nat, NEW h, NEW g, NEW p, DownInv(h, g, p, n)
    PROVE  LET s == DownStep(g, p)
           IN  /\ DownInv(h, s[1], s[2], n)
               /\ DownDone(s[1], s[2], n) \/ s[2] > p
               /\ DownDone(g, p, n) => s[2] = p
  <1>0. /\ g \in [1 .. n -> Entry] /\ p \in 1 .. n /\ Rearranged(h, g, n)
        /\ \A j \in 2 .. n : j \div 2 # p => Weaker(g[j \div 2], g[j])
        /\ p > 1 => \A j \in 2 .. n : j \div 2 = p => Weaker(g[p \div 2], g[j])
    BY DEF DownInv
  <1> DEFINE c == Smallest(g, p)
             w == heap_swap(g, p, c)
  <1>1. DownStep(g, p) = <<w, c>>
    BY DEF DownStep
  <1>2. /\ c \in 1 .. n
        /\ c = p \/ (c \div 2 = p /\ c > p /\ heap_less(g[c], g[p]))
        /\ \A j \in 2 .. n : j \div 2 = p => Weaker(g[c], g[j])
        /\ Weaker(g[c], g[p])
    BY <1>0, SmallestOf
  <1> HIDE DEF c
  <1>3. /\ Rearranged(g, w, n) /\ w \in [1 .. n -> Entry]
        /\ \A j \in 1 .. n : w[j] = IF j = p THEN g[c] ELSE IF j = c THEN g[p] ELSE g[j]
    <2>1. g \in [1 .. n -> Entry] /\ p \in 1 .. n /\ c \in 1 .. n
      BY <1>0, <1>2
    <2>2. Swapped(g, w, p, c, n)
      BY <2>1, SwapRearranged
    <2> QED BY <2>2 DEF Swapped
  <1> HIDE DEF w
  <1>4. Rearranged(h, w, n)
    BY <1>0, <1>3, RearrangedTrans
  <1>e. \A j \in 1 .. n : g[j] \in Entry
    BY <1>0
  <1>5. CASE c = p
    <2>1. \A j \in 1 .. n : w[j] = g[j]
      BY <1>3, <1>5
    <2>2. \A j \in 2 .. n : j \in 1 .. n /\ j \div 2 \in 1 .. n
      <3> SUFFICES ASSUME NEW j \in 2 .. n PROVE j \in 1 .. n /\ j \div 2 \in 1 .. n
        OBVIOUS
      <3>1. j \div 2 \in Nat /\ 1 <= j \div 2 /\ j \div 2 < j
        BY Half
      <3> QED BY <3>1
    <2>3. DownDone(w, p, n)
      BY <1>0, <1>2, <1>5, <2>1, <2>2 DEF DownDone
    <2>4. p > 1 => p \div 2 \in 1 .. n
      BY <1>0, <2>2
    <2>5. DownInv(h, w, p, n)
      <3>1. \A j \in 2 .. n : j \div 2 # p => Weaker(w[j \div 2], w[j])
        BY <1>0, <2>1, <2>2
      <3>2. p > 1 => \A j \in 2 .. n : j \div 2 = p => Weaker(w[p \div 2], w[j])
        BY <1>0, <2>1, <2>2, <2>4
      <3> QED BY <1>0, <1>3, <1>4, <3>1, <3>2 DEF DownInv
    <2> QED BY <1>1, <1>5, <2>3, <2>5
  <1>6. CASE c # p
    <2>1. c \div 2 = p /\ c > p /\ heap_less(g[c], g[p]) /\ c \in 2 .. n /\ p \in Nat /\ c \in Nat
      BY <1>0, <1>2, <1>6
    <2>2. ASSUME NEW j \in 2 .. n, j \div 2 # c PROVE Weaker(w[j \div 2], w[j])
      <3>1. PICK q \in Nat : q = j \div 2 /\ 1 <= q /\ q < j
        BY Half
      <3>2. q \in 1 .. n /\ j \in 1 .. n
        BY <3>1
      <3>3. CASE q = p /\ j = c
        <4>1. w[q] = g[c] /\ w[j] = g[p]
          BY <1>3, <1>6, <3>2, <3>3
        <4> QED BY <1>2, <3>1, <4>1
      <3>4. CASE q = p /\ j # c
        <4>1. w[q] = g[c] /\ w[j] = g[j]
          BY <1>3, <3>1, <3>2, <3>4
        <4> QED BY <1>2, <3>1, <3>4, <4>1
      <3>5. CASE q # p /\ j = p
        <4>1. w[q] = g[q] /\ w[j] = g[c]
          BY <1>3, <2>2, <3>1, <3>2, <3>5
        <4>2. p > 1
          BY <1>0, <3>5
        <4>3. Weaker(g[p \div 2], g[c])
          BY <1>0, <2>1, <4>2
        <4> QED BY <3>1, <3>5, <4>1, <4>3
      <3>6. CASE q # p /\ j # p
        <4>1. j # c
          BY <2>1, <3>1, <3>6
        <4>2. w[q] = g[q] /\ w[j] = g[j]
          BY <1>3, <2>2, <3>1, <3>2, <3>6, <4>1
        <4>3. Weaker(g[q], g[j])
          BY <1>0, <3>1, <3>6
        <4> QED BY <3>1, <4>2, <4>3
      <3> QED BY <3>3, <3>4, <3>5, <3>6
    <2>3. ASSUME NEW j \in 2 .. n, j \div 2 = c PROVE Weaker(w[c \div 2], w[j])
      <3>1. j > c /\ j \in 1 .. n /\ j # p /\ j # c
        <4>1. j \div 2 < j
          BY Half
        <4> QED BY <2>1, <2>3, <4>1
      <3>2. w[p] = g[c] /\ w[j] = g[j]
        BY <1>0, <1>3, <3>1
      <3>3. Weaker(g[j \div 2], g[j])
        BY <1>0, <1>6, <2>3
      <3> QED BY <2>1, <2>3, <3>2, <3>3
    <2>4. DownInv(h, w, c, n)
      BY <1>2, <1>3, <1>4, <2>2, <2>3 DEF DownInv
    <2>5. ~DownDone(g, p, n)
      BY <2>1 DEF DownDone, Weaker
    <2> QED BY <1>1, <2>1, <2>4, <2>5
  <1> QED BY <1>5, <1>6

(* heap_sift_down ends with a heap of the same entries. *)
LEMMA SiftDown ==
    ASSUME NEW n \in Nat, NEW h \in [1 .. n -> Entry], NEW k \in 1 .. n, DownInv(h, h, k, n)
    PROVE  Heap(heap_sift_down(h, k), n) /\ Rearranged(h, heap_sift_down(h, k), n)
  <1>1. Len(h) = n
    OBVIOUS
  <1>2. PICK step : IsDown(step, h, k, n) /\ heap_sift_down(h, k) = step[n][1]
    BY <1>1, DownExists
  <1>3. step[0] = <<h, k>> /\ \A m \in Nat : m < n => step[m + 1] = DownStep(step[m][1], step[m][2])
    <2>1. step[0] = <<h, k>>
      BY <1>2 DEF IsDown
    <2>2. ASSUME NEW m \in Nat, m < n PROVE step[m + 1] = DownStep(step[m][1], step[m][2])
      <3>1. m + 1 \in 0 .. n /\ m + 1 # 0 /\ (m + 1) - 1 = m
        BY <2>2
      <3>2. step[m + 1] = DownStep(step[(m + 1) - 1][1], step[(m + 1) - 1][2])
        BY <1>2, <3>1 DEF IsDown
      <3> QED BY <3>1, <3>2
    <2> QED BY <2>1, <2>2
  <1> DEFINE good(m) == /\ DownInv(h, step[m][1], step[m][2], n)
                        /\ DownDone(step[m][1], step[m][2], n) \/ step[m][2] > m
             G == {m \in Nat : m <= n => good(m)}
  <1>4. 0 \in G
    BY <1>3
  <1>5. ASSUME NEW m \in Nat, m \in G PROVE m + 1 \in G
    <2>0. m + 1 \in Nat
      OBVIOUS
    <2> SUFFICES ASSUME m + 1 <= n PROVE good(m + 1)
      BY <2>0, Zenon
    <2>1. m < n /\ m <= n /\ good(m)
      BY <1>5
    <2> DEFINE g == step[m][1]
               p == step[m][2]
               s == DownStep(g, p)
    <2>2. step[m + 1] = s
      BY <1>3, <2>1
    <2>i. DownInv(h, g, p, n) /\ (DownDone(g, p, n) \/ p > m)
      BY <2>1
    <2> HIDE DEF s, g, p
    <2>3. /\ DownInv(h, s[1], s[2], n)
          /\ DownDone(s[1], s[2], n) \/ s[2] > p
          /\ DownDone(g, p, n) => s[2] = p
      BY <2>i, DownKeeps DEF s
    <2>4. p \in Nat /\ s[2] \in Nat
      BY <2>i, <2>3 DEF DownInv
    <2>5. DownDone(s[1], s[2], n) \/ s[2] > m + 1
      BY <2>i, <2>3, <2>4
    <2> QED BY <2>2, <2>3, <2>5
  <1>6. n \in G
    <2> HIDE DEF G
    <2> QED BY <1>4, <1>5, NatSetInduction
  <1> DEFINE g == step[n][1]
             p == step[n][2]
  <1>7. DownInv(h, g, p, n) /\ (DownDone(g, p, n) \/ p > n)
    BY <1>6
  <1> HIDE DEF g, p
  <1>8. p \in 1 .. n /\ g \in [1 .. n -> Entry] /\ Rearranged(h, g, n)
        /\ \A j \in 2 .. n : j \div 2 # p => Weaker(g[j \div 2], g[j])
    BY <1>7 DEF DownInv
  <1>9. DownDone(g, p, n)
    BY <1>7, <1>8
  <1>10. Heap(g, n)
    BY <1>8, <1>9 DEF Heap, DownDone
  <1> QED BY <1>2, <1>8, <1>10 DEF g

-----------------------------------------------------------------------------
(* Adding a result *)

(* h is a heap. *)
IsHeap(h) == Len(h) \in Nat /\ Heap(h, Len(h))

(* e is in the heap. *)
Holds(h, e) == \E j \in 1 .. Len(h) : h[j] = e

(* The heap holds no entry twice. *)
Distinct(h) == \A a, b \in 1 .. Len(h) : h[a] = h[b] => a = b

(* r is the heap h of at most k results after e was offered to it. *)
Added(h, r, k, e) ==
    /\ IsHeap(r) /\ Len(h) <= Len(r) /\ Len(r) <= k
    /\ tp_topk_threshold(h, k) <= tp_topk_threshold(r, k)
    /\ \A j \in 1 .. Len(r) : r[j] = e \/ Holds(h, r[j])
    /\ Distinct(h) /\ ~Holds(h, e) => Distinct(r)
    /\ Holds(r, e) \/ (Len(r) >= k /\ e.score <= tp_topk_threshold(r, k))
    /\ \A j \in 1 .. Len(h) : Holds(r, h[j]) \/ (Len(r) >= k /\ h[j].score <= tp_topk_threshold(r, k))

(* tp_topk_add keeps at most k results and never lowers the threshold; the result offered
   enters or is not above the threshold, and one that is dropped is not above it either. *)
LEMMA AddResult ==
    ASSUME NEW k \in Nat \ {0}, NEW h, IsHeap(h), Len(h) <= k, NEW e \in Entry
    PROVE  Added(h, tp_topk_add(h, k, e), k, e)
  <1> DEFINE n == Len(h)
             r == tp_topk_add(h, k, e)
  <1>1. n \in Nat /\ Heap(h, n) /\ h \in [1 .. n -> Entry] /\ e.score \in Nat
        /\ \A j \in 1 .. n : h[j].score \in Nat /\ h[1].score <= h[j].score
    <2>1. n \in Nat /\ Heap(h, n) /\ h \in [1 .. n -> Entry] /\ e.score \in Nat
      BY DEF IsHeap, Heap, Entry
    <2>2. \A j \in 1 .. n : h[j] \in Entry /\ h[1].score <= h[j].score
      BY <2>1, RootWeakest
    <2> QED BY <2>1, <2>2 DEF Entry
  <1>k. n >= k => n = k /\ 1 \in 1 .. n
    <2>1. PICK x \in Nat : x = n
      BY <1>1
    <2>2. x >= k => x = k /\ 1 \in 1 .. x
      BY <2>1
    <2> QED BY <2>1, <2>2
  <1>c. n < k \/ (n >= k /\ ~(n < k))
    <2>1. PICK x \in Nat : x = n
      BY <1>1
    <2>2. x < k \/ (x >= k /\ ~(x < k))
      BY <2>1
    <2> QED BY <2>1, <2>2
  <1>2. CASE n < k
    <2> DEFINE h2 == Append(h, e)
               m == n + 1
    <2>1. h2 \in [1 .. m -> Entry] /\ m \in Nat /\ m \in 1 .. m /\ h2[m] = e /\ \A j \in 1 .. n : h2[j] = h[j]
      <3>1. h \in Seq(Entry)
        BY <1>1
      <3>2. h2 \in Seq(Entry) /\ Len(h2) = m /\ h2[m] = e /\ \A j \in 1 .. n : h2[j] = h[j]
        BY <3>1
      <3>3. m \in Nat /\ m \in 1 .. m
        BY <1>1
      <3> HIDE DEF h2, m
      <3> QED BY <3>2, <3>3
    <2>2. r = heap_sift_up(h2, m)
      BY <1>2 DEF tp_topk_add
    <2> HIDE DEF h2
    <2>3. UpInv(h2, h2, m, m)
      <3>1. \A j \in 2 .. m : j # m => Weaker(h2[j \div 2], h2[j])
        <4> SUFFICES ASSUME NEW j \in 2 .. m, j # m PROVE Weaker(h2[j \div 2], h2[j])
          OBVIOUS
        <4>1. j \div 2 \in Nat /\ 1 <= j \div 2 /\ j \div 2 < j
          BY Half
        <4>2. j \in 2 .. n /\ j \in 1 .. n /\ j \div 2 \in 1 .. n
          BY <1>1, <4>1
        <4>3. Weaker(h[j \div 2], h[j])
          BY <1>1, <4>2 DEF Heap
        <4> QED BY <2>1, <4>2, <4>3
      <3>2. \A j \in 2 .. m : j \div 2 # m
        <4> SUFFICES ASSUME NEW j \in 2 .. m PROVE j \div 2 # m
          OBVIOUS
        <4>1. j \div 2 \in Nat /\ j \div 2 < j
          BY Half
        <4> QED BY <1>1, <4>1
      <3>3. Rearranged(h2, h2, m)
        BY <2>1, RearrangedRefl
      <3> QED BY <2>1, <3>1, <3>2, <3>3 DEF UpInv
    <2> HIDE DEF m
    <2>4. Heap(r, m) /\ Rearranged(h2, r, m)
      BY <2>1, <2>2, <2>3, SiftUp
    <2> HIDE DEF r
    <2>5. r \in [1 .. m -> Entry] /\ Len(r) = m
      BY <2>1, <2>4 DEF Heap
    <2>6. PICK f \in Perms(m) : \A j \in 1 .. m : r[j] = h2[f[j]]
      BY <2>4 DEF Rearranged
    <2>7. f \in [1 .. m -> 1 .. m] /\ (\A a, b \in 1 .. m : f[a] = f[b] => a = b) /\ \A x \in 1 .. m : \E j \in 1 .. m : f[j] = x
      BY <2>1, PermOnto DEF Perms
    <2>8. IsHeap(r) /\ n <= Len(r) /\ Len(r) <= k
      BY <1>1, <1>2, <2>1, <2>4, <2>5 DEF IsHeap, m
    <2>9. tp_topk_threshold(h, k) = 0 /\ tp_topk_threshold(r, k) \in Nat
      <3>1. r[1] \in Entry
        BY <1>1, <2>1, <2>5 DEF m
      <3> QED BY <1>1, <1>2, <3>1 DEF tp_topk_threshold, Entry
    <2>10. \A j \in 1 .. m : r[j] = e \/ Holds(h, r[j])
      <3> SUFFICES ASSUME NEW j \in 1 .. m PROVE r[j] = e \/ Holds(h, r[j])
        OBVIOUS
      <3>1. f[j] \in 1 .. m /\ r[j] = h2[f[j]]
        BY <2>6, <2>7
      <3>2. f[j] = m \/ f[j] \in 1 .. n
        BY <1>1, <3>1 DEF m
      <3> QED BY <2>1, <3>1, <3>2 DEF Holds
    <2>11. \A x \in 1 .. m : Holds(r, h2[x])
      <3> SUFFICES ASSUME NEW x \in 1 .. m PROVE Holds(r, h2[x])
        OBVIOUS
      <3>1. PICK j \in 1 .. m : f[j] = x
        BY <2>7
      <3>2. r[j] = h2[x]
        BY <2>6, <3>1
      <3> QED BY <2>5, <3>2 DEF Holds
    <2>12. Holds(r, e) /\ \A j \in 1 .. n : Holds(r, h[j])
      <3>1. \A j \in 1 .. n : j \in 1 .. m
        BY <1>1 DEF m
      <3> QED BY <2>1, <2>11, <3>1
    <2>13. Distinct(h) /\ ~Holds(h, e) => Distinct(r)
      <3> SUFFICES ASSUME Distinct(h), ~Holds(h, e), NEW a \in 1 .. m, NEW b \in 1 .. m, r[a] = r[b] PROVE a = b
        BY <2>5 DEF Distinct
      <3>1. f[a] \in 1 .. m /\ f[b] \in 1 .. m /\ h2[f[a]] = h2[f[b]]
        BY <2>6, <2>7
      <3>2. \A x \in 1 .. m : x = m \/ x \in 1 .. n
        BY <1>1 DEF m
      <3>3. f[a] = f[b]
        BY <2>1, <3>1, <3>2 DEF Distinct, Holds
      <3> QED BY <2>7, <3>3
    <2>14. tp_topk_threshold(h, k) <= tp_topk_threshold(r, k)
      BY <2>9
    <2> QED BY <2>5, <2>8, <2>10, <2>12, <2>13, <2>14 DEF Added, r
  <1>3. CASE n >= k /\ ~(n < k) /\ heap_beats_root(h, e)
    <2> DEFINE h2 == [h EXCEPT ![1] = e]
    <2>0. n = k /\ 1 \in 1 .. n /\ h[1].score <= e.score
      <3>1. n = k /\ 1 \in 1 .. n
        BY <1>3, <1>k, Zenon
      <3> QED BY <1>1, <1>3, <3>1 DEF heap_beats_root
    <2>1. h2 \in [1 .. n -> Entry] /\ h2[1] = e /\ \A j \in 1 .. n : j # 1 => h2[j] = h[j]
      BY <1>1, <2>0
    <2>2. r = heap_sift_down(h2, 1)
      BY <1>3 DEF tp_topk_add
    <2> HIDE DEF h2
    <2>3. DownInv(h2, h2, 1, n)
      <3>1. \A j \in 2 .. n : j \div 2 # 1 => Weaker(h2[j \div 2], h2[j])
        <4> SUFFICES ASSUME NEW j \in 2 .. n, j \div 2 # 1 PROVE Weaker(h2[j \div 2], h2[j])
          OBVIOUS
        <4>1. j \div 2 \in Nat /\ 1 <= j \div 2 /\ j \div 2 < j
          BY Half
        <4>2. j \in 1 .. n /\ j \div 2 \in 1 .. n /\ j # 1
          BY <1>1, <4>1
        <4>3. Weaker(h[j \div 2], h[j])
          BY <1>1 DEF Heap
        <4> QED BY <2>1, <4>2, <4>3
      <3>3. Rearranged(h2, h2, n)
        BY <1>1, RearrangedRefl
      <3> QED BY <2>0, <2>1, <3>1, <3>3 DEF DownInv
    <2> HIDE DEF n
    <2>4. Heap(r, n) /\ Rearranged(h2, r, n)
      BY <1>1, <2>0, <2>1, <2>2, <2>3, SiftDown
    <2> HIDE DEF r
    <2>5. r \in [1 .. n -> Entry] /\ Len(r) = n
      BY <1>1, <2>4 DEF Heap
    <2>6. PICK f \in Perms(n) : \A j \in 1 .. n : r[j] = h2[f[j]]
      BY <2>4 DEF Rearranged
    <2>7. f \in [1 .. n -> 1 .. n] /\ (\A a, b \in 1 .. n : f[a] = f[b] => a = b) /\ \A x \in 1 .. n : \E j \in 1 .. n : f[j] = x
      BY <1>1, PermOnto DEF Perms
    <2>8. IsHeap(r) /\ n <= Len(r) /\ Len(r) <= k
      BY <1>1, <2>0, <2>4, <2>5 DEF IsHeap
    <2>10. \A j \in 1 .. n : r[j] = e \/ (Holds(h, r[j]) /\ h[1].score <= r[j].score)
      <3> SUFFICES ASSUME NEW j \in 1 .. n PROVE r[j] = e \/ (Holds(h, r[j]) /\ h[1].score <= r[j].score)
        OBVIOUS
      <3>1. f[j] \in 1 .. n /\ r[j] = h2[f[j]]
        BY <2>6, <2>7
      <3> QED BY <1>1, <2>1, <3>1 DEF Holds, n
    <2>9. tp_topk_threshold(h, k) = h[1].score /\ tp_topk_threshold(r, k) = r[1].score /\ h[1].score <= r[1].score
      <3>1. tp_topk_threshold(h, k) = h[1].score /\ tp_topk_threshold(r, k) = r[1].score
        BY <2>0, <2>5 DEF tp_topk_threshold, n
      <3>2. h[1].score <= r[1].score
        BY <2>0, <2>10
      <3> QED BY <3>1, <3>2
    <2>11. \A x \in 1 .. n : Holds(r, h2[x])
      BY <2>5, <2>6, <2>7 DEF Holds
    <2>12. Holds(r, e) /\ \A j \in 1 .. n : j # 1 => Holds(r, h[j])
      BY <2>0, <2>1, <2>11
    <2>13. Distinct(h) /\ ~Holds(h, e) => Distinct(r)
      <3> SUFFICES ASSUME Distinct(h), ~Holds(h, e), NEW a \in 1 .. n, NEW b \in 1 .. n, r[a] = r[b] PROVE a = b
        BY <2>5 DEF Distinct
      <3>1. f[a] \in 1 .. n /\ f[b] \in 1 .. n /\ h2[f[a]] = h2[f[b]]
        BY <2>6, <2>7
      <3>3. f[a] = f[b]
        BY <2>1, <3>1 DEF Distinct, Holds, n
      <3> QED BY <2>7, <3>3
    <2>14. \A j \in 1 .. n : Holds(r, h[j]) \/ (Len(r) >= k /\ h[j].score <= tp_topk_threshold(r, k))
      BY <2>0, <2>5, <2>9, <2>12
    <2>15. \A j \in 1 .. n : r[j] = e \/ Holds(h, r[j])
      BY <2>10
    <2>16. tp_topk_threshold(h, k) <= tp_topk_threshold(r, k)
      BY <2>9
    <2> QED BY <2>5, <2>8, <2>12, <2>13, <2>14, <2>15, <2>16 DEF Added, r, n
  <1>4. CASE n >= k /\ ~(n < k) /\ ~heap_beats_root(h, e)
    <2>1. r = h
      BY <1>4 DEF tp_topk_add
    <2>2. n = k /\ 1 \in 1 .. n /\ ~(h[1].score < e.score)
      <3>1. n = k /\ 1 \in 1 .. n
        BY <1>4, <1>k, Zenon
      <3> QED BY <1>1, <1>4, <3>1 DEF heap_beats_root
    <2>3. tp_topk_threshold(h, k) = h[1].score /\ h[1].score \in Nat
      BY <1>1, <2>2 DEF tp_topk_threshold
    <2>4. e.score <= tp_topk_threshold(h, k) /\ tp_topk_threshold(h, k) <= tp_topk_threshold(h, k)
      BY <1>1, <2>2, <2>3
    <2>5. \A j \in 1 .. n : Holds(h, h[j])
      BY DEF Holds
    <2>6. Len(h) <= Len(h) /\ Len(h) >= k /\ IsHeap(h)
      BY <1>1, <2>2
    <2> QED BY <2>1, <2>4, <2>5, <2>6 DEF Added
  <1> QED BY <1>2, <1>3, <1>4, <1>c

-----------------------------------------------------------------------------
(* Scores *)

(* A decoded length is a natural. *)
LEMMA DecodeNat ==
    ASSUME NEW norm \in DOMAIN FieldNormTable
    PROVE  decode_fieldnorm(norm) \in Nat
  BY FieldNormAssumption DEF decode_fieldnorm

(* A BM25 score is a natural (scores are scaled). *)
LEMMA ScoreNat ==
    ASSUME NEW idf \in Nat, NEW tf \in Nat \ {0}, NEW len \in Nat
    PROVE  compute_bm25_score(idf, tf, len) \in Nat
  <1>1. idf * 12 * tf \in Nat
    OBVIOUS
  <1>2. PICK x \in Nat : x = idf * 12 * tf
    BY <1>1
  <1>3. PICK y \in Nat \ {0} : y = tf + len
    OBVIOUS
  <1>4. x \div y \in Nat
    BY DivBounds
  <1> QED BY <1>2, <1>3, <1>4 DEF compute_bm25_score

(* The score of a posting. *)
LEMMA PostingScoreNat ==
    ASSUME QueryInv, NEW q \in 1 .. nterms, NEW p \in Posting
    PROVE  posting_score(q, p) \in Nat
  <1>1. query.terms[q] \in QueryTerm
    BY DEF QueryInv, nterms
  <1>2. query.terms[q].idf \in Nat /\ p.frequency \in Nat \ {0} /\ p.norm \in DOMAIN FieldNormTable
    BY <1>1 DEF QueryTerm, Posting
  <1> QED BY <1>2, ScoreNat, DecodeNat DEF posting_score

(* The terms of the query. *)
LEMMA QueryFreq ==
    ASSUME QueryInv, NEW q \in 1 .. nterms
    PROVE  query_freq(q) \in Nat \ {0} /\ query.terms[q].query_freq \in Nat \ {0} /\ query.terms[q].idf \in Nat
           /\ query.terms[q].term \in Term
  <1>1. query.terms[q] \in QueryTerm
    BY DEF QueryInv, nterms
  <1> QED BY <1>1 DEF QueryTerm, query_freq

(* The score that each term adds. *)
Parts1(tf, len) ==
    [q \in 1 .. nterms |->
              LET n == tf[query.terms[q].term]
              IN  IF n = 0 THEN 0 ELSE compute_bm25_score(query.terms[q].idf, n, len) * query_freq(q)]

(* Products of naturals. *)
LEMMA ProductNat ==
    ASSUME NEW a \in Nat, NEW b \in Nat
    PROVE  a * b \in Nat /\ (a > 0 /\ b > 0 => a * b > 0)
  <1>1. a * b \in Nat
    OBVIOUS
  <1>2. a > 0 /\ b > 0 => a * b > 0
    <2> SUFFICES ASSUME a > 0, b > 0 PROVE a * b > 0
      OBVIOUS
    <2>1. PICK x \in Nat : a = x + 1
      <3>1. a - 1 \in Nat /\ a = (a - 1) + 1
        OBVIOUS
      <3> QED BY <3>1
    <2>2. a * b = x * b + b /\ x * b \in Nat
      BY <2>1, MulNext
    <2> QED BY <2>2
  <1> QED BY <1>1, <1>2

(* The score of a document is the total of what its terms add. *)
LEMMA DocScoreNat ==
    ASSUME QueryInv, NEW tf \in [Term -> Nat], NEW len \in Nat
    PROVE  /\ Parts1(tf, len) \in [1 .. nterms -> Nat]
           /\ doc_score(tf, len) = Total(Parts1(tf, len)) /\ doc_score(tf, len) \in Nat
  <1>1. Parts1(tf, len) \in [1 .. nterms -> Nat]
    <2> SUFFICES ASSUME NEW q \in 1 .. nterms, tf[query.terms[q].term] # 0
                 PROVE  compute_bm25_score(query.terms[q].idf, tf[query.terms[q].term], len) * query_freq(q) \in Nat
      BY DEF Parts1
    <2>1. query.terms[q].idf \in Nat /\ tf[query.terms[q].term] \in Nat \ {0} /\ query_freq(q) \in Nat
      BY QueryFreq
    <2>2. compute_bm25_score(query.terms[q].idf, tf[query.terms[q].term], len) \in Nat
      BY <2>1, ScoreNat
    <2> QED BY <2>1, <2>2, ProductNat
  <1>2. doc_score(tf, len) = Total(Parts1(tf, len))
    BY DEF doc_score, Parts1
  <1>3. nterms \in Nat
    BY DEF QueryInv
  <1> QED BY <1>1, <1>2, <1>3, TotalNat

(* A memtable result is an entry of the heap. *)
LEMMA MemEntry ==
    ASSUME QueryInv, NEW d \in query.mem
    PROVE  /\ mem_score(d) \in Nat /\ d.ctid \in Nat /\ d.ctid # NoCtid /\ d.tf \in [Term -> Nat] /\ d.len \in Nat
           /\ MemtableEntry(d.ctid, mem_score(d)) \in Entry
  <1>1. d \in Document
    BY DEF QueryInv
  <1>2. d.ctid \in Nat /\ d.ctid # NoCtid /\ d.tf \in [Term -> Nat] /\ d.len \in Nat
    BY <1>1 DEF Document, QueryInv
  <1>3. mem_score(d) \in Nat
    BY <1>2, DocScoreNat DEF mem_score
  <1> QED BY <1>2, <1>3, LimitsAssumption, DocIdAssumption DEF MemtableEntry, Entry

(* A segment result is an entry of the heap. *)
LEMMA SegEntry ==
    ASSUME QueryInv, NEW n \in 1 .. Len(query.segs), NEW d \in Nat, NEW score \in Nat
    PROVE  SegmentEntry(n, d, score) \in Entry
  <1>1. n \in Nat /\ n < NoSegment
    BY LimitsAssumption, DocIdAssumption DEF QueryInv
  <1> QED BY <1>1, LimitsAssumption, DocIdAssumption DEF SegmentEntry, Entry

(* The posting a live term stands on. *)
LEMMA CurrentPosting ==
    ASSUME QueryInv, InSegment, NEW ts, Valid(ts), ~ts.fin
    PROVE  /\ current_posting(ts) \in Posting /\ current_posting(ts).doc = Cur(ts)
           /\ \E n \in 1 .. Len(list(ts)) : current_posting(ts) = list(ts)[n]
  <1>1. ts.found /\ Place(ts.q, ts.blk, ts.pos) /\ ts.q \in 1 .. nterms /\ ts.found = has_term(seg, term_of(ts.q))
    BY CurType DEF Valid, TermState
  <1>2. ListOK(seg, term_of(ts.q)) /\ list(ts) = seg.post[term_of(ts.q)]
    BY <1>1, SegOK DEF WellFormed, has_term, list, term_of
  <1> DEFINE L == list(ts)
             b == ts.blk
             x == ts.pos + 1
  <1>3. L \in PostingList /\ Blks(ts.q) = num_blocks(L) /\ \A c \in 0 .. num_blocks(L) - 1 : BlkLen(ts.q, c) = Len(Block(L, c))
    BY <1>2 DEF ListOK, Blks, BlkLen, EntryOK
  <1>4. /\ num_blocks(L) \in Nat
        /\ \A c \in 0 .. num_blocks(L) - 1 : Block(L, c) \in Seq(Posting) /\ Len(Block(L, c)) \in Nat
        /\ \A c \in 0 .. num_blocks(L) - 1 : \A y \in 1 .. Len(Block(L, c)) : \E n \in 1 .. Len(L) : Block(L, c)[y] = L[n]
    BY <1>3, BlockPlaces
  <1>5. b \in 0 .. num_blocks(L) - 1 /\ x \in 1 .. Len(Block(L, b))
    BY <1>1, <1>3, <1>4 DEF Place
  <1>6. current_posting(ts) = Block(L, b)[x]
    BY DEF current_posting
  <1>7. current_posting(ts).doc = Cur(ts)
    BY <1>1 DEF Cur, term_current_doc_id
  <1> HIDE DEF L, b, x
  <1>8. Block(L, b)[x] \in Posting
    BY <1>4, <1>5
  <1> QED BY <1>4, <1>5, <1>6, <1>7, <1>8 DEF L

(* The range of doc ids that is looked at. *)
LEMMA TenantRange ==
    ASSUME QueryInv, InSegment, tenant_range # << >>
    PROVE  /\ tenant_range[1] \in Nat /\ tenant_range[2] \in Nat
           /\ tenant_range[1] <= UINT32_MAX /\ tenant_range[2] <= UINT32_MAX
           /\ \A d \in 0 .. seg.num_docs - 1 :
                 IF query.tenant # 0 /\ seg.tenant_ordered
                 THEN seg.tenant[d + 1] = query.tenant <=> tenant_range[1] <= d /\ d <= tenant_range[2]
                 ELSE tenant_range[1] <= d /\ d <= tenant_range[2]
           /\ tenant_range[2] = UINT32_MAX <=> ~(query.tenant # 0 /\ seg.tenant_ordered)
  <1>1. WellFormed(seg)
    BY SegOK
  <1>2. seg.num_docs \in Nat /\ seg.num_docs < UINT32_MAX
    BY <1>1 DEF WellFormed
  <1>3. CASE query.tenant # 0 /\ seg.tenant_ordered
    <2> DEFINE mine == {r \in seg.ranges : r.tenant = query.tenant}
               r == CHOOSE r \in mine : TRUE
    <2>1. mine # {} /\ tenant_range = <<r.first, r.first + r.count - 1>>
      BY <1>3 DEF tenant_range, tp_segment_get_tenant_doc_range
    <2>2. r \in mine
      BY <2>1
    <2>3. RangeOK(seg, r) /\ r.tenant = query.tenant
      BY <1>1, <2>2 DEF WellFormed
    <2> HIDE DEF r
    <2>4. /\ r.first \in Nat /\ r.count \in Nat \ {0} /\ r.first + r.count <= seg.num_docs
          /\ \A d \in 0 .. seg.num_docs - 1 : seg.tenant[d + 1] = query.tenant <=> r.first <= d /\ d <= r.first + r.count - 1
      BY <2>3 DEF RangeOK
    <2>5. tenant_range[1] = r.first /\ tenant_range[2] = r.first + r.count - 1
      BY <2>1
    <2>6. r.first + r.count - 1 \in Nat /\ r.first < UINT32_MAX /\ r.first + r.count - 1 < UINT32_MAX
      BY <1>2, <2>4, LimitsAssumption, DocIdAssumption
    <2> QED BY <1>3, <2>4, <2>5, <2>6, LimitsAssumption, DocIdAssumption
  <1>4. CASE ~(query.tenant # 0 /\ seg.tenant_ordered)
    <2>1. tenant_range = <<0, UINT32_MAX>>
      BY <1>4 DEF tenant_range
    <2>2. \A d \in 0 .. seg.num_docs - 1 : 0 <= d /\ d <= UINT32_MAX
      BY <1>2, LimitsAssumption, DocIdAssumption
    <2> QED BY <1>4, <2>1, <2>2, LimitsAssumption, DocIdAssumption
  <1> QED BY <1>3, <1>4

(* The bound of a block. *)
LEMMA BlockMaxNat ==
    ASSUME QueryInv, InSegment, NEW ts, Valid(ts), ts.found, NEW b \in 0 .. Blks(ts.q) - 1
    PROVE  block_max(ts, b) \in Nat
  <1>1. ts.q \in 1 .. nterms /\ has_term(seg, term_of(ts.q))
    BY DEF Valid, TermState
  <1>2. ListOK(seg, term_of(ts.q)) /\ skip(ts) = seg.skip[term_of(ts.q)]
    BY <1>1, SegOK DEF WellFormed, has_term, skip, term_of
  <1>3. EntryOK(skip(ts)[b + 1], Block(seg.post[term_of(ts.q)], b), seg.tenant)
    BY <1>2 DEF ListOK, Blks
  <1>4. skip(ts)[b + 1].block_max_tf \in Nat \ {0} /\ skip(ts)[b + 1].block_max_norm \in DOMAIN FieldNormTable
    <2>1. PICK e : e = skip(ts)[b + 1]
      OBVIOUS
    <2>2. PICK blk, tenant : EntryOK(e, blk, tenant)
      BY <1>3, <2>1
    <2>3. e.block_max_tf \in Nat \ {0} /\ e.block_max_norm \in DOMAIN FieldNormTable
      BY <2>2 DEF EntryOK
    <2> QED BY <2>1, <2>3
  <1>5. query.terms[ts.q].idf \in Nat
    BY <1>1, QueryFreq
  <1> QED BY <1>4, <1>5, ScoreNat, DecodeNat DEF block_max, tp_compute_block_max_score

(* The bound of a term is not below the bound of any of its blocks. *)
LEMMA MaxScore ==
    ASSUME QueryInv, InSegment, NEW ts, Valid(ts)
    PROVE  /\ max_score(ts) \in Nat
           /\ ts.found => \A b \in 0 .. Blks(ts.q) - 1 :
                /\ block_max(ts, b) \in Nat
                /\ block_max(ts, b) * query.terms[ts.q].query_freq <= max_score(ts)
  <1>0. ts.q \in 1 .. nterms /\ ts.found \in BOOLEAN /\ query.terms[ts.q].query_freq \in Nat
    BY QueryFreq DEF Valid, TermState
  <1>1. CASE ~ts.found
    BY <1>1 DEF max_score
  <1>2. CASE ts.found
    <2> DEFINE n == Blks(ts.q)
               f == [j \in 1 .. n |-> block_max(ts, j - 1)]
               M == {block_max(ts, b) : b \in 0 .. n - 1}
    <2>1. n \in Nat \ {0}
      BY <1>0, <1>2, TermPlaces DEF Valid, PlacesOK
    <2>2. \A b \in 0 .. n - 1 : block_max(ts, b) \in Nat
      BY <1>2, BlockMaxNat
    <2>3. nblocks(ts) = n
      BY DEF nblocks, skip, Blks, term_of
    <2> HIDE DEF n
    <2>4. \A j \in 1 .. n : f[j] \in Nat /\ f[j] = block_max(ts, j - 1)
      <3> SUFFICES ASSUME NEW j \in 1 .. n PROVE f[j] \in Nat /\ f[j] = block_max(ts, j - 1)
        OBVIOUS
      <3>1. j - 1 \in 0 .. n - 1
        BY <2>1
      <3> QED BY <2>2, <3>1
    <2>5. \A b \in 0 .. n - 1 : b + 1 \in 1 .. n /\ f[b + 1] = block_max(ts, b)
      <3> SUFFICES ASSUME NEW b \in 0 .. n - 1 PROVE b + 1 \in 1 .. n /\ f[b + 1] = block_max(ts, b)
        OBVIOUS
      <3>1. b + 1 \in 1 .. n /\ (b + 1) - 1 = b
        BY <2>1
      <3> QED BY <3>1
    <2>6. M = {f[j] : j \in 1 .. n}
      <3>1. \A x \in M : x \in {f[j] : j \in 1 .. n}
        BY <2>5
      <3>2. \A x \in {f[j] : j \in 1 .. n} : x \in M
        <4> SUFFICES ASSUME NEW j \in 1 .. n PROVE f[j] \in M
          OBVIOUS
        <4>1. j - 1 \in 0 .. n - 1
          BY <2>1
        <4> QED BY <2>4, <4>1
      <3> QED BY <3>1, <3>2
    <2> HIDE DEF f
    <2>7. Max(M) \in Nat /\ \A j \in 1 .. n : f[j] <= Max(M)
      BY <2>1, <2>4, <2>6, MaxOf
    <2>8. max_score(ts) = Max(M) * query.terms[ts.q].query_freq
      BY <1>2, <2>3 DEF max_score
    <2> HIDE DEF M
    <2>9. max_score(ts) \in Nat
      BY <1>0, <2>7, <2>8, ProductNat
    <2>10. ASSUME NEW b \in 0 .. n - 1 PROVE block_max(ts, b) \in Nat /\ block_max(ts, b) * query.terms[ts.q].query_freq <= max_score(ts)
      <3>1. block_max(ts, b) \in Nat /\ block_max(ts, b) <= Max(M)
        BY <2>2, <2>5, <2>7
      <3> QED BY <1>0, <2>7, <2>8, <3>1, MulMono
    <2> QED BY <2>9, <2>10 DEF n
  <1> QED BY <1>0, <1>1, <1>2

(* The term that a block skip moves, and where to. *)
SkipTarget == Min({min_block_end + 1, first_other_doc})

(* What block_max_skip_advance moves, and where to: behind the first block to end, never
   past the first term that took no part. *)
LEMMA SkipTerm ==
    ASSUME QueryInv, InSegment, TermsAre(terms), pivot.len \in 1 .. nterms,
           \A j \in 1 .. pivot.len : Cur(terms[j]) # UINT32_MAX
    PROVE  /\ live_pivot_terms = 1 .. pivot.len
           /\ best_scorer \in 1 .. pivot.len
           /\ min_block_end \in Nat
           /\ \A j \in 1 .. pivot.len : min_block_end <= BlkLast(terms[j].q, terms[j].blk)
           /\ first_other_doc \in Nat /\ first_other_doc <= UINT32_MAX
           /\ SkipTarget \in Nat /\ SkipTarget <= UINT32_MAX
           /\ SkipTarget <= min_block_end + 1 /\ SkipTarget <= first_other_doc
           /\ SkipTarget = min_block_end + 1 \/ SkipTarget = first_other_doc
  <1> DEFINE n == pivot.len
             best == {j \in live_pivot_terms : \A m \in live_pivot_terms : max_score(terms[m]) <= max_score(terms[j])}
             ends == {skip(terms[j])[terms[j].blk + 1].last_doc_id : j \in live_pivot_terms}
  <1>0. nterms \in Nat /\ n \in Nat \ {0} /\ n <= nterms
    BY DEF QueryInv
  <1>1. live_pivot_terms = 1 .. n
    BY DEF live_pivot_terms, Cur
  <1>2. \A j \in 1 .. nterms : Valid(terms[j]) /\ Cur(terms[j]) \in Nat /\ Cur(terms[j]) <= UINT32_MAX
    BY CurType DEF TermsAre
  <1>3. \A j \in 1 .. n : j \in 1 .. nterms
    BY <1>0
  <1>4. best_scorer \in 1 .. n
    <2> DEFINE f == [j \in 1 .. n |-> max_score(terms[j])]
    <2>1. \A j \in 1 .. n : f[j] \in Nat /\ f[j] = max_score(terms[j])
      BY <1>2, <1>3, MaxScore
    <2> HIDE DEF f
    <2>2. /\ Max({f[j] : j \in 1 .. n}) \in {f[j] : j \in 1 .. n}
          /\ \A j \in 1 .. n : f[j] <= Max({f[x] : x \in 1 .. n})
      BY <1>0, <2>1, MaxOf
    <2>3. PICK j \in 1 .. n : f[j] = Max({f[x] : x \in 1 .. n})
      BY <2>2
    <2>4. \A m \in 1 .. n : f[m] <= f[j]
      BY <2>2, <2>3
    <2>5. j \in best
      BY <1>1, <2>1, <2>4
    <2>6. best \in SUBSET Nat /\ best \subseteq 1 .. n
      BY <1>1
    <2>7. best_scorer = Min(best)
      BY DEF best_scorer
    <2> HIDE DEF best
    <2>8. Min(best) \in best
      BY <2>5, <2>6, MinNat
    <2> QED BY <2>6, <2>7, <2>8
  <1>5. \A j \in 1 .. n : /\ BlkLast(terms[j].q, terms[j].blk) \in Nat /\ BlkLast(terms[j].q, terms[j].blk) < UINT32_MAX
                          /\ skip(terms[j])[terms[j].blk + 1].last_doc_id = BlkLast(terms[j].q, terms[j].blk)
    <2> SUFFICES ASSUME NEW j \in 1 .. n
                 PROVE  /\ BlkLast(terms[j].q, terms[j].blk) \in Nat /\ BlkLast(terms[j].q, terms[j].blk) < UINT32_MAX
                        /\ skip(terms[j])[terms[j].blk + 1].last_doc_id = BlkLast(terms[j].q, terms[j].blk)
      OBVIOUS
    <2> DEFINE q == terms[j].q
               b == terms[j].blk
    <2>1. Place(q, b, terms[j].pos) /\ PlacesOK(q)
      BY <1>2, <1>3, CurType
    <2>2. skip(terms[j])[b + 1].last_doc_id = BlkLast(q, b)
      BY DEF skip, BlkLast, term_of
    <2> HIDE DEF q, b
    <2>3. b \in 0 .. Blks(q) - 1
      BY <2>1 DEF Place
    <2>4. PICK x \in 0 .. BlkLen(q, b) - 1 : BlkDoc(q, b, x) = BlkLast(q, b)
      BY <2>1, <2>3 DEF PlacesOK
    <2>5. Place(q, b, x)
      BY <2>3 DEF Place
    <2>6. BlkLast(q, b) \in Nat /\ BlkLast(q, b) < UINT32_MAX
      BY <2>1, <2>4, <2>5 DEF PlacesOK
    <2> QED BY <2>2, <2>6 DEF q, b
  <1>6. /\ min_block_end \in Nat /\ min_block_end < UINT32_MAX
        /\ \A j \in 1 .. n : min_block_end <= BlkLast(terms[j].q, terms[j].blk)
    <2>1. ends \in SUBSET Nat /\ \A y \in ends : y < UINT32_MAX
      BY <1>1, <1>5
    <2>2. \A j \in 1 .. n : BlkLast(terms[j].q, terms[j].blk) \in ends
      BY <1>1, <1>5
    <2>3. ends # {}
      BY <1>0, <2>2
    <2>4. min_block_end = Min(ends)
      BY DEF min_block_end
    <2> HIDE DEF ends
    <2>5. Min(ends) \in ends /\ \A y \in ends : Min(ends) <= y
      BY <2>1, <2>3, MinNat
    <2> QED BY <2>1, <2>2, <2>4, <2>5
  <1>7. first_other_doc \in Nat /\ first_other_doc <= UINT32_MAX
    <2>1. CASE n < nterms
      <3>1. n + 1 \in 1 .. nterms
        BY <1>0, <2>1
      <3>2. first_other_doc = Cur(terms[n + 1])
        BY <2>1 DEF first_other_doc, Cur
      <3> QED BY <1>2, <3>1, <3>2
    <2>2. CASE ~(n < nterms)
      BY <2>2, LimitsAssumption, DocIdAssumption DEF first_other_doc
    <2> QED BY <2>1, <2>2
  <1>8. min_block_end + 1 \in Nat
    BY <1>6
  <1>9. SkipTarget \in Nat /\ SkipTarget = IF min_block_end + 1 <= first_other_doc THEN min_block_end + 1 ELSE first_other_doc
    BY <1>7, <1>8, MinTwo DEF SkipTarget
  <1> QED BY <1>1, <1>4, <1>6, <1>7, <1>8, <1>9, LimitsAssumption, DocIdAssumption

-----------------------------------------------------------------------------
(* The inductive invariant: the shape of the state *)

(* Inside one of the two loops. *)
Working == pc \in {"block", "posting", "pivot", "seek", "advance", "reject"}

(* The part of the state that does not depend on the loops. *)
Base ==
    /\ QueryInv /\ todo \subseteq mem_matches
    /\ IsHeap(heap) /\ Len(heap) <= query.k
    /\ si \in 1 .. Len(query.segs) + 1
    /\ active \in 0 .. nterms /\ i \in 0 .. Max({nterms, TP_BLOCK_SIZE}) + 1 /\ pivot.len \in 0 .. nterms
    /\ pc \in {"memtable", "segment", "block", "posting", "pivot", "seek", "advance", "reject", "done"}

(* Inside a loop lo and hi are the range of the tenant. *)
RangeState ==
    Working => InSegment /\ tenant_range # << >> /\ lo = tenant_range[1] /\ hi = tenant_range[2]

(* In the WAND loop the terms are valid and sorted, and active counts the live ones. *)
WandState ==
    InWand => /\ nterms > 1 /\ TermsAre(terms) /\ active = Cardinality(LiveSet(terms))
              /\ \A j \in 1 .. nterms : lo <= Cur(terms[j])

(* While seeking, the pivot is a document inside the range, its terms are live and the
   terms behind them are past it. *)
SeekState ==
    pc = "seek" =>
        /\ pivot.len \in 1 .. nterms /\ i \in 1 .. pivot.len + 1
        /\ pivot.doc \in Nat /\ pivot.doc < UINT32_MAX /\ lo <= pivot.doc /\ pivot.doc <= hi
        /\ \A j \in 1 .. pivot.len : Cur(terms[j]) # UINT32_MAX
        /\ \A j \in pivot.len + 1 .. nterms : Cur(terms[j]) > pivot.doc

(* While leaving the pivot document, the terms from i on have left it. *)
LeaveState ==
    pc \in {"advance", "reject"} =>
        /\ pivot.len \in 1 .. nterms /\ i \in 0 .. pivot.len
        /\ pivot.doc \in Nat /\ pivot.doc < UINT32_MAX
        /\ \A j \in 1 .. nterms : Cur(terms[j]) >= pivot.doc
        /\ \A j \in i + 1 .. nterms : Cur(terms[j]) > pivot.doc
        /\ pc = "reject" => tenant_rejects(pivot.doc)

(* The place of the single-term loop. *)
SingleState ==
    pc \in {"block", "posting"} =>
        /\ nterms = 1 /\ has_term(seg, single_term) /\ block \in 0 .. block_count(seg, single_term)
        /\ pc = "posting" => /\ block < block_count(seg, single_term)
                             /\ i \in 1 .. Len(Block(seg.post[single_term], block)) + 1

(* Everything that does not depend on the scores. *)
Shape == Base /\ RangeState /\ WandState /\ SeekState /\ LeaveState /\ SingleState

(* What depends on the query and the segment only. *)
LEMMA Frame ==
    ASSUME query' = query, si' = si
    PROVE  /\ \A ts : Cur(ts)' = Cur(ts)
           /\ \A ts : Valid(ts)' <=> Valid(ts)
           /\ nterms' = nterms /\ seg' = seg /\ single_term' = single_term /\ InSegment' = InSegment
           /\ tenant_range' = tenant_range
           /\ \A s : TermsAre(s)' <=> TermsAre(s)
           /\ \A s : LiveSet(s)' = LiveSet(s)
  <1>1. seg' = seg /\ nterms' = nterms /\ \A q : term_of(q)' = term_of(q)
    BY DEF seg, nterms, term_of
  <1>2. \A ts : list(ts)' = list(ts)
    BY <1>1 DEF list
  <1>3. \A ts : Cur(ts)' = Cur(ts)
    BY <1>2 DEF Cur, term_current_doc_id, current_posting
  <1>4. \A ts : Valid(ts)' <=> Valid(ts)
    BY <1>1 DEF Valid, TermState, Place, Blks, BlkLen
  <1>5. \A s : TermsAre(s)' <=> TermsAre(s)
    BY <1>1, <1>3, <1>4 DEF TermsAre
  <1>6. \A s : LiveSet(s)' = LiveSet(s)
    BY <1>1 DEF LiveSet
  <1>7. tenant_range' = tenant_range
    BY <1>1 DEF tenant_range
  <1>8. single_term' = single_term /\ InSegment' = InSegment
    BY DEF single_term, InSegment
  <1> QED BY <1>1, <1>3, <1>4, <1>5, <1>6, <1>7, <1>8

(* The query does not change. *)
LEMMA FrameBase ==
    ASSUME Base, query' = query, todo' \subseteq todo
    PROVE  QueryInv' /\ nterms' = nterms /\ (todo \subseteq mem_matches)' /\ mem_matches' = mem_matches
  <1>1. QueryInv' /\ nterms' = nterms
    BY QueryInvStep DEF Base, nterms
  <1>2. mem_matches' = mem_matches
    BY <1>1 DEF mem_matches, tenant_match
  <1> QED BY <1>1, <1>2 DEF Base

(* Shape holds at the start. *)
LEMMA ShapeInit == Init => Shape
  <1> SUFFICES ASSUME Init PROVE Shape
    OBVIOUS
  <1>1. QueryInv
    BY QueryInvInit
  <1>2. nterms \in Nat \ {0} /\ query.k \in Nat \ {0} /\ Len(query.segs) \in Nat
    BY <1>1 DEF QueryInv
  <1>3. IsHeap(heap) /\ Len(heap) = 0
    BY DEF Init, IsHeap, Heap
  <1>4. Max({nterms, TP_BLOCK_SIZE}) \in Nat
    BY <1>2, BlockSizeAssumption, MaxTwo
  <1>5. /\ todo = mem_matches /\ si = 1 /\ active = 0 /\ pivot.len = 0 /\ i = 0 /\ pc = "memtable"
    BY DEF Init
  <1>6. Base
    BY <1>1, <1>2, <1>3, <1>4, <1>5 DEF Base
  <1> QED BY <1>5, <1>6 DEF Shape, RangeState, WandState, SeekState, LeaveState, SingleState, Working, InWand

(* The heap after a result was offered to it. *)
LEMMA HeapKept ==
    ASSUME Base, NEW e \in Entry
    PROVE  Added(heap, tp_topk_add(heap, query.k, e), query.k, e)
  <1>1. query.k \in Nat \ {0} /\ IsHeap(heap) /\ Len(heap) <= query.k
    BY DEF Base, QueryInv
  <1> QED BY <1>1, AddResult

(* A memtable document keeps Shape. *)
LEMMA ShapeMemtable == Shape /\ ScoreMemtableDoc => Shape'
  <1> SUFFICES ASSUME Shape, ScoreMemtableDoc PROVE Shape'
    OBVIOUS
  <1>0. Base
    BY DEF Shape
  <1>1. UNCHANGED <<query, si, lo, hi, block, terms, active, pivot, i, pc, result>> /\ pc = "memtable"
    BY DEF ScoreMemtableDoc
  <1>2. PICK d \in todo :
         /\ heap' = IF tp_topk_dominated(heap, query.k, mem_score(d)) THEN heap
                    ELSE tp_topk_add(heap, query.k, MemtableEntry(d.ctid, mem_score(d)))
         /\ todo' = todo \ {d}
    BY DEF ScoreMemtableDoc
  <1>3. d \in query.mem /\ QueryInv
    BY <1>0 DEF Base, mem_matches
  <1>4. MemtableEntry(d.ctid, mem_score(d)) \in Entry
    BY <1>3, MemEntry
  <1>5. IsHeap(heap') /\ Len(heap') <= query.k
    <2>1. CASE heap' = heap
      BY <1>0, <2>1 DEF Base
    <2>2. CASE heap' = tp_topk_add(heap, query.k, MemtableEntry(d.ctid, mem_score(d)))
      BY <1>0, <1>4, <2>2, HeapKept DEF Added
    <2> QED BY <1>2, <2>1, <2>2
  <1>6. QueryInv' /\ nterms' = nterms /\ (todo \subseteq mem_matches)'
    BY <1>0, <1>1, <1>2, FrameBase
  <1>7. Base'
    BY <1>0, <1>1, <1>5, <1>6 DEF Base
  <1> QED BY <1>1, <1>7 DEF Shape, RangeState, WandState, SeekState, LeaveState, SingleState, Working, InWand

(* Steps that change neither the query nor the heap. *)
LEMMA BaseKept ==
    ASSUME Base, UNCHANGED <<query, todo, heap>>, si' \in 1 .. Len(query.segs) + 1,
           active' \in 0 .. nterms, i' \in 0 .. Max({nterms, TP_BLOCK_SIZE}) + 1, pivot'.len \in 0 .. nterms,
           pc' \in {"memtable", "segment", "block", "posting", "pivot", "seek", "advance", "reject", "done"}
    PROVE  Base'
  <1>1. QueryInv' /\ nterms' = nterms /\ (todo \subseteq mem_matches)'
    BY FrameBase
  <1> QED BY <1>1 DEF Base

(* Leaving a segment keeps Shape. *)
LEMMA ShapeLeave ==
    ASSUME Shape, LeaveSegment, si <= Len(query.segs), UNCHANGED <<query, todo, heap, pivot, i>>, active' \in 0 .. nterms
    PROVE  Shape'
  <1>0. Base /\ Len(query.segs) \in Nat
    BY DEF Shape, Base, QueryInv
  <1>1. si' = si + 1 /\ pc' = "segment"
    BY DEF LeaveSegment
  <1>2. si' \in 1 .. Len(query.segs) + 1
    BY <1>0, <1>1 DEF Base
  <1>3. Base'
    BY <1>0, <1>1, <1>2, BaseKept DEF Base
  <1> QED BY <1>1, <1>3 DEF Shape, RangeState, WandState, SeekState, LeaveState, SingleState, Working, InWand

(* So do the steps between the loops and the block steps of the single-term loop. *)
LEMMA ShapeSegment ==
    ASSUME Shape, MemtableDone \/ SkipSegment \/ OpenSingle \/ SkipBlock \/ LoadBlock \/ SingleDone \/ Extract \/ Done
    PROVE  Shape'
  <1>0. Base /\ Len(query.segs) \in Nat /\ nterms \in Nat /\ active \in 0 .. nterms
    BY DEF Shape, Base, QueryInv
  <1>1. CASE MemtableDone
    <2>1. UNCHANGED <<query, todo, heap, si, active, pivot, i>> /\ pc' = "segment"
      BY <1>1 DEF MemtableDone
    <2>2. Base'
      BY <1>0, <2>1, BaseKept DEF Base
    <2> QED BY <2>1, <2>2 DEF Shape, RangeState, WandState, SeekState, LeaveState, SingleState, Working, InWand
  <1>2. CASE SkipSegment
    BY <1>0, <1>2, ShapeLeave DEF SkipSegment
  <1>3. CASE OpenSingle
    <2>1. pc = "segment" /\ si <= Len(query.segs) /\ nterms = 1 /\ tenant_range # << >> /\ UNCHANGED <<query, todo, heap, terms, active, pivot, i, result>>
      BY <1>3 DEF OpenSingle
    <2>2. CASE has_term(seg, query.terms[1].term)
      <3>1. lo' = tenant_range[1] /\ hi' = tenant_range[2] /\ block' = 0 /\ pc' = "block" /\ si' = si
        BY <1>3, <2>2 DEF OpenSingle
      <3>2. Base'
        BY <1>0, <2>1, <3>1, BaseKept DEF Base
      <3>3. InSegment
        BY <1>0, <2>1 DEF Base, InSegment
      <3>4. tenant_range' = tenant_range /\ seg' = seg /\ nterms' = nterms /\ single_term' = single_term /\ InSegment' = InSegment
        BY <2>1, <3>1, Frame
      <3>5. RangeState'
        BY <2>1, <3>1, <3>3, <3>4 DEF RangeState
      <3>6. block_count(seg, single_term) \in Nat
        <4>1. single_term = term_of(1) /\ 1 \in 1 .. nterms /\ has_term(seg, term_of(1)) /\ QueryInv
          BY <1>0, <2>1, <2>2 DEF single_term, term_of, Base
        <4>2. PlacesOK(1)
          BY <3>3, <4>1, TermPlaces
        <4> QED BY <4>1, <4>2 DEF PlacesOK, Blks, block_count
      <3>7. SingleState'
        BY <2>1, <2>2, <3>1, <3>4, <3>6 DEF SingleState, single_term
      <3> QED BY <3>1, <3>2, <3>5, <3>7 DEF Shape, WandState, SeekState, LeaveState, InWand
    <2>3. CASE ~has_term(seg, query.terms[1].term)
      <3>1. LeaveSegment
        BY <1>3, <2>3 DEF OpenSingle
      <3> QED BY <1>0, <2>1, <3>1, ShapeLeave
    <2> QED BY <2>2, <2>3
  <1>4. CASE SkipBlock
    <2>1. pc = "block" /\ pc' = pc /\ block < block_count(seg, single_term) /\ block' = block + 1 /\ UNCHANGED <<query, todo, heap, si, lo, hi, terms, active, pivot, i>>
      BY <1>4 DEF SkipBlock
    <2>2. Base'
      BY <1>0, <2>1, BaseKept DEF Base
    <2>3. tenant_range' = tenant_range /\ seg' = seg /\ nterms' = nterms /\ single_term' = single_term /\ InSegment' = InSegment
      BY <2>1, Frame
    <2>4. RangeState'
      BY <2>1, <2>3 DEF Shape, RangeState, Working
    <2>5. nterms = 1 /\ has_term(seg, single_term) /\ block \in 0 .. block_count(seg, single_term)
      BY <2>1 DEF Shape, SingleState
    <2>6. block + 1 \in 0 .. block_count(seg, single_term)
      <3>1. block_count(seg, single_term) \in Nat
        <4>1. single_term = term_of(1) /\ 1 \in 1 .. nterms /\ has_term(seg, term_of(1)) /\ QueryInv /\ InSegment
          BY <1>0, <2>1, <2>5 DEF single_term, term_of, Base, Shape, RangeState, Working
        <4>2. PlacesOK(1)
          BY <4>1, TermPlaces
        <4> QED BY <4>1, <4>2 DEF PlacesOK, Blks, block_count
      <3> QED BY <2>1, <2>5, <3>1
    <2>7. SingleState'
      BY <2>1, <2>3, <2>5, <2>6 DEF SingleState
    <2> QED BY <2>1, <2>2, <2>4, <2>7 DEF Shape, WandState, SeekState, LeaveState, InWand
  <1>5. CASE LoadBlock
    <2>1. pc = "block" /\ pc' = "posting" /\ block < block_count(seg, single_term) /\ block' = block /\ i' = 1 /\ UNCHANGED <<query, todo, heap, si, lo, hi, terms, active, pivot>>
      BY <1>5 DEF LoadBlock
    <2>i. 1 \in 0 .. Max({nterms, TP_BLOCK_SIZE}) + 1
      BY <1>0, BlockSizeAssumption, MaxTwo
    <2>2. Base'
      BY <1>0, <2>1, <2>i, BaseKept DEF Base
    <2>3. tenant_range' = tenant_range /\ seg' = seg /\ nterms' = nterms /\ single_term' = single_term /\ InSegment' = InSegment
      BY <2>1, Frame
    <2>4. RangeState'
      BY <2>1, <2>3 DEF Shape, RangeState, Working
    <2>5. nterms = 1 /\ has_term(seg, single_term) /\ block \in 0 .. block_count(seg, single_term)
      BY <2>1 DEF Shape, SingleState
    <2>6. 1 \in 1 .. Len(Block(seg.post[single_term], block)) + 1
      <3>1. single_term = term_of(1) /\ 1 \in 1 .. nterms /\ has_term(seg, term_of(1)) /\ QueryInv /\ InSegment
        BY <1>0, <2>1, <2>5 DEF single_term, term_of, Base, Shape, RangeState, Working
      <3>2. ListOK(seg, single_term)
        BY <3>1, SegOK DEF WellFormed, has_term
      <3>3. Len(Block(seg.post[single_term], block)) \in Nat
        <4>1. seg.post[single_term] \in PostingList /\ block_count(seg, single_term) = num_blocks(seg.post[single_term])
          BY <3>2 DEF ListOK, block_count
        <4>2. num_blocks(seg.post[single_term]) \in Nat /\ \A b \in 0 .. num_blocks(seg.post[single_term]) - 1 : Len(Block(seg.post[single_term], b)) \in Nat \ {0}
          BY <4>1, BlockPlaces
        <4>3. block \in 0 .. num_blocks(seg.post[single_term]) - 1
          BY <2>1, <2>5, <4>1, <4>2
        <4> QED BY <4>2, <4>3
      <3> QED BY <3>3
    <2>7. SingleState'
      BY <2>1, <2>3, <2>5, <2>6 DEF SingleState
    <2> QED BY <2>1, <2>2, <2>4, <2>7 DEF Shape, WandState, SeekState, LeaveState, InWand
  <1>6. CASE SingleDone
    <2>1. pc = "block" /\ LeaveSegment /\ UNCHANGED <<query, todo, heap, active, pivot, i>>
      BY <1>6 DEF SingleDone
    <2>2. InSegment
      BY <2>1 DEF Shape, RangeState, Working
    <2> QED BY <1>0, <2>1, <2>2, ShapeLeave DEF InSegment
  <1>7. CASE Extract
    <2>1. heap' = << >> /\ pc' = "done" /\ UNCHANGED <<query, todo, si, active, pivot, i>>
      BY <1>7 DEF Extract
    <2>2. IsHeap(heap') /\ Len(heap') = 0
      BY <2>1 DEF IsHeap, Heap
    <2>3. QueryInv' /\ nterms' = nterms /\ (todo \subseteq mem_matches)'
      BY <1>0, <2>1, FrameBase
    <2>4. Len(heap') <= query'.k
      BY <2>2, <2>3 DEF QueryInv
    <2>5. Base'
      BY <1>0, <2>1, <2>2, <2>3, <2>4 DEF Base
    <2> QED BY <2>1, <2>5 DEF Shape, RangeState, WandState, SeekState, LeaveState, SingleState, Working, InWand
  <1>8. CASE Done
    <2>1. pc = "done" /\ pc' = pc /\ UNCHANGED <<query, todo, heap, si, active, pivot, i>>
      BY <1>8 DEF Done, vars
    <2>2. Base'
      BY <1>0, <2>1, BaseKept DEF Base
    <2> QED BY <2>1, <2>2 DEF Shape, RangeState, WandState, SeekState, LeaveState, SingleState, Working, InWand
  <1> QED BY <1>1, <1>2, <1>3, <1>4, <1>5, <1>6, <1>7, <1>8

(* What is known inside the WAND loop. *)
Loop ==
    /\ QueryInv /\ InSegment /\ nterms \in Nat /\ nterms > 1 /\ TermsAre(terms)
    /\ active = Cardinality(LiveSet(terms))
    /\ lo \in Nat /\ hi \in Nat /\ lo <= UINT32_MAX /\ hi <= UINT32_MAX
    /\ \A j \in 1 .. nterms : /\ Valid(terms[j]) /\ Cur(terms[j]) \in Nat /\ lo <= Cur(terms[j])
                              /\ Cur(terms[j]) <= UINT32_MAX
                              /\ Cur(terms[j]) = UINT32_MAX <=> terms[j].fin

(* What Shape says inside the WAND loop. *)
LEMMA InLoop ==
    ASSUME Shape, InWand
    PROVE  Loop
  <1>1. Base /\ RangeState /\ WandState /\ Working
    BY DEF Shape, InWand, Working
  <1>2. QueryInv /\ InSegment /\ nterms \in Nat /\ nterms > 1 /\ TermsAre(terms) /\ active = Cardinality(LiveSet(terms))
        /\ (\A j \in 1 .. nterms : lo <= Cur(terms[j])) /\ tenant_range # << >> /\ lo = tenant_range[1] /\ hi = tenant_range[2]
    BY <1>1 DEF Base, RangeState, WandState, QueryInv
  <1>3. lo \in Nat /\ hi \in Nat /\ lo <= UINT32_MAX /\ hi <= UINT32_MAX
    BY <1>2, TenantRange
  <1>4. ASSUME NEW j \in 1 .. nterms
        PROVE  /\ Valid(terms[j]) /\ Cur(terms[j]) \in Nat
               /\ Cur(terms[j]) <= UINT32_MAX
               /\ Cur(terms[j]) = UINT32_MAX <=> terms[j].fin
    <2>1. Valid(terms[j])
      BY <1>2 DEF TermsAre
    <2> QED BY <1>2, <2>1, CurType
  <1> QED BY <1>2, <1>3, <1>4 DEF Loop

(* Steps of the loop that leave the terms alone. *)
LEMMA LoopKeeps ==
    ASSUME Shape, InWand, UNCHANGED <<query, todo, si, lo, hi, terms, active>>,
           IsHeap(heap'), Len(heap') <= query.k, i' \in 0 .. nterms + 1, pivot'.len \in 0 .. nterms,
           pc' \in {"pivot", "seek", "advance", "reject"}
    PROVE  Base' /\ RangeState' /\ WandState' /\ SingleState'
  <1>1. Base /\ RangeState /\ WandState /\ Working /\ nterms \in Nat
    BY DEF Shape, InWand, Working, Base, QueryInv
  <1>2. QueryInv' /\ nterms' = nterms /\ (todo \subseteq mem_matches)'
    BY <1>1, FrameBase
  <1>3. i' \in 0 .. Max({nterms, TP_BLOCK_SIZE}) + 1
    BY <1>1, MaxTwo, BlockSizeAssumption
  <1>4. Base'
    BY <1>1, <1>2, <1>3 DEF Base
  <1>5. tenant_range' = tenant_range /\ InSegment' = InSegment
    BY Frame
  <1>6. RangeState'
    BY <1>1, <1>5 DEF RangeState
  <1>7. WandState'
    <2>1. \A ts : Cur(ts)' = Cur(ts)
      BY Frame
    <2>2. \A s : TermsAre(s)' <=> TermsAre(s)
      BY Frame
    <2>3. \A s : LiveSet(s)' = LiveSet(s)
      BY Frame
    <2>0. TermsAre(terms)
      BY <1>1 DEF WandState
    <2>4. TermsAre(terms)' /\ LiveSet(terms)' = LiveSet(terms) /\ \A j \in 1 .. nterms : Cur(terms[j])' = Cur(terms[j])
      BY <2>0, <2>1, <2>2, <2>3
    <2> QED BY <1>1, <1>2, <2>4 DEF WandState
  <1>8. SingleState'
    BY DEF SingleState
  <1> QED BY <1>4, <1>6, <1>7, <1>8

(* Steps of the loop that move the term at o. *)
MovesTo(o, m, target) ==
    /\ o \in 1 .. nterms /\ ~terms[o].fin /\ Moved(terms[o], m, target)
    /\ terms' = restore_ordering([terms EXCEPT ![o] = m], o) /\ active' = active - drop(m)

(* A step of the loop that moves one term keeps the terms sorted and the count of active
   ones right. *)
LEMMA LoopMoves ==
    ASSUME Shape, InWand, UNCHANGED <<query, todo, heap, si, lo, hi>>,
           i' \in 0 .. nterms + 1, pivot'.len \in 0 .. nterms,
           pc' \in {"pivot", "seek", "advance", "reject"},
           NEW o, NEW m, NEW target, MovesTo(o, m, target)
    PROVE  /\ Base' /\ RangeState' /\ WandState' /\ SingleState'
           /\ \E stop : Inserted([terms EXCEPT ![o] = m], terms', o, stop, nterms)
           /\ Step(terms, terms', o, m)
  <1>0. Loop /\ Base /\ RangeState /\ WandState /\ Working
    BY InLoop DEF Shape, InWand, Working
  <1>1. nterms \in Nat /\ QueryInv /\ InSegment /\ TermsAre(terms) /\ Len(query.segs) \in Nat
    BY <1>0 DEF Loop, QueryInv
  <1>2. o \in 1 .. nterms /\ ~terms[o].fin /\ Moved(terms[o], m, target)
    BY DEF MovesTo
  <1>3. /\ TermsAre(terms')
        /\ \E stop : Inserted([terms EXCEPT ![o] = m], terms', o, stop, nterms)
        /\ Cardinality(LiveSet(terms')) = Cardinality(LiveSet(terms)) - drop(m)
        /\ Step(terms, terms', o, m)
    BY <1>1, <1>2, TermMoves DEF MovesTo
  <1>4. active' = Cardinality(LiveSet(terms'))
    BY <1>0, <1>3 DEF MovesTo, Loop
  <1>5. active' \in 0 .. nterms
    BY <1>1, <1>4, LiveSetFinite
  <1>6. i' \in 0 .. Max({nterms, TP_BLOCK_SIZE}) + 1
    BY <1>1, MaxTwo, BlockSizeAssumption
  <1>7. Base'
    BY <1>0, <1>1, <1>5, <1>6, BaseKept DEF Base
  <1>8. tenant_range' = tenant_range /\ InSegment' = InSegment /\ nterms' = nterms
    BY Frame
  <1>9. RangeState'
    BY <1>0, <1>8 DEF RangeState
  <1>10. WandState'
    <2>1. \A ts : Cur(ts)' = Cur(ts)
      BY Frame
    <2>2. \A s : TermsAre(s)' <=> TermsAre(s)
      BY Frame
    <2>3. \A s : LiveSet(s)' = LiveSet(s)
      BY Frame
    <2>4. TermsAre(terms)' /\ LiveSet(terms)' = LiveSet(terms')
      BY <1>3, <2>2, <2>3
    <2>5. ASSUME NEW j \in 1 .. nterms PROVE lo <= Cur(terms'[j])
      <3>1. CASE terms'[j] = m
        <4>1. Cur(terms[o]) <= Cur(m) /\ Cur(m) \in Nat
          BY <1>1, <1>2, CurType DEF Moved
        <4> QED BY <1>0, <1>2, <3>1, <4>1 DEF Loop
      <3>2. CASE \E k \in 1 .. nterms : k # o /\ terms'[j] = terms[k]
        BY <1>0, <3>2 DEF Loop
      <3> QED BY <1>3, <3>1, <3>2 DEF Step
    <2> QED BY <1>0, <1>4, <1>8, <2>1, <2>4, <2>5 DEF WandState, InWand
  <1>11. SingleState'
    BY DEF SingleState
  <1> QED BY <1>3, <1>7, <1>9, <1>10, <1>11

(* Back to the choice of a pivot. *)
LEMMA BackToPivot ==
    ASSUME Base', RangeState', WandState', SingleState', pc' = "pivot"
    PROVE  Shape'
  BY DEF Shape, SeekState, LeaveState

(* A posting of the single-term loop keeps Shape. *)
LEMMA ShapePosting == Shape /\ ScorePosting => Shape'
  <1> SUFFICES ASSUME Shape, ScorePosting PROVE Shape'
    OBVIOUS
  <1> DEFINE B == Block(seg.post[single_term], block)
  <1>0. Base /\ QueryInv /\ Len(query.segs) \in Nat /\ nterms \in Nat /\ active \in 0 .. nterms /\ pc = "posting"
    BY DEF Shape, Base, QueryInv, ScorePosting
  <1>1. InSegment /\ nterms = 1 /\ has_term(seg, single_term) /\ block \in 0 .. block_count(seg, single_term)
        /\ block < block_count(seg, single_term) /\ i \in 1 .. Len(B) + 1
    BY <1>0 DEF Shape, SingleState, RangeState, Working
  <1>2. UNCHANGED <<query, todo, si, lo, hi, terms, active, pivot, result>>
    BY DEF ScorePosting
  <1>3. ListOK(seg, single_term)
    BY <1>0, <1>1, SegOK DEF WellFormed, has_term
  <1>4. seg.post[single_term] \in PostingList /\ block_count(seg, single_term) = num_blocks(seg.post[single_term])
    BY <1>3 DEF ListOK, block_count
  <1>5. num_blocks(seg.post[single_term]) \in Nat /\ block \in 0 .. num_blocks(seg.post[single_term]) - 1
    BY <1>1, <1>4, BlockPlaces
  <1>6. Len(B) \in Nat /\ Len(B) <= TP_BLOCK_SIZE /\ B \in Seq(Posting)
    BY <1>4, <1>5, BlockPlaces
  <1>7. /\ tenant_range' = tenant_range /\ seg' = seg /\ nterms' = nterms /\ single_term' = single_term /\ InSegment' = InSegment
    BY <1>2, Frame
  <1>8. Max({nterms, TP_BLOCK_SIZE}) \in Nat /\ TP_BLOCK_SIZE <= Max({nterms, TP_BLOCK_SIZE}) /\ TP_BLOCK_SIZE \in Nat
    BY <1>0, MaxTwo, BlockSizeAssumption
  <1>9. CASE i > Len(B) \/ B[i].doc > hi
    <2>1. block' = block + 1 /\ pc' = "block" /\ heap' = heap /\ i' = i
      BY <1>9 DEF ScorePosting
    <2>2. Base'
      BY <1>0, <1>2, <2>1, BaseKept DEF Base
    <2>3. RangeState'
      BY <1>0, <1>2, <1>7, <2>1 DEF Shape, RangeState, Working
    <2>4. SingleState'
      BY <1>1, <1>4, <1>5, <1>7, <2>1 DEF SingleState
    <2> QED BY <2>1, <2>2, <2>3, <2>4 DEF Shape, WandState, SeekState, LeaveState, InWand
  <1>10. CASE ~(i > Len(B) \/ B[i].doc > hi)
    <2> DEFINE e == SegmentEntry(si, B[i].doc, posting_score(1, B[i]))
    <2>1. block' = block /\ pc' = "posting" /\ i' = i + 1 /\ (heap' = heap \/ heap' = tp_topk_add(heap, query.k, e))
      BY <1>0, <1>10 DEF ScorePosting
    <2>2. i \in 1 .. Len(B) /\ B[i] \in Posting
      BY <1>1, <1>6, <1>10
    <2>3. e \in Entry
      <3>1. posting_score(1, B[i]) \in Nat /\ B[i].doc \in Nat
        <4>1. 1 \in 1 .. nterms
          BY <1>1
        <4> HIDE DEF B
        <4> QED BY <1>0, <2>2, <4>1, PostingScoreNat DEF Posting
      <3>2. si \in 1 .. Len(query.segs)
        BY <1>1 DEF InSegment
      <3> HIDE DEF B
      <3> QED BY <1>0, <3>1, <3>2, SegEntry
    <2>4. IsHeap(heap') /\ Len(heap') <= query.k
      <3> HIDE DEF e
      <3>1. Added(heap, tp_topk_add(heap, query.k, e), query.k, e)
        BY <1>0, <2>3, HeapKept
      <3> QED BY <1>0, <2>1, <3>1 DEF Added, Base
    <2>5. i' \in 0 .. Max({nterms, TP_BLOCK_SIZE}) + 1 /\ i' \in 1 .. Len(B) + 1
      BY <1>6, <1>8, <2>1, <2>2
    <2>6. QueryInv' /\ (todo \subseteq mem_matches)'
      BY <1>0, <1>2, FrameBase
    <2>7. Base'
      BY <1>0, <1>2, <1>7, <2>1, <2>4, <2>5, <2>6 DEF Base
    <2>8. RangeState'
      BY <1>0, <1>2, <1>7, <2>1 DEF Shape, RangeState, Working
    <2>9. SingleState'
      BY <1>1, <1>7, <2>1, <2>5 DEF SingleState
    <2> QED BY <2>1, <2>7, <2>8, <2>9 DEF Shape, WandState, SeekState, LeaveState, InWand
  <1> QED BY <1>9, <1>10

(* A fresh term state, and one moved to the start of the tenant's range. *)
SoughtFirst(ts, first) ==
    IF first > 0 /\ term_current_doc_id(ts) < first THEN seek_term_to_doc(ts, first) ELSE ts

(* A fresh iterator stands on the first posting of its list. *)
LEMMA FreshValid ==
    ASSUME QueryInv, InSegment, NEW q \in 1 .. nterms
    PROVE  /\ Valid(tp_segment_posting_iterator_init(q)) /\ tp_segment_posting_iterator_init(q).q = q
           /\ tp_segment_posting_iterator_init(q).found = has_term(seg, term_of(q))
           /\ tp_segment_posting_iterator_init(q).fin = ~has_term(seg, term_of(q))
           /\ tp_segment_posting_iterator_init(q).blk = 0 /\ tp_segment_posting_iterator_init(q).pos = 0
  <1> DEFINE f == tp_segment_posting_iterator_init(q)
  <1>1. f.q = q /\ f.found = has_term(seg, term_of(q)) /\ f.fin = ~has_term(seg, term_of(q)) /\ f.blk = 0 /\ f.pos = 0
    BY DEF tp_segment_posting_iterator_init, term_of
  <1>2. f \in TermState
    BY DEF TermState, tp_segment_posting_iterator_init, has_term
  <1>3. has_term(seg, term_of(q)) => Place(q, 0, 0)
    <2> SUFFICES ASSUME has_term(seg, term_of(q)) PROVE Place(q, 0, 0)
      OBVIOUS
    <2>1. PlacesOK(q)
      BY TermPlaces
    <2>2. Blks(q) \in Nat \ {0} /\ 0 \in 0 .. Blks(q) - 1
      BY <2>1 DEF PlacesOK
    <2>3. BlkLen(q, 0) \in Nat \ {0}
      BY <2>1, <2>2 DEF PlacesOK
    <2> QED BY <2>2, <2>3 DEF Place
  <1>4. Valid(f)
    <2> HIDE DEF f
    <2> QED BY <1>1, <1>2, <1>3 DEF Valid, has_term
  <1> QED BY <1>1, <1>4

(* The seek to the start of the tenant range. *)
LEMMA FirstMoves ==
    ASSUME QueryInv, InSegment, NEW ts, Valid(ts), NEW first \in Nat, first <= UINT32_MAX
    PROVE  Moved(ts, SoughtFirst(ts, first), first)
  <1>1. Cur(ts) \in Nat /\ Cur(ts) <= UINT32_MAX /\ (Cur(ts) = UINT32_MAX <=> ts.fin) /\ UINT32_MAX \in Nat
    BY CurType, LimitsAssumption, DocIdAssumption
  <1>2. CASE first > 0 /\ Cur(ts) < first
    <2>1. ~ts.fin
      BY <1>1, <1>2
    <2> QED BY <1>2, <2>1, SeekMoves DEF SoughtFirst, Cur
  <1>3. CASE ~(first > 0 /\ Cur(ts) < first)
    <2>1. SoughtFirst(ts, first) = ts /\ first <= Cur(ts)
      BY <1>1, <1>3 DEF SoughtFirst, Cur
    <2>2. \A d \in Nat : ~(Cur(ts) <= d /\ d < Cur(ts))
      BY <1>1
    <2> QED BY <1>1, <2>1, <2>2 DEF Moved
  <1> QED BY <1>2, <1>3

(* It does not depend on the order of the terms. *)
LEMMA SoughtRearranged ==
    ASSUME NEW n \in Nat, NEW s, NEW r, Rearranged(s, r, n), NEW first
    PROVE  Rearranged([j \in 1 .. n |-> SoughtFirst(s[j], first)], [j \in 1 .. n |-> SoughtFirst(r[j], first)], n)
  <1>1. PICK f \in Perms(n) : \A j \in 1 .. n : r[j] = s[f[j]]
    BY DEF Rearranged
  <1>2. \A j \in 1 .. n : f[j] \in 1 .. n
    BY DEF Perms
  <1>3. \A j \in 1 .. n : [x \in 1 .. n |-> SoughtFirst(r[x], first)][j] = [x \in 1 .. n |-> SoughtFirst(s[x], first)][f[j]]
    BY <1>1, <1>2
  <1> QED BY <1>3 DEF Rearranged

(* The terms as the loop starts with them. *)
Opened(s) ==
    /\ TermsAre(s)
    /\ Cardinality({q \in {p \in 1 .. nterms : tp_segment_posting_iterator_init(p).found} :
                        ~SoughtFirst(tp_segment_posting_iterator_init(q), tenant_range[1]).fin})
         = Cardinality(LiveSet(s))
    /\ \A j \in 1 .. nterms : /\ tenant_range[1] <= Cur(s[j])
                              /\ Moved(tp_segment_posting_iterator_init(s[j].q), s[j], tenant_range[1])

(* After the second sort the terms are as the loop needs them. *)
LEMMA OpenTerms ==
    ASSUME QueryInv, InSegment, tenant_range # << >>,
           NEW s \in sort_terms_by_doc_id([q \in 1 .. nterms |-> tp_segment_posting_iterator_init(q)]),
           NEW r \in sort_terms_by_doc_id([j \in 1 .. nterms |-> SoughtFirst(s[j], tenant_range[1])])
    PROVE  Opened(r)
  <1>0. PICK first : first = tenant_range[1]
    OBVIOUS
  <1>1. nterms \in Nat /\ first \in Nat /\ first <= UINT32_MAX
    BY <1>0, TenantRange DEF QueryInv
  <1>2. PICK fresh : fresh = [q \in 1 .. nterms |-> tp_segment_posting_iterator_init(q)]
    OBVIOUS
  <1>3. PICK u : u = [q \in 1 .. nterms |-> SoughtFirst(fresh[q], first)]
    OBVIOUS
  <1>4. PICK v : v = [j \in 1 .. nterms |-> SoughtFirst(s[j], first)]
    OBVIOUS
  <1>5. \A q \in 1 .. nterms : fresh[q] = tp_segment_posting_iterator_init(q)
    BY <1>2
  <1>6. \A q \in 1 .. nterms : Valid(fresh[q]) /\ fresh[q].q = q
    BY <1>5, FreshValid
  <1>7. \A q \in 1 .. nterms : Moved(fresh[q], u[q], first)
    <2> TAKE q \in 1 .. nterms
    <2>1. u[q] = SoughtFirst(fresh[q], first)
      BY <1>3
    <2> QED BY <1>1, <1>6, <2>1, FirstMoves
  <1>8. \A q \in 1 .. nterms : Valid(u[q]) /\ u[q].q = q /\ u[q].found = fresh[q].found /\ first <= Cur(u[q])
    BY <1>6, <1>7 DEF Moved
  <1>9. Rearranged(fresh, s, nterms) /\ s = [j \in 1 .. nterms |-> s[j]]
    <2>1. fresh = [j \in 1 .. nterms |-> fresh[j]]
      BY <1>2
    <2> QED BY <1>1, <1>2, <2>1, SortRearranges
  <1>10. Rearranged(u, v, nterms)
    BY <1>1, <1>3, <1>4, <1>9, SoughtRearranged
  <1>11. /\ Rearranged(v, r, nterms) /\ r = [j \in 1 .. nterms |-> r[j]]
         /\ \A a, b \in 1 .. nterms : a < b => Cur(r[a]) <= Cur(r[b])
    <2>1. v = [j \in 1 .. nterms |-> v[j]] /\ r \in sort_terms_by_doc_id(v)
      BY <1>0, <1>4
    <2> QED BY <1>1, <2>1, SortRearranges
  <1>12. Rearranged(u, r, nterms)
    BY <1>1, <1>10, <1>11, RearrangedTrans
  <1>13. /\ Cardinality(LiveSet(r)) = Cardinality(LiveSet(u))
         /\ \A j \in 1 .. nterms : Valid(r[j])
    BY <1>8, <1>12, RearrangedLive
  <1>14. \A a, b \in 1 .. nterms : r[a].q = r[b].q => a = b
    <2>1. \A a, b \in 1 .. nterms : u[a].q = u[b].q => a = b
      BY <1>8
    <2> QED BY <1>1, <1>12, <2>1, RearrangedDistinct
  <1>15. TermsAre(r)
    BY <1>11, <1>13, <1>14 DEF TermsAre
  <1>16. \A j \in 1 .. nterms : first <= Cur(r[j]) /\ Moved(tp_segment_posting_iterator_init(r[j].q), r[j], first)
    <2> TAKE j \in 1 .. nterms
    <2>1. PICK q \in 1 .. nterms : r[j] = u[q]
      BY <1>12 DEF Rearranged, Perms
    <2>2. r[j].q = q /\ Moved(fresh[q], r[j], first) /\ first <= Cur(r[j])
      BY <1>7, <1>8, <2>1
    <2> QED BY <1>5, <2>2
  <1>17. LiveSet(u) = {q \in {p \in 1 .. nterms : tp_segment_posting_iterator_init(p).found} :
                        ~SoughtFirst(tp_segment_posting_iterator_init(q), first).fin}
    <2>1. \A q \in 1 .. nterms : u[q].found = tp_segment_posting_iterator_init(q).found /\ u[q] = SoughtFirst(tp_segment_posting_iterator_init(q), first)
      BY <1>3, <1>5, <1>8
    <2> QED BY <2>1 DEF LiveSet
  <1> QED BY <1>0, <1>13, <1>15, <1>16, <1>17 DEF Opened

(* What OpenMulti does. *)
LEMMA OpenStep ==
    ASSUME Shape, OpenMulti
    PROVE  /\ pc = "segment" /\ nterms > 1 /\ tenant_range # << >> /\ QueryInv /\ InSegment
           /\ UNCHANGED <<query, todo, heap, block, pivot, i, result>>
           /\ \/ /\ LeaveSegment /\ UNCHANGED <<lo, hi, terms, active>>
                 /\ \A q \in 1 .. nterms : ~has_term(seg, term_of(q))
              \/ /\ lo' = tenant_range[1] /\ hi' = tenant_range[2] /\ pc' = "pivot" /\ si' = si
                 /\ Opened(terms') /\ active' = Cardinality(LiveSet(terms'))
  <1>1. pc = "segment" /\ nterms > 1 /\ tenant_range # << >> /\ si <= Len(query.segs)
           /\ UNCHANGED <<query, todo, heap, block, pivot, i, result>>
    BY DEF OpenMulti
  <1>2. QueryInv /\ InSegment /\ nterms \in Nat
    BY <1>1 DEF Shape, Base, InSegment, QueryInv
  <1> DEFINE fresh == [q \in 1 .. nterms |-> tp_segment_posting_iterator_init(q)]
             first == tenant_range[1]
             mv(s) == [j \in DOMAIN s |->
                       IF first > 0 /\ term_current_doc_id(s[j]) < first
                       THEN seek_term_to_doc(s[j], first) ELSE s[j]]
             found == {q \in 1 .. nterms : fresh[q].found}
  <1>3. CASE found = {}
    <2>1. LeaveSegment /\ UNCHANGED <<lo, hi, terms, active>>
      BY <1>3 DEF OpenMulti
    <2>2. \A q \in 1 .. nterms : ~has_term(seg, term_of(q))
      <3> TAKE q \in 1 .. nterms
      <3>1. ~tp_segment_posting_iterator_init(q).found
        BY <1>3
      <3> QED BY <1>2, <3>1, FreshValid
    <2> QED BY <1>1, <1>2, <2>1, <2>2
  <1>4. CASE found # {}
    <2>1. /\ lo' = first /\ hi' = tenant_range[2] /\ pc' = "pivot" /\ si' = si
          /\ \E s \in sort_terms_by_doc_id(fresh) : terms' \in sort_terms_by_doc_id(mv(s))
          /\ active' = Cardinality({q \in found : ~mv(fresh)[q].fin})
      BY <1>4 DEF OpenMulti
    <2>2. PICK s \in sort_terms_by_doc_id(fresh) : terms' \in sort_terms_by_doc_id(mv(s))
      BY <2>1
    <2>3. s = [j \in 1 .. nterms |-> s[j]]
      <3>1. fresh = [j \in 1 .. nterms |-> fresh[j]]
        OBVIOUS
      <3> HIDE DEF fresh
      <3> QED BY <1>2, <2>2, <3>1, SortRearranges
    <2>4. mv(s) = [j \in 1 .. nterms |-> SoughtFirst(s[j], tenant_range[1])]
      BY <2>3 DEF SoughtFirst
    <2>5. Opened(terms')
      BY <1>1, <1>2, <2>2, <2>4, OpenTerms
    <2>6. {q \in found : ~mv(fresh)[q].fin} = {q \in {p \in 1 .. nterms : tp_segment_posting_iterator_init(p).found} :
                        ~SoughtFirst(tp_segment_posting_iterator_init(q), tenant_range[1]).fin}
      BY DEF SoughtFirst
    <2> QED BY <1>1, <1>2, <2>1, <2>5, <2>6 DEF Opened
  <1> QED BY <1>3, <1>4

(* Entering the WAND loop keeps Shape. *)
LEMMA ShapeOpen == Shape /\ OpenMulti => Shape'
  <1> SUFFICES ASSUME Shape, OpenMulti PROVE Shape'
    OBVIOUS
  <1>1. /\ pc = "segment" /\ nterms > 1 /\ tenant_range # << >> /\ QueryInv /\ InSegment
        /\ UNCHANGED <<query, todo, heap, block, pivot, i, result>>
    BY OpenStep
  <1>2. Base /\ nterms \in Nat /\ si <= Len(query.segs) /\ active \in 0 .. nterms
    BY <1>1 DEF Shape, Base, InSegment, QueryInv
  <1>3. CASE LeaveSegment /\ UNCHANGED <<lo, hi, terms, active>>
    BY <1>1, <1>2, <1>3, ShapeLeave
  <1>4. CASE /\ lo' = tenant_range[1] /\ hi' = tenant_range[2] /\ pc' = "pivot" /\ si' = si
             /\ Opened(terms') /\ active' = Cardinality(LiveSet(terms'))
    <2>1. active' \in 0 .. nterms
      BY <1>1, <1>4, LiveSetFinite
    <2>2. Base'
      BY <1>1, <1>2, <1>4, <2>1, BaseKept DEF Base
    <2>3. tenant_range' = tenant_range /\ InSegment' = InSegment /\ nterms' = nterms
      BY <1>1, <1>4, Frame
    <2>4. \A ts : Cur(ts)' = Cur(ts)
      BY <1>1, <1>4, Frame
    <2>5. \A s : TermsAre(s)' <=> TermsAre(s)
      BY <1>1, <1>4, Frame
    <2>6. \A s : LiveSet(s)' = LiveSet(s)
      BY <1>1, <1>4, Frame
    <2>7. TermsAre(terms)' /\ LiveSet(terms)' = LiveSet(terms')
      BY <1>4, <2>5, <2>6 DEF Opened
    <2>8. \A j \in 1 .. nterms : lo' <= Cur(terms'[j])
      BY <1>4 DEF Opened
    <2>9. WandState'
      BY <1>1, <1>4, <2>3, <2>4, <2>7, <2>8 DEF WandState
    <2>10. RangeState'
      BY <1>1, <1>4, <2>3 DEF RangeState
    <2>11. SingleState'
      BY <1>4 DEF SingleState
    <2> QED BY <1>4, <2>2, <2>9, <2>10, <2>11, BackToPivot
  <1> QED BY <1>3, <1>4, OpenStep

(* The pivot: n is the term at which the bounds first pass the threshold. *)
PivotIs(n, p) ==
    /\ n \in pivot_terms /\ \A x \in pivot_terms : n <= x
    /\ n \in 1 .. nterms /\ p.len \in n .. nterms /\ p.doc = Cur(terms[n])
    /\ p.doc \in Nat /\ lo <= p.doc /\ p.doc < UINT32_MAX
    /\ \A j \in 1 .. p.len : Cur(terms[j]) # UINT32_MAX /\ Cur(terms[j]) <= p.doc
    /\ \A j \in p.len + 1 .. nterms : Cur(terms[j]) > p.doc

(* find_wand_pivot stops at the first term whose bounds pass the threshold, and takes the
   terms behind it that are on the same document. *)
LEMMA PivotFound ==
    ASSUME Loop, pivot_terms # {}
    PROVE  \E n : PivotIs(n, find_wand_pivot)
  <1>1. nterms \in Nat /\ UINT32_MAX \in Nat
    BY LimitsAssumption, DocIdAssumption DEF Loop
  <1>2. pivot_terms \in SUBSET Nat
    BY DEF pivot_terms
  <1>3. Min(pivot_terms) \in pivot_terms /\ \A x \in pivot_terms : Min(pivot_terms) <= x
    BY <1>2, MinNat
  <1>4. PICK n : n = Min(pivot_terms)
    OBVIOUS
  <1>5. n \in 1 .. nterms /\ \A j \in 1 .. n : Cur(terms[j]) # UINT32_MAX
    BY <1>3, <1>4 DEF pivot_terms, Cur
  <1>6. \A j \in 1 .. nterms : Cur(terms[j]) \in Nat /\ lo <= Cur(terms[j]) /\ Cur(terms[j]) <= UINT32_MAX
    BY DEF Loop
  <1>7. \A a, b \in 1 .. nterms : a < b => Cur(terms[a]) <= Cur(terms[b])
    BY DEF Loop, TermsAre
  <1>8. PICK doc : doc = Cur(terms[n])
    OBVIOUS
  <1>9. PICK S : S = {nterms} \cup {x \in n .. nterms - 1 : Cur(terms[x + 1]) # doc}
    OBVIOUS
  <1>10. PICK len : len = Min(S)
    OBVIOUS
  <1>11. find_wand_pivot.len = len /\ find_wand_pivot.doc = doc
    BY <1>4, <1>8, <1>9, <1>10 DEF find_wand_pivot, Cur
  <1>12. len \in S /\ \A y \in S : len <= y
    <2>1. S \in SUBSET Nat /\ S # {}
      BY <1>1, <1>5, <1>9
    <2> QED BY <1>10, <2>1, MinNat
  <1>13. len \in n .. nterms
    BY <1>1, <1>5, <1>9, <1>12
  <1>14. \A j \in n + 1 .. len : Cur(terms[j]) = doc
    <2> SUFFICES ASSUME NEW j \in n + 1 .. len, Cur(terms[j]) # doc PROVE FALSE
      OBVIOUS
    <2>1. j - 1 \in n .. nterms - 1 /\ (j - 1) + 1 = j /\ ~(len <= j - 1)
      BY <1>1, <1>5, <1>13
    <2>2. j - 1 \in S
      BY <1>9, <2>1
    <2> QED BY <1>12, <2>1, <2>2
  <1>15. doc \in Nat /\ lo <= doc /\ doc < UINT32_MAX
    BY <1>1, <1>5, <1>6, <1>8
  <1>16. \A j \in 1 .. len : Cur(terms[j]) # UINT32_MAX /\ Cur(terms[j]) <= doc
    <2> TAKE j \in 1 .. len
    <2>1. CASE j \in n + 1 .. len
      BY <1>1, <1>14, <1>15, <2>1
    <2>2. CASE j = n
      BY <1>5, <1>8, <1>15, <2>2
    <2>3. CASE j < n
      BY <1>1, <1>5, <1>7, <1>8, <2>3
    <2> QED BY <1>1, <1>5, <1>13, <2>1, <2>2, <2>3
  <1>17. \A j \in len + 1 .. nterms : Cur(terms[j]) > doc
    <2> TAKE j \in len + 1 .. nterms
    <2>1. len # nterms /\ len + 1 \in 1 .. nterms /\ n \in 1 .. nterms /\ n < len + 1
      BY <1>1, <1>5, <1>13
    <2>2. Cur(terms[len + 1]) # doc
      BY <1>9, <1>12, <2>1
    <2>3. Cur(terms[len + 1]) > doc
      BY <1>6, <1>7, <1>8, <1>15, <2>1, <2>2
    <2>4. j = len + 1 \/ len + 1 < j
      BY <1>13
    <2> QED BY <1>6, <1>7, <1>15, <2>1, <2>3, <2>4
  <1> QED BY <1>3, <1>4, <1>5, <1>8, <1>11, <1>13, <1>15, <1>16, <1>17 DEF PivotIs

(* Leaving the WAND loop keeps Shape. *)
LEMMA ShapeEnd == Shape /\ EndWand => Shape'
  <1> SUFFICES ASSUME Shape, EndWand PROVE Shape'
    OBVIOUS
  <1>1. pc = "pivot" /\ LeaveSegment /\ UNCHANGED <<query, todo, heap, active, pivot, i>>
    BY DEF EndWand
  <1>2. InSegment /\ active \in 0 .. nterms
    BY <1>1 DEF Shape, RangeState, Working, Base
  <1> QED BY <1>1, <1>2, ShapeLeave DEF InSegment

(* Choosing a pivot keeps Shape. *)
LEMMA ShapePivot == Shape /\ FindPivot => Shape'
  <1> SUFFICES ASSUME Shape, FindPivot PROVE Shape'
    OBVIOUS
  <1>1. /\ pc = "pivot" /\ pivot_found /\ pivot' = find_wand_pivot /\ i' = 1 /\ pc' = "seek"
        /\ UNCHANGED <<query, todo, heap, si, lo, hi, block, terms, active, result>>
    BY DEF FindPivot
  <1>2. InWand /\ Loop /\ nterms \in Nat
    BY <1>1, InLoop DEF InWand, Loop
  <1>3. PICK n : PivotIs(n, pivot')
    BY <1>1, <1>2, PivotFound DEF pivot_found
  <1>4. pivot'.len \in 1 .. nterms /\ pivot'.doc <= hi
    BY <1>1, <1>2, <1>3 DEF PivotIs, pivot_found
  <1>5. i' \in 0 .. nterms + 1 /\ i' \in 1 .. pivot'.len + 1
    BY <1>1, <1>2, <1>4
  <1>6. Base' /\ RangeState' /\ WandState' /\ SingleState'
    <2>1. IsHeap(heap') /\ Len(heap') <= query.k /\ pivot'.len \in 0 .. nterms
      BY <1>1, <1>4 DEF Shape, Base
    <2> QED BY <1>1, <1>2, <1>5, <2>1, LoopKeeps
  <1>7. \A ts : Cur(ts)' = Cur(ts)
    BY <1>1, Frame
  <1>8. nterms' = nterms
    BY <1>1, Frame
  <1>9. SeekState'
    <2>1. /\ pivot'.doc \in Nat /\ pivot'.doc < UINT32_MAX /\ lo <= pivot'.doc
          /\ \A j \in 1 .. pivot'.len : Cur(terms[j]) # UINT32_MAX
          /\ \A j \in pivot'.len + 1 .. nterms : Cur(terms[j]) > pivot'.doc
      BY <1>3 DEF PivotIs
    <2> QED BY <1>1, <1>4, <1>5, <1>7, <1>8, <2>1 DEF SeekState
  <1>10. LeaveState'
    BY <1>1 DEF LeaveState
  <1> QED BY <1>6, <1>9, <1>10 DEF Shape

(* What is known while terms are sought to the pivot. *)
Seeking ==
    /\ Loop /\ pc = "seek"
    /\ pivot.len \in 1 .. nterms /\ i \in 1 .. pivot.len + 1
    /\ pivot.doc \in Nat /\ pivot.doc < UINT32_MAX /\ lo <= pivot.doc /\ pivot.doc <= hi
    /\ \A j \in 1 .. pivot.len : Cur(terms[j]) # UINT32_MAX /\ ~terms[j].fin
    /\ \A j \in pivot.len + 1 .. nterms : Cur(terms[j]) > pivot.doc

(* What Shape says while terms are sought to the pivot. *)
LEMMA InSeek ==
    ASSUME Shape, pc = "seek"
    PROVE  Seeking
  <1>1. Loop
    BY InLoop DEF InWand
  <1>2. SeekState
    BY DEF Shape
  <1>3. \A j \in 1 .. pivot.len : j \in 1 .. nterms
    BY <1>1, <1>2 DEF SeekState, Loop
  <1>4. \A j \in 1 .. pivot.len : ~terms[j].fin
    BY <1>1, <1>2, <1>3 DEF SeekState, Loop
  <1> QED BY <1>1, <1>2, <1>4 DEF SeekState, Seeking

(* The three outcomes of one iteration of seek_to_pivot. *)
LEMMA SeekStep ==
    ASSUME Shape, SeekTerm
    PROVE  /\ Seeking /\ i \in 1 .. pivot.len /\ i \in 1 .. nterms
           /\ UNCHANGED <<query, todo, heap, si, lo, hi, block, pivot, result>>
           /\ \/ /\ Cur(terms[i]) < pivot.doc /\ MovesTo(i, seek_term_to_doc(terms[i], pivot.doc), pivot.doc)
                 /\ pc' = (IF seek_term_to_doc(terms[i], pivot.doc).fin THEN "pivot" ELSE "seek") /\ i' = i
              \/ Cur(terms[i]) >= pivot.doc /\ i' = i + 1 /\ UNCHANGED <<terms, active, pc>>
  <1>1. pc = "seek" /\ i <= pivot.len /\ UNCHANGED <<query, todo, heap, si, lo, hi, block, pivot, result>>
    BY DEF SeekTerm
  <1>2. Seeking
    BY <1>1, InSeek
  <1>3. i \in 1 .. pivot.len /\ i \in 1 .. nterms /\ nterms \in Nat
    BY <1>1, <1>2 DEF Seeking, Loop
  <1>4. ~terms[i].fin /\ Cur(terms[i]) # UINT32_MAX /\ Cur(terms[i]) \in Nat /\ Valid(terms[i])
    BY <1>2, <1>3 DEF Seeking, Loop
  <1>5. pivot.doc \in Nat /\ pivot.doc <= UINT32_MAX /\ QueryInv /\ InSegment /\ UINT32_MAX \in Nat
    BY <1>2, LimitsAssumption, DocIdAssumption DEF Seeking, Loop
  <1>6. CASE Cur(terms[i]) < pivot.doc
    <2>1. /\ terms' = restore_ordering([terms EXCEPT ![i] = seek_term_to_doc(terms[i], pivot.doc)], i)
          /\ active' = active - drop(seek_term_to_doc(terms[i], pivot.doc))
          /\ pc' = (IF seek_term_to_doc(terms[i], pivot.doc).fin THEN "pivot" ELSE "seek") /\ i' = i
      BY <1>4, <1>6 DEF SeekTerm, Cur
    <2>2. Moved(terms[i], seek_term_to_doc(terms[i], pivot.doc), pivot.doc)
      BY <1>4, <1>5, SeekMoves
    <2> QED BY <1>1, <1>2, <1>3, <1>4, <1>6, <2>1, <2>2 DEF MovesTo
  <1>7. CASE ~(Cur(terms[i]) < pivot.doc)
    <2>1. i' = i + 1 /\ UNCHANGED <<terms, active, pc>>
      BY <1>4, <1>7 DEF SeekTerm, Cur
    <2> QED BY <1>1, <1>2, <1>3, <1>4, <1>5, <1>7, <2>1
  <1> QED BY <1>6, <1>7

(* An iteration of seek_to_pivot keeps Shape. *)
LEMMA ShapeSeek == Shape /\ SeekTerm => Shape'
  <1> SUFFICES ASSUME Shape, SeekTerm PROVE Shape'
    OBVIOUS
  <1>1. /\ Seeking /\ i \in 1 .. pivot.len /\ i \in 1 .. nterms
        /\ UNCHANGED <<query, todo, heap, si, lo, hi, block, pivot, result>>
    BY SeekStep
  <1>2. InWand /\ pc = "seek" /\ nterms \in Nat /\ pivot.len \in 1 .. nterms /\ UINT32_MAX \in Nat
    BY <1>1, LimitsAssumption, DocIdAssumption DEF InWand, Seeking, Loop
  <1>3. CASE Cur(terms[i]) >= pivot.doc /\ i' = i + 1 /\ UNCHANGED <<terms, active, pc>>
    <2>1. i' \in 1 .. pivot.len + 1 /\ i' \in 0 .. nterms + 1
      BY <1>1, <1>2, <1>3
    <2>2. Base' /\ RangeState' /\ WandState' /\ SingleState'
      <3>1. IsHeap(heap') /\ Len(heap') <= query.k /\ pivot'.len \in 0 .. nterms
        BY <1>1, <1>2 DEF Shape, Base
      <3> QED BY <1>1, <1>2, <1>3, <2>1, <3>1, LoopKeeps
    <2>3. \A ts : Cur(ts)' = Cur(ts)
      BY <1>1, Frame
    <2>4. nterms' = nterms
      BY <1>1, Frame
    <2>5. SeekState'
      BY <1>1, <1>2, <1>3, <2>1, <2>3, <2>4 DEF SeekState, Seeking
    <2>6. LeaveState'
      BY <1>2, <1>3 DEF LeaveState
    <2> QED BY <2>2, <2>5, <2>6 DEF Shape
  <1>4. CASE /\ Cur(terms[i]) < pivot.doc /\ MovesTo(i, seek_term_to_doc(terms[i], pivot.doc), pivot.doc)
             /\ pc' = (IF seek_term_to_doc(terms[i], pivot.doc).fin THEN "pivot" ELSE "seek") /\ i' = i
    <2>0. PICK m : m = seek_term_to_doc(terms[i], pivot.doc)
      OBVIOUS
    <2>1. i' \in 0 .. nterms + 1 /\ pivot'.len \in 0 .. nterms /\ pc' \in {"pivot", "seek", "advance", "reject"}
      BY <1>1, <1>2, <1>4
    <2>2. /\ Base' /\ RangeState' /\ WandState' /\ SingleState'
          /\ \E stop : Inserted([terms EXCEPT ![i] = m], terms', i, stop, nterms)
      BY <1>1, <1>2, <1>4, <2>0, <2>1, LoopMoves
    <2>3. CASE m.fin
      BY <1>4, <2>0, <2>2, <2>3, BackToPivot
    <2>4. CASE ~m.fin
      <3>1. pc' = "seek"
        BY <1>4, <2>0, <2>4
      <3>2. PICK stop : Inserted([terms EXCEPT ![i] = m], terms', i, stop, nterms)
        BY <2>2
      <3>3. Moved(terms[i], m, pivot.doc) /\ QueryInv /\ InSegment
        BY <1>1, <1>4, <2>0 DEF MovesTo, Seeking, Loop
      <3>4. Cur(m) \in Nat /\ Cur(m) < UINT32_MAX /\ pivot.doc <= Cur(m)
        BY <2>4, <3>3, CurType DEF Moved
      <3>5. PICK u : u = [terms EXCEPT ![i] = m]
        OBVIOUS
      <3>6. u[i] = m /\ \A j \in 1 .. nterms : j # i => u[j] = terms[j]
        BY <1>1, <3>5 DEF Seeking, Loop, TermsAre
      <3>7. /\ stop \in i + 1 .. nterms + 1
            /\ terms' = [j \in 1 .. nterms |-> IF j < i \/ j >= stop THEN u[j] ELSE IF j = stop - 1 THEN u[i] ELSE u[j + 1]]
            /\ \A j \in i + 1 .. stop - 1 : Cur(u[j]) < Cur(m)
        BY <3>2, <3>5, <3>6 DEF Inserted
      <3>9. \A j \in 1 .. pivot.len : Cur(terms'[j]) # UINT32_MAX
        <4> TAKE j \in 1 .. pivot.len
        <4>1. j \in 1 .. nterms
          BY <1>2
        <4>2. CASE j < i \/ j >= stop
          BY <1>1, <3>6, <3>7, <4>1, <4>2 DEF Seeking
        <4>3. CASE ~(j < i \/ j >= stop) /\ j = stop - 1
          BY <3>4, <3>6, <3>7, <4>1, <4>3
        <4>4. CASE ~(j < i \/ j >= stop) /\ j # stop - 1
          <5>1. terms'[j] = u[j + 1] /\ j + 1 \in i + 1 .. stop - 1 /\ j + 1 \in 1 .. nterms /\ j + 1 # i
            BY <1>1, <1>2, <3>7, <4>1, <4>4
          <5>2. Cur(u[j + 1]) < Cur(m) /\ Cur(u[j + 1]) \in Nat
            BY <1>1, <3>6, <3>7, <5>1 DEF Seeking, Loop
          <5> QED BY <3>4, <5>1, <5>2
        <4> QED BY <4>2, <4>3, <4>4
      <3>10. \A j \in pivot.len + 1 .. nterms : Cur(terms'[j]) > pivot.doc
        <4> TAKE j \in pivot.len + 1 .. nterms
        <4>1. j \in 1 .. nterms /\ j # i /\ ~(j < i)
          BY <1>1, <1>2
        <4>2. CASE j >= stop
          BY <1>1, <3>6, <3>7, <4>1, <4>2 DEF Seeking
        <4>3. CASE ~(j >= stop) /\ j = stop - 1
          <5>1. j \in i + 1 .. stop - 1 /\ terms'[j] = m
            BY <1>1, <3>6, <3>7, <4>1, <4>3
          <5>2. Cur(terms[j]) < Cur(m) /\ Cur(terms[j]) > pivot.doc /\ Cur(terms[j]) \in Nat
            BY <1>1, <3>6, <3>7, <4>1, <5>1 DEF Seeking, Loop
          <5> QED BY <1>1, <3>4, <5>1, <5>2 DEF Seeking
        <4>4. CASE ~(j >= stop) /\ j # stop - 1
          <5>1. terms'[j] = u[j + 1] /\ j + 1 \in pivot.len + 1 .. nterms /\ j + 1 \in 1 .. nterms /\ j + 1 # i
            BY <1>1, <1>2, <3>7, <4>1, <4>4
          <5> QED BY <1>1, <3>6, <5>1 DEF Seeking
        <4> QED BY <4>2, <4>3, <4>4
      <3>11. \A ts : Cur(ts)' = Cur(ts)
        BY <1>1, Frame
      <3>12. nterms' = nterms
        BY <1>1, Frame
      <3>13. SeekState'
        BY <1>1, <1>4, <3>9, <3>10, <3>11, <3>12 DEF SeekState, Seeking
      <3>14. LeaveState'
        BY <3>1 DEF LeaveState
      <3> QED BY <2>2, <3>13, <3>14 DEF Shape
    <2> QED BY <2>3, <2>4
  <1> QED BY <1>3, <1>4, SeekStep

(* What SkipBlocks does. *)
LEMMA SkipStep ==
    ASSUME Shape, SkipBlocks
    PROVE  /\ Seeking /\ best_scorer \in 1 .. pivot.len
           /\ MovesTo(best_scorer, seek_term_to_doc(terms[best_scorer], SkipTarget), SkipTarget)
           /\ pc' = "pivot" /\ UNCHANGED <<query, todo, heap, si, lo, hi, block, pivot, i, result>>
           /\ block_upper <= threshold
  <1>1. /\ pc = "seek" /\ block_max_skip_advance /\ block_upper <= threshold
        /\ pc' = "pivot" /\ UNCHANGED <<query, todo, heap, si, lo, hi, block, pivot, i, result>>
    BY DEF SkipBlocks, Seeked
  <1>2. Seeking
    BY <1>1, InSeek
  <1>3. /\ QueryInv /\ InSegment /\ TermsAre(terms) /\ pivot.len \in 1 .. nterms /\ nterms \in Nat
        /\ \A j \in 1 .. pivot.len : Cur(terms[j]) # UINT32_MAX
    BY <1>2 DEF Seeking, Loop
  <1>4. best_scorer \in 1 .. pivot.len /\ SkipTarget \in Nat /\ SkipTarget <= UINT32_MAX
    BY <1>3, SkipTerm
  <1>5. best_scorer \in 1 .. nterms
    BY <1>3, <1>4
  <1>6. ~terms[best_scorer].fin /\ Valid(terms[best_scorer])
    BY <1>2, <1>4, <1>5 DEF Seeking, Loop
  <1>7. Moved(terms[best_scorer], seek_term_to_doc(terms[best_scorer], SkipTarget), SkipTarget)
    BY <1>3, <1>4, <1>6, SeekMoves
  <1>8. seek_and_reorder(best_scorer, SkipTarget)
    BY <1>1 DEF block_max_skip_advance, SkipTarget
  <1> QED BY <1>1, <1>2, <1>4, <1>5, <1>6, <1>7, <1>8 DEF MovesTo, seek_and_reorder

(* A block skip keeps Shape. *)
LEMMA ShapeSkip == Shape /\ SkipBlocks => Shape'
  <1> SUFFICES ASSUME Shape, SkipBlocks PROVE Shape'
    OBVIOUS
  <1>1. /\ Seeking
        /\ MovesTo(best_scorer, seek_term_to_doc(terms[best_scorer], SkipTarget), SkipTarget)
        /\ pc' = "pivot" /\ UNCHANGED <<query, todo, heap, si, lo, hi, block, pivot, i, result>>
    BY SkipStep
  <1>2. InWand /\ i' \in 0 .. nterms + 1 /\ pivot'.len \in 0 .. nterms
    BY <1>1 DEF InWand, Seeking, Loop
  <1>3. Base' /\ RangeState' /\ WandState' /\ SingleState'
    BY <1>1, <1>2, LoopMoves
  <1> QED BY <1>1, <1>3, BackToPivot

(* Starting the next round keeps Shape. *)
LEMMA ShapeRealign == Shape /\ (Realign \/ LoopAgain) => Shape'
  <1> SUFFICES ASSUME Shape, Realign \/ LoopAgain PROVE Shape'
    OBVIOUS
  <1>1. InWand /\ pc' = "pivot" /\ UNCHANGED <<query, todo, heap, si, lo, hi, block, terms, active, pivot, i, result>>
    BY DEF Realign, LoopAgain, InWand, Seeked
  <1>2. Loop /\ nterms \in Nat
    BY <1>1, InLoop DEF Loop
  <1>3. pivot'.len \in 0 .. nterms /\ IsHeap(heap') /\ Len(heap') <= query.k
    BY <1>1 DEF Shape, Base
  <1>4. i' \in 0 .. nterms + 1
    <2>1. CASE pc = "seek"
      BY <1>1, <1>2, <2>1 DEF Shape, SeekState
    <2>2. CASE pc # "seek"
      BY <1>1, <1>2, <2>2 DEF Realign, Seeked, LoopAgain
    <2> QED BY <2>1, <2>2
  <1>5. Base' /\ RangeState' /\ WandState' /\ SingleState'
    BY <1>1, <1>3, <1>4, LoopKeeps
  <1> QED BY <1>1, <1>5, BackToPivot

(* The score of the pivot document. *)
PivotParts ==
    [j \in 1 .. pivot.len |->
        posting_score(terms[j].q, current_posting(terms[j])) * query.terms[terms[j].q].query_freq]

(* The score of the pivot document is a natural. *)
LEMMA PivotScoreNat ==
    ASSUME Seeking
    PROVE  PivotParts \in [1 .. pivot.len -> Nat] /\ score_pivot_document = Total(PivotParts) /\ score_pivot_document \in Nat
  <1>1. ASSUME NEW j \in 1 .. pivot.len
        PROVE  posting_score(terms[j].q, current_posting(terms[j])) * query.terms[terms[j].q].query_freq \in Nat
    <2>1. j \in 1 .. nterms /\ ~terms[j].fin
      BY DEF Seeking, Loop
    <2>2. Valid(terms[j]) /\ QueryInv /\ InSegment
      BY <2>1 DEF Seeking, Loop
    <2>3. terms[j].q \in 1 .. nterms
      BY <2>2 DEF Valid, TermState
    <2>4. current_posting(terms[j]) \in Posting
      BY <2>1, <2>2, CurrentPosting
    <2>5. posting_score(terms[j].q, current_posting(terms[j])) \in Nat
      BY <2>2, <2>3, <2>4, PostingScoreNat
    <2>6. query.terms[terms[j].q].query_freq \in Nat
      BY <2>2, <2>3, QueryFreq
    <2> QED BY <2>5, <2>6, ProductNat
  <1>2. PivotParts \in [1 .. pivot.len -> Nat]
    BY <1>1 DEF PivotParts
  <1>3. score_pivot_document = Total(PivotParts)
    BY DEF score_pivot_document, PivotParts
  <1>4. pivot.len \in Nat
    BY DEF Seeking
  <1> QED BY <1>2, <1>3, <1>4, TotalNat

(* Scoring or rejecting the pivot document keeps Shape. *)
LEMMA ShapeScore == Shape /\ (ScorePivot \/ WrongTenant) => Shape'
  <1> SUFFICES ASSUME Shape, ScorePivot \/ WrongTenant PROVE Shape'
    OBVIOUS
  <1>1. /\ pc = "seek" /\ aligned /\ i' = pivot.len /\ pc' \in {"advance", "reject"}
        /\ pc' = "reject" => tenant_rejects(pivot.doc)
        /\ UNCHANGED <<query, todo, si, lo, hi, block, terms, active, pivot, result>>
    BY DEF ScorePivot, WrongTenant, Seeked
  <1>2. Seeking /\ InWand /\ nterms \in Nat
    BY <1>1, InSeek DEF InWand, Seeking, Loop
  <1>3. IsHeap(heap') /\ Len(heap') <= query.k
    <2> DEFINE e == SegmentEntry(si, pivot.doc, score_pivot_document)
    <2>1. heap' = heap \/ heap' = tp_topk_add(heap, query.k, e)
      BY DEF ScorePivot, WrongTenant
    <2>2. e \in Entry
      BY <1>2, PivotScoreNat, SegEntry DEF Seeking, Loop, InSegment
    <2>3. Base
      BY DEF Shape
    <2> HIDE DEF e
    <2>4. Added(heap, tp_topk_add(heap, query.k, e), query.k, e)
      BY <2>2, <2>3, HeapKept
    <2> QED BY <2>1, <2>3, <2>4 DEF Added, Base
  <1>4. pivot'.len \in 0 .. nterms /\ i' \in 0 .. nterms + 1 /\ i' \in 0 .. pivot'.len
    BY <1>1, <1>2 DEF Seeking
  <1>5. Base' /\ RangeState' /\ WandState' /\ SingleState'
    BY <1>1, <1>2, <1>3, <1>4, LoopKeeps
  <1>6. \A j \in 1 .. nterms : Cur(terms[j]) >= pivot.doc
    <2> TAKE j \in 1 .. nterms
    <2>1. CASE j \in 1 .. pivot.len
      BY <1>1, <1>2, <2>1 DEF aligned, Cur, Seeking
    <2>2. CASE j \in pivot.len + 1 .. nterms
      BY <1>2, <2>2 DEF Seeking, Loop
    <2> QED BY <1>2, <2>1, <2>2 DEF Seeking
  <1>7. \A ts : Cur(ts)' = Cur(ts)
    BY <1>1, Frame
  <1>8. nterms' = nterms /\ seg' = seg
    BY <1>1, Frame
  <1>9. tenant_rejects(pivot.doc) => tenant_rejects(pivot.doc)'
    BY <1>1, <1>8 DEF tenant_rejects
  <1>10. LeaveState'
    BY <1>1, <1>2, <1>4, <1>6, <1>7, <1>8, <1>9 DEF LeaveState, Seeking
  <1>11. SeekState'
    BY <1>1 DEF SeekState
  <1> QED BY <1>5, <1>10, <1>11 DEF Shape

(* One term leaves the pivot document: to the next one, or past a block of another tenant. *)
Leaves(m, target) ==
    /\ MovesTo(i, m, target) /\ target \in Nat /\ pivot.doc < target
    /\ \/ target = pivot.doc + 1
       \/ wrong_tenant_block(skip(terms[i])[terms[i].blk + 1]) /\ target = BlkLast(terms[i].q, terms[i].blk) + 1

(* What is known while the terms leave the pivot document. *)
Leaving ==
    /\ Loop /\ pc \in {"advance", "reject"}
    /\ pivot.len \in 1 .. nterms /\ i \in 0 .. pivot.len
    /\ pivot.doc \in Nat /\ pivot.doc < UINT32_MAX
    /\ \A j \in 1 .. nterms : Cur(terms[j]) >= pivot.doc
    /\ \A j \in i + 1 .. nterms : Cur(terms[j]) > pivot.doc

(* What an iteration of the loops that leave the pivot document does. *)
LEMMA LeaveStep ==
    ASSUME Shape, AdvanceTerm \/ RejectTerm
    PROVE  /\ Leaving /\ i \in 1 .. nterms /\ i' = i - 1
           /\ UNCHANGED <<query, todo, heap, si, lo, hi, block, pivot, pc, result>>
           /\ \/ Cur(terms[i]) = pivot.doc /\ \E m, target : Leaves(m, target)
              \/ Cur(terms[i]) # pivot.doc /\ UNCHANGED <<terms, active>>
  <1> DEFINE ts == terms[i]
             entry == skip(ts)[ts.blk + 1]
             m == IF pc = "advance" THEN advance_term_iterator(ts)
                  ELSE IF wrong_tenant_block(entry) THEN seek_term_to_doc(ts, entry.last_doc_id + 1)
                  ELSE advance_term_iterator(ts)
  <1>1. pc \in {"advance", "reject"} /\ MoveTerm(m)
    BY DEF AdvanceTerm, RejectTerm
  <1> HIDE DEF m
  <1>2. Loop /\ LeaveState
    BY <1>1, InLoop DEF Shape, InWand
  <1>3. Leaving
    BY <1>1, <1>2 DEF Leaving, LeaveState
  <1>4. i \in 1 .. nterms /\ i' = i - 1 /\ UNCHANGED <<query, todo, heap, si, lo, hi, block, pivot, pc, result>>
    BY <1>1, <1>3 DEF MoveTerm, Leaving, Loop
  <1>5. CASE Cur(ts) # pivot.doc
    BY <1>1, <1>3, <1>4, <1>5 DEF MoveTerm, Cur
  <1>6. CASE Cur(ts) = pivot.doc
    <2>1. QueryInv /\ InSegment /\ Valid(ts) /\ ~ts.fin /\ UINT32_MAX \in Nat /\ pivot.doc \in Nat
      BY <1>3, <1>4, <1>6, LimitsAssumption, DocIdAssumption DEF Leaving, Loop
    <2>2. terms' = restore_ordering([terms EXCEPT ![i] = m], i) /\ active' = active - drop(m)
      BY <1>1, <1>6 DEF MoveTerm, Cur
    <2>3. CASE m = advance_term_iterator(ts)
      <3>1. Moved(ts, m, pivot.doc + 1)
        BY <1>6, <2>1, <2>3, AdvanceMoves
      <3>2. Leaves(m, pivot.doc + 1)
        BY <1>4, <2>1, <2>2, <3>1 DEF Leaves, MovesTo
      <3> QED BY <1>3, <1>4, <1>6, <3>2
    <2>4. CASE m = seek_term_to_doc(ts, entry.last_doc_id + 1) /\ wrong_tenant_block(entry)
      <3>1. PlacesOK(ts.q) /\ Place(ts.q, ts.blk, ts.pos) /\ Cur(ts) = BlkDoc(ts.q, ts.blk, ts.pos)
        BY <2>1, CurType
      <3>2. ts.blk \in 0 .. Blks(ts.q) - 1
        BY <3>1 DEF Place
      <3>3. entry.last_doc_id = BlkLast(ts.q, ts.blk)
        BY DEF skip, BlkLast, term_of
      <3>4. PICK x \in 0 .. BlkLen(ts.q, ts.blk) - 1 : BlkDoc(ts.q, ts.blk, x) = BlkLast(ts.q, ts.blk)
        BY <3>1, <3>2 DEF PlacesOK
      <3>5. Place(ts.q, ts.blk, x)
        BY <3>2, <3>4 DEF Place
      <3>6. BlkLast(ts.q, ts.blk) \in Nat /\ BlkLast(ts.q, ts.blk) < UINT32_MAX /\ pivot.doc <= BlkLast(ts.q, ts.blk)
        BY <1>6, <3>1, <3>2, <3>4, <3>5 DEF PlacesOK
      <3>7. PICK target : target = BlkLast(ts.q, ts.blk) + 1
        OBVIOUS
      <3>8. target \in Nat /\ target <= UINT32_MAX /\ pivot.doc < target
        BY <2>1, <3>6, <3>7
      <3>9. Moved(ts, m, target)
        BY <2>1, <2>4, <3>3, <3>7, <3>8, SeekMoves
      <3>10. Leaves(m, target)
        BY <1>4, <2>1, <2>2, <2>4, <3>7, <3>8, <3>9 DEF Leaves, MovesTo
      <3> QED BY <1>3, <1>4, <1>6, <3>10
    <2> QED BY <2>3, <2>4 DEF m
  <1> QED BY <1>5, <1>6

(* It keeps Shape. *)
LEMMA ShapeTurn == Shape /\ (AdvanceTerm \/ RejectTerm) => Shape'
  <1> SUFFICES ASSUME Shape, AdvanceTerm \/ RejectTerm PROVE Shape'
    OBVIOUS
  <1>1. /\ Leaving /\ i \in 1 .. nterms /\ i' = i - 1
        /\ UNCHANGED <<query, todo, heap, si, lo, hi, block, pivot, pc, result>>
    BY LeaveStep
  <1>2. nterms \in Nat /\ i' \in 0 .. pivot'.len /\ i' \in 0 .. nterms + 1 /\ pivot'.len \in 0 .. nterms /\ InWand
    BY <1>1 DEF Leaving, Loop, InWand
  <1>3. \A ts : Cur(ts)' = Cur(ts)
    BY <1>1, Frame
  <1>4. nterms' = nterms /\ seg' = seg
    BY <1>1, Frame
  <1>5. tenant_rejects(pivot.doc) => tenant_rejects(pivot.doc)'
    BY <1>1, <1>4 DEF tenant_rejects
  <1>6. SeekState'
    BY <1>1 DEF SeekState, Leaving
  <1>7. ASSUME \A j \in 1 .. nterms : Cur(terms'[j]) >= pivot.doc, \A j \in i .. nterms : Cur(terms'[j]) > pivot.doc
        PROVE  LeaveState'
    <2>1. pc = "reject" => tenant_rejects(pivot.doc)
      BY <1>1 DEF Shape, LeaveState
    <2>2. i' + 1 = i
      BY <1>1, <1>2
    <2> QED BY <1>1, <1>2, <1>3, <1>4, <1>5, <1>7, <2>1, <2>2 DEF LeaveState, Leaving
  <1>8. CASE Cur(terms[i]) # pivot.doc /\ UNCHANGED <<terms, active>>
    <2>1. Base' /\ RangeState' /\ WandState' /\ SingleState'
      <3>1. IsHeap(heap') /\ Len(heap') <= query.k
        BY <1>1 DEF Shape, Base
      <3> QED BY <1>1, <1>2, <1>8, <3>1, LoopKeeps DEF Leaving
    <2>2. LeaveState'
      <3>1. \A j \in 1 .. nterms : Cur(terms[j]) >= pivot.doc /\ Cur(terms[j]) \in Nat
        BY <1>1 DEF Leaving, Loop
      <3>2. \A j \in i .. nterms : Cur(terms[j]) > pivot.doc
        BY <1>1, <1>8, <3>1 DEF Leaving
      <3> QED BY <1>7, <1>8, <3>1, <3>2
    <2> QED BY <1>6, <2>1, <2>2 DEF Shape
  <1>9. CASE \E m, target : Leaves(m, target)
    <2>1. PICK m, target : Leaves(m, target)
      BY <1>9
    <2>2. MovesTo(i, m, target) /\ target \in Nat /\ pivot.doc < target
      BY <2>1 DEF Leaves
    <2>3. /\ Base' /\ RangeState' /\ WandState' /\ SingleState'
          /\ \E stop : Inserted([terms EXCEPT ![i] = m], terms', i, stop, nterms)
          /\ Step(terms, terms', i, m)
      BY <1>1, <1>2, <2>2, LoopMoves DEF Leaving
    <2>4. Cur(m) \in Nat /\ pivot.doc < Cur(m) /\ pivot.doc \in Nat
      <3>1. Moved(terms[i], m, target) /\ QueryInv /\ InSegment
        BY <1>1, <2>2 DEF MovesTo, Leaving, Loop
      <3>2. Cur(m) \in Nat /\ target <= Cur(m)
        BY <3>1, CurType DEF Moved
      <3> QED BY <1>1, <2>2, <3>2 DEF Leaving
    <2>5. \A j \in 1 .. nterms : Cur(terms'[j]) >= pivot.doc
      <3> TAKE j \in 1 .. nterms
      <3>1. CASE terms'[j] = m
        BY <2>4, <3>1
      <3>2. CASE \E k \in 1 .. nterms : terms'[j] = terms[k]
        BY <1>1, <3>2 DEF Leaving
      <3> QED BY <2>3, <3>1, <3>2 DEF Step
    <2>6. \A j \in i .. nterms : Cur(terms'[j]) > pivot.doc
      <3>1. PICK stop : Inserted([terms EXCEPT ![i] = m], terms', i, stop, nterms)
        BY <2>3
      <3>2. PICK u : u = [terms EXCEPT ![i] = m]
        OBVIOUS
      <3>3. u[i] = m /\ \A j \in 1 .. nterms : j # i => u[j] = terms[j]
        BY <1>1, <3>2 DEF Leaving, Loop, TermsAre
      <3>4. /\ stop \in i + 1 .. nterms + 1
            /\ terms' = [j \in 1 .. nterms |-> IF j < i \/ j >= stop THEN u[j] ELSE IF j = stop - 1 THEN u[i] ELSE u[j + 1]]
        BY <3>1, <3>2 DEF Inserted
      <3>5. \A j \in i + 1 .. nterms : Cur(u[j]) > pivot.doc
        <4> TAKE j \in i + 1 .. nterms
        <4>1. j \in 1 .. nterms /\ j # i /\ Cur(terms[j]) > pivot.doc
          BY <1>1, <1>2 DEF Leaving
        <4> QED BY <3>3, <4>1
      <3> TAKE j \in i .. nterms
      <3>6. j \in 1 .. nterms /\ ~(j < i)
        BY <1>1, <1>2
      <3>7. CASE j >= stop
        <4>1. terms'[j] = u[j] /\ j \in i + 1 .. nterms
          BY <1>1, <1>2, <3>4, <3>6, <3>7
        <4> QED BY <3>5, <4>1
      <3>8. CASE ~(j >= stop) /\ j = stop - 1
        BY <2>4, <3>3, <3>4, <3>6, <3>8
      <3>9. CASE ~(j >= stop) /\ j # stop - 1
        <4>1. terms'[j] = u[j + 1] /\ j + 1 \in i + 1 .. nterms
          BY <1>1, <1>2, <3>4, <3>6, <3>9
        <4> QED BY <3>5, <4>1
      <3> QED BY <3>7, <3>8, <3>9
    <2> QED BY <1>6, <1>7, <2>3, <2>5, <2>6 DEF Shape
  <1> QED BY <1>8, <1>9, LeaveStep

(* Shape depends on the state only. *)
LEMMA ShapeStutter == Shape /\ UNCHANGED vars => Shape'
  <1> SUFFICES ASSUME Shape, UNCHANGED vars PROVE Shape'
    OBVIOUS
  <1>1. UNCHANGED <<query, todo, heap, si, lo, hi, block, terms, active, pivot, i, pc, result>>
    BY DEF vars
  <1>2. Base'
    BY <1>1, BaseKept DEF Shape, Base
  <1>3. /\ nterms' = nterms /\ seg' = seg /\ single_term' = single_term /\ InSegment' = InSegment
        /\ tenant_range' = tenant_range
    BY <1>1, Frame
  <1>4. \A ts : Cur(ts)' = Cur(ts)
    BY <1>1, Frame
  <1>5. \A s : TermsAre(s)' <=> TermsAre(s)
    BY <1>1, Frame
  <1>6. \A s : LiveSet(s)' = LiveSet(s)
    BY <1>1, Frame
  <1>7. TermsAre(terms)' = TermsAre(terms) /\ LiveSet(terms)' = LiveSet(terms)
    BY <1>1, <1>5, <1>6 DEF TermsAre
  <1>8. RangeState'
    BY <1>1, <1>3 DEF Shape, RangeState, Working
  <1>9. WandState'
    BY <1>1, <1>3, <1>4, <1>7 DEF Shape, WandState, InWand
  <1>10. SeekState'
    BY <1>1, <1>3, <1>4 DEF Shape, SeekState
  <1>11. tenant_rejects(pivot.doc)' = tenant_rejects(pivot.doc)
    BY <1>1, <1>3 DEF tenant_rejects
  <1>12. LeaveState'
    BY <1>1, <1>3, <1>4, <1>11 DEF Shape, LeaveState
  <1>13. SingleState'
    BY <1>1, <1>3 DEF Shape, SingleState
  <1> QED BY <1>2, <1>8, <1>9, <1>10, <1>12, <1>13 DEF Shape

(* Shape is inductive. *)
LEMMA ShapeStep == Shape /\ [Next]_vars => Shape'
  BY ShapeStutter, ShapeMemtable, ShapeSegment, ShapePosting, ShapeOpen, ShapeEnd, ShapePivot, ShapeSeek, ShapeSkip,
     ShapeRealign, ShapeScore, ShapeTurn DEF Next, Wand

(* Shape implies WandInv. *)
LEMMA ShapeWand == Shape => WandInv
  <1> SUFFICES ASSUME Shape PROVE WandInv
    OBVIOUS
  <1>1. TypeOK
    BY DEF Shape, Base, TypeOK, mem_matches
  <1>2. HeapOrdered
    BY DEF Shape, Base, IsHeap, Heap, HeapOrdered, Weaker
  <1>3. InWand => Loop
    BY InLoop
  <1>4. InWand => DOMAIN terms = 1 .. nterms
    BY <1>3 DEF Loop, TermsAre
  <1>5. ActiveCountExact
    BY <1>3, <1>4 DEF ActiveCountExact, Loop, LiveSet
  <1>6. TermsSorted
    BY <1>3, <1>4 DEF TermsSorted, sorted_by_doc_id, InWand, Loop, TermsAre, Cur
  <1> QED BY <1>1, <1>2, <1>5, <1>6 DEF WandInv

(* Whatever the query, the segments and k: the heap of bmw.c never holds more than k
   results and keeps the weakest at its root, active_count always is the number of terms
   that have a document left, and the terms are sorted by document whenever a pivot is
   chosen. *)
THEOREM WandInvHolds == Spec => []WandInv
  <1>1. Spec => []Shape
    BY ShapeInit, ShapeStep, PTL DEF Spec
  <1> QED BY <1>1, ShapeWand, PTL

-----------------------------------------------------------------------------
(* What matches, and with which score *)

(* A term occurs in a document when its posting list says so. *)
LEMMA ListHits ==
    ASSUME QueryInv, InSegment, NEW q \in 1 .. nterms, NEW d
    PROVE  Hits(q, d) <=> (has_term(seg, term_of(q)) /\ \E p \in Range(seg.post[term_of(q)]) : p.doc = d)
  <1> SUFFICES ASSUME has_term(seg, term_of(q))
               PROVE  Hits(q, d) <=> \E p \in Range(seg.post[term_of(q)]) : p.doc = d
    BY DEF Hits
  <1>0. PICK L : L = seg.post[term_of(q)]
    OBVIOUS
  <1>1. ListOK(seg, term_of(q))
    BY SegOK DEF WellFormed, has_term
  <1>2. L \in PostingList /\ Blks(q) = num_blocks(L) /\ \A c \in 0 .. num_blocks(L) - 1 : BlkLen(q, c) = Len(Block(L, c))
    BY <1>0, <1>1 DEF ListOK, Blks, BlkLen, EntryOK
  <1>3. /\ num_blocks(L) \in Nat
        /\ \A c \in 0 .. num_blocks(L) - 1 : Len(Block(L, c)) \in Nat
        /\ \A c \in 0 .. num_blocks(L) - 1 : \A y \in 1 .. Len(Block(L, c)) : \E n \in 1 .. Len(L) : Block(L, c)[y] = L[n]
        /\ \A n \in 1 .. Len(L) : \E c \in 0 .. num_blocks(L) - 1 : \E y \in 1 .. Len(Block(L, c)) : Block(L, c)[y] = L[n]
    BY <1>2, BlockPlaces
  <1>4. L \in Seq(Posting) /\ DOMAIN L = 1 .. Len(L)
    BY <1>2 DEF PostingList
  <1>5. ASSUME Hits(q, d) PROVE \E p \in Range(L) : p.doc = d
    <2>1. PICK b, x : Place(q, b, x) /\ BlkDoc(q, b, x) = d
      BY <1>5 DEF Hits
    <2>2. b \in 0 .. num_blocks(L) - 1 /\ x + 1 \in 1 .. Len(Block(L, b))
      BY <1>2, <1>3, <2>1 DEF Place
    <2>3. PICK n \in 1 .. Len(L) : Block(L, b)[x + 1] = L[n]
      BY <1>3, <2>2
    <2>4. L[n].doc = d
      BY <1>0, <2>1, <2>3 DEF BlkDoc
    <2> QED BY <1>4, <2>4 DEF Range
  <1>6. ASSUME NEW p \in Range(L), p.doc = d PROVE Hits(q, d)
    <2>1. PICK n \in 1 .. Len(L) : L[n] = p
      BY <1>4, <1>6 DEF Range
    <2>2. PICK c \in 0 .. num_blocks(L) - 1 : \E y \in 1 .. Len(Block(L, c)) : Block(L, c)[y] = L[n]
      BY <1>3
    <2>3. PICK y \in 1 .. Len(Block(L, c)) : Block(L, c)[y] = L[n]
      BY <2>2
    <2>4. PICK x : x = y - 1
      OBVIOUS
    <2>a. Len(Block(L, c)) \in Nat /\ BlkLen(q, c) = Len(Block(L, c)) /\ y \in 1 .. Len(Block(L, c))
      BY <1>2, <1>3, <2>3
    <2>5. x \in 0 .. BlkLen(q, c) - 1 /\ x + 1 = y /\ c \in 0 .. Blks(q) - 1
      BY <1>2, <2>4, <2>a
    <2>6. Place(q, c, x) /\ BlkDoc(q, c, x) = d
      BY <1>0, <1>6, <2>1, <2>3, <2>5 DEF Place, BlkDoc
    <2> QED BY <2>6 DEF Hits
  <1> QED BY <1>0, <1>5, <1>6

(* d is a document of the tenant that one of the terms occurs in. *)
Matching(d) ==
    /\ d \in 0 .. seg.num_docs - 1 /\ (query.tenant = 0 \/ seg.tenant[d + 1] = query.tenant)
    /\ \E q \in 1 .. nterms : Hits(q, d)

(* A matching document of the segment, by the places of its postings. *)
LEMMA MatchIs ==
    ASSUME QueryInv, InSegment, NEW d
    PROVE  d \in seg_matches(si) <=> Matching(d)
  <1>1. \A q \in 1 .. nterms :
           Hits(q, d) <=> (has_term(seg, term_of(q)) /\ \E p \in Range(seg.post[term_of(q)]) : p.doc = d)
    BY ListHits
  <1>2. d \in seg_matches(si) <=>
           /\ d \in 0 .. seg.num_docs - 1 /\ (query.tenant = 0 \/ seg.tenant[d + 1] = query.tenant)
           /\ \E q \in 1 .. nterms : has_term(seg, term_of(q)) /\ \E p \in Range(seg.post[term_of(q)]) : p.doc = d
    BY DEF seg_matches, seg, term_of
  <1> QED BY <1>1, <1>2 DEF Matching

(* A posting names a document of the segment. *)
LEMMA HitsInSegment ==
    ASSUME QueryInv, InSegment, NEW q \in 1 .. nterms, NEW d, Hits(q, d)
    PROVE  d \in 0 .. seg.num_docs - 1 /\ seg.num_docs \in Nat /\ seg.num_docs < UINT32_MAX
  <1>1. PICK p \in Range(seg.post[term_of(q)]) : p.doc = d
    BY ListHits
  <1>2. ListOK(seg, term_of(q)) /\ seg.num_docs \in Nat /\ seg.num_docs < UINT32_MAX
    BY SegOK DEF WellFormed, Hits, has_term
  <1>3. seg.post[term_of(q)] \in Seq(Posting)
    BY <1>2 DEF ListOK, PostingList
  <1>4. PICK n \in 1 .. Len(seg.post[term_of(q)]) : seg.post[term_of(q)][n] = p
    BY <1>1, <1>3 DEF Range
  <1>5. seg.post[term_of(q)][n].doc \in 0 .. seg.num_docs - 1
    BY <1>2, <1>4 DEF ListOK
  <1> QED BY <1>1, <1>2, <1>4, <1>5

(* The frequencies of a document, as the exhaustive evaluation reads them. *)
HitsOf(g, d, t) == IF has_term(g, t) THEN {p \in Range(g.post[t]) : p.doc = d} ELSE {}
TfOf(g, d) == [t \in Term |-> IF HitsOf(g, d, t) = {} THEN 0 ELSE (CHOOSE p \in HitsOf(g, d, t) : TRUE).frequency]

(* The exhaustive score of a document. *)
LEMMA SegScoreIs ==
    ASSUME NEW n, NEW d
    PROVE  seg_score(n, d) = doc_score(TfOf(query.segs[n], d), decode_fieldnorm(query.segs[n].norm[d + 1]))
  BY DEF seg_score, TfOf, HitsOf

(* A document has at most one posting in a list. *)
LEMMA OnePosting ==
    ASSUME NEW g, WellFormed(g), NEW d \in 0 .. g.num_docs - 1, NEW t
    PROVE  /\ \A p, r \in HitsOf(g, d, t) : p = r
           /\ \A p \in HitsOf(g, d, t) : p \in Posting /\ p.norm = g.norm[d + 1]
  <1> SUFFICES ASSUME has_term(g, t)
               PROVE  /\ \A p, r \in HitsOf(g, d, t) : p = r
                      /\ \A p \in HitsOf(g, d, t) : p \in Posting /\ p.norm = g.norm[d + 1]
    BY DEF HitsOf
  <1>1. ListOK(g, t)
    BY DEF WellFormed, has_term
  <1>2. PICK L : L = g.post[t]
    OBVIOUS
  <1>3. /\ L \in Seq(Posting) /\ DOMAIN L = 1 .. Len(L) /\ \A a, b \in 1 .. Len(L) : a < b => L[a].doc < L[b].doc
        /\ \A n \in 1 .. Len(L) : L[n].norm = g.norm[L[n].doc + 1]
    BY <1>1, <1>2 DEF ListOK, PostingList
  <1>4. \A p \in HitsOf(g, d, t) : p.doc = d /\ \E n \in 1 .. Len(L) : L[n] = p
    BY <1>2, <1>3 DEF HitsOf, Range
  <1>5. ASSUME NEW p \in HitsOf(g, d, t), NEW r \in HitsOf(g, d, t) PROVE p = r
    <2>1. PICK a \in 1 .. Len(L) : L[a] = p
      BY <1>4
    <2>2. PICK b \in 1 .. Len(L) : L[b] = r
      BY <1>4
    <2>3. L[a].doc = L[b].doc /\ L[a].doc \in Nat
      BY <1>3, <1>4, <2>1, <2>2 DEF Posting
    <2>4. ~(a < b) /\ ~(b < a)
      BY <1>3, <2>1, <2>2, <2>3
    <2>5. a = b
      BY <1>3, <2>4
    <2> QED BY <2>1, <2>2, <2>5
  <1>6. ASSUME NEW p \in HitsOf(g, d, t) PROVE p \in Posting /\ p.norm = g.norm[d + 1]
    BY <1>3, <1>4
  <1> QED BY <1>5, <1>6

(* The frequencies and the length that it is computed from. *)
LEMMA TfNat ==
    ASSUME NEW g, WellFormed(g), NEW d \in 0 .. g.num_docs - 1
    PROVE  TfOf(g, d) \in [Term -> Nat] /\ decode_fieldnorm(g.norm[d + 1]) \in Nat
  <1>1. ASSUME NEW t \in Term, HitsOf(g, d, t) # {} PROVE (CHOOSE p \in HitsOf(g, d, t) : TRUE).frequency \in Nat
    <2>1. (CHOOSE p \in HitsOf(g, d, t) : TRUE) \in HitsOf(g, d, t)
      BY <1>1
    <2> QED BY <2>1, OnePosting DEF Posting
  <1>2. g.norm[d + 1] \in DOMAIN FieldNormTable
    <2>1. g.num_docs \in Nat /\ NormsOf(g)
      BY DEF WellFormed
    <2>2. d + 1 \in 1 .. g.num_docs
      BY <2>1
    <2> QED BY <2>1, <2>2 DEF NormsOf
  <1> QED BY <1>1, <1>2, DecodeNat DEF TfOf

(* It is a natural. *)
LEMMA SegScoreNat ==
    ASSUME QueryInv, NEW n \in 1 .. Len(query.segs), NEW d \in seg_matches(n)
    PROVE  seg_score(n, d) \in Nat
  <1>1. d \in 0 .. query.segs[n].num_docs - 1
    BY DEF seg_matches
  <1>2. WellFormed(query.segs[n])
    BY DEF QueryInv
  <1> QED BY <1>1, <1>2, TfNat, SegScoreIs, DocScoreNat

(* u is what each query term adds to the score of document d. *)
ScoreIs(d, u) ==
    /\ u \in [1 .. nterms -> Nat] /\ seg_score(si, d) = Total(u)
    /\ \A q \in 1 .. nterms : ~Hits(q, d) => u[q] = 0
    /\ \A q \in 1 .. nterms : \A b, x : Hits(q, d) /\ Place(q, b, x) /\ BlkDoc(q, b, x) = d =>
          u[q] = posting_score(q, Block(seg.post[term_of(q)], b)[x + 1]) * query_freq(q) /\ u[q] > 0

(* A place of a list holds one of its postings. *)
LEMMA PlacePosting ==
    ASSUME QueryInv, InSegment, NEW q \in 1 .. nterms, has_term(seg, term_of(q)), NEW b, NEW x, Place(q, b, x)
    PROVE  \E n \in 1 .. Len(seg.post[term_of(q)]) : Block(seg.post[term_of(q)], b)[x + 1] = seg.post[term_of(q)][n]
  <1>0. PICK L : L = seg.post[term_of(q)]
    OBVIOUS
  <1>1. ListOK(seg, term_of(q))
    BY SegOK DEF WellFormed, has_term
  <1>2. L \in PostingList /\ Blks(q) = num_blocks(L) /\ \A c \in 0 .. num_blocks(L) - 1 : BlkLen(q, c) = Len(Block(L, c))
    BY <1>0, <1>1 DEF ListOK, Blks, BlkLen, EntryOK
  <1>3. /\ num_blocks(L) \in Nat
        /\ \A c \in 0 .. num_blocks(L) - 1 : Len(Block(L, c)) \in Nat
        /\ \A c \in 0 .. num_blocks(L) - 1 : \A y \in 1 .. Len(Block(L, c)) : \E n \in 1 .. Len(L) : Block(L, c)[y] = L[n]
    BY <1>2, BlockPlaces
  <1>4. b \in 0 .. num_blocks(L) - 1 /\ x + 1 \in 1 .. Len(Block(L, b))
    BY <1>2, <1>3 DEF Place
  <1> QED BY <1>0, <1>3, <1>4

(* The score of a document as a total with one part for each query term. *)
LEMMA ScoreExists ==
    ASSUME QueryInv, InSegment, NEW d \in 0 .. seg.num_docs - 1
    PROVE  \E u : ScoreIs(d, u)
  <1>0. PICK tf : tf = TfOf(seg, d)
    OBVIOUS
  <1>1. PICK len : len = decode_fieldnorm(seg.norm[d + 1])
    OBVIOUS
  <1>2. PICK u : u = Parts1(tf, len)
    OBVIOUS
  <1>3. WellFormed(seg) /\ SegScores(si)
    BY SegOK
  <1>4. tf \in [Term -> Nat] /\ len \in Nat
    BY <1>0, <1>1, <1>3, TfNat
  <1>5. u \in [1 .. nterms -> Nat] /\ seg_score(si, d) = Total(u)
    BY <1>0, <1>1, <1>2, <1>4, DocScoreNat, SegScoreIs DEF seg
  <1>6. ASSUME NEW q \in 1 .. nterms PROVE term_of(q) \in Term /\ (HitsOf(seg, d, term_of(q)) = {} <=> ~Hits(q, d))
    BY SegOK, ListHits DEF HitsOf
  <1>7. ASSUME NEW q \in 1 .. nterms, ~Hits(q, d) PROVE u[q] = 0
    <2>1. tf[term_of(q)] = 0
      BY <1>0, <1>6, <1>7 DEF TfOf
    <2> QED BY <1>2, <2>1 DEF Parts1, term_of
  <1>8. ASSUME NEW q \in 1 .. nterms, NEW b, NEW x, Hits(q, d), Place(q, b, x), BlkDoc(q, b, x) = d
        PROVE  u[q] = posting_score(q, Block(seg.post[term_of(q)], b)[x + 1]) * query_freq(q) /\ u[q] > 0
    <2>0. has_term(seg, term_of(q))
      BY <1>8 DEF Hits
    <2>1. PICK n \in 1 .. Len(seg.post[term_of(q)]) : Block(seg.post[term_of(q)], b)[x + 1] = seg.post[term_of(q)][n]
      BY <1>8, <2>0, PlacePosting
    <2>2. PICK p : p = seg.post[term_of(q)][n]
      OBVIOUS
    <2>3. p.doc = d
      BY <1>8, <2>1, <2>2 DEF BlkDoc
    <2>4. p \in HitsOf(seg, d, term_of(q))
      <3>1. seg.post[term_of(q)] \in Seq(Posting)
        BY <1>3, <2>0 DEF WellFormed, has_term, ListOK, PostingList
      <3> QED BY <2>0, <2>2, <2>3, <3>1 DEF HitsOf, Range
    <2>5. p \in Posting /\ p.norm = seg.norm[d + 1] /\ (CHOOSE r \in HitsOf(seg, d, term_of(q)) : TRUE) = p
      <3>1. (CHOOSE r \in HitsOf(seg, d, term_of(q)) : TRUE) \in HitsOf(seg, d, term_of(q))
        BY <2>4
      <3> QED BY <1>3, <2>4, <3>1, OnePosting
    <2>6. tf[term_of(q)] = p.frequency /\ p.frequency # 0
      BY <1>0, <1>6, <2>4, <2>5 DEF TfOf, Posting
    <2>7. u[q] = posting_score(q, p) * query_freq(q)
      BY <1>1, <1>2, <2>5, <2>6 DEF Parts1, posting_score, term_of
    <2>8. posting_score(q, p) > 0
      BY <1>3, <2>0, <2>2 DEF SegScores, seg, term_of
    <2>9. posting_score(q, p) \in Nat /\ query_freq(q) \in Nat \ {0}
      BY <2>5, PostingScoreNat, QueryFreq
    <2>10. posting_score(q, p) * query_freq(q) > 0
      BY <2>8, <2>9, ProductNat
    <2> QED BY <2>1, <2>2, <2>7, <2>10
  <1> QED BY <1>5, <1>7, <1>8 DEF ScoreIs

-----------------------------------------------------------------------------
(* The tenant filter *)

(* The tenant check rejects no matching document. *)
LEMMA MatchNotRejected ==
    ASSUME QueryInv, InSegment, NEW d \in seg_matches(si)
    PROVE  ~tenant_rejects(d)
  <1>1. Matching(d)
    BY MatchIs
  <1>2. WellFormed(seg)
    BY SegOK
  <1>3. d \in 0 .. seg.num_docs - 1 /\ seg.num_docs \in Nat /\ d + 1 \in 1 .. seg.num_docs
    BY <1>1, <1>2 DEF Matching, WellFormed
  <1> SUFFICES ASSUME query.tenant # 0 PROVE tp_segment_get_tenant_id(seg, d) = query.tenant
    BY DEF tenant_rejects
  <1>4. seg.tenant[d + 1] = query.tenant
    BY <1>1 DEF Matching
  <1>5. seg.has_tenant_data
    BY <1>2, <1>3, <1>4 DEF WellFormed
  <1> QED BY <1>3, <1>4, <1>5 DEF tp_segment_get_tenant_id

(* It lets only documents of the tenant pass: by the range where there is one, document by
   document where not. *)
LEMMA NotRejectedMatch ==
    ASSUME QueryInv, InSegment, tenant_range # << >>, lo = tenant_range[1], hi = tenant_range[2],
           NEW d, lo <= d, d <= hi, ~tenant_rejects(d), NEW q \in 1 .. nterms, Hits(q, d)
    PROVE  d \in seg_matches(si)
  <1>1. d \in 0 .. seg.num_docs - 1
    BY HitsInSegment
  <1>2. query.tenant = 0 \/ seg.tenant[d + 1] = query.tenant
    <2> SUFFICES ASSUME query.tenant # 0 PROVE seg.tenant[d + 1] = query.tenant
      OBVIOUS
    <2>1. CASE hi = UINT32_MAX
      <3>1. tp_segment_get_tenant_id(seg, d) = query.tenant
        BY <2>1 DEF tenant_rejects
      <3> QED BY <3>1 DEF tp_segment_get_tenant_id
    <2>2. CASE hi # UINT32_MAX
      <3>1. query.tenant # 0 /\ seg.tenant_ordered
        BY <2>2, TenantRange
      <3>2. \A x \in 0 .. seg.num_docs - 1 :
                 IF query.tenant # 0 /\ seg.tenant_ordered
                 THEN seg.tenant[x + 1] = query.tenant <=> tenant_range[1] <= x /\ x <= tenant_range[2]
                 ELSE tenant_range[1] <= x /\ x <= tenant_range[2]
        BY TenantRange
      <3> QED BY <1>1, <3>1, <3>2
    <2> QED BY <2>1, <2>2
  <1>3. Matching(d)
    BY <1>1, <1>2 DEF Matching
  <1> QED BY <1>3, MatchIs

(* A block of another tenant holds no matching document. *)
LEMMA WrongBlock ==
    ASSUME QueryInv, InSegment, NEW q \in 1 .. nterms, has_term(seg, term_of(q)), NEW b, NEW x, Place(q, b, x),
           wrong_tenant_block(seg.skip[term_of(q)][b + 1])
    PROVE  BlkDoc(q, b, x) \notin seg_matches(si)
  <1>0. PICK L : L = seg.post[term_of(q)]
    OBVIOUS
  <1>1. ListOK(seg, term_of(q))
    BY SegOK DEF WellFormed, has_term
  <1>2. PICK e : e = seg.skip[term_of(q)][b + 1]
    OBVIOUS
  <1>3. L \in PostingList /\ Blks(q) = num_blocks(L) /\ \A c \in 0 .. num_blocks(L) - 1 : BlkLen(q, c) = Len(Block(L, c))
    BY <1>0, <1>1 DEF ListOK, Blks, BlkLen, EntryOK
  <1>4. num_blocks(L) \in Nat /\ \A c \in 0 .. num_blocks(L) - 1 : Len(Block(L, c)) \in Nat
    BY <1>3, BlockPlaces
  <1>5. b \in 0 .. num_blocks(L) - 1 /\ x + 1 \in 1 .. Len(Block(L, b))
    BY <1>3, <1>4 DEF Place
  <1>6. EntryOK(e, Block(L, b), seg.tenant)
    BY <1>0, <1>1, <1>2, <1>5 DEF ListOK
  <1>7. query.tenant # 0 /\ e.mode = "single" /\ e.low16 # query.tenant % 65536
    BY <1>2 DEF wrong_tenant_block
  <1>8. PICK d : d = Block(L, b)[x + 1].doc
    OBVIOUS
  <1>9. seg.tenant[d + 1] % 65536 = e.low16
    BY <1>5, <1>6, <1>7, <1>8 DEF EntryOK
  <1>10. d = BlkDoc(q, b, x)
    BY <1>0, <1>8 DEF BlkDoc
  <1> QED BY <1>7, <1>9, <1>10, MatchIs DEF Matching

-----------------------------------------------------------------------------
(* Bounds *)

(* The threshold is a natural. *)
LEMMA ThresholdNat ==
    ASSUME Base
    PROVE  threshold \in Nat
  <1>1. query.k \in Nat \ {0} /\ Len(heap) \in Nat /\ heap \in [1 .. Len(heap) -> Entry]
    BY DEF Base, QueryInv, IsHeap, Heap
  <1>2. CASE Len(heap) >= query.k
    <2>1. heap[1] \in Entry
      BY <1>1, <1>2
    <2> QED BY <1>2, <2>1 DEF threshold, tp_topk_threshold, Entry
  <1>3. CASE ~(Len(heap) >= query.k)
    BY <1>3 DEF threshold, tp_topk_threshold
  <1> QED BY <1>2, <1>3

(* BoundsCover, for a place of the current segment. *)
LEMMA BoundAt ==
    ASSUME QueryInv, InSegment, BoundsCover, NEW q \in 1 .. nterms, has_term(seg, term_of(q)), NEW b, NEW x, Place(q, b, x)
    PROVE  posting_score(q, Block(seg.post[term_of(q)], b)[x + 1])
               <= tp_compute_block_max_score(seg.skip[term_of(q)][b + 1], query.terms[q].idf)
  <1>0. PICK L : L = seg.post[term_of(q)]
    OBVIOUS
  <1>1. ListOK(seg, term_of(q))
    BY SegOK DEF WellFormed, has_term
  <1>2. L \in PostingList /\ Blks(q) = num_blocks(L) /\ \A c \in 0 .. num_blocks(L) - 1 : BlkLen(q, c) = Len(Block(L, c))
    BY <1>0, <1>1 DEF ListOK, Blks, BlkLen, EntryOK
  <1>3. num_blocks(L) \in Nat /\ \A c \in 0 .. num_blocks(L) - 1 : Len(Block(L, c)) \in Nat /\ Block(L, c) \in Seq(Posting)
    BY <1>2, BlockPlaces
  <1>4. b \in 0 .. num_blocks(L) - 1 /\ x + 1 \in 1 .. Len(Block(L, b))
    BY <1>2, <1>3 DEF Place
  <1>5. b \in 0 .. block_count(seg, term_of(q)) - 1
    BY <1>2, <1>4 DEF Blks, block_count
  <1>6. PICK B : B = Block(L, b)
    OBVIOUS
  <1>7. B[x + 1] \in Range(B)
    BY <1>3, <1>4, <1>6 DEF Range
  <1>8. \A p \in Range(B) : posting_score(q, p) <= tp_compute_block_max_score(seg.skip[term_of(q)][b + 1], query.terms[q].idf)
    BY <1>0, <1>5, <1>6 DEF BoundsCover, seg, term_of, InSegment
  <1> QED BY <1>0, <1>6, <1>7, <1>8

(* What a term adds to a score is not above the bound of the term, nor above the bound of
   the block the document is in. *)
LEMMA PartBound ==
    ASSUME Loop, BoundsCover, NEW d, NEW u, ScoreIs(d, u), NEW j \in 1 .. nterms
    PROVE  /\ terms[j].q \in 1 .. nterms
           /\ u[terms[j].q] <= max_score(terms[j]) /\ max_score(terms[j]) \in Nat
           /\ \A b, x : Hits(terms[j].q, d) /\ Place(terms[j].q, b, x) /\ BlkDoc(terms[j].q, b, x) = d =>
                 u[terms[j].q] <= block_max(terms[j], b) * query.terms[terms[j].q].query_freq
  <1>1. PICK q : q = terms[j].q
    OBVIOUS
  <1>2. QueryInv /\ InSegment /\ Valid(terms[j]) /\ q \in 1 .. nterms /\ terms[j].found = has_term(seg, term_of(q)) /\ nterms # 1
    BY <1>1 DEF Loop, Valid, TermState
  <1>3. query_freq(q) = query.terms[q].query_freq /\ query.terms[q].query_freq \in Nat
    BY <1>2, QueryFreq DEF query_freq
  <1>4. ASSUME NEW b, NEW x, Hits(q, d), Place(q, b, x), BlkDoc(q, b, x) = d
        PROVE  /\ u[q] <= block_max(terms[j], b) * query.terms[q].query_freq
               /\ block_max(terms[j], b) \in Nat /\ b \in 0 .. Blks(q) - 1 /\ terms[j].found
    <2>1. has_term(seg, term_of(q))
      BY <1>4 DEF Hits
    <2>2. PICK s : s = posting_score(q, Block(seg.post[term_of(q)], b)[x + 1])
      OBVIOUS
    <2>3. s \in Nat
      <3>1. PICK n \in 1 .. Len(seg.post[term_of(q)]) : Block(seg.post[term_of(q)], b)[x + 1] = seg.post[term_of(q)][n]
        BY <1>2, <1>4, <2>1, PlacePosting
      <3>2. seg.post[term_of(q)] \in Seq(Posting)
        BY <1>2, <2>1, SegOK DEF WellFormed, has_term, ListOK, PostingList
      <3>3. seg.post[term_of(q)][n] \in Posting
        BY <3>1, <3>2
      <3> QED BY <1>2, <2>2, <3>1, <3>3, PostingScoreNat
    <2>4. s <= block_max(terms[j], b)
      BY <1>1, <1>2, <1>4, <2>1, <2>2, BoundAt DEF block_max, skip, term_of
    <2>5. b \in 0 .. Blks(q) - 1
      BY <1>4 DEF Place
    <2>6. block_max(terms[j], b) \in Nat
      BY <1>1, <1>2, <2>1, <2>5, BlockMaxNat
    <2>7. u[q] = s * query.terms[q].query_freq
      BY <1>2, <1>3, <1>4, <2>2 DEF ScoreIs
    <2> QED BY <1>2, <1>3, <2>1, <2>3, <2>4, <2>5, <2>6, <2>7, MulMono
  <1>5. max_score(terms[j]) \in Nat
    BY <1>2, MaxScore
  <1>6. u[q] <= max_score(terms[j])
    <2>1. CASE ~Hits(q, d)
      <3>1. u[q] = 0
        BY <1>2, <2>1 DEF ScoreIs
      <3> QED BY <1>5, <3>1
    <2>2. CASE Hits(q, d)
      <3>1. PICK b, x : Place(q, b, x) /\ BlkDoc(q, b, x) = d
        BY <2>2 DEF Hits
      <3>2. u[q] <= block_max(terms[j], b) * query.terms[q].query_freq /\ b \in 0 .. Blks(q) - 1 /\ terms[j].found /\ block_max(terms[j], b) \in Nat
        BY <1>4, <2>2, <3>1
      <3>3. block_max(terms[j], b) * query.terms[q].query_freq <= max_score(terms[j])
        BY <1>1, <1>2, <3>2, MaxScore
      <3>4. u[q] \in Nat /\ block_max(terms[j], b) * query.terms[q].query_freq \in Nat
        BY <1>2, <1>3, <3>2, ProductNat DEF ScoreIs
      <3> QED BY <1>5, <3>2, <3>3, <3>4
    <2> QED BY <2>1, <2>2
  <1> QED BY <1>1, <1>2, <1>4, <1>5, <1>6

(* The order of the terms. *)
TermOrder == [j \in 1 .. nterms |-> terms[j].q]

(* The terms are one for each query term. *)
LEMMA TermOrderPerm ==
    ASSUME Loop
    PROVE  TermOrder \in Perms(nterms) /\ \A j \in 1 .. nterms : TermOrder[j] = terms[j].q
  <1>1. \A j \in 1 .. nterms : terms[j].q \in 1 .. nterms
    BY DEF Loop, Valid, TermState
  <1>2. \A a, b \in 1 .. nterms : terms[a].q = terms[b].q => a = b
    BY DEF Loop, TermsAre
  <1> QED BY <1>1, <1>2 DEF TermOrder, Perms

(* No term that can still meet d has passed it. *)
NotPassed(d) == \A j \in 1 .. nterms : Hits(terms[j].q, d) => Cur(terms[j]) <= d

(* Documents before the place where the bounds pass the threshold. *)
LEMMA PrefixBound ==
    ASSUME Loop, Base, BoundsCover, NEW d \in Nat, NEW u, ScoreIs(d, u), NotPassed(d), NEW m \in 0 .. nterms,
           \A j \in m + 1 .. nterms : Cur(terms[j]) > d, \A j \in 1 .. m : Cur(terms[j]) # UINT32_MAX,
           m \notin pivot_terms
    PROVE  seg_score(si, d) <= threshold
  <1>1. nterms \in Nat /\ u \in [1 .. nterms -> Nat] /\ seg_score(si, d) = Total(u) /\ threshold \in Nat
    BY ThresholdNat DEF Loop, ScoreIs
  <1>2. PICK f : f = TermOrder
    OBVIOUS
  <1>3. f \in Perms(nterms) /\ \A j \in 1 .. nterms : f[j] = terms[j].q
    BY <1>2, TermOrderPerm
  <1>4. \A j \in 1 .. nterms : terms[j].q \in 1 .. nterms /\ u[terms[j].q] <= max_score(terms[j]) /\ max_score(terms[j]) \in Nat
    BY PartBound
  <1>5. Vanish(u, f, m, nterms)
    <2> SUFFICES ASSUME NEW j \in m + 1 .. nterms PROVE u[f[j]] = 0
      BY DEF Vanish
    <2>1. j \in 1 .. nterms /\ Cur(terms[j]) > d /\ Cur(terms[j]) \in Nat
      BY <1>1 DEF Loop
    <2>2. ~(Cur(terms[j]) <= d)
      BY <2>1
    <2>3. ~Hits(terms[j].q, d)
      BY <2>1, <2>2 DEF NotPassed
    <2> QED BY <1>3, <1>4, <2>1, <2>3 DEF ScoreIs
  <1>6. PICK v : v = [j \in 1 .. m |-> max_score(terms[j])]
    OBVIOUS
  <1>7. v \in [1 .. m -> Nat] /\ \A j \in 1 .. m : u[f[j]] <= v[j]
    <2>1. \A j \in 1 .. m : j \in 1 .. nterms
      BY <1>1
    <2>2. \A j \in 1 .. m : v[j] = max_score(terms[j]) /\ f[j] = terms[j].q
      BY <1>3, <1>6, <2>1
    <2>3. v \in [1 .. m -> Nat]
      BY <1>4, <1>6, <2>1
    <2> QED BY <1>4, <2>1, <2>2, <2>3
  <1>8. Total(u) <= Total(v)
    BY <1>1, <1>3, <1>5, <1>7, TotalBound
  <1>9. Total(u) \in Nat /\ Total(v) \in Nat
    BY <1>1, <1>7, TotalNat
  <1>10. CASE m = 0
    <2>1. Total(v) = 0
      BY <1>7, <1>10, TotalZero
    <2> QED BY <1>1, <1>8, <1>9, <2>1
  <1>11. CASE m # 0
    <2>1. m \in 1 .. nterms
      BY <1>1, <1>11
    <2>2. ~(accumulated(m) > threshold)
      BY <2>1 DEF pivot_terms, Cur
    <2>3. accumulated(m) = Total(v)
      BY <1>6 DEF accumulated
    <2> QED BY <1>1, <1>8, <1>9, <2>2, <2>3
  <1> QED BY <1>10, <1>11

(* No document before the pivot can win. *)
LEMMA BeforePivot ==
    ASSUME Loop, Base, BoundsCover, NEW d \in Nat, NEW u, ScoreIs(d, u), NotPassed(d),
           NEW n, NEW p, PivotIs(n, p), d < p.doc
    PROVE  seg_score(si, d) <= threshold
  <1>1. /\ n \in 1 .. nterms /\ p.doc = Cur(terms[n]) /\ p.doc \in Nat /\ nterms \in Nat
        /\ \A x \in pivot_terms : n <= x
    BY DEF PivotIs, Loop
  <1>2. PICK m : m = n - 1
    OBVIOUS
  <1>3. m \in 0 .. nterms /\ ~(n <= m) /\ m \notin pivot_terms
    BY <1>1, <1>2
  <1>4. \A j \in m + 1 .. nterms : Cur(terms[j]) > d
    <2> TAKE j \in m + 1 .. nterms
    <2>1. j \in 1 .. nterms /\ (j = n \/ n < j)
      BY <1>1, <1>2
    <2>2. Cur(terms[n]) <= Cur(terms[j]) /\ Cur(terms[j]) \in Nat
      BY <1>1, <2>1 DEF Loop, TermsAre
    <2> QED BY <1>1, <2>2
  <1>5. \A j \in 1 .. m : Cur(terms[j]) # UINT32_MAX
    <2>1. \A j \in 1 .. m : j \in 1 .. p.len
      BY <1>1, <1>2 DEF PivotIs
    <2> QED BY <2>1 DEF PivotIs
  <1> QED BY <1>3, <1>4, <1>5, PrefixBound

(* Without a pivot no document that is left can win. *)
LEMMA NoPivot ==
    ASSUME Loop, Base, BoundsCover, pivot_terms = {}, NEW d \in Nat, d < UINT32_MAX, NEW u, ScoreIs(d, u), NotPassed(d)
    PROVE  seg_score(si, d) <= threshold
  <1>1. nterms \in Nat /\ UINT32_MAX \in Nat
    BY LimitsAssumption, DocIdAssumption DEF Loop
  <1>2. PICK S : S = {0} \cup {j \in 1 .. nterms : Cur(terms[j]) # UINT32_MAX}
    OBVIOUS
  <1>3. PICK m : m = Max(S)
    OBVIOUS
  <1>4. m \in S /\ \A y \in S : y <= m
    <2>1. S \in SUBSET (0 .. nterms) /\ S # {}
      BY <1>1, <1>2
    <2> QED BY <1>1, <1>3, <2>1, MaxNat
  <1>5. m \in 0 .. nterms
    BY <1>1, <1>2, <1>4
  <1>6. \A j \in m + 1 .. nterms : Cur(terms[j]) > d
    <2> TAKE j \in m + 1 .. nterms
    <2>1. j \in 1 .. nterms /\ ~(j <= m)
      BY <1>1, <1>5
    <2>2. Cur(terms[j]) = UINT32_MAX
      BY <1>2, <1>4, <2>1
    <2> QED BY <1>1, <2>2
  <1>7. \A j \in 1 .. m : Cur(terms[j]) # UINT32_MAX
    <2> TAKE j \in 1 .. m
    <2>1. m \in 1 .. nterms /\ Cur(terms[m]) # UINT32_MAX /\ j \in 1 .. nterms /\ (j = m \/ j < m)
      BY <1>1, <1>2, <1>4, <1>5
    <2>2. /\ Cur(terms[m]) \in Nat /\ Cur(terms[m]) <= UINT32_MAX /\ Cur(terms[j]) \in Nat
          /\ Cur(terms[j]) <= Cur(terms[m])
      BY <2>1 DEF Loop, TermsAre
    <2> QED BY <1>1, <2>1, <2>2
  <1> QED BY <1>5, <1>6, <1>7, PrefixBound

(* A document in the reach of a term's current block is in it. *)
LEMMA InBlock ==
    ASSUME QueryInv, InSegment, NEW ts, Valid(ts), ~ts.fin, NEW d \in Nat, Cur(ts) <= d, d <= BlkLast(ts.q, ts.blk), Hits(ts.q, d)
    PROVE  \E x : Place(ts.q, ts.blk, x) /\ BlkDoc(ts.q, ts.blk, x) = d
  <1>1. PICK q : q = ts.q
    OBVIOUS
  <1>2. PICK c : c = ts.blk
    OBVIOUS
  <1>3. PlacesOK(q) /\ Place(q, c, ts.pos) /\ Cur(ts) = BlkDoc(q, c, ts.pos) /\ Cur(ts) \in Nat
    BY <1>1, <1>2, CurType
  <1>4. PICK b, x : Place(q, b, x) /\ BlkDoc(q, b, x) = d
    BY <1>1 DEF Hits
  <1>5. Blks(q) \in Nat /\ b \in 0 .. Blks(q) - 1 /\ c \in 0 .. Blks(q) - 1
    BY <1>3, <1>4 DEF Place, PlacesOK
  <1>6. PICK y \in 0 .. BlkLen(q, c) - 1 : BlkDoc(q, c, y) = BlkLast(q, c)
    BY <1>3, <1>5 DEF PlacesOK
  <1>7. Place(q, c, y) /\ BlkLast(q, c) \in Nat
    BY <1>3, <1>5, <1>6 DEF Place, PlacesOK
  <1>8. ~(b < c)
    <2> SUFFICES ASSUME b < c PROVE FALSE
      OBVIOUS
    <2>1. BlkDoc(q, b, x) < BlkDoc(q, c, ts.pos)
      BY <1>3, <1>4 DEF PlacesOK
    <2> QED BY <1>3, <1>4, <2>1
  <1>9. ~(c < b)
    <2> SUFFICES ASSUME c < b PROVE FALSE
      OBVIOUS
    <2>1. BlkDoc(q, c, y) < BlkDoc(q, b, x)
      BY <1>3, <1>4, <1>7 DEF PlacesOK
    <2> QED BY <1>1, <1>2, <1>4, <1>6, <1>7, <2>1
  <1>10. b = c
    BY <1>5, <1>8, <1>9
  <1> QED BY <1>1, <1>2, <1>4, <1>10

(* The documents that a block skip jumps over cannot win. *)
LEMMA InSkippedBlocks ==
    ASSUME Seeking, Base, BoundsCover, block_upper <= threshold, NEW d \in Nat, NEW u, ScoreIs(d, u), NotPassed(d), d < SkipTarget
    PROVE  seg_score(si, d) <= threshold
  <1>1. /\ Loop /\ nterms \in Nat /\ u \in [1 .. nterms -> Nat] /\ seg_score(si, d) = Total(u) /\ threshold \in Nat
        /\ pivot.len \in 1 .. nterms /\ QueryInv /\ InSegment /\ TermsAre(terms)
        /\ \A j \in 1 .. pivot.len : Cur(terms[j]) # UINT32_MAX /\ ~terms[j].fin
    BY ThresholdNat DEF Seeking, Loop, ScoreIs
  <1>2. PICK f : f = TermOrder
    OBVIOUS
  <1>3. f \in Perms(nterms) /\ \A j \in 1 .. nterms : f[j] = terms[j].q
    BY <1>1, <1>2, TermOrderPerm
  <1>4. /\ min_block_end \in Nat /\ first_other_doc \in Nat
        /\ \A j \in 1 .. pivot.len : min_block_end <= BlkLast(terms[j].q, terms[j].blk)
        /\ SkipTarget \in Nat /\ SkipTarget <= min_block_end + 1 /\ SkipTarget <= first_other_doc
    BY <1>1, SkipTerm
  <1>5. d <= min_block_end /\ d < first_other_doc
    BY <1>4
  <1>6. \A j \in 1 .. nterms : /\ terms[j].q \in 1 .. nterms /\ Valid(terms[j]) /\ Cur(terms[j]) \in Nat
                               /\ (\A a \in 1 .. nterms : a < j => Cur(terms[a]) <= Cur(terms[j]))
    BY <1>1 DEF Loop, TermsAre, Valid, TermState
  <1>7. Vanish(u, f, pivot.len, nterms)
    <2> SUFFICES ASSUME NEW j \in pivot.len + 1 .. nterms PROVE u[f[j]] = 0
      BY DEF Vanish
    <2>1. j \in 1 .. nterms /\ pivot.len < nterms /\ pivot.len + 1 \in 1 .. nterms /\ (j = pivot.len + 1 \/ pivot.len + 1 < j)
      BY <1>1
    <2>2. Cur(terms[pivot.len + 1]) = first_other_doc
      BY <2>1 DEF first_other_doc, Cur
    <2>3. first_other_doc <= Cur(terms[j]) /\ Cur(terms[j]) \in Nat
      BY <1>4, <1>6, <2>1, <2>2
    <2>4. ~(Cur(terms[j]) <= d)
      BY <1>4, <1>5, <2>3
    <2>5. ~Hits(terms[j].q, d)
      BY <2>1, <2>4 DEF NotPassed
    <2> QED BY <1>3, <1>6, <2>1, <2>5 DEF ScoreIs
  <1>8. PICK v : v = [j \in 1 .. pivot.len |->
                        IF terms[j].fin THEN 0 ELSE block_max(terms[j], terms[j].blk) * query.terms[terms[j].q].query_freq]
    OBVIOUS
  <1>9. ASSUME NEW j \in 1 .. pivot.len PROVE v[j] \in Nat /\ u[f[j]] <= v[j]
    <2>0. j \in 1 .. nterms
      BY <1>1
    <2>1. j \in 1 .. nterms /\ ~terms[j].fin /\ Valid(terms[j])
      BY <1>1, <1>6, <2>0
    <2>2. v[j] = block_max(terms[j], terms[j].blk) * query.terms[terms[j].q].query_freq
      BY <1>8, <2>1
    <2>3. terms[j].found /\ Place(terms[j].q, terms[j].blk, terms[j].pos) /\ PlacesOK(terms[j].q)
      BY <1>1, <2>1, CurType
    <2>4. terms[j].blk \in 0 .. Blks(terms[j].q) - 1 /\ BlkLast(terms[j].q, terms[j].blk) \in Nat
      BY <2>3 DEF Place, PlacesOK
    <2>5. block_max(terms[j], terms[j].blk) \in Nat /\ query.terms[terms[j].q].query_freq \in Nat
      BY <1>1, <1>6, <2>1, <2>3, <2>4, BlockMaxNat, QueryFreq
    <2>6. v[j] \in Nat
      BY <2>2, <2>5, ProductNat
    <2>7. f[j] = terms[j].q
      BY <1>3, <2>1
    <2>8. CASE ~Hits(terms[j].q, d)
      <3>1. u[f[j]] = 0
        BY <1>6, <2>1, <2>7, <2>8 DEF ScoreIs
      <3> QED BY <2>6, <3>1
    <2>9. CASE Hits(terms[j].q, d)
      <3>1. Cur(terms[j]) <= d
        BY <2>1, <2>9 DEF NotPassed
      <3>2. d <= BlkLast(terms[j].q, terms[j].blk)
        BY <1>4, <1>5, <2>4
      <3>3. PICK x : Place(terms[j].q, terms[j].blk, x) /\ BlkDoc(terms[j].q, terms[j].blk, x) = d
        BY <1>1, <2>1, <2>9, <3>1, <3>2, InBlock
      <3> QED BY <1>1, <2>1, <2>2, <2>6, <2>7, <2>9, <3>3, PartBound
    <2> QED BY <2>6, <2>8, <2>9
  <1>10. v \in [1 .. pivot.len -> Nat]
    BY <1>8, <1>9
  <1>11. Total(u) <= Total(v) /\ Total(u) \in Nat /\ Total(v) \in Nat
    <2>1. pivot.len \in 0 .. nterms /\ pivot.len \in Nat
      BY <1>1
    <2> QED BY <1>1, <1>3, <1>7, <1>9, <1>10, <2>1, TotalBound, TotalNat
  <1>12. block_upper = Total(v)
    BY <1>8 DEF block_upper
  <1> QED BY <1>1, <1>11, <1>12

-----------------------------------------------------------------------------
(* The inductive invariant: what was skipped *)

(* Document d of segment n is in the heap. *)
InHeap(n, d) == \E e : Holds(heap, e) /\ e.seg = n /\ e.doc = d

(* A document that still has to enter the heap. *)
Pending(d) ==
    d \in seg_matches(si) /\ lo <= d /\ d <= hi /\ seg_score(si, d) > threshold /\ ~InHeap(si, d)

(* The WAND loop has not passed it. *)
PassInv ==
    BoundsCover /\ InWand => \A d : Pending(d) =>
        /\ NotPassed(d)
        /\ pc = "seek" => pivot.doc <= d
        /\ pc \in {"advance", "reject"} => d # pivot.doc

(* The single-term loop has its posting in front of it. *)
Ahead(d) ==
    \E b, x : /\ Place(1, b, x) /\ BlkDoc(1, b, x) = d /\ block <= b
              /\ pc = "posting" /\ b = block => i <= x + 1

(* Every document that still has to enter is ahead of it. *)
SingleInv ==
    BoundsCover /\ pc \in {"block", "posting"} => \A d : Pending(d) => Ahead(d)

(* What is in the heap was scored in full, and will not be met again. *)
MemScored(e) == \E d \in mem_matches \ todo : e = MemtableEntry(d.ctid, mem_score(d))

(* e is a matching document of a segment reached so far, with its full score. *)
SegScored(e) ==
    /\ e.seg \in 1 .. Len(query.segs) /\ e.seg <= si /\ e.doc \in seg_matches(e.seg)
    /\ e = SegmentEntry(e.seg, e.doc, seg_score(e.seg, e.doc))

(* The loops have passed the document of e. *)
Behind(e) ==
    /\ pc \in {"memtable", "segment"} => e.seg < si
    /\ e.seg = si => /\ pc \in {"pivot", "seek"} => \A j \in 1 .. nterms : Cur(terms[j]) > e.doc
                     /\ pc \in {"advance", "reject"} => e.doc <= pivot.doc
                     /\ pc \in {"block", "posting"} => ~Ahead(e.doc)

(* All of the heap is. *)
HeapScored == \A e : Holds(heap, e) => MemScored(e) \/ (SegScored(e) /\ Behind(e))

(* This needs the block bounds: a document is only scored when they pass the threshold. *)
HeapSound == BoundsCover => HeapScored /\ Distinct(heap)

(* The threshold of a heap is a natural. *)
LEMMA HeapThreshold ==
    ASSUME NEW h, IsHeap(h), NEW k \in Nat \ {0}
    PROVE  tp_topk_threshold(h, k) \in Nat
  <1>1. Len(h) \in Nat /\ h \in [1 .. Len(h) -> Entry]
    BY DEF IsHeap, Heap
  <1>2. Len(h) >= k => h[1] \in Entry
    BY <1>1
  <1> QED BY <1>2 DEF tp_topk_threshold, Entry

(* What depends on the query only. *)
LEMMA FrameQuery ==
    ASSUME query' = query
    PROVE  /\ nterms' = nterms /\ mem_matches' = mem_matches
           /\ \A n : seg_matches(n)' = seg_matches(n)
           /\ \A n, d : seg_score(n, d)' = seg_score(n, d)
           /\ \A d : mem_score(d)' = mem_score(d)
           /\ BoundsCover' = BoundsCover /\ RangesCover' = RangesCover /\ Matches' = Matches
           /\ \A q, p : posting_score(q, p)' = posting_score(q, p)
  <1>1. nterms' = nterms
    BY DEF nterms
  <1>2. \A tf, len : doc_score(tf, len)' = doc_score(tf, len)
    BY <1>1 DEF doc_score, query_freq
  <1>3. \A d : mem_score(d)' = mem_score(d)
    BY <1>2 DEF mem_score
  <1>4. mem_matches' = mem_matches
    BY <1>1 DEF mem_matches, tenant_match
  <1>5. \A n : seg_matches(n)' = seg_matches(n)
    BY <1>1 DEF seg_matches
  <1>6. \A n, d : seg_score(n, d)' = seg_score(n, d)
    BY <1>2 DEF seg_score
  <1>7. \A q, p : posting_score(q, p)' = posting_score(q, p)
    BY DEF posting_score
  <1>8. BoundsCover' = BoundsCover
    BY <1>1, <1>7 DEF BoundsCover
  <1>9. RangesCover' = RangesCover
    BY DEF RangesCover
  <1>10. Matches' = Matches
    BY <1>3, <1>4, <1>5, <1>6 DEF Matches
  <1> QED BY <1>1, <1>3, <1>4, <1>5, <1>6, <1>7, <1>8, <1>9, <1>10

(* The lists of a segment do not change. *)
LEMMA FramePlaces ==
    ASSUME query' = query, si' = si
    PROVE  /\ \A q, b, x : Place(q, b, x)' <=> Place(q, b, x)
           /\ \A q, b, x : BlkDoc(q, b, x)' = BlkDoc(q, b, x)
           /\ \A q, d : Hits(q, d)' <=> Hits(q, d)
           /\ seg' = seg
  <1>1. seg' = seg /\ \A q : term_of(q)' = term_of(q)
    BY DEF seg, term_of
  <1>2. \A q, b, x : Place(q, b, x)' <=> Place(q, b, x)
    BY <1>1 DEF Place, Blks, BlkLen
  <1>3. \A q, b, x : BlkDoc(q, b, x)' = BlkDoc(q, b, x)
    BY <1>1 DEF BlkDoc
  <1>4. \A q, d : Hits(q, d)' <=> Hits(q, d)
    BY <1>1, <1>2, <1>3 DEF Hits
  <1> QED BY <1>1, <1>2, <1>3, <1>4

(* How a step of the program may change the heap. *)
Offered(e) == e \in Entry /\ Added(heap, heap', query.k, e)

(* What an offered result does to the heap and to the threshold. *)
LEMMA OfferedHolds ==
    ASSUME NEW e, Offered(e)
    PROVE  /\ threshold <= tp_topk_threshold(heap', query.k)
           /\ \A x : Holds(heap', x) => x = e \/ Holds(heap, x)
           /\ Holds(heap', e) \/ e.score <= tp_topk_threshold(heap', query.k)
           /\ \A x : Holds(heap, x) => Holds(heap', x) \/ x.score <= tp_topk_threshold(heap', query.k)
           /\ Distinct(heap) /\ ~Holds(heap, e) => Distinct(heap')
  <1>1. Added(heap, heap', query.k, e)
    BY DEF Offered
  <1> QED BY <1>1 DEF Added, Holds, threshold

(* A document that is pending after a result was offered was pending before, and is not the one offered. *)
LEMMA PendingShrinks ==
    ASSUME Base, HeapScored, InSegment, UNCHANGED <<query, si, lo, hi>>, Base', NEW e, heap' = heap \/ Offered(e), NEW d, Pending(d)'
    PROVE  /\ Pending(d)
           /\ ~(Offered(e) /\ e = SegmentEntry(si, d, seg_score(si, d)))
  <1>1. seg_matches(si)' = seg_matches(si) /\ seg_score(si, d)' = seg_score(si, d)
    BY FrameQuery
  <1>2. threshold' = tp_topk_threshold(heap', query.k) /\ threshold' \in Nat /\ threshold \in Nat
    <2>1. IsHeap(heap) /\ IsHeap(heap') /\ query.k \in Nat \ {0}
      BY DEF Base, QueryInv
    <2>2. tp_topk_threshold(heap', query.k) \in Nat
      BY <2>1, HeapThreshold
    <2> QED BY <2>2, ThresholdNat DEF threshold
  <1>3. d \in seg_matches(si) /\ lo <= d /\ d <= hi /\ seg_score(si, d) > threshold' /\ ~InHeap(si, d)'
    BY <1>1 DEF Pending
  <1>4. seg_score(si, d) \in Nat
    BY <1>3, SegScoreNat DEF Base, InSegment
  <1>5. \A x : Holds(heap', x) => ~(x.seg = si /\ x.doc = d)
    BY <1>3 DEF InHeap
  <1>6. CASE heap' = heap /\ ~Offered(e)
    <2>1. threshold' = threshold /\ ~InHeap(si, d)
      BY <1>2, <1>5, <1>6 DEF InHeap, threshold
    <2> QED BY <1>3, <1>6, <2>1 DEF Pending
  <1>7. CASE Offered(e)
    <2>1. /\ threshold <= threshold'
          /\ Holds(heap', e) \/ e.score <= threshold'
          /\ \A x : Holds(heap, x) => Holds(heap', x) \/ x.score <= threshold'
      BY <1>2, <1>7, OfferedHolds
    <2>2. seg_score(si, d) > threshold
      BY <1>2, <1>3, <1>4, <2>1
    <2>3. ~InHeap(si, d)
      <3> SUFFICES ASSUME NEW x, Holds(heap, x), x.seg = si, x.doc = d PROVE FALSE
        BY DEF InHeap
      <3>1. x.score <= threshold'
        BY <1>5, <2>1
      <3>2. si # NoSegment
        BY LimitsAssumption, DocIdAssumption DEF Base, QueryInv, InSegment
      <3>3. ~MemScored(x)
        BY <3>2 DEF MemScored, MemtableEntry
      <3>4. SegScored(x)
        BY <3>3 DEF HeapScored
      <3>5. x.score = seg_score(si, d)
        BY <3>4 DEF SegScored, SegmentEntry
      <3> QED BY <1>2, <1>3, <1>4, <3>1, <3>5
    <2>4. e # SegmentEntry(si, d, seg_score(si, d))
      <3> SUFFICES ASSUME e = SegmentEntry(si, d, seg_score(si, d)) PROVE FALSE
        OBVIOUS
      <3>1. e.seg = si /\ e.doc = d /\ e.score = seg_score(si, d)
        BY DEF SegmentEntry
      <3>2. e.score <= threshold'
        BY <1>5, <2>1, <3>1
      <3> QED BY <1>2, <1>3, <1>4, <3>1, <3>2
    <2> QED BY <1>3, <2>2, <2>3, <2>4 DEF Pending
  <1> QED BY <1>6, <1>7

(* The same when nothing was offered. *)
LEMMA PendingSame ==
    ASSUME UNCHANGED <<query, si, lo, hi, heap>>, NEW d
    PROVE  Pending(d)' <=> Pending(d)
  <1>1. seg_matches(si)' = seg_matches(si) /\ seg_score(si, d)' = seg_score(si, d)
    BY FrameQuery
  <1>2. threshold' = threshold
    BY DEF threshold
  <1>3. InHeap(si, d)' <=> InHeap(si, d)
    BY DEF InHeap
  <1> QED BY <1>1, <1>2, <1>3 DEF Pending

(* A pending document has a term, and a score. *)
LEMMA PendingScore ==
    ASSUME QueryInv, InSegment, NEW d, Pending(d)
    PROVE  /\ Matching(d) /\ d \in Nat /\ d < UINT32_MAX /\ \E u : ScoreIs(d, u)
           /\ seg_score(si, d) \in Nat
  <1>1. Matching(d) /\ d \in seg_matches(si)
    BY MatchIs DEF Pending
  <1>2. PICK q \in 1 .. nterms : Hits(q, d)
    BY <1>1 DEF Matching
  <1>3. d \in 0 .. seg.num_docs - 1 /\ seg.num_docs \in Nat /\ seg.num_docs < UINT32_MAX
    BY <1>2, HitsInSegment
  <1>4. d \in Nat /\ d < UINT32_MAX
    BY <1>3, LimitsAssumption, DocIdAssumption
  <1> QED BY <1>1, <1>3, <1>4, ScoreExists, SegScoreNat DEF InSegment

(* The terms do not move: no document is passed. *)
LEMMA PassKept ==
    ASSUME UNCHANGED <<query, si, terms>>, NEW d
    PROVE  NotPassed(d)' <=> NotPassed(d)
  <1>1. \A ts : Cur(ts)' = Cur(ts)
    BY Frame
  <1>2. \A q, x : Hits(q, x)' <=> Hits(q, x)
    BY FramePlaces
  <1>3. nterms' = nterms
    BY FrameQuery
  <1> QED BY <1>1, <1>2, <1>3 DEF NotPassed

(* A term moves, and does not jump over d. *)
LEMMA PassMoved ==
    ASSUME UNCHANGED <<query, si>>, NEW d, NotPassed(d), NEW o, NEW m, NEW target, MovesTo(o, m, target),
           Step(terms, terms', o, m), ~(Hits(terms[o].q, d) /\ ~(Cur(m) <= d))
    PROVE  NotPassed(d)'
  <1>1. \A ts : Cur(ts)' = Cur(ts)
    BY Frame
  <1>2. \A q, x : Hits(q, x)' <=> Hits(q, x)
    BY FramePlaces
  <1>3. nterms' = nterms
    BY FrameQuery
  <1>4. m.q = terms[o].q
    BY DEF MovesTo, Moved
  <1>5. \A j \in 1 .. nterms : Hits(terms'[j].q, d) => Cur(terms'[j]) <= d
    <2> TAKE j \in 1 .. nterms
    <2>1. CASE terms'[j] = m
      BY <1>4, <2>1
    <2>2. CASE \E k \in 1 .. nterms : terms'[j] = terms[k]
      BY <2>2 DEF NotPassed
    <2> QED BY <2>1, <2>2 DEF Step
  <1> QED BY <1>1, <1>2, <1>3, <1>5 DEF NotPassed

(* A term of the sum that is left out makes it smaller. *)
LEMMA TotalLess ==
    ASSUME NEW n \in Nat, NEW m \in 0 .. n, NEW u \in [1 .. n -> Nat], NEW f \in Perms(n), NEW v \in [1 .. m -> Nat],
           \A j \in 1 .. m : v[j] = u[f[j]], ~Vanish(u, f, m, n)
    PROVE  Total(v) < Total(u)
  <1>1. PICK a \in m + 1 .. n : u[f[a]] # 0
    BY DEF Vanish
  <1>2. f \in [1 .. n -> 1 .. n] /\ (\A x, y \in 1 .. n : f[x] = f[y] => x = y) /\ a \in 1 .. n /\ m \in Nat
    BY DEF Perms
  <1>3. PICK w : w = [u EXCEPT ![f[a]] = 0]
    OBVIOUS
  <1>4. w \in [1 .. n -> Nat] /\ Total(w) + u[f[a]] = Total(u)
    <2>1. f[a] \in 1 .. n
      BY <1>2
    <2>a. PICK c \in 1 .. n : c = f[a]
      BY <2>1
    <2>b. PICK x \in Nat : x = 0
      OBVIOUS
    <2>c. Total([u EXCEPT ![c] = x]) + u[c] = Total(u) + x
      BY TotalUpdate
    <2>2. Total([u EXCEPT ![f[a]] = 0]) + u[f[a]] = Total(u) + 0
      BY <2>a, <2>b, <2>c
    <2>3. Total(u) \in Nat
      BY TotalNat
    <2>4. w \in [1 .. n -> Nat]
      BY <1>3, <2>1
    <2> QED BY <1>3, <2>2, <2>3, <2>4
  <1>5. PICK z : z = [j \in 1 .. n |-> w[f[j]]]
    OBVIOUS
  <1>6. z \in [1 .. n -> Nat] /\ Total(z) = Total(w)
    <2>0. z \in [1 .. n -> Nat] /\ \A j \in 1 .. n : z[j] = w[f[j]]
      BY <1>2, <1>4, <1>5
    <2>1. Vanish(w, f, n, n) /\ n \in 0 .. n
      BY DEF Vanish
    <2>2. Total(w) = Total(z)
      BY <1>4, <2>0, <2>1, TotalEqual
    <2> QED BY <2>0, <2>2
  <1>7. PICK y : y = [j \in 1 .. n |-> IF j <= m THEN v[j] ELSE 0]
    OBVIOUS
  <1>8. y \in [1 .. n -> Nat]
    BY <1>2, <1>7
  <1>9. \A j \in 1 .. n : y[j] <= z[j]
    <2> TAKE j \in 1 .. n
    <2>1. CASE j <= m
      <3>0. j \in 1 .. m /\ j # a
        BY <1>2, <2>1
      <3>1. j \in 1 .. m /\ j # a /\ f[j] # f[a] /\ f[j] \in 1 .. n
        BY <1>2, <3>0
      <3>2. z[j] = u[f[j]] /\ y[j] = u[f[j]] /\ u[f[j]] \in Nat
        BY <1>3, <1>5, <1>7, <2>1, <3>1
      <3> QED BY <3>2
    <2>2. CASE ~(j <= m)
      BY <1>6, <1>7, <2>2
    <2> QED BY <2>1, <2>2
  <1>10. Total(y) <= Total(z)
    BY <1>6, <1>8, <1>9, TotalLeq
  <1>11. Total(y) = Total(v)
    <2>1. \A j \in m + 1 .. n : y[j] = 0
      BY <1>2, <1>7
    <2>2. Total(y) = Total(Pre(y, m))
      BY <1>8, <2>1, TotalPrefix
    <2>3. Pre(y, m) = v
      BY <1>2, <1>7 DEF Pre
    <2> QED BY <2>2, <2>3
  <1>12. Total(v) \in Nat /\ Total(w) \in Nat /\ Total(u) \in Nat /\ u[f[a]] \in Nat
    BY <1>2, <1>4, TotalNat
  <1> QED BY <1>1, <1>4, <1>6, <1>10, <1>11, <1>12

(* The pivot document is scored with the terms that stand on it: in full, when no other has passed it. *)
LEMMA PivotScore ==
    ASSUME Seeking, aligned, NEW u, ScoreIs(pivot.doc, u)
    PROVE  /\ NotPassed(pivot.doc) => Vanish(u, TermOrder, pivot.len, nterms)
           /\ Vanish(u, TermOrder, pivot.len, nterms) => score_pivot_document = seg_score(si, pivot.doc)
           /\ ~Vanish(u, TermOrder, pivot.len, nterms) => score_pivot_document < seg_score(si, pivot.doc)
           /\ score_pivot_document \in Nat
  <1>1. /\ Loop /\ nterms \in Nat /\ u \in [1 .. nterms -> Nat] /\ seg_score(si, pivot.doc) = Total(u)
        /\ pivot.len \in 1 .. nterms /\ QueryInv /\ InSegment /\ nterms # 1
        /\ \A j \in 1 .. pivot.len : ~terms[j].fin
    BY DEF Seeking, Loop, ScoreIs
  <1>2. PICK f : f = TermOrder
    OBVIOUS
  <1>3. f \in Perms(nterms) /\ \A j \in 1 .. nterms : f[j] = terms[j].q
    BY <1>1, <1>2, TermOrderPerm
  <1>4. ASSUME NEW j \in 1 .. pivot.len PROVE PivotParts[j] = u[f[j]]
    <2>0. j \in 1 .. nterms
      BY <1>1
    <2>1. Valid(terms[j]) /\ ~terms[j].fin /\ Cur(terms[j]) = pivot.doc
      BY <1>1, <2>0 DEF Loop, aligned, Cur
    <2>2. PICK ts : ts = terms[j]
      OBVIOUS
    <2>3. Place(ts.q, ts.blk, ts.pos) /\ pivot.doc = BlkDoc(ts.q, ts.blk, ts.pos) /\ Hits(ts.q, pivot.doc) /\ ts.q \in 1 .. nterms
      BY <1>1, <2>1, <2>2, CurType DEF Valid, TermState
    <2>4. u[ts.q] = posting_score(ts.q, Block(seg.post[term_of(ts.q)], ts.blk)[ts.pos + 1]) * query_freq(ts.q)
      BY <2>3 DEF ScoreIs
    <2>5. query_freq(ts.q) = query.terms[ts.q].query_freq
      BY <1>1 DEF query_freq
    <2>6. current_posting(ts) = Block(seg.post[term_of(ts.q)], ts.blk)[ts.pos + 1]
      BY DEF current_posting, list, term_of
    <2>7. PivotParts[j] = posting_score(ts.q, current_posting(ts)) * query.terms[ts.q].query_freq
      BY <2>2 DEF PivotParts
    <2> QED BY <1>3, <2>0, <2>2, <2>4, <2>5, <2>6, <2>7
  <1>5. PivotParts \in [1 .. pivot.len -> Nat] /\ score_pivot_document = Total(PivotParts) /\ score_pivot_document \in Nat
    BY PivotScoreNat
  <1>6. pivot.len \in 0 .. nterms
    BY <1>1
  <1>7. ASSUME NotPassed(pivot.doc) PROVE Vanish(u, f, pivot.len, nterms)
    <2> SUFFICES ASSUME NEW j \in pivot.len + 1 .. nterms PROVE u[f[j]] = 0
      BY DEF Vanish
    <2>1. j \in 1 .. nterms /\ Cur(terms[j]) > pivot.doc
      BY <1>1 DEF Seeking
    <2>2. Cur(terms[j]) \in Nat /\ pivot.doc \in Nat /\ terms[j].q \in 1 .. nterms
      BY <1>1, <2>1 DEF Loop, Seeking, Valid, TermState
    <2>3. ~(Cur(terms[j]) <= pivot.doc)
      BY <2>1, <2>2
    <2>4. ~Hits(terms[j].q, pivot.doc)
      BY <1>7, <2>1, <2>3 DEF NotPassed
    <2> QED BY <1>3, <2>1, <2>2, <2>4 DEF ScoreIs
  <1>8. ASSUME Vanish(u, f, pivot.len, nterms) PROVE score_pivot_document = seg_score(si, pivot.doc)
    BY <1>1, <1>3, <1>4, <1>5, <1>6, <1>8, TotalEqual
  <1>9. ASSUME ~Vanish(u, f, pivot.len, nterms) PROVE score_pivot_document < seg_score(si, pivot.doc)
    BY <1>1, <1>3, <1>4, <1>5, <1>6, <1>9, TotalLess
  <1> QED BY <1>2, <1>5, <1>7, <1>8, <1>9

-----------------------------------------------------------------------------
(* The steps of the loop pass no document that can win *)

(* The inductive invariant behind SkippedCannotWin. *)
Sound == Shape /\ HeapSound /\ PassInv /\ SingleInv

(* Entering the loop passes no document that can win. *)
LEMMA PassOpen == Sound /\ Shape' /\ OpenMulti => PassInv'
  <1> SUFFICES ASSUME Sound, Shape', OpenMulti, (BoundsCover /\ InWand)', NEW d, Pending(d)'
               PROVE  (NotPassed(d) /\ (pc = "seek" => pivot.doc <= d) /\ (pc \in {"advance", "reject"} => d # pivot.doc))'
    BY DEF PassInv
  <1>0. Shape
    BY DEF Sound
  <1>1. /\ QueryInv /\ InSegment /\ query' = query
        /\ lo' = tenant_range[1] /\ hi' = tenant_range[2] /\ pc' = "pivot" /\ si' = si /\ Opened(terms')
    BY <1>0, OpenStep DEF LeaveSegment, InWand
  <1>2. lo' <= d /\ d \in seg_matches(si)
    BY <1>1, FrameQuery DEF Pending
  <1>3. Matching(d)
    BY <1>1, <1>2, MatchIs
  <1>4. d \in Nat
    BY <1>1, <1>3, SegOK DEF Matching, WellFormed
  <1>5. \A j \in 1 .. nterms : Hits(terms'[j].q, d) => Cur(terms'[j]) <= d
    <2> TAKE j \in 1 .. nterms
    <2> SUFFICES ASSUME Hits(terms'[j].q, d), ~(Cur(terms'[j]) <= d) PROVE FALSE
      OBVIOUS
    <2>1. PICK ts : ts = terms'[j]
      OBVIOUS
    <2>2. Valid(ts) /\ Moved(tp_segment_posting_iterator_init(ts.q), ts, tenant_range[1])
      BY <1>1, <2>1 DEF Opened, TermsAre
    <2>3. PICK f : f = tp_segment_posting_iterator_init(ts.q)
      OBVIOUS
    <2>4. ts.q \in 1 .. nterms /\ Cur(ts) \in Nat
      BY <1>1, <2>2, CurType DEF Valid, TermState
    <2>5. Valid(f) /\ f.q = ts.q /\ f.found = has_term(seg, term_of(ts.q)) /\ f.fin = ~has_term(seg, term_of(ts.q)) /\ f.blk = 0 /\ f.pos = 0
      BY <1>1, <2>3, <2>4, FreshValid
    <2>6. has_term(seg, term_of(ts.q)) /\ Hits(ts.q, d)
      BY <2>1 DEF Hits
    <2>7. ~f.fin
      BY <2>5, <2>6
    <2>8. PlacesOK(ts.q) /\ Place(ts.q, 0, 0) /\ Cur(f) = BlkDoc(ts.q, 0, 0) /\ Cur(f) \in Nat
      BY <1>1, <2>5, <2>7, CurType
    <2>9. PICK b, x : Place(ts.q, b, x) /\ BlkDoc(ts.q, b, x) = d
      BY <2>6 DEF Hits
    <2>10. Cur(f) <= d
      <3>1. b \in 0 .. Blks(ts.q) - 1 /\ x \in 0 .. BlkLen(ts.q, b) - 1
        BY <2>9 DEF Place
      <3>2. Blks(ts.q) \in Nat /\ BlkLen(ts.q, b) \in Nat
        BY <2>8, <3>1 DEF PlacesOK
      <3>3. (b = 0 /\ x = 0) \/ 0 < b \/ (0 = b /\ 0 < x)
        BY <3>1, <3>2
      <3>4. CASE b = 0 /\ x = 0
        BY <2>8, <2>9, <3>4
      <3>5. CASE 0 < b \/ (0 = b /\ 0 < x)
        <4>1. BlkDoc(ts.q, 0, 0) < BlkDoc(ts.q, b, x)
          BY <2>8, <2>9, <3>5 DEF PlacesOK
        <4> QED BY <1>4, <2>8, <2>9, <4>1
      <3> QED BY <3>3, <3>4, <3>5
    <2>11. d < Cur(ts)
      BY <1>4, <2>1, <2>4
    <2>12. d < tenant_range[1]
      BY <1>4, <2>2, <2>3, <2>5, <2>6, <2>10, <2>11 DEF Moved
    <2>13. tenant_range[1] \in Nat
      BY <1>0, <1>1, OpenStep, TenantRange
    <2> QED BY <1>1, <1>2, <1>4, <2>12, <2>13
  <1>6. \A ts : Cur(ts)' = Cur(ts)
    BY <1>1, Frame
  <1>7. \A q, x : Hits(q, x)' <=> Hits(q, x)
    BY <1>1, FramePlaces
  <1>8. nterms' = nterms
    BY <1>1, FrameQuery
  <1>9. NotPassed(d)'
    BY <1>5, <1>6, <1>7, <1>8 DEF NotPassed
  <1> QED BY <1>1, <1>9

(* A pending document, in the loop. *)
LEMMA PendingInLoop ==
    ASSUME Sound, InWand, BoundsCover, NEW d, Pending(d)
    PROVE  /\ NotPassed(d) /\ d \in Nat /\ d < UINT32_MAX /\ Matching(d) /\ Loop /\ Base
           /\ pc = "seek" => pivot.doc <= d
           /\ pc \in {"advance", "reject"} => d # pivot.doc
           /\ lo <= d /\ d <= hi /\ ~(seg_score(si, d) <= threshold) /\ seg_score(si, d) \in Nat /\ threshold \in Nat
           /\ \E u : ScoreIs(d, u)
  <1>1. Loop /\ QueryInv /\ InSegment /\ Base
    BY InLoop DEF Sound, Loop, Shape
  <1>2. Matching(d) /\ d \in Nat /\ d < UINT32_MAX /\ (\E u : ScoreIs(d, u)) /\ seg_score(si, d) \in Nat
    BY <1>1, PendingScore
  <1>3. threshold \in Nat
    BY <1>1, ThresholdNat
  <1>4. lo <= d /\ d <= hi /\ ~(seg_score(si, d) <= threshold)
    BY <1>2, <1>3 DEF Pending
  <1> QED BY <1>1, <1>2, <1>3, <1>4 DEF Sound, PassInv

(* Choosing a pivot passes none: the terms in front of it cannot reach the threshold by
   themselves. *)
LEMMA PassPivot == Sound /\ Shape' /\ FindPivot => PassInv'
  <1> SUFFICES ASSUME Sound, Shape', FindPivot, (BoundsCover /\ InWand)', NEW d, Pending(d)'
               PROVE  (NotPassed(d) /\ (pc = "seek" => pivot.doc <= d) /\ (pc \in {"advance", "reject"} => d # pivot.doc))'
    BY DEF PassInv
  <1>1. /\ pc = "pivot" /\ pivot_found /\ pivot' = find_wand_pivot /\ i' = 1 /\ pc' = "seek"
        /\ UNCHANGED <<query, todo, heap, si, lo, hi, block, terms, active, result>>
    BY DEF FindPivot
  <1>2. Pending(d) /\ BoundsCover /\ InWand
    BY <1>1, PendingSame, FrameQuery DEF InWand
  <1>3. NotPassed(d) /\ d \in Nat /\ Loop /\ Base /\ ~(seg_score(si, d) <= threshold) /\ \E u : ScoreIs(d, u)
    BY <1>2, PendingInLoop
  <1>4. PICK n : PivotIs(n, pivot')
    BY <1>1, <1>3, PivotFound DEF pivot_found
  <1>5. ~(d < pivot'.doc)
    BY <1>2, <1>3, <1>4, BeforePivot
  <1>6. pivot'.doc <= d
    BY <1>3, <1>4, <1>5 DEF PivotIs
  <1>7. NotPassed(d)'
    BY <1>1, <1>3, PassKept
  <1> QED BY <1>1, <1>6, <1>7

(* Nor does a seek to the pivot. *)
LEMMA PassSeek == Sound /\ Shape' /\ SeekTerm => PassInv'
  <1> SUFFICES ASSUME Sound, Shape', SeekTerm, (BoundsCover /\ InWand)', NEW d, Pending(d)'
               PROVE  (NotPassed(d) /\ (pc = "seek" => pivot.doc <= d) /\ (pc \in {"advance", "reject"} => d # pivot.doc))'
    BY DEF PassInv
  <1>0. Shape
    BY DEF Sound
  <1>1. /\ Seeking /\ i \in 1 .. pivot.len /\ i \in 1 .. nterms
        /\ UNCHANGED <<query, todo, heap, si, lo, hi, block, pivot, result>>
    BY <1>0, SeekStep
  <1>2. Pending(d) /\ BoundsCover /\ InWand /\ pc = "seek"
    BY <1>1, PendingSame, FrameQuery DEF InWand, Seeking
  <1>3. NotPassed(d) /\ d \in Nat /\ pivot.doc <= d /\ pivot.doc \in Nat /\ Loop
    BY <1>1, <1>2, PendingInLoop DEF Seeking
  <1>4. CASE Cur(terms[i]) >= pivot.doc /\ i' = i + 1 /\ UNCHANGED <<terms, active, pc>>
    BY <1>1, <1>2, <1>3, <1>4, PassKept
  <1>5. CASE /\ Cur(terms[i]) < pivot.doc /\ MovesTo(i, seek_term_to_doc(terms[i], pivot.doc), pivot.doc)
             /\ pc' = (IF seek_term_to_doc(terms[i], pivot.doc).fin THEN "pivot" ELSE "seek") /\ i' = i
    <2>1. PICK m : m = seek_term_to_doc(terms[i], pivot.doc)
      OBVIOUS
    <2>2. MovesTo(i, m, pivot.doc)
      BY <1>5, <2>1
    <2>3. i' \in 0 .. nterms + 1 /\ pivot'.len \in 0 .. nterms /\ pc' \in {"pivot", "seek", "advance", "reject"}
      BY <1>1, <1>5 DEF Seeking, Loop
    <2>4. Step(terms, terms', i, m)
      BY <1>0, <1>1, <1>2, <2>2, <2>3, LoopMoves
    <2>5. ~(Hits(terms[i].q, d) /\ ~(Cur(m) <= d))
      <3> SUFFICES ASSUME Hits(terms[i].q, d), ~(Cur(m) <= d) PROVE FALSE
        OBVIOUS
      <3>1. Moved(terms[i], m, pivot.doc) /\ QueryInv /\ InSegment
        BY <1>3, <2>2 DEF MovesTo, Loop
      <3>2. Cur(m) \in Nat
        BY <3>1, CurType DEF Moved
      <3>3. Cur(terms[i]) <= d
        BY <1>1, <1>3 DEF NotPassed
      <3>4. d < Cur(m)
        BY <1>3, <3>2
      <3>5. d < pivot.doc
        BY <1>3, <3>1, <3>3, <3>4 DEF Moved
      <3> QED BY <1>3, <3>5
    <2>6. NotPassed(d)'
      BY <1>1, <1>3, <2>2, <2>4, <2>5, PassMoved
    <2> QED BY <1>1, <1>3, <1>5, <2>6
  <1> QED BY <1>0, <1>4, <1>5, SeekStep

(* Nor does a block skip: up to the target the bounds of the current blocks bound the
   score. *)
LEMMA PassSkip == Sound /\ Shape' /\ SkipBlocks => PassInv'
  <1> SUFFICES ASSUME Sound, Shape', SkipBlocks, (BoundsCover /\ InWand)', NEW d, Pending(d)'
               PROVE  (NotPassed(d) /\ (pc = "seek" => pivot.doc <= d) /\ (pc \in {"advance", "reject"} => d # pivot.doc))'
    BY DEF PassInv
  <1>0. Shape
    BY DEF Sound
  <1>1. /\ Seeking /\ best_scorer \in 1 .. pivot.len
        /\ MovesTo(best_scorer, seek_term_to_doc(terms[best_scorer], SkipTarget), SkipTarget)
        /\ pc' = "pivot" /\ UNCHANGED <<query, todo, heap, si, lo, hi, block, pivot, i, result>>
        /\ block_upper <= threshold
    BY <1>0, SkipStep
  <1>2. Pending(d) /\ BoundsCover /\ InWand
    BY <1>1, PendingSame, FrameQuery DEF InWand, Seeking
  <1>3. NotPassed(d) /\ d \in Nat /\ Loop /\ Base /\ ~(seg_score(si, d) <= threshold) /\ \E u : ScoreIs(d, u)
    BY <1>2, PendingInLoop
  <1>4. PICK o : o = best_scorer
    OBVIOUS
  <1>5. PICK m : m = seek_term_to_doc(terms[o], SkipTarget)
    OBVIOUS
  <1>6. MovesTo(o, m, SkipTarget) /\ o \in 1 .. nterms
    BY <1>1, <1>4, <1>5 DEF MovesTo
  <1>7. Step(terms, terms', o, m)
    <2>1. i' \in 0 .. nterms + 1 /\ pivot'.len \in 0 .. nterms
      BY <1>1 DEF Seeking, Loop
    <2> QED BY <1>0, <1>1, <1>2, <1>6, <2>1, LoopMoves
  <1>8. ~(Hits(terms[o].q, d) /\ ~(Cur(m) <= d))
    <2> SUFFICES ASSUME Hits(terms[o].q, d), ~(Cur(m) <= d) PROVE FALSE
      OBVIOUS
    <2>1. Moved(terms[o], m, SkipTarget) /\ QueryInv /\ InSegment
      BY <1>3, <1>6 DEF MovesTo, Loop
    <2>2. Cur(m) \in Nat
      BY <2>1, CurType DEF Moved
    <2>3. Cur(terms[o]) <= d
      BY <1>3, <1>6 DEF NotPassed
    <2>4. d < Cur(m)
      BY <1>3, <2>2
    <2>5. d < SkipTarget
      BY <1>3, <2>1, <2>3, <2>4 DEF Moved
    <2> QED BY <1>1, <1>2, <1>3, <2>5, InSkippedBlocks
  <1>9. NotPassed(d)'
    BY <1>1, <1>3, <1>6, <1>7, <1>8, PassMoved
  <1> QED BY <1>1, <1>9

(* Nor does starting the next round. *)
LEMMA PassRealign == Sound /\ Shape' /\ (Realign \/ LoopAgain \/ UNCHANGED vars) => PassInv'
  <1> SUFFICES ASSUME Sound, Shape', Realign \/ LoopAgain \/ UNCHANGED vars, (BoundsCover /\ InWand)', NEW d, Pending(d)'
               PROVE  (NotPassed(d) /\ (pc = "seek" => pivot.doc <= d) /\ (pc \in {"advance", "reject"} => d # pivot.doc))'
    BY DEF PassInv
  <1>1. UNCHANGED <<query, heap, si, lo, hi, terms, pivot>> /\ (pc' = "pivot" \/ pc' = pc) /\ (pc' = "pivot" => InWand)
    BY DEF Realign, LoopAgain, vars, Seeked, InWand
  <1>2. Pending(d) /\ BoundsCover /\ InWand
    BY <1>1, PendingSame, FrameQuery DEF InWand
  <1>3. NotPassed(d)'
    BY <1>1, <1>2, PendingInLoop, PassKept
  <1> QED BY <1>1, <1>2, <1>3, PendingInLoop

(* A pivot document of another tenant does not match. *)
LEMMA PassReject == Sound /\ Shape' /\ WrongTenant => PassInv'
  <1> SUFFICES ASSUME Sound, Shape', WrongTenant, (BoundsCover /\ InWand)', NEW d, Pending(d)'
               PROVE  (NotPassed(d) /\ (pc = "seek" => pivot.doc <= d) /\ (pc \in {"advance", "reject"} => d # pivot.doc))'
    BY DEF PassInv
  <1>1. UNCHANGED <<query, heap, si, lo, hi, terms, pivot>> /\ pc' = "reject" /\ InWand /\ tenant_rejects(pivot.doc)
    BY DEF WrongTenant, Seeked, InWand
  <1>2. Pending(d) /\ BoundsCover
    BY <1>1, PendingSame, FrameQuery
  <1>3. NotPassed(d)'
    BY <1>1, <1>2, PendingInLoop, PassKept
  <1>4. QueryInv /\ InSegment /\ d \in seg_matches(si)
    BY <1>1, <1>2, InLoop DEF Sound, Loop, Pending
  <1>5. ~tenant_rejects(d)
    BY <1>4, MatchNotRejected
  <1> QED BY <1>1, <1>3, <1>5

(* A term that leaves the pivot document passes no other. *)
LEMMA PassTurn == Sound /\ Shape' /\ (AdvanceTerm \/ RejectTerm) => PassInv'
  <1> SUFFICES ASSUME Sound, Shape', AdvanceTerm \/ RejectTerm, (BoundsCover /\ InWand)', NEW d, Pending(d)'
               PROVE  (NotPassed(d) /\ (pc = "seek" => pivot.doc <= d) /\ (pc \in {"advance", "reject"} => d # pivot.doc))'
    BY DEF PassInv
  <1>0. Shape
    BY DEF Sound
  <1>1. /\ Leaving /\ i \in 1 .. nterms /\ i' = i - 1
        /\ UNCHANGED <<query, todo, heap, si, lo, hi, block, pivot, pc, result>>
    BY <1>0, LeaveStep
  <1>2. Pending(d) /\ BoundsCover /\ InWand
    BY <1>1, PendingSame, FrameQuery DEF InWand, Leaving
  <1>3. NotPassed(d) /\ d \in Nat /\ d # pivot.doc /\ Loop /\ pivot.doc \in Nat /\ d \in seg_matches(si)
    BY <1>1, <1>2, PendingInLoop DEF Leaving, Pending
  <1>4. CASE Cur(terms[i]) # pivot.doc /\ UNCHANGED <<terms, active>>
    BY <1>1, <1>3, <1>4, PassKept DEF Leaving
  <1>5. CASE Cur(terms[i]) = pivot.doc /\ \E m, target : Leaves(m, target)
    <2>1. PICK m, target : Leaves(m, target)
      BY <1>5
    <2>2. MovesTo(i, m, target) /\ target \in Nat
      BY <2>1 DEF Leaves
    <2>3. i' \in 0 .. nterms + 1 /\ pivot'.len \in 0 .. nterms /\ pc' \in {"pivot", "seek", "advance", "reject"}
      BY <1>1 DEF Leaving, Loop
    <2>4. Step(terms, terms', i, m)
      BY <1>0, <1>1, <1>2, <2>2, <2>3, LoopMoves
    <2>5. ~(Hits(terms[i].q, d) /\ ~(Cur(m) <= d))
      <3> SUFFICES ASSUME Hits(terms[i].q, d), ~(Cur(m) <= d) PROVE FALSE
        OBVIOUS
      <3>1. Moved(terms[i], m, target) /\ QueryInv /\ InSegment /\ Valid(terms[i]) /\ ~terms[i].fin
        BY <1>1, <1>3, <2>2 DEF MovesTo, Loop
      <3>2. Cur(m) \in Nat
        BY <3>1, CurType DEF Moved
      <3>3. Cur(terms[i]) <= d
        BY <1>1, <1>3 DEF NotPassed
      <3>4. d < Cur(m)
        BY <1>3, <3>2
      <3>5. d < target
        BY <1>3, <3>1, <3>3, <3>4 DEF Moved
      <3>6. CASE target = pivot.doc + 1
        BY <1>3, <1>5, <3>3, <3>5, <3>6
      <3>7. CASE /\ wrong_tenant_block(skip(terms[i])[terms[i].blk + 1])
                 /\ target = BlkLast(terms[i].q, terms[i].blk) + 1
        <4>1. PICK ts : ts = terms[i]
          OBVIOUS
        <4>2. PlacesOK(ts.q) /\ Place(ts.q, ts.blk, ts.pos)
          BY <3>1, <4>1, CurType
        <4>3. BlkLast(ts.q, ts.blk) \in Nat
          BY <4>2 DEF PlacesOK, Place
        <4>4. d <= BlkLast(ts.q, ts.blk)
          BY <1>3, <3>5, <3>7, <4>1, <4>3
        <4>5. PICK x : Place(ts.q, ts.blk, x) /\ BlkDoc(ts.q, ts.blk, x) = d
          BY <1>3, <3>1, <3>3, <4>1, <4>4, InBlock
        <4>6. has_term(seg, term_of(ts.q)) /\ ts.q \in 1 .. nterms
          BY <3>1, <4>1 DEF Hits, Valid, TermState
        <4>7. wrong_tenant_block(seg.skip[term_of(ts.q)][ts.blk + 1])
          BY <3>7, <4>1 DEF skip, term_of
        <4> QED BY <1>3, <3>1, <4>5, <4>6, <4>7, WrongBlock
      <3> QED BY <2>1, <3>6, <3>7 DEF Leaves
    <2>6. NotPassed(d)'
      BY <1>1, <1>3, <2>2, <2>4, <2>5, PassMoved
    <2> QED BY <1>1, <1>3, <2>6 DEF Leaving
  <1> QED BY <1>0, <1>4, <1>5, LeaveStep

(* What happens to the pivot document: it enters the heap with its full score, or it cannot win. *)
LEMMA ScoreStep ==
    ASSUME Sound, ScorePivot, BoundsCover
    PROVE  /\ Seeking /\ aligned /\ pivot.doc \in seg_matches(si)
           /\ pc' = "advance" /\ UNCHANGED <<query, todo, si, lo, hi, block, terms, active, pivot, result>>
           /\ \A x : Holds(heap, x) /\ x.seg = si => SegScored(x) /\ x.doc \in Nat /\ x.doc < pivot.doc
           /\ \/ heap' = heap /\ ~Pending(pivot.doc)
              \/ Offered(SegmentEntry(si, pivot.doc, seg_score(si, pivot.doc)))
  <1>0. Shape /\ HeapSound /\ PassInv
    BY DEF Sound
  <1>1. /\ pc = "seek" /\ aligned /\ ~tenant_rejects(pivot.doc)
        /\ pc' = "advance" /\ UNCHANGED <<query, todo, si, lo, hi, block, terms, active, pivot, result>>
    BY DEF ScorePivot, Seeked
  <1>2. Seeking /\ InWand /\ Base
    BY <1>0, <1>1, InSeek DEF InWand, Shape
  <1>3. /\ QueryInv /\ InSegment /\ pivot.len \in 1 .. nterms /\ nterms \in Nat /\ pivot.doc \in Nat
        /\ lo <= pivot.doc /\ pivot.doc <= hi /\ 1 \in 1 .. pivot.len /\ 1 \in 1 .. nterms /\ threshold \in Nat
    BY <1>2, ThresholdNat DEF Seeking, Loop
  <1>4. Valid(terms[1]) /\ ~terms[1].fin /\ Cur(terms[1]) = pivot.doc
    BY <1>1, <1>2, <1>3 DEF Seeking, Loop, aligned, Cur
  <1>5. terms[1].q \in 1 .. nterms /\ Hits(terms[1].q, pivot.doc)
    BY <1>3, <1>4, CurType DEF Valid, TermState
  <1>6. pivot.doc \in seg_matches(si)
    <2>1. tenant_range # << >> /\ lo = tenant_range[1] /\ hi = tenant_range[2]
      BY <1>0, <1>1 DEF Shape, RangeState, Working
    <2> QED BY <1>1, <1>3, <1>5, <2>1, NotRejectedMatch
  <1>7. PICK u : ScoreIs(pivot.doc, u)
    BY <1>3, <1>5, HitsInSegment, ScoreExists
  <1>8. PICK s : s = score_pivot_document
    OBVIOUS
  <1>9. PICK full : full = seg_score(si, pivot.doc)
    OBVIOUS
  <1>10. s \in Nat /\ full \in Nat
    BY <1>1, <1>2, <1>3, <1>6, <1>7, <1>8, <1>9, PivotScore, SegScoreNat DEF InSegment
  <1>11. \A x : Holds(heap, x) /\ x.seg = si => SegScored(x) /\ x.doc \in Nat /\ x.doc < pivot.doc
    <2> SUFFICES ASSUME NEW x, Holds(heap, x), x.seg = si PROVE SegScored(x) /\ x.doc \in Nat /\ x.doc < pivot.doc
      OBVIOUS
    <2>1. si # NoSegment
      BY <1>3, LimitsAssumption, DocIdAssumption DEF QueryInv, InSegment
    <2>2. ~MemScored(x)
      BY <2>1 DEF MemScored, MemtableEntry
    <2>3. SegScored(x) /\ Behind(x)
      BY <1>0, <2>2 DEF HeapSound, HeapScored
    <2>4. Cur(terms[1]) > x.doc
      BY <1>1, <1>3, <2>3 DEF Behind
    <2>5. x.doc \in seg_matches(si)
      BY <2>3 DEF SegScored
    <2>6. x.doc \in Nat
      BY <1>3, <2>5, MatchIs, SegOK DEF Matching, WellFormed
    <2> QED BY <1>3, <1>4, <2>3, <2>4, <2>6
  <1>12. ~InHeap(si, pivot.doc)
    <2> SUFFICES ASSUME NEW x, Holds(heap, x), x.seg = si, x.doc = pivot.doc PROVE FALSE
      BY DEF InHeap
    <2>1. x.doc < pivot.doc
      BY <1>11
    <2> QED BY <1>3, <2>1
  <1>13. CASE Vanish(u, TermOrder, pivot.len, nterms)
    <2>1. s = full
      BY <1>1, <1>2, <1>7, <1>8, <1>9, <1>13, PivotScore
    <2>2. CASE s > 0 /\ ~tp_topk_dominated(heap, query.k, s)
      <3>1. heap' = tp_topk_add(heap, query.k, SegmentEntry(si, pivot.doc, s))
        BY <1>8, <2>2 DEF ScorePivot
      <3>2. SegmentEntry(si, pivot.doc, s) \in Entry
        BY <1>3, <1>10, SegEntry DEF InSegment
      <3>3. Offered(SegmentEntry(si, pivot.doc, s))
        BY <1>2, <3>1, <3>2, HeapKept DEF Offered
      <3> QED BY <1>1, <1>2, <1>6, <1>9, <1>11, <2>1, <3>3
    <2>3. CASE ~(s > 0 /\ ~tp_topk_dominated(heap, query.k, s))
      <3>1. heap' = heap
        BY <1>8, <2>3 DEF ScorePivot
      <3>2. ~(s > threshold)
        <4>1. CASE ~(s > 0)
          BY <1>3, <1>10, <4>1
        <4>2. CASE tp_topk_dominated(heap, query.k, s)
          <5>1. s < threshold
            BY <4>2 DEF tp_topk_dominated, threshold, tp_topk_threshold
          <5> QED BY <1>3, <1>10, <5>1
        <4> QED BY <2>3, <4>1, <4>2
      <3>3. ~Pending(pivot.doc)
        BY <1>9, <2>1, <3>2 DEF Pending
      <3> QED BY <1>1, <1>2, <1>6, <1>11, <3>1, <3>3
    <2> QED BY <2>2, <2>3
  <1>14. CASE ~Vanish(u, TermOrder, pivot.len, nterms)
    <2>1. s < full /\ ~NotPassed(pivot.doc)
      BY <1>1, <1>2, <1>7, <1>8, <1>9, <1>14, PivotScore
    <2>2. ~Pending(pivot.doc)
      BY <1>0, <1>2, <2>1 DEF PassInv
    <2>3. ~(full > threshold)
      BY <1>3, <1>6, <1>9, <1>12, <2>2 DEF Pending
    <2>4. s < threshold
      BY <1>3, <1>10, <2>1, <2>3
    <2>5. tp_topk_dominated(heap, query.k, s)
      <3>1. threshold # 0
        BY <1>10, <2>4
      <3> QED BY <2>4, <3>1 DEF tp_topk_dominated, threshold, tp_topk_threshold
    <2>6. heap' = heap
      BY <1>8, <2>5 DEF ScorePivot
    <2> QED BY <1>1, <1>2, <1>6, <1>11, <2>2, <2>6
  <1> QED BY <1>13, <1>14

(* After it is scored the pivot document is in the heap or not above the threshold. *)
LEMMA PassScore == Sound /\ Shape' /\ ScorePivot => PassInv'
  <1> SUFFICES ASSUME Sound, Shape', ScorePivot, (BoundsCover /\ InWand)', NEW d, Pending(d)'
               PROVE  (NotPassed(d) /\ (pc = "seek" => pivot.doc <= d) /\ (pc \in {"advance", "reject"} => d # pivot.doc))'
    BY DEF PassInv
  <1>0. Shape /\ HeapSound /\ query' = query
    BY DEF Sound, ScorePivot
  <1>1. BoundsCover
    BY <1>0, FrameQuery
  <1>2. /\ Seeking /\ pc' = "advance" /\ UNCHANGED <<query, todo, si, lo, hi, block, terms, active, pivot, result>>
        /\ \/ heap' = heap /\ ~Pending(pivot.doc)
           \/ Offered(SegmentEntry(si, pivot.doc, seg_score(si, pivot.doc)))
    BY <1>1, ScoreStep
  <1>3. PICK e : e = SegmentEntry(si, pivot.doc, seg_score(si, pivot.doc))
    OBVIOUS
  <1>4. Base /\ Base' /\ InSegment /\ HeapScored /\ InWand /\ pc = "seek"
    BY <1>0, <1>1, <1>2 DEF Shape, HeapSound, Seeking, Loop, InWand
  <1>5. heap' = heap \/ Offered(e)
    BY <1>2, <1>3
  <1>6. Pending(d) /\ ~(Offered(e) /\ e = SegmentEntry(si, d, seg_score(si, d)))
    BY <1>2, <1>4, <1>5, PendingShrinks
  <1>7. d # pivot.doc
    BY <1>2, <1>3, <1>6
  <1>8. NotPassed(d)'
    BY <1>1, <1>2, <1>4, <1>6, PendingInLoop, PassKept
  <1> QED BY <1>2, <1>7, <1>8

-----------------------------------------------------------------------------
(* The heap stays sound *)

(* A result once scored stays the result of that document. *)
LEMMA ScoredKept ==
    ASSUME query' = query, todo' \subseteq todo, si \in Nat, si' \in Nat, si <= si', QueryInv, NEW e
    PROVE  (MemScored(e) => MemScored(e)') /\ (SegScored(e) => SegScored(e)')
  <1>1. mem_matches' = mem_matches
    BY FrameQuery
  <1>2. \A d : mem_score(d)' = mem_score(d)
    BY FrameQuery
  <1>3. \A n : seg_matches(n)' = seg_matches(n)
    BY FrameQuery
  <1>4. \A n, d : seg_score(n, d)' = seg_score(n, d)
    BY FrameQuery
  <1>5. MemScored(e) => MemScored(e)'
    BY <1>1, <1>2 DEF MemScored
  <1>6. SegScored(e) => SegScored(e)'
    <2> SUFFICES ASSUME SegScored(e) PROVE SegScored(e)'
      OBVIOUS
    <2>1. e.seg <= si' /\ Len(query.segs) \in Nat
      BY DEF SegScored, QueryInv
    <2> QED BY <1>3, <1>4, <2>1 DEF SegScored
  <1> QED BY <1>5, <1>6

(* Steps that leave the heap alone. *)
LEMMA HeapKeeps ==
    ASSUME Sound, query' = query, todo' \subseteq todo, heap' = heap, si' \in Nat, si <= si',
           \A e : Holds(heap, e) /\ SegScored(e) /\ Behind(e) => Behind(e)'
    PROVE  HeapSound'
  <1> SUFFICES ASSUME BoundsCover' PROVE HeapScored' /\ Distinct(heap)'
    BY DEF HeapSound
  <1>1. BoundsCover
    BY FrameQuery
  <1>2. HeapScored /\ Distinct(heap) /\ QueryInv /\ si \in Nat
    BY <1>1 DEF Sound, HeapSound, Shape, Base
  <1>3. HeapScored'
    <2> SUFFICES ASSUME NEW e, Holds(heap', e) PROVE MemScored(e)' \/ (SegScored(e)' /\ Behind(e)')
      BY DEF HeapScored
    <2>1. Holds(heap, e)
      OBVIOUS
    <2>2. MemScored(e) \/ (SegScored(e) /\ Behind(e))
      BY <1>2, <2>1 DEF HeapScored
    <2> QED BY <1>2, <2>1, <2>2, ScoredKept
  <1> QED BY <1>2, <1>3

(* A step that offers a result. *)
LEMMA HeapGrows ==
    ASSUME Sound, query' = query, todo' \subseteq todo, si' = si, NEW e, Offered(e), ~Holds(heap, e),
           MemScored(e)' \/ (SegScored(e)' /\ Behind(e)'),
           \A x : Holds(heap, x) /\ SegScored(x) /\ Behind(x) => Behind(x)'
    PROVE  HeapSound'
  <1> SUFFICES ASSUME BoundsCover' PROVE HeapScored' /\ Distinct(heap)'
    BY DEF HeapSound
  <1>1. BoundsCover
    BY FrameQuery
  <1>2. HeapScored /\ Distinct(heap) /\ QueryInv /\ si \in Nat /\ si' \in Nat /\ si <= si'
    BY <1>1 DEF Sound, HeapSound, Shape, Base
  <1>3. HeapScored'
    <2> SUFFICES ASSUME NEW x, Holds(heap', x) PROVE MemScored(x)' \/ (SegScored(x)' /\ Behind(x)')
      BY DEF HeapScored
    <2>1. CASE x = e
      BY <2>1
    <2>2. CASE Holds(heap, x)
      <3>1. MemScored(x) \/ (SegScored(x) /\ Behind(x))
        BY <1>2, <2>2 DEF HeapScored
      <3> QED BY <1>2, <2>2, <3>1, ScoredKept
    <2> QED BY <2>1, <2>2, OfferedHolds
  <1>4. Distinct(heap')
    BY <1>2, OfferedHolds
  <1> QED BY <1>3, <1>4

(* Leaving a segment keeps HeapSound. *)
LEMMA HeapLeave ==
    ASSUME Sound, LeaveSegment, UNCHANGED <<query, todo, heap>>
    PROVE  HeapSound'
  <1>1. si' = si + 1 /\ pc' = "segment" /\ si \in Nat /\ Len(query.segs) \in Nat
    BY DEF LeaveSegment, Sound, Shape, Base, QueryInv
  <1>2. ASSUME NEW e, SegScored(e) PROVE Behind(e)'
    <2>1. e.seg \in Nat /\ e.seg <= si
      BY <1>1, <1>2 DEF SegScored
    <2> QED BY <1>1, <2>1 DEF Behind
  <1> QED BY <1>1, <1>2, HeapKeeps

(* Entering one keeps it. *)
LEMMA HeapOpen == Sound /\ (MemtableDone \/ SkipSegment \/ OpenSingle \/ OpenMulti) => HeapSound'
  <1> SUFFICES ASSUME Sound, MemtableDone \/ SkipSegment \/ OpenSingle \/ OpenMulti PROVE HeapSound'
    OBVIOUS
  <1>a. si \in Nat /\ Len(query.segs) \in Nat
    BY DEF Sound, Shape, Base, QueryInv
  <1>b. pc \in {"memtable", "segment"} /\ UNCHANGED <<query, todo, heap>>
    BY DEF MemtableDone, SkipSegment, OpenSingle, OpenMulti
  <1>c. LeaveSegment \/ si' = si
    <2>1. CASE MemtableDone \/ SkipSegment
      BY <2>1 DEF MemtableDone, SkipSegment
    <2>2. CASE OpenSingle
      BY <2>2 DEF OpenSingle
    <2>3. CASE OpenMulti
      BY <2>3 DEF OpenMulti
    <2> QED BY <2>1, <2>2, <2>3
  <1>1. pc \in {"memtable", "segment"} /\ UNCHANGED <<query, todo, heap>> /\ (LeaveSegment \/ si' = si)
        /\ si \in Nat /\ Len(query.segs) \in Nat
    BY <1>a, <1>b, <1>c
  <1>2. CASE LeaveSegment
    BY <1>1, <1>2, HeapLeave
  <1>3. CASE si' = si
    <2>1. ASSUME NEW e, SegScored(e), Behind(e) PROVE Behind(e)'
      <3>1. e.seg < si /\ e.seg \in Nat
        BY <1>1, <2>1 DEF Behind, SegScored
      <3> QED BY <1>1, <1>3, <3>1 DEF Behind
    <2> QED BY <1>1, <1>3, <2>1, HeapKeeps
  <1> QED BY <1>1, <1>2, <1>3

(* Steps of the WAND loop: the terms only move forward. *)
Forward == \A j \in 1 .. nterms : \E k \in 1 .. nterms : Cur(terms[k]) <= Cur(terms'[j]) /\ Cur(terms'[j]) \in Nat

(* A moved term moves forward. *)
LEMMA ForwardMoves ==
    ASSUME Loop, NEW o, NEW m, NEW target, MovesTo(o, m, target), Step(terms, terms', o, m)
    PROVE  Forward
  <1> SUFFICES ASSUME NEW j \in 1 .. nterms PROVE \E k \in 1 .. nterms : Cur(terms[k]) <= Cur(terms'[j]) /\ Cur(terms'[j]) \in Nat
    BY DEF Forward
  <1>1. CASE terms'[j] = m
    <2>1. o \in 1 .. nterms /\ Moved(terms[o], m, target) /\ QueryInv /\ InSegment
      BY DEF MovesTo, Loop
    <2>2. Cur(terms[o]) <= Cur(m) /\ Cur(m) \in Nat
      BY <2>1, CurType DEF Moved
    <2> QED BY <1>1, <2>1, <2>2
  <1>2. CASE \E k \in 1 .. nterms : terms'[j] = terms[k]
    BY <1>2 DEF Loop
  <1> QED BY <1>1, <1>2 DEF Step

(* The loop does not come back to a document that is in the heap. *)
LEMMA HeapWand ==
    ASSUME Sound, UNCHANGED <<query, todo, heap, si>>, pc \in {"pivot", "seek"}, pc' \in {"pivot", "seek"}, Forward
    PROVE  HeapSound'
  <1>1. Loop /\ QueryInv /\ InSegment /\ si \in Nat
    BY InLoop DEF Sound, InWand, Loop, InSegment
  <1>2. ASSUME NEW e, SegScored(e), Behind(e) PROVE Behind(e)'
    <2> SUFFICES ASSUME e.seg = si PROVE (\A j \in 1 .. nterms : Cur(terms[j]) > e.doc)'
      BY DEF Behind
    <2>1. \A j \in 1 .. nterms : Cur(terms[j]) > e.doc /\ Cur(terms[j]) \in Nat
      BY <1>1, <1>2 DEF Behind, Loop
    <2>2. e.doc \in Nat
      <3>1. e.doc \in seg_matches(si)
        BY <1>2 DEF SegScored
      <3> QED BY <1>1, <3>1, MatchIs, SegOK DEF Matching, WellFormed
    <2>3. \A j \in 1 .. nterms : Cur(terms'[j]) > e.doc
      <3> TAKE j \in 1 .. nterms
      <3>1. PICK k \in 1 .. nterms : Cur(terms[k]) <= Cur(terms'[j]) /\ Cur(terms'[j]) \in Nat
        BY DEF Forward
      <3> QED BY <2>1, <2>2, <3>1
    <2>4. \A ts : Cur(ts)' = Cur(ts)
      BY Frame
    <2>5. nterms' = nterms
      BY Frame
    <2> QED BY <2>3, <2>4, <2>5
  <1> QED BY <1>1, <1>2, HeapKeeps

(* Terms that stay do not move back. *)
LEMMA ForwardStays ==
    ASSUME Loop, terms' = terms
    PROVE  Forward
  BY DEF Forward, Loop

(* The steps to the pivot keep HeapSound. *)
LEMMA HeapSeek == Sound /\ (FindPivot \/ SeekTerm \/ SkipBlocks \/ Realign) => HeapSound'
  <1> SUFFICES ASSUME Sound, FindPivot \/ SeekTerm \/ SkipBlocks \/ Realign PROVE HeapSound'
    OBVIOUS
  <1>0. Shape
    BY DEF Sound
  <1>1. CASE FindPivot \/ Realign
    <2>1. pc \in {"pivot", "seek"} /\ pc' \in {"pivot", "seek"} /\ UNCHANGED <<query, todo, heap, si, terms>>
      BY <1>1 DEF FindPivot, Realign, Seeked
    <2>2. Loop
      BY <1>0, <2>1, InLoop DEF InWand
    <2> QED BY <2>1, <2>2, ForwardStays, HeapWand
  <1>2. CASE SeekTerm
    <2>1. Seeking /\ i \in 1 .. nterms /\ UNCHANGED <<query, todo, heap, si, lo, hi, block, pivot, result>>
      BY <1>0, <1>2, SeekStep
    <2>2. Loop /\ pc = "seek" /\ InWand /\ nterms \in Nat /\ pivot.len \in 0 .. nterms
      BY <2>1 DEF Seeking, InWand, Loop
    <2>3. CASE i' = i + 1 /\ UNCHANGED <<terms, active, pc>>
      BY <2>1, <2>2, <2>3, ForwardStays, HeapWand
    <2>4. CASE /\ Cur(terms[i]) < pivot.doc /\ MovesTo(i, seek_term_to_doc(terms[i], pivot.doc), pivot.doc)
               /\ pc' = (IF seek_term_to_doc(terms[i], pivot.doc).fin THEN "pivot" ELSE "seek") /\ i' = i
      <3>1. pc' \in {"pivot", "seek"}
        BY <2>4
      <3>2. i' \in 0 .. nterms + 1 /\ pivot'.len \in 0 .. nterms
        BY <2>1, <2>2, <2>4
      <3>3. Step(terms, terms', i, seek_term_to_doc(terms[i], pivot.doc))
        BY <1>0, <2>1, <2>2, <2>4, <3>1, <3>2, LoopMoves
      <3>4. Forward
        BY <2>2, <2>4, <3>3, ForwardMoves
      <3> QED BY <2>1, <2>2, <3>1, <3>4, HeapWand
    <2> QED BY <1>0, <1>2, <2>3, <2>4, SeekStep
  <1>3. CASE SkipBlocks
    <2>1. /\ Seeking
          /\ MovesTo(best_scorer, seek_term_to_doc(terms[best_scorer], SkipTarget), SkipTarget)
          /\ pc' = "pivot" /\ UNCHANGED <<query, todo, heap, si, lo, hi, block, pivot, i, result>>
      BY <1>0, <1>3, SkipStep
    <2>2. Loop /\ pc = "seek" /\ InWand /\ i' \in 0 .. nterms + 1 /\ pivot'.len \in 0 .. nterms
      BY <2>1 DEF Seeking, InWand, Loop
    <2>3. Step(terms, terms', best_scorer, seek_term_to_doc(terms[best_scorer], SkipTarget))
      BY <1>0, <2>1, <2>2, LoopMoves
    <2>4. Forward
      BY <2>1, <2>2, <2>3, ForwardMoves
    <2> QED BY <2>1, <2>2, <2>4, HeapWand
  <1> QED BY <1>1, <1>2, <1>3

(* The steps that score and leave it keep HeapSound. *)
LEMMA HeapTurn == Sound /\ (WrongTenant \/ ScorePivot \/ AdvanceTerm \/ RejectTerm \/ LoopAgain) => HeapSound'
  <1> SUFFICES ASSUME Sound, WrongTenant \/ ScorePivot \/ AdvanceTerm \/ RejectTerm \/ LoopAgain PROVE HeapSound'
    OBVIOUS
  <1>0. Shape /\ si \in Nat
    BY DEF Sound, Shape, Base
  <1>1. CASE AdvanceTerm \/ RejectTerm
    <2>1. pc \in {"advance", "reject"} /\ UNCHANGED <<query, todo, heap, si, pivot, pc>>
      BY <1>0, <1>1, LeaveStep DEF Leaving
    <2>2. \A e : Behind(e) => Behind(e)'
      BY <2>1 DEF Behind
    <2> QED BY <1>0, <2>1, <2>2, HeapKeeps
  <1>2. CASE LoopAgain
    <2>1. pc \in {"advance", "reject"} /\ i = 0 /\ pc' = "pivot" /\ UNCHANGED <<query, todo, heap, si, terms>>
      BY <1>2 DEF LoopAgain
    <2>2. Loop /\ pivot.doc \in Nat /\ \A j \in 1 .. nterms : Cur(terms[j]) > pivot.doc /\ Cur(terms[j]) \in Nat
      BY <1>0, <2>1, InLoop DEF InWand, Shape, LeaveState, Loop
    <2>3. ASSUME NEW e, SegScored(e), Behind(e) PROVE Behind(e)'
      <3> SUFFICES ASSUME e.seg = si PROVE (\A j \in 1 .. nterms : Cur(terms[j]) > e.doc)'
        BY <2>1 DEF Behind
      <3>1. e.doc <= pivot.doc
        BY <2>1, <2>3 DEF Behind
      <3>2. e.doc \in Nat
        <4>1. e.doc \in seg_matches(si)
          BY <2>3 DEF SegScored
        <4> QED BY <2>2, <4>1, MatchIs, SegOK DEF Matching, WellFormed, Loop
      <3>3. \A j \in 1 .. nterms : Cur(terms[j]) > e.doc
        BY <2>2, <3>1, <3>2
      <3>4. \A ts : Cur(ts)' = Cur(ts)
        BY <2>1, Frame
      <3>5. nterms' = nterms
        BY <2>1, Frame
      <3> QED BY <2>1, <3>3, <3>4, <3>5
    <2> QED BY <1>0, <2>1, <2>3, HeapKeeps
  <1>3. CASE WrongTenant
    <2>1. pc = "seek" /\ aligned /\ pc' = "reject" /\ UNCHANGED <<query, todo, heap, si, terms, pivot>>
      BY <1>3 DEF WrongTenant, Seeked
    <2>2. Seeking /\ 1 \in 1 .. nterms /\ 1 \in 1 .. pivot.len /\ pivot.doc \in Nat /\ Loop
      BY <1>0, <2>1, InSeek DEF Seeking, Loop
    <2>3. Cur(terms[1]) = pivot.doc
      BY <2>1, <2>2 DEF aligned, Cur
    <2>4. ASSUME NEW e, SegScored(e), Behind(e) PROVE Behind(e)'
      <3> SUFFICES ASSUME e.seg = si PROVE e.doc <= pivot.doc
        BY <2>1 DEF Behind
      <3>1. pivot.doc > e.doc
        BY <2>1, <2>2, <2>3, <2>4 DEF Behind
      <3>2. e.doc \in Nat
        <4>1. e.doc \in seg_matches(si)
          BY <2>4 DEF SegScored
        <4> QED BY <2>2, <4>1, MatchIs, SegOK DEF Matching, WellFormed, Loop
      <3> QED BY <2>2, <3>1, <3>2
    <2> QED BY <1>0, <2>1, <2>4, HeapKeeps
  <1>4. CASE ScorePivot
    <2>0. query' = query
      BY <1>4 DEF ScorePivot
    <2> SUFFICES ASSUME BoundsCover PROVE HeapSound'
      BY <2>0, FrameQuery DEF HeapSound
    <2>1. /\ Seeking /\ pivot.doc \in seg_matches(si)
          /\ pc' = "advance" /\ UNCHANGED <<query, todo, si, lo, hi, block, terms, active, pivot, result>>
          /\ \A x : Holds(heap, x) /\ x.seg = si => SegScored(x) /\ x.doc \in Nat /\ x.doc < pivot.doc
          /\ heap' = heap \/ Offered(SegmentEntry(si, pivot.doc, seg_score(si, pivot.doc)))
      BY <1>4, ScoreStep
    <2>2. pivot.doc \in Nat /\ InSegment
      BY <2>1 DEF Seeking, Loop
    <2>3. ASSUME NEW x, Holds(heap, x) PROVE Behind(x)'
      BY <2>1, <2>2, <2>3 DEF Behind
    <2>4. CASE heap' = heap
      BY <1>0, <2>1, <2>3, <2>4, HeapKeeps
    <2>5. CASE Offered(SegmentEntry(si, pivot.doc, seg_score(si, pivot.doc)))
      <3>1. PICK e : e = SegmentEntry(si, pivot.doc, seg_score(si, pivot.doc))
        OBVIOUS
      <3>2. e.seg = si /\ e.doc = pivot.doc /\ e = SegmentEntry(e.seg, e.doc, seg_score(e.seg, e.doc))
        BY <3>1 DEF SegmentEntry
      <3>3. SegScored(e)'
        <4>1. seg_matches(si)' = seg_matches(si) /\ seg_score(si, pivot.doc)' = seg_score(si, pivot.doc)
          BY <2>1, FrameQuery
        <4> QED BY <1>0, <2>1, <2>2, <3>1, <3>2, <4>1 DEF SegScored, InSegment
      <3>4. Behind(e)'
        BY <2>1, <2>2, <3>2 DEF Behind
      <3>5. ~Holds(heap, e)
        <4> SUFFICES ASSUME Holds(heap, e) PROVE FALSE
          OBVIOUS
        <4>1. e.doc < pivot.doc
          BY <2>1, <3>2
        <4> QED BY <2>2, <3>2, <4>1
      <3> QED BY <2>1, <2>3, <2>5, <3>1, <3>3, <3>4, <3>5, HeapGrows
    <2> QED BY <2>1, <2>4, <2>5
  <1> QED BY <1>1, <1>2, <1>3, <1>4

-----------------------------------------------------------------------------
(* The single-term loop *)

(* What is known inside the single-term loop. *)
SingleLoop ==
    /\ Base /\ QueryInv /\ InSegment /\ nterms = 1 /\ 1 \in 1 .. nterms /\ si \in Nat
    /\ single_term = term_of(1) /\ has_term(seg, term_of(1)) /\ PlacesOK(1)
    /\ Blks(1) \in Nat /\ block_count(seg, single_term) = Blks(1) /\ block \in 0 .. Blks(1)
    /\ tenant_range # << >> /\ lo = tenant_range[1] /\ hi = tenant_range[2] /\ lo \in Nat /\ hi \in Nat
    /\ threshold \in Nat

(* What Shape says inside the single-term loop. *)
LEMMA InSingle ==
    ASSUME Shape, pc \in {"block", "posting"}
    PROVE  SingleLoop
  <1>1. /\ Base /\ QueryInv /\ InSegment /\ nterms = 1 /\ 1 \in 1 .. nterms /\ si \in Nat /\ has_term(seg, single_term)
        /\ block \in 0 .. block_count(seg, single_term)
    BY DEF Shape, Base, RangeState, SingleState, Working
  <1>2. single_term = term_of(1)
    BY DEF single_term, term_of
  <1>3. PlacesOK(1)
    BY <1>1, <1>2, TermPlaces
  <1>4. Blks(1) \in Nat /\ block_count(seg, single_term) = Blks(1)
    BY <1>2, <1>3 DEF PlacesOK, Blks, block_count
  <1>5. tenant_range # << >> /\ lo = tenant_range[1] /\ hi = tenant_range[2]
    BY DEF Shape, RangeState, Working
  <1>6. lo \in Nat /\ hi \in Nat
    BY <1>1, <1>5, TenantRange
  <1> QED BY <1>1, <1>2, <1>3, <1>4, <1>5, <1>6, ThresholdNat DEF SingleLoop

(* A document has one place in a list. *)
LEMMA SamePlace ==
    ASSUME NEW q, PlacesOK(q), NEW b, NEW x, NEW c, NEW y, Place(q, b, x), Place(q, c, y), BlkDoc(q, b, x) = BlkDoc(q, c, y)
    PROVE  b = c /\ x = y
  <1>1. b \in Nat /\ c \in Nat /\ Blks(q) \in Nat
    BY DEF Place, PlacesOK
  <1>2. x \in Nat /\ y \in Nat
    BY <1>1 DEF Place, PlacesOK
  <1>3. BlkDoc(q, b, x) \in Nat /\ BlkDoc(q, c, y) \in Nat
    BY DEF PlacesOK
  <1>4. ~(b < c \/ (b = c /\ x < y))
    BY <1>3 DEF PlacesOK
  <1>5. ~(c < b \/ (c = b /\ y < x))
    BY <1>3 DEF PlacesOK
  <1> QED BY <1>1, <1>2, <1>4, <1>5

(* The total of one part. *)
LEMMA TotalOne ==
    ASSUME NEW u \in [1 .. 1 -> Nat]
    PROVE  Total(u) = u[1]
  <1>0. PICK z \in Nat : z = 0
    OBVIOUS
  <1>a. u \in [1 .. z + 1 -> Nat]
    BY <1>0
  <1>b. Pre(u, z) \in [1 .. z -> Nat] /\ Total(u) = Total(Pre(u, z)) + u[z + 1]
    BY <1>a, TotalStep
  <1>1. Pre(u, 0) \in [1 .. 0 -> Nat] /\ Total(u) = Total(Pre(u, 0)) + u[1]
    BY <1>0, <1>b
  <1>2. Total(Pre(u, 0)) = 0
    BY <1>1, TotalZero
  <1> QED BY <1>1, <1>2

(* The score of a posting is the score of its document. *)
LEMMA SingleScore ==
    ASSUME SingleLoop, NEW b, NEW x, Place(1, b, x), NEW d, d = BlkDoc(1, b, x)
    PROVE  /\ Hits(1, d) /\ d \in Nat
           /\ seg_score(si, d) = posting_score(1, Block(seg.post[term_of(1)], b)[x + 1])
           /\ seg_score(si, d) \in Nat
  <1>1. Hits(1, d)
    BY DEF Hits, SingleLoop
  <1>2. d \in 0 .. seg.num_docs - 1 /\ seg.num_docs \in Nat
    BY <1>1, HitsInSegment DEF SingleLoop
  <1>3. PICK u : ScoreIs(d, u)
    BY <1>2, ScoreExists DEF SingleLoop
  <1>4. u \in [1 .. 1 -> Nat] /\ seg_score(si, d) = Total(u)
    BY <1>3 DEF ScoreIs, SingleLoop
  <1>5. Total(u) = u[1] /\ u[1] \in Nat
    BY <1>4, TotalOne
  <1>6. PICK s : s = posting_score(1, Block(seg.post[term_of(1)], b)[x + 1])
    OBVIOUS
  <1>7. u[1] = s * query_freq(1)
    BY <1>1, <1>3, <1>6 DEF ScoreIs, SingleLoop
  <1>8. query_freq(1) = 1
    BY DEF query_freq, SingleLoop
  <1>9. s \in Nat
    <2>1. PICK n \in 1 .. Len(seg.post[term_of(1)]) : Block(seg.post[term_of(1)], b)[x + 1] = seg.post[term_of(1)][n]
      BY PlacePosting DEF SingleLoop
    <2>2. seg.post[term_of(1)] \in Seq(Posting)
      BY SegOK DEF SingleLoop, WellFormed, has_term, ListOK, PostingList
    <2>3. seg.post[term_of(1)][n] \in Posting
      BY <2>2
    <2> QED BY <1>6, <2>1, <2>3, PostingScoreNat DEF SingleLoop
  <1>10. s * 1 = s
    BY <1>9
  <1> QED BY <1>1, <1>2, <1>4, <1>5, <1>6, <1>7, <1>8, <1>10

(* What is ahead after a step of the loop. *)
LEMMA AheadAfter ==
    ASSUME query' = query, si' = si, NEW d
    PROVE  Ahead(d)' <=> \E b, x : /\ Place(1, b, x) /\ BlkDoc(1, b, x) = d /\ block' <= b
                                   /\ pc' = "posting" /\ b = block' => i' <= x + 1
  <1>1. \A q, b, x : Place(q, b, x)' <=> Place(q, b, x)
    BY FramePlaces
  <1>2. \A q, b, x : BlkDoc(q, b, x)' = BlkDoc(q, b, x)
    BY FramePlaces
  <1> QED BY <1>1, <1>2 DEF Ahead

(* A step of the loop that leaves the heap alone. *)
LEMMA SingleKeeps ==
    ASSUME Sound, UNCHANGED <<query, todo, heap, si>>, pc \in {"block", "posting"}, pc' \in {"block", "posting"},
           \A d : Ahead(d)' => Ahead(d)
    PROVE  HeapSound'
  <1>1. si \in Nat /\ si' \in Nat /\ si <= si'
    BY DEF Sound, Shape, Base
  <1>2. ASSUME NEW e, SegScored(e), Behind(e) PROVE Behind(e)'
    BY <1>2 DEF Behind
  <1> QED BY <1>1, <1>2, HeapKeeps

(* A skipped block holds no document that can win. *)
LEMMA SingleSkip == Sound /\ SkipBlock => HeapSound' /\ SingleInv'
  <1> SUFFICES ASSUME Sound, SkipBlock PROVE HeapSound' /\ SingleInv'
    OBVIOUS
  <1>1. /\ pc = "block" /\ pc' = "block" /\ block' = block + 1 /\ UNCHANGED <<query, todo, heap, si, lo, hi>>
        /\ skip_block(seg.skip[single_term][block + 1])
    BY DEF SkipBlock
  <1>2. SingleLoop
    BY <1>1, InSingle DEF Sound
  <1>3. block \in Nat /\ Blks(1) \in Nat /\ lo \in Nat /\ hi \in Nat /\ threshold \in Nat
    BY <1>2 DEF SingleLoop
  <1>4. \A d : Ahead(d)' => Ahead(d)
    <2> SUFFICES ASSUME NEW d, Ahead(d)' PROVE Ahead(d)
      OBVIOUS
    <2>1. PICK b, x : Place(1, b, x) /\ BlkDoc(1, b, x) = d /\ block + 1 <= b
      BY <1>1, AheadAfter
    <2>2. block <= b
      BY <1>3, <2>1 DEF Place
    <2> QED BY <1>1, <2>1, <2>2 DEF Ahead
  <1>5. HeapSound'
    BY <1>1, <1>4, SingleKeeps
  <1>6. SingleInv'
    <2> SUFFICES ASSUME BoundsCover', NEW d, Pending(d)' PROVE Ahead(d)'
      BY DEF SingleInv
    <2>1. BoundsCover /\ Pending(d)
      BY <1>1, FrameQuery, PendingSame
    <2>2. PICK b, x : Place(1, b, x) /\ BlkDoc(1, b, x) = d /\ block <= b
      BY <1>1, <2>1 DEF Sound, SingleInv, Ahead
    <2>3. CASE block + 1 <= b
      BY <1>1, <2>2, <2>3, AheadAfter
    <2>4. CASE ~(block + 1 <= b)
      <3>1. b = block
        BY <1>3, <2>2, <2>4 DEF Place
      <3>2. PICK e : e = seg.skip[term_of(1)][b + 1]
        OBVIOUS
      <3>3. skip_block(e)
        BY <1>1, <1>2, <3>1, <3>2 DEF SingleLoop
      <3>4. d \in Nat /\ d \in seg_matches(si) /\ lo <= d /\ seg_score(si, d) > threshold
            /\ seg_score(si, d) = posting_score(1, Block(seg.post[term_of(1)], b)[x + 1]) /\ seg_score(si, d) \in Nat
        BY <1>2, <2>1, <2>2, SingleScore DEF Pending
      <3>5. CASE e.last_doc_id < lo
        <4>1. BlkLast(1, b) = e.last_doc_id
          BY <3>2 DEF BlkLast
        <4>2. d <= BlkLast(1, b) /\ BlkLast(1, b) \in Nat
          BY <1>2, <2>2 DEF SingleLoop, PlacesOK, Place
        <4> QED BY <1>3, <3>4, <3>5, <4>1, <4>2
      <3>6. CASE tp_compute_block_max_score(e, query.terms[1].idf) < threshold
        <4>1. PICK bound : bound = tp_compute_block_max_score(e, query.terms[1].idf)
          OBVIOUS
        <4>2. seg_score(si, d) <= bound
          BY <1>2, <2>1, <2>2, <3>2, <3>4, <4>1, BoundAt DEF SingleLoop
        <4>3. bound \in Nat
          <5>1. ListOK(seg, term_of(1)) /\ query.terms[1].idf \in Nat /\ b \in 0 .. Blks(1) - 1
            BY <1>2, <2>2, SegOK DEF SingleLoop, WellFormed, has_term, Place
          <5>2. EntryOK(e, Block(seg.post[term_of(1)], b), seg.tenant)
            BY <3>2, <5>1 DEF ListOK, Blks
          <5>3. e.block_max_tf \in Nat \ {0} /\ e.block_max_norm \in DOMAIN FieldNormTable
            BY <5>2 DEF EntryOK
          <5> QED BY <4>1, <5>1, <5>3, ScoreNat, DecodeNat DEF tp_compute_block_max_score
        <4> QED BY <1>3, <3>4, <3>6, <4>1, <4>2, <4>3
      <3>7. CASE wrong_tenant_block(e)
        BY <1>2, <2>2, <3>2, <3>4, <3>7, WrongBlock DEF SingleLoop
      <3> QED BY <3>3, <3>5, <3>6, <3>7 DEF skip_block
    <2> QED BY <2>3, <2>4
  <1> QED BY <1>5, <1>6

(* Loading a block passes no document. *)
LEMMA SingleLoad == Sound /\ LoadBlock => HeapSound' /\ SingleInv'
  <1> SUFFICES ASSUME Sound, LoadBlock PROVE HeapSound' /\ SingleInv'
    OBVIOUS
  <1>1. /\ pc = "block" /\ pc' = "posting" /\ block' = block /\ i' = 1 /\ UNCHANGED <<query, todo, heap, si, lo, hi>>
    BY DEF LoadBlock
  <1>2. SingleLoop
    BY <1>1, InSingle DEF Sound
  <1>3. \A d : Ahead(d)' <=> Ahead(d)
    <2> TAKE d
    <2>0. \A b, x : Place(1, b, x) => 1 <= x + 1
      BY <1>2 DEF Place, SingleLoop, PlacesOK
    <2>1. Ahead(d) <=> \E b, x : Place(1, b, x) /\ BlkDoc(1, b, x) = d /\ block <= b
      BY <1>1 DEF Ahead
    <2> QED BY <1>1, <2>0, <2>1, AheadAfter
  <1>4. HeapSound'
    BY <1>1, <1>3, SingleKeeps
  <1>5. SingleInv'
    <2> SUFFICES ASSUME BoundsCover', NEW d, Pending(d)' PROVE Ahead(d)'
      BY DEF SingleInv
    <2>1. BoundsCover /\ Pending(d)
      BY <1>1, FrameQuery, PendingSame
    <2> QED BY <1>1, <1>3, <2>1 DEF Sound, SingleInv
  <1> QED BY <1>4, <1>5

(* One posting of the single-term loop: the rest of the block is left, or its document is looked at. *)
Posted(d) ==
    /\ SingleLoop /\ i \in Nat /\ block \in 0 .. Blks(1) - 1 /\ Place(1, block, i - 1) /\ BlkDoc(1, block, i - 1) = d /\ d \in Nat
    /\ pc' = "posting" /\ block' = block /\ i' = i + 1
    /\ \/ heap' = heap /\ (BoundsCover => ~Pending(d))
       \/ d \in seg_matches(si) /\ Offered(SegmentEntry(si, d, seg_score(si, d)))

(* The rest of the block is left. *)
PostedLast ==
    /\ SingleLoop /\ heap' = heap /\ block \in 0 .. Blks(1) - 1 /\ pc' = "block" /\ block' = block + 1
    /\ \A x : Place(1, block, x) /\ i <= x + 1 => BlkDoc(1, block, x) > hi

(* What ScorePosting does. *)
LEMMA PostingStep ==
    ASSUME Shape, ScorePosting
    PROVE  /\ pc = "posting" /\ UNCHANGED <<query, todo, si, lo, hi>>
           /\ PostedLast \/ \E d : Posted(d)
  <1>1. pc = "posting" /\ UNCHANGED <<query, todo, si, lo, hi, terms, active, pivot, result>>
    BY DEF ScorePosting
  <1>2. SingleLoop
    BY <1>1, InSingle
  <1>3. PICK b : b = Block(seg.post[single_term], block)
    OBVIOUS
  <1>4. block \in 0 .. Blks(1) - 1 /\ i \in 1 .. Len(b) + 1 /\ block \in Nat
    BY <1>1, <1>2, <1>3 DEF Shape, SingleState, SingleLoop
  <1>5. BlkLen(1, block) = Len(b) /\ Len(b) \in Nat /\ i \in Nat
    <2>1. ListOK(seg, term_of(1)) /\ b = Block(seg.post[term_of(1)], block)
      BY <1>2, <1>3, SegOK DEF SingleLoop, WellFormed, has_term
    <2>2. EntryOK(seg.skip[term_of(1)][block + 1], b, seg.tenant)
      BY <1>4, <2>1 DEF ListOK, Blks
    <2>3. BlkLen(1, block) = Len(b)
      BY <2>2 DEF EntryOK, BlkLen
    <2>4. BlkLen(1, block) \in Nat
      BY <1>2, <1>4 DEF SingleLoop, PlacesOK
    <2> QED BY <1>4, <2>3, <2>4
  <1>6. \A x : BlkDoc(1, block, x) = b[x + 1].doc
    BY <1>2, <1>3 DEF BlkDoc, SingleLoop
  <1>7. PICK d : d = b[i].doc
    OBVIOUS
  <1>8. i <= Len(b) => Place(1, block, i - 1) /\ BlkDoc(1, block, i - 1) = d /\ d \in Nat
    <2> SUFFICES ASSUME i <= Len(b) PROVE Place(1, block, i - 1) /\ BlkDoc(1, block, i - 1) = d /\ d \in Nat
      OBVIOUS
    <2>1. i - 1 \in 0 .. BlkLen(1, block) - 1 /\ (i - 1) + 1 = i
      BY <1>4, <1>5
    <2>2. Place(1, block, i - 1) /\ BlkDoc(1, block, i - 1) = d
      BY <1>4, <1>6, <1>7, <2>1 DEF Place
    <2> QED BY <1>2, <2>2 DEF SingleLoop, PlacesOK
  <1>9. CASE i > Len(b) \/ d > hi
    <2>1. heap' = heap /\ pc' = "block" /\ block' = block + 1
      BY <1>3, <1>7, <1>9 DEF ScorePosting
    <2>2. ASSUME NEW x, Place(1, block, x), i <= x + 1 PROVE BlkDoc(1, block, x) > hi
      <3>1. x \in Nat /\ x + 1 <= Len(b)
        BY <1>5, <2>2 DEF Place
      <3>2. i <= Len(b) /\ d > hi
        BY <1>5, <1>9, <2>2, <3>1
      <3>3. BlkDoc(1, block, x) \in Nat
        BY <1>2, <2>2 DEF SingleLoop, PlacesOK
      <3>4. CASE x = i - 1
        BY <1>8, <3>2, <3>4
      <3>5. CASE x # i - 1
        <4>1. i - 1 < x
          BY <1>5, <2>2, <3>1, <3>5
        <4>2. d < BlkDoc(1, block, x)
          BY <1>2, <1>8, <2>2, <3>2, <4>1 DEF SingleLoop, PlacesOK
        <4>3. d \in Nat /\ hi \in Nat
          BY <1>2, <1>8, <3>2 DEF SingleLoop
        <4> QED BY <3>2, <3>3, <4>2, <4>3
      <3> QED BY <3>4, <3>5
    <2> QED BY <1>1, <1>2, <1>4, <2>1, <2>2 DEF PostedLast
  <1>10. CASE ~(i > Len(b) \/ d > hi)
    <2>0. i <= Len(b) /\ ~(d > hi)
      BY <1>5, <1>10
    <2>1. Place(1, block, i - 1) /\ BlkDoc(1, block, i - 1) = d /\ d \in Nat /\ d <= hi
      BY <1>2, <1>8, <2>0 DEF SingleLoop
    <2>2. PICK s : s = posting_score(1, b[i])
      OBVIOUS
    <2>3. /\ pc' = "posting" /\ block' = block /\ i' = i + 1
          /\ heap' = IF d < lo \/ tenant_rejects(d) \/ tp_topk_dominated(heap, query.k, s) THEN heap
                     ELSE tp_topk_add(heap, query.k, SegmentEntry(si, d, s))
      BY <1>1, <1>3, <1>7, <1>10, <2>2 DEF ScorePosting
    <2>4. Hits(1, d) /\ seg_score(si, d) = s /\ s \in Nat
      <3>1. (i - 1) + 1 = i
        BY <1>5
      <3>2. Hits(1, d) /\ seg_score(si, d) = posting_score(1, Block(seg.post[term_of(1)], block)[(i - 1) + 1]) /\ seg_score(si, d) \in Nat
        BY <1>2, <2>1, SingleScore
      <3>3. Block(seg.post[term_of(1)], block) = b
        BY <1>2, <1>3 DEF SingleLoop
      <3> QED BY <2>2, <3>1, <3>2, <3>3
    <2>5. CASE d < lo \/ tenant_rejects(d) \/ tp_topk_dominated(heap, query.k, s)
      <3>1. heap' = heap
        BY <2>3, <2>5
      <3>2. ~Pending(d)
        <4>1. CASE d < lo
          BY <1>2, <2>1, <4>1 DEF Pending, SingleLoop
        <4>2. CASE tenant_rejects(d)
          BY <1>2, <4>2, MatchNotRejected DEF Pending, SingleLoop
        <4>3. CASE tp_topk_dominated(heap, query.k, s)
          <5>1. s < threshold
            BY <4>3 DEF tp_topk_dominated, threshold, tp_topk_threshold
          <5> QED BY <1>2, <2>4, <5>1 DEF Pending, SingleLoop
        <4> QED BY <2>5, <4>1, <4>2, <4>3
      <3> QED BY <1>1, <1>2, <1>4, <1>5, <2>1, <2>3, <3>1, <3>2 DEF Posted
    <2>6. CASE ~(d < lo \/ tenant_rejects(d) \/ tp_topk_dominated(heap, query.k, s))
      <3>1. heap' = tp_topk_add(heap, query.k, SegmentEntry(si, d, s))
        BY <2>3, <2>6
      <3>2. lo <= d
        BY <1>2, <2>1, <2>6 DEF SingleLoop
      <3>3. d \in seg_matches(si)
        BY <1>2, <2>1, <2>4, <2>6, <3>2, NotRejectedMatch DEF SingleLoop
      <3>4. SegmentEntry(si, d, s) \in Entry
        BY <1>2, <2>1, <2>4, SegEntry DEF SingleLoop, InSegment
      <3>5. Offered(SegmentEntry(si, d, s))
        BY <1>2, <3>1, <3>4, HeapKept DEF Offered, SingleLoop
      <3> QED BY <1>1, <1>2, <1>4, <1>5, <2>1, <2>3, <2>4, <3>3, <3>5 DEF Posted
    <2> QED BY <2>5, <2>6
  <1> QED BY <1>1, <1>9, <1>10

(* A posting that is passed is in the heap, not above the threshold, or no match. *)
LEMMA SinglePosting == Sound /\ Shape' /\ ScorePosting => HeapSound' /\ SingleInv'
  <1> SUFFICES ASSUME Sound, Shape', ScorePosting PROVE HeapSound' /\ SingleInv'
    OBVIOUS
  <1>0. Shape /\ Base' /\ Base /\ HeapSound
    BY DEF Sound, Shape
  <1>1. pc = "posting" /\ UNCHANGED <<query, todo, si, lo, hi>>
    BY <1>0, PostingStep
  <1>2. CASE PostedLast
    <2>1. SingleLoop /\ heap' = heap /\ block \in Nat /\ pc' = "block" /\ block' = block + 1
      BY <1>2 DEF PostedLast
    <2>2. \A d : Ahead(d)' => Ahead(d)
      <3> SUFFICES ASSUME NEW d, Ahead(d)' PROVE Ahead(d)
        OBVIOUS
      <3>1. PICK b, x : Place(1, b, x) /\ BlkDoc(1, b, x) = d /\ block + 1 <= b
        BY <1>1, <2>1, AheadAfter
      <3>2. b \in Nat
        BY <2>1, <3>1 DEF Place, SingleLoop
      <3>3. block <= b /\ b # block
        BY <2>1, <3>1, <3>2
      <3> QED BY <3>1, <3>3 DEF Ahead
    <2>3. HeapSound'
      BY <1>1, <2>1, <2>2, SingleKeeps
    <2>4. SingleInv'
      <3> SUFFICES ASSUME BoundsCover', NEW d, Pending(d)' PROVE Ahead(d)'
        BY DEF SingleInv
      <3>1. BoundsCover /\ Pending(d)
        BY <1>1, <2>1, FrameQuery, PendingSame
      <3>2. PICK b, x : Place(1, b, x) /\ BlkDoc(1, b, x) = d /\ block <= b /\ (b = block => i <= x + 1)
        BY <1>1, <3>1 DEF Sound, SingleInv, Ahead
      <3>3. b # block
        <4> SUFFICES ASSUME b = block PROVE FALSE
          OBVIOUS
        <4>1. d > hi
          BY <1>2, <3>2 DEF PostedLast
        <4>2. d \in Nat /\ d <= hi /\ hi \in Nat
          BY <2>1, <3>1, <3>2 DEF SingleLoop, PlacesOK, Pending
        <4> QED BY <4>1, <4>2
      <3>4. block + 1 <= b
        BY <2>1, <3>2, <3>3 DEF Place, SingleLoop
      <3> QED BY <1>1, <2>1, <3>2, <3>4, AheadAfter
    <2> QED BY <2>3, <2>4
  <1>3. CASE \E d : Posted(d)
    <2>0. PICK d : Posted(d)
      BY <1>3
    <2>1. /\ SingleLoop /\ i \in Nat /\ Place(1, block, i - 1) /\ BlkDoc(1, block, i - 1) = d /\ d \in Nat
          /\ pc' = "posting" /\ block' = block /\ i' = i + 1
      BY <2>0 DEF Posted
    <2>2. PICK e : e = SegmentEntry(si, d, seg_score(si, d))
      OBVIOUS
    <2>3. (heap' = heap /\ (BoundsCover => ~Pending(d))) \/ (d \in seg_matches(si) /\ Offered(e))
      BY <2>0, <2>2 DEF Posted
    <2>4. \A x : Ahead(x)' <=> Ahead(x) /\ x # d
      <3> TAKE z
      <3>1. Ahead(z)' <=> \E b, x : /\ Place(1, b, x) /\ BlkDoc(1, b, x) = z /\ block <= b
                                    /\ b = block => i + 1 <= x + 1
        BY <1>1, <2>1, AheadAfter
      <3>2. Ahead(z) <=> \E b, x : /\ Place(1, b, x) /\ BlkDoc(1, b, x) = z /\ block <= b
                                   /\ b = block => i <= x + 1
        BY <1>1 DEF Ahead
      <3>3. ASSUME NEW b, NEW x, Place(1, b, x), BlkDoc(1, b, x) = z, block <= b
            PROVE  (b = block => i + 1 <= x + 1) <=> (b = block => i <= x + 1) /\ z # d
        <4>0. b \in Nat /\ block \in Nat
          BY <2>1, <3>3 DEF SingleLoop, Place
        <4>1. x \in Nat
          BY <2>1, <3>3 DEF SingleLoop, PlacesOK, Place
        <4>2. z = d <=> b = block /\ x = i - 1
          BY <2>1, <3>3, SamePlace DEF SingleLoop
        <4> QED BY <2>1, <4>0, <4>1, <4>2
      <3> QED BY <3>1, <3>2, <3>3
    <2>5. \A x : Ahead(x)' => Ahead(x)
      BY <2>4
    <2>6. HeapSound'
      <3>1. CASE heap' = heap
        BY <1>1, <2>1, <2>5, <3>1, SingleKeeps
      <3>2. CASE d \in seg_matches(si) /\ Offered(e)
        <4> SUFFICES ASSUME BoundsCover PROVE HeapSound'
          BY <1>1, FrameQuery DEF HeapSound
        <4>1. Ahead(d)
          <5>1. block <= block /\ i <= (i - 1) + 1
            BY <2>1 DEF SingleLoop
          <5> QED BY <2>1, <5>1 DEF Ahead
        <4>2. ASSUME NEW x, SegScored(x), Behind(x) PROVE Behind(x)'
          BY <1>1, <2>1, <2>5, <4>2 DEF Behind
        <4>3. e.seg = si /\ e.doc = d /\ e = SegmentEntry(e.seg, e.doc, seg_score(e.seg, e.doc))
          BY <2>2 DEF SegmentEntry
        <4>4. ~Holds(heap, e)
          <5> SUFFICES ASSUME Holds(heap, e) PROVE FALSE
            OBVIOUS
          <5>1. si # NoSegment
            BY <2>1, LimitsAssumption, DocIdAssumption DEF SingleLoop, QueryInv, InSegment
          <5>2. ~MemScored(e)
            BY <4>3, <5>1 DEF MemScored, MemtableEntry
          <5>3. Behind(e)
            BY <1>0, <5>2 DEF HeapSound, HeapScored
          <5> QED BY <1>1, <4>1, <4>3, <5>3 DEF Behind
        <4>5. SegScored(e)'
          <5>1. seg_matches(si)' = seg_matches(si) /\ seg_score(si, d)' = seg_score(si, d)
            BY <1>1, FrameQuery
          <5>2. si \in Nat /\ si \in 1 .. Len(query.segs)
            BY <2>1 DEF SingleLoop, InSegment
          <5> QED BY <1>1, <2>2, <3>2, <4>3, <5>1, <5>2 DEF SegScored
        <4>6. Behind(e)'
          BY <1>1, <2>1, <2>4, <4>3 DEF Behind
        <4> QED BY <1>1, <3>2, <4>2, <4>4, <4>5, <4>6, HeapGrows
      <3> QED BY <2>3, <3>1, <3>2
    <2>7. SingleInv'
      <3> SUFFICES ASSUME BoundsCover', NEW x, Pending(x)' PROVE Ahead(x)'
        BY DEF SingleInv
      <3>1. BoundsCover
        BY <1>1, FrameQuery
      <3>2. heap' = heap \/ Offered(e)
        BY <2>3
      <3>3. HeapScored /\ InSegment
        BY <1>0, <2>1, <3>1 DEF HeapSound, SingleLoop
      <3>4. Pending(x) /\ ~(Offered(e) /\ e = SegmentEntry(si, x, seg_score(si, x)))
        BY <1>0, <1>1, <3>2, <3>3, PendingShrinks
      <3>5. x # d
        BY <2>2, <2>3, <3>1, <3>4
      <3>6. Ahead(x)
        BY <1>1, <3>1, <3>4 DEF Sound, SingleInv
      <3> QED BY <2>4, <3>5, <3>6
    <2> QED BY <2>6, <2>7
  <1> QED BY <1>0, <1>2, <1>3, PostingStep

(* The single-term loop starts in front of every posting of the range. *)
LEMMA SingleOpen == Sound /\ Shape' /\ OpenSingle => SingleInv'
  <1> SUFFICES ASSUME Sound, Shape', OpenSingle, (pc \in {"block", "posting"})', NEW d, Pending(d)' PROVE Ahead(d)'
    BY DEF SingleInv
  <1>1. query' = query /\ si' = si /\ pc' = "block" /\ block' = 0
    <2>1. CASE has_term(seg, query.terms[1].term)
      BY <2>1 DEF OpenSingle
    <2>2. CASE ~has_term(seg, query.terms[1].term)
      BY <2>2 DEF OpenSingle, LeaveSegment
    <2> QED BY <2>1, <2>2
  <1>2. InSegment' /\ nterms' = 1 /\ has_term(seg', single_term')
    BY <1>1 DEF Shape, RangeState, SingleState, Working
  <1>3. nterms = 1 /\ seg_matches(si)' = seg_matches(si) /\ QueryInv /\ InSegment /\ PlacesOK(1)
    <2>1. nterms' = nterms /\ InSegment' = InSegment /\ seg' = seg
      BY <1>1, Frame
    <2>2. seg_matches(si)' = seg_matches(si)
      BY <1>1, FrameQuery
    <2>3. QueryInv /\ InSegment /\ nterms = 1
      BY <1>2, <2>1 DEF Sound, Shape, Base
    <2>4. has_term(seg, term_of(1)) /\ 1 \in 1 .. nterms
      BY <1>1, <1>2, <2>1, <2>3 DEF single_term, term_of
    <2> QED BY <2>2, <2>3, <2>4, TermPlaces
  <1>4. Matching(d)
    BY <1>3, MatchIs DEF Pending
  <1>5. PICK q \in 1 .. nterms : Hits(q, d)
    BY <1>4 DEF Matching
  <1>6. q = 1
    BY <1>3, <1>5
  <1>7. PICK b, x : Place(1, b, x) /\ BlkDoc(1, b, x) = d
    BY <1>5, <1>6 DEF Hits
  <1>8. 0 <= b
    BY <1>3, <1>7 DEF Place, PlacesOK
  <1> QED BY <1>1, <1>7, <1>8, AheadAfter

-----------------------------------------------------------------------------
(* The memtable *)

(* A memtable document is scored in full and once. *)
LEMMA HeapMemtable == Sound /\ ScoreMemtableDoc => HeapSound'
  <1> SUFFICES ASSUME Sound, ScoreMemtableDoc PROVE HeapSound'
    OBVIOUS
  <1>0. Base /\ QueryInv /\ HeapSound /\ si \in Nat
    BY DEF Sound, Shape, Base
  <1>1. UNCHANGED <<query, si, pc>> /\ pc = "memtable"
    BY DEF ScoreMemtableDoc
  <1>2. PICK d \in todo :
         /\ heap' = IF tp_topk_dominated(heap, query.k, mem_score(d)) THEN heap
                    ELSE tp_topk_add(heap, query.k, MemtableEntry(d.ctid, mem_score(d)))
         /\ todo' = todo \ {d}
    BY DEF ScoreMemtableDoc
  <1>3. d \in query.mem /\ d \in mem_matches
    BY <1>0 DEF Base, mem_matches
  <1>4. PICK e : e = MemtableEntry(d.ctid, mem_score(d))
    OBVIOUS
  <1>5. e \in Entry /\ d.ctid # NoCtid /\ e.ctid = d.ctid
    BY <1>0, <1>3, <1>4, MemEntry DEF MemtableEntry
  <1>6. ASSUME NEW x, SegScored(x), Behind(x) PROVE Behind(x)'
    <2>1. x.seg < si /\ x.seg \in Nat
      BY <1>1, <1>6 DEF Behind, SegScored
    <2> QED BY <1>0, <1>1, <2>1 DEF Behind
  <1>7. CASE heap' = heap
    BY <1>0, <1>1, <1>2, <1>6, <1>7, HeapKeeps
  <1>8. CASE heap' = tp_topk_add(heap, query.k, e)
    <2> SUFFICES ASSUME BoundsCover PROVE HeapSound'
      BY <1>1, FrameQuery DEF HeapSound
    <2>1. Offered(e)
      BY <1>0, <1>5, <1>8, HeapKept DEF Offered
    <2>2. MemScored(e)'
      <3>1. mem_matches' = mem_matches /\ mem_score(d)' = mem_score(d)
        BY <1>1, FrameQuery
      <3> QED BY <1>2, <1>3, <1>4, <3>1 DEF MemScored
    <2>3. ~Holds(heap, e)
      <3> SUFFICES ASSUME Holds(heap, e) PROVE FALSE
        OBVIOUS
      <3>1. MemScored(e) \/ SegScored(e)
        BY <1>0 DEF HeapSound, HeapScored
      <3>2. CASE MemScored(e)
        <4>1. PICK x \in mem_matches \ todo : e = MemtableEntry(x.ctid, mem_score(x))
          BY <3>2 DEF MemScored
        <4>2. x \in query.mem /\ x.ctid = d.ctid
          BY <1>5, <4>1 DEF MemtableEntry, mem_matches
        <4>3. x = d
          BY <1>0, <1>3, <4>2 DEF QueryInv, OneCtid
        <4> QED BY <4>1, <4>3
      <3>3. CASE SegScored(e)
        BY <1>5, <3>3 DEF SegScored, SegmentEntry
      <3> QED BY <3>1, <3>2, <3>3
    <2> QED BY <1>1, <1>2, <1>6, <2>1, <2>2, <2>3, HeapGrows
  <1> QED BY <1>2, <1>4, <1>7, <1>8

-----------------------------------------------------------------------------
(* No winner is skipped *)

(* Outside the loops nothing is pending. *)
LEMMA OffLoops ==
    ASSUME pc' \in {"memtable", "segment", "done"}
    PROVE  PassInv' /\ SingleInv'
  BY DEF PassInv, SingleInv, InWand

(* Sound holds at the start. *)
LEMMA SoundInit == Init => Sound
  <1> SUFFICES ASSUME Init PROVE Sound
    OBVIOUS
  <1>1. Shape /\ pc = "memtable" /\ Len(heap) = 0
    BY ShapeInit DEF Init
  <1>2. HeapSound
    BY <1>1 DEF HeapSound, HeapScored, Holds, Distinct
  <1> QED BY <1>1, <1>2 DEF Sound, PassInv, SingleInv, InWand

(* Sound depends on the state only. *)
LEMMA SoundStutter == Sound /\ UNCHANGED vars => Sound'
  <1> SUFFICES ASSUME Sound, UNCHANGED vars PROVE Sound'
    OBVIOUS
  <1>1. UNCHANGED <<query, todo, heap, si, lo, hi, block, terms, active, pivot, i, pc, result>>
    BY DEF vars
  <1>2. Shape' /\ Shape
    BY ShapeStutter DEF Sound
  <1>3. PassInv'
    BY <1>2, PassRealign
  <1>a. \A d : Ahead(d)' <=> Ahead(d)
    BY <1>1, AheadAfter DEF Ahead
  <1>b. \A ts : Cur(ts)' = Cur(ts)
    BY <1>1, Frame
  <1>c. nterms' = nterms
    BY <1>1, Frame
  <1>4. HeapSound'
    <2>1. \A e : Behind(e) => Behind(e)'
      BY <1>1, <1>a, <1>b, <1>c DEF Behind
    <2>2. si \in Nat /\ si' \in Nat /\ si <= si'
      BY <1>1, <1>2 DEF Shape, Base
    <2> QED BY <1>1, <2>1, <2>2, HeapKeeps
  <1>5. SingleInv'
    <2> SUFFICES ASSUME (BoundsCover /\ pc \in {"block", "posting"})', NEW d, Pending(d)' PROVE Ahead(d)'
      BY DEF SingleInv
    <2>1. BoundsCover /\ pc \in {"block", "posting"} /\ Pending(d)
      BY <1>1, FrameQuery, PendingSame
    <2> QED BY <1>a, <2>1 DEF Sound, SingleInv
  <1> QED BY <1>2, <1>3, <1>4, <1>5 DEF Sound

(* The steps between the loops keep Sound. *)
LEMMA SoundSegment ==
    Sound /\ (ScoreMemtableDoc \/ MemtableDone \/ SkipSegment \/ OpenSingle \/ OpenMulti \/ Extract) => Sound'
  <1> SUFFICES ASSUME Sound, ScoreMemtableDoc \/ MemtableDone \/ SkipSegment \/ OpenSingle \/ OpenMulti \/ Extract PROVE Sound'
    OBVIOUS
  <1>0. Shape /\ Shape'
    BY ShapeStep DEF Sound, Next
  <1>1. CASE ScoreMemtableDoc
    <2>1. pc' = "memtable"
      BY <1>1 DEF ScoreMemtableDoc
    <2> QED BY <1>0, <1>1, <2>1, HeapMemtable, OffLoops DEF Sound
  <1>2. CASE MemtableDone \/ SkipSegment
    <2>1. pc' = "segment"
      BY <1>2 DEF MemtableDone, SkipSegment, LeaveSegment
    <2> QED BY <1>0, <1>2, <2>1, HeapOpen, OffLoops DEF Sound
  <1>3. CASE OpenSingle
    <2>1. pc' \in {"segment", "block"}
      <3>1. CASE has_term(seg, query.terms[1].term)
        BY <1>3, <3>1 DEF OpenSingle
      <3>2. CASE ~has_term(seg, query.terms[1].term)
        BY <1>3, <3>2 DEF OpenSingle, LeaveSegment
      <3> QED BY <3>1, <3>2
    <2>2. PassInv'
      BY <2>1 DEF PassInv, InWand
    <2> QED BY <1>0, <1>3, <2>2, HeapOpen, SingleOpen DEF Sound
  <1>4. CASE OpenMulti
    <2>1. pc' \in {"segment", "pivot"}
      BY <1>0, <1>4, OpenStep DEF LeaveSegment
    <2>2. SingleInv'
      BY <2>1 DEF SingleInv
    <2> QED BY <1>0, <1>4, <2>2, HeapOpen, PassOpen DEF Sound
  <1>5. CASE Extract
    <2>1. pc' = "done" /\ heap' = << >> /\ Len(heap') = 0
      BY <1>5 DEF Extract
    <2>2. HeapSound'
      BY <2>1 DEF HeapSound, HeapScored, Holds, Distinct
    <2> QED BY <1>0, <2>1, <2>2, OffLoops DEF Sound
  <1> QED BY <1>1, <1>2, <1>3, <1>4, <1>5

(* The single-term loop keeps Sound. *)
LEMMA SoundSingle ==
    Sound /\ (SkipBlock \/ LoadBlock \/ ScorePosting \/ SingleDone) => Sound'
  <1> SUFFICES ASSUME Sound, SkipBlock \/ LoadBlock \/ ScorePosting \/ SingleDone PROVE Sound'
    OBVIOUS
  <1>0. Shape /\ Shape'
    BY ShapeStep DEF Sound, Next
  <1>1. CASE SkipBlock \/ LoadBlock \/ ScorePosting
    <2>1. pc' \in {"block", "posting"}
      <3>1. CASE SkipBlock \/ LoadBlock
        BY <3>1 DEF SkipBlock, LoadBlock
      <3>2. CASE ScorePosting
        BY <1>0, <3>2, PostingStep DEF PostedLast, Posted
      <3> QED BY <1>1, <3>1, <3>2
    <2>2. PassInv'
      BY <2>1 DEF PassInv, InWand
    <2> QED BY <1>0, <1>1, <2>2, SingleSkip, SingleLoad, SinglePosting DEF Sound
  <1>2. CASE SingleDone
    <2>1. pc' = "segment" /\ LeaveSegment /\ UNCHANGED <<query, todo, heap>>
      BY <1>2 DEF SingleDone, LeaveSegment
    <2> QED BY <1>0, <2>1, HeapLeave, OffLoops DEF Sound
  <1> QED BY <1>1, <1>2

(* The WAND loop keeps Sound. *)
LEMMA SoundWand == Sound /\ Wand => Sound'
  <1> SUFFICES ASSUME Sound, Wand PROVE Sound'
    OBVIOUS
  <1>0. Shape /\ Shape'
    BY ShapeStep DEF Sound, Next
  <1>1. CASE EndWand
    <2>1. pc' = "segment" /\ LeaveSegment /\ UNCHANGED <<query, todo, heap>>
      BY <1>1 DEF EndWand, LeaveSegment
    <2> QED BY <1>0, <2>1, HeapLeave, OffLoops DEF Sound
  <1>2. CASE ~EndWand
    <2>1. InWand'
      <3>1. CASE FindPivot \/ SkipBlocks \/ Realign \/ WrongTenant \/ ScorePivot \/ LoopAgain
        BY <3>1 DEF FindPivot, SkipBlocks, Realign, WrongTenant, ScorePivot, LoopAgain, InWand
      <3>2. CASE AdvanceTerm \/ RejectTerm
        BY <1>0, <3>2, LeaveStep DEF InWand, Leaving
      <3>3. CASE SeekTerm
        BY <3>3 DEF SeekTerm, InWand
      <3> QED BY <1>2, <3>1, <3>2, <3>3 DEF Wand
    <2>2. SingleInv'
      BY <2>1 DEF SingleInv, InWand
    <2>3. HeapSound'
      BY <1>2, HeapSeek, HeapTurn DEF Wand
    <2>4. PassInv'
      BY <1>0, <1>2, PassPivot, PassSeek, PassSkip, PassRealign, PassReject, PassScore, PassTurn DEF Wand
    <2> QED BY <1>0, <2>2, <2>3, <2>4 DEF Sound
  <1> QED BY <1>1, <1>2

(* Sound is inductive. *)
LEMMA SoundStep == Sound /\ [Next]_vars => Sound'
  BY SoundStutter, SoundSegment, SoundSingle, SoundWand DEF Next, Done

(* Sound implies SkippedCannotWin. *)
LEMMA SoundSkips == Sound => SkippedCannotWin
  <1> SUFFICES ASSUME Sound, pc = "pivot", BoundsCover, NEW d \in seg_matches(si), lo <= d, d <= hi,
                      ~(seg_score(si, d) <= threshold), ~(\E j \in DOMAIN heap : heap[j].seg = si /\ heap[j].doc = d),
                      NEW j \in DOMAIN terms, terms[j].found, \E p \in Range(list(terms[j])) : p.doc = d
               PROVE  term_current_doc_id(terms[j]) <= d
    BY DEF SkippedCannotWin
  <1>1. Loop /\ Base /\ InWand
    BY InLoop DEF Sound, Shape, InWand
  <1>2. DOMAIN terms = 1 .. nterms /\ QueryInv /\ InSegment /\ Valid(terms[j]) /\ threshold \in Nat
    BY <1>1, ThresholdNat DEF Loop, TermsAre
  <1>3. terms[j].q \in 1 .. nterms /\ has_term(seg, term_of(terms[j].q))
    BY <1>2 DEF Valid, TermState
  <1>4. Hits(terms[j].q, d)
    BY <1>2, <1>3, ListHits DEF list, term_of
  <1>5. ~InHeap(si, d)
    <2>1. DOMAIN heap = 1 .. Len(heap)
      BY <1>1 DEF Base, IsHeap, Heap
    <2> QED BY <2>1 DEF InHeap, Holds
  <1>6. seg_score(si, d) \in Nat
    BY <1>2, SegScoreNat DEF InSegment
  <1>7. Pending(d)
    BY <1>2, <1>5, <1>6 DEF Pending
  <1>8. NotPassed(d)
    BY <1>1, <1>7 DEF Sound, PassInv
  <1> QED BY <1>2, <1>4, <1>8 DEF NotPassed, Cur

(* Pivot selection, block-max skips and seeks lose no winner, for every query, posting list
   and block size: a matching document that some of its terms has left behind is in the
   heap or does not score above the threshold. *)
THEOREM NoWinnerSkipped == Spec => []SkippedCannotWin
  <1>1. Spec => []Sound
    BY SoundInit, SoundStep, PTL DEF Spec
  <1> QED BY <1>1, SoundSkips, PTL

-----------------------------------------------------------------------------
(* What was looked at is settled *)

(* A result is in the heap, or the heap is full of results that are not weaker. *)
Kept(e) == Holds(heap, e) \/ (Len(heap) >= query.k /\ e.score <= threshold)

(* All results of a segment are kept. *)
SegKept(n) == \A d \in seg_matches(n) : Kept(SegmentEntry(n, d, seg_score(n, d)))

(* The memtable documents scored and the segments left behind are settled. *)
Settled ==
    BoundsCover /\ RangesCover /\ pc # "done" =>
        /\ \A n \in 1 .. si - 1 : SegKept(n)
        /\ \A d \in mem_matches \ todo : Kept(MemtableEntry(d.ctid, mem_score(d)))

(* What is kept stays kept, since the threshold never falls. *)
LEMMA KeptKept ==
    ASSUME Base, Base', query' = query, NEW x, heap' = heap \/ Offered(x), NEW e, e.score \in Nat, Kept(e)
    PROVE  Kept(e)'
  <1>1. CASE heap' = heap
    BY <1>1 DEF Kept, threshold
  <1>2. CASE Offered(x)
    <2>1. Added(heap, heap', query.k, x)
      BY <1>2 DEF Offered
    <2>2. /\ IsHeap(heap) /\ IsHeap(heap') /\ Len(heap) \in Nat /\ Len(heap') \in Nat /\ query.k \in Nat \ {0}
          /\ Len(heap) <= Len(heap')
          /\ \A j \in 1 .. Len(heap) : Holds(heap', heap[j]) \/ (Len(heap') >= query.k /\ heap[j].score <= tp_topk_threshold(heap', query.k))
      BY <2>1 DEF Base, Added, IsHeap, QueryInv
    <2>3. threshold \in Nat /\ threshold' = tp_topk_threshold(heap', query.k) /\ threshold' \in Nat /\ threshold <= threshold'
      BY <1>2, <2>2, HeapThreshold, OfferedHolds DEF threshold
    <2>4. CASE Holds(heap, e)
      BY <2>2, <2>3, <2>4 DEF Kept, Holds
    <2>5. CASE Len(heap) >= query.k /\ e.score <= threshold
      BY <2>2, <2>3, <2>5 DEF Kept
    <2> QED BY <2>4, <2>5 DEF Kept
  <1> QED BY <1>1, <1>2

(* So do the results of a segment ... *)
LEMMA SegKeptKept ==
    ASSUME Base, Base', query' = query, NEW x, heap' = heap \/ Offered(x), NEW n \in 1 .. Len(query.segs), SegKept(n)
    PROVE  SegKept(n)'
  <1>1. seg_matches(n)' = seg_matches(n) /\ \A d : seg_score(n, d)' = seg_score(n, d)
    BY FrameQuery
  <1> SUFFICES ASSUME NEW d \in seg_matches(n) PROVE Kept(SegmentEntry(n, d, seg_score(n, d)))'
    BY <1>1 DEF SegKept
  <1>2. PICK e : e = SegmentEntry(n, d, seg_score(n, d))
    OBVIOUS
  <1>3. e.score \in Nat /\ Kept(e)
    BY <1>2, SegScoreNat DEF SegKept, SegmentEntry, Base
  <1>4. Kept(e)'
    BY <1>3, KeptKept
  <1> QED BY <1>1, <1>2, <1>4

(* ... and of the memtable. *)
LEMMA MemKeptKept ==
    ASSUME Base, Base', query' = query, NEW x, heap' = heap \/ Offered(x), NEW d \in mem_matches,
           Kept(MemtableEntry(d.ctid, mem_score(d)))
    PROVE  Kept(MemtableEntry(d.ctid, mem_score(d)))'
  <1>1. mem_score(d)' = mem_score(d)
    BY FrameQuery
  <1>2. PICK e : e = MemtableEntry(d.ctid, mem_score(d))
    OBVIOUS
  <1>3. d \in query.mem /\ QueryInv
    BY DEF mem_matches, Base
  <1>4. e.score \in Nat /\ Kept(e)
    BY <1>2, <1>3, MemEntry DEF MemtableEntry
  <1>5. Kept(e)'
    BY <1>4, KeptKept
  <1> QED BY <1>1, <1>2, <1>5

(* Steps within the memtable or a segment. *)
LEMMA SettledKeeps ==
    ASSUME Sound, Shape', Settled, UNCHANGED <<query, si>>, pc # "done",
           NEW x, heap' = heap \/ Offered(x), todo' \subseteq todo,
           \A d \in todo \ todo' : Kept(MemtableEntry(d.ctid, mem_score(d)))'
    PROVE  Settled'
  <1>a. Base /\ Base'
    BY DEF Sound, Shape
  <1>b. QueryInv /\ si \in 1 .. Len(query.segs) + 1
    BY <1>a DEF Base
  <1>c. Len(query.segs) \in Nat
    BY <1>b DEF QueryInv
  <1>1. Base /\ Base' /\ si \in Nat /\ si \in 1 .. Len(query.segs) + 1 /\ Len(query.segs) \in Nat
    BY <1>a, <1>b, <1>c
  <1> SUFFICES ASSUME (BoundsCover /\ RangesCover)'
               PROVE  /\ \A n \in 1 .. si - 1 : SegKept(n)'
                      /\ \A d \in mem_matches' \ todo' : Kept(MemtableEntry(d.ctid, mem_score(d)))'
    BY DEF Settled
  <1>2. BoundsCover /\ RangesCover /\ mem_matches' = mem_matches
    BY FrameQuery
  <1>3. /\ \A n \in 1 .. si - 1 : SegKept(n)
        /\ \A d \in mem_matches \ todo : Kept(MemtableEntry(d.ctid, mem_score(d)))
    BY <1>2 DEF Settled
  <1>4. ASSUME NEW n \in 1 .. si - 1 PROVE SegKept(n)'
    <2>1. n \in 1 .. Len(query.segs)
      BY <1>1
    <2> QED BY <1>1, <1>3, <2>1, SegKeptKept
  <1>5. ASSUME NEW d \in mem_matches' \ todo' PROVE Kept(MemtableEntry(d.ctid, mem_score(d)))'
    <2>1. CASE d \in todo
      BY <1>5, <2>1
    <2>2. CASE d \notin todo
      BY <1>1, <1>2, <1>3, <1>5, <2>2, MemKeptKept
    <2> QED BY <2>1, <2>2
  <1> QED BY <1>4, <1>5

(* A segment is left when it is settled. *)
LEMMA SettledLeaves ==
    ASSUME Sound, Shape', Settled, LeaveSegment, UNCHANGED <<query, todo, heap>>, pc # "done", InSegment,
           BoundsCover /\ RangesCover => SegKept(si)
    PROVE  Settled'
  <1>1. Base /\ Base' /\ si \in Nat /\ si' = si + 1 /\ Len(query.segs) \in Nat /\ si \in 1 .. Len(query.segs)
    <2>1. Base /\ Base'
      BY DEF Sound, Shape
    <2>2. si' = si + 1 /\ si \in 1 .. Len(query.segs)
      BY DEF LeaveSegment, InSegment
    <2>3. Len(query.segs) \in Nat
      BY <2>1 DEF Base, QueryInv
    <2> QED BY <2>1, <2>2, <2>3
  <1> SUFFICES ASSUME (BoundsCover /\ RangesCover)'
               PROVE  /\ \A n \in 1 .. si : SegKept(n)'
                      /\ \A d \in mem_matches' \ todo : Kept(MemtableEntry(d.ctid, mem_score(d)))'
    BY <1>1 DEF Settled
  <1>2. BoundsCover /\ RangesCover /\ mem_matches' = mem_matches
    BY FrameQuery
  <1>3. /\ \A n \in 1 .. si - 1 : SegKept(n)
        /\ \A d \in mem_matches \ todo : Kept(MemtableEntry(d.ctid, mem_score(d)))
    BY <1>2 DEF Settled
  <1>4. ASSUME NEW n \in 1 .. si PROVE SegKept(n)'
    <2>1. n \in 1 .. Len(query.segs) /\ (n \in 1 .. si - 1 \/ n = si)
      BY <1>1
    <2>2. SegKept(n)
      BY <1>2, <1>3, <2>1
    <2> QED BY <1>1, <2>1, <2>2, SegKeptKept
  <1>5. ASSUME NEW d \in mem_matches' \ todo PROVE Kept(MemtableEntry(d.ctid, mem_score(d)))'
    BY <1>1, <1>2, <1>3, <1>5, MemKeptKept
  <1> QED BY <1>4, <1>5

(* A part is not above the total. *)
LEMMA PartLeqTotal ==
    ASSUME NEW n \in Nat, NEW u \in [1 .. n -> Nat], NEW a \in 1 .. n
    PROVE  u[a] <= Total(u)
  <1>1. PICK x \in Nat : x = 0
    OBVIOUS
  <1>2. PICK w : w = [u EXCEPT ![a] = x]
    OBVIOUS
  <1>3. w \in [1 .. n -> Nat] /\ Total(w) + u[a] = Total(u) + x
    BY <1>2, TotalUpdate
  <1>4. Total(w) \in Nat /\ Total(u) \in Nat
    BY <1>3, TotalNat
  <1> QED BY <1>1, <1>3, <1>4

(* A matching document scores above 0. *)
LEMMA MatchPositive ==
    ASSUME QueryInv, InSegment, NEW d \in seg_matches(si)
    PROVE  seg_score(si, d) \in Nat /\ seg_score(si, d) > 0
  <1>1. Matching(d)
    BY MatchIs
  <1>2. PICK q \in 1 .. nterms : Hits(q, d)
    BY <1>1 DEF Matching
  <1>3. d \in 0 .. seg.num_docs - 1
    BY <1>2, HitsInSegment
  <1>4. PICK u : ScoreIs(d, u)
    BY <1>3, ScoreExists
  <1>5. PICK b, x : Place(q, b, x) /\ BlkDoc(q, b, x) = d
    BY <1>2 DEF Hits
  <1>6. u \in [1 .. nterms -> Nat] /\ seg_score(si, d) = Total(u) /\ u[q] > 0
    BY <1>2, <1>4, <1>5 DEF ScoreIs
  <1>7. nterms \in Nat
    BY DEF QueryInv
  <1>8. u[q] <= Total(u) /\ Total(u) \in Nat
    BY <1>6, <1>7, PartLeqTotal, TotalNat
  <1> QED BY <1>6, <1>8

(* The matching documents are within the range that is looked at. *)
LEMMA MatchInRange ==
    ASSUME QueryInv, InSegment, tenant_range # << >>, lo = tenant_range[1], hi = tenant_range[2], NEW d \in seg_matches(si)
    PROVE  lo <= d /\ d <= hi
  <1>1. Matching(d)
    BY MatchIs
  <1>2. d \in 0 .. seg.num_docs - 1 /\ (query.tenant = 0 \/ seg.tenant[d + 1] = query.tenant)
    BY <1>1 DEF Matching
  <1>3. \A x \in 0 .. seg.num_docs - 1 :
             IF query.tenant # 0 /\ seg.tenant_ordered
             THEN seg.tenant[x + 1] = query.tenant <=> tenant_range[1] <= x /\ x <= tenant_range[2]
             ELSE tenant_range[1] <= x /\ x <= tenant_range[2]
    BY TenantRange
  <1> QED BY <1>2, <1>3

(* Nothing is pending: the segment is settled. *)
LEMMA NothingPending ==
    ASSUME Sound, Working, BoundsCover, \A d : ~Pending(d)
    PROVE  SegKept(si)
  <1>1. /\ QueryInv /\ InSegment /\ tenant_range # << >> /\ lo = tenant_range[1] /\ hi = tenant_range[2]
        /\ Base /\ threshold \in Nat /\ HeapScored
    BY ThresholdNat DEF Sound, Shape, Base, RangeState, HeapSound
  <1> SUFFICES ASSUME NEW d \in seg_matches(si) PROVE Kept(SegmentEntry(si, d, seg_score(si, d)))
    BY DEF SegKept
  <1>2. lo <= d /\ d <= hi
    BY <1>1, MatchInRange
  <1>3. seg_score(si, d) \in Nat /\ seg_score(si, d) > 0
    BY <1>1, MatchPositive
  <1>4. ~Pending(d)
    OBVIOUS
  <1>5. ~(seg_score(si, d) > threshold) \/ InHeap(si, d)
    BY <1>2, <1>4 DEF Pending
  <1>6. CASE InHeap(si, d)
    <2>1. PICK e : Holds(heap, e) /\ e.seg = si /\ e.doc = d
      BY <1>6 DEF InHeap
    <2>2. si # NoSegment
      BY <1>1, LimitsAssumption, DocIdAssumption DEF QueryInv, InSegment
    <2>3. ~MemScored(e)
      BY <2>1, <2>2 DEF MemScored, MemtableEntry
    <2>4. SegScored(e)
      BY <1>1, <2>1, <2>3 DEF HeapScored
    <2>5. e = SegmentEntry(si, d, seg_score(si, d))
      BY <2>1, <2>4 DEF SegScored
    <2> QED BY <2>1, <2>5 DEF Kept
  <1>7. CASE ~(seg_score(si, d) > threshold)
    <2>1. seg_score(si, d) <= threshold /\ threshold # 0
      BY <1>1, <1>3, <1>7
    <2>2. Len(heap) >= query.k
      BY <2>1 DEF threshold, tp_topk_threshold
    <2> QED BY <2>1, <2>2 DEF Kept, SegmentEntry
  <1> QED BY <1>5, <1>6, <1>7

(* A scored memtable document is settled. *)
LEMMA SettledMemtable == Sound /\ Shape' /\ Settled /\ ScoreMemtableDoc => Settled'
  <1> SUFFICES ASSUME Sound, Shape', Settled, ScoreMemtableDoc PROVE Settled'
    OBVIOUS
  <1>0. Base /\ QueryInv
    BY DEF Sound, Shape, Base
  <1>1. UNCHANGED <<query, si, pc>> /\ pc = "memtable"
    BY DEF ScoreMemtableDoc
  <1>2. PICK d \in todo :
         /\ heap' = IF tp_topk_dominated(heap, query.k, mem_score(d)) THEN heap
                    ELSE tp_topk_add(heap, query.k, MemtableEntry(d.ctid, mem_score(d)))
         /\ todo' = todo \ {d}
    BY DEF ScoreMemtableDoc
  <1>3. d \in query.mem
    BY <1>0 DEF Base, mem_matches
  <1>4. PICK e : e = MemtableEntry(d.ctid, mem_score(d))
    OBVIOUS
  <1>5. e \in Entry /\ e.score = mem_score(d) /\ mem_score(d) \in Nat /\ mem_score(d)' = mem_score(d)
    BY <1>0, <1>1, <1>3, <1>4, MemEntry, FrameQuery DEF MemtableEntry
  <1>6. CASE heap' = heap /\ tp_topk_dominated(heap, query.k, mem_score(d))
    <2>1. Len(heap) >= query.k /\ mem_score(d) < threshold /\ threshold \in Nat
      BY <1>0, <1>6, ThresholdNat DEF tp_topk_dominated, threshold, tp_topk_threshold
    <2>2. e.score <= threshold
      BY <1>5, <2>1
    <2>3. Kept(e)'
      BY <1>1, <1>6, <2>1, <2>2 DEF Kept, threshold
    <2>4. \A x \in todo \ todo' : Kept(MemtableEntry(x.ctid, mem_score(x)))'
      BY <1>2, <1>4, <1>5, <2>3
    <2> QED BY <1>1, <1>2, <1>6, <2>4, SettledKeeps
  <1>7. CASE heap' = tp_topk_add(heap, query.k, e)
    <2>1. Offered(e)
      BY <1>0, <1>5, <1>7, HeapKept DEF Offered
    <2>2. Holds(heap', e) \/ (Len(heap') >= query.k /\ e.score <= tp_topk_threshold(heap', query.k))
      BY <2>1 DEF Offered, Added
    <2>3. Kept(e)'
      BY <1>1, <2>2 DEF Kept, threshold
    <2>4. \A x \in todo \ todo' : Kept(MemtableEntry(x.ctid, mem_score(x)))'
      BY <1>2, <1>4, <1>5, <2>3
    <2> QED BY <1>1, <1>2, <2>1, <2>4, SettledKeeps
  <1> QED BY <1>2, <1>4, <1>6, <1>7

(* A segment without any of the terms, or of the tenant, has no match. *)
LEMMA NoTermNoMatch ==
    ASSUME QueryInv, InSegment, \A q \in 1 .. nterms : ~has_term(seg, term_of(q))
    PROVE  SegKept(si)
  BY MatchIs DEF SegKept, Matching, Hits

(* Where the tenant ranges are complete, a skipped segment has no match. *)
LEMMA NoRangeNoMatch ==
    ASSUME QueryInv, InSegment, tenant_range = << >>, RangesCover
    PROVE  SegKept(si)
  <1>1. query.tenant # 0 /\ seg.tenant_ordered /\ tp_segment_get_tenant_doc_range(seg, query.tenant) = << >>
    BY DEF tenant_range
  <1>2. \A d \in 1 .. seg.num_docs : seg.tenant[d] # query.tenant
    BY <1>1 DEF RangesCover, seg, InSegment
  <1>3. seg.num_docs \in Nat
    BY SegOK DEF WellFormed
  <1> SUFFICES ASSUME NEW d \in seg_matches(si) PROVE FALSE
    BY DEF SegKept
  <1>4. d \in 0 .. seg.num_docs - 1 /\ (query.tenant = 0 \/ seg.tenant[d + 1] = query.tenant)
    BY MatchIs DEF Matching
  <1>5. d + 1 \in 1 .. seg.num_docs
    BY <1>3, <1>4
  <1> QED BY <1>1, <1>2, <1>4, <1>5

(* The steps between the loops keep Settled. *)
LEMMA SettledOpen == Sound /\ Shape' /\ Settled /\ (MemtableDone \/ SkipSegment \/ OpenSingle \/ OpenMulti) => Settled'
  <1> SUFFICES ASSUME Sound, Shape', Settled, MemtableDone \/ SkipSegment \/ OpenSingle \/ OpenMulti PROVE Settled'
    OBVIOUS
  <1>0. Shape /\ Base /\ QueryInv
    BY DEF Sound, Shape, Base
  <1>1. pc \in {"memtable", "segment"} /\ UNCHANGED <<query, todo, heap>>
    BY DEF MemtableDone, SkipSegment, OpenSingle, OpenMulti
  <1>2. CASE si' = si
    BY <1>1, <1>2, SettledKeeps
  <1>3. CASE MemtableDone
    <2>1. si' = si
      BY <1>3 DEF MemtableDone
    <2> QED BY <1>2, <2>1
  <1>4. CASE SkipSegment
    <2>1. LeaveSegment /\ InSegment /\ tenant_range = << >>
      BY <1>0, <1>4 DEF SkipSegment, InSegment, Base
    <2> QED BY <1>0, <1>1, <2>1, NoRangeNoMatch, SettledLeaves
  <1>5. CASE OpenSingle
    <2>1. CASE has_term(seg, query.terms[1].term)
      BY <1>2, <1>5, <2>1 DEF OpenSingle
    <2>2. CASE ~has_term(seg, query.terms[1].term)
      <3>1. LeaveSegment /\ InSegment /\ nterms = 1
        BY <1>0, <1>5, <2>2 DEF OpenSingle, InSegment, Base
      <3>2. \A q \in 1 .. nterms : ~has_term(seg, term_of(q))
        BY <2>2, <3>1 DEF term_of
      <3> QED BY <1>0, <1>1, <3>1, <3>2, NoTermNoMatch, SettledLeaves
    <2> QED BY <2>1, <2>2
  <1>6. CASE OpenMulti
    <2>1. CASE si' = si
      BY <1>2, <2>1
    <2>2. CASE LeaveSegment /\ \A q \in 1 .. nterms : ~has_term(seg, term_of(q))
      <3>1. InSegment
        BY <1>0, <1>6, OpenStep
      <3> QED BY <1>0, <1>1, <2>2, <3>1, NoTermNoMatch, SettledLeaves
    <2> QED BY <1>0, <1>6, <2>1, <2>2, OpenStep
  <1> QED BY <1>3, <1>4, <1>5, <1>6

(* The single-term loop ends with its segment settled. *)
LEMMA SettledSingle == Sound /\ Shape' /\ Settled /\ (SkipBlock \/ LoadBlock \/ ScorePosting \/ SingleDone) => Settled'
  <1> SUFFICES ASSUME Sound, Shape', Settled, SkipBlock \/ LoadBlock \/ ScorePosting \/ SingleDone PROVE Settled'
    OBVIOUS
  <1>0. Shape
    BY DEF Sound
  <1>1. CASE SkipBlock \/ LoadBlock
    <2>1. pc # "done" /\ UNCHANGED <<query, todo, heap, si>>
      BY <1>1 DEF SkipBlock, LoadBlock
    <2> QED BY <2>1, SettledKeeps
  <1>2. CASE ScorePosting
    <2>1. pc # "done" /\ UNCHANGED <<query, todo, si>>
      BY <1>0, <1>2, PostingStep
    <2>2. CASE heap' = heap
      BY <2>1, <2>2, SettledKeeps
    <2>3. CASE \E x : Offered(x)
      BY <2>1, <2>3, SettledKeeps
    <2> QED BY <1>0, <1>2, <2>2, <2>3, PostingStep DEF PostedLast, Posted
  <1>3. CASE SingleDone
    <2>1. pc = "block" /\ LeaveSegment /\ UNCHANGED <<query, todo, heap>> /\ block >= block_count(seg, single_term)
      BY <1>3 DEF SingleDone, single_term
    <2>2. SingleLoop /\ InSegment /\ Working
      BY <1>0, <2>1, InSingle DEF SingleLoop, Working
    <2>3. \A d : ~Ahead(d)
      BY <2>1, <2>2 DEF Ahead, Place, SingleLoop
    <2>4. BoundsCover => \A d : ~Pending(d)
      BY <2>1, <2>3 DEF Sound, SingleInv
    <2>5. BoundsCover => SegKept(si)
      BY <2>2, <2>4, NothingPending
    <2> QED BY <2>1, <2>2, <2>5, SettledLeaves
  <1> QED BY <1>1, <1>2, <1>3

(* The WAND loop ends when nothing is pending. *)
LEMMA EndNothingPending ==
    ASSUME Sound, EndWand, BoundsCover
    PROVE  \A d : ~Pending(d)
  <1> SUFFICES ASSUME NEW d, Pending(d) PROVE FALSE
    OBVIOUS
  <1>1. pc = "pivot" /\ ~pivot_found /\ InWand
    BY DEF EndWand, InWand
  <1>2. /\ NotPassed(d) /\ d \in Nat /\ d < UINT32_MAX /\ Loop /\ Base /\ d <= hi
        /\ ~(seg_score(si, d) <= threshold)
    BY <1>1, PendingInLoop
  <1>3. PICK u : ScoreIs(d, u)
    BY <1>1, PendingInLoop
  <1>4. pivot_terms # {}
    BY <1>2, <1>3, NoPivot
  <1>5. PICK n : PivotIs(n, find_wand_pivot)
    BY <1>2, <1>4, PivotFound
  <1>6. PICK p : p = find_wand_pivot
    OBVIOUS
  <1>7. PivotIs(n, p)
    BY <1>5, <1>6
  <1>8. ~(d < p.doc)
    BY <1>2, <1>3, <1>7, BeforePivot
  <1>9. p.doc <= hi
    BY <1>2, <1>7, <1>8 DEF PivotIs, Loop
  <1>10. active > 0
    <2>1. n \in 1 .. nterms /\ nterms \in Nat /\ ~terms[n].fin /\ Valid(terms[n]) /\ QueryInv /\ InSegment
      BY <1>2, <1>7 DEF PivotIs, Loop
    <2>2. terms[n].found
      BY <2>1, CurType
    <2>3. n \in LiveSet(terms)
      BY <2>1, <2>2 DEF LiveSet
    <2>4. IsFiniteSet(LiveSet(terms))
      <3>1. LiveSet(terms) \in SUBSET (1 .. nterms)
        BY DEF LiveSet
      <3> QED BY <2>1, <3>1, IntervalCard, FS_Subset
    <2>5. Cardinality(LiveSet(terms)) \in Nat /\ Cardinality(LiveSet(terms)) # 0
      BY <2>3, <2>4, FS_CardinalityType, FS_EmptySet
    <2> QED BY <1>2, <2>5 DEF Loop
  <1> QED BY <1>1, <1>4, <1>6, <1>9, <1>10 DEF pivot_found

(* The WAND loop ends with its segment settled: no pivot means that no document left can
   win. *)
LEMMA SettledWand == Sound /\ Shape' /\ Settled /\ Wand => Settled'
  <1> SUFFICES ASSUME Sound, Shape', Settled, Wand PROVE Settled'
    OBVIOUS
  <1>0. Shape
    BY DEF Sound
  <1>1. CASE EndWand
    <2>1. pc = "pivot" /\ LeaveSegment /\ UNCHANGED <<query, todo, heap>>
      BY <1>1 DEF EndWand
    <2>2. Working /\ InSegment
      BY <1>0, <2>1 DEF Working, Shape, RangeState
    <2>3. BoundsCover => SegKept(si)
      BY <1>1, <2>2, EndNothingPending, NothingPending
    <2> QED BY <2>1, <2>2, <2>3, SettledLeaves
  <1>2. CASE ScorePivot
    <2>0. pc # "done" /\ UNCHANGED <<query, todo, si>>
      BY <1>2 DEF ScorePivot, Seeked
    <2>1. CASE BoundsCover
      <3>1. heap' = heap \/ \E x : Offered(x)
        BY <1>2, <2>1, ScoreStep
      <3> QED BY <2>0, <3>1, SettledKeeps
    <2>2. CASE ~BoundsCover
      BY <2>0, <2>2, FrameQuery DEF Settled
    <2> QED BY <2>1, <2>2
  <1>3. CASE AdvanceTerm \/ RejectTerm
    <2>1. pc # "done" /\ UNCHANGED <<query, todo, heap, si>>
      BY <1>0, <1>3, LeaveStep DEF Leaving
    <2> QED BY <2>1, SettledKeeps
  <1>4. CASE FindPivot \/ SeekTerm \/ SkipBlocks \/ Realign \/ WrongTenant \/ LoopAgain
    <2>1. pc # "done" /\ UNCHANGED <<query, todo, heap, si>>
      BY <1>4 DEF FindPivot, SeekTerm, SkipBlocks, Realign, WrongTenant, LoopAgain, Seeked
    <2> QED BY <2>1, SettledKeeps
  <1> QED BY <1>1, <1>2, <1>3, <1>4 DEF Wand

(* Settled holds at the start. *)
LEMMA SettledInit == Init => Settled
  <1> SUFFICES ASSUME Init PROVE Settled
    OBVIOUS
  <1>1. si = 1 /\ todo = mem_matches
    BY DEF Init
  <1>2. 1 .. si - 1 = {}
    BY <1>1
  <1> QED BY <1>1, <1>2 DEF Settled

(* Settled is inductive, given Sound. *)
LEMMA SettledStep == Sound /\ Settled /\ [Next]_vars => Settled'
  <1> SUFFICES ASSUME Sound, Settled, [Next]_vars PROVE Settled'
    OBVIOUS
  <1>0. Shape'
    BY ShapeStep DEF Sound
  <1>1. CASE Extract
    BY <1>1 DEF Extract, Settled
  <1>2. CASE UNCHANGED vars
    <2>1. UNCHANGED <<query, todo, heap, si, pc>>
      BY <1>2 DEF vars
    <2>2. CASE pc = "done"
      BY <2>1, <2>2 DEF Settled
    <2>3. CASE pc # "done"
      BY <1>0, <2>1, <2>3, SettledKeeps
    <2> QED BY <2>2, <2>3
  <1>3. CASE Next /\ ~Extract /\ ~Done
    BY <1>0, <1>3, SettledMemtable, SettledOpen, SettledSingle, SettledWand DEF Next
  <1> QED BY <1>1, <1>2, <1>3 DEF Done

-----------------------------------------------------------------------------
(* Counting the best results *)

(* g lists n <= k of the records M without repetition; what it leaves out is not better than
   any of the k it lists. *)
Best(g, n, k, M) ==
    /\ n \in 0 .. k /\ g \in [1 .. n -> M] /\ \A a, b \in 1 .. n : g[a] = g[b] => a = b
    /\ \A m \in M : (\E j \in 1 .. n : g[j] = m) \/ (n = k /\ \A j \in 1 .. n : m.score <= g[j].score)

(* g lists records of M without repetition. *)
Listed(g, n, M) == g \in [1 .. n -> M] /\ \A a, b \in 1 .. n : g[a] = g[b] => a = b

(* The positions R of the list hold records of B, all of them when the two are as many. *)
Counted(g, n, R, B) ==
    /\ Cardinality(R) \in Nat /\ Cardinality(B) \in Nat /\ Cardinality(R) <= Cardinality(B) /\ Cardinality(R) <= n
    /\ (\A x \in B : \E j \in R : g[j] = x) => Cardinality(R) = Cardinality(B)

(* Counting some of the records listed. *)
LEMMA ListedCard ==
    ASSUME NEW n \in Nat, NEW M, IsFiniteSet(M), NEW g, Listed(g, n, M),
           NEW R \in SUBSET (1 .. n), NEW B \in SUBSET M, \A j \in R : g[j] \in B
    PROVE  Counted(g, n, R, B)
  <1>0. g \in [1 .. n -> M] /\ \A a, b \in 1 .. n : g[a] = g[b] => a = b
    BY DEF Listed
  <1>1. PICK N : N = 1 .. n
    OBVIOUS
  <1>a. IsFiniteSet(N) /\ Cardinality(N) = n
    BY <1>1, IntervalCard
  <1>b. R \in SUBSET N
    BY <1>1
  <1>c. IsFiniteSet(R) /\ Cardinality(R) <= Cardinality(N)
    BY <1>a, <1>b, FS_Subset
  <1>d. IsFiniteSet(B)
    BY FS_Subset
  <1>2. IsFiniteSet(R) /\ IsFiniteSet(B) /\ Cardinality(R) <= n
    BY <1>a, <1>c, <1>d
  <1>3. Cardinality(R) \in Nat /\ Cardinality(B) \in Nat
    BY <1>2, FS_CardinalityType
  <1>4. PICK h : h = [j \in R |-> g[j]]
    OBVIOUS
  <1>5. h \in [R -> B] /\ (\A a, b \in R : h[a] = h[b] => a = b) /\ \A j \in R : h[j] = g[j]
    BY <1>0, <1>4
  <1>6. Cardinality(R) <= Cardinality(B)
    BY <1>2, <1>5, OneToOneCard
  <1>7. ASSUME \A x \in B : \E j \in R : g[j] = x PROVE Cardinality(R) = Cardinality(B)
    <2>1. \A x \in B : \E j \in R : h[j] = x
      BY <1>5, <1>7
    <2> QED BY <1>2, <1>5, <2>1, OntoCard
  <1> QED BY <1>2, <1>3, <1>6, <1>7 DEF Counted

(* The k best records are as many as there are, k at most. *)
LEMMA BestLength ==
    ASSUME NEW k \in Nat \ {0}, NEW n, NEW M, IsFiniteSet(M), NEW g, Best(g, n, k, M)
    PROVE  n = Min({k, Cardinality(M)})
  <1>1. /\ n \in Nat /\ n <= k /\ g \in [1 .. n -> M] /\ (\A a, b \in 1 .. n : g[a] = g[b] => a = b)
        /\ \A m \in M : (\E j \in 1 .. n : g[j] = m) \/ n = k
    BY DEF Best
  <1>2. PICK R : R = 1 .. n
    OBVIOUS
  <1>a. Listed(g, n, M) /\ R \in SUBSET (1 .. n) /\ M \in SUBSET M /\ \A j \in R : g[j] \in M
    BY <1>1, <1>2 DEF Listed
  <1>b. Counted(g, n, R, M)
    BY <1>1, <1>a, ListedCard
  <1>3. /\ Cardinality(R) \in Nat /\ Cardinality(M) \in Nat /\ Cardinality(R) <= Cardinality(M)
        /\ (\A x \in M : \E j \in R : g[j] = x) => Cardinality(R) = Cardinality(M)
    BY <1>b DEF Counted
  <1>4. Cardinality(R) = n
    BY <1>1, <1>2, IntervalCard
  <1>5. n = k \/ n = Cardinality(M)
    BY <1>1, <1>2, <1>3, <1>4
  <1> QED BY <1>1, <1>3, <1>4, <1>5, MinTwo

(* As many of the n listed records as k allows score at least what m does. *)
AtLeast(g, n, k, M, m) ==
    Cardinality({j \in 1 .. n : g[j].score >= m.score}) = Min({k, Cardinality({x \in M : x.score >= m.score})})

(* Of the records that score at least as much as a given one, the k best hold all or k. *)
LEMMA BestCount ==
    ASSUME NEW k \in Nat \ {0}, NEW n, NEW M, IsFiniteSet(M), \A x \in M : x.score \in Nat, NEW g, Best(g, n, k, M), NEW m \in M
    PROVE  AtLeast(g, n, k, M, m)
  <1>1. /\ n \in Nat /\ n <= k /\ g \in [1 .. n -> M] /\ (\A a, b \in 1 .. n : g[a] = g[b] => a = b)
        /\ \A x \in M : (\E j \in 1 .. n : g[j] = x) \/ (n = k /\ \A j \in 1 .. n : x.score <= g[j].score)
    BY DEF Best
  <1>2. PICK R : R = {j \in 1 .. n : g[j].score >= m.score}
    OBVIOUS
  <1>3. PICK B : B = {x \in M : x.score >= m.score}
    OBVIOUS
  <1>4. R \in SUBSET (1 .. n) /\ B \in SUBSET M /\ \A j \in R : g[j] \in B
    BY <1>1, <1>2, <1>3
  <1>5. /\ Cardinality(R) \in Nat /\ Cardinality(B) \in Nat /\ Cardinality(R) <= Cardinality(B) /\ Cardinality(R) <= n
        /\ (\A x \in B : \E j \in R : g[j] = x) => Cardinality(R) = Cardinality(B)
    <2>1. Listed(g, n, M)
      BY <1>1 DEF Listed
    <2>2. Counted(g, n, R, B)
      BY <1>1, <1>4, <2>1, ListedCard
    <2> QED BY <2>2 DEF Counted
  <1>6. CASE \A x \in B : \E j \in 1 .. n : g[j] = x
    <2>1. \A x \in B : \E j \in R : g[j] = x
      BY <1>2, <1>3, <1>6
    <2>2. Cardinality(R) = Cardinality(B) /\ Cardinality(B) <= k
      BY <1>1, <1>5, <2>1
    <2> QED BY <1>2, <1>3, <1>5, <2>2, MinTwo DEF AtLeast
  <1>7. CASE ~(\A x \in B : \E j \in 1 .. n : g[j] = x)
    <2>1. PICK x \in B : ~(\E j \in 1 .. n : g[j] = x)
      BY <1>7
    <2>2. n = k /\ (\A j \in 1 .. n : x.score <= g[j].score) /\ x.score >= m.score /\ x \in M
      BY <1>1, <1>3, <2>1
    <2>3. R = 1 .. n
      <3>1. ASSUME NEW j \in 1 .. n PROVE g[j].score >= m.score
        <4>1. x.score <= g[j].score /\ g[j].score \in Nat /\ x.score \in Nat /\ m.score \in Nat
          BY <1>1, <2>2
        <4> QED BY <2>2, <4>1
      <3> QED BY <1>2, <3>1
    <2>4. Cardinality(R) = n
      BY <1>1, <2>3, IntervalCard
    <2>5. k <= Cardinality(B) /\ Cardinality(R) = k
      BY <1>5, <2>2, <2>4
    <2> QED BY <1>2, <1>3, <1>5, <2>5, MinTwo DEF AtLeast
  <1> QED BY <1>6, <1>7

-----------------------------------------------------------------------------
(* What matches *)

MemMatch(d) == [seg |-> 0, id |-> d.ctid, score |-> mem_score(d), ctid |-> d.ctid]
SegMatch(n, d) == [seg |-> n, id |-> d, score |-> seg_score(n, d), ctid |-> tp_segment_lookup_ctid(query.segs[n], d)]

(* The matches, one by one. *)
LEMMA MatchesAre ==
    /\ \A m \in Matches : \/ \E d \in mem_matches : m = MemMatch(d)
                          \/ \E n \in 1 .. Len(query.segs) : \E d \in seg_matches(n) : m = SegMatch(n, d)
    /\ \A d \in mem_matches : MemMatch(d) \in Matches
    /\ \A n \in 1 .. Len(query.segs) : \A d \in seg_matches(n) : SegMatch(n, d) \in Matches
  BY DEF Matches, MemMatch, SegMatch

(* The image of a finite set is finite. *)
LEMMA FiniteImage ==
    ASSUME NEW S, IsFiniteSet(S), NEW T, NEW f \in [S -> T], \A y \in T : \E x \in S : f[x] = y
    PROVE  IsFiniteSet(T)
  <1>1. f \in Surjection(S, T)
    BY DEF Surjection
  <1> QED BY <1>1, FS_Surjection

(* There are finitely many matches, and their scores are naturals. *)
LEMMA MatchesFinite ==
    ASSUME QueryInv
    PROVE  IsFiniteSet(Matches) /\ \A m \in Matches : m.score \in Nat
  <1>1. PICK A : A = {MemMatch(d) : d \in mem_matches}
    OBVIOUS
  <1>2. IsFiniteSet(A)
    <2>1. IsFiniteSet(mem_matches)
      <3>1. mem_matches \in SUBSET query.mem /\ IsFiniteSet(query.mem)
        BY DEF mem_matches, QueryInv
      <3> QED BY <3>1, FS_Subset
    <2>2. PICK f : f = [d \in mem_matches |-> MemMatch(d)]
      OBVIOUS
    <2>3. f \in [mem_matches -> A] /\ \A y \in A : \E x \in mem_matches : f[x] = y
      BY <1>1, <2>2
    <2> QED BY <2>1, <2>3, FiniteImage
  <1>3. PICK seglist : seglist = [n \in 1 .. Len(query.segs) |-> {SegMatch(n, d) : d \in seg_matches(n)}]
    OBVIOUS
  <1>4. ASSUME NEW n \in 1 .. Len(query.segs) PROVE IsFiniteSet(seglist[n])
    <2>0. PICK S : S = seg_matches(n)
      OBVIOUS
    <2>1. IsFiniteSet(S)
      <3>1. query.segs[n].num_docs \in Nat
        BY DEF QueryInv, WellFormed
      <3>2. PICK last : last = query.segs[n].num_docs - 1
        OBVIOUS
      <3>3. S \in SUBSET (0 .. last) /\ last \in Int
        BY <2>0, <3>1, <3>2 DEF seg_matches
      <3>4. IsFiniteSet(0 .. last)
        BY <3>3, FS_Interval
      <3> QED BY <3>3, <3>4, FS_Subset
    <2>2. PICK f : f = [d \in S |-> SegMatch(n, d)]
      OBVIOUS
    <2>3. PICK T : T = seglist[n]
      OBVIOUS
    <2>4. f \in [S -> T] /\ \A y \in T : \E x \in S : f[x] = y
      BY <1>3, <2>0, <2>2, <2>3
    <2> QED BY <2>1, <2>3, <2>4, FiniteImage
  <1>5. PICK U : U = {seglist[n] : n \in 1 .. Len(query.segs)}
    OBVIOUS
  <1>6. IsFiniteSet(U)
    <2>1. Len(query.segs) \in Nat
      BY DEF QueryInv
    <2>2. PICK N : N = 1 .. Len(query.segs)
      OBVIOUS
    <2>3. IsFiniteSet(N)
      BY <2>1, <2>2, IntervalCard
    <2>4. PICK f : f = [n \in N |-> seglist[n]]
      OBVIOUS
    <2>5. f \in [N -> U] /\ \A y \in U : \E x \in N : f[x] = y
      BY <1>5, <2>2, <2>4
    <2> QED BY <2>3, <2>5, FiniteImage
  <1>7. IsFiniteSet(UNION U)
    BY <1>4, <1>5, <1>6, FS_UNION
  <1>8. IsFiniteSet(A \cup UNION U)
    BY <1>2, <1>7, FS_Union
  <1>9. Matches \in SUBSET (A \cup UNION U)
    <2> SUFFICES ASSUME NEW m \in Matches PROVE m \in A \cup UNION U
      OBVIOUS
    <2>1. CASE \E d \in mem_matches : m = MemMatch(d)
      BY <1>1, <2>1
    <2>2. CASE \E n \in 1 .. Len(query.segs) : \E d \in seg_matches(n) : m = SegMatch(n, d)
      <3>1. PICK n \in 1 .. Len(query.segs) : \E d \in seg_matches(n) : m = SegMatch(n, d)
        BY <2>2
      <3>2. m \in seglist[n] /\ seglist[n] \in U
        BY <1>3, <1>5, <3>1
      <3> QED BY <3>2
    <2> QED BY <2>1, <2>2, MatchesAre
  <1>10. IsFiniteSet(Matches)
    BY <1>8, <1>9, FS_Subset
  <1>11. ASSUME NEW m \in Matches PROVE m.score \in Nat
    <2>1. CASE \E d \in mem_matches : m = MemMatch(d)
      <3>1. PICK d \in mem_matches : m = MemMatch(d)
        BY <2>1
      <3>2. d \in query.mem
        BY DEF mem_matches
      <3> QED BY <3>1, <3>2, MemEntry DEF MemMatch
    <2>2. CASE \E n \in 1 .. Len(query.segs) : \E d \in seg_matches(n) : m = SegMatch(n, d)
      BY <2>2, SegScoreNat DEF SegMatch
    <2> QED BY <2>1, <2>2, MatchesAre
  <1> QED BY <1>10, <1>11

-----------------------------------------------------------------------------
(* The answer *)

(* The match that an entry of the heap stands for, and the row made of it. *)
MatchOf(e) ==
    IF e.seg = NoSegment THEN [seg |-> 0, id |-> e.ctid, score |-> e.score, ctid |-> e.ctid]
    ELSE [seg |-> e.seg, id |-> e.doc, score |-> e.score, ctid |-> tp_segment_lookup_ctid(query.segs[e.seg], e.doc)]

(* The match of a memtable entry. *)
LEMMA MemMatchOf ==
    ASSUME NEW d, NEW e, e = MemtableEntry(d.ctid, mem_score(d))
    PROVE  MatchOf(e) = MemMatch(d) /\ e.seg = NoSegment /\ e.ctid = d.ctid /\ e.score = mem_score(d)
  BY DEF MatchOf, MemMatch, MemtableEntry

(* The match of a segment entry. *)
LEMMA SegMatchOf ==
    ASSUME QueryInv, NEW n \in 1 .. Len(query.segs), NEW d, NEW e, e = SegmentEntry(n, d, seg_score(n, d))
    PROVE  MatchOf(e) = SegMatch(n, d) /\ e.seg = n /\ e.doc = d /\ e.seg # NoSegment /\ e.score = seg_score(n, d)
  <1>1. n # NoSegment
    BY LimitsAssumption, DocIdAssumption DEF QueryInv
  <1> QED BY <1>1 DEF MatchOf, SegMatch, SegmentEntry

(* Every entry stands for a match ... *)
LEMMA HeldMatch ==
    ASSUME Sound, BoundsCover, NEW e, Holds(heap, e)
    PROVE  \/ \E d \in mem_matches : e = MemtableEntry(d.ctid, mem_score(d)) /\ MatchOf(e) = MemMatch(d) /\ MatchOf(e) \in Matches
           \/ \E n \in 1 .. Len(query.segs) : \E d \in seg_matches(n) :
                 e = SegmentEntry(n, d, seg_score(n, d)) /\ MatchOf(e) = SegMatch(n, d) /\ MatchOf(e) \in Matches
  <1>1. QueryInv /\ (MemScored(e) \/ SegScored(e))
    BY DEF Sound, Shape, Base, HeapSound, HeapScored
  <1>2. CASE MemScored(e)
    <2>1. PICK d \in mem_matches : e = MemtableEntry(d.ctid, mem_score(d))
      BY <1>2 DEF MemScored
    <2> QED BY <2>1, MemMatchOf, MatchesAre
  <1>3. CASE SegScored(e)
    <2>1. PICK n : n = e.seg
      OBVIOUS
    <2>2. PICK d : d = e.doc
      OBVIOUS
    <2>3. n \in 1 .. Len(query.segs) /\ d \in seg_matches(n) /\ e = SegmentEntry(n, d, seg_score(n, d))
      BY <1>3, <2>1, <2>2 DEF SegScored
    <2>4. MatchOf(e) = SegMatch(n, d)
      BY <1>1, <2>3, SegMatchOf
    <2> QED BY <2>3, <2>4, MatchesAre
  <1> QED BY <1>1, <1>2, <1>3

(* ... and no two of them for the same row. *)
LEMMA MatchCtid ==
    ASSUME QueryInv
    PROVE  /\ \A d, x \in mem_matches : d.ctid = x.ctid => d = x
           /\ \A d \in mem_matches : \A n \in 1 .. Len(query.segs) : \A x \in seg_matches(n) :
                 MemMatch(d).ctid # SegMatch(n, x).ctid
           /\ \A n, m \in 1 .. Len(query.segs) : \A d \in seg_matches(n), x \in seg_matches(m) :
                 SegMatch(n, d).ctid = SegMatch(m, x).ctid => n = m /\ d = x
  <1>1. OneCtid
    BY DEF QueryInv
  <1>2. mem_matches \subseteq query.mem
    BY DEF mem_matches
  <1>3. ASSUME NEW n \in 1 .. Len(query.segs), NEW d \in seg_matches(n)
        PROVE  /\ d \in Nat /\ d + 1 \in 1 .. query.segs[n].num_docs /\ SegMatch(n, d).ctid = query.segs[n].ctid[d + 1]
    <2>1. query.segs[n].num_docs \in Nat
      BY DEF QueryInv, WellFormed
    <2>2. d \in 0 .. query.segs[n].num_docs - 1
      BY DEF seg_matches
    <2> QED BY <2>1, <2>2 DEF SegMatch, tp_segment_lookup_ctid
  <1>4. \A d, x \in mem_matches : d.ctid = x.ctid => d = x
    BY <1>1, <1>2 DEF OneCtid
  <1>5. ASSUME NEW d \in mem_matches, NEW n \in 1 .. Len(query.segs), NEW x \in seg_matches(n)
        PROVE  MemMatch(d).ctid # SegMatch(n, x).ctid
    <2>1. MemMatch(d).ctid = d.ctid /\ d \in query.mem
      BY <1>2 DEF MemMatch
    <2> QED BY <1>1, <1>3, <2>1 DEF OneCtid
  <1>6. ASSUME NEW n \in 1 .. Len(query.segs), NEW m \in 1 .. Len(query.segs), NEW d \in seg_matches(n), NEW x \in seg_matches(m),
               SegMatch(n, d).ctid = SegMatch(m, x).ctid
        PROVE  n = m /\ d = x
    <2>1. d \in Nat /\ x \in Nat /\ d + 1 \in 1 .. query.segs[n].num_docs /\ x + 1 \in 1 .. query.segs[m].num_docs
      BY <1>3
    <2>2. query.segs[n].ctid[d + 1] = query.segs[m].ctid[x + 1]
      BY <1>3, <1>6
    <2>3. n = m /\ d + 1 = x + 1
      BY <1>1, <2>1, <2>2 DEF OneCtid
    <2> QED BY <2>1, <2>3
  <1> QED BY <1>4, <1>5, <1>6

(* No two entries of the heap stand for the same row. *)
LEMMA HeldCtid ==
    ASSUME Sound, BoundsCover, NEW e, Holds(heap, e), NEW f, Holds(heap, f), MatchOf(e).ctid = MatchOf(f).ctid
    PROVE  e = f
  <1>0. QueryInv
    BY DEF Sound, Shape, Base
  <1>1. CASE \E d \in mem_matches : e = MemtableEntry(d.ctid, mem_score(d)) /\ MatchOf(e) = MemMatch(d)
    <2>1. PICK d \in mem_matches : e = MemtableEntry(d.ctid, mem_score(d)) /\ MatchOf(e) = MemMatch(d)
      BY <1>1
    <2>2. CASE \E x \in mem_matches : f = MemtableEntry(x.ctid, mem_score(x)) /\ MatchOf(f) = MemMatch(x)
      <3>1. PICK x \in mem_matches : f = MemtableEntry(x.ctid, mem_score(x)) /\ MatchOf(f) = MemMatch(x)
        BY <2>2
      <3>2. d.ctid = x.ctid
        BY <2>1, <3>1 DEF MemMatch
      <3>3. d = x
        BY <1>0, <3>2, MatchCtid
      <3> QED BY <2>1, <3>1, <3>3
    <2>3. CASE \E n \in 1 .. Len(query.segs) : \E x \in seg_matches(n) : MatchOf(f) = SegMatch(n, x)
      BY <1>0, <2>1, <2>3, MatchCtid
    <2> QED BY <2>2, <2>3, HeldMatch
  <1>2. CASE \E n \in 1 .. Len(query.segs) : \E d \in seg_matches(n) :
                 e = SegmentEntry(n, d, seg_score(n, d)) /\ MatchOf(e) = SegMatch(n, d)
    <2>1. PICK n \in 1 .. Len(query.segs) : \E d \in seg_matches(n) :
                 e = SegmentEntry(n, d, seg_score(n, d)) /\ MatchOf(e) = SegMatch(n, d)
      BY <1>2
    <2>2. PICK d \in seg_matches(n) : e = SegmentEntry(n, d, seg_score(n, d)) /\ MatchOf(e) = SegMatch(n, d)
      BY <2>1
    <2>3. CASE \E x \in mem_matches : MatchOf(f) = MemMatch(x)
      BY <1>0, <2>2, <2>3, MatchCtid
    <2>4. CASE \E m \in 1 .. Len(query.segs) : \E x \in seg_matches(m) :
                 f = SegmentEntry(m, x, seg_score(m, x)) /\ MatchOf(f) = SegMatch(m, x)
      <3>1. PICK m \in 1 .. Len(query.segs) : \E x \in seg_matches(m) :
                 f = SegmentEntry(m, x, seg_score(m, x)) /\ MatchOf(f) = SegMatch(m, x)
        BY <2>4
      <3>2. PICK x \in seg_matches(m) : f = SegmentEntry(m, x, seg_score(m, x)) /\ MatchOf(f) = SegMatch(m, x)
        BY <3>1
      <3>3. SegMatch(n, d).ctid = SegMatch(m, x).ctid
        BY <2>2, <3>2
      <3>4. n = m /\ d = x
        BY <1>0, <3>3, MatchCtid
      <3> QED BY <2>2, <3>2, <3>4
    <2> QED BY <2>3, <2>4, HeldMatch
  <1> QED BY <1>1, <1>2, HeldMatch

(* After the last segment every match is in the heap, or the heap is full of better ones. *)
MemtableScored == pc # "memtable" => todo = {}

(* When the last segment is done, a match is in the heap or the heap is full of results
   that are not weaker. *)
LEMMA MatchHeld ==
    ASSUME Sound, Settled, MemtableScored, BoundsCover, RangesCover, pc = "segment", si > Len(query.segs), NEW m \in Matches
    PROVE  (\E e : Holds(heap, e) /\ MatchOf(e) = m) \/ (Len(heap) >= query.k /\ m.score <= threshold)
  <1>1. QueryInv /\ todo = {} /\ Len(query.segs) \in Nat /\ si \in Nat
    BY DEF Sound, Shape, Base, MemtableScored, QueryInv
  <1>2. /\ \A n \in 1 .. si - 1 : SegKept(n)
        /\ \A d \in mem_matches : Kept(MemtableEntry(d.ctid, mem_score(d)))
    BY <1>1 DEF Settled
  <1>3. CASE \E d \in mem_matches : m = MemMatch(d)
    <2>1. PICK d \in mem_matches : m = MemMatch(d)
      BY <1>3
    <2>2. PICK e : e = MemtableEntry(d.ctid, mem_score(d))
      OBVIOUS
    <2>3. MatchOf(e) = m /\ e.score = m.score
      BY <2>1, <2>2, MemMatchOf DEF MemMatch
    <2>4. Kept(e)
      BY <1>2, <2>2
    <2> QED BY <2>3, <2>4 DEF Kept
  <1>4. CASE \E n \in 1 .. Len(query.segs) : \E d \in seg_matches(n) : m = SegMatch(n, d)
    <2>1. PICK n \in 1 .. Len(query.segs) : \E d \in seg_matches(n) : m = SegMatch(n, d)
      BY <1>4
    <2>a. PICK d \in seg_matches(n) : m = SegMatch(n, d)
      BY <2>1
    <2>2. PICK e : e = SegmentEntry(n, d, seg_score(n, d))
      OBVIOUS
    <2>3. MatchOf(e) = m /\ e.score = m.score
      BY <1>1, <2>a, <2>2, SegMatchOf DEF SegMatch
    <2>4. n \in 1 .. si - 1
      BY <1>1
    <2>5. Kept(e)
      BY <1>2, <2>2, <2>4 DEF SegKept
    <2> QED BY <2>3, <2>5 DEF Kept
  <1> QED BY <1>3, <1>4, MatchesAre

(* MemtableScored holds at the start. *)
LEMMA ScoredInit == Init => MemtableScored
  BY DEF Init, MemtableScored

(* The memtable is done before the first segment is opened. *)
LEMMA ScoredStep == MemtableScored /\ [Next]_vars => MemtableScored'
  <1> SUFFICES ASSUME MemtableScored, [Next]_vars PROVE MemtableScored'
    OBVIOUS
  <1>1. CASE ScoreMemtableDoc
    BY <1>1 DEF ScoreMemtableDoc, MemtableScored
  <1>2. CASE MemtableDone
    BY <1>2 DEF MemtableDone, MemtableScored
  <1>3. CASE SkipSegment \/ OpenSingle \/ OpenMulti \/ SkipBlock \/ LoadBlock \/ ScorePosting \/ SingleDone
    <2>1. pc # "memtable" /\ todo' = todo
      BY <1>3 DEF SkipSegment, OpenSingle, OpenMulti, SkipBlock, LoadBlock, ScorePosting, SingleDone
    <2> QED BY <2>1 DEF MemtableScored
  <1>4. CASE Wand
    <2>1. CASE EndWand \/ FindPivot \/ SeekTerm \/ SkipBlocks \/ Realign \/ WrongTenant \/ ScorePivot \/ LoopAgain
      <3>1. pc # "memtable" /\ todo' = todo
        BY <2>1 DEF EndWand, FindPivot, SeekTerm, SkipBlocks, Realign, WrongTenant, ScorePivot, LoopAgain, Seeked
      <3> QED BY <3>1 DEF MemtableScored
    <2>2. CASE AdvanceTerm \/ RejectTerm
      <3>1. pc # "memtable" /\ todo' = todo
        BY <2>2 DEF AdvanceTerm, RejectTerm, MoveTerm
      <3> QED BY <3>1 DEF MemtableScored
    <2> QED BY <1>4, <2>1, <2>2 DEF Wand
  <1>5. CASE Extract \/ Done \/ UNCHANGED vars
    <2>1. todo' = todo /\ (pc # "memtable" \/ pc' = pc)
      BY <1>5 DEF Extract, Done, vars
    <2> QED BY <2>1 DEF MemtableScored
  <1> QED BY <1>1, <1>2, <1>3, <1>4, <1>5 DEF Next

-----------------------------------------------------------------------------
(* The rows returned *)

(* The document maps that tp_topk_resolve_ctids reads. *)
LookupCtid == [s \in DOMAIN query.segs |-> query.segs[s].ctid]

(* The row r is made of the match m. *)
RowOf(r, m) == r.score = m.score /\ r.ctid = m.ctid

(* The rows r are the entries of the heap in the order f. *)
Answer(r, f) ==
    /\ Len(r) = Len(heap) /\ DOMAIN r = 1 .. Len(heap)
    /\ \A j \in 1 .. Len(heap) : RowOf(r[j], MatchOf(heap[f[j]]))
    /\ \A a, b \in 1 .. Len(heap) : a < b => ~compare_heap_entries(r[b], r[a])

(* tp_topk_resolve_ctids makes of an entry the row that its match stands for. *)
LEMMA ResolvedRow ==
    ASSUME Sound, BoundsCover, NEW w, w = tp_topk_resolve_ctids(heap, LookupCtid), NEW x \in 1 .. Len(heap)
    PROVE  RowOf(w[x], MatchOf(heap[x]))
  <1>1. IsHeap(heap) /\ QueryInv
    BY DEF Sound, Shape, Base
  <1>2. Len(heap) \in Nat /\ DOMAIN heap = 1 .. Len(heap) /\ heap[x] \in Entry
    BY <1>1 DEF IsHeap, Heap
  <1>3. PICK e : e = heap[x]
    OBVIOUS
  <1>4. Holds(heap, e)
    BY <1>3 DEF Holds
  <1>5. w[x] = IF e.seg = NoSegment THEN e ELSE [e EXCEPT !.ctid = LookupCtid[e.seg][e.doc + 1], !.seg = NoSegment]
    BY <1>2, <1>3 DEF tp_topk_resolve_ctids
  <1>6. CASE e.seg = NoSegment
    BY <1>3, <1>5, <1>6 DEF RowOf, MatchOf
  <1>7. CASE e.seg # NoSegment
    <2>1. PICK n \in 1 .. Len(query.segs) : \E d \in seg_matches(n) : e = SegmentEntry(n, d, seg_score(n, d))
      BY <1>4, <1>7, HeldMatch, MemMatchOf
    <2>2. PICK d \in seg_matches(n) : e = SegmentEntry(n, d, seg_score(n, d))
      BY <2>1
    <2>3. e.seg = n /\ e.doc = d
      BY <2>2 DEF SegmentEntry
    <2>4. LookupCtid[n] = query.segs[n].ctid
      BY <1>1 DEF LookupCtid, QueryInv
    <2>5. w[x].ctid = query.segs[n].ctid[d + 1] /\ w[x].score = e.score
      BY <1>2, <1>3, <1>5, <1>7, <2>3, <2>4 DEF Entry
    <2>6. MatchOf(e).ctid = query.segs[n].ctid[d + 1] /\ MatchOf(e).score = e.score
      BY <1>7, <2>3 DEF MatchOf, tp_segment_lookup_ctid
    <2> QED BY <1>3, <2>5, <2>6 DEF RowOf
  <1> QED BY <1>6, <1>7

(* tp_topk_extract returns the rows of the heap, in descending order. *)
LEMMA Answered ==
    ASSUME Sound, BoundsCover, NEW r \in tp_topk_extract(tp_topk_resolve_ctids(heap, LookupCtid))
    PROVE  \E f \in Perms(Len(heap)) : Answer(r, f)
  <1>1. IsHeap(heap)
    BY DEF Sound, Shape, Base
  <1>2. Len(heap) \in Nat /\ DOMAIN heap = 1 .. Len(heap)
    BY <1>1 DEF IsHeap, Heap
  <1>3. PICK w : w = tp_topk_resolve_ctids(heap, LookupCtid)
    OBVIOUS
  <1>4. DOMAIN w = 1 .. Len(heap)
    BY <1>2, <1>3 DEF tp_topk_resolve_ctids
  <1>5. r \in arrangements(w) /\ \A a, b \in DOMAIN r : a < b => ~compare_heap_entries(r[b], r[a])
    BY <1>3 DEF tp_topk_extract
  <1>6. PICK f \in {g \in [DOMAIN w -> DOMAIN w] : IsInjective(g)} : r = [j \in DOMAIN w |-> w[f[j]]]
    BY <1>5 DEF arrangements
  <1>7. f \in Perms(Len(heap))
    BY <1>4, <1>6 DEF Perms, IsInjective
  <1>8. r = [j \in 1 .. Len(heap) |-> w[f[j]]]
    BY <1>4, <1>6
  <1>9. Len(r) = Len(heap) /\ DOMAIN r = 1 .. Len(heap)
    BY <1>2, <1>8
  <1>10. ASSUME NEW j \in 1 .. Len(heap) PROVE RowOf(r[j], MatchOf(heap[f[j]]))
    <2>1. f[j] \in 1 .. Len(heap) /\ r[j] = w[f[j]]
      BY <1>4, <1>6, <1>8
    <2>2. PICK x \in 1 .. Len(heap) : x = f[j]
      BY <2>1
    <2>3. RowOf(w[x], MatchOf(heap[x]))
      BY <1>3, ResolvedRow
    <2> QED BY <2>1, <2>2, <2>3
  <1>11. Answer(r, f)
    BY <1>5, <1>9, <1>10 DEF Answer
  <1> QED BY <1>7, <1>11

(* The matches that the rows stand for are the k best. *)
LEMMA AnswerBest ==
    ASSUME Sound, Settled, MemtableScored, BoundsCover, RangesCover, pc = "segment", si > Len(query.segs),
           NEW f \in Perms(Len(heap)), NEW g, g = [j \in 1 .. Len(heap) |-> MatchOf(heap[f[j]])]
    PROVE  Best(g, Len(heap), query.k, Matches)
  <1>1. IsHeap(heap) /\ QueryInv /\ Len(heap) <= query.k /\ Distinct(heap)
    BY DEF Sound, Shape, Base, HeapSound
  <1>2. PICK n \in Nat : n = Len(heap)
    BY <1>1 DEF IsHeap
  <1>3. query.k \in Nat /\ n <= query.k /\ n \in 0 .. query.k /\ Heap(heap, n)
    BY <1>1, <1>2 DEF QueryInv, IsHeap
  <1>4. f \in [1 .. n -> 1 .. n] /\ \A a, b \in 1 .. n : f[a] = f[b] => a = b
    BY <1>2 DEF Perms, IsInjective
  <1>5. \A j \in 1 .. n : Holds(heap, heap[f[j]])
    BY <1>2, <1>4 DEF Holds
  <1>6. \A j \in 1 .. n : g[j] = MatchOf(heap[f[j]])
    BY <1>2
  <1>7. ASSUME NEW j \in 1 .. n PROVE g[j] \in Matches
    <2>1. PICK e : e = heap[f[j]]
      OBVIOUS
    <2>2. Holds(heap, e)
      BY <1>5, <2>1
    <2>3. MatchOf(e) \in Matches
      BY <2>2, HeldMatch
    <2> QED BY <1>6, <2>1, <2>3
  <1>8. g \in [1 .. n -> Matches]
    BY <1>2, <1>7
  <1>9. ASSUME NEW a \in 1 .. n, NEW b \in 1 .. n, g[a] = g[b] PROVE a = b
    <2>1. PICK x : x = heap[f[a]]
      OBVIOUS
    <2>2. PICK y : y = heap[f[b]]
      OBVIOUS
    <2>3. Holds(heap, x) /\ Holds(heap, y) /\ MatchOf(x).ctid = MatchOf(y).ctid
      BY <1>5, <1>6, <1>9, <2>1, <2>2
    <2>4. x = y
      BY <2>3, HeldCtid
    <2>5. f[a] \in 1 .. Len(heap) /\ f[b] \in 1 .. Len(heap)
      BY <1>2, <1>4
    <2>6. f[a] = f[b]
      BY <1>1, <2>1, <2>2, <2>4, <2>5 DEF Distinct
    <2> QED BY <1>4, <2>6
  <1>10. ASSUME NEW m \in Matches
         PROVE  (\E j \in 1 .. n : g[j] = m) \/ (n = query.k /\ \A j \in 1 .. n : m.score <= g[j].score)
    <2>1. CASE \E e : Holds(heap, e) /\ MatchOf(e) = m
      <3>1. PICK e : Holds(heap, e) /\ MatchOf(e) = m
        BY <2>1
      <3>2. PICK x \in 1 .. n : heap[x] = e
        BY <1>2, <3>1 DEF Holds
      <3>3. PICK j \in 1 .. n : f[j] = x
        BY <1>2, PermOnto
      <3> QED BY <1>6, <3>1, <3>2, <3>3
    <2>2. CASE Len(heap) >= query.k /\ m.score <= threshold
      <3>1. n = query.k
        BY <1>2, <1>3, <2>2
      <3>2. threshold = heap[1].score
        BY <2>2 DEF threshold, tp_topk_threshold
      <3>3. ASSUME NEW j \in 1 .. n PROVE m.score <= g[j].score
        <4>1. PICK x \in 1 .. n : x = f[j]
          BY <1>4
        <4>2. heap[1].score <= heap[x].score /\ heap[1] \in Entry /\ heap[x] \in Entry
          BY <1>3, RootWeakest
        <4>a. PICK e : e = heap[x]
          OBVIOUS
        <4>b. MatchOf(e).score = e.score
          BY DEF MatchOf
        <4>3. g[j].score = heap[x].score
          BY <1>6, <4>1, <4>a, <4>b
        <4>4. m.score \in Nat /\ heap[1].score \in Nat /\ heap[x].score \in Nat
          BY <1>1, <4>2, MatchesFinite DEF Entry
        <4> QED BY <2>2, <3>2, <4>2, <4>3, <4>4
      <3> QED BY <3>1, <3>3
    <2> QED BY <2>1, <2>2, MatchHeld
  <1> QED BY <1>2, <1>3, <1>8, <1>9, <1>10 DEF Best

(* Their scores are the k best of the exhaustive evaluation ... *)
LEMMA AnswerScores ==
    ASSUME Sound, Settled, MemtableScored, BoundsCover, RangesCover, pc = "segment", si > Len(query.segs),
           NEW r \in tp_topk_extract(tp_topk_resolve_ctids(heap, LookupCtid))
    PROVE  /\ \A j \in 1 .. Len(r) - 1 : r[j].score >= r[j + 1].score
           /\ Len(r) = Min({query.k, Cardinality(Matches)})
           /\ \A m \in Matches : Cardinality({j \in DOMAIN r : r[j].score >= m.score})
                                     = Min({query.k, Cardinality({x \in Matches : x.score >= m.score})})
  <1>1. PICK f \in Perms(Len(heap)) : Answer(r, f)
    BY Answered
  <1>2. PICK g : g = [j \in 1 .. Len(heap) |-> MatchOf(heap[f[j]])]
    OBVIOUS
  <1>3. QueryInv /\ IsHeap(heap)
    BY DEF Sound, Shape, Base
  <1>4. PICK n \in Nat : n = Len(heap)
    BY <1>3 DEF IsHeap
  <1>5. PICK k \in Nat \ {0} : k = query.k
    BY <1>3 DEF QueryInv
  <1>6. PICK M : M = Matches
    OBVIOUS
  <1>7. Best(g, n, k, M)
    BY <1>1, <1>2, <1>4, <1>5, <1>6, AnswerBest
  <1>8. IsFiniteSet(M) /\ \A x \in M : x.score \in Nat
    BY <1>3, <1>6, MatchesFinite
  <1>9. /\ Len(r) = n /\ DOMAIN r = 1 .. n
        /\ \A j \in 1 .. n : r[j].score = g[j].score
        /\ \A a, b \in 1 .. n : a < b => ~compare_heap_entries(r[b], r[a])
    BY <1>1, <1>2, <1>4 DEF Answer, RowOf
  <1>10. \A j \in 1 .. n : g[j] \in M
    BY <1>7 DEF Best
  <1>11. ASSUME NEW j \in 1 .. n - 1 PROVE r[j].score >= r[j + 1].score
    <2>1. j \in 1 .. n /\ j + 1 \in 1 .. n /\ j < j + 1
      BY <1>4
    <2>2. ~compare_heap_entries(r[j + 1], r[j])
      BY <1>9, <2>1
    <2>3. ~(r[j + 1].score > r[j].score)
      BY <2>2 DEF compare_heap_entries
    <2>4. r[j].score \in Nat /\ r[j + 1].score \in Nat
      BY <1>8, <1>9, <1>10, <2>1
    <2> QED BY <2>3, <2>4
  <1>12. Len(r) = Min({k, Cardinality(M)})
    BY <1>7, <1>8, <1>9, BestLength
  <1>13. ASSUME NEW m \in M
         PROVE  Cardinality({j \in DOMAIN r : r[j].score >= m.score}) = Min({k, Cardinality({x \in M : x.score >= m.score})})
    <2>1. {j \in DOMAIN r : r[j].score >= m.score} = {j \in 1 .. n : g[j].score >= m.score}
      BY <1>9
    <2>2. Cardinality({j \in 1 .. n : g[j].score >= m.score}) = Min({k, Cardinality({x \in M : x.score >= m.score})})
      <3>1. AtLeast(g, n, k, M, m)
        BY <1>7, <1>8, BestCount
      <3> QED BY <3>1 DEF AtLeast
    <2> QED BY <2>1, <2>2
  <1> QED BY <1>5, <1>6, <1>9, <1>11, <1>12, <1>13

(* ... and each is a different row that matches, with its full score. *)
LEMMA AnswerRows ==
    ASSUME Sound, BoundsCover, NEW r \in tp_topk_extract(tp_topk_resolve_ctids(heap, LookupCtid))
    PROVE  /\ \A j \in DOMAIN r : \E m \in Matches : m.ctid = r[j].ctid /\ m.score = r[j].score
           /\ \A j, n \in DOMAIN r : j # n => r[j].ctid # r[n].ctid
  <1>1. PICK f \in Perms(Len(heap)) : Answer(r, f)
    BY Answered
  <1>2. IsHeap(heap) /\ Distinct(heap)
    BY DEF Sound, Shape, Base, HeapSound
  <1>3. PICK n \in Nat : n = Len(heap)
    BY <1>2 DEF IsHeap
  <1>4. f \in [1 .. n -> 1 .. n] /\ \A a, b \in 1 .. n : f[a] = f[b] => a = b
    BY <1>3 DEF Perms, IsInjective
  <1>5. \A j \in 1 .. n : Holds(heap, heap[f[j]])
    BY <1>3, <1>4 DEF Holds
  <1>6. DOMAIN r = 1 .. n /\ \A j \in 1 .. n : RowOf(r[j], MatchOf(heap[f[j]]))
    BY <1>1, <1>3 DEF Answer
  <1>7. ASSUME NEW j \in 1 .. n PROVE \E m \in Matches : m.ctid = r[j].ctid /\ m.score = r[j].score
    <2>1. PICK e : e = heap[f[j]]
      OBVIOUS
    <2>2. Holds(heap, e)
      BY <1>5, <2>1
    <2>3. MatchOf(e) \in Matches
      BY <2>2, HeldMatch
    <2> QED BY <1>6, <2>1, <2>3 DEF RowOf
  <1>8. ASSUME NEW a \in 1 .. n, NEW b \in 1 .. n, r[a].ctid = r[b].ctid PROVE a = b
    <2>1. PICK x : x = heap[f[a]]
      OBVIOUS
    <2>2. PICK y : y = heap[f[b]]
      OBVIOUS
    <2>3. Holds(heap, x) /\ Holds(heap, y) /\ MatchOf(x).ctid = MatchOf(y).ctid
      BY <1>5, <1>6, <1>8, <2>1, <2>2 DEF RowOf
    <2>4. x = y
      BY <2>3, HeldCtid
    <2>5. f[a] \in 1 .. Len(heap) /\ f[b] \in 1 .. Len(heap)
      BY <1>3, <1>4
    <2>6. f[a] = f[b]
      BY <1>2, <2>1, <2>2, <2>4, <2>5 DEF Distinct
    <2> QED BY <1>4, <2>6
  <1> QED BY <1>6, <1>7, <1>8

(* The inductive invariant behind ResultsExact. *)
Exact == Sound /\ Settled /\ MemtableScored /\ ResultsExact

(* The last step makes the answer exact. *)
LEMMA ExactExtract == Sound /\ Settled /\ MemtableScored /\ Extract => ResultsExact'
  <1> SUFFICES ASSUME Sound, Settled, MemtableScored, Extract PROVE ResultsExact'
    OBVIOUS
  <1>1. /\ pc = "segment" /\ si > Len(query.segs) /\ query' = query
        /\ result' \in tp_topk_extract(tp_topk_resolve_ctids(heap, LookupCtid))
    BY DEF Extract, LookupCtid
  <1>2. BoundsCover' = BoundsCover /\ RangesCover' = RangesCover /\ Matches' = Matches
    BY <1>1, FrameQuery
  <1>3. PICK r : r = result'
    OBVIOUS
  <1>4. r \in tp_topk_extract(tp_topk_resolve_ctids(heap, LookupCtid))
    BY <1>1, <1>3
  <1>5. TopKScoresIfBounded'
    <2> SUFFICES ASSUME BoundsCover', RangesCover' PROVE TopKScores'
      BY DEF TopKScoresIfBounded
    <2>1. /\ \A j \in 1 .. Len(r) - 1 : r[j].score >= r[j + 1].score
          /\ Len(r) = Min({query.k, Cardinality(Matches)})
          /\ \A m \in Matches : Cardinality({j \in DOMAIN r : r[j].score >= m.score})
                                    = Min({query.k, Cardinality({x \in Matches : x.score >= m.score})})
      BY <1>1, <1>2, <1>4, AnswerScores
    <2> QED BY <1>1, <1>2, <1>3, <2>1 DEF TopKScores
  <1>6. ResultsSound'
    <2> SUFFICES ASSUME BoundsCover'
                 PROVE  /\ \A j \in DOMAIN result' : \E m \in Matches' : m.ctid = result'[j].ctid /\ m.score = result'[j].score
                        /\ \A j, n \in DOMAIN result' : j # n => result'[j].ctid # result'[n].ctid
      BY DEF ResultsSound
    <2>1. /\ \A j \in DOMAIN r : \E m \in Matches : m.ctid = r[j].ctid /\ m.score = r[j].score
          /\ \A j, n \in DOMAIN r : j # n => r[j].ctid # r[n].ctid
      BY <1>2, <1>4, AnswerRows
    <2> QED BY <1>2, <1>3, <2>1
  <1> QED BY <1>5, <1>6 DEF ResultsExact

(* No other step touches the answer. *)
LEMMA ExactElse == Sound /\ ResultsExact /\ [Next]_vars /\ ~Extract => ResultsExact'
  <1> SUFFICES ASSUME Sound, ResultsExact, [Next]_vars, ~Extract PROVE ResultsExact'
    OBVIOUS
  <1>1. CASE UNCHANGED vars
    <2>1. UNCHANGED <<query, result, pc>>
      BY <1>1 DEF vars
    <2>2. BoundsCover' = BoundsCover /\ RangesCover' = RangesCover /\ Matches' = Matches
      BY <2>1, FrameQuery
    <2>3. TopKScores' = TopKScores
      BY <2>1, <2>2 DEF TopKScores
    <2>4. TopKScoresIfBounded'
      BY <2>1, <2>2, <2>3 DEF ResultsExact, TopKScoresIfBounded
    <2>5. ResultsSound'
      BY <2>1, <2>2 DEF ResultsExact, ResultsSound
    <2> QED BY <2>4, <2>5 DEF ResultsExact
  <1>2. CASE pc' # "done"
    BY <1>2 DEF ResultsExact, TopKScoresIfBounded, ResultsSound
  <1>3. CASE Wand
    <2>1. CASE AdvanceTerm \/ RejectTerm
      <3>1. pc' # "done"
        BY <2>1, LeaveStep DEF Leaving, Sound
      <3> QED BY <1>2, <3>1
    <2>2. CASE ~(AdvanceTerm \/ RejectTerm)
      <3>1. pc' # "done"
        <4>1. CASE EndWand \/ FindPivot \/ SkipBlocks \/ Realign \/ WrongTenant \/ ScorePivot \/ LoopAgain
          BY <4>1 DEF EndWand, FindPivot, SkipBlocks, Realign, WrongTenant, ScorePivot, LoopAgain, LeaveSegment
        <4>2. CASE SeekTerm
          BY <4>2 DEF SeekTerm
        <4> QED BY <1>3, <2>2, <4>1, <4>2 DEF Wand
      <3> QED BY <1>2, <3>1
    <2> QED BY <2>1, <2>2
  <1>4. CASE Next /\ ~Wand /\ ~Done
    <2>1. pc' # "done"
      <3>1. CASE ScoreMemtableDoc \/ MemtableDone \/ SkipSegment \/ OpenMulti \/ SkipBlock \/ LoadBlock \/ ScorePosting \/ SingleDone
        <4>1. pc' = pc \/ pc' # "done"
          BY <3>1 DEF ScoreMemtableDoc, MemtableDone, SkipSegment, OpenMulti, SkipBlock, LoadBlock, ScorePosting, SingleDone, LeaveSegment
        <4>2. pc # "done"
          BY <3>1 DEF ScoreMemtableDoc, MemtableDone, SkipSegment, OpenMulti, SkipBlock, LoadBlock, ScorePosting, SingleDone
        <4> QED BY <4>1, <4>2
      <3>2. CASE OpenSingle
        BY <3>2 DEF OpenSingle, LeaveSegment
      <3> QED BY <1>4, <3>1, <3>2 DEF Next
    <2> QED BY <1>2, <2>1
  <1> QED BY <1>1, <1>3, <1>4 DEF Done

(* There is no answer at the start. *)
LEMMA ExactInit == Init => ResultsExact
  BY DEF Init, ResultsExact, TopKScoresIfBounded, ResultsSound

(* Exact is inductive. *)
LEMMA ExactStep == Exact /\ [Next]_vars => Exact'
  BY SoundStep, SettledStep, ScoredStep, ExactExtract, ExactElse DEF Exact

(* The answer of a query is exact, for every memtable, set of segments, query and k: where
   the stored block bounds cover the scores, every row returned matches, has its full score
   and is returned once; where the tenant ranges are complete too, the scores returned are
   the k best of the exhaustive evaluation, in descending order. *)
THEOREM AnswersExact == Spec => []ResultsExact
  <1>1. Init => Exact
    BY SoundInit, SettledInit, ScoredInit, ExactInit DEF Exact
  <1>2. Exact => ResultsExact
    BY DEF Exact
  <1> QED BY <1>1, <1>2, ExactStep, PTL DEF Spec
=============================================================================
