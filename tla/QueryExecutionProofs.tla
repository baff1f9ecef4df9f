------------------------ MODULE QueryExecutionProofs ------------------------
(***************************************************************************)
(* Theorems about QueryExecution for every catalog, every set of           *)
(* statements, every number of documents and every limit.                  *)
(***************************************************************************)
EXTENDS QueryExecution, FiniteSetTheorems, WellFoundedInduction, TLAPS

----------------------------------------------------------------------------
(* The operators of the model *)

(* A set of naturals that is not empty has a least element. *)
LEMMA MinNat ==
    ASSUME NEW S \in SUBSET Nat, S # {}
    PROVE  Min(S) \in S /\ \A y \in S : Min(S) <= y
  <1>1. IsWellFoundedOn(OpToRel(<, Nat), Nat)
    BY NatLessThanWellFounded
  <1>2. PICK x \in S : \A y \in S : ~(<<y, x>> \in OpToRel(<, Nat))
    BY <1>1, WFMin
  <1>3. \A y \in S : ~(y < x)
    BY <1>2 DEF OpToRel
  <1>4. \A y \in S : x <= y
    BY <1>3
  <1> QED BY <1>4 DEF Min

(* The smaller of two naturals. *)
LEMMA MinTwo ==
    ASSUME NEW a \in Nat, NEW b \in Nat
    PROVE  /\ Min({a, b}) \in Nat
           /\ Min({a, b}) = IF a <= b THEN a ELSE b
  <1>1. Min({a, b}) \in {a, b} /\ \A y \in {a, b} : Min({a, b}) <= y
    BY MinNat
  <1> QED BY <1>1

(* Documents that tie are told apart by their ctids, so ranking puts every *)
(* document in a place of its own: it lists a set of documents completely  *)
(* and without repetition.                                                 *)
Better(S, d) == {e \in S : doc_score_greater(e, d)}

LEMMA GreaterOrders ==
    /\ \A d \in Docs : ~doc_score_greater(d, d)
    /\ \A d, e \in Docs : d # e => doc_score_greater(d, e) \/ doc_score_greater(e, d)
    /\ \A c, d, e \in Docs : doc_score_greater(c, d) /\ doc_score_greater(d, e) => doc_score_greater(c, e)
    /\ \A d, e \in Docs : doc_score_greater(d, e) => Score[d] >= Score[e]
    /\ \A d, e \in Docs : Score[d] > Score[e] => doc_score_greater(d, e)
  <1>1. /\ \A d \in Docs : Score[d] \in Int /\ Ctid[d] \in Int
        /\ \A d, e \in Docs : d # e => Ctid[d] # Ctid[e]
    BY ScoreAssumption
  <1> QED BY <1>1 DEF doc_score_greater

LEMMA RankInjective ==
    ASSUME NEW S \in SUBSET Docs
    PROVE  /\ IsFiniteSet(S) /\ Cardinality(S) \in Nat
           /\ \A d \in S : Cardinality(Better(S, d)) \in 0 .. Cardinality(S) - 1
           /\ \A d, e \in S : d # e => Cardinality(Better(S, d)) # Cardinality(Better(S, e))
  <1>1. IsFiniteSet(S) /\ Cardinality(S) \in Nat
    BY ScoreAssumption, FS_Subset, FS_CardinalityType
  <1>2. ASSUME NEW d \in S
        PROVE  /\ IsFiniteSet(Better(S, d))
               /\ Cardinality(Better(S, d)) \in 0 .. Cardinality(S) - 1
    <2>1. Better(S, d) \in SUBSET (S \ {d})
      BY GreaterOrders DEF Better
    <2>2. IsFiniteSet(S \ {d}) /\ Cardinality(S \ {d}) = Cardinality(S) - 1
      BY <1>1, FS_RemoveElement
    <2>3. /\ IsFiniteSet(Better(S, d))
          /\ Cardinality(Better(S, d)) <= Cardinality(S \ {d})
      BY <2>1, <2>2, FS_Subset
    <2>4. Cardinality(Better(S, d)) \in Nat
      BY <2>3, FS_CardinalityType
    <2> QED BY <1>1, <2>2, <2>3, <2>4
  <1>3. ASSUME NEW d \in S, NEW e \in S, doc_score_greater(d, e)
        PROVE  Cardinality(Better(S, d)) < Cardinality(Better(S, e))
    <2>1. d \notin Better(S, d) /\ Better(S, d) \cup {d} \in SUBSET Better(S, e)
      BY <1>3, GreaterOrders DEF Better
    <2>2. Cardinality(Better(S, d) \cup {d}) = Cardinality(Better(S, d)) + 1
      BY <1>2, <2>1, FS_AddElement
    <2>3. Cardinality(Better(S, d) \cup {d}) <= Cardinality(Better(S, e))
      BY <1>2, <2>1, FS_Subset
    <2>4. Cardinality(Better(S, d)) \in Nat /\ Cardinality(Better(S, e)) \in Nat
      BY <1>2
    <2> QED BY <2>2, <2>3, <2>4
  <1>4. ASSUME NEW d \in S, NEW e \in S, d # e
        PROVE  Cardinality(Better(S, d)) # Cardinality(Better(S, e))
    <2>1. doc_score_greater(d, e) \/ doc_score_greater(e, d)
      BY <1>4, GreaterOrders
    <2>2. Cardinality(Better(S, d)) \in Nat /\ Cardinality(Better(S, e)) \in Nat
      BY <1>2
    <2> QED BY <1>3, <2>1, <2>2
  <1> QED BY <1>1, <1>2, <1>4

LEMMA RankingLists ==
    ASSUME NEW S \in SUBSET Docs
    PROVE  /\ IsFiniteSet(S) /\ Cardinality(S) \in Nat
           /\ ranking(S) \in Seq(S) /\ Len(ranking(S)) = Cardinality(S)
           /\ \A d \in S : \E n \in 1 .. Cardinality(S) : ranking(S)[n] = d
           /\ \A n \in 1 .. Cardinality(S) :
                ranking(S)[n] \in S /\ Cardinality(Better(S, ranking(S)[n])) = n - 1
  <1> DEFINE c == Cardinality(S)
             rank == [d \in S |-> Cardinality(Better(S, d)) + 1]
  <1>1. IsFiniteSet(S) /\ c \in Nat
    BY RankInjective
  <1>2. rank \in [S -> 1 .. c]
    <2>1. ASSUME NEW d \in S PROVE Cardinality(Better(S, d)) + 1 \in 1 .. c
      <3>1. Cardinality(Better(S, d)) \in 0 .. c - 1
        BY RankInjective
      <3> QED BY <1>1, <3>1
    <2> QED BY <2>1
  <1>3. \A d, e \in S : rank[d] = rank[e] => d = e
    <2>1. ASSUME NEW d \in S, NEW e \in S, d # e PROVE rank[d] # rank[e]
      <3>1. /\ Cardinality(Better(S, d)) \in 0 .. c - 1
            /\ Cardinality(Better(S, e)) \in 0 .. c - 1
            /\ Cardinality(Better(S, d)) # Cardinality(Better(S, e))
        BY <2>1, RankInjective
      <3> QED BY <3>1
    <2> QED BY <2>1
  <1>4. rank \in Injection(S, 1 .. c)
    <2> HIDE DEF rank, c
    <2> QED BY <1>2, <1>3 DEF Injection, IsInjective
  <1>5. IsFiniteSet(1 .. c) /\ Cardinality(1 .. c) = c
    BY <1>1, FS_Interval
  <1>6. rank \in Surjection(S, 1 .. c)
    BY <1>4, <1>5, FS_Injection
  <1>7. \A n \in 1 .. c : \E d \in S : rank[d] = n
    BY <1>6 DEF Surjection
  <1>8. \A d \in S, n \in 1 .. c : rank[d] = n <=> Cardinality(Better(S, d)) = n - 1
    <2> SUFFICES ASSUME NEW d \in S, NEW n \in 1 .. c
                 PROVE  Cardinality(Better(S, d)) + 1 = n <=> Cardinality(Better(S, d)) = n - 1
      OBVIOUS
    <2>1. Cardinality(Better(S, d)) \in 0 .. c - 1
      BY RankInjective
    <2> QED BY <2>1
  <1> HIDE DEF rank
  <1>9. ranking(S) = [n \in 1 .. c |-> CHOOSE d \in S : Cardinality(Better(S, d)) = n - 1]
    BY DEF ranking, Better
  <1>10. \A n \in 1 .. c : ranking(S)[n] \in S /\ rank[ranking(S)[n]] = n
    <2> SUFFICES ASSUME NEW n \in 1 .. c
                 PROVE  ranking(S)[n] \in S /\ rank[ranking(S)[n]] = n
      OBVIOUS
    <2>1. \E d \in S : Cardinality(Better(S, d)) = n - 1
      BY <1>7, <1>8
    <2>2. ranking(S)[n] \in S /\ Cardinality(Better(S, ranking(S)[n])) = n - 1
      BY <1>9, <2>1
    <2> QED BY <1>8, <2>2
  <1>11. ranking(S) \in [1 .. c -> S]
    BY <1>9, <1>10
  <1>12. ranking(S) \in Seq(S) /\ Len(ranking(S)) = c
    BY <1>1, <1>11
  <1>13. ASSUME NEW d \in S PROVE \E n \in 1 .. c : ranking(S)[n] = d
    BY <1>2, <1>3, <1>10
  <1>14. \A n \in 1 .. c : ranking(S)[n] \in S /\ Cardinality(Better(S, ranking(S)[n])) = n - 1
    BY <1>8, <1>10
  <1> QED BY <1>1, <1>12, <1>13, <1>14

(* Of a set M, take documents T that none of the others outscores: place   *)
(* by place they have the scores of the best of M, whatever ties there are *)
(* at the cut.                                                             *)
LEMMA BestScores ==
    ASSUME NEW M \in SUBSET Docs, NEW T \in SUBSET M,
           \A d \in T, e \in M \ T : Score[d] >= Score[e],
           NEW n \in 1 .. Cardinality(T)
    PROVE  /\ Cardinality(T) \in Nat /\ Cardinality(M) \in Nat /\ Cardinality(T) <= Cardinality(M)
           /\ ranking(T)[n] \in M /\ Score[ranking(T)[n]] = Score[ranking(M)[n]]
  <1>1. /\ IsFiniteSet(M) /\ IsFiniteSet(T) /\ Cardinality(M) \in Nat /\ Cardinality(T) \in Nat
        /\ Cardinality(T) <= Cardinality(M)
    <2>1. IsFiniteSet(M)
      BY ScoreAssumption, FS_Subset
    <2> QED BY <2>1, FS_Subset, FS_CardinalityType
  <1>2. n \in 1 .. Cardinality(M)
    BY <1>1
  <1>3. PICK t \in T : t = ranking(T)[n] /\ Cardinality(Better(T, t)) = n - 1
    BY RankingLists
  <1>4. PICK m \in M : m = ranking(M)[n] /\ Cardinality(Better(M, m)) = n - 1
    BY <1>2, RankingLists
  <1>5. t \in Docs /\ m \in Docs /\ Score[t] \in Int /\ Score[m] \in Int
    BY ScoreAssumption
  <1>6. /\ IsFiniteSet(Better(T, t)) /\ IsFiniteSet(Better(M, m))
        /\ t \notin Better(T, t) /\ m \notin Better(M, m)
    <2>1. Better(T, t) \in SUBSET T /\ Better(M, m) \in SUBSET M
      BY DEF Better
    <2>2. t \notin Better(T, t) /\ m \notin Better(M, m)
      BY <1>5, GreaterOrders DEF Better
    <2> QED BY <1>1, <2>1, <2>2, FS_Subset
  <1>7. /\ Cardinality(Better(T, t) \cup {t}) = n
        /\ Cardinality(Better(M, m) \cup {m}) = n
    <2>1. /\ Cardinality(Better(T, t) \cup {t}) = Cardinality(Better(T, t)) + 1
          /\ Cardinality(Better(M, m) \cup {m}) = Cardinality(Better(M, m)) + 1
      BY <1>6, FS_AddElement
    <2> QED BY <1>3, <1>4, <2>1
  <1>8. ~(Score[t] > Score[m])
    <2> SUFFICES ASSUME Score[t] > Score[m] PROVE FALSE
      OBVIOUS
    <2>1. ASSUME NEW e \in Better(T, t) \cup {t} PROVE e \in Better(M, m)
      <3>1. e \in M /\ e \in Docs /\ Score[e] \in Int /\ Score[e] >= Score[t]
        BY <1>5, GreaterOrders, ScoreAssumption DEF Better
      <3>2. Score[e] > Score[m]
        BY <1>5, <3>1
      <3> QED BY <1>5, <3>1, <3>2, GreaterOrders DEF Better
    <2>2. Cardinality(Better(T, t) \cup {t}) <= Cardinality(Better(M, m))
      BY <1>6, <2>1, FS_Subset
    <2> QED BY <1>4, <1>7, <2>2
  <1>9. ~(Score[t] < Score[m])
    <2> SUFFICES ASSUME Score[t] < Score[m] PROVE FALSE
      OBVIOUS
    <2>1. ASSUME NEW e \in Better(M, m) \cup {m} PROVE e \in Better(T, t)
      <3>1. e \in M /\ e \in Docs /\ Score[e] \in Int /\ Score[e] >= Score[m]
        BY <1>5, GreaterOrders, ScoreAssumption DEF Better
      <3>2. Score[e] > Score[t]
        BY <1>5, <3>1
      <3>3. e \in T
        BY <1>5, <3>1, <3>2
      <3> QED BY <1>5, <3>1, <3>2, <3>3, GreaterOrders DEF Better
    <2>2. Cardinality(Better(M, m) \cup {m}) <= Cardinality(Better(T, t))
      BY <1>6, <2>1, FS_Subset
    <2> QED BY <1>3, <1>7, <2>2
  <1>10. Score[t] = Score[m]
    BY <1>5, <1>8, <1>9
  <1> QED BY <1>1, <1>3, <1>4, <1>10

----------------------------------------------------------------------------
(* Type correctness *)

Places == {"idle", "parsed", "parse_error", "plan_error", "planned", "operator_error",
           "operator", "heads", "totals", "memtable", "scan", "exhausted", "rescan_error"}
SomeIndex == Index \cup {NoIndex}
Query == [kind : {"text", "bm25query"}, index_oid : SomeIndex, explicit : BOOLEAN,
          tenant_id : Nat]
ScanState == [limit : Nat, tenant_id : Nat, executed : BOOLEAN, results : Seq(Docs),
              current_pos : Nat, max_results_used : Nat, eof : BOOLEAN]
Row == [first_segment : SUBSET Docs, chained : Nat, doc_freq : Nat, raced : BOOLEAN]
Cache == [first_segment : SUBSET Docs, total_docs : Int, doc_freq : Nat, raced : BOOLEAN]
Writer == [step : {"none", "insert", "spill", "compact"}, docs : SUBSET Docs]

SessionTypes ==
    /\ loaded \in BOOLEAN /\ query_has_bm25_operators \in BOOLEAN
    /\ tp_current_limit \in [index_oid : SomeIndex, limit : Nat]
    /\ pc \in Places

PlanTypes ==
    /\ stmt \in Statements /\ query \in Query
    /\ hooked \in BOOLEAN /\ validated \in BOOLEAN /\ scanned \in SomeIndex

ScanTypes ==
    /\ so \in ScanState /\ returned \in Seq(Docs) /\ changed \in BOOLEAN
    /\ so.current_pos <= Len(so.results) /\ Len(so.results) <= so.max_results_used

IndexTypes ==
    /\ memtable \subseteq Docs /\ L0 \in Seq(SUBSET Docs) /\ L1 \subseteq Docs
    /\ total_docs \in Nat /\ writer \in Writer

OperatorTypes == op \in Row /\ cache \in Cache

Types == SessionTypes /\ PlanTypes /\ ScanTypes /\ IndexTypes /\ OperatorTypes

(* The value of a conjunct is a number, and comes from a conjunct. *)
LEMMA FirstValueType ==
    ASSUME NEW s \in Statements, NEW on \in SUBSET DOMAIN s.quals
    PROVE  /\ FirstValue(s.quals, on) \in Nat
           /\ FirstValue(s.quals, on) # 0 =>
                 \E n \in on : FirstValue(s.quals, on) = s.quals[n].value
  <1>1. s.quals \in Seq([column : Column, value : Nat, outer : BOOLEAN])
    BY StatementAssumption DEF Statement
  <1>2. \A n \in DOMAIN s.quals : n \in Nat /\ s.quals[n].value \in Nat
    <2>1. PICK Q : Q = [column : Column, value : Nat, outer : BOOLEAN]
      OBVIOUS
    <2>2. PICK quals \in Seq(Q) : quals = s.quals
      BY <1>1, <2>1, Zenon
    <2>3. \A n \in DOMAIN quals : n \in Nat /\ quals[n] \in Q
      OBVIOUS
    <2>4. \A n \in DOMAIN quals : quals[n].value \in Nat
      BY <2>1, <2>3
    <2> QED BY <2>2, <2>3, <2>4, Zenon
  <1>3. CASE on = {}
    BY <1>3 DEF FirstValue
  <1>4. CASE on # {}
    <2>1. on \in SUBSET Nat
      BY <1>2
    <2>2. Min(on) \in on
      BY <1>4, <2>1, MinNat
    <2> QED BY <1>2, <1>4, <2>2 DEF FirstValue
  <1> QED BY <1>3, <1>4

(* A statement as its operand says it. *)
LEMMA RawType ==
    ASSUME NEW s \in Statements
    PROVE  Raw(s) \in Query
  BY StatementAssumption DEF Statement, Raw, Query, SomeIndex

(* Parse analysis finds an index on the column, if it finds one. *)
LEMMA FoundIndex ==
    ASSUME NEW table, NEW column
    PROVE  LET found == find_bm25_index_for_column(table, column)
           IN  \/ found = NoIndex
               \/ found \in Index /\ index_is_on_column(found, table, column)
  <1> DEFINE on == {n \in DOMAIN CatalogOrder : index_is_on_column(CatalogOrder[n], table, column)}
  <1>1. on \in SUBSET Nat /\ \A n \in DOMAIN CatalogOrder : CatalogOrder[n] \in Index
    BY CatalogAssumption
  <1>2. CASE on = {}
    BY <1>2 DEF find_bm25_index_for_column
  <1>3. CASE on # {}
    <2>1. Min(on) \in on
      <3> HIDE DEF on
      <3> QED BY <1>1, <1>3, MinNat
    <2>2. find_bm25_index_for_column(table, column) = CatalogOrder[Min(on)]
      BY <1>3 DEF find_bm25_index_for_column
    <2> QED BY <1>1, <2>1, <2>2
  <1> QED BY <1>2, <1>3

(* What parse analysis makes of a statement: the index is the statement's  *)
(* own or one on the column, and the tenant is that of a conjunct on the   *)
(* index's tenant column.                                                  *)
LEMMA Analyzed ==
    ASSUME NEW s \in Statements
    PROVE  LET q == tp_post_parse_analyze(s)
           IN  /\ q \in Query
               /\ q.explicit <=> (s.explicit # NoIndex)
               /\ s.explicit # NoIndex => q.index_oid = s.explicit /\ q.kind = "bm25query"
               /\ \/ q.index_oid \in {NoIndex, s.explicit}
                  \/ q.index_oid \in Index /\ index_is_on_column(q.index_oid, s.table, s.column)
               /\ q.tenant_id # 0 =>
                     /\ q.index_oid # NoIndex
                     /\ Catalog[q.index_oid].tenant_column # NoColumn
                     /\ \E n \in DOMAIN s.quals :
                           /\ s.quals[n].column = Catalog[q.index_oid].tenant_column
                           /\ s.quals[n].value = q.tenant_id
  <1>1. PICK r : r = resolve_index_mutator(s)
    OBVIOUS
  <1>2. PICK found : found = find_bm25_index_for_column(s.table, s.column)
    OBVIOUS
  <1>3. \/ found = NoIndex
        \/ found \in Index /\ index_is_on_column(found, s.table, s.column)
    BY <1>2, FoundIndex
  <1>4. \/ s.explicit # NoIndex \/ found = NoIndex
        \/ r = [kind |-> "bm25query", index_oid |-> found, explicit |-> FALSE, tenant_id |-> 0]
    BY <1>1, <1>2 DEF resolve_index_mutator
  <1>5. s.explicit # NoIndex \/ found = NoIndex => r = Raw(s)
    BY <1>1, <1>2 DEF resolve_index_mutator
  <1>6. s.explicit \in SomeIndex /\ (s.explicit # NoIndex => s.kind = "bm25query")
    BY StatementAssumption DEF Statement, SomeIndex
  <1>7. /\ r \in Query /\ r.tenant_id = 0
        /\ r.explicit <=> (s.explicit # NoIndex)
        /\ s.explicit # NoIndex => r.index_oid = s.explicit /\ r.kind = "bm25query"
        /\ \/ r.index_oid \in {NoIndex, s.explicit}
           \/ r.index_oid \in Index /\ index_is_on_column(r.index_oid, s.table, s.column)
    <2>1. CASE r = Raw(s)
      <3>1. r \in Query
        BY <2>1, RawType
      <3> QED BY <2>1, <3>1, <1>6 DEF Raw
    <2>2. CASE r = [kind |-> "bm25query", index_oid |-> found, explicit |-> FALSE, tenant_id |-> 0]
               /\ s.explicit = NoIndex
      BY <1>3, <2>2 DEF Query, SomeIndex
    <2> QED BY <1>4, <1>5, <2>1, <2>2
  <1>8. tp_post_parse_analyze(s) = inject_tenant_predicate(r, s.quals)
    BY <1>1 DEF tp_post_parse_analyze
  <1>9. CASE inject_tenant_predicate(r, s.quals) = r
    BY <1>7, <1>8, <1>9
  <1>10. CASE inject_tenant_predicate(r, s.quals) # r
    <2>1. PICK column : column = Catalog[r.index_oid].tenant_column
      OBVIOUS
    <2>2. r.index_oid # NoIndex /\ column # NoColumn
      BY <1>10, <2>1 DEF inject_tenant_predicate, get_index_tenant_attnum
    <2>3. PICK on \in SUBSET DOMAIN s.quals : on = {n \in DOMAIN s.quals : s.quals[n].column = column}
      OBVIOUS
    <2>4. PICK v : v = FirstValue(s.quals, on)
      OBVIOUS
    <2>5. v \in Nat /\ (v # 0 => \E n \in on : v = s.quals[n].value)
      BY <2>3, <2>4, FirstValueType
    <2>6. inject_tenant_predicate(r, s.quals) = [r EXCEPT !.tenant_id = v]
      BY <1>10, <2>1, <2>3, <2>4 DEF inject_tenant_predicate, find_equality_const_for_column,
                                      get_index_tenant_attnum
    <2>7. PICK q : q = [r EXCEPT !.tenant_id = v]
      OBVIOUS
    <2>8. /\ q \in Query /\ q.tenant_id = v /\ q.index_oid = r.index_oid
          /\ q.explicit = r.explicit /\ q.kind = r.kind
      BY <1>7, <2>5, <2>7 DEF Query
    <2>9. v # 0 => \E n \in DOMAIN s.quals : s.quals[n].column = column /\ s.quals[n].value = v
      BY <2>3, <2>5
    <2> QED BY <1>7, <1>8, <2>1, <2>2, <2>6, <2>7, <2>8, <2>9
  <1> QED BY <1>9, <1>10

(* Index i serves the statement's column in a relation the statement scans. *)
Related(s, i) ==
    i \in Index /\ Catalog[i].column = s.column /\ Catalog[i].table \in scan_relations(s)

(* v is what a conjunct of the statement demands of the tenant column of   *)
(* such an index.                                                          *)
TenantFrom(s, v) ==
    \E i \in Index :
        /\ Related(s, i) /\ Catalog[i].tenant_column # NoColumn
        /\ \E n \in DOMAIN s.quals : /\ s.quals[n].column = Catalog[i].tenant_column
                                     /\ s.quals[n].value = v

(* A path of a scanned relation leads to a related index, also after the   *)
(* path-list hook has exchanged it.                                        *)
LEMMA PathsRelated ==
    ASSUME NEW s \in Statements, NEW t \in scan_relations(s),
           NEW i \in index_paths(t, s.column)
    PROVE  Related(s, i) /\ Related(s, fix_bm25_indexpaths(s, i))
  <1>1. s.table \in scan_relations(s)
    BY DEF scan_relations
  <1>2. \A u \in scan_relations(s) : \A j \in index_paths(u, s.column) : Related(s, j)
    BY DEF Related, index_paths, index_is_on_column
  <1>3. \/ fix_bm25_indexpaths(s, i) = i
        \/ fix_bm25_indexpaths(s, i) \in index_paths(s.table, s.column)
    BY DEF fix_bm25_indexpaths
  <1> QED BY <1>1, <1>2, <1>3

(* The path-list hook changes nothing of a query but its tenant, and takes *)
(* that from a conjunct.                                                   *)
LEMMA TenantInjected ==
    ASSUME NEW s \in Statements, NEW q \in Query, NEW paths,
           \A i \in paths : Related(s, i),
           NEW r \in inject_tenant_in_indexpaths(q, s.quals, paths)
    PROVE  /\ r \in Query
           /\ r.kind = q.kind /\ r.index_oid = q.index_oid /\ r.explicit = q.explicit
           /\ r.tenant_id = q.tenant_id \/ TenantFrom(s, r.tenant_id)
  <1> DEFINE on(i) == {n \in DOMAIN s.quals :
                          s.quals[n].column = Catalog[i].tenant_column /\ ~s.quals[n].outer}
             value(i) == FirstValue(s.quals, on(i))
  <1>1. \/ r = q
        \/ \E i \in paths : /\ Catalog[i].tenant_column # NoColumn
                            /\ value(i) # 0 /\ r = [q EXCEPT !.tenant_id = value(i)]
    BY DEF inject_tenant_in_indexpaths, find_equality_const_in_restrictinfo,
           get_index_tenant_attnum
  <1>2. CASE r = q
    BY <1>2
  <1>3. ASSUME NEW i \in paths, Catalog[i].tenant_column # NoColumn,
               value(i) # 0, r = [q EXCEPT !.tenant_id = value(i)]
        PROVE  /\ r \in Query
               /\ r.kind = q.kind /\ r.index_oid = q.index_oid /\ r.explicit = q.explicit
               /\ TenantFrom(s, r.tenant_id)
    <2>1. PICK S \in SUBSET DOMAIN s.quals : S = on(i)
      OBVIOUS
    <2>2. PICK v : v = value(i)
      OBVIOUS
    <2>3. v \in Nat /\ (v # 0 => \E n \in S : v = s.quals[n].value)
      BY <2>1, <2>2, FirstValueType
    <2>4. r \in Query /\ r.tenant_id = v
          /\ r.kind = q.kind /\ r.index_oid = q.index_oid /\ r.explicit = q.explicit
      BY <1>3, <2>2, <2>3 DEF Query
    <2>5. \E n \in DOMAIN s.quals : /\ s.quals[n].column = Catalog[i].tenant_column
                                    /\ s.quals[n].value = v
      BY <1>3, <2>1, <2>2, <2>3
    <2>6. TenantFrom(s, v)
      BY <1>3, <2>5 DEF TenantFrom, Related
    <2> QED BY <2>4, <2>6
  <1> QED BY <1>1, <1>2, <1>3

(* What planning an index scan does. *)
LEMMA PlanEffect ==
    ASSUME Types, PlanIndexScan
    PROVE  /\ \E t \in scan_relations(stmt), i \in Index :
                 /\ i \in index_paths(t, stmt.column)
                 /\ scanned' = IF loaded /\ base_relation(stmt)
                               THEN fix_bm25_indexpaths(stmt, i) ELSE i
           /\ Related(stmt, scanned')
           /\ query' \in Query
           /\ query'.kind = query.kind /\ query'.index_oid = query.index_oid
           /\ query'.explicit = query.explicit
           /\ query'.tenant_id = query.tenant_id \/ TenantFrom(stmt, query'.tenant_id)
           /\ tp_current_limit' \in [index_oid : SomeIndex, limit : Nat]
  <1>1. PICK s \in Statements, q \in Query : s = stmt /\ q = query
    BY DEF Types, PlanTypes
  <1> DEFINE step(i) == IF loaded /\ base_relation(stmt) THEN fix_bm25_indexpaths(stmt, i) ELSE i
             fixed(i) == IF loaded /\ base_relation(s) THEN fix_bm25_indexpaths(s, i) ELSE i
  <1>2. PICK t \in scan_relations(stmt) :
          \E paths \in SUBSET index_paths(t, stmt.column) : \E path \in paths :
             /\ scanned' = step(path)
             /\ IF base_relation(stmt)
                THEN query' \in inject_tenant_in_indexpaths(query, stmt.quals, {step(i) : i \in paths})
                ELSE query' = query
             /\ tp_costestimate(index_paths(t, stmt.column))
    BY Zenon DEF PlanIndexScan
  <1>2a. PICK paths \in SUBSET index_paths(t, stmt.column) : \E path \in paths :
             /\ scanned' = step(path)
             /\ IF base_relation(stmt)
                THEN query' \in inject_tenant_in_indexpaths(query, stmt.quals, {step(i) : i \in paths})
                ELSE query' = query
             /\ tp_costestimate(index_paths(t, stmt.column))
    BY <1>2
  <1>3. \A i \in paths : Related(s, i) /\ Related(s, fixed(i))
    BY <1>1, PathsRelated
  <1>4. PICK path \in paths : scanned' = fixed(path)
    BY <1>1, <1>2a
  <1>5. Related(s, scanned') /\ path \in index_paths(t, s.column) /\ path \in Index
    BY <1>1, <1>3, <1>4 DEF Related
  <1>6. PICK r : r = query'
    OBVIOUS
  <1>7. /\ r \in Query
        /\ r.kind = q.kind /\ r.index_oid = q.index_oid /\ r.explicit = q.explicit
        /\ r.tenant_id = q.tenant_id \/ TenantFrom(s, r.tenant_id)
    <2>1. CASE base_relation(s)
      <3>1. PICK P : P = {fixed(i) : i \in paths}
        OBVIOUS
      <3>2. \A i \in P : Related(s, i)
        BY <1>3, <3>1
      <3>3. r \in inject_tenant_in_indexpaths(q, s.quals, P)
        BY <1>1, <1>2a, <1>6, <2>1, <3>1
      <3> QED BY <1>1, <3>2, <3>3, TenantInjected
    <2>2. CASE ~base_relation(s)
      BY <1>1, <1>2a, <1>6, <2>2
    <2> QED BY <2>1, <2>2
  <1>8. tp_current_limit' \in [index_oid : SomeIndex, limit : Nat]
    <2>1. tp_costestimate(index_paths(t, s.column))
      BY <1>1, <1>2a
    <2>2. index_paths(t, s.column) \subseteq Index
      BY DEF index_paths
    <2>3. s.limit \in Nat
      BY <1>1, StatementAssumption DEF Statement
    <2> QED BY <1>1, <2>1, <2>2, <2>3
         DEF tp_costestimate, tp_store_query_limit, SomeIndex, Types, SessionTypes
  <1> QED BY <1>1, <1>4, <1>5, <1>6, <1>7, <1>8

(* What tp_score_documents finds of a set M of documents: as many as asked *)
(* for, or all, with the best scores.                                      *)
Found(found, k, M) ==
    /\ found \in Seq(Docs) /\ Cardinality(M) \in Nat
    /\ Len(found) = IF k <= Cardinality(M) THEN k ELSE Cardinality(M)
    /\ best_scores(found, M)

LEMMA FoundFacts ==
    ASSUME docs \subseteq Docs, NEW k \in Nat, NEW found \in tp_score_documents(k)
    PROVE  Found(found, k, matches)
  <1>1. PICK M \in SUBSET Docs : M = matches
    BY DEF matches
  <1>2. PICK T \in SUBSET M : /\ found = ranking(T) /\ Cardinality(T) = Min({k, Cardinality(M)})
                              /\ \A d \in T, e \in M \ T : stays(d, e)
    BY <1>1 DEF tp_score_documents, best
  <1>3. \A d \in T, e \in M \ T : Score[d] >= Score[e]
    <2>1. \A d \in Docs : Score[d] \in Int
      BY ScoreAssumption
    <2> QED BY <1>2, <2>1 DEF stays
  <1>4. Cardinality(M) \in Nat
    BY RankingLists
  <1>5. T \in SUBSET Docs /\ Cardinality(T) = IF k <= Cardinality(M) THEN k ELSE Cardinality(M)
    BY <1>2, <1>4, MinTwo
  <1>6. found \in Seq(T) /\ Len(found) = Cardinality(T)
    BY <1>2, <1>5, RankingLists
  <1>7. found \in Seq(Docs)
    BY <1>5, <1>6
  <1>8. Len(found) <= Cardinality(M)
    BY <1>4, <1>5, <1>6
  <1>9. ASSUME NEW n \in 1 .. Len(found)
        PROVE  found[n] \in M /\ Score[found[n]] = Score[ranking(M)[n]]
    BY <1>2, <1>3, <1>6, BestScores
  <1>10. best_scores(found, M)
    BY <1>8, <1>9 DEF best_scores
  <1> QED BY <1>1, <1>4, <1>5, <1>6, <1>7, <1>10 DEF Found

(* The documents of the index are those of the memtable, of the segments   *)
(* and of the spill that is under way.                                     *)
LEMMA DocsAre ==
    ASSUME IndexTypes, NEW d
    PROVE  d \in docs <=> \/ d \in memtable
                          \/ \E i \in 1 .. Len(L0) : d \in L0[i]
                          \/ d \in L1
                          \/ writer.step = "spill" /\ d \in writer.docs
  <1>1. DOMAIN L0 = 1 .. Len(L0)
    BY DEF IndexTypes
  <1> QED BY <1>1 DEF docs, Range

(* Every document of the index is a document. *)
LEMMA DocsType ==
    ASSUME IndexTypes
    PROVE  docs \in SUBSET Docs
  <1>1. /\ memtable \subseteq Docs /\ L1 \subseteq Docs
        /\ \A i \in 1 .. Len(L0) : L0[i] \subseteq Docs
        /\ writer.docs \subseteq Docs
    BY DEF IndexTypes, Writer
  <1> SUFFICES ASSUME NEW d \in docs PROVE d \in Docs
    BY Zenon
  <1> QED BY <1>1, DocsAre

LEMMA MaxResults ==
    ASSUME NEW limit \in Nat
    PROVE  /\ max_results(limit) \in Nat /\ max_results(limit) > 0
           /\ limit > 0 => max_results(limit) = limit
  BY LimitAssumption DEF max_results

(* An execution of the query leaves at most as many results as it asked for. *)
LEMMA ExecuteTypes ==
    ASSUME Types, NEW limit \in Nat, NEW pos \in Nat,
           tp_execute_scoring_query(limit, pos), UNCHANGED changed
    PROVE  ScanTypes' /\ pc' \in {"scan", "exhausted"}
  <1>1. PICK k \in Nat : k = max_results(limit)
    BY MaxResults
  <1>2. PICK found \in tp_score_documents(k) :
           /\ so' = [so EXCEPT !.limit = limit, !.executed = TRUE, !.results = found,
                               !.eof = ~(Len(found) > pos), !.max_results_used = k,
                               !.current_pos = IF Len(found) > pos THEN pos + 1 ELSE 0]
           /\ returned' = IF Len(found) > pos THEN Append(returned, found[pos + 1]) ELSE returned
           /\ pc' = IF Len(found) > pos THEN "scan" ELSE "exhausted"
    BY <1>1 DEF tp_execute_scoring_query
  <1>3. docs \subseteq Docs
    BY DocsType DEF Types
  <1>4. found \in Seq(Docs) /\ Len(found) <= k
    <2>1. Found(found, k, matches)
      BY <1>3, FoundFacts
    <2> QED BY <2>1 DEF Found
  <1>5. PICK more \in BOOLEAN : more <=> Len(found) > pos
    <2>1. CASE Len(found) > pos
      BY <2>1, Zenon
    <2>2. CASE ~(Len(found) > pos)
      BY <2>2, Zenon
    <2> QED BY <2>1, <2>2
  <1>6. /\ so' = [so EXCEPT !.limit = limit, !.executed = TRUE, !.results = found, !.eof = ~more,
                            !.max_results_used = k,
                            !.current_pos = IF more THEN pos + 1 ELSE 0]
        /\ returned' = IF more THEN Append(returned, found[pos + 1]) ELSE returned
        /\ pc' = IF more THEN "scan" ELSE "exhausted"
    <2>1. more = (Len(found) > pos)
      BY <1>5
    <2> QED BY <1>2, <2>1, Zenon
  <1>7. so \in ScanState /\ returned \in Seq(Docs) /\ changed \in BOOLEAN
    BY DEF Types, ScanTypes
  <1>8. Len(found) \in Nat /\ (more => pos + 1 \in 1 .. Len(found) /\ found[pos + 1] \in Docs)
    <2>1. Len(found) \in Nat /\ \A n \in 1 .. Len(found) : found[n] \in Docs
      BY <1>4
    <2> QED BY <1>5, <2>1
  <1>9. returned' \in Seq(Docs)
    BY <1>6, <1>7, <1>8
  <1>10. /\ so' \in ScanState /\ so'.results = found /\ so'.max_results_used = k
         /\ so'.current_pos = IF more THEN pos + 1 ELSE 0
    <2>1. PICK S : S = Seq(Docs)
      OBVIOUS
    <2>2. found \in S
      BY <1>4, <2>1
    <2>3. so \in [limit : Nat, tenant_id : Nat, executed : BOOLEAN, results : S,
                  current_pos : Nat, max_results_used : Nat, eof : BOOLEAN]
      BY <1>7, <2>1 DEF ScanState
    <2>4. PICK eof \in BOOLEAN : eof = ~more
      OBVIOUS
    <2>5. PICK at \in Nat : at = IF more THEN pos + 1 ELSE 0
      OBVIOUS
    <2>6. so' = [so EXCEPT !.limit = limit, !.executed = TRUE, !.results = found, !.eof = eof,
                           !.max_results_used = k, !.current_pos = at]
      BY <1>6, <2>4, <2>5
    <2>7. /\ so' \in [limit : Nat, tenant_id : Nat, executed : BOOLEAN, results : S,
                      current_pos : Nat, max_results_used : Nat, eof : BOOLEAN]
          /\ so'.results = found /\ so'.max_results_used = k /\ so'.current_pos = at
      BY <2>2, <2>3, <2>6
    <2> QED BY <2>1, <2>5, <2>7 DEF ScanState
  <1>11. so'.current_pos <= Len(so'.results) /\ Len(so'.results) <= so'.max_results_used
    BY <1>4, <1>8, <1>10
  <1> QED BY <1>6, <1>7, <1>9, <1>10, <1>11 DEF ScanTypes

(* What a statement and a scan are before they start. *)
LEMMA NothingTypes ==
    /\ NoStatement \in Statements /\ Raw(NoStatement) \in Query
    /\ NoScan \in ScanState /\ Len(NoScan.results) = 0 /\ NoScan.current_pos = 0
    /\ NoScan.max_results_used = 0
    /\ NoRow \in Row /\ NoCache \in Cache /\ Idle \in Writer
  <1>1. NoStatement \in Statements
    BY StatementAssumption DEF NoStatement
  <1>2. NoScan \in ScanState /\ NoScan.results = << >>
    <2>1. << >> \in Seq(Docs)
      OBVIOUS
    <2> QED BY <2>1 DEF NoScan, ScanState
  <1>3. NoScan.current_pos = 0 /\ NoScan.max_results_used = 0
    BY DEF NoScan
  <1> QED BY <1>1, <1>2, <1>3, RawType DEF NoRow, NoCache, Idle, Row, Cache, Writer

LEMMA TypesInit == Init => Types
  <1> SUFFICES ASSUME Init PROVE Types
    OBVIOUS
  <1>1. SessionTypes
    BY DEF Init, SessionTypes, NoLimit, SomeIndex, Places
  <1>2. PlanTypes
    BY NothingTypes DEF Init, PlanTypes, SomeIndex
  <1>3. ScanTypes
    <2>1. so = NoScan /\ returned = << >> /\ changed = FALSE
      BY DEF Init
    <2>2. << >> \in Seq(Docs)
      OBVIOUS
    <2>3. so \in ScanState /\ returned \in Seq(Docs) /\ changed \in BOOLEAN
      BY <2>1, <2>2, NothingTypes
    <2>4. Len(so.results) = 0 /\ so.current_pos = 0 /\ so.max_results_used = 0
      BY <2>1, NothingTypes
    <2>5. so.current_pos <= Len(so.results) /\ Len(so.results) <= so.max_results_used
      BY <2>4
    <2> QED BY <2>3, <2>5 DEF ScanTypes
  <1>4. IndexTypes
    BY NothingTypes DEF Init, IndexTypes
  <1>5. OperatorTypes
    BY NothingTypes DEF Init, OperatorTypes
  <1> QED BY <1>1, <1>2, <1>3, <1>4, <1>5 DEF Types

LEMMA TypesStep == Types /\ [Next]_vars => Types'
  <1> SUFFICES ASSUME Types, [Next]_vars PROVE Types'
    OBVIOUS
  <1> USE DEF session, plan, scan, index, operator
  <1>1. SessionTypes /\ PlanTypes /\ ScanTypes /\ IndexTypes /\ OperatorTypes
    BY DEF Types
  <1>2. UNCHANGED session /\ pc' \in Places => SessionTypes'
    BY <1>1 DEF SessionTypes
  <1>3. UNCHANGED plan => PlanTypes'
    BY <1>1 DEF PlanTypes
  <1>4. UNCHANGED scan => ScanTypes'
    BY <1>1 DEF ScanTypes
  <1>5. UNCHANGED index => IndexTypes'
    BY <1>1 DEF IndexTypes
  <1>6. UNCHANGED operator => OperatorTypes'
    BY <1>1 DEF OperatorTypes
  <1>7. pc \in Places
    BY <1>1 DEF SessionTypes
  <1>8. ASSUME NEW s \in Statements, Parse(s) PROVE Types'
    <2>1. SessionTypes'
      BY <1>1, <1>8 DEF Parse, SessionTypes, Places
    <2>2. query' \in Query
      <3>1. tp_post_parse_analyze(s) \in Query
        BY Analyzed
      <3>2. Raw(s) \in Query
        BY RawType
      <3> QED BY <1>8, <3>1, <3>2 DEF Parse
    <2>3. PlanTypes'
      BY <1>1, <1>8, <2>2 DEF Parse, PlanTypes
    <2> QED BY <1>4, <1>5, <1>6, <1>8, <2>1, <2>3 DEF Parse, Types
  <1>9. ASSUME NEW s \in Statements, ParseUnloaded(s) PROVE Types'
    <2>1. SessionTypes'
      BY <1>2, <1>9 DEF ParseUnloaded, Places
    <2>2. Raw(s) \in Query
      BY RawType
    <2>3. PlanTypes'
      BY <1>1, <1>9, <2>2 DEF ParseUnloaded, PlanTypes
    <2> QED BY <1>4, <1>5, <1>6, <1>9, <2>1, <2>3 DEF ParseUnloaded, Types
  <1>10. CASE ParseOther
    <2>1. SessionTypes'
      BY <1>1, <1>10 DEF ParseOther, SessionTypes
    <2> QED BY <1>3, <1>4, <1>5, <1>6, <1>10, <2>1 DEF ParseOther, Types
  <1>11. ASSUME NEW o \in OtherLimits, PlanOther(o[1], o[2]) PROVE Types'
    <2>1. o[1] \in Index /\ o[2] \in Nat
      BY StatementAssumption
    <2>2. SessionTypes'
      BY <1>1, <1>11, <2>1 DEF PlanOther, tp_store_query_limit, SessionTypes, SomeIndex
    <2> QED BY <1>3, <1>4, <1>5, <1>6, <1>11, <2>2 DEF PlanOther, Types
  <1>12. CASE PlanIndexScan
    <2>1. /\ Related(stmt, scanned') /\ query' \in Query
          /\ tp_current_limit' \in [index_oid : SomeIndex, limit : Nat]
      BY <1>12, PlanEffect
    <2>2. scanned' \in SomeIndex
      BY <2>1 DEF Related, SomeIndex
    <2>3. /\ UNCHANGED <<query_has_bm25_operators, stmt, hooked>>
          /\ UNCHANGED <<scan, index, operator>>
          /\ loaded' = TRUE /\ pc' \in Places
      BY <1>12 DEF PlanIndexScan, Places
    <2>4. validated' = (loaded /\ query_has_bm25_operators)
      BY <1>12 DEF PlanIndexScan
    <2>5. validated' \in BOOLEAN
      BY <1>1, <2>4, Zenon DEF SessionTypes
    <2>6. SessionTypes'
      BY <1>1, <2>1, <2>3 DEF SessionTypes
    <2>7. PlanTypes'
      BY <1>1, <2>1, <2>2, <2>3, <2>5 DEF PlanTypes
    <2> QED BY <1>4, <1>5, <1>6, <2>3, <2>6, <2>7 DEF Types
  <1>13. CASE PlanOperator
    <2>1. tp_current_limit' \in [index_oid : SomeIndex, limit : Nat]
      <3>1. PICK s \in Statements : s = stmt
        BY <1>1 DEF PlanTypes
      <3>2. s.limit \in Nat
        BY StatementAssumption DEF Statement
      <3>3. index_paths(s.table, s.column) \subseteq Index
        BY DEF index_paths
      <3>4. tp_costestimate(index_paths(s.table, s.column))
        BY <1>13, <3>1 DEF PlanOperator
      <3> QED BY <1>1, <3>1, <3>2, <3>3, <3>4
            DEF tp_costestimate, tp_store_query_limit, SomeIndex, SessionTypes
    <2>2. SessionTypes'
      BY <1>1, <1>13, <2>1 DEF PlanOperator, SessionTypes, Places
    <2>3. PlanTypes'
      BY <1>1, <1>13, NothingTypes DEF PlanOperator, PlanTypes
    <2> QED BY <1>4, <1>5, <1>6, <1>13, <2>2, <2>3 DEF PlanOperator, Types
  <1>14. CASE EndStatement
    <2>1. SessionTypes'
      BY <1>2, <1>14 DEF EndStatement, Places
    <2>2. PlanTypes'
      BY <1>14, NothingTypes DEF EndStatement, PlanTypes, SomeIndex
    <2>3. ScanTypes'
      <3>1. so' = NoScan /\ returned' = << >> /\ changed' = FALSE
        BY <1>14 DEF EndStatement
      <3>1a. << >> \in Seq(Docs)
        OBVIOUS
      <3>2. so' \in ScanState /\ returned' \in Seq(Docs) /\ changed' \in BOOLEAN
        BY <3>1, <3>1a, NothingTypes
      <3>3. Len(so'.results) = 0 /\ so'.current_pos = 0 /\ so'.max_results_used = 0
        BY <3>1, NothingTypes
      <3>4. so'.current_pos <= Len(so'.results) /\ Len(so'.results) <= so'.max_results_used
        BY <3>3
      <3> QED BY <3>2, <3>4 DEF ScanTypes
    <2>4. OperatorTypes'
      BY <1>14, NothingTypes DEF EndStatement, OperatorTypes
    <2> QED BY <1>5, <1>14, <2>1, <2>2, <2>3, <2>4 DEF EndStatement, Types
  <1>15. CASE tp_rescan
    <2>1. PICK k \in Nat : k = tp_get_query_limit(scanned)
      BY <1>1 DEF tp_get_query_limit, SessionTypes
    <2>2. PICK t \in Nat : t = query.tenant_id
      BY <1>1 DEF PlanTypes, Query
    <2>3. so' = [NoScan EXCEPT !.limit = k, !.tenant_id = t] /\ returned' = << >> /\ changed' = FALSE
      BY <1>15, <2>1, <2>2 DEF tp_rescan
    <2>4. /\ so' \in ScanState /\ so'.results = NoScan.results
          /\ so'.current_pos = NoScan.current_pos
          /\ so'.max_results_used = NoScan.max_results_used
      <3>1. NoScan \in ScanState
        BY NothingTypes
      <3> QED BY <2>3, <3>1 DEF ScanState
    <2>5. Len(so'.results) = 0 /\ so'.current_pos = 0 /\ so'.max_results_used = 0
      BY <2>4, NothingTypes
    <2>6. so'.current_pos <= Len(so'.results) /\ Len(so'.results) <= so'.max_results_used
      BY <2>5
    <2>6a. << >> \in Seq(Docs)
      OBVIOUS
    <2>7. returned' \in Seq(Docs) /\ changed' \in BOOLEAN
      BY <2>3, <2>6a
    <2>8. ScanTypes'
      BY <2>4, <2>6, <2>7 DEF ScanTypes
    <2>9. SessionTypes'
      BY <1>1, <1>15 DEF tp_rescan, SessionTypes, NoLimit, SomeIndex, Places
    <2> QED BY <1>3, <1>5, <1>6, <1>15, <2>8, <2>9 DEF tp_rescan, Types
  <1>16. CASE FirstTuple
    <2>1. PICK k \in Nat : k = so.limit
      BY <1>1 DEF ScanTypes, ScanState
    <2>2. tp_execute_scoring_query(k, 0) /\ UNCHANGED <<session, plan, changed, index, operator>>
      BY <1>16, <2>1 DEF FirstTuple
    <2>3. ScanTypes' /\ pc' \in {"scan", "exhausted"}
      BY <2>2, ExecuteTypes
    <2>4. SessionTypes'
      BY <1>2, <2>2, <2>3 DEF Places
    <2> QED BY <1>3, <1>5, <1>6, <2>2, <2>3, <2>4 DEF Types
  <1>17. CASE NextTuple
    <2>1. /\ so.current_pos < Len(so.results)
          /\ so' = [so EXCEPT !.current_pos = so.current_pos + 1]
          /\ returned' = Append(returned, so.results[so.current_pos + 1])
          /\ UNCHANGED <<session, pc, plan, changed, index, operator>>
      BY <1>17 DEF NextTuple
    <2>2. PICK res \in Seq(Docs), n \in Nat : res = so.results /\ n = so.current_pos
      BY <1>1 DEF ScanTypes, ScanState
    <2>3. Len(res) \in Nat /\ n + 1 \in 1 .. Len(res) /\ res[n + 1] \in Docs
      BY <2>1, <2>2
    <2>4. returned' \in Seq(Docs)
      BY <1>1, <2>1, <2>2, <2>3 DEF ScanTypes
    <2>5. /\ so' \in ScanState /\ so'.current_pos = n + 1 /\ so'.results = res
          /\ so'.max_results_used = so.max_results_used
      <3>1. PICK S : S = Seq(Docs)
        OBVIOUS
      <3>2. so \in [limit : Nat, tenant_id : Nat, executed : BOOLEAN, results : S,
                    current_pos : Nat, max_results_used : Nat, eof : BOOLEAN]
        BY <1>1, <3>1 DEF ScanTypes, ScanState
      <3>3. so' = [so EXCEPT !.current_pos = n + 1]
        BY <2>1, <2>2
      <3>4. /\ so' \in [limit : Nat, tenant_id : Nat, executed : BOOLEAN, results : S,
                        current_pos : Nat, max_results_used : Nat, eof : BOOLEAN]
            /\ so'.current_pos = n + 1 /\ so'.results = so.results
            /\ so'.max_results_used = so.max_results_used
        BY <3>2, <3>3
      <3> QED BY <2>2, <3>1, <3>4 DEF ScanState
    <2>6. ScanTypes'
      BY <1>1, <2>1, <2>2, <2>3, <2>4, <2>5 DEF ScanTypes
    <2>7. SessionTypes'
      BY <1>2, <1>7, <2>1
    <2> QED BY <1>3, <1>5, <1>6, <2>1, <2>6, <2>7 DEF Types
  <1>18. CASE Reexecute
    <2>1. so.max_results_used \in Nat /\ so.results \in Seq(Docs)
      BY <1>1 DEF ScanTypes, ScanState
    <2>2. PICK m \in Nat : m = so.max_results_used * 2
      BY <2>1
    <2>3. PICK k \in Nat : k = Min({so.max_results_used * 2, TP_MAX_QUERY_LIMIT})
      BY <2>2, LimitAssumption, MinTwo
    <2>4. PICK pos \in Nat : pos = Len(so.results)
      BY <2>1
    <2>5. tp_execute_scoring_query(k, pos) /\ UNCHANGED <<session, plan, changed, index, operator>>
      BY <1>18, <2>3, <2>4 DEF Reexecute
    <2>6. ScanTypes' /\ pc' \in {"scan", "exhausted"}
      BY <2>5, ExecuteTypes
    <2>7. SessionTypes'
      BY <1>2, <2>5, <2>6 DEF Places
    <2> QED BY <1>3, <1>5, <1>6, <2>5, <2>6, <2>7 DEF Types
  <1>19. CASE NoMoreTuples
    <2>1. SessionTypes'
      BY <1>2, <1>19 DEF NoMoreTuples, Places
    <2> QED BY <1>3, <1>4, <1>5, <1>6, <1>19, <2>1 DEF NoMoreTuples, Types
  <1>20. CASE ReadHeads
    <2>1. SessionTypes'
      BY <1>2, <1>20 DEF ReadHeads, Places
    <2>2. PICK S \in SUBSET Docs : S = first_segment(L0)
      BY <1>1 DEF first_segment, IndexTypes
    <2>3. PICK n \in Nat : n = Cardinality(L1 \cup UNION Range(L0))
      <3>1. L1 \cup UNION Range(L0) \subseteq Docs
        BY <1>1 DEF IndexTypes, Range
      <3> QED BY <3>1, ScoreAssumption, FS_Subset, FS_CardinalityType
    <2>4. op' = [NoRow EXCEPT !.first_segment = S, !.chained = n] /\ UNCHANGED cache
      BY <1>20, <2>2, <2>3 DEF ReadHeads
    <2>5. OperatorTypes'
      BY <1>1, <2>4, NothingTypes DEF OperatorTypes, Row
    <2> QED BY <1>3, <1>4, <1>5, <1>20, <2>1, <2>5 DEF ReadHeads, Types
  <1>21. CASE ReadTotals
    <2>1. SessionTypes'
      BY <1>2, <1>21 DEF ReadTotals, Places
    <2>2. cache' \in Cache
      BY <1>1, <1>21 DEF ReadTotals, OperatorTypes, IndexTypes, Row, Cache
    <2>3. op' \in Row
      BY <1>1, <1>21, NothingTypes DEF ReadTotals, OperatorTypes
    <2> QED BY <1>3, <1>4, <1>5, <1>21, <2>1, <2>2, <2>3 DEF ReadTotals, OperatorTypes, Types
  <1>22. CASE ReadMemtable
    <2>1. SessionTypes'
      BY <1>2, <1>22 DEF ReadMemtable, Places
    <2>2. PICK n \in Nat : n = Cardinality(memtable)
      BY <1>1, ScoreAssumption, FS_Subset, FS_CardinalityType DEF IndexTypes
    <2>3. op' = [op EXCEPT !.doc_freq = n] /\ UNCHANGED cache
      BY <1>22, <2>2 DEF ReadMemtable
    <2>4. OperatorTypes'
      BY <1>1, <2>3 DEF OperatorTypes, Row
    <2> QED BY <1>3, <1>4, <1>5, <1>22, <2>1, <2>4 DEF ReadMemtable, Types
  <1>23. CASE ReadSegments
    <2>1. SessionTypes'
      BY <1>2, <1>23 DEF ReadSegments, Places
    <2>2. PICK n \in tp_segment_doc_freqs : cache' = [cache EXCEPT !.doc_freq = op.doc_freq + n]
      BY <1>23 DEF ReadSegments
    <2>3. op.doc_freq \in Nat /\ op.chained \in Nat
      BY <1>1 DEF OperatorTypes, Row
    <2>4. n \in Nat
      BY <2>2, <2>3 DEF tp_segment_doc_freqs
    <2>5. PICK f \in Nat : f = op.doc_freq + n
      BY <2>3, <2>4
    <2>6. cache' \in Cache
      BY <1>1, <2>2, <2>5 DEF OperatorTypes, Cache
    <2>7. OperatorTypes'
      BY <1>23, <2>6, NothingTypes DEF ReadSegments, OperatorTypes
    <2> QED BY <1>3, <1>4, <1>5, <1>23, <2>1, <2>7 DEF ReadSegments, Types
  <1>24. scan_changed /\ UNCHANGED <<so, returned>> => ScanTypes'
    <2>1. scan_changed => changed' \in BOOLEAN
      BY <1>1, Zenon DEF scan_changed, ScanTypes
    <2> QED BY <1>1, <2>1 DEF ScanTypes
  <1>25. ASSUME NEW d \in Docs, InsertPosting(d) PROVE Types'
    <2>1. IndexTypes'
      BY <1>1, <1>25 DEF InsertPosting, IndexTypes, Writer
    <2> QED BY <1>2, <1>3, <1>6, <1>7, <1>24, <1>25, <2>1 DEF InsertPosting, Types
  <1>26. CASE InsertCount
    <2>1. IndexTypes'
      BY <1>1, <1>26, NothingTypes DEF InsertCount, IndexTypes
    <2> QED BY <1>2, <1>3, <1>4, <1>6, <1>7, <1>26, <2>1 DEF InsertCount, Types
  <1>27. CASE SpillClear
    <2>1. IndexTypes'
      BY <1>1, <1>27 DEF SpillClear, IndexTypes, Writer
    <2> QED BY <1>2, <1>3, <1>6, <1>7, <1>24, <1>27, <2>1 DEF SpillClear, Types
  <1>28. CASE SpillLink
    <2>1. writer' \in Writer
      BY <1>28, NothingTypes DEF SpillLink, Writer
    <2>2. writer.docs \in SUBSET Docs
      BY <1>1 DEF IndexTypes, Writer
    <2>3. L0' \in Seq(SUBSET Docs)
      BY <1>1, <1>28, <2>2 DEF SpillLink, IndexTypes
    <2>4. IndexTypes'
      BY <1>1, <1>28, <2>1, <2>3 DEF SpillLink, IndexTypes
    <2> QED BY <1>2, <1>3, <1>4, <1>6, <1>7, <1>28, <2>4 DEF SpillLink, Types
  <1>29. CASE Compact
    <2>1. L1' \subseteq Docs
      <3>1. \A S \in Range(L0) : S \subseteq Docs
        BY <1>1 DEF IndexTypes, Range
      <3> QED BY <1>1, <1>29, <3>1 DEF Compact, IndexTypes
    <2>2. IndexTypes'
      BY <1>1, <1>29, <2>1, NothingTypes DEF Compact, IndexTypes
    <2>3. PICK b \in BOOLEAN : b <=> pc \in {"heads", "totals", "memtable"}
      OBVIOUS
    <2>4. PICK c \in BOOLEAN : c <=> cache.total_docs # -1
      OBVIOUS
    <2>5. op' = [op EXCEPT !.raced = b] /\ cache' = [cache EXCEPT !.raced = c]
      BY <1>29, <2>3, <2>4 DEF Compact
    <2>6. OperatorTypes'
      BY <1>1, <2>5 DEF OperatorTypes, Row, Cache
    <2> QED BY <1>2, <1>3, <1>4, <1>7, <1>29, <2>2, <2>6 DEF Compact, Types
  <1>30. CASE UNCHANGED vars
    BY <1>2, <1>3, <1>4, <1>5, <1>6, <1>7, <1>30 DEF vars, Types
  <1> QED
    BY <1>8, <1>9, <1>10, <1>11, <1>12, <1>13, <1>14, <1>15, <1>16, <1>17, <1>18, <1>19, <1>20,
       <1>21, <1>22, <1>23, <1>25, <1>26, <1>27, <1>28, <1>29, <1>30, Zenon DEF Next

LEMMA TypesHold == Spec => []Types
  BY TypesInit, TypesStep, PTL DEF Spec

----------------------------------------------------------------------------
(* The index that the scan and the operator read *)

(* The documents of level 1 and of the level-0 segments from number n on:  *)
(* what a chain walk from the n-th head finds.                             *)
ChainFrom(segments, deeper, n) == deeper \cup UNION {segments[j] : j \in n .. Len(segments)}

(* A document is in one place only, no segment is empty, and the corpus    *)
(* counter is behind by the document that is being inserted.               *)
IndexInv ==
    /\ \A i \in 1 .. Len(L0) : L0[i] # {} /\ L0[i] \cap (memtable \cup L1) = {}
    /\ \A i, j \in 1 .. Len(L0) : i # j => L0[i] \cap L0[j] = {}
    /\ memtable \cap L1 = {}
    /\ writer.step = "spill" =>
          /\ writer.docs # {} /\ memtable = {} /\ writer.docs \cap L1 = {}
          /\ \A i \in 1 .. Len(L0) : L0[i] \cap writer.docs = {}
    /\ Len(L0) < segments_per_level + (IF writer.step = "compact" THEN 1 ELSE 0)
    /\ Cardinality(docs) = total_docs + (IF writer.step = "insert" THEN 1 ELSE 0)

(* DocsAre after a step. *)
LEMMA DocsAreNext ==
    ASSUME IndexTypes', NEW d
    PROVE  d \in docs' <=> \/ d \in memtable'
                           \/ \E i \in 1 .. Len(L0') : d \in L0'[i]
                           \/ d \in L1'
                           \/ writer'.step = "spill" /\ d \in writer'.docs
  <1>1. DOMAIN L0' = 1 .. Len(L0')
    BY DEF IndexTypes
  <1> QED BY <1>1 DEF docs, Range

(* A segment that is linked in front moves the others back by one. *)
LEMMA Linked ==
    ASSUME NEW T, NEW s \in Seq(T), NEW x \in T, NEW t, t = <<x>> \o s
    PROVE  /\ Len(t) = Len(s) + 1 /\ t[1] = x
           /\ \A i \in 1 .. Len(s) : t[i + 1] = s[i]
           /\ \A i \in 1 .. Len(t) : i # 1 => i - 1 \in 1 .. Len(s) /\ t[i] = s[i - 1]
  <1>1. Len(t) = Len(s) + 1 /\ Len(s) \in Nat
    OBVIOUS
  <1>2. \A i \in 1 .. Len(t) : t[i] = IF i <= 1 THEN <<x>>[i] ELSE s[i - 1]
    OBVIOUS
  <1>3. t[1] = x
    BY <1>1, <1>2
  <1> QED BY <1>1, <1>2, <1>3

LEMMA IndexInit == Init => IndexInv
  <1> SUFFICES ASSUME Init PROVE IndexInv
    OBVIOUS
  <1>1. memtable = {} /\ L0 = << >> /\ L1 = {} /\ total_docs = 0 /\ writer = Idle
    BY DEF Init
  <1>2. docs = {}
    <2>1. Types
      BY TypesInit
    <2>2. \A d : d \notin docs
      BY <1>1, <2>1, DocsAre DEF Types, Idle
    <2> QED BY <2>2
  <1> QED BY <1>1, <1>2, FS_EmptySet, LimitAssumption DEF IndexInv, Idle

LEMMA IndexStep ==
    ASSUME Types, Types', IndexInv, [Next]_vars
    PROVE  IndexInv'
  <1> USE DEF session, plan, scan, index, operator
  <1>1. IndexTypes /\ IndexTypes'
    BY DEF Types
  <1>2. IsFiniteSet(docs) /\ Cardinality(docs) \in Nat
    BY <1>1, DocsType, ScoreAssumption, FS_Subset, FS_CardinalityType
  <1>3. Len(L0) \in Nat /\ total_docs \in Nat /\ segments_per_level \in Nat /\ segments_per_level > 1
    BY <1>1, LimitAssumption DEF IndexTypes
  <1>4. CASE UNCHANGED index
    <2>1. UNCHANGED docs
      BY <1>4 DEF docs
    <2> QED BY <1>4, <2>1 DEF IndexInv
  <1>5. ASSUME NEW d \in Docs, InsertPosting(d) PROVE IndexInv'
    <2>1. /\ writer.step = "none" /\ d \notin docs /\ memtable' = memtable \cup {d}
          /\ writer'.step = "insert" /\ UNCHANGED <<L0, L1, total_docs>>
      BY <1>5 DEF InsertPosting
    <2>2. d \notin memtable /\ d \notin L1 /\ \A i \in 1 .. Len(L0) : d \notin L0[i]
      BY <1>1, <2>1, DocsAre
    <2>3. docs' = docs \cup {d}
      <3>1. \A e : e \in docs' <=> e \in docs \/ e = d
        BY <1>1, <2>1, DocsAre, DocsAreNext
      <3> QED BY <3>1
    <2>4. Cardinality(docs') = Cardinality(docs) + 1
      BY <1>2, <2>1, <2>3, FS_AddElement
    <2> QED BY <1>2, <1>3, <2>1, <2>2, <2>4 DEF IndexInv
  <1>6. CASE InsertCount
    <2>1. /\ writer.step = "insert" /\ writer'.step = "none" /\ total_docs' = total_docs + 1
          /\ UNCHANGED <<memtable, L0, L1>>
      BY <1>6 DEF InsertCount, Idle
    <2>2. docs' = docs
      BY <2>1 DEF docs
    <2> QED BY <1>2, <1>3, <2>1, <2>2 DEF IndexInv
  <1>7. CASE SpillClear
    <2>1. /\ writer.step = "none" /\ memtable # {} /\ memtable' = {}
          /\ writer'.step = "spill" /\ writer'.docs = memtable /\ UNCHANGED <<L0, L1, total_docs>>
      BY <1>7 DEF SpillClear
    <2>2. docs' = docs
      <3>1. \A e : e \in docs' <=> e \in docs
        BY <1>1, <2>1, DocsAre, DocsAreNext
      <3> QED BY <3>1
    <2> QED BY <1>2, <1>3, <2>1, <2>2 DEF IndexInv
  <1>8. CASE SpillLink
    <2>1. /\ writer.step = "spill" /\ L0' = <<writer.docs>> \o L0
          /\ UNCHANGED <<memtable, L1, total_docs>>
          /\ writer'.step = IF Len(L0') >= segments_per_level THEN "compact" ELSE "none"
      BY <1>8 DEF SpillLink, Idle
    <2>2. /\ Len(L0') = Len(L0) + 1 /\ L0'[1] = writer.docs
          /\ \A i \in 1 .. Len(L0) : L0'[i + 1] = L0[i]
          /\ \A i \in 1 .. Len(L0') : i # 1 => i - 1 \in 1 .. Len(L0) /\ L0'[i] = L0[i - 1]
      <3>1. PICK t : t = L0'
        OBVIOUS
      <3>2. L0 \in Seq(SUBSET Docs) /\ writer.docs \in SUBSET Docs
        BY <1>1 DEF IndexTypes, Writer
      <3> QED BY <2>1, <3>1, <3>2, Linked
    <2>3. docs' = docs
      <3>1. \A e : (\E i \in 1 .. Len(L0') : e \in L0'[i]) <=>
                      e \in writer.docs \/ \E i \in 1 .. Len(L0) : e \in L0[i]
        <4> SUFFICES ASSUME NEW e
                     PROVE  (\E i \in 1 .. Len(L0') : e \in L0'[i]) <=>
                               e \in writer.docs \/ \E i \in 1 .. Len(L0) : e \in L0[i]
          OBVIOUS
        <4>1. ASSUME NEW i \in 1 .. Len(L0'), e \in L0'[i]
              PROVE  e \in writer.docs \/ \E j \in 1 .. Len(L0) : e \in L0[j]
          BY <2>2, <4>1
        <4>2. 1 \in 1 .. Len(L0') /\ \A i \in 1 .. Len(L0) : i + 1 \in 1 .. Len(L0')
          BY <1>3, <2>2
        <4>3. ASSUME e \in writer.docs PROVE \E i \in 1 .. Len(L0') : e \in L0'[i]
          BY <2>2, <4>2, <4>3
        <4>4. ASSUME NEW j \in 1 .. Len(L0), e \in L0[j]
              PROVE  \E i \in 1 .. Len(L0') : e \in L0'[i]
          BY <2>2, <4>2, <4>4
        <4> QED BY <4>1, <4>3, <4>4
      <3>2. \A e : e \in docs' <=> e \in docs
        BY <1>1, <2>1, <3>1, DocsAre, DocsAreNext
      <3> QED BY <3>2
    <2>4. \A i \in 1 .. Len(L0') : L0'[i] # {} /\ L0'[i] \cap (memtable' \cup L1') = {}
      BY <2>1, <2>2, SMTT(30) DEF IndexInv
    <2>5. \A i, j \in 1 .. Len(L0') : i # j => L0'[i] \cap L0'[j] = {}
      <3> SUFFICES ASSUME NEW i \in 1 .. Len(L0'), NEW j \in 1 .. Len(L0'), i # j
                   PROVE  L0'[i] \cap L0'[j] = {}
        OBVIOUS
      <3>1. CASE i = 1
        <4>1. j - 1 \in 1 .. Len(L0) /\ L0'[j] = L0[j - 1]
          BY <2>2, <3>1
        <4> QED BY <2>1, <2>2, <3>1, <4>1 DEF IndexInv
      <3>2. CASE j = 1
        <4>1. i - 1 \in 1 .. Len(L0) /\ L0'[i] = L0[i - 1]
          BY <2>2, <3>2
        <4> QED BY <2>1, <2>2, <3>2, <4>1 DEF IndexInv
      <3>3. CASE i # 1 /\ j # 1
        <4>1. i - 1 \in 1 .. Len(L0) /\ L0'[i] = L0[i - 1]
          BY <2>2, <3>3
        <4>2. j - 1 \in 1 .. Len(L0) /\ L0'[j] = L0[j - 1]
          BY <2>2, <3>3
        <4>3. i - 1 # j - 1
          BY <3>3
        <4> QED BY <4>1, <4>2, <4>3 DEF IndexInv
      <3> QED BY <3>1, <3>2, <3>3
    <2>6. Len(L0') < segments_per_level + (IF writer'.step = "compact" THEN 1 ELSE 0)
      BY <1>3, <2>1, <2>2 DEF IndexInv
    <2>7. Cardinality(docs') = total_docs' + (IF writer'.step = "insert" THEN 1 ELSE 0)
      BY <2>1, <2>3 DEF IndexInv
    <2>8. memtable' \cap L1' = {} /\ writer'.step # "spill"
      BY <2>1 DEF IndexInv
    <2> QED BY <2>4, <2>5, <2>6, <2>7, <2>8 DEF IndexInv
  <1>9. CASE Compact
    <2>1. /\ writer.step = "compact" /\ writer'.step = "none" /\ L0' = << >> /\ Len(L0') = 0
          /\ L1' = L1 \cup UNION Range(L0) /\ UNCHANGED <<memtable, total_docs>>
      BY <1>9 DEF Compact, Idle
    <2>2. \A e : e \in L1' <=> e \in L1 \/ \E i \in 1 .. Len(L0) : e \in L0[i]
      BY <1>1, <2>1 DEF IndexTypes, Range
    <2>3. docs' = docs
      <3>1. \A e : e \in docs' <=> e \in docs
        BY <1>1, <2>1, <2>2, DocsAre, DocsAreNext
      <3> QED BY <3>1
    <2>4. memtable' \cap L1' = {}
      BY <2>1, <2>2 DEF IndexInv
    <2> QED BY <1>2, <1>3, <2>1, <2>3, <2>4 DEF IndexInv
  <1>10. \/ UNCHANGED index \/ (\E d \in Docs : InsertPosting(d)) \/ InsertCount \/ SpillClear
         \/ SpillLink \/ Compact
    BY DEF Next, vars, Parse, ParseUnloaded, ParseOther, PlanOther, PlanIndexScan, PlanOperator,
           EndStatement, tp_rescan, FirstTuple, NextTuple, Reexecute, NoMoreTuples, ReadHeads,
           ReadTotals, ReadMemtable, ReadSegments
  <1> QED BY <1>4, <1>5, <1>6, <1>7, <1>8, <1>9, <1>10

LEMMA IndexHolds == Spec => []IndexInv
  <1>1. Types /\ Types' /\ IndexInv /\ [Next]_vars => IndexInv'
    BY IndexStep
  <1> QED BY <1>1, IndexInit, TypesHold, PTL DEF Spec

(* QueryTypes: in every state of a session with any catalog and any        *)
(* statements, TypeOK holds; the results of a scan in particular never     *)
(* exceed what it asked for, and level 0 never holds more segments than    *)
(* segments_per_level.                                                     *)
THEOREM QueryTypes == Spec => []TypeOK
  <1>1. ASSUME Types, IndexInv PROVE TypeOK
    <2>1. docs \subseteq Docs
      BY <1>1, DocsType DEF Types
    <2>2. Cardinality(docs) <= Cardinality(Docs) /\ Cardinality(docs) \in Nat
          /\ Cardinality(Docs) \in Nat
      BY <2>1, ScoreAssumption, FS_Subset, FS_CardinalityType
    <2>3. total_docs \in 0 .. Cardinality(Docs)
      BY <1>1, <2>2 DEF Types, IndexTypes, IndexInv
    <2>4. Len(L0) \in 0 .. segments_per_level
      BY <1>1, LimitAssumption DEF Types, IndexTypes, IndexInv
    <2>5. so.current_pos \in 0 .. Len(so.results) /\ Len(so.results) <= so.max_results_used
      <3>1. so.results \in Seq(Docs) /\ so.current_pos \in Nat
        BY <1>1 DEF Types, ScanTypes, ScanState
      <3> QED BY <1>1, <3>1 DEF Types, ScanTypes
    <2>6. Range(returned) \subseteq Docs
      BY <1>1 DEF Types, ScanTypes, Range
    <2>7. op.doc_freq \in Nat /\ cache.doc_freq \in Nat
      BY <1>1 DEF Types, OperatorTypes, Row, Cache
    <2>8. {loaded, query_has_bm25_operators, hooked, validated, changed} \subseteq BOOLEAN
      BY <1>1, Zenon DEF Types, SessionTypes, PlanTypes, ScanTypes
    <2>9. /\ tp_current_limit \in [index_oid : Index \cup {NoIndex}, limit : Nat]
          /\ stmt \in Statements /\ scanned \in Index \cup {NoIndex}
          /\ query \in [kind : {"text", "bm25query"}, index_oid : Index \cup {NoIndex},
                        explicit : BOOLEAN, tenant_id : Nat]
      BY <1>1 DEF Types, SessionTypes, PlanTypes, Query, SomeIndex
    <2> QED BY <2>1, <2>3, <2>4, <2>5, <2>6, <2>7, <2>8, <2>9 DEF TypeOK
  <1> QED BY <1>1, TypesHold, IndexHolds, PTL

----------------------------------------------------------------------------
(* The operator and its cache *)

Reading == {"heads", "totals", "memtable"}

(* What the operator has read of the chains is a suffix of the chain there *)
(* is now, unless a compaction has freed it.                               *)
HeadsInv ==
    pc \in Reading /\ ~op.raced =>
        \E n \in 1 .. Len(L0) + 1 :
            /\ op.first_segment = IF n <= Len(L0) THEN L0[n] ELSE {}
            /\ op.chained = Cardinality(ChainFrom(L0, L1, n))

(* The cache's key is one the index has had, and while the operator reads  *)
(* on it is the key of the row's own reads.                                *)
KeyInv ==
    /\ cache.total_docs = -1 => cache.doc_freq = 0
    /\ cache.total_docs # -1 =>
          /\ cache.total_docs <= total_docs
          /\ cache.raced \/ cache.first_segment \in {{}} \cup {L0[i] : i \in 1 .. Len(L0)}
          /\ pc \in Reading /\ op.raced => cache.raced
    /\ pc \in {"totals", "memtable"} =>
          /\ cache.total_docs # -1 /\ cache.doc_freq = 0
          /\ cache.first_segment = op.first_segment

(* As long as cache_is_valid accepts the cache, nothing has been added to  *)
(* the index since its frequencies were counted.                           *)
Fresh == /\ writer.step = "none" /\ ~cache.raced
         /\ cache_is_valid(cache, first_segment(L0), total_docs)

FreqInv ==
    /\ pc = "memtable" /\ Fresh => op.doc_freq = Cardinality(memtable)
    /\ cache.doc_freq > 0 /\ Fresh => cache.doc_freq = Cardinality(docs)

OperatorInv == HeadsInv /\ KeyInv /\ FreqInv

(* A chain walk from a head that has moved back finds the same documents. *)
LEMMA ChainMoved ==
    ASSUME NEW s, NEW t, Len(s) \in Nat, Len(t) = Len(s) + 1,
           \A i \in 1 .. Len(s) : t[i + 1] = s[i],
           NEW deeper, NEW n \in 1 .. Len(s) + 1
    PROVE  ChainFrom(t, deeper, n + 1) = ChainFrom(s, deeper, n)
  <1>1. {t[j] : j \in n + 1 .. Len(t)} = {s[j] : j \in n .. Len(s)}
    <2>1. ASSUME NEW j \in n + 1 .. Len(t) PROVE t[j] \in {s[k] : k \in n .. Len(s)}
      <3>1. j - 1 \in n .. Len(s) /\ j - 1 \in 1 .. Len(s) /\ j = (j - 1) + 1
        OBVIOUS
      <3>2. t[j] = s[j - 1]
        BY <3>1
      <3> QED BY <3>1, <3>2
    <2>2. ASSUME NEW j \in n .. Len(s) PROVE s[j] \in {t[k] : k \in n + 1 .. Len(t)}
      <3>1. j \in 1 .. Len(s) /\ j + 1 \in n + 1 .. Len(t)
        OBVIOUS
      <3>2. t[j + 1] = s[j]
        BY <3>1
      <3> QED BY <3>1, <3>2
    <2> QED BY <2>1, <2>2
  <1> QED BY <1>1 DEF ChainFrom

(* The whole chain, and with the memtable the whole index. *)
LEMMA ChainAll ==
    ASSUME IndexTypes, IndexInv
    PROVE  /\ ChainFrom(L0, L1, 1) = L1 \cup UNION Range(L0)
           /\ writer.step = "none" =>
                 Cardinality(docs) = Cardinality(memtable) + Cardinality(ChainFrom(L0, L1, 1))
  <1>1. DOMAIN L0 = 1 .. Len(L0)
    BY DEF IndexTypes
  <1>2. {L0[j] : j \in 1 .. Len(L0)} = Range(L0)
    BY <1>1 DEF Range
  <1>3. ChainFrom(L0, L1, 1) = L1 \cup UNION Range(L0)
    BY <1>2 DEF ChainFrom
  <1>4. PICK chain : chain = ChainFrom(L0, L1, 1)
    OBVIOUS
  <1>5. \A d : d \in chain <=> d \in L1 \/ \E i \in 1 .. Len(L0) : d \in L0[i]
    BY <1>4 DEF ChainFrom
  <1>6. ASSUME writer.step = "none" PROVE Cardinality(docs) = Cardinality(memtable) + Cardinality(chain)
    <2>1. memtable \cap chain = {}
      BY <1>5 DEF IndexInv
    <2>2. docs = memtable \cup chain
      <3>1. \A d : d \in docs <=> d \in memtable \/ d \in chain
        BY <1>5, <1>6, DocsAre
      <3> QED BY <3>1
    <2>3. memtable \subseteq Docs /\ chain \subseteq Docs
      BY <2>2, DocsType
    <2>4. IsFiniteSet(memtable) /\ IsFiniteSet(chain)
      BY <2>3, ScoreAssumption, FS_Subset
    <2>5. Cardinality(memtable) \in Nat /\ Cardinality(chain) \in Nat
      BY <2>4, FS_CardinalityType
    <2>6. Cardinality(docs) = Cardinality(memtable) + Cardinality(chain) - Cardinality({})
      BY <2>1, <2>2, <2>4, FS_Union
    <2> QED BY <2>5, <2>6, FS_EmptySet
  <1> QED BY <1>3, <1>4, <1>6

LEMMA OperatorInit == Init => OperatorInv
  BY DEF Init, OperatorInv, HeadsInv, KeyInv, FreqInv, Reading, NoCache

LEMMA OperatorStep ==
    ASSUME Types, IndexInv, IndexInv', Types', OperatorInv, [Next]_vars
    PROVE  OperatorInv'
  <1> USE DEF session, plan, scan, index, operator
  <1>1. IndexTypes /\ OperatorTypes /\ HeadsInv /\ KeyInv /\ FreqInv
    BY DEF Types, OperatorInv
  <1>2. L0 \in Seq(SUBSET Docs) /\ Len(L0) \in Nat /\ total_docs \in Nat /\ cache.total_docs \in Int
        /\ cache.doc_freq \in Nat
    BY <1>1 DEF IndexTypes, OperatorTypes, Cache
  <1>3. CASE UNCHANGED <<index, operator>> /\ (pc' = pc \/ pc' \notin Reading)
    <2>1. UNCHANGED docs
      BY <1>3 DEF docs
    <2>2. HeadsInv'
      BY <1>1, <1>3 DEF HeadsInv
    <2>3. pc' \in {"totals", "memtable"} => pc \in {"totals", "memtable"}
      BY <1>3 DEF Reading
    <2>4. pc' \in Reading => pc \in Reading
      BY <1>3
    <2>5. KeyInv'
      BY <1>1, <1>3, <2>3, <2>4 DEF KeyInv
    <2>6. UNCHANGED Fresh
      BY <1>3 DEF Fresh
    <2>7. FreqInv'
      BY <1>1, <1>3, <2>1, <2>3, <2>6 DEF FreqInv, Reading
    <2> QED BY <2>2, <2>5, <2>7 DEF OperatorInv
  <1>4. CASE EndStatement
    <2>1. pc' = "idle" /\ cache' = NoCache
      BY <1>4 DEF EndStatement
    <2> QED BY <2>1 DEF OperatorInv, HeadsInv, KeyInv, FreqInv, Reading, NoCache
  <1>5. CASE ReadHeads
    <2>1. /\ pc = "operator" /\ pc' = "heads" /\ UNCHANGED <<index, cache>>
          /\ op' = [NoRow EXCEPT !.first_segment = first_segment(L0),
                                 !.chained = Cardinality(L1 \cup UNION Range(L0))]
      BY <1>5 DEF ReadHeads
    <2>2. op'.first_segment = first_segment(L0) /\ ~op'.raced
          /\ op'.chained = Cardinality(ChainFrom(L0, L1, 1))
      BY <1>1, <2>1, ChainAll DEF NoRow
    <2>3. HeadsInv'
      <3>1. first_segment(L0) = IF 1 <= Len(L0) THEN L0[1] ELSE {}
        BY <1>2 DEF first_segment
      <3>2. 1 \in 1 .. Len(L0) + 1
        BY <1>2
      <3>3. \E n \in 1 .. Len(L0) + 1 :
               /\ op'.first_segment = IF n <= Len(L0) THEN L0[n] ELSE {}
               /\ op'.chained = Cardinality(ChainFrom(L0, L1, n))
        BY <2>2, <3>1, <3>2
      <3> QED BY <2>1, <3>3 DEF HeadsInv
    <2>4. KeyInv'
      BY <1>1, <2>1, <2>2 DEF KeyInv
    <2>5. UNCHANGED Fresh /\ UNCHANGED docs
      BY <2>1 DEF Fresh, docs
    <2>6. FreqInv'
      BY <1>1, <2>1, <2>5 DEF FreqInv
    <2> QED BY <2>3, <2>4, <2>6 DEF OperatorInv
  <1>6. CASE ReadTotals
    <2>1. /\ pc = "heads" /\ UNCHANGED index /\ UNCHANGED docs
          /\ \/ pc' = "operator"
             \/ pc' = "totals" /\ op' = op /\ ~(cache'.doc_freq > 0)
          /\ \/ cache' = cache /\ cache_is_valid(cache, op.first_segment, total_docs)
             \/ cache' = [first_segment |-> op.first_segment, total_docs |-> total_docs,
                          doc_freq |-> 0, raced |-> op.raced]
      BY <1>6 DEF ReadTotals, docs
    <2>2. HeadsInv'
      BY <1>1, <2>1 DEF HeadsInv, Reading
    <2>3. CASE cache' = cache /\ cache_is_valid(cache, op.first_segment, total_docs)
      <3>1. cache.total_docs = total_docs /\ cache.first_segment = op.first_segment
        BY <2>3 DEF cache_is_valid
      <3>2. KeyInv'
        BY <1>1, <1>2, <2>1, <2>3, <3>1 DEF KeyInv, Reading
      <3>3. UNCHANGED Fresh
        BY <2>1, <2>3 DEF Fresh
      <3>4. FreqInv'
        BY <1>1, <2>1, <2>3, <3>3 DEF FreqInv
      <3> QED BY <2>2, <3>2, <3>4 DEF OperatorInv
    <2>4. CASE cache' = [first_segment |-> op.first_segment, total_docs |-> total_docs,
                         doc_freq |-> 0, raced |-> op.raced]
      <3>1. op.raced \/ op.first_segment \in {{}} \cup {L0[i] : i \in 1 .. Len(L0)}
        BY <1>1, <1>2, <2>1 DEF HeadsInv, Reading
      <3>2. KeyInv'
        BY <1>2, <2>1, <2>4, <3>1 DEF KeyInv, Reading
      <3>3. FreqInv'
        BY <2>1, <2>4 DEF FreqInv
      <3> QED BY <2>2, <3>2, <3>3 DEF OperatorInv
    <2> QED BY <2>1, <2>3, <2>4
  <1>7. CASE ReadMemtable
    <2>1. /\ pc = "totals" /\ pc' = "memtable" /\ UNCHANGED <<index, cache>>
          /\ op' = [op EXCEPT !.doc_freq = Cardinality(memtable)]
      BY <1>7 DEF ReadMemtable
    <2>2. /\ op'.doc_freq = Cardinality(memtable) /\ op'.first_segment = op.first_segment
          /\ op'.chained = op.chained /\ op'.raced = op.raced
      BY <1>1, <2>1 DEF OperatorTypes, Row
    <2>3. HeadsInv'
      BY <1>1, <2>1, <2>2 DEF HeadsInv, Reading
    <2>4. KeyInv'
      BY <1>1, <2>1, <2>2 DEF KeyInv, Reading
    <2>5. FreqInv'
      BY <1>1, <2>1, <2>2 DEF FreqInv, KeyInv
    <2> QED BY <2>3, <2>4, <2>5 DEF OperatorInv
  <1>8. CASE ReadSegments
    <2>1. /\ pc = "memtable" /\ pc' = "operator" /\ UNCHANGED index /\ UNCHANGED docs
          /\ \E n \in tp_segment_doc_freqs : cache' = [cache EXCEPT !.doc_freq = op.doc_freq + n]
      BY <1>8 DEF ReadSegments, docs
    <2>2. PICK n \in tp_segment_doc_freqs : cache' = [cache EXCEPT !.doc_freq = op.doc_freq + n]
      BY <2>1
    <2>3. /\ cache'.doc_freq = op.doc_freq + n /\ cache'.first_segment = cache.first_segment
          /\ cache'.total_docs = cache.total_docs /\ cache'.raced = cache.raced
      BY <1>1, <2>2 DEF OperatorTypes, Cache
    <2>4. HeadsInv'
      BY <2>1 DEF HeadsInv, Reading
    <2>5. KeyInv'
      BY <1>1, <2>1, <2>3 DEF KeyInv, Reading
    <2>6. Fresh' <=> Fresh
      BY <2>1, <2>3 DEF Fresh, cache_is_valid
    <2>7. ASSUME Fresh PROVE op.doc_freq + n = Cardinality(docs)
      <3>1. /\ writer.step = "none" /\ ~cache.raced
            /\ cache.first_segment = first_segment(L0) /\ cache.total_docs = total_docs
        BY <2>7 DEF Fresh, cache_is_valid
      <3>2. ~op.raced /\ op.first_segment = first_segment(L0)
        BY <1>1, <1>2, <2>1, <3>1 DEF KeyInv, Reading
      <3>3. PICK m \in 1 .. Len(L0) + 1 :
               /\ op.first_segment = IF m <= Len(L0) THEN L0[m] ELSE {}
               /\ op.chained = Cardinality(ChainFrom(L0, L1, m))
        BY <1>1, <2>1, <3>2 DEF HeadsInv, Reading
      <3>4. m = 1
        <4>1. CASE Len(L0) = 0
          BY <1>2, <4>1
        <4>2. CASE Len(L0) # 0
          <5>1. first_segment(L0) = L0[1] /\ 1 \in 1 .. Len(L0)
            BY <1>2, <4>2 DEF first_segment
          <5>2. L0[1] # {}
            BY <5>1 DEF IndexInv
          <5>2a. op.first_segment = L0[1]
            BY <3>2, <5>1
          <5>2b. m <= Len(L0)
            BY <3>3, <5>2, <5>2a
          <5>3. m \in 1 .. Len(L0) /\ L0[m] = L0[1]
            BY <1>2, <3>3, <5>2a, <5>2b
          <5>4. m # 1 => L0[m] \cap L0[1] = {}
            BY <5>1, <5>3 DEF IndexInv
          <5> QED BY <5>2, <5>3, <5>4
        <4> QED BY <4>1, <4>2
      <3>5. n = Cardinality(ChainFrom(L0, L1, 1))
        BY <3>2, <3>3, <3>4 DEF tp_segment_doc_freqs
      <3>6. op.doc_freq = Cardinality(memtable)
        BY <1>1, <2>1, <2>7 DEF FreqInv
      <3> QED BY <1>1, <3>1, <3>5, <3>6, ChainAll
    <2>8. FreqInv'
      BY <2>1, <2>3, <2>6, <2>7 DEF FreqInv
    <2> QED BY <2>4, <2>5, <2>8 DEF OperatorInv
  <1>9. CASE (\E d \in Docs : InsertPosting(d)) \/ SpillClear
    <2>1. writer'.step # "none" /\ UNCHANGED <<pc, L0, L1, total_docs, operator>>
      BY <1>9 DEF InsertPosting, SpillClear
    <2>2. HeadsInv' /\ KeyInv'
      BY <1>1, <2>1 DEF HeadsInv, KeyInv
    <2>3. FreqInv'
      BY <2>1 DEF FreqInv, Fresh
    <2> QED BY <2>2, <2>3 DEF OperatorInv
  <1>10. CASE InsertCount
    <2>1. total_docs' = total_docs + 1 /\ UNCHANGED <<pc, L0, L1, operator>>
      BY <1>10 DEF InsertCount
    <2>2. HeadsInv'
      BY <1>1, <2>1 DEF HeadsInv
    <2>3. cache'.total_docs # total_docs' /\ (cache.total_docs # -1 => cache'.total_docs <= total_docs')
      BY <1>1, <1>2, <2>1 DEF KeyInv
    <2>4. KeyInv'
      BY <1>1, <2>1, <2>3 DEF KeyInv
    <2>5. FreqInv'
      BY <2>3 DEF FreqInv, Fresh, cache_is_valid
    <2> QED BY <2>2, <2>4, <2>5 DEF OperatorInv
  <1>11. CASE SpillLink
    <2>1. /\ writer.step = "spill" /\ L0' = <<writer.docs>> \o L0
          /\ UNCHANGED <<pc, L1, total_docs, operator>>
      BY <1>11 DEF SpillLink
    <2>2. writer.docs \in SUBSET Docs
      BY <1>1 DEF IndexTypes, Writer
    <2>3. PICK t : t = L0'
      OBVIOUS
    <2>4. /\ Len(t) = Len(L0) + 1 /\ t[1] = writer.docs
          /\ \A i \in 1 .. Len(L0) : t[i + 1] = L0[i]
      BY <1>2, <2>1, <2>2, <2>3, Linked
    <2>5. HeadsInv'
      <3> SUFFICES ASSUME pc \in Reading, ~op.raced
                   PROVE  \E n \in 1 .. Len(t) + 1 :
                             /\ op.first_segment = IF n <= Len(t) THEN t[n] ELSE {}
                             /\ op.chained = Cardinality(ChainFrom(t, L1, n))
        BY <2>1, <2>3 DEF HeadsInv
      <3>1. PICK n \in 1 .. Len(L0) + 1 :
               /\ op.first_segment = IF n <= Len(L0) THEN L0[n] ELSE {}
               /\ op.chained = Cardinality(ChainFrom(L0, L1, n))
        BY <1>1 DEF HeadsInv
      <3>2. ChainFrom(t, L1, n + 1) = ChainFrom(L0, L1, n)
        BY <1>2, <2>4, ChainMoved
      <3>3. n + 1 \in 1 .. Len(t) + 1 /\ op.first_segment = IF n + 1 <= Len(t) THEN t[n + 1] ELSE {}
        BY <1>2, <2>4, <3>1
      <3> QED BY <3>1, <3>2, <3>3
    <2>6. \A i \in 1 .. Len(L0) : L0[i] \in {t[j] : j \in 1 .. Len(t)}
      <3> SUFFICES ASSUME NEW i \in 1 .. Len(L0) PROVE L0[i] \in {t[j] : j \in 1 .. Len(t)}
        OBVIOUS
      <3>1. i + 1 \in 1 .. Len(t) /\ t[i + 1] = L0[i]
        BY <1>2, <2>4
      <3> QED BY <3>1
    <2>7. KeyInv'
      BY <1>1, <2>1, <2>3, <2>6 DEF KeyInv
    <2>8. ~Fresh'
      <3> SUFFICES ASSUME Fresh' PROVE FALSE
        OBVIOUS
      <3>1. first_segment(t) = writer.docs
        BY <1>2, <2>4 DEF first_segment
      <3>2. ~cache.raced /\ cache.first_segment = writer.docs /\ cache.total_docs = total_docs
        BY <2>1, <2>3, <3>1 DEF Fresh, cache_is_valid
      <3>3. cache.first_segment \in {{}} \cup {L0[i] : i \in 1 .. Len(L0)}
        BY <1>1, <1>2, <3>2 DEF KeyInv
      <3> QED BY <2>1, <3>2, <3>3 DEF IndexInv
    <2>9. FreqInv'
      BY <2>8 DEF FreqInv
    <2> QED BY <2>5, <2>7, <2>9 DEF OperatorInv
  <1>12. CASE Compact
    <2>1. /\ UNCHANGED <<pc, total_docs>>
          /\ op' = [op EXCEPT !.raced = pc \in {"heads", "totals", "memtable"}]
          /\ cache' = [cache EXCEPT !.raced = cache.total_docs # -1]
      BY <1>12 DEF Compact
    <2>2. /\ op'.raced <=> pc \in Reading
          /\ op'.first_segment = op.first_segment
          /\ cache'.raced <=> cache.total_docs # -1
          /\ cache'.first_segment = cache.first_segment /\ cache'.doc_freq = cache.doc_freq
          /\ cache'.total_docs = cache.total_docs
      BY <1>1, <2>1 DEF OperatorTypes, Row, Cache, Reading
    <2>3. HeadsInv'
      BY <2>1, <2>2 DEF HeadsInv
    <2>4. KeyInv'
      BY <1>1, <2>1, <2>2 DEF KeyInv
    <2>5. ~Fresh'
      BY <1>2, <2>1, <2>2 DEF Fresh, cache_is_valid
    <2>6. FreqInv'
      BY <2>5 DEF FreqInv
    <2> QED BY <2>3, <2>4, <2>6 DEF OperatorInv
  <1>13. \/ UNCHANGED <<index, operator>> /\ (pc' = pc \/ pc' \notin Reading)
         \/ EndStatement \/ ReadHeads \/ ReadTotals \/ ReadMemtable \/ ReadSegments
         \/ (\E d \in Docs : InsertPosting(d)) \/ SpillClear \/ InsertCount \/ SpillLink \/ Compact
    BY DEF Next, vars, Parse, ParseUnloaded, ParseOther, PlanOther, PlanIndexScan, PlanOperator,
           tp_rescan, FirstTuple, NextTuple, Reexecute, NoMoreTuples, tp_execute_scoring_query,
           Reading
  <1> QED BY <1>3, <1>4, <1>5, <1>6, <1>7, <1>8, <1>9, <1>10, <1>11, <1>12, <1>13

(* IdfFresh: however inserts, spills and compactions fall between the      *)
(* unlocked reads of the operator, a document frequency in fn_extra that   *)
(* cache_is_valid accepts is the number of documents in the index, unless  *)
(* a level was compacted since the heads were read.                        *)
THEOREM IdfFresh == Spec => []CachedIdfFresh
  <1>1. Types /\ IndexInv /\ IndexInv' /\ Types' /\ OperatorInv /\ [Next]_vars => OperatorInv'
    BY OperatorStep
  <1>2. OperatorInv => CachedIdfFresh
    BY DEF OperatorInv, FreqInv, Fresh, CachedIdfFresh
  <1> QED BY <1>1, <1>2, OperatorInit, TypesHold, IndexHolds, PTL DEF Spec

----------------------------------------------------------------------------
(* The rows of a scan *)

(* The results of an execution, and the rows that were returned, have the  *)
(* best scores; the rows are as many as the scan's position says.          *)
RowsInv(M) ==
    /\ Found(so.results, so.max_results_used, M) /\ so.max_results_used > 0
    /\ best_scores(returned, M)
    /\ pc = "scan" => Len(returned) = so.current_pos
    /\ pc = "exhausted" => Len(returned) = Cardinality(M) \/ Len(returned) >= TP_MAX_QUERY_LIMIT

ScanInv ==
    /\ pc = "exhausted" => so.executed
    /\ pc = "scan" /\ ~so.executed => returned = << >>
    /\ pc \in {"scan", "exhausted"} /\ so.executed /\ ~changed =>
          writer.step = "none" /\ RowsInv(matches)

(* The next row of an execution goes on with the best scores. *)
LEMMA RowsGrow ==
    ASSUME NEW M, Cardinality(M) \in Nat, NEW rows \in Seq(Docs), NEW found \in Seq(Docs),
           best_scores(rows, M), best_scores(found, M), Len(rows) < Len(found)
    PROVE  /\ best_scores(Append(rows, found[Len(rows) + 1]), M)
           /\ Len(Append(rows, found[Len(rows) + 1])) = Len(rows) + 1
  <1>1. PICK m \in Nat, n \in Nat : m = Len(rows) /\ n = Len(found) /\ m < n
    OBVIOUS
  <1>2. PICK d \in Docs : d = found[m + 1]
    BY <1>1
  <1>3. PICK new \in Seq(Docs) : new = Append(rows, d)
    <2>1. Append(rows, d) \in Seq(Docs)
      OBVIOUS
    <2> QED BY <2>1, Zenon
  <1>4. Len(new) = m + 1 /\ new[m + 1] = d /\ \A i \in 1 .. m : new[i] = rows[i]
    BY <1>1, <1>3
  <1>5. ASSUME NEW i \in 1 .. m + 1
        PROVE  new[i] \in M /\ Score[new[i]] = Score[ranking(M)[i]]
    <2>1. CASE i = m + 1
      <3>1. m + 1 \in 1 .. n
        BY <1>1
      <3>2. found[m + 1] \in M /\ Score[found[m + 1]] = Score[ranking(M)[m + 1]]
        BY <1>1, <3>1 DEF best_scores
      <3> QED BY <1>2, <1>4, <2>1, <3>2
    <2>2. CASE i \in 1 .. m
      <3>1. rows[i] \in M /\ Score[rows[i]] = Score[ranking(M)[i]]
        BY <1>1, <2>2 DEF best_scores
      <3> QED BY <1>4, <2>2, <3>1
    <2> QED BY <1>1, <2>1, <2>2
  <1>6. m + 1 <= Cardinality(M)
    BY <1>1 DEF best_scores
  <1>7. best_scores(new, M)
    BY <1>4, <1>5, <1>6 DEF best_scores
  <1> QED BY <1>1, <1>2, <1>3, <1>4, <1>7

(* What an execution of the query leaves: the best documents it asked for, *)
(* and the row at its resume position, if there is one.                    *)
LEMMA Executed ==
    ASSUME Types, NEW limit \in Nat, NEW pos \in Nat,
           tp_execute_scoring_query(limit, pos), UNCHANGED <<plan, changed, index>>
    PROVE  LET k == max_results(limit)
           IN  /\ writer.step = "none" /\ matches' = matches /\ so'.executed
               /\ k \in Nat /\ k > 0 /\ so'.max_results_used = k
               /\ Found(so'.results, k, matches)
               /\ pos < Len(so'.results) =>
                    /\ pc' = "scan" /\ so'.current_pos = pos + 1
                    /\ returned' = Append(returned, so'.results[pos + 1])
               /\ ~(pos < Len(so'.results)) => pc' = "exhausted" /\ returned' = returned
  <1> USE DEF plan, index
  <1>1. PICK k \in Nat : k = max_results(limit) /\ k > 0
    BY MaxResults
  <1>2. PICK found \in tp_score_documents(k) :
           /\ so' = [so EXCEPT !.limit = limit, !.executed = TRUE, !.results = found,
                               !.eof = ~(Len(found) > pos), !.max_results_used = k,
                               !.current_pos = IF Len(found) > pos THEN pos + 1 ELSE 0]
           /\ returned' = IF Len(found) > pos THEN Append(returned, found[pos + 1]) ELSE returned
           /\ pc' = IF Len(found) > pos THEN "scan" ELSE "exhausted"
    BY <1>1 DEF tp_execute_scoring_query
  <1>3. writer.step = "none"
    BY DEF tp_execute_scoring_query
  <1>4. Found(found, k, matches)
    <2>1. docs \subseteq Docs
      BY DocsType DEF Types
    <2> QED BY <2>1, FoundFacts
  <1>5. Len(found) \in Nat
    BY <1>4 DEF Found
  <1>6. /\ so'.executed /\ so'.results = found /\ so'.max_results_used = k
        /\ so'.tenant_id = so.tenant_id
        /\ so'.current_pos = IF Len(found) > pos THEN pos + 1 ELSE 0
    BY <1>2 DEF Types, ScanTypes, ScanState
  <1>7. UNCHANGED matches
    <2>1. UNCHANGED docs
      BY DEF docs
    <2> QED BY <1>6, <2>1 DEF matches
  <1>8. /\ pos < Len(found) => /\ pc' = "scan" /\ so'.current_pos = pos + 1
                               /\ returned' = Append(returned, found[pos + 1])
        /\ ~(pos < Len(found)) => pc' = "exhausted" /\ returned' = returned
    BY <1>2, <1>5, <1>6
  <1> QED BY <1>1, <1>3, <1>4, <1>6, <1>7, <1>8

LEMMA ScanInit == Init => ScanInv
  BY DEF Init, ScanInv

LEMMA ScanStep ==
    ASSUME Types, Types', ScanInv, [Next]_vars
    PROVE  ScanInv'
  <1> USE DEF session, plan, scan, index, operator
  <1>1. CASE UNCHANGED <<scan, index, plan>> /\ (pc' = pc \/ pc' \notin {"scan", "exhausted"})
    <2>1. UNCHANGED matches
      BY <1>1 DEF matches, docs
    <2>2. CASE pc' \notin {"scan", "exhausted"}
      BY <2>2 DEF ScanInv
    <2>3. CASE pc' = pc
      BY <1>1, <2>1, <2>3 DEF ScanInv, RowsInv
    <2> QED BY <1>1, <2>2, <2>3
  <1>2. CASE pc' \notin {"scan", "exhausted"}
    BY <1>2 DEF ScanInv
  <1>3. CASE tp_rescan
    <2>1. /\ pc' \in {"scan", "rescan_error"} /\ returned' = << >>
          /\ so' = [NoScan EXCEPT !.limit = tp_get_query_limit(scanned), !.tenant_id = query.tenant_id]
      BY <1>3 DEF tp_rescan
    <2>2. ~so'.executed
      BY <2>1 DEF NoScan
    <2> QED BY <2>1, <2>2 DEF ScanInv
  <1>4. CASE FirstTuple
    <2>1. PICK limit \in Nat : limit = so.limit
      BY DEF Types, ScanTypes, ScanState
    <2>2. /\ tp_execute_scoring_query(limit, 0) /\ UNCHANGED <<plan, changed, index>>
          /\ returned = << >>
      BY <1>4, <2>1 DEF FirstTuple, ScanInv
    <2>3. PICK k : k = max_results(limit)
      OBVIOUS
    <2>4. PICK M : M = matches
      OBVIOUS
    <2>5. PICK res : res = so'.results
      OBVIOUS
    <2>6. /\ writer.step = "none" /\ matches' = M /\ so'.executed
          /\ k \in Nat /\ k > 0 /\ so'.max_results_used = k /\ Found(res, k, M)
          /\ 0 < Len(res) => /\ pc' = "scan" /\ so'.current_pos = 0 + 1
                             /\ returned' = Append(returned, res[0 + 1])
          /\ ~(0 < Len(res)) => pc' = "exhausted" /\ returned' = returned
      BY <2>2, <2>3, <2>4, <2>5, Executed
    <2>7. /\ res \in Seq(Docs) /\ Len(res) \in Nat /\ Cardinality(M) \in Nat /\ best_scores(res, M)
          /\ Len(res) = IF k <= Cardinality(M) THEN k ELSE Cardinality(M)
      BY <2>6 DEF Found
    <2>8. PICK rows \in Seq(Docs) : rows = << >> /\ Len(rows) = 0
      <3>1. << >> \in Seq(Docs) /\ Len(<< >>) = 0
        OBVIOUS
      <3> QED BY <3>1, Zenon
    <2>9. best_scores(rows, M)
      BY <2>7, <2>8 DEF best_scores
    <2>10. best_scores(returned', M)
           /\ (pc' = "scan" => Len(returned') = so'.current_pos)
           /\ (pc' = "exhausted" => Len(returned') = Cardinality(M))
           /\ pc' \in {"scan", "exhausted"}
      <3>1. CASE 0 < Len(res)
        <4>1. /\ best_scores(Append(rows, res[Len(rows) + 1]), M)
              /\ Len(Append(rows, res[Len(rows) + 1])) = Len(rows) + 1
          BY <2>7, <2>8, <2>9, <3>1, RowsGrow
        <4>2. returned' = Append(rows, res[Len(rows) + 1])
          BY <2>2, <2>6, <2>8, <3>1
        <4> QED BY <2>6, <2>8, <3>1, <4>1, <4>2
      <3>2. CASE ~(0 < Len(res))
        <4>1. Cardinality(M) = 0
          BY <2>6, <2>7, <3>2
        <4>2. returned' = rows
          BY <2>2, <2>6, <2>8, <3>2
        <4> QED BY <2>6, <2>8, <2>9, <3>2, <4>1, <4>2
      <3> QED BY <3>1, <3>2
    <2>11. RowsInv(matches)'
      BY <2>5, <2>6, <2>10 DEF RowsInv
    <2> QED BY <2>2, <2>6, <2>11 DEF ScanInv
  <1>5. CASE NextTuple
    <2>1. /\ pc = "scan" /\ so.executed /\ so.current_pos < Len(so.results)
          /\ so' = [so EXCEPT !.current_pos = so.current_pos + 1]
          /\ returned' = Append(returned, so.results[so.current_pos + 1])
          /\ UNCHANGED <<pc, plan, changed, index>>
      BY <1>5 DEF NextTuple
    <2>2. PICK res \in Seq(Docs), n \in Nat : res = so.results /\ n = so.current_pos
      BY DEF Types, ScanTypes, ScanState
    <2>3. /\ so'.current_pos = n + 1 /\ so'.results = res /\ so'.executed = so.executed
          /\ so'.max_results_used = so.max_results_used /\ so'.tenant_id = so.tenant_id
      BY <2>1, <2>2 DEF Types, ScanTypes, ScanState
    <2>4. UNCHANGED matches
      BY <2>1, <2>3 DEF matches, docs
    <2>5. CASE changed
      BY <2>1, <2>3, <2>5 DEF ScanInv
    <2>6. CASE ~changed
      <3>1. PICK M : M = matches
        OBVIOUS
      <3>2. RowsInv(M) /\ writer.step = "none"
        BY <2>1, <2>6, <3>1 DEF ScanInv
      <3>3. PICK rows \in Seq(Docs) : rows = returned
        BY DEF Types, ScanTypes
      <3>4. /\ best_scores(rows, M) /\ Len(rows) = n /\ so.max_results_used > 0
            /\ Found(res, so.max_results_used, M)
        BY <2>1, <2>2, <3>2, <3>3 DEF RowsInv
      <3>5. Cardinality(M) \in Nat /\ best_scores(res, M)
        BY <3>4 DEF Found
      <3>6. /\ best_scores(Append(rows, res[Len(rows) + 1]), M)
            /\ Len(Append(rows, res[Len(rows) + 1])) = Len(rows) + 1
        BY <2>1, <2>2, <3>4, <3>5, RowsGrow
      <3>7. returned' = Append(rows, res[Len(rows) + 1])
        BY <2>1, <2>2, <3>3, <3>4
      <3>8. RowsInv(matches)'
        BY <2>1, <2>3, <2>4, <3>1, <3>4, <3>6, <3>7 DEF RowsInv
      <3> QED BY <2>1, <2>3, <3>2, <3>8 DEF ScanInv
    <2> QED BY <2>5, <2>6
  <1>6. CASE Reexecute
    <2>1. /\ pc = "scan" /\ so.executed /\ so.current_pos >= Len(so.results) /\ limit_reached
          /\ UNCHANGED <<plan, changed, index>>
      BY <1>6 DEF Reexecute
    <2>2. PICK old \in Seq(Docs), used \in Nat : old = so.results /\ used = so.max_results_used
      BY DEF Types, ScanTypes, ScanState
    <2>3. PICK pos \in Nat : pos = Len(old)
      BY <2>2
    <2>4. so.current_pos = pos /\ pos = used /\ used < TP_MAX_QUERY_LIMIT
      <3>1. so.current_pos \in Nat /\ so.current_pos <= Len(old) /\ Len(old) <= used
        BY <2>2 DEF Types, ScanTypes, ScanState
      <3> QED BY <2>1, <2>2, <2>3, <3>1 DEF limit_reached
    <2>5. PICK limit \in Nat : /\ limit = Min({so.max_results_used * 2, TP_MAX_QUERY_LIMIT})
                               /\ limit = IF used * 2 <= TP_MAX_QUERY_LIMIT THEN used * 2
                                          ELSE TP_MAX_QUERY_LIMIT
      <3>1. PICK twice \in Nat : twice = used * 2
        BY <2>2
      <3> QED BY <2>2, <3>1, LimitAssumption, MinTwo
    <2>6. tp_execute_scoring_query(limit, pos)
      BY <1>6, <2>2, <2>3, <2>5 DEF Reexecute
    <2>7. PICK k : k = max_results(limit)
      OBVIOUS
    <2>8. PICK M : M = matches
      OBVIOUS
    <2>9. PICK res : res = so'.results
      OBVIOUS
    <2>10. /\ writer.step = "none" /\ matches' = M /\ so'.executed
           /\ k \in Nat /\ k > 0 /\ so'.max_results_used = k /\ Found(res, k, M)
           /\ pos < Len(res) => /\ pc' = "scan" /\ so'.current_pos = pos + 1
                                /\ returned' = Append(returned, res[pos + 1])
           /\ ~(pos < Len(res)) => pc' = "exhausted" /\ returned' = returned
      BY <2>1, <2>6, <2>7, <2>8, <2>9, Executed
    <2>11. CASE changed
      BY <2>1, <2>10, <2>11 DEF ScanInv
    <2>12. CASE ~changed
      <3>1. RowsInv(M)
        BY <2>1, <2>8, <2>12 DEF ScanInv
      <3>2. PICK rows \in Seq(Docs) : rows = returned
        BY DEF Types, ScanTypes
      <3>3. best_scores(rows, M) /\ Len(rows) = pos /\ used > 0
        BY <2>1, <2>2, <2>4, <3>1, <3>2 DEF RowsInv
      <3>4. k > used
        <4>1. used \in Nat /\ used < TP_MAX_QUERY_LIMIT /\ TP_MAX_QUERY_LIMIT \in Nat
          BY <2>2, <2>4, LimitAssumption
        <4>2. used * 2 > used
          BY <3>3, <4>1
        <4>3. limit > used /\ limit > 0
          BY <2>5, <3>3, <4>1, <4>2
        <4>4. max_results(limit) = limit
          BY <4>3, MaxResults
        <4> QED BY <2>7, <4>3, <4>4
      <3>5. /\ res \in Seq(Docs) /\ Len(res) \in Nat /\ Cardinality(M) \in Nat /\ best_scores(res, M)
            /\ Len(res) = IF k <= Cardinality(M) THEN k ELSE Cardinality(M)
        BY <2>10 DEF Found
      <3>6. best_scores(returned', M)
            /\ (pc' = "scan" => Len(returned') = so'.current_pos)
            /\ (pc' = "exhausted" => Len(returned') = Cardinality(M))
        <4>1. CASE pos < Len(res)
          <5>1. /\ best_scores(Append(rows, res[Len(rows) + 1]), M)
                /\ Len(Append(rows, res[Len(rows) + 1])) = Len(rows) + 1
            BY <3>3, <3>5, <4>1, RowsGrow
          <5>2. returned' = Append(rows, res[Len(rows) + 1])
            BY <2>10, <3>2, <3>3, <4>1
          <5> QED BY <2>10, <3>3, <4>1, <5>1, <5>2
        <4>2. CASE ~(pos < Len(res))
          <5>1. Cardinality(M) <= pos
            BY <2>4, <2>10, <3>4, <3>5, <4>2
          <5>2. pos <= Cardinality(M)
            BY <3>3 DEF best_scores
          <5>3. pos = Cardinality(M)
            BY <3>5, <5>1, <5>2
          <5> QED BY <2>10, <3>2, <3>3, <4>2, <5>3
        <4> QED BY <4>1, <4>2
      <3>7. RowsInv(matches)'
        BY <2>9, <2>10, <3>6 DEF RowsInv
      <3> QED BY <2>1, <2>10, <3>7 DEF ScanInv
    <2> QED BY <2>11, <2>12
  <1>7. CASE NoMoreTuples
    <2>1. /\ pc = "scan" /\ so.executed /\ so.current_pos >= Len(so.results) /\ ~limit_reached
          /\ pc' = "exhausted" /\ UNCHANGED <<plan, scan, index>>
      BY <1>7 DEF NoMoreTuples
    <2>2. PICK res \in Seq(Docs), used \in Nat : res = so.results /\ used = so.max_results_used
      BY DEF Types, ScanTypes, ScanState
    <2>3. so.current_pos = Len(res)
      BY <2>1, <2>2 DEF Types, ScanTypes, ScanState
    <2>4. UNCHANGED matches
      BY <2>1 DEF matches, docs
    <2>5. CASE changed
      BY <2>1, <2>5 DEF ScanInv
    <2>6. CASE ~changed
      <3>1. PICK M : M = matches
        OBVIOUS
      <3>2. RowsInv(M) /\ writer.step = "none"
        BY <2>1, <2>6, <3>1 DEF ScanInv
      <3>3. /\ Found(res, used, M) /\ Len(returned) = Len(res)
        BY <2>1, <2>2, <2>3, <3>2 DEF RowsInv
      <3>4. /\ Len(res) \in Nat /\ Cardinality(M) \in Nat
            /\ Len(res) = IF used <= Cardinality(M) THEN used ELSE Cardinality(M)
        BY <3>3 DEF Found
      <3>5. Len(returned) = Cardinality(M) \/ Len(returned) >= TP_MAX_QUERY_LIMIT
        <4>1. CASE Len(res) >= used
          BY <2>1, <2>2, <3>3, <4>1, LimitAssumption DEF limit_reached
        <4>2. CASE ~(Len(res) >= used)
          BY <2>2, <3>3, <3>4, <4>2
        <4> QED BY <4>1, <4>2
      <3>6. RowsInv(matches)'
        BY <2>1, <2>4, <3>1, <3>2, <3>5 DEF RowsInv
      <3> QED BY <2>1, <3>2, <3>6 DEF ScanInv
    <2> QED BY <2>5, <2>6
  <1>8. CASE (\E d \in Docs : InsertPosting(d)) \/ SpillClear
    <2>1. UNCHANGED <<pc, so, returned>> /\ scan_changed
      BY <1>8 DEF InsertPosting, SpillClear
    <2> QED BY <2>1 DEF ScanInv, scan_changed
  <1>9. CASE InsertCount \/ SpillLink \/ Compact
    <2>1. UNCHANGED <<pc, so, returned, changed>> /\ writer.step # "none"
      BY <1>9 DEF InsertCount, SpillLink, Compact
    <2> QED BY <2>1 DEF ScanInv
  <1>10. \/ UNCHANGED <<scan, index, plan>> /\ (pc' = pc \/ pc' \notin {"scan", "exhausted"})
         \/ pc' \notin {"scan", "exhausted"}
         \/ tp_rescan \/ FirstTuple \/ NextTuple \/ Reexecute \/ NoMoreTuples
         \/ (\E d \in Docs : InsertPosting(d)) \/ SpillClear
         \/ InsertCount \/ SpillLink \/ Compact
    BY DEF Next, vars, Parse, ParseUnloaded, ParseOther, PlanOther, PlanIndexScan, PlanOperator,
           EndStatement, ReadHeads, ReadTotals, ReadMemtable, ReadSegments
  <1> QED BY <1>1, <1>2, <1>3, <1>4, <1>5, <1>6, <1>7, <1>8, <1>9, <1>10

(* RowsExact: for any limit the scan starts with, however often it is      *)
(* doubled and whatever scores tie, the rows returned while the index does *)
(* not change have, place by place, the scores of the best documents, and  *)
(* the scan ends only with as many rows as documents match or at           *)
(* TP_MAX_QUERY_LIMIT.                                                     *)
THEOREM RowsExact == Spec => []ScanExact
  <1>1. Types /\ Types' /\ ScanInv /\ [Next]_vars => ScanInv'
    BY ScanStep
  <1>2. ASSUME Types, ScanInv PROVE ScanExact
    <2> SUFFICES ASSUME pc \in {"scan", "exhausted"}, ~changed, writer.step = "none"
                 PROVE  /\ best_scores(returned, matches)
                        /\ pc = "exhausted" /\ so.executed =>
                              \/ Len(returned) >= TP_MAX_QUERY_LIMIT
                              \/ Len(returned) = Cardinality(matches)
      BY Zenon DEF ScanExact
    <2>1. CASE ~so.executed
      <3>1. pc = "scan" /\ returned = << >>
        BY <1>2, <2>1 DEF ScanInv
      <3>2. PICK M \in SUBSET Docs : M = matches
        BY <1>2, DocsType DEF Types, matches
      <3>3. Cardinality(M) \in Nat
        BY RankingLists
      <3>4. best_scores(<< >>, M)
        BY <3>3 DEF best_scores
      <3> QED BY <3>1, <3>2, <3>4
    <2>2. CASE so.executed
      <3>1. RowsInv(matches)
        BY <1>2, <2>2 DEF ScanInv
      <3> QED BY <3>1 DEF RowsInv
    <2> QED BY <2>1, <2>2
  <1> QED BY <1>1, <1>2, ScanInit, TypesHold, PTL DEF Spec

----------------------------------------------------------------------------
(* The tenant filter *)

(* The tenant filter is what a conjunct demands of a related index. *)
TenantInv ==
    /\ query.tenant_id # 0 => TenantFrom(stmt, query.tenant_id)
    /\ pc \in {"planned", "scan", "exhausted"} => Related(stmt, scanned)
    /\ pc \in {"scan", "exhausted"} => so.tenant_id = query.tenant_id

LEMMA TenantInit == Init => TenantInv
  BY DEF Init, TenantInv, Raw

LEMMA TenantStep ==
    ASSUME Types, TenantInv, [Next]_vars
    PROVE  TenantInv'
  <1> USE DEF session, plan, scan, index, operator
  <1>1. ASSUME NEW s \in Statements, Parse(s) PROVE TenantInv'
    <2>1. /\ stmt' = s /\ pc' \in {"parsed", "parse_error"}
          /\ \/ query' = Raw(s)
             \/ ~parse_error(s) /\ query' = tp_post_parse_analyze(s)
      BY <1>1 DEF Parse
    <2>2. CASE query' = Raw(s)
      BY <2>1, <2>2 DEF TenantInv, Raw
    <2>3. CASE ~parse_error(s) /\ query' = tp_post_parse_analyze(s)
      <3>1. PICK q : q = tp_post_parse_analyze(s)
        OBVIOUS
      <3>2. /\ \/ q.index_oid \in {NoIndex, s.explicit}
               \/ q.index_oid \in Index /\ index_is_on_column(q.index_oid, s.table, s.column)
            /\ q.index_oid \in SomeIndex
            /\ q.tenant_id # 0 =>
                     /\ q.index_oid # NoIndex
                     /\ Catalog[q.index_oid].tenant_column # NoColumn
                     /\ \E n \in DOMAIN s.quals :
                           /\ s.quals[n].column = Catalog[q.index_oid].tenant_column
                           /\ s.quals[n].value = q.tenant_id
        BY <3>1, Analyzed DEF Query
      <3>3. ASSUME q.tenant_id # 0 PROVE TenantFrom(s, q.tenant_id)
        <4>1. q.index_oid \in Index
          BY <3>2, <3>3 DEF SomeIndex
        <4>2. index_is_on_column(q.index_oid, s.table, s.column)
          BY <2>3, <3>2, <3>3 DEF parse_error
        <4>3. Related(s, q.index_oid)
          BY <4>1, <4>2 DEF Related, index_is_on_column, scan_relations
        <4> QED BY <3>2, <3>3, <4>1, <4>3 DEF TenantFrom
      <3> QED BY <2>1, <2>3, <3>1, <3>3 DEF TenantInv
    <2> QED BY <2>1, <2>2, <2>3
  <1>2. ASSUME NEW s \in Statements, ParseUnloaded(s) PROVE TenantInv'
    BY <1>2 DEF ParseUnloaded, TenantInv, Raw
  <1>3. CASE PlanIndexScan
    <2>1. /\ Related(stmt, scanned') /\ UNCHANGED stmt /\ pc' \in {"planned", "plan_error"}
          /\ query'.tenant_id = query.tenant_id \/ TenantFrom(stmt, query'.tenant_id)
      BY <1>3, PlanEffect DEF PlanIndexScan
    <2> QED BY <2>1 DEF TenantInv
  <1>4. CASE PlanOperator \/ EndStatement
    BY <1>4 DEF PlanOperator, EndStatement, TenantInv, Raw
  <1>5. CASE tp_rescan
    <2>1. /\ pc \in {"planned", "scan", "exhausted"} /\ UNCHANGED <<stmt, query, scanned>>
          /\ so' = [NoScan EXCEPT !.limit = tp_get_query_limit(scanned), !.tenant_id = query.tenant_id]
      BY <1>5 DEF tp_rescan
    <2>2. so'.tenant_id = query.tenant_id
      BY <2>1 DEF NoScan
    <2> QED BY <2>1, <2>2 DEF TenantInv
  <1>6. CASE FirstTuple \/ NextTuple \/ Reexecute
    <2>1. /\ UNCHANGED plan /\ pc = "scan"
          /\ \/ UNCHANGED pc
             \/ pc' \in {"scan", "exhausted"}
      BY <1>6 DEF FirstTuple, NextTuple, Reexecute, tp_execute_scoring_query
    <2>2. so'.tenant_id = so.tenant_id
      <3>1. ASSUME NEW limit, NEW pos, tp_execute_scoring_query(limit, pos)
            PROVE  so'.tenant_id = so.tenant_id
        BY <3>1 DEF tp_execute_scoring_query, Types, ScanTypes, ScanState
      <3>2. CASE NextTuple
        BY <3>2 DEF NextTuple, Types, ScanTypes, ScanState
      <3> QED BY <1>6, <3>1, <3>2 DEF FirstTuple, Reexecute
    <2> QED BY <2>1, <2>2 DEF TenantInv
  <1>7. CASE UNCHANGED plan /\ UNCHANGED so
             /\ (UNCHANGED pc \/ pc' \notin {"planned", "scan", "exhausted"} \/ NoMoreTuples)
    BY <1>7 DEF TenantInv, NoMoreTuples
  <1>8. \/ \E s \in Statements : Parse(s) \/ ParseUnloaded(s)
        \/ PlanIndexScan \/ PlanOperator \/ EndStatement
        \/ tp_rescan \/ FirstTuple \/ NextTuple \/ Reexecute
        \/ /\ UNCHANGED plan /\ UNCHANGED so
           /\ UNCHANGED pc \/ pc' \notin {"planned", "scan", "exhausted"} \/ NoMoreTuples
    BY DEF Next, vars, ParseOther, PlanOther, NoMoreTuples, ReadHeads, ReadTotals, ReadMemtable,
           ReadSegments, InsertPosting, InsertCount, SpillClear, SpillLink, Compact
  <1> QED BY <1>1, <1>2, <1>3, <1>4, <1>5, <1>6, <1>7, <1>8

(* TenantFilter: for every catalog and every WHERE clause, the tenant      *)
(* filter that parse analysis or the path-list hook takes from a conjunct  *)
(* drops no row that the WHERE clause keeps, as long as the indexes on the *)
(* column agree on the tenant column and no conjunct is an outer one.      *)
THEOREM TenantFilter == Spec => []TenantKeepsRows
  <1>1. Types /\ TenantInv /\ [Next]_vars => TenantInv'
    BY TenantStep
  <1>2. ASSUME TenantInv PROVE TenantKeepsRows
    <2> SUFFICES ASSUME pc \in {"scan", "exhausted"}, so.tenant_id # 0, tenants_agree,
                        \A n \in DOMAIN stmt.quals : ~stmt.quals[n].outer,
                        NEW d \in docs, where_holds(d)
                 PROVE  d \in matches
      BY Zenon DEF TenantKeepsRows
    <2>1. Related(stmt, scanned) /\ TenantFrom(stmt, so.tenant_id)
      BY <1>2 DEF TenantInv
    <2>2. PICK i \in Index :
             /\ Related(stmt, i) /\ Catalog[i].tenant_column # NoColumn
             /\ \E n \in DOMAIN stmt.quals : /\ stmt.quals[n].column = Catalog[i].tenant_column
                                             /\ stmt.quals[n].value = so.tenant_id
      BY <2>1 DEF TenantFrom
    <2>3. Catalog[scanned].tenant_column = Catalog[i].tenant_column
      BY <2>1, <2>2 DEF tenants_agree, Related
    <2>4. Value[d][Catalog[i].tenant_column] = so.tenant_id
      BY <2>2 DEF where_holds
    <2>5. stored_tenant(scanned, d) = so.tenant_id
      BY <2>2, <2>3, <2>4 DEF stored_tenant
    <2> QED BY <2>5 DEF matches
  <1> QED BY <1>1, <1>2, TenantInit, TypesHold, PTL DEF Spec

----------------------------------------------------------------------------
(* Walking up pg_inherits *)

(* A set that holds 0 and, with each number, the next one holds all of them. *)
LEMMA NatSetInduction ==
    ASSUME NEW S, 0 \in S, \A n \in Nat : n \in S => n + 1 \in S
    PROVE  \A n \in Nat : n \in S
  <1> SUFFICES ASSUME {n \in Nat : n \notin S} # {} PROVE FALSE
    OBVIOUS
  <1>1. PICK n \in {n \in Nat : n \notin S} : \A m \in {k \in Nat : k \notin S} : n <= m
    BY MinNat
  <1>2. n # 0 /\ n - 1 \in Nat /\ n - 1 \in S
    BY <1>1
  <1> QED BY <1>1, <1>2

(* h climbs from an index or a table to its ancestors. *)
IsClimb(h, parent, none, from, depth) ==
    h = [n \in 0 .. depth |-> IF n = 0 THEN from
                              ELSE IF h[n - 1] = none THEN none ELSE parent[h[n - 1]]]

LEMMA ClimbExists ==
    ASSUME NEW parent, NEW none, NEW from, NEW depth \in Nat
    PROVE  \E h : /\ IsClimb(h, parent, none, from, depth)
                  /\ walk_up(parent, none, from, depth) = {h[n] : n \in 1 .. depth}
  <1> DEFINE G == {k \in Nat : \E h : IsClimb(h, parent, none, from, k)}
             up(x) == IF x = none THEN none ELSE parent[x]
  <1>1. 0 \in G
    <2> DEFINE h0 == [n \in 0 .. 0 |-> from]
    <2>1. IsClimb(h0, parent, none, from, 0)
      BY DEF IsClimb
    <2> QED BY <2>1
  <1>2. \A k \in Nat : k \in G => k + 1 \in G
    <2> SUFFICES ASSUME NEW k \in Nat, NEW h, IsClimb(h, parent, none, from, k)
                 PROVE  \E g : IsClimb(g, parent, none, from, k + 1)
      OBVIOUS
    <2> DEFINE g == [n \in 0 .. k + 1 |-> IF n = k + 1 THEN up(h[k]) ELSE h[n]]
    <2>1. \A n \in 0 .. k : h[n] = IF n = 0 THEN from ELSE up(h[n - 1])
      BY DEF IsClimb
    <2>2. \A n \in 0 .. k + 1 : g[n] = IF n = 0 THEN from ELSE up(g[n - 1])
      <3> HIDE DEF up
      <3> QED BY <2>1
    <2>3. g = [n \in 0 .. k + 1 |-> g[n]]
      OBVIOUS
    <2>4. IsClimb(g, parent, none, from, k + 1)
      <3> HIDE DEF g
      <3> QED BY <2>2, <2>3 DEF IsClimb
    <2> QED BY <2>4
  <1>3. depth \in G
    <2> HIDE DEF G
    <2> QED BY <1>1, <1>2, NatSetInduction
  <1> DEFINE at[n \in 0 .. depth] ==
               IF n = 0 THEN from ELSE IF at[n - 1] = none THEN none ELSE parent[at[n - 1]]
  <1>4. IsClimb(at, parent, none, from, depth)
    BY <1>3 DEF IsClimb
  <1>5. walk_up(parent, none, from, depth) = {at[n] : n \in 1 .. depth}
    BY DEF walk_up
  <1> HIDE DEF at
  <1> QED BY <1>4, <1>5

(* Once a walk has reached the root it is complete: a longer one meets no  *)
(* further ancestor.                                                       *)
LEMMA WalkComplete ==
    ASSUME NEW parent, NEW none, NEW from, NEW D \in Nat, NEW E \in Nat,
           none \in walk_up(parent, none, from, D),
           NEW x \in walk_up(parent, none, from, E), x # none
    PROVE  x \in walk_up(parent, none, from, D)
  <1> DEFINE up(y) == IF y = none THEN none ELSE parent[y]
  <1>1. PICK h : /\ IsClimb(h, parent, none, from, D)
                 /\ walk_up(parent, none, from, D) = {h[n] : n \in 1 .. D}
    BY ClimbExists
  <1>2. PICK g : /\ IsClimb(g, parent, none, from, E)
                 /\ walk_up(parent, none, from, E) = {g[n] : n \in 1 .. E}
    BY ClimbExists
  <1>3. \A n \in 0 .. D : h[n] = IF n = 0 THEN from ELSE up(h[n - 1])
    BY <1>1 DEF IsClimb
  <1>4. \A n \in 0 .. E : g[n] = IF n = 0 THEN from ELSE up(g[n - 1])
    BY <1>2 DEF IsClimb
  <1>5. up(none) = none
    OBVIOUS
  <1> HIDE DEF up
  <1>6. \A n \in Nat : n <= D /\ n <= E => h[n] = g[n]
    <2> DEFINE S == {n \in Nat : n <= D /\ n <= E => h[n] = g[n]}
    <2>1. 0 \in S
      BY <1>3, <1>4
    <2>2. ASSUME NEW n \in Nat, n \in S PROVE n + 1 \in S
      <3> SUFFICES ASSUME n + 1 <= D, n + 1 <= E PROVE h[n + 1] = g[n + 1]
        OBVIOUS
      <3>1. h[n] = g[n]
        BY <2>2
      <3>2. n + 1 \in 0 .. D /\ n + 1 \in 0 .. E /\ n + 1 # 0 /\ (n + 1) - 1 = n
        OBVIOUS
      <3>3. h[n + 1] = up(h[n]) /\ g[n + 1] = up(g[n])
        BY <1>3, <1>4, <3>2
      <3> QED BY <3>1, <3>3
    <2> HIDE DEF S
    <2>3. \A n \in Nat : n \in S
      BY <2>1, <2>2, NatSetInduction
    <2> QED BY <2>3 DEF S
  <1>7. PICK m \in 1 .. D : h[m] = none
    BY <1>1
  <1>8. PICK n \in 1 .. E : x = g[n]
    BY <1>2
  <1>9. CASE n <= D
    BY <1>1, <1>6, <1>8, <1>9
  <1>10. CASE ~(n <= D)
    <2>1. m <= E /\ g[m] = none /\ m <= n
      BY <1>6, <1>7, <1>8, <1>10
    <2> DEFINE T == {k \in Nat : m + k <= E => g[m + k] = none}
    <2>2. 0 \in T
      BY <2>1
    <2>3. ASSUME NEW k \in Nat, k \in T PROVE k + 1 \in T
      <3> SUFFICES ASSUME m + (k + 1) <= E PROVE g[m + (k + 1)] = none
        OBVIOUS
      <3>1. g[m + k] = none
        BY <2>3
      <3>2. m + (k + 1) \in 0 .. E /\ m + (k + 1) # 0 /\ (m + (k + 1)) - 1 = m + k
        OBVIOUS
      <3>3. g[m + (k + 1)] = up(g[m + k])
        BY <1>4, <3>2
      <3> QED BY <1>5, <3>1, <3>3
    <2> HIDE DEF T
    <2>4. \A k \in Nat : k \in T
      BY <2>2, <2>3, NatSetInduction
    <2>5. n - m \in T /\ m + (n - m) = n
      BY <2>1, <2>4
    <2>6. g[n] = none
      BY <1>8, <2>5 DEF T
    <2> QED BY <1>8, <2>6
  <1> QED BY <1>9, <1>10

----------------------------------------------------------------------------
(* The index that is named or found, and the one that is read *)

(* No walk up pg_inherits is cut off at MAX_INHERITANCE_DEPTH. *)
ShallowTrees ==
    /\ \A i \in Index : NoIndex \in walk_up(IndexParent, NoIndex, i, MAX_INHERITANCE_DEPTH)
    /\ \A t \in Table : NoTable \in walk_up(TableParent, NoTable, t, MAX_INHERITANCE_DEPTH)

(* What parse analysis has established for the statement and its query. *)
Resolved(s, q) ==
    /\ q.explicit <=> (s.explicit # NoIndex)
    /\ s.explicit # NoIndex => q.index_oid = s.explicit /\ q.kind = "bm25query"
    /\ q.index_oid # NoIndex => index_is_on_column(q.index_oid, s.table, s.column)

(* The flag is set only for a statement the hook has seen; a plan that was *)
(* checked agrees with its query.                                          *)
NamedInv ==
    /\ ~loaded => ~query_has_bm25_operators
    /\ pc = "idle" => ~hooked
    /\ pc = "parsed" /\ query_has_bm25_operators => hooked
    /\ hooked /\ pc # "parse_error" => Resolved(stmt, query)
    /\ pc \in {"planned", "scan", "exhausted"} /\ validated /\ query.kind = "bm25query" =>
          validate_indexscan_explicit_index(query, scanned)
    /\ pc = "rescan_error" =>
          /\ Related(stmt, scanned) /\ query.index_oid # NoIndex
          /\ ~tp_rescan_validate_query_index(query.index_oid, scanned)

LEMMA NamedInit == Init => NamedInv
  BY DEF Init, NamedInv

(* Parse analysis resolves what it does not reject. *)
LEMMA ParseResolves ==
    ASSUME NEW s \in Statements, ~parse_error(s)
    PROVE  Resolved(s, tp_post_parse_analyze(s))
  <1>1. PICK q : q = tp_post_parse_analyze(s)
    OBVIOUS
  <1>2. /\ q.explicit <=> (s.explicit # NoIndex)
        /\ s.explicit # NoIndex => q.index_oid = s.explicit /\ q.kind = "bm25query"
        /\ \/ q.index_oid \in {NoIndex, s.explicit}
           \/ q.index_oid \in Index /\ index_is_on_column(q.index_oid, s.table, s.column)
    BY <1>1, Analyzed
  <1>3. s.explicit # NoIndex => index_is_on_column(s.explicit, s.table, s.column)
    BY DEF parse_error
  <1>4. q.index_oid # NoIndex => index_is_on_column(q.index_oid, s.table, s.column)
    BY <1>2, <1>3
  <1> QED BY <1>1, <1>2, <1>4 DEF Resolved

(* What planning an index scan leaves unless it raises the error, and what *)
(* the error means: the named index could not be used.                     *)
LEMMA PlanNamed ==
    ASSUME Types, NamedInv, PlanIndexScan
    PROVE  NamedInv' /\ ExplicitAccepted'
  <1>1. /\ Related(stmt, scanned') /\ query' \in Query
        /\ query'.kind = query.kind /\ query'.index_oid = query.index_oid
        /\ query'.explicit = query.explicit
    BY PlanEffect
  <1>2. /\ pc = "parsed" /\ loaded' = TRUE /\ UNCHANGED <<query_has_bm25_operators, stmt, hooked>>
        /\ validated' = (loaded /\ query_has_bm25_operators)
        /\ pc' = IF validated' /\ query'.kind = "bm25query"
                    /\ ~validate_indexscan_explicit_index(query', scanned')
                 THEN "plan_error" ELSE "planned"
    BY DEF PlanIndexScan
  <1>3. NamedInv'
    <2>1. hooked' => Resolved(stmt', query')
      <3>1. hooked' => Resolved(stmt, query)
        BY <1>2 DEF NamedInv
      <3> QED BY <1>1, <1>2, <3>1 DEF Resolved
    <2>2. pc' = "planned" /\ validated' /\ query'.kind = "bm25query" =>
            validate_indexscan_explicit_index(query', scanned')
      BY <1>2
    <2> QED BY <1>2, <2>1, <2>2 DEF NamedInv
  <1>4. ExplicitAccepted'
    <2> SUFFICES ASSUME pc' = "plan_error", stmt.other \in {NoIndex, stmt.explicit},
                        base_relation(stmt), Catalog[stmt.explicit].valid
                 PROVE  FALSE
      BY <1>2 DEF ExplicitAccepted
    <2>1. PICK req : req = stmt.explicit
      OBVIOUS
    <2>2. /\ loaded /\ query_has_bm25_operators
          /\ ~validate_indexscan_explicit_index(query', scanned')
      BY <1>2
    <2>3. Resolved(stmt, query)
      BY <1>2, <2>2 DEF NamedInv
    <2>4. /\ req # NoIndex /\ query'.index_oid = req
          /\ req # scanned' /\ ~is_child_partition_index(req, scanned')
          /\ index_is_on_column(req, stmt.table, stmt.column)
      BY <1>1, <2>1, <2>2, <2>3 DEF validate_indexscan_explicit_index, Resolved
    <2>5. req \in Index
      BY <1>1, <2>4 DEF Query, SomeIndex
    <2>6. find_explicit_requirement_for_column(stmt) = req
      BY <2>1 DEF find_explicit_requirement_for_column
    <2>7. PICK t \in scan_relations(stmt) : \E i \in Index :
             /\ i \in index_paths(t, stmt.column)
             /\ scanned' = IF loaded /\ base_relation(stmt)
                           THEN fix_bm25_indexpaths(stmt, i) ELSE i
      BY PlanEffect
    <2>8. PICK i \in Index : /\ i \in index_paths(t, stmt.column)
                             /\ scanned' = fix_bm25_indexpaths(stmt, i)
      BY <2>2, <2>7
    <2>9. t = stmt.table
      BY <2>7 DEF scan_relations, base_relation
    <2>10. Catalog[i].table = Catalog[req].table /\ ~Catalog[i].partitioned
      BY <2>4, <2>8, <2>9 DEF index_paths, index_is_on_column
    <2>11. ~Catalog[req].partitioned
      BY <2>5, <2>10, InheritanceAssumption
    <2>12. req \in index_paths(stmt.table, stmt.column)
      BY <2>1, <2>4, <2>5, <2>11 DEF index_paths
    <2>13. scanned' = req \/ (scanned' = i /\ is_child_partition_index(req, i))
      BY <2>4, <2>6, <2>8, <2>12 DEF fix_bm25_indexpaths
    <2> QED BY <2>4, <2>13
  <1> QED BY <1>3, <1>4

LEMMA NamedStep ==
    ASSUME Types, TenantInv, NamedInv, ExplicitAccepted, [Next]_vars
    PROVE  NamedInv' /\ ExplicitAccepted'
  <1> USE DEF session, plan, scan, index, operator
  <1>1. ASSUME NEW s \in Statements, Parse(s) PROVE NamedInv' /\ ExplicitAccepted'
    <2>1. /\ loaded' /\ stmt' = s /\ hooked'
          /\ \/ pc' = "parse_error"
             \/ pc' = "parsed" /\ ~parse_error(s) /\ query' = tp_post_parse_analyze(s)
      BY <1>1 DEF Parse
    <2>2. pc' = "parsed" => Resolved(stmt', query')
      BY <2>1, ParseResolves
    <2> QED BY <2>1, <2>2 DEF NamedInv, ExplicitAccepted
  <1>2. ASSUME NEW s \in Statements, ParseUnloaded(s) PROVE NamedInv' /\ ExplicitAccepted'
    <2>1. /\ pc = "idle" /\ ~loaded /\ pc' = "parsed"
          /\ UNCHANGED <<loaded, query_has_bm25_operators, hooked>>
      BY <1>2 DEF ParseUnloaded
    <2> QED BY <2>1 DEF NamedInv, ExplicitAccepted
  <1>3. CASE ParseOther
    <2>1. loaded' = TRUE /\ query_has_bm25_operators' = FALSE /\ UNCHANGED <<pc, plan>>
      BY <1>3 DEF ParseOther
    <2> QED BY <2>1 DEF NamedInv, ExplicitAccepted
  <1>4. CASE PlanIndexScan
    BY <1>4, PlanNamed
  <1>5. CASE PlanOperator
    <2>1. /\ loaded' = TRUE /\ hooked' = FALSE /\ pc' \in {"operator", "operator_error"}
      BY <1>5 DEF PlanOperator
    <2> QED BY <2>1 DEF NamedInv, ExplicitAccepted
  <1>6. CASE EndStatement
    <2>1. pc' = "idle" /\ hooked' = FALSE /\ UNCHANGED session
      BY <1>6 DEF EndStatement
    <2> QED BY <2>1 DEF NamedInv, ExplicitAccepted
  <1>7. CASE tp_rescan
    <2>1. /\ pc \in {"planned", "scan", "exhausted"}
          /\ UNCHANGED <<loaded, query_has_bm25_operators, plan>>
          /\ \/ pc' = "scan"
             \/ /\ pc' = "rescan_error" /\ query.index_oid # NoIndex
                /\ ~tp_rescan_validate_query_index(query.index_oid, scanned)
      BY <1>7 DEF tp_rescan
    <2>2. Related(stmt, scanned)
      BY <2>1 DEF TenantInv
    <2> QED BY <2>1, <2>2 DEF NamedInv, ExplicitAccepted
  <1>8. CASE /\ UNCHANGED <<loaded, query_has_bm25_operators, plan>>
             /\ \/ pc' = pc
                \/ pc \in {"scan", "exhausted"} /\ pc' \in {"scan", "exhausted"}
                \/ pc' \in {"operator", "heads", "totals", "memtable"} /\ pc # "parse_error"
    BY <1>8 DEF NamedInv, ExplicitAccepted
  <1>9. \/ \E s \in Statements : Parse(s) \/ ParseUnloaded(s)
        \/ ParseOther \/ PlanIndexScan \/ PlanOperator \/ EndStatement \/ tp_rescan
        \/ /\ UNCHANGED <<loaded, query_has_bm25_operators, plan>>
           /\ \/ pc' = pc
              \/ pc \in {"scan", "exhausted"} /\ pc' \in {"scan", "exhausted"}
              \/ pc' \in {"operator", "heads", "totals", "memtable"} /\ pc # "parse_error"
    BY DEF Next, vars, PlanOther, FirstTuple, NextTuple, Reexecute, NoMoreTuples,
           tp_execute_scoring_query, ReadHeads, ReadTotals, ReadMemtable, ReadSegments,
           InsertPosting, InsertCount, SpillClear, SpillLink, Compact
  <1> QED BY <1>1, <1>2, <1>3, <1>4, <1>5, <1>6, <1>7, <1>8, <1>9

(* A scan of a child partition of the named index descends from it. *)
LEMMA ChildDescends ==
    ASSUME NEW i \in Index, NEW j \in Index, is_child_partition_index(i, j)
    PROVE  /\ Catalog[i].partitioned
           /\ i \in walk_up(IndexParent, NoIndex, j, Cardinality(Index))
  <1>1. PICK D \in Nat : D = Cardinality(Index)
    BY CatalogAssumption, FS_CardinalityType
  <1>2. NoIndex \in walk_up(IndexParent, NoIndex, j, D) /\ i # NoIndex
    BY <1>1, InheritanceAssumption, CatalogAssumption
  <1>3. Catalog[i].partitioned /\ i \in walk_up(IndexParent, NoIndex, j, PartitionDepth)
    BY DEF is_child_partition_index
  <1>4. i \in walk_up(IndexParent, NoIndex, j, D)
    BY <1>2, <1>3, CatalogAssumption, WalkComplete
  <1> QED BY <1>1, <1>3, <1>4

(* NamedIndexRead: whatever else the session parses and plans in between,  *)
(* an index that a statement names, or that parse analysis finds for it,   *)
(* is the one that is read, and neither the plan check nor tp_rescan       *)
(* refuses a statement for it, provided that no walk up the partition tree *)
(* is cut off.                                                             *)
THEOREM NamedIndexRead ==
    ASSUME ShallowTrees
    PROVE  Spec => []NamedIndexHonoured
  <1>1. Types /\ TenantInv /\ NamedInv /\ ExplicitAccepted /\ [Next]_vars =>
           NamedInv' /\ ExplicitAccepted'
    BY NamedStep
  <1>2. Init => ExplicitAccepted
    BY DEF Init, ExplicitAccepted
  <1>3. Types /\ TenantInv /\ [Next]_vars => TenantInv'
    BY TenantStep
  <1>4. ASSUME Types, TenantInv, NamedInv PROVE ExplicitIndexUsed
    <2> SUFFICES ASSUME pc \in {"scan", "exhausted"}, validated, hooked, stmt.explicit # NoIndex
                 PROVE  \/ scanned = stmt.explicit
                        \/ /\ Catalog[stmt.explicit].partitioned
                           /\ stmt.explicit \in walk_up(IndexParent, NoIndex, scanned,
                                                        Cardinality(Index))
      BY Zenon DEF ExplicitIndexUsed
    <2>1. Resolved(stmt, query) /\ Related(stmt, scanned)
      BY <1>4 DEF NamedInv, TenantInv
    <2>2. query.explicit /\ query.index_oid = stmt.explicit /\ query.kind = "bm25query"
      BY <2>1 DEF Resolved
    <2>3. validate_indexscan_explicit_index(query, scanned)
      BY <1>4, <2>2 DEF NamedInv
    <2>4. scanned = stmt.explicit \/ is_child_partition_index(stmt.explicit, scanned)
      BY <2>2, <2>3 DEF validate_indexscan_explicit_index
    <2>5. stmt.explicit \in Index /\ scanned \in Index
      BY <1>4, <2>1, <2>2 DEF Types, PlanTypes, Query, SomeIndex, Related
    <2> QED BY <2>4, <2>5, ChildDescends
  <1>5. ASSUME Types, NamedInv PROVE PlannedScanStarts
    <2> SUFFICES ASSUME pc = "rescan_error", hooked
                 PROVE  /\ attnum(scanned) # attnum(query.index_oid)
                        /\ ~ (/\ Catalog[query.index_oid].partitioned
                              /\ query.index_oid \in walk_up(IndexParent, NoIndex, scanned,
                                                             Cardinality(Index)))
      BY Zenon DEF PlannedScanStarts
    <2>1. PICK i : i = query.index_oid
      OBVIOUS
    <2>2. /\ Related(stmt, scanned) /\ i # NoIndex /\ i \in Index
          /\ ~tp_rescan_validate_query_index(i, scanned) /\ Resolved(stmt, query)
      BY <1>5, <2>1 DEF NamedInv, Types, PlanTypes, Query, SomeIndex
    <2>3. Catalog[i].table = stmt.table
      BY <2>1, <2>2 DEF Resolved, index_is_on_column
    <2>4. scanned \in Index /\ Catalog[scanned].table \in scan_relations(stmt)
      BY <2>2 DEF Related
    <2>5. table_inherits_from(Catalog[scanned].table, Catalog[i].table)
      <3>1. PICK t \in Table : t = Catalog[scanned].table
        BY <2>4, CatalogAssumption
      <3>2. PICK u \in Table : u = Catalog[i].table
        BY <2>2, CatalogAssumption
      <3>3. CASE t = u
        BY <3>1, <3>2, <3>3 DEF table_inherits_from
      <3>4. CASE t # u
        <4>1. u \in walk_up(TableParent, NoTable, t, Cardinality(Table))
          BY <2>3, <2>4, <3>1, <3>2, <3>4 DEF scan_relations, Children
        <4>2. Cardinality(Table) \in Nat /\ MAX_INHERITANCE_DEPTH \in Nat /\ u # NoTable
          BY CatalogAssumption, FS_CardinalityType
        <4>3. NoTable \in walk_up(TableParent, NoTable, t, MAX_INHERITANCE_DEPTH)
          BY DEF ShallowTrees
        <4>4. u \in walk_up(TableParent, NoTable, t, MAX_INHERITANCE_DEPTH)
          BY <4>1, <4>2, <4>3, WalkComplete
        <4> QED BY <3>1, <3>2, <4>4 DEF table_inherits_from
      <3> QED BY <3>3, <3>4
    <2>6. attnum(scanned) # attnum(i)
      BY <2>2, <2>5 DEF tp_rescan_validate_query_index, indexes_match_by_attribute
    <2>7. ASSUME Catalog[i].partitioned,
                 i \in walk_up(IndexParent, NoIndex, scanned, Cardinality(Index))
          PROVE  FALSE
      <3>1. PICK j \in Index : j = scanned
        BY <2>4
      <3>2. Cardinality(Index) \in Nat /\ MAX_INHERITANCE_DEPTH \in Nat
        BY CatalogAssumption, FS_CardinalityType
      <3>3. NoIndex \in walk_up(IndexParent, NoIndex, j, MAX_INHERITANCE_DEPTH)
        BY DEF ShallowTrees
      <3>4. i \in walk_up(IndexParent, NoIndex, j, MAX_INHERITANCE_DEPTH)
        BY <2>2, <2>7, <3>1, <3>2, <3>3, WalkComplete
      <3>5. index_inherits_from(scanned, i)
        BY <3>1, <3>4 DEF index_inherits_from
      <3> QED BY <2>2, <2>7, <3>5 DEF tp_rescan_validate_query_index
    <2> QED BY <2>1, <2>6, <2>7
  <1>6. Types /\ TenantInv /\ NamedInv /\ ExplicitAccepted => NamedIndexHonoured
    BY <1>4, <1>5 DEF NamedIndexHonoured
  <1> QED BY <1>1, <1>2, <1>3, <1>6, NamedInit, TenantInit, TypesHold, PTL DEF Spec
=============================================================================
