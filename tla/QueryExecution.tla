--------------------------- MODULE QueryExecution ---------------------------
(***************************************************************************)
(* One session running statements that order by column <@> query, from     *)
(* parse analysis to the last row, while other sessions change the index   *)
(* that the statement reads:                                               *)
(*   - parse analysis and planning (QueryPlanning), with the session's     *)
(*     globals query_has_bm25_operators and tp_current_limit, which other  *)
(*     statements of the session overwrite in between;                     *)
(*   - the index scan of src/src/am/scan.c, which asks for the top k under *)
(*     the index lock and asks again for twice as many when it runs out;   *)
(*   - the <@> operator evaluated row by row (src/src/types/query.c),      *)
(*     which takes no lock and keeps document frequencies in fn_extra.     *)
(*                                                                         *)
(* The documents are rows of the table that is scanned and all contain the *)
(* query's term, so the document frequency is their number.  What          *)
(* tp_score_documents returns is taken from BlockMaxWand, where its block  *)
(* bounds and tenant ranges can be relied on: k documents of the best      *)
(* scores, sorted by score and then by ctid.  Of the documents tied at the *)
(* cut it does not always keep those with the lowest ctids: the heap       *)
(* compares doc ids of different segments, and evicts nothing when a       *)
(* memtable document and a segment document tie.                           *)
(***************************************************************************)
EXTENDS QueryPlanning, FiniteSetsExt

CONSTANTS
    Docs, Score, Ctid,      \* documents; their scores for the query; where their rows are
    Value,                  \* document -> column -> integer, for the tenant columns
    Statements,
    OtherLimits,            \* <<index, limit>>: what other statements may leave stored
    tp_default_limit,       \* GUC, 1000
    TP_MAX_QUERY_LIMIT,     \* 100000
    segments_per_level      \* GUC, 8

(* What a statement can be; only a bm25query can name an index. *)
Statement == [table : Table, column : Column, kind : {"text", "bm25query"},
              explicit : Index \cup {NoIndex}, other : Index \cup {NoIndex},
              quals : Seq([column : Column, value : Nat, outer : BOOLEAN]), limit : Nat]

ASSUME StatementAssumption ==
    /\ Statements # {} /\ Statements \subseteq Statement
    /\ \A s \in Statements : s.kind = "text" => s.explicit = NoIndex
    /\ OtherLimits \subseteq Index \X Nat
ASSUME ScoreAssumption == /\ IsFiniteSet(Docs) /\ Score \in [Docs -> Int] /\ Ctid \in [Docs -> Nat]
                          /\ \A d, e \in Docs : d # e => Ctid[d] # Ctid[e]
ASSUME LimitAssumption == /\ tp_default_limit \in Nat \ {0} /\ TP_MAX_QUERY_LIMIT \in Nat \ {0}
                          /\ segments_per_level \in Nat /\ segments_per_level > 1

VARIABLES
    loaded,           \* the library is loaded in the session: its hooks are installed
    query_has_bm25_operators,
    tp_current_limit, \* [index_oid, limit], or NoLimit when it is not valid
    pc,               \* where the statement is
    stmt, query,      \* the statement and its bm25query
    hooked, validated,\* history: the parse hook saw it; the plan check ran
    scanned,          \* the index of the plan's index scan
    so, returned,     \* the scan's state; the rows it has returned
    changed,          \* history: the index changed since the scan's first execution
    memtable, L0, L1, \* the index: memtable, level-0 segments (newest first), deeper levels
    total_docs,
    writer,           \* the holder of the exclusive index lock is in the middle of this
    op, cache         \* the operator's reads for the current row; fn_extra

session == <<loaded, query_has_bm25_operators, tp_current_limit>>
plan == <<stmt, query, hooked, validated, scanned>>
scan == <<so, returned, changed>>
index == <<memtable, L0, L1, total_docs, writer>>
operator == <<op, cache>>
vars == <<session, pc, plan, scan, index, operator>>

NoStatement == CHOOSE s \in Statements : TRUE   \* what is left between statements
NoLimit == [index_oid |-> NoIndex, limit |-> 0]
NoScan == [limit |-> 0, tenant_id |-> 0, executed |-> FALSE, results |-> << >>,
           current_pos |-> 0, max_results_used |-> 0, eof |-> FALSE]
NoCache == [first_segment |-> {}, total_docs |-> -1, doc_freq |-> 0, raced |-> FALSE]
NoRow == [first_segment |-> {}, chained |-> 0, doc_freq |-> 0, raced |-> FALSE]

docs == memtable \cup (UNION Range(L0)) \cup L1 \cup (IF writer.step = "spill" THEN writer.docs ELSE {})
Idle == [step |-> "none", docs |-> {}]

Init ==
    /\ loaded \in BOOLEAN /\ query_has_bm25_operators = FALSE /\ tp_current_limit = NoLimit
    /\ pc = "idle" /\ stmt = NoStatement /\ query = Raw(stmt)
    /\ hooked = FALSE /\ validated = FALSE /\ scanned = NoIndex
    /\ so = NoScan /\ returned = << >> /\ changed = FALSE
    /\ memtable = {} /\ L0 = << >> /\ L1 = {} /\ total_docs = 0 /\ writer = Idle
    /\ op = NoRow /\ cache = NoCache

-----------------------------------------------------------------------------
(* Parse analysis.  The library is loaded lazily: a session's first statement can be
   analysed before the hooks exist. *)
Parse(s) ==
    /\ pc = "idle" /\ loaded
    /\ stmt' = s /\ hooked' = TRUE
    /\ IF parse_error(s)
       THEN pc' = "parse_error" /\ query' = Raw(s) /\ query_has_bm25_operators' = FALSE
       ELSE pc' = "parsed" /\ query' = tp_post_parse_analyze(s) /\ query_has_bm25_operators' = TRUE
    /\ UNCHANGED <<loaded, tp_current_limit, validated, scanned, scan, index, operator>>

ParseUnloaded(s) ==
    /\ pc = "idle" /\ ~loaded
    /\ stmt' = s /\ query' = Raw(s) /\ pc' = "parsed"
    /\ UNCHANGED <<session, hooked, validated, scanned, scan, index, operator>>

(* Another statement is analysed before this one is planned: the EXECUTE that runs a
   prepared statement, or the next Parse message.  Its hook resets the flag. *)
ParseOther ==
    /\ pc = "parsed"
    /\ loaded' = TRUE /\ query_has_bm25_operators' = FALSE
    /\ UNCHANGED <<tp_current_limit, pc, plan, scan, index, operator>>

(* Another statement with a LIMIT is planned and not executed (EXPLAIN, an error): nothing
   clears the limit it stored. *)
tp_store_query_limit(i, limit) == tp_current_limit' = [index_oid |-> i, limit |-> limit]

PlanOther(i, limit) ==
    /\ pc = "parsed" /\ loaded
    /\ tp_store_query_limit(i, limit)
    /\ UNCHANGED <<loaded, query_has_bm25_operators, pc, plan, scan, index, operator>>

(* tp_costestimate is called for every ordered path and stores the LIMIT each time: the last
   one called wins. *)
tp_costestimate(paths) ==
    IF stmt.limit > 0 /\ paths # {} THEN \E i \in paths : tp_store_query_limit(i, stmt.limit)
    ELSE UNCHANGED tp_current_limit

(* The plan is an index scan of one of table t's paths; paths are those the planner has kept
   when tp_set_rel_pathlist_hook runs, which loads the library at the latest. *)
PlanIndexScan ==
    /\ pc = "parsed"
    /\ \E t \in scan_relations(stmt) : \E paths \in SUBSET index_paths(t, stmt.column) :
       \E path \in paths :
          LET fixed(i) == IF loaded /\ base_relation(stmt) THEN fix_bm25_indexpaths(stmt, i) ELSE i
          IN  /\ scanned' = fixed(path)
              /\ IF base_relation(stmt)
                 THEN query' \in inject_tenant_in_indexpaths(query, stmt.quals, {fixed(i) : i \in paths})
                 ELSE query' = query
              /\ tp_costestimate(index_paths(t, stmt.column))
    /\ validated' = (loaded /\ query_has_bm25_operators)
    /\ pc' = IF validated' /\ query'.kind = "bm25query"
                /\ ~validate_indexscan_explicit_index(query', scanned')
             THEN "plan_error" ELSE "planned"
    /\ loaded' = TRUE
    /\ UNCHANGED <<query_has_bm25_operators, stmt, hooked, scan, index, operator>>

(* The plan sorts the rows of a sequential scan: <@> is called for every row.  Without a
   resolved index validate_and_open_index (or the text <@> text function) raises an error. *)
PlanOperator ==
    /\ pc = "parsed"
    /\ tp_costestimate(index_paths(stmt.table, stmt.column))
    /\ pc' = IF query.index_oid = NoIndex THEN "operator_error" ELSE "operator"
    /\ loaded' = TRUE
    /\ stmt' = NoStatement /\ query' = Raw(NoStatement) /\ hooked' = FALSE   \* not used any more
    /\ UNCHANGED <<query_has_bm25_operators, validated, scanned, scan, index, operator>>

EndStatement ==
    /\ pc \notin {"idle", "parsed"}
    /\ pc' = "idle" /\ stmt' = NoStatement /\ query' = Raw(NoStatement)
    /\ hooked' = FALSE /\ validated' = FALSE /\ scanned' = NoIndex
    /\ so' = NoScan /\ returned' = << >> /\ changed' = FALSE /\ op' = NoRow /\ cache' = NoCache
    /\ UNCHANGED <<session, index>>

-----------------------------------------------------------------------------
(* The index scan. *)

(* tp_get_query_limit: the stored limit, if it is for this index; it is cleared when taken. *)
tp_get_query_limit(i) == IF tp_current_limit.index_oid = i THEN tp_current_limit.limit ELSE 0

(* The scan starts, or starts again below a nested loop.  A text argument leaves the tenant
   filter off. *)
tp_rescan ==
    /\ pc \in {"planned", "scan", "exhausted"}
    /\ so' = [NoScan EXCEPT !.limit = tp_get_query_limit(scanned), !.tenant_id = query.tenant_id]
    /\ tp_current_limit' = IF tp_current_limit.index_oid = scanned THEN NoLimit ELSE tp_current_limit
    /\ returned' = << >> /\ changed' = FALSE
    /\ pc' = IF query.kind = "bm25query" /\ query.index_oid # NoIndex
                /\ ~tp_rescan_validate_query_index(query.index_oid, scanned)
             THEN "rescan_error" ELSE "scan"
    /\ UNCHANGED <<loaded, query_has_bm25_operators, plan, index, operator>>

(* The tenant id that the index stores with a document. *)
stored_tenant(i, d) == IF Catalog[i].tenant_column = NoColumn THEN 0 ELSE Value[d][Catalog[i].tenant_column]
matches == {d \in docs : so.tenant_id \in {0, stored_tenant(scanned, d)}}

(* doc_score_greater: by score, ties by ctid. *)
doc_score_greater(d, e) == Score[d] > Score[e] \/ (Score[d] = Score[e] /\ Ctid[d] < Ctid[e])

ranking(S) == [n \in 1 .. Cardinality(S) |->
                  CHOOSE d \in S : Cardinality({e \in S : doc_score_greater(e, d)}) = n - 1]

(* heap_beats_root: a document left out does not outscore one that is kept.  Of two with the
   same score the one with the lower ctid is kept if both are in the memtable; among segments
   the code compares doc ids, and which of two is kept is left open here. *)
stays(d, e) == Score[d] > Score[e] \/ (Score[d] = Score[e] /\ ({d, e} \subseteq memtable => Ctid[d] < Ctid[e]))

best(k) == {T \in SUBSET matches : /\ Cardinality(T) = Min({k, Cardinality(matches)})
                                   /\ \A d \in T, e \in matches \ T : stays(d, e)}

(* Mutant: one document too many. *)
tp_score_documentsOver(k) == {ranking(T) : T \in best(k + 1)}

(* k best documents, sorted.  That none of them is skipped is what BlockMaxWand shows of block
   bounds that cover the scores and tenants that have a range. *)
tp_score_documents(k) == {ranking(T) : T \in best(k)}

(* tp_memtable_search's max_results, and the scan's state after an execution that resumes at
   result pos; FALSE when there is nothing at pos, and the scan is over. *)
max_results(limit) == IF limit > 0 THEN limit ELSE tp_default_limit

tp_execute_scoring_query(limit, pos) ==
    /\ writer.step = "none"
    /\ \E found \in tp_score_documents(max_results(limit)) :
         LET more == Len(found) > pos
         IN  /\ so' = [so EXCEPT !.limit = limit, !.executed = TRUE, !.results = found, !.eof = ~more,
                                 !.max_results_used = max_results(limit),
                                 !.current_pos = IF more THEN pos + 1 ELSE 0]
             /\ returned' = IF more THEN Append(returned, found[pos + 1]) ELSE returned
             /\ pc' = IF more THEN "scan" ELSE "exhausted"

FirstTuple ==
    /\ pc = "scan" /\ ~so.executed
    /\ tp_execute_scoring_query(so.limit, 0)
    /\ UNCHANGED <<session, plan, changed, index, operator>>

NextTuple ==
    /\ pc = "scan" /\ so.executed /\ so.current_pos < Len(so.results)
    /\ so' = [so EXCEPT !.current_pos = so.current_pos + 1]
    /\ returned' = Append(returned, so.results[so.current_pos + 1])
    /\ UNCHANGED <<session, pc, plan, changed, index, operator>>

(* The results are used up.  If the limit was reached there may be more. *)
limit_reached == Len(so.results) >= so.max_results_used /\ so.max_results_used < TP_MAX_QUERY_LIMIT

(* Mutant: the new execution is read from its first result. *)
ReexecuteFromStart ==
    /\ pc = "scan" /\ so.executed /\ so.current_pos >= Len(so.results) /\ limit_reached
    /\ tp_execute_scoring_query(Min({so.max_results_used * 2, TP_MAX_QUERY_LIMIT}), 0)
    /\ UNCHANGED <<session, plan, changed, index, operator>>

Reexecute ==
    /\ pc = "scan" /\ so.executed /\ so.current_pos >= Len(so.results) /\ limit_reached
    /\ tp_execute_scoring_query(Min({so.max_results_used * 2, TP_MAX_QUERY_LIMIT}), Len(so.results))
    /\ UNCHANGED <<session, plan, changed, index, operator>>

NoMoreTuples ==
    /\ pc = "scan" /\ so.executed /\ so.current_pos >= Len(so.results) /\ ~limit_reached
    /\ pc' = "exhausted"
    /\ UNCHANGED <<session, plan, scan, index, operator>>

-----------------------------------------------------------------------------
(* The operator, bm25_text_bm25query_score, for one row after another: no lock is taken, so
   the index can change between any two reads. *)

first_segment(heads) == IF heads = << >> THEN {} ELSE heads[1]

(* Mutant: a spill does not invalidate the cache. *)
cache_is_validTotalOnly(c, first, total) == c.total_docs = total

cache_is_valid(c, first, total) == c.first_segment = first /\ c.total_docs = total

(* The copy of the metapage: the head of every level, and with it the documents that the
   chains from these heads hold. *)
ReadHeads ==
    /\ pc = "operator"
    /\ op' = [NoRow EXCEPT !.first_segment = first_segment(L0),
                           !.chained = Cardinality(L1 \cup UNION Range(L0))]
    /\ pc' = "heads"
    /\ UNCHANGED <<session, plan, scan, index, cache>>

(* The corpus statistics, and the cache compared with them; a term that is cached needs no
   more reads.  The index is one that holds its documents itself: for an empty parent of an
   inheritance tree the code goes on with the totals and then the heads of the first child. *)
ReadTotals ==
    /\ pc = "heads"
    /\ cache' = IF cache_is_valid(cache, op.first_segment, total_docs) THEN cache
                ELSE [first_segment |-> op.first_segment, total_docs |-> total_docs,
                      doc_freq |-> 0, raced |-> op.raced]
    /\ IF cache'.doc_freq > 0 THEN pc' = "operator" /\ op' = NoRow
                              ELSE pc' = "totals" /\ op' = op
    /\ UNCHANGED <<session, plan, scan, index>>

ReadMemtable ==
    /\ pc = "totals"
    /\ op' = [op EXCEPT !.doc_freq = Cardinality(memtable)]
    /\ pc' = "memtable"
    /\ UNCHANGED <<session, plan, scan, index, cache>>

(* The chains from the copied heads; pages that a compaction has freed can hold anything.
   A frequency of 0 is not cached. *)
tp_segment_doc_freqs ==
    IF op.raced THEN 0 .. Cardinality(Docs) ELSE {op.chained}

ReadSegments ==
    /\ pc = "memtable"
    /\ \E n \in tp_segment_doc_freqs : cache' = [cache EXCEPT !.doc_freq = op.doc_freq + n]
    /\ op' = NoRow /\ pc' = "operator"
    /\ UNCHANGED <<session, plan, scan, index>>

-----------------------------------------------------------------------------
(* Other sessions write, one at a time under the exclusive lock.  SharedIndex has the
   details; here only the order in which an unlocked reader sees the changes. *)

scan_changed == changed' = (changed \/ (pc \in {"scan", "exhausted"} /\ so.executed))

InsertPosting(d) ==
    /\ writer.step = "none" /\ d \notin docs
    /\ memtable' = memtable \cup {d}
    /\ writer' = [step |-> "insert", docs |-> {d}]
    /\ scan_changed
    /\ UNCHANGED <<session, pc, plan, so, returned, L0, L1, total_docs, operator>>

InsertCount ==
    /\ writer.step = "insert"
    /\ total_docs' = total_docs + 1 /\ writer' = Idle
    /\ UNCHANGED <<session, pc, plan, scan, memtable, L0, L1, operator>>

(* A spill empties the memtable, then links the segment; the scores of the spilled documents
   change with it, since a segment keeps quantised lengths. *)
SpillClear ==
    /\ writer.step = "none" /\ memtable # {}
    /\ memtable' = {} /\ writer' = [step |-> "spill", docs |-> memtable]
    /\ scan_changed
    /\ UNCHANGED <<session, pc, plan, so, returned, L0, L1, total_docs, operator>>

SpillLink ==
    /\ writer.step = "spill"
    /\ L0' = <<writer.docs>> \o L0
    /\ writer' = IF Len(L0') >= segments_per_level THEN [step |-> "compact", docs |-> {}] ELSE Idle
    /\ UNCHANGED <<session, pc, plan, scan, memtable, L1, total_docs, operator>>

Compact ==
    /\ writer.step = "compact"
    /\ L1' = L1 \cup UNION Range(L0) /\ L0' = << >> /\ writer' = Idle
    /\ op' = [op EXCEPT !.raced = pc \in {"heads", "totals", "memtable"}]
    /\ cache' = [cache EXCEPT !.raced = cache.total_docs # -1]
    /\ UNCHANGED <<session, pc, plan, scan, memtable, total_docs>>

Next ==
    \/ \E s \in Statements : Parse(s) \/ ParseUnloaded(s)
    \/ ParseOther
    \/ \E o \in OtherLimits : PlanOther(o[1], o[2])
    \/ PlanIndexScan \/ PlanOperator \/ EndStatement
    \/ tp_rescan \/ FirstTuple \/ NextTuple \/ Reexecute \/ NoMoreTuples
    \/ ReadHeads \/ ReadTotals \/ ReadMemtable \/ ReadSegments
    \/ \E d \in Docs : InsertPosting(d)
    \/ InsertCount \/ SpillClear \/ SpillLink \/ Compact

Spec == Init /\ [][Next]_vars

-----------------------------------------------------------------------------
(* TypeOK: the state of the session, the scan and the index has its types; a scan never holds
   more results than it asked for. *)
TypeOK ==
    /\ {loaded, query_has_bm25_operators, hooked, validated, changed} \subseteq BOOLEAN
    /\ tp_current_limit \in [index_oid : Index \cup {NoIndex}, limit : Nat]
    /\ stmt \in Statements
    /\ query \in [kind : {"text", "bm25query"}, index_oid : Index \cup {NoIndex},
                  explicit : BOOLEAN, tenant_id : Nat]
    /\ scanned \in Index \cup {NoIndex}
    /\ so.current_pos \in 0 .. Len(so.results) /\ Len(so.results) <= so.max_results_used
    /\ Range(returned) \subseteq Docs
    /\ docs \subseteq Docs /\ total_docs \in 0 .. Cardinality(Docs)
    /\ Len(L0) \in 0 .. segments_per_level
    /\ op.doc_freq \in Nat /\ cache.doc_freq \in Nat

(* ExplicitIndexUsed: a statement that names an index, and whose plan was checked, reads that
   index or, for a partitioned index, one of its partitions (the error of
   validate_indexscan_explicit_index: "that index must be used for the scan"). *)
ExplicitIndexUsed ==
    pc \in {"scan", "exhausted"} /\ validated /\ hooked /\ stmt.explicit # NoIndex =>
        \/ scanned = stmt.explicit
        \/ Catalog[stmt.explicit].partitioned
           /\ stmt.explicit \in walk_up(IndexParent, NoIndex, scanned, Cardinality(Index))

(* ExplicitAccepted: the plan check rejects no statement that names one valid index of a table
   without partitions: the path-list hook has already moved every path to it. *)
ExplicitAccepted ==
    pc = "plan_error" =>
        \/ stmt.other \notin {NoIndex, stmt.explicit}
        \/ ~base_relation(stmt)
        \/ ~Catalog[stmt.explicit].valid

(* PlannedScanStarts: what parse analysis and the plan check have let through is not refused
   by tp_rescan, unless the index is not a partitioned one and the column's attribute number
   differs between parent and child table. *)
PlannedScanStarts ==
    pc = "rescan_error" /\ hooked =>
        /\ attnum(scanned) # attnum(query.index_oid)
        /\ ~ (Catalog[query.index_oid].partitioned
              /\ query.index_oid \in walk_up(IndexParent, NoIndex, scanned, Cardinality(Index)))

(* NamedIndexHonoured: an index that a statement names, or that parse analysis has found for
   it, is the one that is read, and none of the later checks refuses a statement for it. *)
NamedIndexHonoured == ExplicitIndexUsed /\ ExplicitAccepted /\ PlannedScanStarts

(* TenantKeepsRows: the tenant filter that the hooks take from the WHERE clause drops no row
   that the WHERE clause keeps, as long as the indexes on the column agree on the tenant
   column and the predicate is not one on an outer query's table. *)
tenants_agree ==
    \E tables \in {scan_relations(stmt)} :
        \A i, j \in {k \in Index : Catalog[k].column = stmt.column /\ Catalog[k].table \in tables} :
            Catalog[i].tenant_column = Catalog[j].tenant_column
where_holds(d) ==
    \A n \in DOMAIN stmt.quals :
        ~stmt.quals[n].outer => Value[d][stmt.quals[n].column] = stmt.quals[n].value

TenantKeepsRows ==
    pc \in {"scan", "exhausted"} /\ so.tenant_id # 0 =>
        \/ \A d \in docs : where_holds(d) => d \in matches
        \/ \E n \in DOMAIN stmt.quals : stmt.quals[n].outer
        \/ ~tenants_agree

(* The rows have, place by place, the scores of the best documents of a set. *)
best_scores(rows, S) ==
    /\ Len(rows) <= Cardinality(S)
    /\ \A n \in 1 .. Len(rows) : rows[n] \in S /\ Score[rows[n]] = Score[ranking(S)[n]]

(* ScanExact: while the index does not change, the rows a scan returns are best ones in order,
   whatever limit it started with (its own, none, or one that another statement left behind)
   and however often it was doubled: no score is left out, none is returned more often than
   documents have it, and so a document whose score no other one has comes once, in its place.
   Of documents that tie, one may come again in the place of another.  The scan ends only when
   as many rows as there are matching documents, or TP_MAX_QUERY_LIMIT, are returned. *)
ScanExact ==
    pc \in {"scan", "exhausted"} /\ ~changed /\ writer.step = "none" =>
        /\ best_scores(returned, matches)
        /\ pc = "exhausted" /\ so.executed =>
              \/ Len(returned) >= TP_MAX_QUERY_LIMIT
              \/ Len(returned) = Cardinality(matches)

(* CachedIdfFresh: between two rows, a cached document frequency that cache_is_valid would
   accept is the true one, if no level has been compacted since its heads were read. *)
CachedIdfFresh ==
    pc = "operator" /\ writer.step = "none" /\ cache.doc_freq > 0 /\ ~cache.raced
    /\ cache_is_valid(cache, first_segment(L0), total_docs)
        => cache.doc_freq = Cardinality(docs)
=============================================================================
