---------------------------- MODULE QueryPlanning ----------------------------
(***************************************************************************)
(* How a statement that orders by column <@> query gets its index: the     *)
(* parse-analysis hook, the path-list hook and the plan check of           *)
(* src/src/planner/hooks.c, and the check that tp_rescan repeats when the  *)
(* scan starts (src/src/am/scan.c).                                        *)
(*                                                                         *)
(* A statement is [table, column, kind, explicit, other, quals, limit]:    *)
(*   kind      "text" or "bm25query": the type of <@>'s right operand;     *)
(*   explicit  the index the bm25query names, or NoIndex;                  *)
(*   other     the index named by an earlier <@> of the same column in the *)
(*             target list, or NoIndex;                                    *)
(*   quals     the "column = integer" conjuncts of its WHERE clause, each  *)
(*             [column, value, outer]: outer, when the column is that of   *)
(*             an enclosing query whose range table number is the same;    *)
(*   limit     its LIMIT, 0 for none.                                      *)
(* A bm25query is [kind, index_oid, explicit, tenant_id], tenant_id 0 for  *)
(* "no tenant filter".                                                     *)
(***************************************************************************)
EXTENDS Integers, Sequences, FiniteSets, SequencesExt

CONSTANTS
    Catalog,               \* BM25 index -> [table, column, tenant_column, partitioned, parent, valid]
    CatalogOrder,          \* the indexes in the order a scan of pg_index finds them
    TableParent,           \* table -> the table it is a partition or child of, or NoTable
    Attno,                 \* table -> column -> attribute number
    NoIndex, NoTable, NoColumn,
    MAX_INHERITANCE_DEPTH, \* how far tp_rescan walks up pg_inherits (32 in the code)
    PartitionDepth         \* how far the plan check walks up (100 in the code)

Index == DOMAIN Catalog
Table == DOMAIN TableParent
Column == UNION {DOMAIN Attno[t] : t \in Table}

ASSUME CatalogAssumption ==
    /\ CatalogOrder \in Seq(Index) /\ Range(CatalogOrder) = Index
    /\ NoIndex \notin Index /\ NoTable \notin Table
    /\ IsFiniteSet(Index) /\ IsFiniteSet(Table)
    /\ TableParent \in [Table -> Table \cup {NoTable}]
    /\ \A i \in Index : Catalog[i].table \in Table /\ Catalog[i].parent \in Index \cup {NoIndex}
    /\ MAX_INHERITANCE_DEPTH \in Nat /\ PartitionDepth \in Nat

(* pg_inherits: the parents of an index and of a table, walked at most depth up. *)
IndexParent == [i \in Index |-> Catalog[i].parent]
walk_up(parent, none, from, depth) ==
    LET at[n \in 0 .. depth] ==
            IF n = 0 THEN from ELSE IF at[n - 1] = none THEN none ELSE parent[at[n - 1]]
    IN  {at[n] : n \in 1 .. depth}

(* What PostgreSQL sees to: an index is partitioned when its table is, and nothing is its own
   ancestor, so that walking up ends. *)
ASSUME InheritanceAssumption ==
    /\ \A i, j \in Index : Catalog[i].table = Catalog[j].table =>
                              Catalog[i].partitioned = Catalog[j].partitioned
    /\ \A i \in Index : NoIndex \in walk_up(IndexParent, NoIndex, i, Cardinality(Index))
    /\ \A t \in Table : NoTable \in walk_up(TableParent, NoTable, t, Cardinality(Table))

-----------------------------------------------------------------------------
(* Parse analysis: tp_post_parse_analyze_hook. *)

index_is_on_column(i, table, column) == Catalog[i].table = table /\ Catalog[i].column = column

(* The first index on the column in catalog order. *)
find_bm25_index_for_column(table, column) ==
    LET on == {n \in DOMAIN CatalogOrder : index_is_on_column(CatalogOrder[n], table, column)}
    IN  IF on = {} THEN NoIndex ELSE CatalogOrder[Min(on)]

Raw(stmt) == [kind |-> stmt.kind, index_oid |-> stmt.explicit,
              explicit |-> stmt.explicit # NoIndex, tenant_id |-> 0]

(* An explicit index must be on the column; transform_tpquery_opexpr raises an error. *)
parse_error(stmt) ==
    \E i \in {stmt.explicit, stmt.other} \ {NoIndex} : ~index_is_on_column(i, stmt.table, stmt.column)

(* transform_tpquery_opexpr and transform_text_text_opexpr: a query without an index gets
   the column's, marked as not explicit; a column without an index leaves it as it is. *)
resolve_index_mutator(stmt) ==
    LET found == find_bm25_index_for_column(stmt.table, stmt.column)
    IN  IF stmt.explicit # NoIndex \/ found = NoIndex THEN Raw(stmt)
        ELSE [kind |-> "bm25query", index_oid |-> found, explicit |-> FALSE, tenant_id |-> 0]

(* The value of the first of some conjuncts, 0 if there is none. *)
FirstValue(quals, on) == IF on = {} THEN 0 ELSE quals[Min(on)].value

(* Mutant: the first integer equality, whatever its column. *)
find_equality_const_for_columnAny(quals, column) == FirstValue(quals, DOMAIN quals)

(* The first conjunct on the column.  The level of the Var is not looked at. *)
find_equality_const_for_column(quals, column) ==
    FirstValue(quals, {n \in DOMAIN quals : quals[n].column = column})

(* The same for the planner's restriction list: a column of an outer query is a Param there. *)
find_equality_const_in_restrictinfo(quals, column) ==
    FirstValue(quals, {n \in DOMAIN quals : quals[n].column = column /\ ~quals[n].outer})

get_index_tenant_attnum(i) == Catalog[i].tenant_column

inject_tenant_predicate(query, quals) ==
    IF query.kind = "text" \/ query.index_oid = NoIndex \/ query.tenant_id # 0
       \/ get_index_tenant_attnum(query.index_oid) = NoColumn THEN query
    ELSE [query EXCEPT !.tenant_id =
             find_equality_const_for_column(quals, get_index_tenant_attnum(query.index_oid))]

tp_post_parse_analyze(stmt) == inject_tenant_predicate(resolve_index_mutator(stmt), stmt.quals)

-----------------------------------------------------------------------------
(* Planning. *)

(* The relations the statement scans: the table itself or, if it has partitions or
   children, its descendants (and an inheritance parent's own rows). *)
Children(t) == {c \in Table : t \in walk_up(TableParent, NoTable, c, Cardinality(Table))}
base_relation(stmt) == Children(stmt.table) = {}
scan_relations(stmt) == {stmt.table} \cup Children(stmt.table)

(* The ordered index paths of table t: the planner's indexlist holds valid indexes only. *)
index_paths(t, column) ==
    {i \in Index : index_is_on_column(i, t, column) /\ Catalog[i].valid /\ ~Catalog[i].partitioned}

is_child_partition_index(specified, scan) ==
    Catalog[specified].partitioned /\ specified \in walk_up(IndexParent, NoIndex, scan, PartitionDepth)

(* The first explicit index for the column in the order of the query tree. *)
find_explicit_requirement_for_column(stmt) == IF stmt.other # NoIndex THEN stmt.other ELSE stmt.explicit

(* The index of a path after the swap. *)
fix_bm25_indexpaths(stmt, i) ==
    LET req == find_explicit_requirement_for_column(stmt)
    IN  IF \/ req = NoIndex \/ i = req
           \/ is_child_partition_index(req, i)
           \/ req \notin index_paths(stmt.table, stmt.column) THEN i
        ELSE req

(* The tenant ids that the path-list hook may write into the query: the paths share the
   query constant, so the first path that has one decides. *)
inject_tenant_in_indexpaths(query, quals, paths) ==
    LET ids == {find_equality_const_in_restrictinfo(quals, get_index_tenant_attnum(i)) :
                    i \in {p \in paths : get_index_tenant_attnum(p) # NoColumn}} \ {0}
    IN  IF query.kind = "text" \/ query.tenant_id # 0 \/ ids = {} THEN {query}
        ELSE {[query EXCEPT !.tenant_id = v] : v \in ids}

(* Mutant: the plan is not compared with the query. *)
validate_indexscan_explicit_indexNever(query, scan) == TRUE

(* FALSE is the error; a mismatch of an implicit index is only a warning. *)
validate_indexscan_explicit_index(query, scan) ==
    \/ query.index_oid = NoIndex \/ query.index_oid = scan
    \/ is_child_partition_index(query.index_oid, scan)
    \/ ~query.explicit

-----------------------------------------------------------------------------
(* The start of the scan. *)

index_inherits_from(i, ancestor) ==
    i = ancestor \/ ancestor \in walk_up(IndexParent, NoIndex, i, MAX_INHERITANCE_DEPTH)
table_inherits_from(t, ancestor) ==
    t = ancestor \/ ancestor \in walk_up(TableParent, NoTable, t, MAX_INHERITANCE_DEPTH)

attnum(i) == Attno[Catalog[i].table][Catalog[i].column]

indexes_match_by_attribute(scan, index) ==
    /\ attnum(scan) = attnum(index)
    /\ table_inherits_from(Catalog[scan].table, Catalog[index].table)

(* FALSE is the error "tpquery index mismatch". *)
tp_rescan_validate_query_index(index, scan) ==
    \/ index = scan
    \/ Catalog[index].partitioned /\ index_inherits_from(scan, index)
    \/ indexes_match_by_attribute(scan, index)
=============================================================================
