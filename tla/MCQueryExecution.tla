------------------------- MODULE MCQueryExecution -------------------------
EXTENDS QueryExecution, TLC

CONSTANTS
    docA, docB, docC,                   \* documents
    plain, multi, part, mid, leaf, parent, child,  \* tables: with one and with two indexes on
                                        \* body, partitioned in two steps, with a child table
    body, tenant, owner,                \* columns
    ip, ia, ib, iq, iroot, imid, ileaf, jleaf, ih, ihc   \* BM25 indexes

Idx(t, c, tc, p, up, ok) ==
    [table |-> t, column |-> c, tenant_column |-> tc, partitioned |-> p, parent |-> up, valid |-> ok]

(* ia and ib are two indexes on multi.body; iq is the invalid rest of a failed concurrent build;
   jleaf is a second index on the partition that does not belong to iroot. *)
MCCatalog ==
    ip :> Idx(plain, body, tenant, FALSE, NoIndex, TRUE)
    @@ ia :> Idx(multi, body, NoColumn, FALSE, NoIndex, TRUE)
    @@ ib :> Idx(multi, body, tenant, FALSE, NoIndex, TRUE)
    @@ iq :> Idx(multi, body, NoColumn, FALSE, NoIndex, FALSE)
    @@ iroot :> Idx(part, body, tenant, TRUE, NoIndex, TRUE)
    @@ imid :> Idx(mid, body, tenant, TRUE, iroot, TRUE)
    @@ ileaf :> Idx(leaf, body, tenant, FALSE, imid, TRUE)
    @@ jleaf :> Idx(leaf, body, tenant, FALSE, NoIndex, TRUE)
    @@ ih :> Idx(parent, body, NoColumn, FALSE, NoIndex, TRUE)
    @@ ihc :> Idx(child, body, NoColumn, FALSE, NoIndex, TRUE)
MCOrder == <<ip, ia, ib, iq, iroot, imid, ileaf, jleaf, ih, ihc>>

MCTableParent ==
    plain :> NoTable @@ multi :> NoTable @@ part :> NoTable @@ mid :> part @@ leaf :> mid
    @@ parent :> NoTable @@ child :> parent

(* The leaf partition was attached: its columns are in another order. *)
MCAttno ==
    [t \in {plain, multi, part, mid, parent, child} |-> (body :> 1 @@ tenant :> 2 @@ owner :> 3)]
    @@ leaf :> (body :> 2 @@ tenant :> 1 @@ owner :> 3)

(* docB and docC tie. *)
MCScore == docA :> 3 @@ docB :> 2 @@ docC :> 2
MCCtid == docA :> 1 @@ docB :> 3 @@ docC :> 2
MCValue == docA :> (tenant :> 1 @@ owner :> 2) @@ docB :> (tenant :> 1 @@ owner :> 1)
           @@ docC :> (tenant :> 2 @@ owner :> 1)

Stmt(t, k, e, o, q, l) ==
    [table |-> t, column |-> body, kind |-> k, explicit |-> e, other |-> o, quals |-> q, limit |-> l]
Eq(c, v, out) == [column |-> c, value |-> v, outer |-> out]

MCStatements ==
    {Stmt(plain, "text", NoIndex, NoIndex, << >>, 1),
     Stmt(plain, "bm25query", NoIndex, NoIndex, <<Eq(owner, 2, FALSE), Eq(tenant, 1, FALSE)>>, 0),
     Stmt(plain, "bm25query", ip, NoIndex, <<Eq(tenant, 2, TRUE)>>, 2),
     Stmt(plain, "bm25query", ia, NoIndex, << >>, 0),
     Stmt(multi, "bm25query", ib, NoIndex, << >>, 1),
     Stmt(multi, "bm25query", ia, ib, << >>, 0),
     Stmt(multi, "bm25query", iq, NoIndex, << >>, 0),
     Stmt(multi, "text", NoIndex, NoIndex, <<Eq(tenant, 1, FALSE)>>, 0),
     Stmt(part, "bm25query", iroot, NoIndex, <<Eq(tenant, 1, FALSE)>>, 0),
     Stmt(part, "text", NoIndex, NoIndex, << >>, 0),
     Stmt(parent, "text", NoIndex, NoIndex, << >>, 0)}

MCOtherLimits == {<<ip, 1>>, <<ileaf, 1>>}
=============================================================================
