------------------------------ MODULE Registry ------------------------------
(***************************************************************************)
(* The shared state of one index: its entry in the global registry, the    *)
(* local states that backends cache, the private state of a build, and the *)
(* per-tenant counts that are kept beside the memtable.  It covers the     *)
(* life of the index: CREATE INDEX, REINDEX (also what VACUUM FULL and     *)
(* TRUNCATE run), their abort and rollback, DROP INDEX and its rollback,   *)
(* session end, restart and the rebuild after it.                          *)
(*                                                                         *)
(* DDL excludes every other use of the index: PostgreSQL's relation locks  *)
(* are held to the end of the transaction.  Insert and spill are single    *)
(* steps here; what goes on inside them is in SharedIndex and              *)
(* CrashRecovery.  Transactions may be open side by side, since a SELECT   *)
(* gives the index lock away that an INSERT before it has taken.           *)
(***************************************************************************)
EXTENDS Integers, FiniteSets

CONSTANTS
    Backends,
    Rows,        \* heap rows, each with one document
    Tenants,
    TenantOf,    \* the tenant of each row
    InvalidBlockNumber,
    MaxStates,   \* bound: shared states ever allocated
    MaxForkedRows, \* bound: rows in the heap, once the backends may not share one state
    BatchSize    \* documents a build holds before it spills

ASSUME BoundsAssumption == MaxStates \in Nat /\ MaxForkedRows \in Nat /\ BatchSize \in Nat \ {0}
ASSUME TenantAssumption == IsFiniteSet(Rows) /\ TenantOf \in [Rows -> Tenants]
ASSUME PageAssumption == InvalidBlockNumber \notin Rows

VARIABLES
    exists,      \* the index is in the catalog
    disk,        \* its file: segments, docid pages, tenant statistics pages
    saved,       \* the file to go back to when the DDL transaction aborts
    heap,        \* row slots in use: every row ever inserted
    committed,   \* rows of committed transactions
    xact,        \* what each backend's transaction does
    step,        \* where each backend is in tp_get_local_index_state
    wrote,       \* rows the backend's transaction inserted
    snap,        \* first_docid_page, as a rebuilding backend copied it with the metapage
    writer,      \* last_page of each backend's docid_writer_cache, when valid for the index
    registry,    \* the registered shared state (shared_state_dp)
    shm,         \* the shared states in the DSA
    used,        \* how many were allocated
    cache,       \* local_state_cache of each backend, for this index
    todo,        \* rows the build has still to read
    accum,       \* build_tenant_stats_accum
    hazard       \* what has happened that takes a guarantee below away

vars == <<exists, disk, saved, heap, committed, xact, step, wrote, snap, writer, registry, shm, used,
          cache, todo, accum, hazard>>

NoDp == 0
NoTable == [t \in Tenants |-> -1]   \* DSHASH_HANDLE_INVALID, or no statistics pages

(* A file.  Docid pages are told apart by their chain, and a chain has the name of the row it
   was started for: pages[c] are the rows whose docids are on chain c.  The metapage names one
   chain at most; the others were cut off.  A history field, astray, has the rows whose docid
   was stored on a chain that was cut off already. *)
NoFile == [segs |-> {}, first_docid_page |-> InvalidBlockNumber, pages |-> [c \in Rows |-> {}],
           tstats |-> NoTable, astray |-> {}]

chain(f, first) == IF first = InvalidBlockNumber THEN {} ELSE f.pages[first]

(* The rows that recovery would find in the docid pages. *)
docids(f) == chain(f, f.first_docid_page)

Absent == [kind |-> "absent", dp |-> NoDp, build_mode |-> FALSE]
Null == [kind |-> "null", dp |-> NoDp, build_mode |-> FALSE]
Entry(dp, build_mode) == [kind |-> "entry", dp |-> dp, build_mode |-> build_mode]

FreshState(private) == [status |-> "live", mem |-> {}, private |-> private, tstats |-> NoTable]

Unused == [FreshState(FALSE) EXCEPT !.status = "unused"]

(* The documents of each tenant among some rows; a tenant with none has no entry. *)
counts(rows) == [t \in Tenants |-> Cardinality({r \in rows : TenantOf[r] = t})]

(* Adding to the counts creates their table. *)
plus(tstats, n) == [t \in Tenants |-> (IF tstats = NoTable THEN 0 ELSE tstats[t]) + n[t]]

cached(c) == cache[c].kind = "entry"
others_cached(b) == \E c \in Backends \ {b} : cached(c)
idle == \A c \in Backends : xact[c] = "none"
no_ddl == \A c \in Backends : xact[c] \in {"none", "dml"}
state(b) == shm[cache[b].dp]

Init ==
    /\ exists = FALSE /\ disk = NoFile /\ saved = NoFile
    /\ committed \in SUBSET Rows /\ heap = committed
    /\ xact = [b \in Backends |-> "none"] /\ step = [b \in Backends |-> "idle"]
    /\ wrote = [b \in Backends |-> {}]
    /\ snap = [b \in Backends |-> InvalidBlockNumber] /\ writer = [b \in Backends |-> InvalidBlockNumber]
    /\ registry = NoDp /\ used = 0
    /\ shm = [p \in 1 .. MaxStates |-> Unused]
    /\ cache = [b \in Backends |-> Absent]
    /\ todo = {} /\ accum = NoTable /\ hazard = {}

-----------------------------------------------------------------------------
(* Finding the shared state: tp_get_local_index_state. *)

(* MaxStates leaves a state for everyone who may find none registered. *)
may_miss == {c \in Backends : step[c] \in {"lookup", "missed"} /\ cache[c] = Absent}

BeginUse(b) ==
    /\ xact[b] = "none" /\ no_ddl /\ exists
    /\ cache[b] # Absent \/ registry # NoDp \/ used + Cardinality(may_miss) < MaxStates
    /\ xact' = [xact EXCEPT ![b] = "dml"]
    /\ step' = [step EXCEPT ![b] = "lookup"]
    /\ UNCHANGED <<exists, disk, saved, heap, committed, wrote, snap, writer, registry, shm, used, cache, todo, accum, hazard>>

(* An entry of the cache is returned as it is, the NULL that an aborted build left too. *)
UseCached(b) ==
    /\ step[b] = "lookup" /\ cache[b] # Absent
    /\ step' = [step EXCEPT ![b] = "ready"]
    /\ UNCHANGED <<exists, disk, saved, heap, committed, xact, wrote, snap, writer, registry, shm, used, cache, todo, accum, hazard>>

(* The registered state is attached to; the tenant counts are read from disk, under the
   index lock, when there is no table yet. *)
Attach(b) ==
    /\ step[b] = "lookup" /\ cache[b] = Absent /\ registry # NoDp
    /\ cache' = [cache EXCEPT ![b] = Entry(registry, FALSE)]
    /\ shm' = [shm EXCEPT ![registry].tstats = IF @ = NoTable THEN disk.tstats ELSE @]
    /\ step' = [step EXCEPT ![b] = "ready"]
    /\ hazard' = hazard \cup (IF \E c \in Backends : step[c] = "reload" THEN {"forked"} ELSE {})
    /\ UNCHANGED <<exists, disk, saved, heap, committed, xact, wrote, snap, writer, registry, used, todo, accum>>

LookupMiss(b) ==
    /\ step[b] = "lookup" /\ cache[b] = Absent /\ registry = NoDp
    /\ step' = [step EXCEPT ![b] = "missed"]
    /\ UNCHANGED <<exists, disk, saved, heap, committed, xact, wrote, snap, writer, registry, shm, used, cache, todo, accum, hazard>>

(* Mutant: a state that another backend has registered meanwhile is kept, but not used. *)
registerKeep(dp) == registry' = IF registry = NoDp THEN dp ELSE registry

(* tp_registry_unregister of what is registered, and tp_registry_register. *)
register(dp) == registry' = dp

(* tp_create_shared_index_state, first half of tp_rebuild_index_from_disk: whatever was
   registered for the index is unregistered.  With neither segments nor docid pages there is
   nothing to reload; nor is there when the heap has no blocks, which a file that has some
   never meets here, as no row leaves the heap. *)
CreateSharedState(b) ==
    /\ step[b] = "missed" /\ used < MaxStates
    /\ used' = used + 1
    /\ shm' = [shm EXCEPT ![used + 1] = FreshState(FALSE)]
    /\ register(used + 1)
    /\ cache' = [cache EXCEPT ![b] = Entry(used + 1, FALSE)]
    /\ IF disk.segs = {} /\ disk.first_docid_page = InvalidBlockNumber
       THEN step' = [step EXCEPT ![b] = "ready"] /\ UNCHANGED snap
       ELSE step' = [step EXCEPT ![b] = "reload"] /\ snap' = [snap EXCEPT ![b] = disk.first_docid_page]
    /\ hazard' = hazard \cup (IF others_cached(b) THEN {"forked"} ELSE {})
    /\ UNCHANGED <<exists, disk, saved, heap, committed, xact, wrote, writer, todo, accum>>

(* Mutant: the counts of the statistics pages replace those of the reloaded documents. *)
restored_tstatsSet(s, docs, on_disk) == IF on_disk = NoTable THEN s.tstats ELSE on_disk

(* Every reloaded document is counted, and the counts on disk are added. *)
restored_tstats(s, docs, on_disk) ==
    LET counted == IF docs = {} THEN s.tstats ELSE plus(s.tstats, counts(docs))
    IN  IF on_disk = NoTable THEN counted ELSE plus(counted, on_disk)

(* Second half: the documents of the docid chain that the copied metapage names, whose pages
   are read as they are now.  A row that a segment holds already is indexed again. *)
ReloadFromDocids(b) ==
    LET docs == chain(disk, snap[b])
    IN  /\ step[b] = "reload"
        /\ shm' = [shm EXCEPT ![cache[b].dp] =
                     [state(b) EXCEPT !.mem = state(b).mem \cup docs,
                                      !.tstats = restored_tstats(state(b), docs, disk.tstats)]]
        /\ step' = [step EXCEPT ![b] = "ready"]
        /\ snap' = [snap EXCEPT ![b] = InvalidBlockNumber]
        /\ hazard' = hazard \cup (IF docs \cap disk.segs # {} THEN {"reindexed"} ELSE {})
        /\ UNCHANGED <<exists, disk, saved, heap, committed, xact, wrote, writer, registry, used, cache, todo, accum>>

-----------------------------------------------------------------------------
(* Using it. *)

(* Nothing has happened that may have left a backend with a state of its own. *)
Undisturbed == hazard \cap {"forked", "drop_rolled_back"} = {}

may_insert == Undisturbed \/ Cardinality(heap) < MaxForkedRows

(* tp_add_document_terms: the row is added to the memtable and counted. *)
added(s, r) == [s EXCEPT !.mem = @ \cup {r}, !.tstats = plus(s.tstats, counts({r}))]

(* The memtable becomes a segment, and its counts, if there are any, are saved. *)
spilled(f, s) == [f EXCEPT !.segs = @ \cup s.mem, !.tstats = IF s.tstats = NoTable THEN @ ELSE s.tstats]

(* The pages that tp_add_docid_to_pages may choose.  The cached page is taken without a look
   at the metapage if it is a docid page; its number may stem from a file that was replaced,
   and then any docid page, or none, may be there.  If the cached page is full, it is none, or
   nothing is cached, it is the last page of the chain, or a new one. *)
docid_pages(f, last_page, r) ==
    {IF f.first_docid_page = InvalidBlockNumber THEN r ELSE f.first_docid_page}
        \cup {c \in Rows : /\ last_page # InvalidBlockNumber /\ f.pages[c] # {}
                           /\ c = last_page \/ f.pages[last_page] = {}}

store_docid(f, page, r) ==
    LET first == IF page = r THEN r ELSE f.first_docid_page
    IN  [f EXCEPT !.pages = [f.pages EXCEPT ![page] = @ \cup {r}], !.first_docid_page = first,
                  !.astray = IF page = first THEN @ ELSE @ \cup {r}]

(* The counts of the segments are not in a table that an INSERT creates. *)
miscount(b) == IF cached(b) /\ state(b).tstats = NoTable /\ disk.tstats # NoTable THEN {"miscounted"} ELSE {}

(* tp_insert below the spill threshold: without a state the row is not added to any memtable,
   but its docid is stored. *)
Insert(b, r) ==
    /\ step[b] = "ready" /\ r \notin heap /\ may_insert
    /\ heap' = heap \cup {r}
    /\ shm' = IF cached(b) THEN [shm EXCEPT ![cache[b].dp] = added(state(b), r)] ELSE shm
    /\ \E page \in docid_pages(disk, writer[b], r) :
         /\ disk' = store_docid(disk, page, r)
         /\ writer' = [writer EXCEPT ![b] = page]
    /\ wrote' = [wrote EXCEPT ![b] = @ \cup {r}]
    /\ hazard' = hazard \cup miscount(b)
    /\ UNCHANGED <<exists, saved, committed, xact, step, snap, registry, used, cache, todo, accum>>

(* tp_insert at the threshold: tp_auto_spill_if_needed writes the memtable, the new row
   included, and cuts the docid chain off (tp_clear_docid_pages, which makes this backend's
   cached page invalid, and no other's).  Only then is the row's docid stored, on a new chain. *)
InsertSpill(b, r) ==
    /\ step[b] = "ready" /\ r \notin heap /\ may_insert /\ cached(b)
    /\ heap' = heap \cup {r}
    /\ shm' = [shm EXCEPT ![cache[b].dp] = [added(state(b), r) EXCEPT !.mem = {}]]
    /\ disk' = store_docid([spilled(disk, added(state(b), r)) EXCEPT !.first_docid_page = InvalidBlockNumber],
                           r, r)
    /\ writer' = [writer EXCEPT ![b] = r]
    /\ wrote' = [wrote EXCEPT ![b] = @ \cup {r}]
    /\ hazard' = hazard \cup miscount(b)
    /\ UNCHANGED <<exists, saved, committed, xact, step, snap, registry, used, cache, todo, accum>>

(* tp_spill_memtable, tp_bulk_load_spill_check: the docid chain stays as it is. *)
Spill(b) ==
    /\ step[b] = "ready" /\ cached(b) /\ state(b).mem # {}
    /\ disk' = spilled(disk, state(b))
    /\ shm' = [shm EXCEPT ![cache[b].dp].mem = {}]
    /\ UNCHANGED <<exists, saved, heap, committed, xact, step, wrote, snap, writer, registry, used, cache, todo, accum, hazard>>

EndUse(b, commit) ==
    /\ xact[b] = "dml" /\ step[b] = "ready"
    /\ committed' = IF commit THEN committed \cup wrote[b] ELSE committed
    /\ xact' = [xact EXCEPT ![b] = "none"] /\ step' = [step EXCEPT ![b] = "idle"]
    /\ wrote' = [wrote EXCEPT ![b] = {}]
    /\ UNCHANGED <<exists, disk, saved, heap, snap, writer, registry, shm, used, cache, todo, accum, hazard>>

EndSession(b) ==
    /\ xact[b] = "none" /\ (cache[b] # Absent \/ writer[b] # InvalidBlockNumber)
    /\ cache' = [cache EXCEPT ![b] = Absent] /\ writer' = [writer EXCEPT ![b] = InvalidBlockNumber]
    /\ UNCHANGED <<exists, disk, saved, heap, committed, xact, step, wrote, snap, registry, shm, used, todo, accum, hazard>>

(* A clean restart: shared memory and sessions are gone. *)
Restart ==
    /\ idle /\ used > 0
    /\ registry' = NoDp
    /\ shm' = [p \in DOMAIN shm |-> Unused]
    /\ cache' = [b \in Backends |-> Absent] /\ writer' = [b \in Backends |-> InvalidBlockNumber]
    /\ UNCHANGED <<exists, disk, saved, heap, committed, xact, step, wrote, snap, used, todo, accum, hazard>>

-----------------------------------------------------------------------------
(* Building: tp_build. *)

(* CREATE INDEX has a new OID, for which nobody has an entry; REINDEX keeps the OID and
   every entry there is.  Only the builder's docid_writer_cache is made invalid.
   tp_create_build_index_state registers a state whose memtable is in a DSA of the builder's
   own. *)
StartBuild(b) ==
    /\ idle /\ used < MaxStates
    /\ xact' = [xact EXCEPT ![b] = "build"]
    /\ saved' = disk /\ disk' = NoFile /\ todo' = committed
    /\ used' = used + 1
    /\ shm' = [shm EXCEPT ![used + 1] = FreshState(TRUE)]
    /\ register(used + 1)
    /\ writer' = [c \in Backends |-> IF c # b /\ exists THEN writer[c] ELSE InvalidBlockNumber]
    /\ cache' = [c \in Backends |-> IF c = b THEN Entry(used + 1, TRUE) ELSE IF exists THEN cache[c] ELSE Absent]
    /\ hazard' = IF exists THEN hazard \cup (IF others_cached(b) THEN {"forked"} ELSE {}) ELSE {}
    /\ UNCHANGED <<exists, heap, committed, step, wrote, snap, accum>>

(* tp_process_document.  A full memtable is spilled and its DSA is thrown away: the counts
   go to the accumulator, and none are left to be written to disk. *)
BuildDocument(b) ==
    /\ xact[b] = "build" /\ todo # {}
    /\ \E r \in todo :
         LET s == state(b)
             mem == s.mem \cup {r}
             n == plus(s.tstats, counts({r}))
         IN  /\ todo' = todo \ {r}
             /\ IF Cardinality(mem) >= BatchSize
                THEN /\ disk' = [disk EXCEPT !.segs = @ \cup mem]
                     /\ shm' = [shm EXCEPT ![cache[b].dp] = FreshState(TRUE)]
                     /\ accum' = plus(accum, n)
                ELSE /\ shm' = [shm EXCEPT ![cache[b].dp] = [s EXCEPT !.mem = mem, !.tstats = n]]
                     /\ UNCHANGED <<disk, accum>>
    /\ UNCHANGED <<exists, saved, heap, committed, xact, step, wrote, snap, writer, registry, used, cache, hazard>>

(* Mutant: the private DSA is given up without the final spill. *)
FinishBuildUnspilled(b) ==
    /\ xact[b] = "build" /\ todo = {}
    /\ disk' = disk
    /\ shm' = [shm EXCEPT ![cache[b].dp] = [FreshState(FALSE) EXCEPT !.tstats = accum]]
    /\ cache' = [cache EXCEPT ![b] = Entry(@.dp, FALSE)]
    /\ accum' = NoTable /\ xact' = [xact EXCEPT ![b] = "built"] /\ hazard' = hazard
    /\ UNCHANGED <<exists, saved, heap, committed, step, wrote, snap, writer, registry, used, todo>>

(* The end of tp_build: the counts of the memtable in hand are written to disk, the rest is
   spilled, and tp_finalize_build_mode puts an empty memtable into the shared DSA, with the
   accumulated counts. *)
FinishBuild(b) ==
    /\ xact[b] = "build" /\ todo = {}
    /\ disk' = spilled(disk, state(b))
    /\ shm' = [shm EXCEPT ![cache[b].dp] = [FreshState(FALSE) EXCEPT !.tstats = accum]]
    /\ cache' = [cache EXCEPT ![b] = Entry(@.dp, FALSE)]
    /\ accum' = NoTable
    /\ xact' = [xact EXCEPT ![b] = "built"]
    /\ hazard' = hazard \cup (IF accum # NoTable THEN {"miscounted"} ELSE {})
    /\ UNCHANGED <<exists, saved, heap, committed, step, wrote, snap, writer, registry, used, todo>>

(* tp_build_parallel writes the segments and the counts and has no shared state: what was
   registered or cached before a REINDEX is left alone. *)
ParallelBuild(b) ==
    /\ idle
    /\ xact' = [xact EXCEPT ![b] = "pbuilt"]
    /\ saved' = disk
    /\ disk' = [NoFile EXCEPT !.segs = committed,
                              !.tstats = IF committed = {} THEN NoTable ELSE counts(committed)]
    /\ writer' = [c \in Backends |-> IF c # b /\ exists THEN writer[c] ELSE InvalidBlockNumber]
    /\ registry' = IF exists THEN registry ELSE NoDp
    /\ cache' = IF exists THEN cache ELSE [c \in Backends |-> Absent]
    /\ hazard' = IF exists THEN hazard \cup (IF registry # NoDp \/ \E c \in Backends : cached(c)
                                             THEN {"forked"} ELSE {})
                 ELSE {}
    /\ UNCHANGED <<exists, heap, committed, step, wrote, snap, shm, used, todo, accum>>

CommitBuild(b) ==
    /\ xact[b] \in {"built", "pbuilt"}
    /\ exists' = TRUE /\ saved' = NoFile
    /\ xact' = [xact EXCEPT ![b] = "none"]
    /\ UNCHANGED <<disk, heap, committed, step, wrote, snap, writer, registry, shm, used, cache, todo, accum, hazard>>

(* Mutant: the accumulated counts survive the abort. *)
AbortBuildAccum(b) ==
    /\ xact[b] = "build"
    /\ disk' = saved /\ saved' = NoFile /\ todo' = {} /\ accum' = accum
    /\ shm' = [shm EXCEPT ![registry] = [FreshState(FALSE) EXCEPT !.status = "freed"]]
    /\ registry' = NoDp
    /\ cache' = [cache EXCEPT ![b] = Null]
    /\ xact' = [xact EXCEPT ![b] = "none"]
    /\ hazard' = hazard \cup (IF exists THEN {"forked"} ELSE {})
    /\ UNCHANGED <<exists, heap, committed, step, wrote, snap, writer, used>>

(* An error or a cancel in the build: tp_cleanup_build_mode_on_abort. *)
AbortBuild(b) ==
    /\ xact[b] = "build"
    /\ disk' = saved /\ saved' = NoFile /\ todo' = {} /\ accum' = NoTable
    /\ shm' = [shm EXCEPT ![registry] = [FreshState(FALSE) EXCEPT !.status = "freed"]]
    /\ registry' = NoDp
    /\ cache' = [cache EXCEPT ![b] = Null]
    /\ xact' = [xact EXCEPT ![b] = "none"]
    /\ hazard' = hazard \cup (IF exists THEN {"forked"} ELSE {})
    /\ UNCHANGED <<exists, heap, committed, step, wrote, snap, writer, used>>

(* The transaction is rolled back after the build: the file goes back, the state stays. *)
RollbackBuilt(b) ==
    /\ xact[b] \in {"built", "pbuilt"}
    /\ disk' = saved /\ saved' = NoFile
    /\ xact' = [xact EXCEPT ![b] = "none"]
    /\ hazard' = hazard \cup (IF exists /\ xact[b] = "built" THEN {"forked"} ELSE {})
    /\ UNCHANGED <<exists, heap, committed, step, wrote, snap, writer, registry, shm, used, cache, todo, accum>>

-----------------------------------------------------------------------------
(* Dropping: tp_object_access. *)

(* Mutant: the dropping backend keeps its own entry. *)
tp_cleanup_index_shared_memoryCached(b) ==
    /\ shm' = [shm EXCEPT ![registry] = [FreshState(FALSE) EXCEPT !.status = "freed"]]
    /\ registry' = NoDp
    /\ cache' = cache

(* The memory is freed and unregistered at once, and the dropping backend's entry goes. *)
tp_cleanup_index_shared_memory(b) ==
    /\ shm' = [shm EXCEPT ![registry] = [FreshState(FALSE) EXCEPT !.status = "freed"]]
    /\ registry' = NoDp
    /\ cache' = IF cached(b) THEN [cache EXCEPT ![b] = Absent] ELSE cache

Drop(b) ==
    /\ idle /\ exists
    /\ xact' = [xact EXCEPT ![b] = "drop"]
    /\ IF registry # NoDp THEN tp_cleanup_index_shared_memory(b) ELSE UNCHANGED <<shm, registry, cache>>
    /\ UNCHANGED <<exists, disk, saved, heap, committed, step, wrote, snap, writer, used, todo, accum, hazard>>

(* After a rollback the other backends' entries are still there. *)
EndDrop(b, commit) ==
    /\ xact[b] = "drop"
    /\ exists' = ~commit
    /\ xact' = [xact EXCEPT ![b] = "none"]
    /\ hazard' = hazard \cup (IF ~commit /\ others_cached(b) THEN {"drop_rolled_back"} ELSE {})
    /\ UNCHANGED <<disk, saved, heap, committed, step, wrote, snap, writer, registry, shm, used, cache, todo, accum>>

-----------------------------------------------------------------------------
Access(b) ==
    \/ UseCached(b) \/ Attach(b) \/ LookupMiss(b) \/ CreateSharedState(b) \/ ReloadFromDocids(b)

Next ==
    \/ Restart
    \/ \E b \in Backends :
         \/ BeginUse(b) \/ Access(b)
         \/ \E r \in Rows : Insert(b, r) \/ InsertSpill(b, r)
         \/ Spill(b) \/ \E c \in BOOLEAN : EndUse(b, c)
         \/ EndSession(b)
         \/ StartBuild(b) \/ BuildDocument(b) \/ FinishBuild(b) \/ ParallelBuild(b)
         \/ CommitBuild(b) \/ AbortBuild(b) \/ RollbackBuilt(b)
         \/ Drop(b) \/ \E c \in BOOLEAN : EndDrop(b, c)

Spec == Init /\ [][Next]_vars

-----------------------------------------------------------------------------
(* Properties. *)

(* What has happened to the index that the code does not repair: "forked", a backend may
   have a state of its own; "miscounted", tenant counts were left out; "reindexed", recovery
   met a docid whose row a segment holds and indexed and counted it again; "drop_rolled_back",
   cached entries may name freed memory. *)
Hazards == {"forked", "miscounted", "reindexed", "drop_rolled_back"}

(* The state has its types; a backend is inside tp_get_local_index_state or past it exactly
   while it uses the index, and the accumulated counts of a build never outlive it. *)
TypeOK ==
    /\ exists \in BOOLEAN /\ committed \subseteq heap /\ heap \subseteq Rows /\ todo \subseteq Rows /\ hazard \subseteq Hazards
    /\ disk.segs \subseteq Rows /\ disk.astray \subseteq Rows
    /\ disk.first_docid_page \in Rows \cup {InvalidBlockNumber}
    /\ writer \in [Backends -> Rows \cup {InvalidBlockNumber}]
    /\ xact \in [Backends -> {"none", "dml", "build", "built", "pbuilt", "drop"}]
    /\ step \in [Backends -> {"idle", "lookup", "missed", "reload", "ready"}]
    /\ \A b \in Backends : xact[b] = "dml" <=> step[b] # "idle"
    /\ accum # NoTable => \E b \in Backends : xact[b] = "build"
    /\ registry \in 0 .. used /\ used \in 0 .. MaxStates
    /\ \A b \in Backends : cache[b].dp \in 0 .. used /\ (cached(b) <=> cache[b].dp # NoDp)

(* What can be attached to is alive and in the shared DSA: a private memtable, whose address
   means nothing to another backend, is registered only while its builder holds everybody
   else out, and freed memory never is (tp_finalize_build_mode,
   tp_cleanup_build_mode_on_abort, tp_cleanup_index_shared_memory). *)
RegistryUsable ==
    no_ddl /\ registry # NoDp => shm[registry].status = "live" /\ ~shm[registry].private

(* A backend never works on freed memory or on another's private memtable, unless a DROP
   INDEX was rolled back while it had the index cached. *)
NoFreedUse ==
    "drop_rolled_back" \notin hazard =>
        \A b \in Backends : step[b] = "ready" /\ cached(b) =>
            state(b).status = "live" /\ ~state(b).private

(* Whatever memory a backend uses or may still find is live and can be addressed by it. *)
MemoryUsable == RegistryUsable /\ NoFreedUse

(* Unless a state was replaced under a cached entry, or attached to before its documents
   were reloaded, all backends share one memtable. *)
OneMemtable == Undisturbed => \A b \in Backends : cached(b) /\ exists /\ no_ddl => cache[b].dp = registry

(* ... a query finds every committed row, in the memtable or in a segment, unless its docid
   went astray and was the only trace of it when the memtable was lost ... *)
CommittedVisible ==
    Undisturbed =>
        \A b \in Backends : step[b] = "ready" =>
            cached(b) /\ committed \subseteq state(b).mem \cup disk.segs \cup disk.astray

(* ... every committed row can be recovered: it is in a segment or in the docid chain, unless
   its docid was stored through a stale docid_writer_cache on a chain that another backend's
   spill had cut off already ... *)
Durable == exists /\ no_ddl => committed \subseteq disk.segs \cup docids(disk) \cup disk.astray
CommittedDurable == Undisturbed => Durable

(* A committed row is found now and can be recovered after a restart: builds, spills, which
   cut the docid chain or leave it, rebuilds and DDL hand it from one place to the next
   without a gap.  The rows exempted are exactly those that tp_add_docid_to_pages put on a
   page that no longer was in the chain. *)
CommittedKept == CommittedVisible /\ CommittedDurable

(* ... and the tenant counts in use are those of the rows that are indexed, as long as no
   event has come in between that the code does not repair: a build that leaves the counts
   out of the shared table or of the pages, and a recovery that meets in the docid chain a row
   that a segment holds, which every spill leaves there, and counts it a second time. *)
CountsExact ==
    Undisturbed /\ hazard = {} =>
        \A b \in Backends : step[b] = "ready" /\ state(b).tstats # NoTable =>
            state(b).tstats = counts(state(b).mem \cup disk.segs)

(* A tenant of whose rows some are indexed is known to the table that a scan consults: a scan
   for a tenant that is not in the table returns nothing at once (tp_score_documents).
   MCRegistry's run Registry_tenants shows that this fails. *)
TenantsKnown ==
    Undisturbed => \A b \in Backends : step[b] = "ready" /\ state(b).tstats # NoTable =>
        \A r \in committed \cap disk.segs : state(b).tstats[TenantOf[r]] > 0

=============================================================================
