# pg_textsearch in TLA+

This directory models the core of pg_textsearch, the PostgreSQL extension in
`src/` that adds a BM25 full-text index access method.  It holds TLA+ modules,
TLC configurations that check them on small instances, and TLAPS proofs.
`PROJECT.json` lists the components, the runs, the mutants, the source lines
each definition models, the findings, the hazards and the theorems.

Run `tlc -config <run>.cfg <module>` for a run and `tlapm <module>.tla` for the
proofs.

## 1. The system and its parts

An index has an in-memory half and an on-disk half, like an LSM tree.

| part | state | operations |
|---|---|---|
| memtable (`memtable/`) | posting lists, document lengths and `total_postings`, in dynamic shared memory | `tp_add_document_terms`, `tp_clear_memtable` |
| shared index state (`state/state.c`) | `total_docs`, `total_len`, the per-index LWLock | create, rebuild, drop |
| local index state (`state/state.c`) | one per backend and index: `lock_held`, `lock_mode`, `terms_added_this_xact` | `tp_acquire_index_lock`, `tp_release_index_lock` |
| transaction callbacks (`mod.c`) | none of their own | PRE_COMMIT spill, release at COMMIT and ABORT |
| metapage and docid pages (`state/metapage.c`) | `level_heads`, `level_counts`, corpus counters, the chain of docid pages, a backend-local `docid_writer_cache` | append a docid, clear the chain |
| segments (`segment/`) | immutable sorted runs, chained by `next_segment`, one chain a level | write, open, scan |
| compaction (`segment/merge.c`) | `level_counts`, the free space map | merge a full level into the next, recycle its pages |
| index build (`am/build.c`, `am/build_parallel.c`) | private memtables, workers | serial and parallel CREATE INDEX |
| scan (`am/scan.c`, `query/score.c`) | `result_ctids`, the cursor, the limit | start, next tuple, run again with a doubled limit |
| block-max WAND (`query/bmw.c`) | the top-k heap, one iterator a term | score the memtable, the blocks of one term, the pivots of several |
| registry and local cache (`state/registry.c`, `state/state.c`) | which indexes have a shared state; the address each backend has cached | register, look up, attach, rebuild, free at DROP |
| tenant statistics (`memtable/tenant_stats.c`, `state/metapage.c`) | documents of each tenant, in memory, in a build's accumulator, on disk | count, save, restore |
| LIMIT pushdown (`state/limit.c`, `planner/cost.c`) | one slot a session | store at planning, take at the start of a scan |
| planner hooks (`planner/hooks.c`) | `query_has_bm25_operators` | resolve the index, inject the tenant, move paths, check the plan |
| `<@>` operator (`types/query.c`) | document frequencies cached in `fn_extra` | score one row |
| vacuum (`am/vacuum.c`) | none | report CTIDs to CREATE INDEX CONCURRENTLY |
| types, debug dump, handler | none | formatting, a table of functions |

How they interact.  `tp_insert` acquires the LWLock in exclusive mode, adds the
document to the memtable, spills the memtable when `total_postings` reaches
`memtable_spill_threshold`, appends the document's CTID to the docid pages, and
returns with the lock held.  A spill writes a segment, empties the memtable,
links the segment as the head of level 0, copies the corpus counters to the
metapage and compacts.  A scan acquires the lock in shared mode, scores the
memtable and every chain, and releases the lock.  `bm25_spill_index` spills on
demand.  At PRE_COMMIT a transaction that added more than
`bulk_load_threshold` terms spills once more.  COMMIT and ABORT release the
locks and reset the counters.  After a restart the first access rebuilds the
memtable from the docid pages and the heap, and registers the new shared state;
every backend keeps the address it found in a cache of its own.  A build works
on a private memtable, spills it in batches and hands an empty one to the shared
memory at its end.  For a query, parse analysis picks the index and the tenant,
the planner hooks move the paths and check the plan, and the scan asks for the
top k, which block-max WAND finds in the memtable and in each segment; without an
index scan the operator is evaluated row by row.

What is hard here.  The lock is tracked by the backend itself, acquired in one
statement and released in another, and PostgreSQL may release it without
telling the extension.  A spill and a merge are sequences of steps, with errors
possible between them.  Nothing is written to the WAL: what survives a crash is
decided by the order of explicit flushes and by checkpoints.  Recovery depends
on a chain of pages that one backend clears while another caches a page of it.
The address of the shared state is cached without invalidation, while REINDEX,
DROP and their rollbacks replace or free it.  Skipping in block-max WAND is
correct only as far as every stored bound is one, every term list stays sorted
and no seek goes too far, and an error shows up as a missing row.  Between two
statements the session keeps globals that the next one reads.

What makes the parts correct: a document is in exactly one place and is never
lost; the metapage's counts agree with its chains; a scan finds every document
once; only the lock's holder changes anything; the cascade ends and leaves no
full level; a committed document is found after a restart; a free block belongs
to no live segment; all backends share one live memtable; a merged segment is
what writing its documents at once would give; a query returns the k best
documents of its tenant, from the index it names, each once.

## 2. Modules

| module | models | what it says |
|---|---|---|
| `TextIndex` | what an index promises | documents are added once, never lost; a query answers with all of them |
| `SegmentLevels` | the level chains and counts of the metapage | constant-level operators shared by specification and proofs |
| `SharedIndex` | the LWLock, transactions, insert, spill, compaction, scan | one index, several backends |
| `CrashRecovery` | metapage, docid pages, segments and free space map as buffers and disk images | restarts, crashes, recovery |
| `ParallelBuild` | leader, workers and double-buffered memtables of parallel CREATE INDEX | one build, every interleaving |
| `SegmentFormat` | docmap, postings in blocks, skip entries, tenant sections | operators: what a segment holds and what readers ask of it |
| `SegmentMerge` | `tp_merge_level_segments`, `write_merged_segment` | one merge, step by step, over `SegmentFormat` |
| `TopKHeap` | the top-k heap of `query/bmw.c` | operators on the heap array |
| `BlockMaxWand` | `query/bmw.c` | one query over a memtable and segments, over `SegmentFormat` and `TopKHeap` |
| `Registry` | the registry, local state caches, build mode, tenant counts | the life of one index, several backends |
| `QueryPlanning` | `planner/hooks.c` and the index checks of `am/scan.c` | operators on statements and the catalog |
| `QueryExecution` | one session's statements, scan cursor, LIMIT slot, `<@>` operator | a session beside writers, over `QueryPlanning` |
| `MC*` | instances for TLC | documents, segments, catalogs, statements, symmetry |
| `SegmentProofs` | the theorem about the segment format, lemmas on blocks, sorted lists and level chains | what a writer guarantees to readers; linking and merging keep the documents, disjointness and counts |
| `SharedIndexProofs` | the theorems about one index | types, lock, documents and counters, refinement |
| `ParallelBuildProofs` | the theorems about the build | types, hand-over of buffers, every document once, statistics |
| `RegistryProofs` | the theorems about an index's life | live memory, one memtable, committed rows, tenant counts |
| `CrashRecoveryProofs` | the theorems about the file | what the disk holds, free blocks, committed documents |
| `QueryExecutionProofs` | the theorems about a session | index read, tenant filter, rows of a scan, cached frequencies |
| `BlockMaxWandProofs` | the theorems about a query | heap and term order, pruning, exact answers |
| `SegmentMergeProofs` | the theorems about a merge | types, nothing lost, the same as writing at once |

Each module abstracts what the others detail.  `SharedIndex` takes a segment as a
set of documents, which is what `SegmentMerge` (`PostingsConserved`,
`MergedAsWritten`) justifies; `QueryExecution` takes the k best documents for
granted, which is what `BlockMaxWand` shows; `Registry` takes insert and spill
as single steps, which `SharedIndex` and `CrashRecovery` break up.

### SharedIndex

`pc[b]` is the step backend `b` takes next and `op[b]` the call it is in
(`tp_insert`, `tp_spill_memtable`, `tp_execute_scoring_query`, or the commit
sequence).  An action is a piece of code that no other backend can observe half
done even without the index lock, or that the code itself separates by buffer
locks: adding a document, writing a segment, clearing the memtable, updating the
metapage, writing a merged segment, updating the metapage for it, scoring the
memtable, scoring the chains.  The steps of different backends interleave
freely; only the LWLock, as the code uses it, keeps them apart.

* `lockOwner` and `lockSharers` are the LWLock; `lockMode` is what the backend
  believes (`lock_held`, `lock_mode`).  `AcquireHeld`, `AcquireUpgrade` and
  `AcquireGranted` are the three ways through `tp_acquire_index_lock`.
* `StartInsert`, `StartSpill`, `StartScan` are the statements of a client;
  `ErrorPoints` names the steps at which an ERROR may be raised, and `Abort`,
  `SubXactAbort`, `Prepare`, `PreCommit`, `Commit` are the ends of a
  transaction with the callbacks the extension registered (and, for savepoints
  and two-phase commit, the ones it did not).
* A document is a model value with a number of terms, `DocTerms`; a segment is
  the set of its documents.  Scores, frequencies and lengths are left out: the
  query is one that matches every document and whose limit exceeds the corpus.
  A hit carries the place it was found in, so that a duplicate is visible.
* A rolled back INSERT leaves its document in the index, as in the code (the
  heap hides it); `heap` is the set of tuples ever handed to `tp_insert`.

### CrashRecovery

Each page has a buffer (`page`, `meta`) and a disk image (`diskPage`,
`diskMeta`).  The images change where the code flushes, and, when `Crashes`
holds, whenever the checkpointer or the background writer likes
(`WritePage`, `WriteMeta`).  `Crash` throws the buffers away; `Restart` is an
orderly shutdown, which writes them all.  A segment is one block, the header
that carries `next_segment`; a merged segment's sources go to the free space
map `free`.  `Recover` is `tp_rebuild_index_from_disk`; `RecoverFails` is its
error path for a page without the docid magic.  The heap tuples of transactions
that did not commit may or may not be found by recovery, which reads with
`SnapshotAny`.

Every call holds the index lock from its first change to its transaction's end
in the transactions of this module (one INSERT, or one spill), so one call is
under way at a time and the interleavings are those of calls, page writes and
crashes.

### ParallelBuild

Worker `w` is at step `wpc[w]` of `tp_parallel_build_worker_main`: it takes heap
blocks from the shared scan, fetches a tuple, looks at its active buffer, and
switches buffers when `total_postings` has reached the spill threshold.
`status[w, j]` is the atomic status word of its buffer `j` and `buffer[w, j]`
what the hash tables of that buffer hold.  The leader is at step `lpc` of
`tp_leader_process_buffers`: it reads the status words one at a time
(`CollectBuffer`), then `workers_done` (`CheckDone`), merges what it has
collected (`MergeBuffers`), empties the buffers one at a time (`ClearBuffer`),
and after the loop writes the metapage and compacts (`WriteMetapage`,
`CompactLevel`).  Each status word is one atomic read or write in the code, and
one step here; the hash tables are used by one process at a time, which is what
`BufferHandover` says, so filling, merging and emptying are one step each.  The
workers' condition variable is the guard of `AwaitBuffer` (its loop tests the
status after it is queued, so no signal is lost); the leader's is left out, as a
sleep that was not prepared returns at once and the leader polls.  A document
has one posting.  Left out: tenant statistics, the truncation of the file after
the build, errors of a worker (they abort the statement).

### SegmentFormat and SegmentMerge

A document is `[ctid, tenant, len, tf]`.  `tp_write_segment` orders the documents
(by tenant and CTID when there are tenants, else by CTID), numbers them from 0,
quantises their lengths with `encode_fieldnorm`, cuts every posting list into
blocks of `TP_BLOCK_SIZE` and computes one skip entry a block.  Offsets, pages
and the block codec (a lossless bit packing in `src/rust`) are left out.

`SegmentMerge` opens the sources of a level (`OpenSource`), merges their
dictionaries by smallest term (`MergeTerm`), builds the merged docmap and the old
to new numbering (`BuildDocmap`), merges the postings of each term through block
readers that reload at block ends (`CollectPosting`, `WriteTerm`), writes the
tenant sections (`WriteSections`) and links the result (`LinkMerged`).  The
reference definition is `tp_write_segment` of the union of the documents
(`MergedAsWritten`).

### TopKHeap and BlockMaxWand

The heap is the code's array with its sift operations and its comparison, which
breaks ties by CTID among memtable entries and by segment and document number
among segment entries.  `BlockMaxWand` runs one query: it adds the memtable's documents
in any order of the hash table, then opens each segment.  A one-term query walks
the blocks (`SkipBlock`, `LoadBlock`, `ScorePosting`); a query of several terms
loops over `FindPivot`, `SeekTerm`, `SkipBlocks` or `Realign`, and `ScorePivot`
or `WrongTenant`, then moves the terms.  `qsort` may leave equal keys in any
order, so `sort_terms_by_doc_id` is nondeterministic.  A score is an integer that
grows with the frequency and falls with the length, which is all the algorithm
uses of BM25; `idf` is a weight of the term.

### Registry

`cache[b]` is `local_state_cache`, `registry` the registered address, `shm` the
states in the shared memory, `disk` the segments, docid chain and statistics
pages.  `BeginUse`, `UseCached`, `Attach`, `LookupMiss`, `CreateSharedState` and
`ReloadFromDocids` are the paths through `tp_get_local_index_state`, interleaved
between backends; `Insert` is an INSERT below the spill threshold and `InsertSpill`
one that reaches it: the memtable is written, the docid chain is cut off, and only
then the row's docid is stored, on a new chain.  `Spill` is `bm25_spill_index` or
the PRE_COMMIT spill, neither of which touches the chain.  `writer[b]` is the
`docid_writer_cache`: it is used without a look at the metapage, so `docid_pages`
lets a docid go to a page of a chain that was cut off since, or, after a REINDEX,
to whatever docid page now has the cached number; `astray` keeps the rows whose
docid went to a page outside the chain.  A recovery reads the chain of the
metapage it copied, and adds rows that a segment holds already once more.  The
branch for a heap without blocks (`state/state.c:901`) is left out, since rows
never leave this heap.  `StartBuild` to `RollbackBuilt` are `tp_build` and the ends of
its transaction; `Drop` is the object access hook.  PostgreSQL's relation locks
keep DDL apart from everything else (`no_ddl`, `idle`).  `hazard` is a history
variable: it records events after which the code no longer gives a guarantee (a
state replaced under a cached address or attached to half loaded, a count left
out, a row recovered that a segment holds, a DROP rolled back), and the properties state what holds without them.

### QueryPlanning and QueryExecution

A statement is a record of its table, column, kind of operand, explicit index,
WHERE equalities and LIMIT.  `QueryPlanning` has one operator for every function
of the hooks that decides something.  `QueryExecution` runs the statements of one
session: parse analysis (with the library loaded or not yet), statements that are
analysed or planned in between, planning as an index scan of any path the planner
may keep or as row-by-row evaluation, `tp_rescan`, `tp_gettuple`; and, for the
operator, its four unlocked reads as separate steps, while writers insert, spill
and compact.  The operator's switch from an empty parent index to the first child
(`types/query.c:853-890`) is left out.

Scores may be equal.  `tp_score_documents` returns any `k` documents that no other
one outscores, sorted as `doc_score_greater` does, by score and then CTID.  Which
of several with the same score are among them is decided where the heap compares
them: by CTID in the memtable, by document number among segments, where the
number stands for no order of CTIDs across segments or tenants, and first come
first kept between memtable and segment.  `stays` fixes the first and leaves the
others open.


## 3. Runs

Passing runs:

| run | instance | shows |
|---|---|---|
| `SharedIndex_locking` | 2 backends, 4 documents (one with two terms, one with none), 2 levels, merge at 2 segments, spill at 2 postings, 2 statements a transaction, errors at four steps, two-phase commit | `TypeOK`, `ExclusiveWrites`, `StoredOnce`, `ScanExact`, `CountsMatchChains`, `MetaDocsMatchSegments`, `DocsNeverLost`, and the refinement `ImplementsTextIndex` |
| `SharedIndex_savepoints` | 2 documents, 2 levels, rollbacks to savepoints, bulk-load spill at every commit, fairness | `LevelsBounded`, `LocksEndWithXact`, `CallsReturn` |
| `CrashRecovery_restart` | 1 backend, 3 documents, 7 blocks, 2 docids a page, restarts, fairness | `TypeOK`, `CommittedStored`, `FreeBlocksNotLive`, `CallsReturn` |
| `CrashRecovery_crash` | 2 backends, 3 documents, 6 blocks, crashes and page writes anywhere | `DiskSound` |
| `ParallelBuild_workers` | 2 workers, 5 documents (one without lexemes) in 2 heap blocks, spill at 1 posting, 2 levels, merge at 2 segments, fairness | `TypeOK`, `ExactlyOnce`, `BufferHandover`, `StatsMatchSegments`, `ScannedBuildEnds` |
| `SegmentMerge_levels` | 2 terms, blocks of 2, the sources of `MCInputs` (with and without tenants, with an older segment above, with one segment that has no tenant data, with a CTID that was used again; six documents without tenants), fairness | `TypeOK`, `MergedAsWritten`, `MergeConserves`, `MergeEnds` |
| `BlockMaxWand_topk` | 3 terms, blocks of 2, the queries of `MCBlockMaxWand` (one to three terms, tenants, ties), fairness | `WandInv`, `SkippedCannotWin`, `ResultsExact`, `QueryEnds` |
| `Registry_lifecycle` | 2 backends, 3 rows of 3 tenants (2 once the backends may not share one state), 2 shared states, batches of 2 | `TypeOK`, `MemoryUsable`, `OneMemtable`, `CommittedKept`, `CountsExact` |
| `QueryExecution_statements` | 7 tables, 10 indexes, 11 statements, 3 documents of which 2 tie, default limit 2, largest limit 4, merge at 2 segments | `TypeOK`, `NamedIndexHonoured`, `TenantKeepsRows`, `ScanExact`, `CachedIdfFresh` |

Some properties are conjunctions of parts that are named in their modules:
`DiskSound` of `DiskHeadComplete` and `DiskDocidsSound`; `MergeConserves` of
`PostingsConserved`, `DocFreqKept` and `NewestLengthWins`; `WandInv` of `TypeOK`,
`HeapOrdered`, `ActiveCountExact` and `TermsSorted`; `ResultsExact` of
`TopKScoresIfBounded` and `ResultsSound`; `MemoryUsable` of `RegistryUsable` and
`NoFreedUse`; `CommittedKept` of `CommittedVisible` and `CommittedDurable`;
`NamedIndexHonoured` of `ExplicitIndexUsed`, `ExplicitAccepted` and
`PlannedScanStarts`.

Runs that exhibit a disagreement between the code and what a comment says of it
(quoted in `PROJECT.json`, "findings"):

| run | property | what happens |
|---|---|---|
| `BlockMaxWand_bound` | `TopKScores` | the block maximum uses the norm of the longest document and is no upper bound: for one term, without a tenant, a block of a short document (score 8) and a long one has the bound 4, the threshold is 6, and the block with the best document is skipped |
| `BlockMaxWand_lasttenant` | `SkippedHasNoDocs` | the run of tenant `UINT32_MAX` (-1 in an int4 column) is never closed and gets no range; a query for it skips the segment that holds its documents |
| `Registry_tenants` | `TenantsKnown` | after a build of one batch the builder's INSERT creates a tenant table with one tenant; scans for the others return nothing |

### Known divergences without a run of their own

Each of these is a counterexample that TLC gives when the named property is
checked in the named instance.

* `SharedIndex`, `DocsNeverLost`, with `BulkLoadThreshold = 1`,
  `SpillThreshold = 0` and `StmtsPerXact = 2`: INSERT, SELECT, COMMIT.  The
  SELECT releases the writer's lock, `tp_bulk_load_spill_check`
  (`state/state.c:1500`) runs without it, and the clear drops a document that
  another backend adds after the segment was written.
  `memtable/stringtable.c:501` says "Protected by the per-index LWLock acquired
  at transaction level."
* `SharedIndex`, `ExclusiveWrites`, with `SubXacts = TRUE` and four documents:
  AbortSubTransaction releases all LWLocks and the extension has no
  subtransaction callback, so `lock_held` (`state/state.c:1195`) is stale after a
  rollback to a savepoint and the next INSERT writes without the lock.
* `CrashRecovery`, `CommittedFound`, one backend, restarts:
  `tp_rebuild_index_from_disk` (`state/state.c:947`) overwrites the rebuilt
  `total_docs` with the metapage's, 0 before the first spill, and queries return
  nothing.  The repository's README, line 286: "The memtable is rebuilt from the
  heap on startup, so no data is lost".
* `CrashRecovery`, `CommittedStored`, two backends, restarts: a backend's
  `docid_writer_cache` (`state/metapage.c:203`) names a page of a chain that
  another backend's auto-spill has cut off; its next docid goes there and a
  restart loses the document.
* `ParallelBuild`, `AllIndexed`: the leader sweeps the buffers, a worker hands
  over its last one and increments `workers_done`, the leader reads it
  (`am/build_parallel.c:2084`) and stops; the buffer is never merged.
* `ParallelBuild`, `BuildEnds`: one worker is done, the other waits for the
  buffer it filled first, and one ready buffer is not enough for the leader
  (`am/build_parallel.c:2097`); and with `NLaunched < NWorkers` the leader waits
  for workers that were never launched.
* `CrashRecovery`: `IndexedOnce` fails after a restart, because the document
  whose INSERT triggers the auto-spill gets its docid after the chain has been
  cleared; with `Crashes`, `CommittedStored` fails, because a docid page is
  flushed only when it is full and nothing is in the WAL (and with one docid a
  page, because the chain is cleared before the segment is linked); with
  `Crashes`, `FreeBlocksNotLive` fails, because a merge recycles its sources
  before the metapage that forgets them has reached the disk.
* `SharedIndex` with `TwoPhase`, `LocksEndWithXact`: PREPARE TRANSACTION leaves
  the lock with the backend.
* `QueryExecution`, `ExplicitIndexUsed` without `validated`: EXECUTE of a prepared
  statement resets `query_has_bm25_operators`, the plan check is skipped, and
  another index is read than the one named; also in a session whose first
  statement was analysed before the library was loaded.  The error's detail says
  "that index must be used for the scan".
* `QueryExecution`, `TenantKeepsRows` without its last two disjuncts: an equality
  on the tenant column of an outer query (same range table number, `varlevelsup`
  ignored), or two indexes on one column that differ in their tenant column, give
  the scan a filter that drops rows the WHERE clause keeps.
* `QueryExecution`, `CachedIdfFresh` without `~cache.raced`: a compaction can
  leave the head of level 0 and `total_docs` as they were when the cache was
  filled, with another frequency read in between.
* `SegmentMerge`, `MergedAsWritten` without `NoReusedCtid`: when a heap slot was
  reused and both rows have postings, a merge leaves the postings of both under
  one document number, with the older row's norm in its own postings.  The next
  merge of that segment copies them, while writing its documents at once could
  give each of them the document's norm only.
* `Registry`, `CommittedKept` without `astray`: backends 1 and 2 insert, backend 2's
  INSERT spills and cuts the docid chain off, and the next row of backend 1 goes to
  the page its `docid_writer_cache` (`state/metapage.c:202-214`) still names; after
  a restart the committed row is gone.  The comment there says "We still need to
  verify the page is valid in case of concurrent modifications"; what is verified is
  that it is a docid page with room.
* `Registry`, `CountsExact` without the premise on `reindexed`: one INSERT that
  spills, and a restart.  The row is in the segment and, as its docid is stored
  after the chain was cut off (`am/build.c:1418`, `1430`), in the chain; it is
  indexed again and counted on top of the statistics pages (`state/metapage.c:639`):
  2 for 1 row.  After `bm25_spill_index` or a bulk-load spill, which leave the chain
  as it is, this happens to every row of the spill.  `am/build.c:99-103` says "This
  prevents recovery from re-indexing documents already persisted in segments".
* `QueryExecution`, a `ScanExact` that says no row comes twice: with two documents
  of the same score in one segment that is ordered by tenant, the one with the
  higher CTID first, a scan without a filter that starts with limit 1 takes the
  first by document number; with the limit doubled both are sorted by CTID, and the
  second place is the same document again, while the other is never returned.
  `query/bmw.c:295` says of its order "This matches the exhaustive path's
  tie-breaking for deterministic results", and `query/score.c:74` "Secondary: lower
  CTID first (for stability)".
* `Registry`, the properties without the premise on `hazard`: a REINDEX or VACUUM
  FULL leaves other backends on the old state, two backends that rebuild after a
  restart get a state each, a rolled back DROP INDEX leaves cached addresses of
  freed memory, and an aborted REINDEX leaves a NULL entry in the cache of its
  backend.

The repository's README also says the memtable spills "at transaction commit",
while `tp_auto_spill_if_needed` runs inside every INSERT.

### Observations at single lines

Found while reading, outside what a run can show: `tp_cleanup_query_limits`
(`state/limit.c:91`) is never called, although its comment says it is at
transaction end (`ScanExact` shows that a limit left behind costs work, not
rows); at the 65th distinct term `cache_term_idf` (`types/query.c:124`) raises
`num_terms` above the array and `lookup_cached_idf` reads past it;
`block_count` is 16 bits (`segment/segment.c:1237`, `segment/merge.c:1021`), so is
a posting's frequency (`segment/segment.c:1257`) and, in the one-term path, a
document's length (`segment/scan.c:350`): the models have no such ends; a skip entry
keeps 16 bits of the tenant; a spill
between two executions changes quantised lengths and with them the order;
`find_bm25_index_for_column` may pick an invalid index; spilled segments store
cumulative tenant counts and merges add them up.

### Bounds

* Two backends: the lock has two modes and every conflict is between two
  parties; the stale cache needs a second backend and no third; so do a rebuild
  race and a state replaced under a cached address.
* Merging at two segments and spilling at two postings is the least that makes
  spills and merges happen with four documents.  Every run has two levels, so a
  cascade is one merge; the theorems hold for any number of levels.
* `StmtsPerXact` 2 is the least in which one statement uses the lock another one
  acquired; a third adds no new pair.  `BulkLoadThreshold` 1 makes every
  transaction that adds a term spill.
* Two workers and a spill at one posting make both buffers of a worker full
  while the other worker is ahead or behind; the block of three tuples makes a
  worker come back to its first buffer.
* Blocks of two postings make lists of several blocks, block ends in the middle
  of a seek, and half-full last blocks with five documents; three terms give
  pivots with terms before, at and behind them.
* `MaxStates` 2 shared states: one and the one that replaces it, or, after a
  parallel build, which has none, one each for two backends that find none.  Three
  rows are the least for a docid that goes astray: one that fills the cache, one
  that spills, one more; once the backends may not share one state, when nothing
  is claimed of rows, `MaxForkedRows` 2 stops the INSERTs.  `BatchSize` 2 makes builds
  of one batch, of an exactly full one and of more.
* Limits: the default limit 2 and three documents make the scan run again, and
  the largest limit 4 makes the doubling stop; `MAX_INHERITANCE_DEPTH` 3 and
  `PartitionDepth` 4 exceed the two steps of the partition tree.
* `MaxBlocks` bounds the index file; a call starts only when it has room to
  finish (`RoomForCall`), so no call is stuck on the bound.
* Symmetry: backends in the safety runs of `SharedIndex`, documents in the
  safety run of `CrashRecovery`, backends and rows in `Registry` (each row is of
  a tenant of its own, and both are permuted together); none in the runs with
  fairness.

### Fairness

`WF_vars(CallStep(b))`: a backend inside a call, past its lock acquisition, is
scheduled again.  No step in `CallStep` waits for another backend, so this is
the operating system's scheduling and nothing more.  Nothing is assumed of
clients (a transaction may stay open for ever) and nothing of who is granted
the lock: an LWLock waiter behind an idle transaction waits for ever, and no
liveness is claimed for it.

In `ParallelBuild` leader and workers are processes of their own,
`WF_vars(LeaderStep)` and `WF_vars(WorkerStep(w))`; a worker that waits for a
buffer is not enabled, so nothing is assumed of the wait itself.  `BuildEnds`
fails under this fairness; what holds is `ScannedBuildEnds`, from the moment the
workers have left their loops.

`SegmentMerge` and `BlockMaxWand` are sequential code: weak fairness of the next
step (`KeepsRunning`) says that it keeps running.

Deadlock is checked in every passing run.  A finished build, merge or query
stutters.

## 4. Proofs

Every invariant and action property of a passing run is also a theorem
(`PROJECT.json`, "theorems").  Each inductive invariant was checked by TLC as an invariant of the
instance before it was proved.

### One index: SharedIndexProofs

For any sets of backends and documents, any number of levels, thresholds and
statements:

* `TypeCorrect`: `Spec => []TypeOK`, without further assumption;
* under `SafeConfig`: `LockDiscipline`, `NoDuplicates`, `CountsExact`,
  `NothingLost`, `ScansExact`, `MetaDocsExact` and `Refinement`
  (`Spec => TextIndex!Spec` under the mapping of `SharedIndex`);
* under `SafeConfig` and no ERROR inside a merge: `LevelsStayBounded`;
* without two-phase commit, savepoints included: `LocksEnd`.

`SafeConfig` says where the lock protocol is sound, and the known divergences show
that it is needed: no rollback to a savepoint; no bulk-load spill in a
transaction that may have released its lock (bulk-load spills off, or one
statement a transaction and no two-phase commit); no ERROR between clearing the
memtable and linking the segment.  The default configuration of the extension,
with bulk-load spills on and transactions of several statements, is not safe in
this sense.  `LevelsStayBounded` needs its second condition because an error in
a merge leaves a full level until the next spill; `LocksEnd` needs its own
because the callback ignores PREPARE.

The inductive invariant has layers, each proved from the ones before:

1. `TypeInv` = `TypeOK` and `CallInv`: which call may be at which step.  Needed
   because a step's effect depends on local variables that only certain calls
   set (the level of a merge is below the last).
2. `LockInv`: the tracking agrees with the LWLock, whoever is past the
   acquisition still holds what it asked for, and a non-zero bulk-load count
   means the exclusive lock is held.  The last part is what lets the PRE_COMMIT
   spill go without an acquisition of its own.
3. `StoreInv`: `StoredOnce`, `CountsMatchChains`, and what a call has in hand:
   a segment about to be linked is what the memtable held (`SpillInv`), a merged
   segment is its level's documents, a document on its way in is in no other
   place (`FreshInv`), a scan's hits are the memtable's (`ScanInv`), and a
   non-empty index has a non-zero `total_docs` (`CorpusCounted`).
4. `MetaInv`: the counters, while a spill has the documents in hand and between
   its steps.  `LevelInv`: only the level the cascade has reached can be full.

Steps are of two kinds.  Those that change no content (`Quiet`) keep layer 3 by
`QuietStep`; the four that do (`AddTerms`, `ClearMemtable`, `LinkL0`,
`LinkMerged`) have a lemma each, which starts from `Alone`: a backend that
changes the content is the only one inside a call that depends on it.
`SegmentProofs` gives the facts about chains.  `LocksEnd` does not use
`LockInv`, which savepoints break; its `TrackInv` only says that what the LWLock
holds is tracked, the half of the agreement that a savepoint keeps.

### The parallel build: ParallelBuildProofs

For any number of workers (launched or not), any finite heap divided into
disjoint blocks, any spill threshold and any levels: `BuildTypeCorrect`,
`HandoverSafe` (`BufferHandover`), `DocumentsOnce` (`ExactlyOnce`) and
`StatsExact` (`StatsMatchSegments`).

`TypeInv` adds to `TypeOK` what a worker has in its slot at each step
(`WorkerInv`) and that the leader holds no buffer twice (`LeaderInv`, by the
position its sweep has reached).  The latter is what makes giving a buffer back
safe: were it in `ready_buffers` a second time, the leader would empty it under
its worker's hands.  `ExactlyOnce` needs `BufferHandover`, so that a worker
never adds to a buffer that is merged already; `StatsInv` needs `ExactlyOnce`,
because the leader adds a segment's document count to `total_docs` and this is the
count of the union only while segments share no document.  `DocumentsOnce` says
that nothing is lost on the way; it does not say that the last buffer is merged,
which is not true (known divergences).

### The life of an index: RegistryProofs

For any sets of backends and tenants, any finite set of rows and any number of
shared states: `RegistryTypes`, `MemorySafe`, `SharedMemtable`, `RowsKept`,
`CountsKept`.  The properties carry their conditions on `hazard` themselves.

1. `TypeInv`: types, and what DDL excludes (`CallInv`).
2. `MemInv`: the registered state is live and private only during its build, and
   so is every cached one unless a DROP is under way elsewhere or was rolled
   back.  It needs nothing about the data.
3. `ShareInv`: undisturbed, a cached address is the registered one, and a backend
   that reloads the docid pages is alone with a state that is still empty and has
   copied the chain the metapage still names.  `PagesInv`: chains are named by rows
   of the heap; so the chain that an INSERT starts is new, and no stale cache can
   have put anything on it.
4. `DataInv`: where committed and running rows are, on disk, in memory (a row of the
   docid chain is in the memtable or, after a spill, in a segment), and during
   a build in the old file and in the new one; an aborted build goes back to the
   old file, so both are needed.
5. `HeapInv`, `CountInv`: only rows of the heap are indexed, and, as long as no
   recovery indexes a row again, each of the four tables of tenant counts (file,
   saved file, state, accumulator) is that of its rows.

### The file: CrashRecoveryProofs

For any number of blocks, levels, docids a page and backends and any finite set
of documents:

* with crashes and page writes anywhere: `RecoveryTypes` and `DiskReadable`
  (`DiskSound`);
* without crashes: `FreeBlocksDead` (`FreeBlocksNotLive`);
* without crashes and with one backend: `CommittedSurvive` (`CommittedStored`).

The conditions are those under which the code gives the guarantee: the known
divergences list the counterexample for each.

1. `TypeInv`: types, and which call may be at which step (`CallInv`).
2. `LayoutInv`: there is a division of the file's blocks into docid pages and
   segment pages that the buffers, the disk, both metapages, the caches and the
   free space map respect.  Stating it for both images at once is
   what makes it survive a crash, which replaces one by the other.
3. `SegmentInv`: a segment that a metapage names, in memory or on disk, is on
   disk: the order of the flushes.  These three are `FileInv`.
4. `ChainInv`: witnesses for the level chains: sequences of distinct blocks, as
   long as `level_counts` says, disjoint, not free, and without the segment in
   hand.
5. `DocidInv`: the docid chain can be read to its end and a cached page is on it.
6. `StoreInv`: every committed document is in the memtable, in a segment or on its
   way, and recovery finds it in the docid chain unless a segment has it.

### A session: QueryExecutionProofs

For any finite catalog of tables and indexes, any statements, any finite set of
documents, with any scores, and any limits: `QueryTypes`, `IdfFresh`
(`CachedIdfFresh`), `RowsExact` (`ScanExact`), `TenantFilter`
(`TenantKeepsRows`), and, when no walk up `pg_inherits` is cut off
(`ShallowTrees`), `NamedIndexRead` (`NamedIndexHonoured`).  The code walks up at
most `MAX_INHERITANCE_DEPTH` (32) levels; beyond them it does not recognise a
partition as one, and `PlannedScanStarts` is not true.

* `IndexInv`: a document is in one place, no segment is empty, `total_docs` is
  behind by the insert in progress.
* `HeadsInv`, `KeyInv`, `FreqInv` for `IdfFresh`: the chain the operator walked is
  a suffix of the present one.  From an equal `total_docs` and an equal head it
  follows that nothing was added in between, because both only grow.
* `ScanInv` for `RowsExact`: the results of the last execution, and the rows returned
  so far, have place by place the scores of the ranking of all matching documents.
  `RankingLists` says that the ranking, a strict order by score and CTID, lists its
  set completely; `BestScores` that whichever of several sets of `k` best documents
  the heap ends with, its ranking has the first `k` scores of the whole.  So an
  execution with a doubled limit goes on with the score where the one before
  stopped, though, among ties, not always with another document.
* `TenantInv`, `NamedInv`: what parse analysis has established stays true of the
  statement through planning, whatever other statements do to the session's
  globals in between.

### A segment: SegmentProofs

`WrittenWellFormed`: whatever documents `tp_write_segment` is given, each CTID
once, the segment is `WellFormed`, `WrittenFrom` the documents and `Complete`:
every document has one number and every term of it one posting; the posting lists
ascend; every skip entry has its block's count, last document, largest frequency,
largest norm and, for a block of one tenant, 16 bits of it; a stored tenant range
holds exactly the documents of its tenant, and every tenant but `UINT32_MAX` (see
the findings) has one.  The argument counts:
in a strict total order the number of smaller elements places an element, so what
`qsort` returns lists the set (`ListingSorts`); the running start of
`tp_docmap_finalize` is the end of the run before (`RangesAreRuns`, `RunExact`).

### A query: BlockMaxWandProofs

For any memtable, segments, query, tenant, k and block size: `WandInvHolds`
(`WandInv`), `NoWinnerSkipped` (`SkippedCannotWin`) and `AnswersExact`
(`ResultsExact`).  Three invariants build on each other:

1. `Shape`: where everything is: each iterator is on a posting of the block it has
   loaded, the terms are in order with the exhausted ones behind, `active_count`
   counts the others, the pivot is among them, a seek has a target and does not go
   past it, and the heap is a heap of at most k distinct entries.
2. `Sound`: where the block bounds cover the scores (`BoundsCover`), a document
   that could still enter the heap has not been passed by any of its terms
   (`PassInv`, with a part for each point of the loop, as a term may be at the
   pivot, sought or realigned in the middle of a round; `SingleInv` for one term),
   and what the heap holds are matching documents with their full scores, none of
   which will be met again (`HeapSound`).  That a pivot or a block skip is right
   comes from `TotalBound`: a score is the sum over the document's terms, and the
   bounds of the terms in front of the pivot cover it.
3. `Exact`: every matching document that is behind is in the heap, or the heap is
   full and holds none that is weaker (`Settled`, `MemtableScored`).  At the end
   everything is behind; that the heap's scores are then the k best is a statement
   about sorted lists.

What is assumed of the index (`StoredOK`): a row is indexed once, in the memtable
or in one segment, its CTID is a valid one, and a segment has fewer documents than
there are document numbers.  What is assumed of scores (`ScoresAssumption`): they are
positive.  `AnswersExact` promises the k best only where the stored bounds cover
the scores and the tenant has a range, since the code breaks both (findings), and
no duplicates or wrong scores where the bounds do.

### A merge: SegmentMergeProofs

For any chain of readable segments, any finished segments above it, any terms and
any block size: `TypeCorrect`, `Conserves` (`MergeConserves`) and `WrittenAsOne`
(`MergedAsWritten`).  `Readable` says what every writer leaves and includes
segments with reused CTIDs; that a merge's result is readable again is part of the
proof (`MergedReadable`), so it holds of chains of merges.

The inductive invariant is `MergeInv`, in eight parts.  `ChainInv`, `SourcesInv`
and `StageInv` tie the sources to the chain and each step to what is done by then.
`TermsInv`: the merged terms ascend, each names exactly the sources that have it,
and every other term of a source is still in front of it; without it a term of
two segments might be merged twice.  `DocmapInv`: the map is the one made of the
sources, which (`MapMade`) has one number for each CTID, in the order of tenant and
CTID, and `old_to_new` leads from each source document to the number of its CTID.  `CollectInv`: the postings collected stand
one to one for the places the block readers have passed; `WrittenInv`: a list that
is written stands one to one for all places of its term; `MergedInv`: the finished
segment is made of these.

`Conserves` counts along these pairings: occurrences of a posting, document
frequencies and tenant frequencies over the merged list are sums over the sources.
`WrittenAsOne` shows for each section that both ways of writing give the same: the
merged map lists the union in the order of the writer, the postings at a number
are those of its document, and an ascending list of all entries is what sorting
them gives (`AscendingIsSorted`), so ties `qsort` might leave open do not occur.

### Assumptions on constants, and induction

The assumptions are in the modules that declare the constants, and TLC evaluates
them in every run: bounds are positive numbers, `Docs` and `Rows` are finite (the
heap is), the catalog is well formed (every parent chain ends, as in
`pg_inherits`), and in `QueryExecution` no two documents have the same CTID.
Scores may be equal everywhere.

The library's induction theorems take an operator as a parameter, which the
provers cannot instantiate.  Where a proof needs induction (walks along chains of
pages and up the partition tree, rankings, running totals, cardinalities) it goes
through the least element of a set of natural numbers (`LeastNat`,
`NatSetInduction`, from `WellFoundedInduction`), and a recursive function is
unfolded from a lemma that it exists (`WalkExists`, `ClimbExists`).

### Only model-checked

Liveness (`CallsReturn`, `ScannedBuildEnds`, `MergeEnds`, `QueryEnds`), which the
prover does not reach, and the violations, which are counterexamples.

## 5. State and plan

Modelled, checked and proved: the core (`TextIndex`, `SegmentLevels`,
`SharedIndex`, `CrashRecovery`), the parallel build, the segment format and its
merge, block-max WAND, the registry with builds and tenant counts, planning and
execution of queries.  What could follow:

1. Locks of two indexes in one transaction, for which the code has no order.
2. The walk of `tp_bulkdelete` beside spills and merges.
3. A composition of `QueryExecution` with `BlockMaxWand`: which of several documents
   with the same score the heap keeps, where `QueryExecution` leaves it open.
4. Images of the free space map on disk that are older than its last change, after
   a crash (`CrashRecovery`).

## 6. What is not modelled

Floating-point scores (integers with the same monotonicity take their place);
tokenisation (PostgreSQL's `to_tsvector`); text and binary input and output of
the types; the replacement of score expressions in a finished plan and the cost
arithmetic; the byte layout of segments and the bit packing of blocks, which is
in the Rust crate; `memtable/local_memtable.c`, which nothing uses; vacuum, which
changes nothing in the index; the debug dump; the handler's function table; the
benchmarks and scripts.  Memory reclamation in dynamic shared memory is
abstracted: a cleared memtable is an empty one, and a freed state is marked so.
