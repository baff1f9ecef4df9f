---------------------------- MODULE SharedIndex ----------------------------
(***************************************************************************)
(* One BM25 index used by several backends of one server: the shared       *)
(* memtable and corpus counters, the level chains on disk, the per-index   *)
(* LWLock with its backend-local tracking, and the operations that run     *)
(* inside transactions: tp_insert with its auto-spill, bm25_spill_index    *)
(* (tp_spill_memtable), an index scan, the PRE_COMMIT bulk-load spill, and *)
(* the transaction callbacks.                                              *)
(*                                                                         *)
(* A call is a sequence of steps; pc[b] is the step backend b takes next.  *)
(* Steps of different backends interleave, as they do in the code wherever *)
(* the LWLock does not prevent it.                                         *)
(***************************************************************************)
EXTENDS SegmentLevels, FiniteSets

CONSTANTS Backends,
          NoAnswer,           \* of TextIndex: a backend has no query result
          NoDoc,
          DocTerms,           \* DocTerms[d]: distinct terms of document d
          SpillThreshold,     \* GUC memtable_spill_threshold, 0 = disabled
          BulkLoadThreshold,  \* GUC bulk_load_threshold, 0 = disabled
          StmtsPerXact,       \* bound: statements in one transaction
          ErrorPoints,        \* steps at which an ERROR may be raised
          SubXacts,           \* do transactions roll back to savepoints?
          TwoPhase            \* do transactions end in PREPARE TRANSACTION?

CallSteps == {"add", "write", "clear", "link", "compact", "merge",
              "score_mem", "score_seg", "done"}

ASSUME SharedIndexAssumption ==
    /\ DocTerms \in [Docs -> Nat]
    /\ SpillThreshold \in Nat
    /\ BulkLoadThreshold \in Nat
    /\ StmtsPerXact \in Nat \ {0}
    /\ ErrorPoints \subseteq CallSteps
    /\ SubXacts \in BOOLEAN
    /\ TwoPhase \in BOOLEAN
    /\ NoDoc \notin Docs

VARIABLES
    pc,             \* pc[b]: "idle", "acquire" or a step of a call
    op,             \* op[b]: the call b is in
    doc,            \* doc[b]: the heap tuple b's INSERT is indexing
    heap,           \* heap tuples for which tp_insert has been called
    inXact,         \* b is in a transaction
    stmts,          \* statements b has run in this transaction
    lockOwner,      \* LWLock: backends holding it in exclusive mode
    lockSharers,    \* LWLock: backends holding it in shared mode
    lockMode,       \* lock_held and lock_mode of b's TpLocalIndexState
    termsAdded,     \* terms_added_this_xact of b's TpLocalIndexState
    memtable,       \* documents in the shared memtable
    postings,       \* memtable->total_postings
    totalDocs,      \* shared->total_docs
    metaDocs,       \* metap->total_docs
    chains,         \* level_heads / next_segment
    counts,         \* level_counts
    pending,        \* pending[b]: the segment b has written, not yet linked
    level,          \* level[b]: the level b is compacting
    merged,         \* merged[b]: the segment b has merged, not yet linked
    hits,           \* hits[b]: <<document, place>> pairs collected by a scan
    result          \* result[b]: the scan's result_ctids

callVars == <<pc, op, doc, heap, inXact, stmts>>
lockVars == <<lockOwner, lockSharers, lockMode>>
memVars  == <<memtable, postings, totalDocs>>
metaVars == <<metaDocs, chains, counts>>
spillVars == <<pending, level, merged>>
scanVars == <<hits, result>>
vars == <<callVars, lockVars, termsAdded, memVars, metaVars, spillVars, scanVars>>

NoOp == "none"
Calls == {NoOp, "insert", "spill", "scan", "commit"}
NoLock == "none"

Init ==
    /\ pc = [b \in Backends |-> "idle"]
    /\ op = [b \in Backends |-> NoOp]
    /\ doc = [b \in Backends |-> NoDoc]
    /\ heap = {}
    /\ inXact = [b \in Backends |-> FALSE]
    /\ stmts = [b \in Backends |-> 0]
    /\ lockOwner = {}
    /\ lockSharers = {}
    /\ lockMode = [b \in Backends |-> NoLock]
    /\ termsAdded = [b \in Backends |-> 0]
    /\ memtable = {}
    /\ postings = 0
    /\ totalDocs = 0
    /\ metaDocs = 0
    /\ chains = EmptyChains
    /\ counts = ZeroCounts
    /\ pending = [b \in Backends |-> {}]
    /\ level = [b \in Backends |-> 0]
    /\ merged = [b \in Backends |-> {}]
    /\ hits = [b \in Backends |-> {}]
    /\ result = [b \in Backends |-> {}]

----------------------------------------------------------------------------
(* The LWLock and its tracking in the backend's TpLocalIndexState *)

(* Mutant: every call asks for the shared mode. *)
WantedModeShared(b) == "shared"

(* The mode a call asks tp_acquire_index_lock for. *)
WantedMode(b) == IF op[b] = "scan" THEN "shared" ELSE "excl"

LWLockHeldByMe(b) == b \in lockOwner \cup lockSharers

(* LWLockRelease by b, whichever mode it holds. *)
LWLockRelease(b) ==
    /\ lockOwner' = lockOwner \ {b}
    /\ lockSharers' = lockSharers \ {b}

(* LWLockAcquire returns when no other backend holds a conflicting lock. *)
LWLockAcquire(b, mode) ==
    \/ /\ mode = "shared"
       /\ lockOwner = {}
       /\ lockSharers' = lockSharers \cup {b}
       /\ UNCHANGED lockOwner
    \/ /\ mode = "excl"
       /\ lockOwner = {}
       /\ lockSharers = {}
       /\ lockOwner' = {b}
       /\ UNCHANGED lockSharers

(* tp_acquire_index_lock returns at once: the tracked lock is enough. *)
LockSufficient(b) ==
    \/ lockMode[b] = "excl"
    \/ lockMode[b] = "shared" /\ WantedMode(b) = "shared"

(* tp_release_index_lock: nothing to do when no lock is tracked; a tracked *)
(* lock that is not really held is only forgotten.                         *)
ReleaseIndexLock(b) ==
    /\ lockMode' = [lockMode EXCEPT ![b] = NoLock]
    /\ IF lockMode[b] # NoLock /\ LWLockHeldByMe(b)
       THEN LWLockRelease(b)
       ELSE UNCHANGED <<lockOwner, lockSharers>>

(* The step after the lock has been granted. *)
FirstStep(b) ==
    CASE op[b] = "insert" -> "add"
      [] op[b] = "spill"  -> "write"
      [] op[b] = "scan"   -> "score_mem"

GoTo(b, step) == pc' = [pc EXCEPT ![b] = step]

(* The lock is already held in a sufficient mode. *)
AcquireHeld(b) ==
    /\ pc[b] = "acquire"
    /\ LockSufficient(b)
    /\ GoTo(b, FirstStep(b))
    /\ UNCHANGED <<op, doc, heap, inXact, stmts, lockVars, termsAdded,
                   memVars, metaVars, spillVars, scanVars>>

(* LWLockAcquire succeeds. *)
AcquireGranted(b) ==
    /\ pc[b] = "acquire"
    /\ lockMode[b] = NoLock
    /\ LWLockAcquire(b, WantedMode(b))
    /\ lockMode' = [lockMode EXCEPT ![b] = WantedMode(b)]
    /\ GoTo(b, FirstStep(b))
    /\ UNCHANGED <<op, doc, heap, inXact, stmts, termsAdded,
                   memVars, metaVars, spillVars, scanVars>>

----------------------------------------------------------------------------
(* Statements *)

StartStatement(b, call) ==
    /\ pc[b] = "idle"
    /\ stmts[b] < StmtsPerXact
    /\ stmts' = [stmts EXCEPT ![b] = @ + 1]
    /\ inXact' = [inXact EXCEPT ![b] = TRUE]
    /\ op' = [op EXCEPT ![b] = call]
    /\ GoTo(b, "acquire")

(* The executor calls tp_insert for a heap tuple it has just created. *)
StartInsert(b, d) ==
    /\ d \notin heap
    /\ StartStatement(b, "insert")
    /\ heap' = heap \cup {d}
    /\ doc' = [doc EXCEPT ![b] = d]
    /\ UNCHANGED <<lockVars, termsAdded, memVars, metaVars, spillVars, scanVars>>

StartSpill(b) ==
    /\ StartStatement(b, "spill")
    /\ UNCHANGED <<doc, heap, lockVars, termsAdded, memVars, metaVars,
                   spillVars, scanVars>>

(* tp_gettuple runs tp_execute_scoring_query. *)
StartScan(b) ==
    /\ StartStatement(b, "scan")
    /\ UNCHANGED <<doc, heap, lockVars, termsAdded, memVars, metaVars,
                   spillVars, scanVars>>

----------------------------------------------------------------------------
(* Adding a document: tp_add_document_terms and the auto-spill test *)

SpillDue(num) == SpillThreshold > 0 /\ num >= SpillThreshold

AddTerms(b) ==
    LET terms == DocTerms[doc[b]]
    IN  /\ pc[b] = "add"
        /\ terms > 0
        /\ memtable' = memtable \cup {doc[b]}
        /\ postings' = postings + terms
        /\ totalDocs' = totalDocs + 1
        /\ termsAdded' = [termsAdded EXCEPT ![b] = @ + terms]
        /\ GoTo(b, IF SpillDue(postings + terms) THEN "write" ELSE "done")
        /\ UNCHANGED <<op, doc, heap, inXact, stmts, lockVars, metaVars,
                       spillVars, scanVars>>

(* A document without lexemes is not added, and triggers no spill. *)
SkipDocument(b) ==
    /\ pc[b] = "add"
    /\ DocTerms[doc[b]] = 0
    /\ GoTo(b, "done")
    /\ UNCHANGED <<op, doc, heap, inXact, stmts, lockVars, termsAdded, memVars,
                   metaVars, spillVars, scanVars>>

----------------------------------------------------------------------------
(* Spilling: tp_auto_spill_if_needed, tp_spill_memtable and                *)
(* tp_bulk_load_spill_check share these steps                              *)

(* tp_write_segment: the memtable's documents go to a new segment that no  *)
(* chain refers to yet.                                                    *)
WriteSegment(b) ==
    /\ pc[b] = "write"
    /\ memtable # {}
    /\ pending' = [pending EXCEPT ![b] = memtable]
    /\ GoTo(b, "clear")
    /\ UNCHANGED <<op, doc, heap, inXact, stmts, lockVars, termsAdded, memVars,
                   metaVars, level, merged, scanVars>>

(* An empty memtable makes no segment. *)
NothingToSpill(b) ==
    /\ pc[b] = "write"
    /\ memtable = {}
    /\ GoTo(b, "done")
    /\ UNCHANGED <<op, doc, heap, inXact, stmts, lockVars, termsAdded, memVars,
                   metaVars, spillVars, scanVars>>

(* Mutant: the memtable is not emptied. *)
ClearMemtableKeeps(b) ==
    /\ pc[b] = "clear"
    /\ postings' = 0
    /\ GoTo(b, "link")
    /\ UNCHANGED <<op, doc, heap, inXact, stmts, lockVars, termsAdded,
                   memtable, totalDocs, metaVars, spillVars, scanVars>>

(* tp_clear_memtable at run time: the corpus counters survive. *)
ClearMemtable(b) ==
    /\ pc[b] = "clear"
    /\ memtable' = {}
    /\ postings' = 0
    /\ GoTo(b, "link")
    /\ UNCHANGED <<op, doc, heap, inXact, stmts, lockVars, termsAdded,
                   totalDocs, metaVars, spillVars, scanVars>>

(* Mutant: total_docs is not copied to the metapage. *)
LinkL0Uncounted(b) ==
    /\ pc[b] = "link"
    /\ chains' = LinkSegment(chains, 0, pending[b])
    /\ counts' = CountSegment(counts, 0)
    /\ pending' = [pending EXCEPT ![b] = {}]
    /\ GoTo(b, "compact")
    /\ UNCHANGED <<op, doc, heap, inXact, stmts, lockVars, termsAdded, memVars,
                   metaDocs, level, merged, scanVars>>

(* The segment becomes the L0 head; total_docs is copied to the metapage. *)
LinkL0(b) ==
    /\ pc[b] = "link"
    /\ chains' = LinkSegment(chains, 0, pending[b])
    /\ counts' = CountSegment(counts, 0)
    /\ metaDocs' = totalDocs
    /\ pending' = [pending EXCEPT ![b] = {}]
    /\ GoTo(b, "compact")
    /\ UNCHANGED <<op, doc, heap, inXact, stmts, lockVars, termsAdded, memVars,
                   level, merged, scanVars>>

(* tp_maybe_compact_level finds the level full, and                        *)
(* tp_merge_level_segments writes the merged segment.                      *)
MergeLevel(b) ==
    /\ pc[b] = "compact"
    /\ NeedsCompaction(counts, level[b])
    /\ chains[level[b]] # <<>>
    /\ merged' = [merged EXCEPT ![b] =
           ChainDocs(MergeSources(chains[level[b]], counts[level[b]]))]
    /\ GoTo(b, "merge")
    /\ UNCHANGED <<op, doc, heap, inXact, stmts, lockVars, termsAdded, memVars,
                   metaVars, pending, level, scanVars>>

(* The level is not full, or is the last: the cascade ends. *)
StopCompaction(b) ==
    /\ pc[b] = "compact"
    /\ ~NeedsCompaction(counts, level[b]) \/ chains[level[b]] = <<>>
    /\ level' = [level EXCEPT ![b] = 0]
    /\ GoTo(b, "done")
    /\ UNCHANGED <<op, doc, heap, inXact, stmts, lockVars, termsAdded, memVars,
                   metaVars, pending, merged, scanVars>>

(* Mutant: the merged segment replaces its sources in their own level,     *)
(* whose count stays and which is looked at again.                         *)
LinkMergedInPlace(b) ==
    /\ pc[b] = "merge"
    /\ chains' = [chains EXCEPT ![level[b]] = <<merged[b]>>]
    /\ merged' = [merged EXCEPT ![b] = {}]
    /\ GoTo(b, "compact")
    /\ UNCHANGED <<op, doc, heap, inXact, stmts, lockVars, termsAdded, memVars,
                   metaDocs, counts, pending, level, scanVars>>

(* The metapage update of tp_merge_level_segments, then the next level. *)
LinkMerged(b) ==
    /\ pc[b] = "merge"
    /\ chains' = ReplaceLevel(chains, level[b], merged[b])
    /\ counts' = RecountLevel(counts, level[b])
    /\ merged' = [merged EXCEPT ![b] = {}]
    /\ level' = [level EXCEPT ![b] = @ + 1]
    /\ GoTo(b, "compact")
    /\ UNCHANGED <<op, doc, heap, inXact, stmts, lockVars, termsAdded, memVars,
                   metaDocs, pending, scanVars>>

----------------------------------------------------------------------------
(* Scanning: tp_score_documents and the scoring loops it calls *)

MemtableHits == {<<d, 0, 0>> : d \in memtable}

(* Mutant: only L0 is scored. *)
SegmentHitsL0 ==
    UNION {{<<d, 0, i>> : d \in chains[0][i]} : i \in DOMAIN chains[0]}

(* The hits of every segment of every chain. *)
SegmentHits ==
    UNION {UNION {{<<d, l, i>> : d \in chains[l][i]} : i \in DOMAIN chains[l]} :
              l \in Levels}

ScoreMemtable(b) ==
    /\ pc[b] = "score_mem"
    /\ totalDocs > 0
    /\ hits' = [hits EXCEPT ![b] = MemtableHits]
    /\ GoTo(b, "score_seg")
    /\ UNCHANGED <<op, doc, heap, inXact, stmts, lockVars, termsAdded, memVars,
                   metaVars, spillVars, result>>

(* Mutant: the corpus is taken to be empty when the metapage's counter is. *)
EmptyCorpusOnDisk(b) ==
    /\ pc[b] = "score_mem"
    /\ metaDocs <= 0
    /\ result' = [result EXCEPT ![b] = {}]
    /\ GoTo(b, "done")
    /\ UNCHANGED <<op, doc, heap, inXact, stmts, lockVars, termsAdded, memVars,
                   metaVars, spillVars, hits>>

(* No answer is attempted when the corpus counter says it is empty. *)
EmptyCorpus(b) ==
    /\ pc[b] = "score_mem"
    /\ totalDocs <= 0
    /\ result' = [result EXCEPT ![b] = {}]
    /\ GoTo(b, "done")
    /\ UNCHANGED <<op, doc, heap, inXact, stmts, lockVars, termsAdded, memVars,
                   metaVars, spillVars, hits>>

(* Every chain is followed from its head; the hits become the result. *)
ScoreSegments(b) ==
    /\ pc[b] = "score_seg"
    /\ result' = [result EXCEPT ![b] = hits[b] \cup SegmentHits]
    /\ hits' = [hits EXCEPT ![b] = {}]
    /\ GoTo(b, "done")
    /\ UNCHANGED <<op, doc, heap, inXact, stmts, lockVars, termsAdded, memVars,
                   metaVars, spillVars>>

----------------------------------------------------------------------------
(* Returning from a call, and the end of a transaction *)

(* The call is over and its local variables are gone. *)
EndCall(b) ==
    /\ GoTo(b, "idle")
    /\ op' = [op EXCEPT ![b] = NoOp]
    /\ doc' = [doc EXCEPT ![b] = NoDoc]
    /\ result' = [result EXCEPT ![b] = {}]

(* tp_insert returns and keeps the lock for the rest of the transaction. *)
ReturnInsert(b) ==
    /\ pc[b] = "done"
    /\ op[b] = "insert"
    /\ EndCall(b)
    /\ UNCHANGED <<heap, inXact, stmts, lockVars, termsAdded, memVars,
                   metaVars, spillVars, hits>>

(* tp_spill_memtable and tp_execute_scoring_query release the lock, also   *)
(* when an earlier statement of the transaction acquired it.               *)
ReturnAndRelease(b) ==
    /\ pc[b] = "done"
    /\ op[b] \in {"spill", "scan"}
    /\ EndCall(b)
    /\ ReleaseIndexLock(b)
    /\ UNCHANGED <<heap, inXact, stmts, termsAdded, memVars, metaVars,
                   spillVars, hits>>

(* PRE_COMMIT: tp_bulk_load_spill_check spills under whatever lock the     *)
(* transaction still holds; it acquires none.                              *)
PreCommit(b) ==
    /\ pc[b] = "idle"
    /\ inXact[b]
    /\ op' = [op EXCEPT ![b] = "commit"]
    /\ GoTo(b, IF BulkLoadThreshold > 0 /\ termsAdded[b] >= BulkLoadThreshold
               THEN "write" ELSE "done")
    /\ UNCHANGED <<doc, heap, inXact, stmts, lockVars, termsAdded, memVars,
                   metaVars, spillVars, scanVars>>

(* Mutant: the bulk-load counter survives the transaction. *)
CommitKeepsCount(b) ==
    /\ pc[b] = "done"
    /\ op[b] = "commit"
    /\ EndCall(b)
    /\ ReleaseIndexLock(b)
    /\ inXact' = [inXact EXCEPT ![b] = FALSE]
    /\ stmts' = [stmts EXCEPT ![b] = 0]
    /\ UNCHANGED <<heap, termsAdded, memVars, metaVars, spillVars, hits>>

(* COMMIT: release the locks, reset the bulk-load counters. *)
Commit(b) ==
    /\ pc[b] = "done"
    /\ op[b] = "commit"
    /\ EndCall(b)
    /\ ReleaseIndexLock(b)
    /\ termsAdded' = [termsAdded EXCEPT ![b] = 0]
    /\ inXact' = [inXact EXCEPT ![b] = FALSE]
    /\ stmts' = [stmts EXCEPT ![b] = 0]
    /\ UNCHANGED <<heap, memVars, metaVars, spillVars, hits>>

(* What an ERROR leaves of the call that raised it. *)
DropCall(b) ==
    /\ EndCall(b)
    /\ pending' = [pending EXCEPT ![b] = {}]
    /\ level' = [level EXCEPT ![b] = 0]
    /\ merged' = [merged EXCEPT ![b] = {}]
    /\ hits' = [hits EXCEPT ![b] = {}]

(* AbortTransaction releases every LWLock, then runs the ABORT callbacks,  *)
(* which put the tracking right and reset the counters.  What the          *)
(* transaction added to the index stays there.                             *)
AbortXact(b) ==
    /\ DropCall(b)
    /\ LWLockRelease(b)
    /\ lockMode' = [lockMode EXCEPT ![b] = NoLock]
    /\ termsAdded' = [termsAdded EXCEPT ![b] = 0]
    /\ inXact' = [inXact EXCEPT ![b] = FALSE]
    /\ stmts' = [stmts EXCEPT ![b] = 0]
    /\ UNCHANGED <<heap, memVars, metaVars>>

(* ROLLBACK, an error in another part of the statement, or an ERROR raised *)
(* by one of the steps in ErrorPoints.                                     *)
MayFail(b) == inXact[b] /\ (pc[b] = "idle" \/ pc[b] \in ErrorPoints)

Abort(b) ==
    /\ MayFail(b)
    /\ AbortXact(b)

(* ROLLBACK TO SAVEPOINT, or an error caught by an exception block:        *)
(* AbortSubTransaction releases every LWLock too, but no callback of the   *)
(* extension runs, so its tracking and its counter stay as they were.      *)
SubXactAbort(b) ==
    /\ SubXacts
    /\ MayFail(b)
    /\ op[b] # "commit"
    /\ DropCall(b)
    /\ LWLockRelease(b)
    /\ UNCHANGED <<heap, inXact, stmts, lockMode, termsAdded, memVars, metaVars>>

(* PREPARE TRANSACTION: tp_xact_callback does nothing for these events. *)
Prepare(b) ==
    /\ TwoPhase
    /\ pc[b] = "idle"
    /\ inXact[b]
    /\ inXact' = [inXact EXCEPT ![b] = FALSE]
    /\ stmts' = [stmts EXCEPT ![b] = 0]
    /\ UNCHANGED <<pc, op, doc, heap, lockVars, termsAdded, memVars, metaVars,
                   spillVars, scanVars>>

(* tp_acquire_index_lock gives up a tracked shared lock before it waits    *)
(* for the exclusive one; LWLockRelease of a lock that is not held is an   *)
(* ERROR.                                                                  *)
AcquireUpgrade(b) ==
    /\ pc[b] = "acquire"
    /\ lockMode[b] = "shared"
    /\ ~LockSufficient(b)
    /\ IF LWLockHeldByMe(b)
       THEN /\ LWLockRelease(b)
            /\ lockMode' = [lockMode EXCEPT ![b] = NoLock]
            /\ UNCHANGED <<callVars, termsAdded, memVars, metaVars, spillVars,
                           scanVars>>
       ELSE AbortXact(b)

----------------------------------------------------------------------------
(* The steps of a call that is under way; none of them waits. *)
CallStep(b) ==
    \/ AddTerms(b) \/ SkipDocument(b)
    \/ WriteSegment(b) \/ NothingToSpill(b) \/ ClearMemtable(b) \/ LinkL0(b)
    \/ MergeLevel(b) \/ LinkMerged(b) \/ StopCompaction(b)
    \/ ScoreMemtable(b) \/ EmptyCorpus(b) \/ ScoreSegments(b)
    \/ ReturnInsert(b) \/ ReturnAndRelease(b) \/ Commit(b)

(* What the client decides. *)
ClientStep(b) ==
    \/ \E d \in Docs : StartInsert(b, d)
    \/ StartSpill(b) \/ StartScan(b)
    \/ PreCommit(b) \/ Prepare(b)

Next ==
    \E b \in Backends :
        \/ CallStep(b) \/ ClientStep(b)
        \/ AcquireHeld(b) \/ AcquireGranted(b) \/ AcquireUpgrade(b)
        \/ Abort(b) \/ SubXactAbort(b)

Spec == Init /\ [][Next]_vars

(* A backend inside a call runs on: the operating system schedules it. *)
(* Nothing is assumed of clients, nor of who is granted the LWLock.    *)
FairSpec == Spec /\ \A b \in Backends : WF_vars(CallStep(b))

----------------------------------------------------------------------------
(* Properties *)

Spilling == {"clear", "link", "compact", "merge"}
Mutating == {"add", "write"} \cup Spilling

(* What a scan finds: a document and the place it was found in. *)
Hits == Docs \X Int \X Int

(* Every variable has its type. *)
TypeOK ==
    /\ pc \in [Backends -> {"idle", "acquire"} \cup CallSteps]
    /\ op \in [Backends -> Calls]
    /\ doc \in [Backends -> Docs \cup {NoDoc}]
    /\ heap \subseteq Docs
    /\ inXact \in [Backends -> BOOLEAN]
    /\ stmts \in [Backends -> 0 .. StmtsPerXact]
    /\ lockOwner \subseteq Backends
    /\ lockSharers \subseteq Backends
    /\ lockMode \in [Backends -> {NoLock, "shared", "excl"}]
    /\ termsAdded \in [Backends -> Nat]
    /\ memtable \subseteq Docs
    /\ postings \in Nat
    /\ totalDocs \in Nat
    /\ metaDocs \in Nat
    /\ chains \in [Levels -> Seq(Segments)]
    /\ counts \in [Levels -> Nat]
    /\ pending \in [Backends -> Segments]
    /\ level \in [Backends -> Levels]
    /\ merged \in [Backends -> Segments]
    /\ hits \in [Backends -> SUBSET Hits]
    /\ result \in [Backends -> SUBSET Hits]

(* Documents of a spill whose memtable is cleared but whose segment no     *)
(* chain refers to yet.                                                    *)
InFlight == UNION {pending[b] : b \in {c \in Backends : pc[c] = "link"}}

(* Everything the index holds, wherever it is. *)
Stored == memtable \cup LinkedDocs(chains) \cup InFlight

(* The memtable, the chains and the counters change only under the         *)
(* exclusive lock: a backend that adds, spills, clears, links or merges is *)
(* the LWLock's only holder, and a backend that scores holds it in some    *)
(* mode while no other backend owns it.                                    *)
ExclusiveWrites ==
    \A b \in Backends :
        /\ pc[b] \in Mutating => lockOwner = {b} /\ lockSharers = {}
        /\ pc[b] \in {"score_mem", "score_seg"} =>
              LWLockHeldByMe(b) /\ lockOwner \subseteq {b}

(* No step of any backend makes the index forget a document: neither a     *)
(* spill that clears more than it wrote, nor a merge that drops a segment  *)
(* linked meanwhile, nor an error.                                         *)
DocsNeverLost == [][Stored \subseteq Stored']_vars

(* No document is stored twice: not in the memtable and a segment, not in  *)
(* two segments of any levels.                                             *)
StoredOnce ==
    /\ memtable \cap (LinkedDocs(chains) \cup InFlight) = {}
    /\ LinkedDocs(chains) \cap InFlight = {}
    /\ SegmentsDisjoint(chains)

(* The call of b is a scan that has collected its results. *)
Answered(b) == op[b] = "scan" /\ pc[b] = "done"

(* A scan that has collected its results has found every document of the   *)
(* index, and each of them once.                                           *)
ScanExact ==
    \A b \in Backends :
        Answered(b) =>
            /\ {h[1] : h \in result[b]} = Stored
            /\ \A h, g \in result[b] : h[1] = g[1] => h = g

(* level_counts says how long each chain is, at every step. *)
CountsMatchChains == \A l \in Levels : counts[l] = Len(chains[l])

(* Between spills every level below the last is short of the merge         *)
(* threshold: the compaction cascade leaves no full level behind.          *)
LevelsBounded ==
    (\A b \in Backends : pc[b] \notin {"compact", "merge"}) =>
        \A l \in Levels : l < MaxLevels - 1 => counts[l] < SegmentsPerLevel

(* total_docs of the metapage, which recovery takes as authoritative, is   *)
(* the number of documents in the segments whenever no spill is under way. *)
MetaDocsMatchSegments ==
    (\A b \in Backends : pc[b] # "link") =>
        /\ metaDocs = Cardinality(LinkedDocs(chains))
        /\ totalDocs = metaDocs + Cardinality(memtable)

(* Between transactions a backend holds no index lock, believes it holds   *)
(* none, and carries no bulk-load count over.                              *)
LocksEndWithXact ==
    \A b \in Backends :
        pc[b] = "idle" /\ ~inXact[b] =>
            ~LWLockHeldByMe(b) /\ lockMode[b] = NoLock /\ termsAdded[b] = 0

(* A call that is past its lock acquisition returns: the compaction        *)
(* cascade ends.                                                           *)
CallsReturn ==
    \A b \in Backends : pc[b] \in CallSteps ~> pc[b] = "idle"

(* The index implements its abstract specification. *)
Abstract ==
    INSTANCE TextIndex
        WITH indexed <- Stored,
             answer <- [b \in Backends |->
                           IF Answered(b) THEN {h[1] : h \in result[b]}
                           ELSE NoAnswer]

ImplementsTextIndex == Abstract!Spec

----------------------------------------------------------------------------
(* The inductive invariant behind the proofs                               *)

(* Configurations in which the lock protocol is sound: no rollback to a    *)
(* savepoint, no bulk-load spill in a transaction that may have released   *)
(* its lock, no ERROR between clearing the memtable and linking the        *)
(* segment.                                                                *)
SafeConfig ==
    /\ ~SubXacts
    /\ BulkLoadThreshold = 0 \/ (StmtsPerXact = 1 /\ ~TwoPhase)
    /\ "link" \notin ErrorPoints

(* Which calls may be at which step, and with which local variables. *)
CallInv ==
    \A b \in Backends :
        /\ pc[b] = "idle" <=> op[b] = NoOp
        /\ inXact[b] <=> stmts[b] > 0
        /\ op[b] # NoOp => inXact[b]
        /\ pc[b] = "acquire" => op[b] \in {"insert", "spill", "scan"}
        /\ pc[b] = "add" => op[b] = "insert"
        /\ pc[b] \in {"score_mem", "score_seg"} => op[b] = "scan"
        /\ op[b] = "scan" => pc[b] \in {"acquire", "score_mem", "score_seg", "done"}
        /\ op[b] = "insert" => doc[b] \in Docs
        /\ pc[b] = "merge" => level[b] < MaxLevels - 1

(* The tracking agrees with the LWLock, which is exclusive; who is past    *)
(* the acquisition holds what it asked for; terms counted for a bulk-load  *)
(* spill mean an exclusive lock still held.                                *)
LockInv ==
    /\ \A b \in Backends :
          /\ lockMode[b] = "excl" <=> b \in lockOwner
          /\ lockMode[b] = "shared" <=> b \in lockSharers
          /\ b \in lockOwner => lockOwner = {b} /\ lockSharers = {}
          /\ pc[b] \in Mutating => lockMode[b] = "excl"
          /\ pc[b] \in {"score_mem", "score_seg"} => lockMode[b] # NoLock
          /\ Answered(b) => lockMode[b] # NoLock
    /\ BulkLoadThreshold > 0 =>
          \A b \in Backends :
              /\ termsAdded[b] > 0 => lockMode[b] = "excl"
              /\ stmts[b] = 0 => termsAdded[b] = 0
              /\ op[b] \in {"spill", "scan"} => termsAdded[b] = 0

(* A document on its way into the index: not stored, and no other          *)
(* backend's.                                                              *)
Arriving(b) == op[b] = "insert" /\ pc[b] \in {"acquire", "add"}

FreshInv ==
    /\ Stored \subseteq heap
    /\ \A b \in Backends : Arriving(b) =>
          /\ doc[b] \in heap
          /\ doc[b] \notin Stored
          /\ \A c \in Backends : Arriving(c) /\ c # b => doc[c] # doc[b]

(* What a spill or a merge has in hand is what it replaces. *)
SpillInv ==
    \A b \in Backends :
        /\ pc[b] = "clear" => pending[b] = memtable
        /\ pc[b] = "link" => memtable = {}
        /\ pc[b] = "merge" => merged[b] = ChainDocs(chains[level[b]])

(* tp_score_documents gives up when total_docs is zero: then there is      *)
(* nothing to find.                                                        *)
CorpusCounted == Stored # {} => totalDocs > 0

(* What a scan has in hand is what the index holds. *)
ScanInv ==
    \A b \in Backends :
        /\ pc[b] = "score_seg" => hits[b] = MemtableHits
        /\ Answered(b) =>
              \/ result[b] = {} /\ totalDocs = 0
              \/ result[b] = MemtableHits \cup SegmentHits

StoreInv ==
    /\ StoredOnce
    /\ CountsMatchChains
    /\ FreshInv
    /\ SpillInv
    /\ CorpusCounted
    /\ ScanInv
=============================================================================
