--------------------------- MODULE CrashRecovery ---------------------------
(***************************************************************************)
(* Which documents an index still knows after the server has stopped.  The *)
(* memtable is in shared memory and is lost; the index file has a metapage,*)
(* docid pages (the CTIDs recovery re-reads from the heap) and segments.   *)
(* Every page exists as a buffer and as a disk image.  The extension       *)
(* writes no WAL for them: a disk image changes only when the code flushes *)
(* the buffer, or when a checkpoint or the background writer does.         *)
(*                                                                         *)
(* The per-index LWLock is held by a writer until its transaction ends, so *)
(* here one call runs at a time, on behalf of any backend; what makes      *)
(* several backends matter is the backend-local docid_writer_cache.        *)
(* A segment is one block: its header, which holds next_segment.           *)
(***************************************************************************)
EXTENDS Integers, FiniteSets

CONSTANTS Backends,
          Docs,
          NoDoc,
          NoBlock,           \* InvalidBlockNumber
          MaxBlocks,         \* bound: blocks of the index file, metapage excepted
          MaxLevels,         \* TP_MAX_LEVELS
          SegmentsPerLevel,  \* GUC segments_per_level
          SpillThreshold,    \* GUC memtable_spill_threshold, one posting a document
          DocidsPerPage,     \* TP_DOCIDS_PER_PAGE
          Crashes            \* may the server be killed?

ASSUME RecoveryAssumption ==
    /\ MaxBlocks \in Nat \ {0}
    /\ MaxLevels \in Nat \ {0, 1}
    /\ SegmentsPerLevel \in Nat \ {0, 1}
    /\ SpillThreshold \in Nat
    /\ DocidsPerPage \in Nat \ {0}
    /\ Crashes \in BOOLEAN
    /\ IsFiniteSet(Docs)
    /\ NoBlock \notin 1 .. MaxBlocks

Levels == 0 .. MaxLevels - 1
Blocks == 1 .. MaxBlocks
BlockNumber == Blocks \cup {NoBlock}

VARIABLES
    meta,        \* the metapage buffer
    diskMeta,    \* the metapage on disk
    page,        \* page[k]: the buffer of block k
    diskPage,    \* diskPage[k]: block k on disk
    nblocks,     \* length of the index file
    free,        \* the free space map
    memtable,    \* documents in the memtable
    totalDocs,   \* shared->total_docs
    cache,       \* cache[b]: page in b's docid_writer_cache, or NoBlock
    attached,    \* the shared index state exists
    pc, op, who, \* the call under way: its next step, kind and backend
    doc,         \* the document being inserted
    seg,         \* the segment being written
    level,       \* the level being compacted
    heap,        \* documents whose INSERT has begun
    committed    \* documents whose INSERT has committed

diskVars == <<diskMeta, diskPage>>
fileVars == <<meta, page, nblocks, free>>
memVars  == <<memtable, totalDocs, cache, attached>>
callVars == <<pc, op, who, doc, seg, level>>
heapVars == <<heap, committed>>
vars == <<diskVars, fileVars, memVars, callVars, heapVars>>

(* Pages: a block the file was extended by reads as zeros until written. *)
ZeroPage == [kind |-> "zero", docs |-> {}, next |-> NoBlock]
DocidPage(docs, next)   == [kind |-> "docid", docs |-> docs, next |-> next]
SegmentPage(docs, next) == [kind |-> "segment", docs |-> docs, next |-> next]

(* tp_init_metapage *)
EmptyMeta == [first  |-> NoBlock,
              heads  |-> [l \in Levels |-> NoBlock],
              counts |-> [l \in Levels |-> 0],
              docs   |-> 0]

Init ==
    /\ meta = EmptyMeta /\ diskMeta = EmptyMeta
    /\ page = [k \in Blocks |-> ZeroPage] /\ diskPage = page
    /\ nblocks = 0
    /\ free = {}
    /\ memtable = {} /\ totalDocs = 0
    /\ cache = [b \in Backends |-> NoBlock]
    /\ attached = TRUE
    /\ pc = "idle" /\ op = "none" /\ who \in Backends
    /\ doc = NoDoc /\ seg = NoBlock /\ level = 0
    /\ heap = {} /\ committed = {}

----------------------------------------------------------------------------
(* Chains of blocks *)

(* The blocks a walk along next meets, at most num of them. *)
FirstBlocks(pages, start, num) ==
    LET hop[n \in 0 .. MaxBlocks] ==
            IF n = 0 THEN start
            ELSE IF hop[n - 1] = NoBlock THEN NoBlock
            ELSE pages[hop[n - 1]].next
    IN  {hop[n] : n \in {i \in 0 .. MaxBlocks : i < num}} \ {NoBlock}

Reach(pages, start) == FirstBlocks(pages, start, MaxBlocks)

(* The segments a query opens. *)
LiveSegments(m, pages) == UNION {Reach(pages, m.heads[l]) : l \in Levels}

DocsOf(pages, blocks) == UNION {pages[k].docs : k \in blocks}

(* The last page of a docid chain. *)
LastPage(start) == CHOOSE k \in Reach(page, start) : page[k].next = NoBlock

(* GetFreeIndexPage, or else the next block of a longer file. *)
SegmentBlocks == IF free # {} THEN free ELSE {nblocks + 1} \cap Blocks

AllocateSegmentPage(k) ==
    /\ free' = free \ {k}
    /\ nblocks' = IF free # {} THEN nblocks ELSE k

(* FlushRelationBuffers *)
FlushRelation(pages) ==
    /\ diskPage' = pages
    /\ diskMeta' = meta

(* The metapage is changed and FlushOneBuffer writes it. *)
FlushMeta(m) ==
    /\ meta' = m
    /\ diskMeta' = m

----------------------------------------------------------------------------
(* INSERT: tp_insert, in a transaction of its own *)

(* Bound: a call needs at most a segment, a merged segment a level and a   *)
(* docid page.                                                             *)
RoomForCall == nblocks + MaxLevels + 1 <= MaxBlocks

StartInsert(b, d) ==
    /\ attached
    /\ pc = "idle"
    /\ RoomForCall
    /\ d \notin heap
    /\ heap' = heap \cup {d}
    /\ pc' = "add" /\ op' = "insert" /\ who' = b /\ doc' = d
    /\ UNCHANGED <<diskVars, fileVars, memVars, seg, level, committed>>

AddTerms ==
    /\ pc = "add"
    /\ memtable' = memtable \cup {doc}
    /\ totalDocs' = totalDocs + 1
    /\ pc' = IF SpillThreshold > 0 /\ Cardinality(memtable') >= SpillThreshold
             THEN "write" ELSE "docid"
    /\ UNCHANGED <<diskVars, fileVars, cache, attached, op, who, doc, seg,
                   level, heapVars>>

(* The docid writer may use its cached page: it is a docid page with room. *)
CacheUsable(b) ==
    /\ cache[b] # NoBlock
    /\ page[cache[b]].kind = "docid"
    /\ Cardinality(page[cache[b]].docs) < DocidsPerPage

(* The walk along the chain ends.  It does not when a crash has left a     *)
(* page of zeros in the chain: its next_page is then 0, the metapage,      *)
(* whose buffer lock the walker itself holds, and the call hangs.          *)
ChainReadable == \A k \in Reach(page, meta.first) : page[k].kind = "docid"

NeedsNewPage(last) == Cardinality(page[last].docs) >= DocidsPerPage

(* The docid goes to page k; a page that is now full is flushed. *)
StoreDocid(pages, k) ==
    LET stored == [pages EXCEPT ![k].docs = @ \cup {doc}]
    IN  /\ page' = stored
        /\ cache' = [cache EXCEPT ![who] = k]
        /\ pc' = "commit"

IsFull(k) == Cardinality(page'[k].docs) >= DocidsPerPage

AppendDocidCached ==
    /\ pc = "docid"
    /\ CacheUsable(who)
    /\ StoreDocid(page, cache[who])
    /\ diskPage' = IF IsFull(cache[who])
                   THEN [diskPage EXCEPT ![cache[who]] = page'[cache[who]]]
                   ELSE diskPage
    /\ UNCHANGED <<diskMeta, meta, nblocks, free, memtable, totalDocs, attached,
                   op, who, doc, seg, level, heapVars>>

(* No chain yet: a first page is made and the metapage that names it is    *)
(* flushed; the page itself is not.                                        *)
AppendDocidFirst ==
    LET k == nblocks + 1
    IN  /\ pc = "docid"
        /\ ~CacheUsable(who)
        /\ meta.first = NoBlock
        /\ k \in Blocks
        /\ nblocks' = k
        /\ FlushMeta([meta EXCEPT !.first = k])
        /\ StoreDocid([page EXCEPT ![k] = DocidPage({}, NoBlock)], k)
        /\ diskPage' = IF IsFull(k) THEN [diskPage EXCEPT ![k] = page'[k]]
                       ELSE diskPage
        /\ UNCHANGED <<free, memtable, totalDocs, attached, op, who, doc, seg,
                       level, heapVars>>

(* The chain is walked to its last page, which has room. *)
AppendDocidLast ==
    LET k == LastPage(meta.first)
    IN  /\ pc = "docid"
        /\ ~CacheUsable(who)
        /\ meta.first # NoBlock
        /\ ChainReadable
        /\ ~NeedsNewPage(k)
        /\ StoreDocid(page, k)
        /\ diskPage' = IF IsFull(k) THEN [diskPage EXCEPT ![k] = page'[k]]
                       ELSE diskPage
        /\ UNCHANGED <<diskMeta, meta, nblocks, free, memtable, totalDocs,
                       attached, op, who, doc, seg, level, heapVars>>

(* Mutant: the new page is not linked behind the last one. *)
AppendDocidUnlinked ==
    LET last == LastPage(meta.first)
        k    == nblocks + 1
    IN  /\ pc = "docid"
        /\ ~CacheUsable(who)
        /\ meta.first # NoBlock
        /\ ChainReadable
        /\ NeedsNewPage(last)
        /\ k \in Blocks
        /\ nblocks' = k
        /\ StoreDocid([page EXCEPT ![k] = DocidPage({}, NoBlock)], k)
        /\ UNCHANGED <<diskVars, meta, free, memtable, totalDocs, attached, op,
                       who, doc, seg, level, heapVars>>

(* The last page is full: a new page is linked behind it and the old one,  *)
(* with its new next pointer, is flushed.                                  *)
AppendDocidNew ==
    LET last == LastPage(meta.first)
        k    == nblocks + 1
    IN  /\ pc = "docid"
        /\ ~CacheUsable(who)
        /\ meta.first # NoBlock
        /\ ChainReadable
        /\ NeedsNewPage(last)
        /\ k \in Blocks
        /\ nblocks' = k
        /\ StoreDocid([page EXCEPT ![k] = DocidPage({}, NoBlock),
                                   ![last].next = k], k)
        /\ diskPage' = [diskPage EXCEPT
                            ![last] = page'[last],
                            ![k] = IF IsFull(k) THEN page'[k] ELSE @]
        /\ UNCHANGED <<diskMeta, meta, free, memtable, totalDocs, attached, op,
                       who, doc, seg, level, heapVars>>

EndCall ==
    /\ pc' = "idle" /\ op' = "none" /\ doc' = NoDoc /\ seg' = NoBlock
    /\ level' = 0
    /\ UNCHANGED who

(* The transaction commits; its heap tuple is durable. *)
Commit ==
    /\ pc = "commit"
    /\ committed' = committed \cup {doc}
    /\ EndCall
    /\ UNCHANGED <<diskVars, fileVars, memVars, heap>>

(* The transaction aborts: what it put into the index stays. *)
Rollback ==
    /\ pc = "commit"
    /\ EndCall
    /\ UNCHANGED <<diskVars, fileVars, memVars, heapVars>>

----------------------------------------------------------------------------
(* Spilling: tp_auto_spill_if_needed inside INSERT, or bm25_spill_index *)

StartSpill(b) ==
    /\ attached
    /\ pc = "idle"
    /\ RoomForCall
    /\ memtable # {}
    /\ pc' = "write" /\ op' = "spill" /\ who' = b
    /\ UNCHANGED <<diskVars, fileVars, memVars, doc, seg, level, heapVars>>

(* tp_write_segment fills its buffers ... *)
WriteSegment(k) ==
    /\ pc = "write"
    /\ k \in SegmentBlocks
    /\ AllocateSegmentPage(k)
    /\ page' = [page EXCEPT ![k] = SegmentPage(memtable, NoBlock)]
    /\ seg' = k
    /\ pc' = "flush"
    /\ UNCHANGED <<diskVars, meta, memVars, op, who, doc, level, heapVars>>

(* Mutant: the segment is left to the next checkpoint. *)
FlushSegmentLater ==
    /\ pc = "flush"
    /\ pc' = "clear"
    /\ UNCHANGED <<diskVars, fileVars, memVars, op, who, doc, seg, level, heapVars>>

(* ... and flushes the relation before it returns. *)
FlushSegment ==
    /\ pc = "flush"
    /\ FlushRelation(page)
    /\ pc' = "clear"
    /\ UNCHANGED <<fileVars, memVars, op, who, doc, seg, level, heapVars>>

(* Mutant: clearing the memtable takes its documents off the corpus counter. *)
ClearMemtableUncounts ==
    /\ pc = "clear"
    /\ memtable' = {}
    /\ totalDocs' = totalDocs - Cardinality(memtable)
    /\ pc' = IF op = "insert" THEN "clear_docids" ELSE "link"
    /\ UNCHANGED <<diskVars, fileVars, cache, attached, op, who, doc, seg,
                   level, heapVars>>

(* tp_clear_memtable at run time: the corpus counters survive. *)
ClearMemtable ==
    /\ pc = "clear"
    /\ memtable' = {}
    /\ pc' = IF op = "insert" THEN "clear_docids" ELSE "link"
    /\ UNCHANGED <<diskVars, fileVars, totalDocs, cache, attached, op, who,
                   doc, seg, level, heapVars>>

(* Only the auto-spill clears the docid chain, and only its own backend's  *)
(* docid_writer_cache.                                                     *)
ClearDocidPages ==
    /\ pc = "clear_docids"
    /\ FlushMeta([meta EXCEPT !.first = NoBlock])
    /\ cache' = [cache EXCEPT ![who] = NoBlock]
    /\ pc' = "link"
    /\ UNCHANGED <<diskPage, page, nblocks, free, memtable, totalDocs, attached,
                   op, who, doc, seg, level, heapVars>>

(* The new head's next pointer is dirty, the metapage is flushed. *)
LinkL0 ==
    /\ pc = "link"
    /\ page' = [page EXCEPT ![seg].next = meta.heads[0]]
    /\ FlushMeta([meta EXCEPT !.heads[0] = seg, !.counts[0] = @ + 1,
                              !.docs = totalDocs])
    /\ pc' = "compact"
    /\ UNCHANGED <<diskPage, nblocks, free, memVars, op, who, doc, seg, level,
                   heapVars>>

SourceBlocks == FirstBlocks(page, meta.heads[level], meta.counts[level])

MergeDue ==
    /\ level < MaxLevels - 1
    /\ meta.counts[level] >= SegmentsPerLevel
    /\ meta.heads[level] # NoBlock

(* tp_maybe_compact_level finds nothing to do. *)
StopCompaction ==
    /\ pc = "compact"
    /\ ~MergeDue
    /\ IF op = "insert"
       THEN /\ pc' = "docid" /\ seg' = NoBlock /\ level' = 0
            /\ UNCHANGED <<op, who, doc>>
       ELSE EndCall
    /\ UNCHANGED <<diskVars, fileVars, memVars, heapVars>>

(* The merged segment is written ... *)
MergeSegments(k) ==
    /\ pc = "compact"
    /\ MergeDue
    /\ k \in SegmentBlocks
    /\ AllocateSegmentPage(k)
    /\ page' = [page EXCEPT ![k] = SegmentPage(DocsOf(page, SourceBlocks), NoBlock)]
    /\ seg' = k
    /\ pc' = "merge_flush"
    /\ UNCHANGED <<diskVars, meta, memVars, op, who, doc, level, heapVars>>

(* ... flushed with the rest of the relation ... *)
FlushMerged ==
    /\ pc = "merge_flush"
    /\ FlushRelation(page)
    /\ pc' = "merge_link"
    /\ UNCHANGED <<fileVars, memVars, op, who, doc, seg, level, heapVars>>

(* Mutants: the source level keeps its chain; it is looked at again. *)
LinkMergedKeepsSource ==
    /\ pc = "merge_link"
    /\ page' = [page EXCEPT ![seg].next = meta.heads[level + 1]]
    /\ meta' = [meta EXCEPT !.heads[level + 1] = seg, !.counts[level + 1] = @ + 1]
    /\ free' = free \cup SourceBlocks
    /\ level' = level + 1
    /\ pc' = "compact"
    /\ UNCHANGED <<diskVars, nblocks, memVars, op, who, doc, seg, heapVars>>

LinkMergedInPlace ==
    /\ pc = "merge_link"
    /\ meta' = [meta EXCEPT !.heads[level] = seg]
    /\ free' = free \cup SourceBlocks
    /\ pc' = "compact"
    /\ UNCHANGED <<diskVars, page, nblocks, memVars, op, who, doc, seg, level, heapVars>>

(* ... and linked in a metapage that is only marked dirty, while the       *)
(* blocks of its sources become free at once.                              *)
LinkMerged ==
    /\ pc = "merge_link"
    /\ page' = [page EXCEPT ![seg].next = meta.heads[level + 1]]
    /\ meta' = [meta EXCEPT !.heads[level] = NoBlock, !.counts[level] = 0,
                            !.heads[level + 1] = seg, !.counts[level + 1] = @ + 1]
    /\ free' = free \cup SourceBlocks
    /\ level' = level + 1
    /\ pc' = "compact"
    /\ UNCHANGED <<diskVars, nblocks, memVars, op, who, doc, seg, heapVars>>

----------------------------------------------------------------------------
(* The server *)

(* A checkpoint or the background writer writes a dirty buffer. *)
WritePage(k) ==
    /\ Crashes
    /\ diskPage[k] # page[k]
    /\ diskPage' = [diskPage EXCEPT ![k] = page[k]]
    /\ UNCHANGED <<diskMeta, fileVars, memVars, callVars, heapVars>>

WriteMeta ==
    /\ Crashes
    /\ diskMeta # meta
    /\ diskMeta' = meta
    /\ UNCHANGED <<diskPage, fileVars, memVars, callVars, heapVars>>

ForgetSharedMemory ==
    /\ memtable' = {}
    /\ totalDocs' = 0
    /\ cache' = [b \in Backends |-> NoBlock]
    /\ attached' = FALSE

(* An orderly shutdown writes every buffer. *)
Restart ==
    /\ pc = "idle"
    /\ FlushRelation(page)
    /\ ForgetSharedMemory
    /\ UNCHANGED <<fileVars, callVars, heapVars>>

(* The server dies between two steps; the free space map, which nothing    *)
(* flushes, may or may not have reached the disk (an image of it that is   *)
(* older than its last change is left out).                                *)
Crash ==
    /\ Crashes
    /\ page' = diskPage
    /\ meta' = diskMeta
    /\ free' \in {free, {}}
    /\ ForgetSharedMemory
    /\ EndCall
    /\ UNCHANGED <<diskVars, nblocks, heapVars>>

DocidBlocks == Reach(page, meta.first)

NothingToRecover ==
    meta.docs = 0 /\ meta.first = NoBlock /\ meta.heads[0] = NoBlock

(* tp_rebuild_index_from_disk, at the first access after a start: the      *)
(* docids whose tuples the heap still has are indexed again, then          *)
(* total_docs is taken from the metapage.  Tuples of transactions that     *)
(* did not commit may have survived in the heap.                           *)
Recover ==
    /\ ~attached
    /\ ChainReadable
    /\ \E survivors \in SUBSET (heap \ committed) :
          memtable' = DocsOf(page, DocidBlocks) \cap (committed \cup survivors)
    /\ totalDocs' = IF NothingToRecover THEN 0 ELSE meta.docs
    /\ attached' = TRUE
    /\ UNCHANGED <<diskVars, fileVars, cache, callVars, heapVars>>

(* The pages recovery has read when it meets the one it cannot read, which *)
(* is the last of the chain.                                               *)
ReadableBlocks ==
    {k \in DocidBlocks : page[k].kind = "docid"}

(* A page without the docid magic makes recovery raise an ERROR, after the *)
(* fresh shared state has been registered: the next access finds that      *)
(* state, with what was indexed so far, counted twice.                     *)
RecoverFails ==
    /\ ~attached
    /\ ~ChainReadable
    /\ \E survivors \in SUBSET (heap \ committed) :
          memtable' = DocsOf(page, ReadableBlocks) \cap (committed \cup survivors)
    /\ totalDocs' = 2 * Cardinality(memtable')
    /\ attached' = TRUE
    /\ UNCHANGED <<diskVars, fileVars, cache, callVars, heapVars>>

CallStep ==
    \/ AddTerms
    \/ AppendDocidCached \/ AppendDocidFirst \/ AppendDocidLast \/ AppendDocidNew
    \/ \E k \in Blocks : WriteSegment(k) \/ MergeSegments(k)
    \/ FlushSegment \/ ClearMemtable \/ ClearDocidPages \/ LinkL0
    \/ StopCompaction \/ FlushMerged \/ LinkMerged
    \/ Commit \/ Rollback

Next ==
    \/ \E b \in Backends : StartSpill(b) \/ \E d \in Docs : StartInsert(b, d)
    \/ CallStep
    \/ \E k \in Blocks : WritePage(k)
    \/ WriteMeta \/ Restart \/ Crash
    \/ Recover \/ RecoverFails

Spec == Init /\ [][Next]_vars

(* A backend inside a call runs on. *)
FairSpec == Spec /\ WF_vars(CallStep)

----------------------------------------------------------------------------
(* Properties *)

PageType == [kind : {"zero", "docid", "segment"},
             docs : SUBSET Docs,
             next : BlockNumber]

MetaType == [first  : BlockNumber,
             heads  : [Levels -> BlockNumber],
             counts : [Levels -> Nat],
             docs   : Nat]

Steps == {"idle", "add", "docid", "commit", "write", "flush", "clear",
          "clear_docids", "link", "compact", "merge_flush", "merge_link"}

(* Every variable has its type. *)
TypeOK ==
    /\ meta \in MetaType /\ diskMeta \in MetaType
    /\ page \in [Blocks -> PageType] /\ diskPage \in [Blocks -> PageType]
    /\ nblocks \in 0 .. MaxBlocks
    /\ free \subseteq Blocks
    /\ memtable \subseteq Docs
    /\ totalDocs \in Nat
    /\ cache \in [Backends -> BlockNumber]
    /\ attached \in BOOLEAN
    /\ pc \in Steps
    /\ op \in {"none", "insert", "spill"}
    /\ who \in Backends
    /\ doc \in Docs \cup {NoDoc}
    /\ seg \in BlockNumber
    /\ level \in Levels
    /\ heap \subseteq Docs
    /\ committed \subseteq heap

(* What the index holds, and what a query answers: nothing at all when     *)
(* the corpus counter is zero.                                             *)
SegmentDocs == DocsOf(page, LiveSegments(meta, page))
Stored == memtable \cup SegmentDocs
Found == IF totalDocs <= 0 THEN {} ELSE Stored

Settled == attached /\ pc = "idle"

(* Whatever restarts and recoveries there have been, a running index holds *)
(* every document whose INSERT has committed.                              *)
CommittedStored == Settled => committed \subseteq Stored

(* ... and a query finds it. *)
CommittedFound == Settled => committed \subseteq Found

(* Recovery indexes no document again that a segment already holds.        *)
IndexedOnce == Settled => memtable \cap SegmentDocs = {}

(* A block in the free space map belongs to no live segment: the next      *)
(* segment written cannot overwrite one.                                   *)
FreeBlocksNotLive == free \cap LiveSegments(meta, page) = {}

(* Whenever the server dies, the metapage on disk names as its L0 head a   *)
(* segment whose pages have reached the disk, and never one of which only  *)
(* the buffers were filled.                                                *)
DiskHeadComplete ==
    diskMeta.heads[0] # NoBlock =>
        /\ diskPage[diskMeta.heads[0]].kind = "segment"
        /\ diskPage[diskMeta.heads[0]].docs # {}

(* The docid chain on disk never leads into a segment: recovery cannot     *)
(* take postings for CTIDs.                                                *)
DiskDocidsSound ==
    \A k \in Reach(diskPage, diskMeta.first) : diskPage[k].kind # "segment"

(* What a crash at this moment would leave can be read back: the head of   *)
(* L0 and the docid chain lead where recovery and queries expect.          *)
DiskSound == DiskHeadComplete /\ DiskDocidsSound

(* A call that has begun ends. *)
CallsReturn == pc # "idle" ~> pc = "idle"
=============================================================================
