------------------------- MODULE SharedIndexProofs -------------------------
(***************************************************************************)
(* Theorems about SharedIndex for every number of backends, documents and  *)
(* levels, every threshold and every assignment of terms to documents.     *)
(***************************************************************************)
EXTENDS SharedIndex, SegmentProofs

(***************************************************************************)
(* Type correctness.  TypeOK alone is not inductive: which step a call is  *)
(* at decides whether doc[b] is a document and level[b] + 1 a level.       *)
(***************************************************************************)
TypeInv == TypeOK /\ CallInv

(* The hits a scan collects are triples of a document and a place. *)
LEMMA HitsType ==
    ASSUME TypeOK
    PROVE  MemtableHits \subseteq Hits /\ SegmentHits \subseteq Hits
  <1>1. MemtableHits \subseteq Hits
    BY DEF TypeOK, MemtableHits, Hits
  <1>2. ASSUME NEW l \in Levels, NEW i \in DOMAIN chains[l], NEW d \in chains[l][i]
        PROVE  <<d, l, i>> \in Hits
    <2>1. chains[l] \in Seq(Segments) /\ i \in 1 .. Len(chains[l])
      BY DEF TypeOK
    <2>2. chains[l][i] \in Segments /\ i \in Int
      BY <2>1
    <2> QED BY <1>2, <2>2 DEF Levels, Segments, Hits
  <1>3. SegmentHits \subseteq Hits
    BY <1>2 DEF SegmentHits
  <1> QED BY <1>1, <1>3

(* What a call starts from, and what it leaves when it fails. *)
LEMMA InitialLocals == {} \in Segments /\ 0 \in Levels /\ {} \in SUBSET Hits
  BY LevelsAssumption DEF Segments, Levels

(* Releasing the lock keeps its types. *)
LEMMA ReleaseType ==
    ASSUME TypeOK, NEW b \in Backends, ReleaseIndexLock(b)
    PROVE  /\ lockOwner' \subseteq Backends
           /\ lockSharers' \subseteq Backends
           /\ lockMode' \in [Backends -> {NoLock, "shared", "excl"}]
  BY DEF TypeOK, ReleaseIndexLock, LWLockRelease

(* A step preserves it: one case for each action of Next. *)
LEMMA TypeStep ==
    ASSUME TypeInv, [Next]_vars
    PROVE  TypeInv'
  <1> USE SharedIndexAssumption, LevelsAssumption
  <1> USE DEF TypeInv, TypeOK, CallInv, GoTo, CallSteps, Calls, NoOp, NoLock,
              callVars, lockVars, memVars, metaVars, spillVars, scanVars
  <1>1. ASSUME NEW b \in Backends, AddTerms(b) PROVE TypeInv'
    <2>1. DocTerms[doc[b]] \in Nat /\ doc[b] \in Docs
      BY <1>1 DEF AddTerms
    <2>2. TypeOK'
      BY <1>1, <2>1 DEF AddTerms
    <2>3. CallInv'
      BY <1>1, SMTT(30) DEF AddTerms
    <2> QED BY <2>2, <2>3
  <1>2. ASSUME NEW b \in Backends, SkipDocument(b) PROVE TypeInv'
    BY <1>2 DEF SkipDocument
  <1>3. ASSUME NEW b \in Backends, WriteSegment(b) PROVE TypeInv'
    BY <1>3 DEF WriteSegment, Segments
  <1>4. ASSUME NEW b \in Backends, NothingToSpill(b) PROVE TypeInv'
    BY <1>4 DEF NothingToSpill
  <1>5. ASSUME NEW b \in Backends, ClearMemtable(b) PROVE TypeInv'
    BY <1>5 DEF ClearMemtable
  <1>6. ASSUME NEW b \in Backends, LinkL0(b) PROVE TypeInv'
    <2>1. chains \in ChainsType /\ 0 \in Levels /\ pending[b] \in Segments
      BY InitialLocals DEF ChainsType
    <2>2. LinkSegment(chains, 0, pending[b]) \in ChainsType
      BY <2>1, LinkSegmentDocs
    <2>3. chains' \in [Levels -> Seq(Segments)]
      BY <1>6, <2>2 DEF LinkL0, ChainsType
    <2>4. counts' \in [Levels -> Nat]
      BY <1>6, <2>1 DEF LinkL0, CountSegment
    <2>5. TypeOK'
      BY <1>6, <2>3, <2>4, InitialLocals DEF LinkL0
    <2>6. CallInv'
      BY <1>6 DEF LinkL0
    <2> QED BY <2>5, <2>6
  <1>7. ASSUME NEW b \in Backends, MergeLevel(b) PROVE TypeInv'
    <2> DEFINE docs == ChainDocs(MergeSources(chains[level[b]], counts[level[b]]))
    <2>1. docs \in Segments BY MergeSourcesType
    <2>2. level[b] < MaxLevels - 1
      BY <1>7 DEF MergeLevel, NeedsCompaction
    <2>3. merged' = [merged EXCEPT ![b] = docs]
      BY <1>7 DEF MergeLevel
    <2> HIDE DEF docs
    <2> QED BY <1>7, <2>1, <2>2, <2>3 DEF MergeLevel
  <1>8. ASSUME NEW b \in Backends, LinkMerged(b) PROVE TypeInv'
    <2>1. level[b] \in Levels /\ level[b] + 1 \in Levels
      <3>1. level[b] \in Levels /\ level[b] < MaxLevels - 1
        BY <1>8 DEF LinkMerged
      <3> QED BY <3>1, NextLevel, Zenon
    <2>2. chains \in ChainsType /\ merged[b] \in Segments
      BY DEF ChainsType
    <2>3. ReplaceLevel(chains, level[b], merged[b]) \in ChainsType
      BY <2>1, <2>2, ReplaceLevelValue
    <2>4. chains' \in [Levels -> Seq(Segments)]
      BY <1>8, <2>3 DEF LinkMerged, ChainsType
    <2>5. counts' \in [Levels -> Nat]
      BY <1>8, <2>1, RecountLevelValue DEF LinkMerged
    <2> QED BY <1>8, <2>1, <2>4, <2>5, InitialLocals, SMTT(30) DEF LinkMerged
  <1>9. ASSUME NEW b \in Backends, StopCompaction(b) PROVE TypeInv'
    BY <1>9, InitialLocals DEF StopCompaction
  <1>10. ASSUME NEW b \in Backends, ScoreMemtable(b) PROVE TypeInv'
    <2>1. hits' = [hits EXCEPT ![b] = MemtableHits]
      BY <1>10 DEF ScoreMemtable
    <2>2. hits' \in [Backends -> SUBSET Hits]
      BY <2>1, HitsType
    <2>3. TypeOK'
      BY <1>10, <2>2 DEF ScoreMemtable
    <2>4. CallInv'
      BY <1>10 DEF ScoreMemtable
    <2> QED BY <2>3, <2>4
  <1>11. ASSUME NEW b \in Backends, EmptyCorpus(b) PROVE TypeInv'
    BY <1>11, InitialLocals DEF EmptyCorpus
  <1>12. ASSUME NEW b \in Backends, ScoreSegments(b) PROVE TypeInv'
    BY <1>12, HitsType, InitialLocals DEF ScoreSegments
  <1>13. ASSUME NEW b \in Backends, ReturnInsert(b) PROVE TypeInv'
    BY <1>13 DEF ReturnInsert, EndCall
  <1>14. ASSUME NEW b \in Backends, ReturnAndRelease(b) PROVE TypeInv'
    <2>1. ReleaseIndexLock(b)
      BY <1>14 DEF ReturnAndRelease
    <2>2. TypeOK'
      BY <1>14, <2>1, ReleaseType, InitialLocals DEF ReturnAndRelease, EndCall
    <2>3. CallInv'
      BY <1>14 DEF ReturnAndRelease, EndCall
    <2> QED BY <2>2, <2>3
  <1>15. ASSUME NEW b \in Backends, Commit(b) PROVE TypeInv'
    <2>1. ReleaseIndexLock(b)
      BY <1>15 DEF Commit
    <2>2. TypeOK'
      BY <1>15, <2>1, ReleaseType, InitialLocals, SMTT(30) DEF Commit, EndCall
    <2>3. CallInv'
      BY <1>15 DEF Commit, EndCall
    <2> QED BY <2>2, <2>3
  <1>16. ASSUME NEW b \in Backends, NEW d \in Docs, StartInsert(b, d) PROVE TypeInv'
    BY <1>16 DEF StartInsert, StartStatement
  <1>17. ASSUME NEW b \in Backends, StartSpill(b) PROVE TypeInv'
    BY <1>17 DEF StartSpill, StartStatement
  <1>18. ASSUME NEW b \in Backends, StartScan(b) PROVE TypeInv'
    BY <1>18 DEF StartScan, StartStatement
  <1>19. ASSUME NEW b \in Backends, PreCommit(b) PROVE TypeInv'
    BY <1>19 DEF PreCommit
  <1>20. ASSUME NEW b \in Backends, Prepare(b) PROVE TypeInv'
    BY <1>20 DEF Prepare
  <1>21. ASSUME NEW b \in Backends, AcquireHeld(b) PROVE TypeInv'
    BY <1>21, SMTT(30) DEF AcquireHeld, FirstStep
  <1>22. ASSUME NEW b \in Backends, AcquireGranted(b) PROVE TypeInv'
    BY <1>22, SMTT(30) DEF AcquireGranted, LWLockAcquire, WantedMode, FirstStep
  <1>23. ASSUME NEW b \in Backends, AcquireUpgrade(b) PROVE TypeInv'
    <2>1. CASE LWLockHeldByMe(b)
      <3>1. /\ lockOwner' = lockOwner \ {b}
            /\ lockSharers' = lockSharers \ {b}
            /\ lockMode' = [lockMode EXCEPT ![b] = NoLock]
            /\ UNCHANGED <<callVars, termsAdded, memVars, metaVars, spillVars, scanVars>>
        BY <1>23, <2>1 DEF AcquireUpgrade, LWLockRelease
      <3> QED BY <3>1
    <2>2. CASE ~LWLockHeldByMe(b)
      <3>1. AbortXact(b) BY <1>23, <2>2 DEF AcquireUpgrade
      <3> QED
        BY <3>1, InitialLocals DEF AbortXact, DropCall, EndCall, LWLockRelease
    <2> QED BY <2>1, <2>2
  <1>24. ASSUME NEW b \in Backends, Abort(b) PROVE TypeInv'
    BY <1>24, InitialLocals DEF Abort, AbortXact, DropCall, EndCall,
       LWLockRelease
  <1>25. ASSUME NEW b \in Backends, SubXactAbort(b) PROVE TypeInv'
    BY <1>25, InitialLocals DEF SubXactAbort, DropCall, EndCall, LWLockRelease
  <1>26. CASE UNCHANGED vars
    BY <1>26 DEF vars
  <1> QED
    BY <1>1, <1>2, <1>3, <1>4, <1>5, <1>6, <1>7, <1>8, <1>9, <1>10, <1>11,
       <1>12, <1>13, <1>14, <1>15, <1>16, <1>17, <1>18, <1>19, <1>20, <1>21,
       <1>22, <1>23, <1>24, <1>25, <1>26
       DEF Next, CallStep, ClientStep

LEMMA TypeInvariant == Spec => []TypeInv
  <1>1. Init => TypeInv
    BY SharedIndexAssumption, LevelsAssumption
       DEF Init, TypeInv, TypeOK, CallInv, EmptyChains, ZeroCounts, Levels,
           Segments, Calls, NoOp, NoLock
  <1>2. TypeInv /\ [Next]_vars => TypeInv'
    BY TypeStep
  <1> QED BY <1>1, <1>2, PTL DEF Spec

(* Type correctness: every state of every behaviour of the index has the   *)
(* types TypeOK gives its variables.                                       *)
THEOREM TypeCorrect == Spec => []TypeOK
  <1>1. TypeInv => TypeOK
    BY DEF TypeInv
  <1> QED BY <1>1, TypeInvariant, PTL

----------------------------------------------------------------------------
(***************************************************************************)
(* The lock protocol, in the configurations where it is sound.             *)
(***************************************************************************)
LEMMA LockStep ==
    ASSUME SafeConfig, TypeInv, LockInv, [Next]_vars
    PROVE  LockInv'
  <1> USE SharedIndexAssumption, LevelsAssumption
  <1> USE DEF TypeInv, TypeOK, CallInv, LockInv, GoTo, NoOp, NoLock, Answered,
              Mutating, Spilling, callVars, lockVars, memVars, metaVars, spillVars, scanVars
  <1>1. ASSUME NEW b \in Backends, AddTerms(b) PROVE LockInv'
    BY <1>1, SMTT(30) DEF AddTerms
  <1>2. ASSUME NEW b \in Backends, SkipDocument(b) PROVE LockInv'
    BY <1>2 DEF SkipDocument
  <1>3. ASSUME NEW b \in Backends, WriteSegment(b) PROVE LockInv'
    BY <1>3 DEF WriteSegment
  <1>4. ASSUME NEW b \in Backends, NothingToSpill(b) PROVE LockInv'
    BY <1>4 DEF NothingToSpill
  <1>5. ASSUME NEW b \in Backends, ClearMemtable(b) PROVE LockInv'
    BY <1>5 DEF ClearMemtable
  <1>6. ASSUME NEW b \in Backends, LinkL0(b) PROVE LockInv'
    BY <1>6 DEF LinkL0
  <1>7. ASSUME NEW b \in Backends, MergeLevel(b) PROVE LockInv'
    BY <1>7 DEF MergeLevel
  <1>8. ASSUME NEW b \in Backends, LinkMerged(b) PROVE LockInv'
    BY <1>8 DEF LinkMerged
  <1>9. ASSUME NEW b \in Backends, StopCompaction(b) PROVE LockInv'
    BY <1>9 DEF StopCompaction
  <1>10. ASSUME NEW b \in Backends, ScoreMemtable(b) PROVE LockInv'
    BY <1>10 DEF ScoreMemtable
  <1>11. ASSUME NEW b \in Backends, EmptyCorpus(b) PROVE LockInv'
    BY <1>11 DEF EmptyCorpus
  <1>12. ASSUME NEW b \in Backends, ScoreSegments(b) PROVE LockInv'
    BY <1>12 DEF ScoreSegments
  <1>13. ASSUME NEW b \in Backends, ReturnInsert(b) PROVE LockInv'
    BY <1>13 DEF ReturnInsert, EndCall
  <1>14. ASSUME NEW b \in Backends, ReturnAndRelease(b) PROVE LockInv'
    BY <1>14 DEF ReturnAndRelease, EndCall, ReleaseIndexLock, LWLockRelease,
       LWLockHeldByMe
  <1>15. ASSUME NEW b \in Backends, Commit(b) PROVE LockInv'
    BY <1>15 DEF Commit, EndCall, ReleaseIndexLock, LWLockRelease,
       LWLockHeldByMe
  <1>16. ASSUME NEW b \in Backends, NEW d \in Docs, StartInsert(b, d) PROVE LockInv'
    BY <1>16 DEF StartInsert, StartStatement
  <1>17. ASSUME NEW b \in Backends, StartSpill(b) PROVE LockInv'
    BY <1>17 DEF StartSpill, StartStatement, SafeConfig
  <1>18. ASSUME NEW b \in Backends, StartScan(b) PROVE LockInv'
    BY <1>18 DEF StartScan, StartStatement, SafeConfig
  <1>19. ASSUME NEW b \in Backends, PreCommit(b) PROVE LockInv'
    BY <1>19 DEF PreCommit
  <1>20. ASSUME NEW b \in Backends, Prepare(b) PROVE LockInv'
    BY <1>20 DEF Prepare, SafeConfig
  <1>21. ASSUME NEW b \in Backends, AcquireHeld(b) PROVE LockInv'
    BY <1>21, SMTT(30) DEF AcquireHeld, FirstStep, LockSufficient, WantedMode
  <1>22. ASSUME NEW b \in Backends, AcquireGranted(b) PROVE LockInv'
    BY <1>22, SMTT(30) DEF AcquireGranted, LWLockAcquire, WantedMode, FirstStep
  <1>23. ASSUME NEW b \in Backends, AcquireUpgrade(b) PROVE LockInv'
    BY <1>23, SMTT(30) DEF AcquireUpgrade, LockSufficient, LWLockHeldByMe, LWLockRelease,
       WantedMode
  <1>24. ASSUME NEW b \in Backends, Abort(b) PROVE LockInv'
    BY <1>24 DEF Abort, AbortXact, DropCall, EndCall, LWLockRelease
  <1>25. ASSUME NEW b \in Backends, SubXactAbort(b) PROVE LockInv'
    BY <1>25 DEF SubXactAbort, SafeConfig
  <1>26. CASE UNCHANGED vars
    BY <1>26 DEF vars
  <1> QED
    BY <1>1, <1>2, <1>3, <1>4, <1>5, <1>6, <1>7, <1>8, <1>9, <1>10, <1>11,
       <1>12, <1>13, <1>14, <1>15, <1>16, <1>17, <1>18, <1>19, <1>20, <1>21,
       <1>22, <1>23, <1>24, <1>25, <1>26
       DEF Next, CallStep, ClientStep

LEMMA LockInvariant ==
    ASSUME SafeConfig
    PROVE  Spec => []LockInv
  <1>1. Init => LockInv
    BY DEF Init, LockInv, NoLock, NoOp, Answered, Mutating, Spilling
  <1>2. TypeInv /\ LockInv /\ [Next]_vars => LockInv'
    BY LockStep
  <1> QED BY <1>1, <1>2, TypeInvariant, PTL DEF Spec

(* No backend adds, spills, clears, links or merges unless it alone owns   *)
(* the index's LWLock, and none scores while another owns it.              *)
THEOREM LockDiscipline ==
    ASSUME SafeConfig
    PROVE  Spec => []ExclusiveWrites
  <1>1. TypeInv /\ LockInv => ExclusiveWrites
    BY DEF TypeInv, TypeOK, LockInv, ExclusiveWrites, LWLockHeldByMe, NoLock
  <1> QED BY <1>1, TypeInvariant, LockInvariant, PTL

----------------------------------------------------------------------------
(***************************************************************************)
(* What the index holds.  Under the exclusive lock a backend is alone with     *)
(* the memtable and the chains, so what it has in hand (SpillInv, ScanInv) *)
(* stays true of them while it works.                                      *)
(***************************************************************************)

(* The exclusive owner is the only backend that works on the index. *)
LEMMA Alone ==
    ASSUME TypeInv, LockInv, NEW b \in Backends, pc[b] \in Mutating
    PROVE  \A c \in Backends \ {b} :
              /\ pc[c] \notin Mutating
              /\ pc[c] \notin {"score_mem", "score_seg"}
              /\ ~Answered(c)
  BY DEF TypeInv, TypeOK, LockInv, NoLock

(* Only the spill of the exclusive owner can be in flight. *)
LEMMA InFlightIsMine ==
    ASSUME TypeInv, LockInv, NEW b \in Backends, pc[b] \in Mutating
    PROVE  /\ pc[b] = "link" => InFlight = pending[b]
           /\ pc[b] # "link" => InFlight = {}
  <1>1. \A c \in Backends \ {b} : pc[c] # "link"
    BY Alone DEF Mutating, Spilling
  <1>2. CASE pc[b] = "link"
    <2>1. {c \in Backends : pc[c] = "link"} = {b}
      BY <1>1, <1>2
    <2> QED BY <1>2, <2>1 DEF InFlight
  <1>3. CASE pc[b] # "link"
    <2>1. {c \in Backends : pc[c] = "link"} = {}
      BY <1>1, <1>3
    <2> QED BY <1>3, <2>1 DEF InFlight
  <1> QED BY <1>2, <1>3

(* A step that leaves the contents of the index alone, and one that in     *)
(* addition brings no document.                                            *)
KeepsContents ==
    /\ UNCHANGED <<memtable, chains, counts, totalDocs>>
    /\ \A c \in Backends :
          /\ pc'[c] = "link" <=> pc[c] = "link"
          /\ pc[c] = "link" => pending'[c] = pending[c]

Quiet ==
    /\ KeepsContents
    /\ UNCHANGED heap
    /\ \A c \in Backends : Arriving(c)' => Arriving(c) /\ doc'[c] = doc[c]

LEMMA KeepsStored ==
    ASSUME KeepsContents
    PROVE  /\ InFlight' = InFlight
           /\ Stored' = Stored
           /\ MemtableHits' = MemtableHits
           /\ SegmentHits' = SegmentHits
  <1>1. {c \in Backends : pc'[c] = "link"} = {c \in Backends : pc[c] = "link"}
    BY DEF KeepsContents
  <1>2. \A c \in {e \in Backends : pc[e] = "link"} : pending'[c] = pending[c]
    BY DEF KeepsContents
  <1>3. InFlight' = InFlight
    BY <1>1, <1>2, Zenon DEF InFlight
  <1>4. memtable' = memtable /\ chains' = chains
    BY DEF KeepsContents
  <1>5. Stored' = Stored
    BY <1>3, <1>4 DEF Stored
  <1>6. MemtableHits' = MemtableHits
    BY <1>4 DEF MemtableHits
  <1>7. SegmentHits' = SegmentHits
    BY <1>4 DEF SegmentHits
  <1> QED BY <1>3, <1>5, <1>6, <1>7

LEMMA QuietStored ==
    ASSUME Quiet
    PROVE  /\ InFlight' = InFlight
           /\ Stored' = Stored
           /\ MemtableHits' = MemtableHits
           /\ SegmentHits' = SegmentHits
  BY KeepsStored DEF Quiet

LEMMA QuietStep ==
    ASSUME StoreInv, Quiet, SpillInv', ScanInv'
    PROVE  StoreInv' /\ Stored' = Stored
  <1>1. memtable' = memtable /\ chains' = chains /\ counts' = counts
        /\ totalDocs' = totalDocs /\ heap' = heap
    BY DEF Quiet, KeepsContents
  <1>2. StoredOnce'
    BY <1>1, QuietStored DEF StoreInv, StoredOnce
  <1>3. CountsMatchChains'
    BY <1>1 DEF StoreInv, CountsMatchChains
  <1>4. FreshInv'
    BY <1>1, QuietStored DEF StoreInv, FreshInv, Quiet
  <1>5. CorpusCounted'
    BY <1>1, QuietStored DEF StoreInv, CorpusCounted
  <1> QED BY <1>2, <1>3, <1>4, <1>5, QuietStored DEF StoreInv

(* One lemma for each kind of step.  First the steps that only move a call *)
(* forward.                                                                *)
LEMMA QuietSteps ==
    ASSUME SafeConfig, TypeInv, LockInv, StoreInv, NEW b \in Backends,
           \/ SkipDocument(b) \/ WriteSegment(b) \/ NothingToSpill(b)
           \/ MergeLevel(b) \/ StopCompaction(b)
           \/ ScoreMemtable(b) \/ EmptyCorpus(b) \/ ScoreSegments(b)
           \/ ReturnInsert(b) \/ ReturnAndRelease(b) \/ Commit(b)
           \/ StartSpill(b) \/ StartScan(b) \/ PreCommit(b) \/ Prepare(b)
           \/ AcquireHeld(b) \/ AcquireGranted(b) \/ AcquireUpgrade(b)
           \/ Abort(b) \/ SubXactAbort(b)
    PROVE  StoreInv' /\ Stored' = Stored
  <1> USE SharedIndexAssumption, LevelsAssumption
  <1> USE DEF TypeInv, TypeOK, CallInv, GoTo, NoOp, callVars, lockVars, memVars,
              metaVars, spillVars, scanVars
  <1>1. CASE SkipDocument(b)
    <2>1. Quiet
      BY <1>1 DEF SkipDocument, Quiet, KeepsContents, Arriving
    <2>2. SpillInv'
      BY <1>1 DEF SkipDocument, StoreInv, SpillInv
    <2>3. ScanInv'
      BY <1>1, <2>1, QuietStored DEF SkipDocument, StoreInv, ScanInv, Answered
    <2> QED BY <2>1, <2>2, <2>3, QuietStep
  <1>2. CASE WriteSegment(b)
    <2>1. Quiet
      BY <1>2 DEF WriteSegment, Quiet, KeepsContents, Arriving
    <2>2. SpillInv'
      BY <1>2 DEF WriteSegment, StoreInv, SpillInv
    <2>3. ScanInv'
      BY <1>2, <2>1, QuietStored DEF WriteSegment, StoreInv, ScanInv, Answered
    <2> QED BY <2>1, <2>2, <2>3, QuietStep
  <1>3. CASE NothingToSpill(b)
    <2>1. Quiet
      BY <1>3 DEF NothingToSpill, Quiet, KeepsContents, Arriving
    <2>2. SpillInv'
      BY <1>3 DEF NothingToSpill, StoreInv, SpillInv
    <2>3. ScanInv'
      BY <1>3, <2>1, QuietStored DEF NothingToSpill, StoreInv, ScanInv, Answered
    <2> QED BY <2>1, <2>2, <2>3, QuietStep
  <1>4. CASE MergeLevel(b)
    <2>1. Quiet
      BY <1>4 DEF MergeLevel, Quiet, KeepsContents, Arriving
    <2>2. counts[level[b]] = Len(chains[level[b]]) /\ chains[level[b]] \in Seq(Segments)
      BY DEF StoreInv, CountsMatchChains
    <2>3. MergeSources(chains[level[b]], counts[level[b]]) = chains[level[b]]
      BY <2>2, MergeSourcesAll
    <2>4. merged'[b] = ChainDocs(chains[level[b]])
      BY <1>4, <2>3 DEF MergeLevel
    <2>5. SpillInv'
      BY <1>4, <2>4 DEF MergeLevel, StoreInv, SpillInv
    <2>6. ScanInv'
      BY <1>4, <2>1, QuietStored DEF MergeLevel, StoreInv, ScanInv, Answered
    <2> QED BY <2>1, <2>5, <2>6, QuietStep
  <1>5. CASE StopCompaction(b)
    <2>1. Quiet
      BY <1>5 DEF StopCompaction, Quiet, KeepsContents, Arriving
    <2>2. SpillInv'
      BY <1>5 DEF StopCompaction, StoreInv, SpillInv
    <2>3. ScanInv'
      BY <1>5, <2>1, QuietStored DEF StopCompaction, StoreInv, ScanInv, Answered
    <2> QED BY <2>1, <2>2, <2>3, QuietStep
  <1>6. CASE ScoreMemtable(b)
    <2>1. Quiet
      BY <1>6 DEF ScoreMemtable, Quiet, KeepsContents, Arriving
    <2>2. SpillInv'
      BY <1>6 DEF ScoreMemtable, StoreInv, SpillInv
    <2>3. ScanInv'
      BY <1>6, <2>1, QuietStored DEF ScoreMemtable, StoreInv, ScanInv, Answered
    <2> QED BY <2>1, <2>2, <2>3, QuietStep
  <1>7. CASE EmptyCorpus(b)
    <2>1. Quiet
      BY <1>7 DEF EmptyCorpus, Quiet, KeepsContents, Arriving
    <2>2. SpillInv'
      BY <1>7 DEF EmptyCorpus, StoreInv, SpillInv
    <2>3. totalDocs' = 0 /\ op'[b] = "scan"
      BY <1>7 DEF EmptyCorpus
    <2>4. pc'[b] = "done" /\ result'[b] = {}
      BY <1>7 DEF EmptyCorpus
    <2>5. \A c \in Backends \ {b} :
             pc'[c] = pc[c] /\ op'[c] = op[c] /\ result'[c] = result[c] /\ hits'[c] = hits[c]
      BY <1>7 DEF EmptyCorpus
    <2>6. totalDocs' = totalDocs
      BY <2>1 DEF Quiet, KeepsContents
    <2>7. ASSUME NEW c \in Backends
          PROVE  /\ pc'[c] = "score_seg" => hits'[c] = MemtableHits'
                 /\ Answered(c)' =>
                       \/ result'[c] = {} /\ totalDocs' = 0
                       \/ result'[c] = MemtableHits' \cup SegmentHits'
      <3>1. CASE c = b
        BY <3>1, <2>3, <2>4
      <3>2. CASE c # b
        BY <3>2, <2>1, <2>5, <2>6, QuietStored DEF StoreInv, ScanInv, Answered
      <3> QED BY <3>1, <3>2
    <2>8. ScanInv'
      BY <2>7 DEF ScanInv
    <2> QED BY <2>1, <2>2, <2>8, QuietStep
  <1>8. CASE ScoreSegments(b)
    <2>1. Quiet
      BY <1>8 DEF ScoreSegments, Quiet, KeepsContents, Arriving
    <2>2. SpillInv'
      BY <1>8 DEF ScoreSegments, StoreInv, SpillInv
    <2>3. ScanInv'
      BY <1>8, <2>1, QuietStored DEF ScoreSegments, StoreInv, ScanInv, Answered
    <2> QED BY <2>1, <2>2, <2>3, QuietStep
  <1>9. CASE ReturnInsert(b)
    <2>1. Quiet
      BY <1>9 DEF ReturnInsert, EndCall, Quiet, KeepsContents, Arriving
    <2>2. SpillInv'
      BY <1>9 DEF ReturnInsert, EndCall, StoreInv, SpillInv
    <2>3. ScanInv'
      BY <1>9, <2>1, QuietStored DEF ReturnInsert, EndCall, StoreInv, ScanInv,
         Answered
    <2> QED BY <2>1, <2>2, <2>3, QuietStep
  <1>10. CASE ReturnAndRelease(b)
    <2>1. Quiet
      BY <1>10 DEF ReturnAndRelease, EndCall, Quiet, KeepsContents, Arriving
    <2>2. SpillInv'
      BY <1>10 DEF ReturnAndRelease, EndCall, StoreInv, SpillInv
    <2>3. ScanInv'
      BY <1>10, <2>1, QuietStored DEF ReturnAndRelease, EndCall, StoreInv,
         ScanInv, Answered
    <2> QED BY <2>1, <2>2, <2>3, QuietStep
  <1>11. CASE Commit(b)
    <2>1. Quiet
      BY <1>11 DEF Commit, EndCall, Quiet, KeepsContents, Arriving
    <2>2. SpillInv'
      BY <1>11 DEF Commit, EndCall, StoreInv, SpillInv
    <2>3. ScanInv'
      BY <1>11, <2>1, QuietStored DEF Commit, EndCall, StoreInv, ScanInv,
         Answered
    <2> QED BY <2>1, <2>2, <2>3, QuietStep
  <1>12. CASE StartSpill(b)
    <2>1. Quiet
      BY <1>12 DEF StartSpill, StartStatement, Quiet, KeepsContents, Arriving
    <2>2. SpillInv'
      BY <1>12 DEF StartSpill, StartStatement, StoreInv, SpillInv
    <2>3. ScanInv'
      BY <1>12, <2>1, QuietStored DEF StartSpill, StartStatement, StoreInv,
         ScanInv, Answered
    <2> QED BY <2>1, <2>2, <2>3, QuietStep
  <1>13. CASE StartScan(b)
    <2>1. Quiet
      BY <1>13 DEF StartScan, StartStatement, Quiet, KeepsContents, Arriving
    <2>2. SpillInv'
      BY <1>13 DEF StartScan, StartStatement, StoreInv, SpillInv
    <2>3. ScanInv'
      BY <1>13, <2>1, QuietStored DEF StartScan, StartStatement, StoreInv,
         ScanInv, Answered
    <2> QED BY <2>1, <2>2, <2>3, QuietStep
  <1>14. CASE PreCommit(b)
    <2>1. Quiet
      BY <1>14 DEF PreCommit, Quiet, KeepsContents, Arriving
    <2>2. SpillInv'
      BY <1>14 DEF PreCommit, StoreInv, SpillInv
    <2>3. ScanInv'
      BY <1>14, <2>1, QuietStored DEF PreCommit, StoreInv, ScanInv, Answered
    <2> QED BY <2>1, <2>2, <2>3, QuietStep
  <1>15. CASE Prepare(b)
    <2>1. Quiet
      BY <1>15 DEF Prepare, Quiet, KeepsContents, Arriving
    <2>2. SpillInv'
      BY <1>15 DEF Prepare, StoreInv, SpillInv
    <2>3. ScanInv'
      BY <1>15, <2>1, QuietStored DEF Prepare, StoreInv, ScanInv, Answered
    <2> QED BY <2>1, <2>2, <2>3, QuietStep
  <1>16. CASE AcquireHeld(b)
    <2>1. Quiet
      BY <1>16 DEF AcquireHeld, FirstStep, Quiet, KeepsContents, Arriving
    <2>2. SpillInv'
      BY <1>16 DEF AcquireHeld, FirstStep, StoreInv, SpillInv
    <2>3. ScanInv'
      BY <1>16, <2>1, QuietStored DEF AcquireHeld, FirstStep, StoreInv, ScanInv,
         Answered
    <2> QED BY <2>1, <2>2, <2>3, QuietStep
  <1>17. CASE AcquireGranted(b)
    <2>1. Quiet
      BY <1>17 DEF AcquireGranted, FirstStep, Quiet, KeepsContents, Arriving
    <2>2. SpillInv'
      BY <1>17 DEF AcquireGranted, FirstStep, StoreInv, SpillInv
    <2>3. ScanInv'
      BY <1>17, <2>1, QuietStored DEF AcquireGranted, FirstStep, StoreInv,
         ScanInv, Answered
    <2> QED BY <2>1, <2>2, <2>3, QuietStep
  <1>18. CASE AcquireUpgrade(b)
    <2>1. LWLockHeldByMe(b)
      BY <1>18 DEF AcquireUpgrade, LockInv, LWLockHeldByMe
    <2>2. UNCHANGED <<callVars, termsAdded, memVars, metaVars, spillVars, scanVars>>
      BY <1>18, <2>1 DEF AcquireUpgrade
    <2>3. Quiet
      BY <2>2 DEF Quiet, KeepsContents, Arriving
    <2>4. SpillInv'
      BY <2>2 DEF StoreInv, SpillInv
    <2>5. ScanInv'
      BY <2>2, <2>3, QuietStored DEF StoreInv, ScanInv, Answered
    <2> QED BY <2>3, <2>4, <2>5, QuietStep
  <1>19. CASE Abort(b)
    <2>1. Quiet
      BY <1>19 DEF Abort, AbortXact, DropCall, EndCall, MayFail, SafeConfig,
         Quiet, KeepsContents, Arriving
    <2>2. SpillInv'
      BY <1>19 DEF Abort, AbortXact, DropCall, EndCall, MayFail, SafeConfig,
         StoreInv, SpillInv
    <2>3. ScanInv'
      BY <1>19, <2>1, QuietStored DEF Abort, AbortXact, DropCall, EndCall,
         MayFail, SafeConfig, StoreInv, ScanInv, Answered
    <2> QED BY <2>1, <2>2, <2>3, QuietStep
  <1>20. CASE SubXactAbort(b)
    BY <1>20 DEF SubXactAbort, SafeConfig
  <1> QED
    BY <1>1, <1>2, <1>3, <1>4, <1>5, <1>6, <1>7, <1>8, <1>9, <1>10, <1>11,
       <1>12, <1>13, <1>14, <1>15, <1>16, <1>17, <1>18, <1>19, <1>20

(* tp_insert is called for a new heap tuple. *)
LEMMA StartInsertStep ==
    ASSUME TypeInv, StoreInv, NEW b \in Backends, NEW d \in Docs, StartInsert(b, d)
    PROVE  StoreInv' /\ Stored' = Stored
  <1> USE DEF TypeInv, TypeOK, CallInv, StartInsert, StartStatement, GoTo, NoOp,
              lockVars, memVars, metaVars, spillVars, scanVars
  <1>1. KeepsContents
    BY DEF KeepsContents
  <1>2. StoredOnce' /\ CountsMatchChains'
    BY <1>1, KeepsStored DEF StoreInv, StoredOnce, CountsMatchChains,
       KeepsContents
  <1>3. CorpusCounted'
    BY <1>1, KeepsStored DEF StoreInv, CorpusCounted, KeepsContents
  <1>4. SpillInv'
    BY DEF StoreInv, SpillInv
  <1>5. ScanInv'
    BY <1>1, KeepsStored DEF StoreInv, ScanInv, Answered, KeepsContents
  <1>6. FreshInv'
    <2>1. Stored' = Stored /\ heap' = heap \cup {d} /\ d \notin heap
      BY <1>1, KeepsStored
    <2>2. Stored \subseteq heap
      BY DEF StoreInv, FreshInv
    <2>3. doc'[b] = d /\ \A c \in Backends \ {b} :
             /\ doc'[c] = doc[c]
             /\ Arriving(c)' => Arriving(c) /\ doc[c] \in heap /\ doc[c] \notin Stored
      BY DEF StoreInv, FreshInv, Arriving
    <2>4. \A c, e \in Backends \ {b} : Arriving(c)' /\ Arriving(e)' /\ c # e =>
             doc'[c] # doc'[e]
      BY <2>3 DEF StoreInv, FreshInv
    <2>5. \A c \in Backends : Arriving(c)' => doc'[c] \in heap' /\ doc'[c] \notin Stored'
      BY <2>1, <2>2, <2>3, Zenon
    <2>6. ASSUME NEW c \in Backends, NEW e \in Backends, Arriving(c)', Arriving(e)', c # e
          PROVE  doc'[c] # doc'[e]
      <3>1. CASE c = b
        BY <2>1, <2>3, <2>6, <3>1
      <3>2. CASE e = b
        BY <2>1, <2>3, <2>6, <3>2
      <3>3. CASE c # b /\ e # b
        BY <2>4, <2>6, <3>3
      <3> QED BY <3>1, <3>2, <3>3
    <2> QED BY <2>1, <2>2, <2>5, <2>6, Zenon DEF FreshInv
  <1> QED BY <1>1, <1>2, <1>3, <1>4, <1>5, <1>6, KeepsStored DEF StoreInv

(* What a step of the exclusive owner means for the calls of the others:   *)
(* none of them has anything in hand.                                      *)
LEMMA OwnerStep ==
    ASSUME TypeInv, LockInv, StoreInv, NEW b \in Backends, pc[b] \in Mutating,
           \A c \in Backends \ {b} : pc'[c] = pc[c],
           pc'[b] \notin {"clear", "merge", "score_seg"},
           pc'[b] = "link" => memtable' = {},
           op' = op
    PROVE  /\ SpillInv'
           /\ ScanInv'
           /\ pc'[b] = "link" => InFlight' = pending'[b]
           /\ pc'[b] # "link" => InFlight' = {}
  <1>1. \A c \in Backends \ {b} :
           pc'[c] \notin {"clear", "link", "merge", "score_seg"}
    BY Alone DEF Mutating, Spilling
  <1>2. SpillInv'
    BY <1>1 DEF SpillInv
  <1>3. \A c \in Backends : ~Answered(c)'
    BY Alone DEF Answered, Mutating, Spilling, TypeInv, CallInv
  <1>4. ScanInv'
    BY <1>1, <1>3 DEF ScanInv
  <1>5. ASSUME pc'[b] = "link" PROVE InFlight' = pending'[b]
    <2>1. {c \in Backends : pc'[c] = "link"} = {b}
      BY <1>1, <1>5
    <2> QED BY <2>1 DEF InFlight
  <1>6. ASSUME pc'[b] # "link" PROVE InFlight' = {}
    <2>1. {c \in Backends : pc'[c] = "link"} = {}
      BY <1>1, <1>6
    <2> QED BY <2>1 DEF InFlight
  <1> QED BY <1>2, <1>4, <1>5, <1>6

(* Moving documents within the index disturbs no document on its way in. *)
LEMMA FreshKept ==
    ASSUME StoreInv, Stored' = Stored, heap' = heap, doc' = doc,
           \A c \in Backends : Arriving(c)' => Arriving(c)
    PROVE  FreshInv'
  BY DEF StoreInv, FreshInv

LEMMA AddTermsStep ==
    ASSUME TypeInv, LockInv, StoreInv, NEW b \in Backends, AddTerms(b)
    PROVE  /\ StoreInv'
           /\ Stored' = Stored \cup {doc[b]}
           /\ doc[b] \notin Stored
           /\ doc[b] \in Docs
  <1> USE DEF TypeInv, TypeOK, CallInv, GoTo, CallSteps, lockVars, metaVars,
              spillVars, scanVars
  <1>1. pc[b] = "add" /\ pc[b] \in Mutating /\ doc[b] \in Docs /\ Arriving(b)
    BY DEF AddTerms, Mutating, Arriving
  <1>2. InFlight = {}
    BY <1>1, InFlightIsMine
  <1>3. /\ pc'[b] \notin {"clear", "merge", "score_seg", "link"}
        /\ \A c \in Backends \ {b} : pc'[c] = pc[c]
    BY DEF AddTerms
  <1>4. hits' = hits /\ result' = result /\ chains' = chains /\ counts' = counts
        /\ heap' = heap /\ doc' = doc /\ op' = op
    BY DEF AddTerms
  <1>5. SpillInv' /\ ScanInv' /\ InFlight' = {}
    BY <1>1, <1>3, <1>4, OwnerStep
  <1>6. memtable' = memtable \cup {doc[b]}
    BY DEF AddTerms
  <1>7. Stored' = Stored \cup {doc[b]}
    BY <1>2, <1>4, <1>5, <1>6 DEF Stored
  <1>8. doc[b] \notin Stored /\ doc[b] \in heap /\ Stored \subseteq heap
    BY <1>1 DEF StoreInv, FreshInv
  <1>9. StoredOnce'
    BY <1>4, <1>5, <1>6, <1>8 DEF StoreInv, StoredOnce, Stored
  <1>10. CountsMatchChains'
    BY <1>4 DEF StoreInv, CountsMatchChains
  <1>11. FreshInv'
    <2>1. ~Arriving(b)' /\ \A c \in Backends : Arriving(c)' => Arriving(c)
      BY <1>3, <1>4, SharedIndexAssumption DEF Arriving, AddTerms
    <2>2. \A c \in Backends : Arriving(c)' => doc[c] # doc[b] /\ doc[c] \notin Stored /\ doc[c] \in heap
      BY <1>1, <2>1 DEF StoreInv, FreshInv
    <2>3. \A c, e \in Backends : Arriving(c)' /\ Arriving(e)' /\ c # e => doc'[c] # doc'[e]
      BY <1>4, <2>1 DEF StoreInv, FreshInv
    <2> QED BY <1>4, <1>7, <1>8, <2>2, <2>3, Zenon DEF FreshInv
  <1>12. CorpusCounted'
    BY DEF AddTerms, CorpusCounted
  <1> QED BY <1>1, <1>5, <1>7, <1>8, <1>9, <1>10, <1>11, <1>12 DEF StoreInv

LEMMA ClearMemtableStep ==
    ASSUME TypeInv, LockInv, StoreInv, NEW b \in Backends, ClearMemtable(b)
    PROVE  StoreInv' /\ Stored' = Stored
  <1> USE DEF TypeInv, TypeOK, GoTo, CallSteps, lockVars, metaVars, spillVars, scanVars
  <1>1. pc[b] = "clear" /\ pc[b] \in Mutating
    BY DEF ClearMemtable, Mutating, Spilling
  <1>2. InFlight = {}
    BY <1>1, InFlightIsMine
  <1>3. pc'[b] = "link" /\ \A c \in Backends \ {b} : pc'[c] = pc[c]
    BY DEF ClearMemtable
  <1>4. hits' = hits /\ result' = result /\ chains' = chains /\ counts' = counts
        /\ heap' = heap /\ doc' = doc /\ op' = op /\ totalDocs' = totalDocs
        /\ pending' = pending /\ memtable' = {}
    BY DEF ClearMemtable
  <1>5. SpillInv' /\ ScanInv' /\ InFlight' = pending[b]
    BY <1>1, <1>3, <1>4, OwnerStep
  <1>6. pending[b] = memtable
    BY <1>1 DEF StoreInv, SpillInv
  <1>7. Stored' = Stored
    BY <1>2, <1>4, <1>5, <1>6 DEF Stored
  <1>8. StoredOnce'
    BY <1>4, <1>5, <1>6 DEF StoreInv, StoredOnce
  <1>9. CountsMatchChains'
    BY <1>4 DEF StoreInv, CountsMatchChains
  <1>10. FreshInv'
    <2>1. \A c \in Backends : Arriving(c)' => Arriving(c)
      BY <1>3, <1>4 DEF Arriving
    <2> QED BY <1>4, <1>7, <2>1, FreshKept
  <1>11. CorpusCounted'
    BY <1>4, <1>7 DEF StoreInv, CorpusCounted
  <1> QED BY <1>5, <1>7, <1>8, <1>9, <1>10, <1>11 DEF StoreInv

LEMMA LinkL0Step ==
    ASSUME TypeInv, LockInv, StoreInv, NEW b \in Backends, LinkL0(b)
    PROVE  StoreInv' /\ Stored' = Stored
  <1> USE DEF TypeInv, TypeOK, GoTo, CallSteps, lockVars, memVars, scanVars
  <1>1. pc[b] = "link" /\ pc[b] \in Mutating
    BY DEF LinkL0, Mutating, Spilling
  <1>2. InFlight = pending[b] /\ memtable = {}
    BY <1>1, InFlightIsMine DEF StoreInv, SpillInv
  <1>3. pc'[b] = "compact" /\ \A c \in Backends \ {b} : pc'[c] = pc[c]
    BY DEF LinkL0
  <1>4. hits' = hits /\ result' = result /\ memtable' = memtable
        /\ heap' = heap /\ doc' = doc /\ op' = op /\ totalDocs' = totalDocs
    BY DEF LinkL0
  <1>5. SpillInv' /\ ScanInv' /\ InFlight' = {}
    BY <1>1, <1>3, <1>4, OwnerStep
  <1>6. chains \in ChainsType /\ 0 \in Levels /\ pending[b] \in Segments
    BY InitialLocals DEF ChainsType
  <1>7. chains' = LinkSegment(chains, 0, pending[b])
    BY DEF LinkL0
  <1>8. pending[b] \cap LinkedDocs(chains) = {} /\ SegmentsDisjoint(chains)
    BY <1>2 DEF StoreInv, StoredOnce
  <1>9. LinkedDocs(chains') = pending[b] \cup LinkedDocs(chains)
    BY <1>6, <1>7, LinkSegmentDocs
  <1>10. SegmentsDisjoint(chains')
    BY <1>6, <1>7, <1>8, LinkSegmentDisjoint
  <1>11. Stored' = Stored
    BY <1>2, <1>4, <1>5, <1>9 DEF Stored
  <1>12. StoredOnce'
    BY <1>2, <1>4, <1>5, <1>10 DEF StoredOnce
  <1>13. CountsMatchChains'
    <2>1. counts'[0] = counts[0] + 1 /\ \A l \in Levels \ {0} : counts'[l] = counts[l]
      BY <1>6 DEF LinkL0, CountSegment
    <2>2. chains'[0] = <<pending[b]>> \o chains[0] /\ \A l \in Levels \ {0} : chains'[l] = chains[l]
      BY <1>6, <1>7 DEF LinkSegment
    <2>3. Len(chains'[0]) = Len(chains[0]) + 1
      BY <1>6, <2>2, ConsChain
    <2> QED BY <1>6, <2>1, <2>2, <2>3 DEF StoreInv, CountsMatchChains
  <1>14. FreshInv'
    <2>1. \A c \in Backends : Arriving(c)' => Arriving(c)
      BY <1>3, <1>4 DEF Arriving
    <2> QED BY <1>4, <1>11, <2>1, FreshKept
  <1>15. CorpusCounted'
    BY <1>4, <1>11 DEF StoreInv, CorpusCounted
  <1> QED BY <1>5, <1>11, <1>12, <1>13, <1>14, <1>15 DEF StoreInv

LEMMA LinkMergedStep ==
    ASSUME TypeInv, LockInv, StoreInv, NEW b \in Backends, LinkMerged(b)
    PROVE  StoreInv' /\ Stored' = Stored
  <1> USE DEF TypeInv, TypeOK, GoTo, CallSteps, lockVars, memVars, scanVars
  <1>1. pc[b] = "merge" /\ pc[b] \in Mutating
    BY DEF LinkMerged, Mutating, Spilling
  <1>2. InFlight = {} /\ merged[b] = ChainDocs(chains[level[b]])
    BY <1>1, InFlightIsMine DEF StoreInv, SpillInv
  <1>3. pc'[b] = "compact" /\ \A c \in Backends \ {b} : pc'[c] = pc[c]
    BY DEF LinkMerged
  <1>4. hits' = hits /\ result' = result /\ memtable' = memtable
        /\ heap' = heap /\ doc' = doc /\ op' = op /\ totalDocs' = totalDocs
    BY DEF LinkMerged
  <1>5. SpillInv' /\ ScanInv' /\ InFlight' = {}
    BY <1>1, <1>3, <1>4, OwnerStep
  <1>6. chains \in ChainsType /\ level[b] \in Levels /\ level[b] + 1 \in Levels
        /\ merged[b] \in Segments
    BY <1>1, LevelsAssumption DEF ChainsType, CallInv, Levels
  <1>7. chains' = ReplaceLevel(chains, level[b], merged[b])
    BY DEF LinkMerged
  <1>8. SegmentsDisjoint(chains)
    BY DEF StoreInv, StoredOnce
  <1>9. LinkedDocs(chains') = LinkedDocs(chains) /\ SegmentsDisjoint(chains')
    BY <1>2, <1>6, <1>7, <1>8, ReplaceLevelDocs
  <1>10. Stored' = Stored
    BY <1>2, <1>4, <1>5, <1>9 DEF Stored
  <1>11. StoredOnce'
    BY <1>4, <1>5, <1>9 DEF StoreInv, StoredOnce
  <1>12. CountsMatchChains'
    <2>1. /\ counts'[level[b]] = 0
          /\ counts'[level[b] + 1] = counts[level[b] + 1] + 1
          /\ \A l \in Levels \ {level[b], level[b] + 1} : counts'[l] = counts[l]
      <3>1. counts' = RecountLevel(counts, level[b])
        BY DEF LinkMerged
      <3>2. counts \in [Levels -> Nat]
        OBVIOUS
      <3>3. /\ RecountLevel(counts, level[b])[level[b]] = 0
            /\ RecountLevel(counts, level[b])[level[b] + 1] = counts[level[b] + 1] + 1
            /\ \A l \in Levels \ {level[b], level[b] + 1} :
                  RecountLevel(counts, level[b])[l] = counts[l]
        BY <1>6, <3>2, RecountLevelValue, Zenon
      <3> QED BY <3>1, <3>3, Zenon
    <2>2. /\ chains'[level[b]] = <<>>
          /\ chains'[level[b] + 1] = <<merged[b]>> \o chains[level[b] + 1]
          /\ \A l \in Levels \ {level[b], level[b] + 1} : chains'[l] = chains[l]
      BY <1>6, <1>7, ReplaceLevelValue, SMTT(30)
    <2>3. Len(chains'[level[b] + 1]) = Len(chains[level[b] + 1]) + 1
      BY <1>6, <2>2, ConsChain
    <2>4. Len(chains'[level[b]]) = 0
      BY <2>2
    <2> QED BY <1>6, <2>1, <2>2, <2>3, <2>4 DEF StoreInv, CountsMatchChains
  <1>13. FreshInv'
    <2>1. \A c \in Backends : Arriving(c)' => Arriving(c)
      BY <1>3, <1>4 DEF Arriving
    <2> QED BY <1>4, <1>10, <2>1, FreshKept
  <1>14. CorpusCounted'
    BY <1>4, <1>10 DEF StoreInv, CorpusCounted
  <1> QED BY <1>5, <1>10, <1>11, <1>12, <1>13, <1>14 DEF StoreInv

(* Every step of the index keeps the invariant, and changes its contents   *)
(* only by adding a document it did not hold.                              *)
LEMMA StoreStep ==
    ASSUME SafeConfig, TypeInv, LockInv, StoreInv, [Next]_vars
    PROVE  /\ StoreInv'
           /\ \/ Stored' = Stored
              \/ \E b \in Backends :
                    AddTerms(b) /\ doc[b] \in Docs \ Stored /\ Stored' = Stored \cup {doc[b]}
  <1>1. ASSUME NEW b \in Backends, AddTerms(b)
        PROVE  /\ StoreInv'
               /\ doc[b] \in Docs \ Stored /\ Stored' = Stored \cup {doc[b]}
    BY <1>1, AddTermsStep
  <1>2. ASSUME NEW b \in Backends, ClearMemtable(b) \/ LinkL0(b) \/ LinkMerged(b)
        PROVE  StoreInv' /\ Stored' = Stored
    BY <1>2, ClearMemtableStep, LinkL0Step, LinkMergedStep
  <1>3. ASSUME NEW b \in Backends, NEW d \in Docs, StartInsert(b, d)
        PROVE  StoreInv' /\ Stored' = Stored
    BY <1>3, StartInsertStep
  <1>4. CASE UNCHANGED vars
    <2>1. Quiet /\ UNCHANGED <<pc, op, pending, level, merged, hits, result>>
      BY <1>4 DEF vars, callVars, memVars, metaVars, spillVars, scanVars, Quiet,
                  KeepsContents, Arriving
    <2>2. SpillInv'
      BY <2>1 DEF StoreInv, SpillInv, Quiet, KeepsContents
    <2>3. ScanInv'
      BY <2>1, QuietStored DEF StoreInv, ScanInv, Answered, Quiet, KeepsContents
    <2> QED BY <2>1, <2>2, <2>3, QuietStep
  <1> QED
    BY <1>1, <1>2, <1>3, <1>4, QuietSteps DEF Next, CallStep, ClientStep

LEMMA StoreInvariant ==
    ASSUME SafeConfig
    PROVE  Spec => []StoreInv
  <1>1. Init => StoreInv
    <2> SUFFICES ASSUME Init PROVE StoreInv
      OBVIOUS
    <2>1. InFlight = {}
      BY DEF Init, InFlight
    <2>2. LinkedDocs(chains) = {} /\ SegmentsDisjoint(chains)
      BY DEF Init, EmptyChains, LinkedDocs, ChainDocs, SegmentsDisjoint
    <2>3. CountsMatchChains
      BY DEF Init, EmptyChains, ZeroCounts, CountsMatchChains
    <2>4. Stored = {}
      BY <2>1, <2>2 DEF Init, Stored
    <2> QED BY <2>1, <2>2, <2>3, <2>4
         DEF Init, StoreInv, StoredOnce, FreshInv, Arriving, SpillInv, CorpusCounted,
             ScanInv, NoOp
  <1>2. TypeInv /\ LockInv /\ StoreInv /\ [Next]_vars => StoreInv'
    BY StoreStep
  <1> QED BY <1>1, <1>2, TypeInvariant, LockInvariant, PTL DEF Spec

(* No document is ever stored twice, in the memtable and a segment or in   *)
(* two segments.                                                           *)
THEOREM NoDuplicates ==
    ASSUME SafeConfig
    PROVE  Spec => []StoredOnce
  <1>1. StoreInv => StoredOnce
    BY DEF StoreInv
  <1> QED BY <1>1, StoreInvariant, PTL

(* level_counts is the length of its chain at every step, so a merge takes *)
(* the whole chain it replaces.                                            *)
THEOREM CountsExact ==
    ASSUME SafeConfig
    PROVE  Spec => []CountsMatchChains
  <1>1. StoreInv => CountsMatchChains
    BY DEF StoreInv
  <1> QED BY <1>1, StoreInvariant, PTL

(* No spill, merge, commit, abort or error loses a document. *)
THEOREM NothingLost ==
    ASSUME SafeConfig
    PROVE  Spec => DocsNeverLost
  <1>1. TypeInv /\ LockInv /\ StoreInv /\ [Next]_vars => [Stored \subseteq Stored']_vars
    BY StoreStep
  <1> QED
    BY <1>1, TypeInvariant, LockInvariant, StoreInvariant, PTL DEF Spec,
       DocsNeverLost

----------------------------------------------------------------------------
(***************************************************************************)
(* Scans, and the abstract specification.                                  *)
(***************************************************************************)

(* A complete scan finds what the memtable and the chains hold. *)
LEMMA HitDocs ==
    {h[1] : h \in MemtableHits \cup SegmentHits} = memtable \cup LinkedDocs(chains)
  <1>1. {h[1] : h \in MemtableHits} = memtable
    <2>1. \A h \in MemtableHits : h[1] \in memtable
      BY DEF MemtableHits
    <2>2. \A d \in memtable : <<d, 0, 0>> \in MemtableHits /\ <<d, 0, 0>>[1] = d
      BY DEF MemtableHits
    <2> QED BY <2>1, <2>2, Zenon
  <1>2. {h[1] : h \in SegmentHits} \subseteq LinkedDocs(chains)
    BY DEF SegmentHits, LinkedDocs, ChainDocs
  <1>3. ASSUME NEW d \in LinkedDocs(chains)
        PROVE  d \in {h[1] : h \in SegmentHits}
    <2>1. PICK l \in Levels : d \in ChainDocs(chains[l])
      BY DEF LinkedDocs
    <2>2. PICK i \in DOMAIN chains[l] : d \in chains[l][i]
      BY <2>1 DEF ChainDocs
    <2>3. <<d, l, i>> \in SegmentHits
      BY <2>2 DEF SegmentHits
    <2>4. <<d, l, i>>[1] = d
      OBVIOUS
    <2> QED BY <2>3, <2>4, Zenon
  <1> QED BY <1>1, <1>2, <1>3

(* It finds each document at one place. *)
LEMMA HitsUnique ==
    ASSUME TypeOK, memtable \cap LinkedDocs(chains) = {}, SegmentsDisjoint(chains),
           NEW h \in MemtableHits \cup SegmentHits,
           NEW g \in MemtableHits \cup SegmentHits,
           h[1] = g[1]
    PROVE  h = g
  <1>1. ASSUME NEW k \in SegmentHits
        PROVE  \E l \in Levels : \E i \in DOMAIN chains[l] :
                  /\ k = <<k[1], l, i>>
                  /\ k[1] \in chains[l][i]
                  /\ k[1] \in LinkedDocs(chains)
    BY DEF SegmentHits, LinkedDocs, ChainDocs
  <1>2. \A k \in MemtableHits : k = <<k[1], 0, 0>> /\ k[1] \in memtable
    BY DEF MemtableHits
  <1>3. CASE h \in MemtableHits /\ g \in MemtableHits
    BY <1>2, <1>3
  <1>4. CASE h \in SegmentHits /\ g \in SegmentHits
    <2>1. PICK l \in Levels : \E i \in DOMAIN chains[l] :
             h = <<h[1], l, i>> /\ h[1] \in chains[l][i]
      BY <1>1, <1>4
    <2>2. PICK i \in DOMAIN chains[l] : h = <<h[1], l, i>> /\ h[1] \in chains[l][i]
      BY <2>1
    <2>3. PICK m \in Levels : \E j \in DOMAIN chains[m] :
             g = <<g[1], m, j>> /\ g[1] \in chains[m][j]
      BY <1>1, <1>4
    <2>4. PICK j \in DOMAIN chains[m] : g = <<g[1], m, j>> /\ g[1] \in chains[m][j]
      BY <2>3
    <2>5. l = m /\ i = j
      BY <2>2, <2>4 DEF SegmentsDisjoint
    <2> QED BY <2>2, <2>4, <2>5
  <1>5. CASE h \in MemtableHits /\ g \in SegmentHits
    BY <1>1, <1>2, <1>5
  <1>6. CASE h \in SegmentHits /\ g \in MemtableHits
    BY <1>1, <1>2, <1>6
  <1> QED BY <1>3, <1>4, <1>5, <1>6

LEMMA ScanFindsAll ==
    ASSUME TypeInv, LockInv, StoreInv
    PROVE  ScanExact
  <1> SUFFICES ASSUME NEW b \in Backends, Answered(b)
               PROVE  /\ {h[1] : h \in result[b]} = Stored
                      /\ \A h, g \in result[b] : h[1] = g[1] => h = g
    BY DEF ScanExact
  <1>1. \A c \in Backends : pc[c] # "link"
    BY Alone DEF Mutating, Spilling, Answered
  <1>3. InFlight = {}
    <2>1. {c \in Backends : pc[c] = "link"} = {}
      BY <1>1
    <2> QED BY <2>1 DEF InFlight
  <1>4. Stored = memtable \cup LinkedDocs(chains)
    BY <1>3 DEF Stored
  <1>5. CASE result[b] = {} /\ totalDocs = 0
    <2>1. Stored = {}
      BY <1>5 DEF StoreInv, CorpusCounted
    <2> QED BY <1>5, <2>1
  <1>6. CASE result[b] = MemtableHits \cup SegmentHits
    <2>1. {h[1] : h \in result[b]} = Stored
      BY <1>4, <1>6, HitDocs
    <2>2. memtable \cap LinkedDocs(chains) = {} /\ SegmentsDisjoint(chains) /\ TypeOK
      BY DEF StoreInv, StoredOnce, TypeInv
    <2>3. \A h, g \in result[b] : h[1] = g[1] => h = g
      BY <1>6, <2>2, HitsUnique
    <2> QED BY <2>1, <2>3
  <1> QED BY <1>5, <1>6 DEF StoreInv, ScanInv

(* A scan returns every document of the index, and each of them once. *)
THEOREM ScansExact ==
    ASSUME SafeConfig
    PROVE  Spec => []ScanExact
  <1>1. TypeInv /\ LockInv /\ StoreInv => ScanExact
    BY ScanFindsAll
  <1> QED BY <1>1, TypeInvariant, LockInvariant, StoreInvariant, PTL

(* The answers the abstract index sees, and how a step changes them. *)
Answers == [b \in Backends |->
               IF Answered(b) THEN {h[1] : h \in result[b]} ELSE NoAnswer]

(* The answer of c is as it was. *)
AnswerKept(c) == (Answered(c)' <=> Answered(c)) /\ result'[c] = result[c]

LEMMA AnswersKept ==
    ASSUME \A c \in Backends : AnswerKept(c) \/ (~Answered(c) /\ ~Answered(c)')
    PROVE  Answers' = Answers
  BY Zenon DEF Answers, AnswerKept

LEMMA AnswerGone ==
    ASSUME NEW b \in Backends, \A c \in Backends \ {b} : AnswerKept(c), ~Answered(b)'
    PROVE  Answers' = [Answers EXCEPT ![b] = NoAnswer]
  BY Zenon DEF Answers, AnswerKept

LEMMA AnswerFound ==
    ASSUME NEW b \in Backends, \A c \in Backends \ {b} : AnswerKept(c), Answered(b)',
           {h[1] : h \in result'[b]} = Stored
    PROVE  Answers' = [Answers EXCEPT ![b] = Stored]
  BY Zenon DEF Answers, AnswerKept

(* A step adds a document, or answers one query, or ends one, or changes   *)
(* nothing that the abstract index sees.                                   *)
LEMMA RefinementStep ==
    ASSUME SafeConfig, TypeInv, LockInv, StoreInv, ScanExact', [Next]_vars
    PROVE  \/ \E d \in Docs :
                 d \notin Stored /\ Stored' = Stored \cup {d} /\ Answers' = Answers
           \/ \E b \in Backends :
                 /\ Stored' = Stored
                 /\ \/ Answers' = [Answers EXCEPT ![b] = Stored]
                    \/ Answers' = [Answers EXCEPT ![b] = NoAnswer]
           \/ Stored' = Stored /\ Answers' = Answers
  <1> USE DEF TypeInv, TypeOK, CallInv, NoOp, GoTo, callVars, lockVars, memVars,
              metaVars, spillVars, scanVars
  <1>1. ASSUME NEW b \in Backends, AddTerms(b)
        PROVE  \E d \in Docs :
                  d \notin Stored /\ Stored' = Stored \cup {d} /\ Answers' = Answers
    <2>1. ~Answered(b) /\ ~Answered(b)' /\ \A c \in Backends \ {b} : AnswerKept(c)
      BY <1>1 DEF AddTerms, Answered, AnswerKept
    <2>2. \A c \in Backends : AnswerKept(c) \/ (~Answered(c) /\ ~Answered(c)')
      BY <2>1, Zenon
    <2>3. Answers' = Answers
      BY <2>2, AnswersKept, Zenon
    <2> QED BY <1>1, <2>3, AddTermsStep
  <1>2. CASE ~\E b \in Backends : AddTerms(b)
    <2>1. Stored' = Stored
      BY <1>2, StoreStep
    <2>2. ASSUME NEW b \in Backends, EmptyCorpus(b) \/ ScoreSegments(b)
          PROVE  Answers' = [Answers EXCEPT ![b] = Stored]
      <3>1. Answered(b)' /\ \A c \in Backends \ {b} : AnswerKept(c)
        BY <2>2 DEF EmptyCorpus, ScoreSegments, Answered, AnswerKept
      <3>2. {h[1] : h \in result'[b]} = Stored
        BY <2>1, <3>1 DEF ScanExact
      <3> QED BY <3>1, <3>2, AnswerFound
    <2>3. ASSUME NEW b \in Backends,
                 \/ ReturnInsert(b) \/ ReturnAndRelease(b) \/ Commit(b)
                 \/ Abort(b) \/ SubXactAbort(b)
          PROVE  Answers' = [Answers EXCEPT ![b] = NoAnswer]
      <3>1. /\ pc' = [pc EXCEPT ![b] = "idle"]
            /\ op' = [op EXCEPT ![b] = NoOp]
            /\ result' = [result EXCEPT ![b] = {}]
        BY <2>3 DEF ReturnInsert, ReturnAndRelease, Commit, Abort, SubXactAbort,
                    AbortXact, DropCall, EndCall
      <3>2. ~Answered(b)' /\ \A c \in Backends \ {b} : AnswerKept(c)
        BY <3>1 DEF Answered, AnswerKept
      <3> QED BY <3>2, AnswerGone
    <2>4. ASSUME NEW b \in Backends, AcquireUpgrade(b)
          PROVE  Answers' = [Answers EXCEPT ![b] = NoAnswer]
      <3>1. LWLockHeldByMe(b)
        BY <2>4 DEF AcquireUpgrade, LockInv, LWLockHeldByMe
      <3>2. pc' = pc /\ op' = op /\ result' = result /\ pc[b] = "acquire"
        BY <2>4, <3>1 DEF AcquireUpgrade
      <3>3. ~Answered(b)' /\ \A c \in Backends \ {b} : AnswerKept(c)
        BY <3>2 DEF Answered, AnswerKept
      <3> QED BY <3>3, AnswerGone
    <2>5. ASSUME NEW b \in Backends,
                 \/ SkipDocument(b) \/ WriteSegment(b) \/ NothingToSpill(b)
                 \/ ClearMemtable(b) \/ LinkL0(b) \/ MergeLevel(b) \/ LinkMerged(b)
                 \/ StopCompaction(b) \/ ScoreMemtable(b) \/ AcquireHeld(b)
                 \/ AcquireGranted(b)
          PROVE  Answers' = [Answers EXCEPT ![b] = NoAnswer]
      <3>1. op' = op /\ result' = result /\ \A c \in Backends \ {b} : pc'[c] = pc[c]
        BY <2>5 DEF SkipDocument, WriteSegment, NothingToSpill, ClearMemtable,
                    LinkL0,
                    MergeLevel, LinkMerged, StopCompaction, ScoreMemtable,
                    AcquireHeld, AcquireGranted
      <3>2. ~Answered(b)'
        BY <2>5 DEF SkipDocument, WriteSegment, NothingToSpill, ClearMemtable,
                    LinkL0,
                    MergeLevel, LinkMerged, StopCompaction, ScoreMemtable,
                    AcquireHeld, AcquireGranted, FirstStep, Answered
      <3>3. \A c \in Backends \ {b} : AnswerKept(c)
        BY <3>1 DEF Answered, AnswerKept
      <3> QED BY <3>2, <3>3, AnswerGone
    <2>6. ASSUME NEW b \in Backends,
                 \/ \E d \in Docs : StartInsert(b, d)
                 \/ StartSpill(b) \/ StartScan(b) \/ PreCommit(b) \/ Prepare(b)
          PROVE  Answers' = [Answers EXCEPT ![b] = NoAnswer]
      <3>1. ~Answered(b)' /\ \A c \in Backends \ {b} : AnswerKept(c)
        BY <2>6 DEF StartInsert, StartSpill, StartScan, StartStatement,
                    PreCommit, Prepare, Answered, AnswerKept
      <3> QED BY <3>1, AnswerGone
    <2>7. CASE UNCHANGED vars
      <3>1. \A c \in Backends : AnswerKept(c)
        BY <2>7 DEF vars, Answered, AnswerKept
      <3>2. Answers' = Answers
        BY <3>1, AnswersKept, Zenon
      <3> QED BY <2>1, <3>2
    <2> QED
      BY <1>2, <2>1, <2>2, <2>3, <2>4, <2>5, <2>6, <2>7 DEF Next, CallStep,
         ClientStep
  <1> QED BY <1>1, <1>2

(* The shared index implements the abstract one: documents are added one   *)
(* at a time, none is lost, and a query answers with exactly the documents *)
(* the index holds.                                                        *)
THEOREM Refinement ==
    ASSUME SafeConfig
    PROVE  Spec => ImplementsTextIndex
  <1>1. Init => Abstract!Init
    <2> SUFFICES ASSUME Init PROVE Abstract!Init
      OBVIOUS
    <2>1. InFlight = {}
      BY DEF Init, InFlight
    <2>2. LinkedDocs(chains) = {}
      BY DEF Init, EmptyChains, LinkedDocs, ChainDocs
    <2>3. Stored = {}
      BY <2>1, <2>2 DEF Init, Stored
    <2> QED BY <2>3 DEF Init, Abstract!Init, Answered, NoOp
  <1>2. TypeInv /\ LockInv /\ StoreInv /\ ScanExact' /\ [Next]_vars
           => [Abstract!Next]_(Abstract!abstractVars)
    <2> SUFFICES ASSUME TypeInv, LockInv, StoreInv, ScanExact', [Next]_vars
                 PROVE  [Abstract!Next]_(Abstract!abstractVars)
      OBVIOUS
    <2>1. ASSUME NEW d \in Docs, d \notin Stored, Stored' = Stored \cup {d}, Answers' = Answers
          PROVE  Abstract!Next
      <3>1. Abstract!Add(d)
        BY <2>1 DEF Abstract!Add, Answers
      <3> QED BY <3>1 DEF Abstract!Next
    <2>2. ASSUME NEW b \in Backends, Stored' = Stored, Answers' = [Answers EXCEPT ![b] = Stored]
          PROVE  Abstract!Next
      <3>1. Abstract!Query(b)
        BY <2>2 DEF Abstract!Query, Answers
      <3> QED BY <3>1 DEF Abstract!Next
    <2>3. ASSUME NEW b \in Backends, Stored' = Stored, Answers' = [Answers EXCEPT ![b] = NoAnswer]
          PROVE  Abstract!Next
      <3>1. Abstract!Consume(b)
        BY <2>3 DEF Abstract!Consume, Answers
      <3> QED BY <3>1 DEF Abstract!Next
    <2>4. ASSUME Stored' = Stored, Answers' = Answers
          PROVE  UNCHANGED Abstract!abstractVars
      BY <2>4 DEF Abstract!abstractVars, Answers
    <2> QED
      BY <2>1, <2>2, <2>3, <2>4, RefinementStep
  <1> QED
    BY <1>1, <1>2, TypeInvariant, LockInvariant, StoreInvariant, ScansExact, PTL
       DEF Spec, ImplementsTextIndex, Abstract!Spec

----------------------------------------------------------------------------
(***************************************************************************)
(* The end of a transaction.  A lock that is held is tracked, also after   *)
(* AbortSubTransaction has taken locks away behind the tracking's back, so *)
(* releasing what is tracked releases everything.                          *)
(***************************************************************************)
TrackInv ==
    \A b \in Backends :
        /\ LWLockHeldByMe(b) => lockMode[b] # NoLock
        /\ ~inXact[b] => lockMode[b] = NoLock /\ termsAdded[b] = 0

(* Every step keeps the tracking, one case for each action of Next. *)
LEMMA TrackStep ==
    ASSUME ~TwoPhase, TypeInv, TrackInv, [Next]_vars
    PROVE  TrackInv'
  <1> USE DEF TypeInv, TypeOK, CallInv, TrackInv, LWLockHeldByMe, GoTo, NoOp, NoLock,
              callVars, lockVars, memVars, metaVars, spillVars, scanVars
  <1>1. ASSUME NEW b \in Backends, AddTerms(b) PROVE TrackInv'
    BY <1>1 DEF AddTerms
  <1>2. ASSUME NEW b \in Backends, SkipDocument(b) PROVE TrackInv'
    BY <1>2 DEF SkipDocument
  <1>3. ASSUME NEW b \in Backends, WriteSegment(b) PROVE TrackInv'
    BY <1>3 DEF WriteSegment
  <1>4. ASSUME NEW b \in Backends, NothingToSpill(b) PROVE TrackInv'
    BY <1>4 DEF NothingToSpill
  <1>5. ASSUME NEW b \in Backends, ClearMemtable(b) PROVE TrackInv'
    BY <1>5 DEF ClearMemtable
  <1>6. ASSUME NEW b \in Backends, LinkL0(b) PROVE TrackInv'
    BY <1>6 DEF LinkL0
  <1>7. ASSUME NEW b \in Backends, MergeLevel(b) PROVE TrackInv'
    BY <1>7 DEF MergeLevel
  <1>8. ASSUME NEW b \in Backends, LinkMerged(b) PROVE TrackInv'
    BY <1>8 DEF LinkMerged
  <1>9. ASSUME NEW b \in Backends, StopCompaction(b) PROVE TrackInv'
    BY <1>9 DEF StopCompaction
  <1>10. ASSUME NEW b \in Backends, ScoreMemtable(b) PROVE TrackInv'
    BY <1>10 DEF ScoreMemtable
  <1>11. ASSUME NEW b \in Backends, EmptyCorpus(b) PROVE TrackInv'
    BY <1>11 DEF EmptyCorpus
  <1>12. ASSUME NEW b \in Backends, ScoreSegments(b) PROVE TrackInv'
    BY <1>12 DEF ScoreSegments
  <1>13. ASSUME NEW b \in Backends, ReturnInsert(b) PROVE TrackInv'
    BY <1>13 DEF ReturnInsert, EndCall
  <1>14. ASSUME NEW b \in Backends, ReturnAndRelease(b) PROVE TrackInv'
    BY <1>14 DEF ReturnAndRelease, EndCall, ReleaseIndexLock, LWLockRelease,
       LWLockHeldByMe
  <1>15. ASSUME NEW b \in Backends, Commit(b) PROVE TrackInv'
    BY <1>15 DEF Commit, EndCall, ReleaseIndexLock, LWLockRelease, LWLockHeldByMe
  <1>16. ASSUME NEW b \in Backends, NEW d \in Docs, StartInsert(b, d) PROVE TrackInv'
    BY <1>16 DEF StartInsert, StartStatement
  <1>17. ASSUME NEW b \in Backends, StartSpill(b) PROVE TrackInv'
    BY <1>17 DEF StartSpill, StartStatement
  <1>18. ASSUME NEW b \in Backends, StartScan(b) PROVE TrackInv'
    BY <1>18 DEF StartScan, StartStatement
  <1>19. ASSUME NEW b \in Backends, PreCommit(b) PROVE TrackInv'
    BY <1>19 DEF PreCommit
  <1>20. ASSUME NEW b \in Backends, Prepare(b) PROVE TrackInv'
    BY <1>20 DEF Prepare
  <1>21. ASSUME NEW b \in Backends, AcquireHeld(b) PROVE TrackInv'
    BY <1>21 DEF AcquireHeld
  <1>22. ASSUME NEW b \in Backends, AcquireGranted(b) PROVE TrackInv'
    BY <1>22 DEF AcquireGranted, LWLockAcquire, LWLockHeldByMe, WantedMode
  <1>23. ASSUME NEW b \in Backends, AcquireUpgrade(b) PROVE TrackInv'
    BY <1>23 DEF AcquireUpgrade, AbortXact, DropCall, EndCall, LWLockRelease,
       LWLockHeldByMe
  <1>24. ASSUME NEW b \in Backends, Abort(b) PROVE TrackInv'
    BY <1>24 DEF Abort, AbortXact, DropCall, EndCall, LWLockRelease, LWLockHeldByMe, MayFail
  <1>25. ASSUME NEW b \in Backends, SubXactAbort(b) PROVE TrackInv'
    BY <1>25 DEF SubXactAbort, DropCall, EndCall, LWLockRelease, LWLockHeldByMe,
       MayFail
  <1>26. CASE UNCHANGED vars
    BY <1>26 DEF vars
  <1> QED
    BY <1>1, <1>2, <1>3, <1>4, <1>5, <1>6, <1>7, <1>8, <1>9, <1>10, <1>11,
       <1>12, <1>13, <1>14, <1>15, <1>16, <1>17, <1>18, <1>19, <1>20, <1>21,
       <1>22, <1>23, <1>24, <1>25, <1>26
       DEF Next, CallStep, ClientStep

(* However a transaction ends, by COMMIT or ABORT and with any number of   *)
(* rollbacks to savepoints before, tp_xact_callback leaves no lock held,   *)
(* none tracked and no bulk-load count behind.  PREPARE TRANSACTION, which *)
(* the callback ignores, is what it needs to exclude.                      *)
THEOREM LocksEnd ==
    ASSUME ~TwoPhase
    PROVE  Spec => []LocksEndWithXact
  <1>1. Init => TrackInv
    BY DEF Init, TrackInv, LWLockHeldByMe, NoLock
  <1>2. TypeInv /\ TrackInv /\ [Next]_vars => TrackInv'
    BY TrackStep
  <1>3. TrackInv => LocksEndWithXact
    BY DEF TrackInv, LocksEndWithXact
  <1> QED BY <1>1, <1>2, <1>3, TypeInvariant, PTL DEF Spec

----------------------------------------------------------------------------
(***************************************************************************)
(* The compaction cascade.  The one backend inside it may have one level   *)
(* full, the one it is looking at.                                         *)
(***************************************************************************)
Compacting(b) == pc[b] \in {"compact", "merge"}

NotFull(l) == l < MaxLevels - 1 => counts[l] < SegmentsPerLevel

LevelInv ==
    /\ \A b \in Backends : ~Compacting(b) => level[b] = 0
    /\ \A l \in Levels :
          NotFull(l) \/ \E b \in Backends : Compacting(b) /\ level[b] = l

(* A step that changes neither the counts nor who compacts which level. *)
LEMMA LevelsQuiet ==
    ASSUME LevelInv, counts' = counts, level' = level,
           \A c \in Backends : Compacting(c)' <=> Compacting(c)
    PROVE  LevelInv'
  BY DEF LevelInv, NotFull

(* The steps outside the cascade, which no error interrupts. *)
LEMMA LevelsOutside ==
    ASSUME TypeInv, LevelInv, ErrorPoints \cap {"compact", "merge"} = {},
           NEW b \in Backends,
           \/ AddTerms(b) \/ SkipDocument(b) \/ WriteSegment(b) \/ NothingToSpill(b)
           \/ ClearMemtable(b) \/ MergeLevel(b)
           \/ ScoreMemtable(b) \/ EmptyCorpus(b) \/ ScoreSegments(b)
           \/ ReturnInsert(b) \/ ReturnAndRelease(b) \/ Commit(b) \/ ClientStep(b)
           \/ AcquireHeld(b) \/ AcquireGranted(b) \/ AcquireUpgrade(b)
           \/ Abort(b) \/ SubXactAbort(b)
    PROVE  LevelInv'
  <1> USE DEF TypeInv, TypeOK, CallInv, GoTo, Compacting, callVars, lockVars,
              memVars, metaVars, spillVars, scanVars
  <1>1. CASE AddTerms(b) \/ SkipDocument(b) \/ WriteSegment(b) \/ NothingToSpill(b)
    BY <1>1, LevelsQuiet, SMTT(30) DEF AddTerms, SkipDocument, WriteSegment, NothingToSpill
  <1>2. CASE ClearMemtable(b) \/ MergeLevel(b)
    BY <1>2, LevelsQuiet, SMTT(30) DEF ClearMemtable, MergeLevel
  <1>3. CASE ScoreMemtable(b) \/ EmptyCorpus(b) \/ ScoreSegments(b)
    BY <1>3, LevelsQuiet, SMTT(30) DEF ScoreMemtable, EmptyCorpus, ScoreSegments
  <1>4. CASE ReturnInsert(b) \/ ReturnAndRelease(b) \/ Commit(b)
    BY <1>4, LevelsQuiet, SMTT(30) DEF ReturnInsert, ReturnAndRelease, Commit, EndCall
  <1>5. CASE ClientStep(b)
    BY <1>5, LevelsQuiet, SMTT(30) DEF ClientStep, StartInsert, StartSpill, StartScan,
       StartStatement, PreCommit, Prepare
  <1>6. CASE AcquireHeld(b) \/ AcquireGranted(b)
    <2>1. pc[b] = "acquire" /\ pc' = [pc EXCEPT ![b] = FirstStep(b)]
      BY <1>6 DEF AcquireHeld, AcquireGranted
    <2>2. FirstStep(b) \in {"add", "write", "score_mem"}
      BY <2>1 DEF FirstStep
    <2>3. \A c \in Backends : Compacting(c)' <=> Compacting(c)
      BY <2>1, <2>2
    <2>4. counts' = counts /\ level' = level
      BY <1>6 DEF AcquireHeld, AcquireGranted
    <2> HIDE DEF Compacting
    <2> QED BY <2>3, <2>4, LevelsQuiet
  <1>7. ASSUME AbortXact(b) \/ SubXactAbort(b), ~Compacting(b)
        PROVE  LevelInv'
    <2>1. /\ counts' = counts /\ level' = [level EXCEPT ![b] = 0]
          /\ pc' = [pc EXCEPT ![b] = "idle"]
      BY <1>7 DEF AbortXact, SubXactAbort, DropCall, EndCall
    <2>2. level[b] = 0
      BY <1>7 DEF LevelInv
    <2>3. level' = level /\ \A c \in Backends : Compacting(c)' <=> Compacting(c)
      BY <1>7, <2>1, <2>2
    <2> QED BY <2>1, <2>3, LevelsQuiet
  <1>8. CASE AcquireUpgrade(b)
    <2>1. \/ AbortXact(b)
          \/ UNCHANGED <<pc, counts, level>>
      BY <1>8 DEF AcquireUpgrade
    <2>2. ~Compacting(b)
      BY <1>8 DEF AcquireUpgrade
    <2>3. CASE UNCHANGED <<pc, counts, level>>
      BY <2>3, LevelsQuiet
    <2> QED BY <1>7, <2>1, <2>2, <2>3
  <1>9. CASE Abort(b) \/ SubXactAbort(b)
    <2>1. ~Compacting(b)
      BY <1>9 DEF Abort, SubXactAbort, MayFail
    <2> QED BY <1>7, <1>9, <2>1 DEF Abort
  <1> QED BY <1>1, <1>2, <1>3, <1>4, <1>5, <1>6, <1>8, <1>9

(* The steps of the cascade: a segment arrives at L0, the level looked at  *)
(* is emptied into the next, or is found short of the threshold.           *)
LEMMA LevelsInside ==
    ASSUME TypeInv, LockInv, CountsMatchChains, LevelInv, NEW b \in Backends,
           LinkL0(b) \/ LinkMerged(b) \/ StopCompaction(b)
    PROVE  LevelInv'
  <1> USE DEF TypeInv, TypeOK, CallInv, GoTo
  <1>1. \A c \in Backends \ {b} : ~Compacting(c) /\ pc'[c] = pc[c] /\ level'[c] = level[c]
    <2>1. pc[b] \in Mutating
      BY DEF LinkL0, LinkMerged, StopCompaction, Mutating, Spilling
    <2>2. \A c \in Backends \ {b} : ~Compacting(c)
      BY <2>1, Alone DEF Compacting, Mutating, Spilling
    <2> QED BY <2>2 DEF LinkL0, LinkMerged, StopCompaction
  <1>2. \A c \in Backends \ {b} : ~Compacting(c)' /\ level'[c] = 0
    BY <1>1 DEF Compacting, LevelInv
  <1>3. CASE LinkL0(b)
    <2>1. ~Compacting(b) /\ level[b] = 0 /\ 0 \in Levels
      BY <1>3, InitialLocals DEF LinkL0, Compacting, LevelInv
    <2>2. Compacting(b)' /\ level'[b] = 0
      BY <1>3, <2>1 DEF LinkL0, Compacting
    <2>3. \A l \in Levels : NotFull(l)
      BY <1>1, <2>1 DEF LevelInv
    <2>4. \A l \in Levels \ {0} : counts'[l] = counts[l]
      BY <1>3 DEF LinkL0, CountSegment
    <2>5. \A l \in Levels \ {0} : NotFull(l)'
      BY <2>3, <2>4 DEF NotFull
    <2> QED BY <1>2, <2>1, <2>2, <2>5 DEF LevelInv
  <1>4. CASE LinkMerged(b)
    <2>1. PICK k \in Levels : k = level[b] /\ k + 1 \in Levels
      BY <1>4, NextLevel DEF LinkMerged
    <2>2. Compacting(b) /\ Compacting(b)' /\ level'[b] = k + 1
      BY <1>4, <2>1 DEF LinkMerged, Compacting
    <2>3. \A l \in Levels \ {k} : NotFull(l)
      BY <1>1, <2>1 DEF LevelInv
    <2>4. PICK n \in [Levels -> Nat] : n = counts
      OBVIOUS
    <2>5. counts' = RecountLevel(n, k)
      BY <1>4, <2>1, <2>4 DEF LinkMerged
    <2>6. counts'[k] = 0 /\ \A l \in Levels \ {k, k + 1} : counts'[l] = counts[l]
      <3>1. /\ RecountLevel(n, k)[k] = 0
            /\ \A l \in Levels \ {k, k + 1} : RecountLevel(n, k)[l] = n[l]
        <4> HIDE DEF TypeInv, TypeOK, CallInv, GoTo
        <4> QED BY <2>1, <2>4, RecountLevelValue
      <3> QED BY <2>4, <2>5, <3>1, Zenon
    <2>7. NotFull(k)'
      BY <2>6, LevelsAssumption DEF NotFull
    <2>8. \A l \in Levels \ {k, k + 1} : NotFull(l)'
      BY <2>3, <2>6 DEF NotFull
    <2> QED BY <1>2, <2>1, <2>2, <2>7, <2>8 DEF LevelInv
  <1>5. CASE StopCompaction(b)
    <2>1. PICK k \in Levels : k = level[b]
      OBVIOUS
    <2>2. Compacting(b) /\ ~Compacting(b)' /\ level'[b] = 0 /\ counts' = counts
      <3>1. 0 \in Levels
        BY InitialLocals
      <3> QED BY <1>5, <3>1 DEF StopCompaction, Compacting, metaVars
    <2>3. \A l \in Levels \ {k} : NotFull(l)
      BY <1>1, <2>1 DEF LevelInv
    <2>4. NotFull(k)
      <3>1. CASE ~NeedsCompaction(counts, k)
        BY <3>1, LevelsAssumption DEF NeedsCompaction, NotFull
      <3>2. CASE chains[k] = <<>>
        <4>1. counts[k] = 0
          BY <3>2 DEF CountsMatchChains
        <4> QED BY <4>1, LevelsAssumption DEF NotFull
      <3> QED BY <1>5, <2>1, <3>1, <3>2 DEF StopCompaction
    <2>5. \A l \in Levels : NotFull(l)'
      BY <2>2, <2>3, <2>4 DEF NotFull
    <2> QED BY <1>2, <2>2, <2>5 DEF LevelInv
  <1> QED BY <1>3, <1>4, <1>5

(* The cascade of tp_maybe_compact_level leaves no level behind that is    *)
(* due to be merged, as long as no merge fails half way: a level that an   *)
(* error left full waits for the next spill.                               *)
THEOREM LevelsStayBounded ==
    ASSUME SafeConfig, ErrorPoints \cap {"compact", "merge"} = {}
    PROVE  Spec => []LevelsBounded
  <1>1. Init => LevelInv
    BY LevelsAssumption DEF Init, LevelInv, NotFull, ZeroCounts, Levels
  <1>2. ASSUME TypeInv, LockInv, StoreInv, LevelInv, [Next]_vars PROVE LevelInv'
    <2>1. ASSUME NEW b \in Backends, LinkL0(b) \/ LinkMerged(b) \/ StopCompaction(b)
          PROVE  LevelInv'
      BY <1>2, <2>1, LevelsInside DEF StoreInv
    <2>2. CASE UNCHANGED vars
      BY <1>2, <2>2, LevelsQuiet DEF vars, callVars, metaVars, spillVars, Compacting
    <2> QED BY <1>2, <2>1, <2>2, LevelsOutside DEF Next, CallStep
  <1>3. LevelInv => LevelsBounded
    BY DEF LevelInv, LevelsBounded, NotFull, Compacting
  <1> QED BY <1>1, <1>2, <1>3, TypeInvariant, LockInvariant, StoreInvariant, PTL DEF Spec

----------------------------------------------------------------------------
(***************************************************************************)
(* The corpus counters.  total_docs counts the memtable, the segments and  *)
(* the segment on its way from one to the other; the metapage's copy       *)
(* counts the segments.  What is counted is finite because documents       *)
(* arrive one at a time.                                                   *)
(***************************************************************************)
MetaInv ==
    /\ IsFiniteSet(memtable) /\ IsFiniteSet(LinkedDocs(chains)) /\ IsFiniteSet(InFlight)
    /\ metaDocs = Cardinality(LinkedDocs(chains))
    /\ totalDocs = metaDocs + Cardinality(memtable) + Cardinality(InFlight)

(* Two places that share no document hold as many as the two together. *)
LEMMA CountUnion ==
    ASSUME NEW S, NEW T, IsFiniteSet(S), IsFiniteSet(T), S \cap T = {}
    PROVE  /\ IsFiniteSet(S \cup T)
           /\ Cardinality(S) \in Nat /\ Cardinality(T) \in Nat
           /\ Cardinality(S \cup T) = Cardinality(S) + Cardinality(T)
  <1>1. /\ Cardinality(S) \in Nat /\ Cardinality(T) \in Nat
        /\ IsFiniteSet(S \cup T)
        /\ Cardinality(S \cup T) = Cardinality(S) + Cardinality(T) - Cardinality(S \cap T)
    BY FS_Union, FS_CardinalityType
  <1>2. Cardinality(S \cap T) = 0
    BY FS_EmptySet, Zenon
  <1>3. \A i, j \in Nat : i + j - 0 = i + j
    OBVIOUS
  <1> QED BY <1>1, <1>2, <1>3

(* No step but these changes what is counted or a counter. *)
LEMMA CountersQuiet ==
    ASSUME NEW b \in Backends,
           \/ SkipDocument(b) \/ WriteSegment(b) \/ NothingToSpill(b)
           \/ MergeLevel(b) \/ StopCompaction(b)
           \/ ScoreMemtable(b) \/ EmptyCorpus(b) \/ ScoreSegments(b)
           \/ ReturnInsert(b) \/ ReturnAndRelease(b) \/ Commit(b) \/ ClientStep(b)
           \/ AcquireHeld(b) \/ AcquireGranted(b) \/ AcquireUpgrade(b)
           \/ Abort(b) \/ SubXactAbort(b)
    PROVE  UNCHANGED <<memtable, totalDocs, metaDocs, chains>>
  BY DEF SkipDocument, WriteSegment, NothingToSpill, MergeLevel, StopCompaction,
         ScoreMemtable, EmptyCorpus, ScoreSegments, ReturnInsert, ReturnAndRelease,
         Commit, ClientStep, StartInsert, StartSpill, StartScan, PreCommit, Prepare,
         AcquireHeld, AcquireGranted, AcquireUpgrade, Abort, AbortXact, SubXactAbort,
         memVars, metaVars

(* Every step keeps the counters right: an insertion counts a document     *)
(* that was nowhere, a spill moves documents to a place that holds none of *)
(* them, a merge moves them between levels.                                *)
LEMMA MetaStep ==
    ASSUME SafeConfig, TypeInv, LockInv, StoreInv, MetaInv, [Next]_vars
    PROVE  MetaInv'
  <1>1. StoreInv' /\ StoredOnce /\ StoredOnce'
    BY StoreStep DEF StoreInv
  <1>2. ASSUME NEW b \in Backends, AddTerms(b) PROVE MetaInv'
    <2>1. PICK d \in Docs : d = doc[b] /\ d \notin Stored
      BY <1>2, AddTermsStep
    <2>2. /\ memtable' = memtable \cup {d} /\ totalDocs' = totalDocs + 1
          /\ UNCHANGED <<chains, metaDocs>>
      BY <1>2, <2>1 DEF AddTerms, metaVars
    <2>3. InFlight = {} /\ InFlight' = {}
      <3>1. pc[b] \in Mutating /\ pc[b] # "link"
        BY <1>2 DEF AddTerms, Mutating
      <3>2. InFlight = {}
        BY <3>1, InFlightIsMine
      <3>3. Stored' = Stored \cup {d}
        BY <1>2, <2>1, AddTermsStep
      <3> QED BY <1>1, <2>2, <3>2, <3>3 DEF Stored, StoredOnce
    <2>4. memtable \cap {d} = {}
      BY <2>1 DEF Stored
    <2>5. IsFiniteSet({d}) /\ Cardinality({d}) = 1
      BY FS_Singleton
    <2>6. PICK m : m = memtable /\ IsFiniteSet(m) /\ m \cap {d} = {}
      BY <2>4 DEF MetaInv
    <2>7. /\ IsFiniteSet(m \cup {d}) /\ Cardinality(m) \in Nat
          /\ Cardinality(m \cup {d}) = Cardinality(m) + 1
      BY <2>5, <2>6, CountUnion
    <2>8. IsFiniteSet(memtable') /\ Cardinality(memtable') = Cardinality(memtable) + 1
      BY <2>2, <2>6, <2>7
    <2>9. Cardinality({}) = 0 /\ IsFiniteSet({})
      BY FS_EmptySet
    <2>10. metaDocs \in Nat /\ Cardinality(memtable) \in Nat
      BY <2>6, <2>7 DEF TypeInv, TypeOK
    <2>11. totalDocs = metaDocs + Cardinality(memtable) + 0
      BY <2>3, <2>9 DEF MetaInv
    <2>12. totalDocs' = metaDocs' + Cardinality(memtable') + 0
      BY <2>2, <2>8, <2>10, <2>11
    <2> QED BY <2>2, <2>3, <2>8, <2>9, <2>12 DEF MetaInv
  <1>3. ASSUME NEW b \in Backends, ClearMemtable(b) PROVE MetaInv'
    <2>1. pc[b] = "clear" /\ pc[b] \in Mutating
      BY <1>3 DEF ClearMemtable, Mutating, Spilling
    <2>2. InFlight = {}
      BY <2>1, InFlightIsMine
    <2>3. memtable' = {} /\ UNCHANGED <<totalDocs, metaDocs, chains>> /\ Stored' = Stored
      BY <1>3, ClearMemtableStep DEF ClearMemtable, metaVars
    <2>4. InFlight' = memtable
      BY <1>1, <2>2, <2>3 DEF Stored, StoredOnce
    <2>5. Cardinality({}) = 0 /\ IsFiniteSet({})
      BY FS_EmptySet
    <2>6. Cardinality(memtable) \in Nat /\ metaDocs \in Nat
      BY FS_CardinalityType DEF MetaInv, TypeInv, TypeOK
    <2>7. totalDocs = metaDocs + Cardinality(memtable) + 0
      BY <2>2, <2>5 DEF MetaInv
    <2>8. totalDocs = metaDocs + 0 + Cardinality(memtable)
      BY <2>6, <2>7
    <2> QED BY <2>3, <2>4, <2>5, <2>8 DEF MetaInv
  <1>4. ASSUME NEW b \in Backends, LinkL0(b) PROVE MetaInv'
    <2>1. pc[b] = "link" /\ pc[b] \in Mutating
      BY <1>4 DEF LinkL0, Mutating, Spilling
    <2>2. PICK seg \in Segments : seg = pending[b] /\ seg = InFlight /\ memtable = {}
      BY <2>1, InFlightIsMine DEF StoreInv, SpillInv, TypeInv, TypeOK
    <2>3. PICK cs \in ChainsType : cs = chains /\ chains' = LinkSegment(cs, 0, seg)
      BY <1>4, <2>2 DEF LinkL0, TypeInv, TypeOK, ChainsType
    <2>4. LinkedDocs(chains') = seg \cup LinkedDocs(cs)
      BY <2>3, InitialLocals, LinkSegmentDocs
    <2>5. metaDocs' = totalDocs /\ totalDocs' = totalDocs /\ memtable' = {} /\ Stored' = Stored
      BY <1>4, <2>2, LinkL0Step DEF LinkL0, memVars
    <2>6. InFlight' = {}
      BY <1>1, <2>2, <2>3, <2>4, <2>5 DEF Stored, StoredOnce
    <2>7. PICK linked : linked = LinkedDocs(cs) /\ IsFiniteSet(linked)
      BY <2>3 DEF MetaInv
    <2>8. IsFiniteSet(seg) /\ seg \cap linked = {}
      BY <2>2, <2>3, <2>7 DEF MetaInv, StoredOnce, StoreInv
    <2>9. /\ IsFiniteSet(seg \cup linked)
          /\ Cardinality(seg) \in Nat /\ Cardinality(linked) \in Nat
          /\ Cardinality(seg \cup linked) = Cardinality(seg) + Cardinality(linked)
      BY <2>7, <2>8, CountUnion
    <2>10. Cardinality({}) = 0 /\ IsFiniteSet({})
      BY FS_EmptySet
    <2>11. totalDocs = Cardinality(linked) + 0 + Cardinality(seg)
      BY <2>2, <2>3, <2>7, <2>10 DEF MetaInv
    <2>12. metaDocs' = Cardinality(seg \cup linked) /\ totalDocs' = metaDocs' + 0 + 0
      BY <2>5, <2>9, <2>11
    <2> QED BY <2>4, <2>5, <2>6, <2>7, <2>9, <2>10, <2>12 DEF MetaInv
  <1>5. ASSUME NEW b \in Backends, LinkMerged(b) PROVE MetaInv'
    <2>1. pc[b] = "merge"
      BY <1>5 DEF LinkMerged
    <2>2. PICK cs \in ChainsType, k \in Levels :
             cs = chains /\ k = level[b] /\ k + 1 \in Levels
      BY <2>1, NextLevel DEF TypeInv, TypeOK, CallInv, ChainsType
    <2>3. merged[b] = ChainDocs(cs[k])
      BY <2>1, <2>2 DEF StoreInv, SpillInv
    <2>4. chains' = ReplaceLevel(cs, k, ChainDocs(cs[k]))
      BY <1>5, <2>2, <2>3 DEF LinkMerged
    <2>5. LinkedDocs(chains') = LinkedDocs(chains)
      BY <2>2, <2>4, ReplaceLevelDocs
    <2>6. UNCHANGED <<memtable, totalDocs, metaDocs>> /\ Stored' = Stored
      BY <1>5, LinkMergedStep DEF LinkMerged, memVars
    <2>7. InFlight' = InFlight
      BY <1>1, <2>5, <2>6 DEF Stored, StoredOnce
    <2> QED BY <2>5, <2>6, <2>7 DEF MetaInv
  <1>6. ASSUME UNCHANGED <<memtable, totalDocs, metaDocs, chains>>, Stored' = Stored
        PROVE  MetaInv'
    <2>1. InFlight' = InFlight
      BY <1>1, <1>6 DEF Stored, StoredOnce
    <2> QED BY <1>6, <2>1 DEF MetaInv
  <1>7. ASSUME NEW b \in Backends,
               \/ SkipDocument(b) \/ WriteSegment(b) \/ NothingToSpill(b)
               \/ MergeLevel(b) \/ StopCompaction(b)
               \/ ScoreMemtable(b) \/ EmptyCorpus(b) \/ ScoreSegments(b)
               \/ ReturnInsert(b) \/ ReturnAndRelease(b) \/ Commit(b) \/ ClientStep(b)
               \/ AcquireHeld(b) \/ AcquireGranted(b) \/ AcquireUpgrade(b)
               \/ Abort(b) \/ SubXactAbort(b)
        PROVE  MetaInv'
    BY <1>6, <1>7, CountersQuiet, QuietSteps, StartInsertStep DEF ClientStep
  <1>8. CASE UNCHANGED vars
    <2>1. Stored' = Stored
      BY <1>8 DEF vars, callVars, memVars, metaVars, spillVars, Stored, InFlight
    <2> QED BY <1>6, <1>8, <2>1 DEF vars, memVars, metaVars
  <1> QED BY <1>2, <1>3, <1>4, <1>5, <1>7, <1>8 DEF Next, CallStep

(* total_docs of the metapage, from which recovery starts, is the number   *)
(* of documents in the segments whenever no spill is between clearing and  *)
(* linking, and the shared total_docs adds the memtable's to it.           *)
THEOREM MetaDocsExact ==
    ASSUME SafeConfig
    PROVE  Spec => []MetaDocsMatchSegments
  <1>1. Init => MetaInv
    <2> SUFFICES ASSUME Init PROVE MetaInv
      OBVIOUS
    <2>1. InFlight = {}
      BY DEF Init, InFlight
    <2>2. LinkedDocs(chains) = {}
      BY DEF Init, EmptyChains, LinkedDocs, ChainDocs
    <2>3. Cardinality({}) = 0 /\ IsFiniteSet({}) /\ 0 = 0 + 0 + 0
      BY FS_EmptySet
    <2> QED BY <2>1, <2>2, <2>3 DEF Init, MetaInv
  <1>2. TypeInv /\ LockInv /\ StoreInv /\ MetaInv /\ [Next]_vars => MetaInv'
    BY MetaStep
  <1>3. TypeInv /\ MetaInv => MetaDocsMatchSegments
    <2> SUFFICES ASSUME TypeInv, MetaInv, \A b \in Backends : pc[b] # "link"
                 PROVE  /\ metaDocs = Cardinality(LinkedDocs(chains))
                        /\ totalDocs = metaDocs + Cardinality(memtable)
      BY DEF MetaDocsMatchSegments
    <2>1. InFlight = {}
      BY DEF InFlight
    <2>2. Cardinality({}) = 0
      BY FS_EmptySet
    <2>3. Cardinality(memtable) \in Nat /\ metaDocs \in Nat
      BY FS_CardinalityType DEF MetaInv, TypeInv, TypeOK
    <2>4. totalDocs = metaDocs + Cardinality(memtable) + 0
      BY <2>1, <2>2 DEF MetaInv
    <2> QED BY <2>3, <2>4 DEF MetaInv
  <1> QED BY <1>1, <1>2, <1>3, TypeInvariant, LockInvariant, StoreInvariant, PTL DEF Spec
=============================================================================
