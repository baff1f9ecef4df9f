--------------------------- MODULE ParallelBuild ---------------------------
(***************************************************************************)
(* Parallel CREATE INDEX: workers scan the heap together, each into one of *)
(* its two memtable buffers, and the leader merges buffers that are ready  *)
(* into L0 segments, empties them and, when all workers are done, writes   *)
(* the chain to the metapage and compacts.                                 *)
(*                                                                         *)
(* Leader and workers share the buffers' status words, which are read and  *)
(* written atomically one at a time, and workers_done, behind a spinlock.  *)
(* The leader's condition variable is left out: a ConditionVariableSleep   *)
(* that was not prepared returns at once, so the leader polls.  A document *)
(* here has one posting, so total_postings is the number of documents.     *)
(***************************************************************************)
EXTENDS SegmentLevels, FiniteSets

CONSTANTS NWorkers,        \* shared->nworkers, the workers asked for
          NLaunched,       \* nworkers_launched
          HeapBlocks,      \* heap blocks: sets of documents
          Skipped,         \* documents that are NULL or have no lexemes
          SpillThreshold,  \* GUC memtable_spill_threshold
          NoDoc

ASSUME ParallelBuildAssumption ==
    /\ IsFiniteSet(Docs)
    /\ NWorkers \in Nat \ {0}
    /\ NLaunched \in 0 .. NWorkers
    /\ HeapBlocks \subseteq SUBSET Docs
    /\ UNION HeapBlocks = Docs
    /\ \A x, y \in HeapBlocks : x # y => x \cap y = {}
    /\ Skipped \subseteq Docs
    /\ SpillThreshold \in Nat
    /\ NoDoc \notin Docs

Workers == 1 .. NWorkers
Launched == 1 .. NLaunched
Buffers == Workers \X {0, 1}

VARIABLES
    unscanned,    \* heap blocks no worker has taken yet
    todo,         \* todo[w]: tuples of w's block it has not fetched yet
    tuple,        \* tuple[w]: the tuple in w's slot, or NoDoc
    wpc,          \* wpc[w]: the worker's next step
    active,       \* active[w]: active_buf
    status,       \* status[w, j]: TpWorkerBufferStatus
    buffer,       \* buffer[w, j]: documents in the buffer's hash tables
    workersDone,  \* shared->workers_done
    lpc,          \* the leader's next step
    pos,          \* position of the leader's sweep over the buffers
    ready,        \* ready_buffers[0 .. num_ready - 1]
    allDone,      \* all_done
    chain,        \* segment_head ... segment_tail
    totalDocs,    \* the leader's total_docs
    level,        \* the level being compacted
    chains,       \* level_heads / next_segment of the metapage
    counts,       \* level_counts of the metapage
    metaDocs      \* total_docs of the metapage

workerVars == <<unscanned, todo, tuple, wpc, active>>
bufferVars == <<status, buffer>>
leaderVars == <<lpc, pos, ready, allDone, chain, totalDocs, level>>
metaVars   == <<chains, counts, metaDocs>>
vars == <<workerVars, bufferVars, workersDone, leaderVars, metaVars>>

Init ==
    /\ unscanned = HeapBlocks
    /\ todo = [w \in Workers |-> {}]
    /\ tuple = [w \in Workers |-> NoDoc]
    /\ wpc = [w \in Workers |-> IF w \in Launched THEN "start" ELSE "absent"]
    /\ active = [w \in Workers |-> 0]
    /\ status = [k \in Buffers |-> "empty"]
    /\ buffer = [k \in Buffers |-> {}]
    /\ workersDone = 0
    /\ lpc = "collect" /\ pos = 0 /\ ready = <<>> /\ allDone = FALSE
    /\ chain = <<>> /\ totalDocs = 0 /\ level = 0
    /\ chains = EmptyChains /\ counts = ZeroCounts /\ metaDocs = 0

----------------------------------------------------------------------------
(* Workers: tp_parallel_build_worker_main *)

WorkerGoTo(w, step) == wpc' = [wpc EXCEPT ![w] = step]

ActiveBuffer(w) == <<w, active[w]>>

StartWorker(w) ==
    /\ wpc[w] = "start"
    /\ status' = [status EXCEPT ![<<w, 0>>] = "filling"]
    /\ WorkerGoTo(w, "scan")
    /\ UNCHANGED <<unscanned, todo, tuple, active, buffer, workersDone,
                   leaderVars, metaVars>>

(* The parallel table scan gives a worker a heap block of its own. *)
TakeBlock(w) ==
    /\ wpc[w] = "scan"
    /\ todo[w] = {}
    /\ \E block \in unscanned :
          /\ unscanned' = unscanned \ {block}
          /\ todo' = [todo EXCEPT ![w] = block]
    /\ UNCHANGED <<tuple, wpc, active, bufferVars, workersDone, leaderVars,
                   metaVars>>

BufferFull(w) == Cardinality(buffer[ActiveBuffer(w)]) >= SpillThreshold

(* table_scan_getnextslot returns a tuple; the buffer is looked at first. *)
FetchTuple(w) ==
    /\ wpc[w] = "scan"
    /\ \E d \in todo[w] :
          /\ todo' = [todo EXCEPT ![w] = @ \ {d}]
          /\ tuple' = [tuple EXCEPT ![w] = d]
    /\ WorkerGoTo(w, IF BufferFull(w) THEN "switch" ELSE "process")
    /\ UNCHANGED <<unscanned, active, bufferVars, workersDone, leaderVars,
                   metaVars>>

(* Mutant: the index of the active buffer is advanced, not toggled. *)
SwitchBufferNext(w) ==
    /\ wpc[w] = "switch"
    /\ status' = [status EXCEPT ![ActiveBuffer(w)] = "ready"]
    /\ active' = [active EXCEPT ![w] = @ + 1]
    /\ WorkerGoTo(w, "wait")
    /\ UNCHANGED <<unscanned, todo, tuple, buffer, workersDone, leaderVars,
                   metaVars>>

(* The full buffer is handed to the leader, the other one becomes active ... *)
SwitchBuffer(w) ==
    /\ wpc[w] = "switch"
    /\ status' = [status EXCEPT ![ActiveBuffer(w)] = "ready"]
    /\ active' = [active EXCEPT ![w] = 1 - @]
    /\ WorkerGoTo(w, "wait")
    /\ UNCHANGED <<unscanned, todo, tuple, buffer, workersDone, leaderVars,
                   metaVars>>

(* Mutant: the worker does not wait for the other buffer. *)
AwaitBufferNot(w) ==
    /\ wpc[w] = "wait"
    /\ status' = [status EXCEPT ![ActiveBuffer(w)] = "filling"]
    /\ WorkerGoTo(w, "process")
    /\ UNCHANGED <<unscanned, todo, tuple, active, buffer, workersDone,
                   leaderVars, metaVars>>

(* ... when the leader has emptied it. *)
AwaitBuffer(w) ==
    /\ wpc[w] = "wait"
    /\ status[ActiveBuffer(w)] = "empty"
    /\ status' = [status EXCEPT ![ActiveBuffer(w)] = "filling"]
    /\ WorkerGoTo(w, "process")
    /\ UNCHANGED <<unscanned, todo, tuple, active, buffer, workersDone,
                   leaderVars, metaVars>>

(* tp_worker_process_document *)
ProcessDocument(w) ==
    /\ wpc[w] = "process"
    /\ buffer' = [buffer EXCEPT ![ActiveBuffer(w)] = @ \cup ({tuple[w]} \ Skipped)]
    /\ tuple' = [tuple EXCEPT ![w] = NoDoc]
    /\ WorkerGoTo(w, "scan")
    /\ UNCHANGED <<unscanned, todo, active, status, workersDone, leaderVars,
                   metaVars>>

(* No block is left: the last buffer is handed over if it holds anything. *)
EndScan(w) ==
    /\ wpc[w] = "scan"
    /\ todo[w] = {}
    /\ unscanned = {}
    /\ status' = [status EXCEPT ![ActiveBuffer(w)] =
                      IF buffer[ActiveBuffer(w)] # {} THEN "ready" ELSE "empty"]
    /\ WorkerGoTo(w, "complete")
    /\ UNCHANGED <<unscanned, todo, tuple, active, buffer, workersDone,
                   leaderVars, metaVars>>

SignalCompletion(w) ==
    /\ wpc[w] = "complete"
    /\ workersDone' = workersDone + 1
    /\ WorkerGoTo(w, "done")
    /\ UNCHANGED <<unscanned, todo, tuple, active, bufferVars, leaderVars,
                   metaVars>>

----------------------------------------------------------------------------
(* The leader: tp_leader_process_buffers, then tp_build_parallel *)

(* The buffers in the order of the leader's sweep. *)
BufferAt(n) == <<n \div 2 + 1, n % 2>>

(* One status word is read; the last one ends the sweep. *)
CollectBuffer ==
    /\ lpc = "collect"
    /\ ready' = IF status[BufferAt(pos)] = "ready"
                THEN Append(ready, BufferAt(pos)) ELSE ready
    /\ pos' = IF pos + 1 = 2 * NWorkers THEN 0 ELSE pos + 1
    /\ lpc' = IF pos' = 0 THEN "check" ELSE "collect"
    /\ UNCHANGED <<workerVars, bufferVars, workersDone, allDone, chain,
                   totalDocs, level, metaVars>>

(* Mutant: off by one. *)
AllWorkersDoneStrict == workersDone > NWorkers

(* All workers that were asked for have finished, launched or not. *)
AllWorkersDone == workersDone >= NWorkers

(* A merge is worth it: one buffer a worker on average, or the last ones. *)
EnoughReady(done) == Len(ready) > 0 /\ (done \/ Len(ready) >= NWorkers)

(* workers_done is read after the sweep; with too few buffers the leader   *)
(* sweeps again, or, when all workers are done, leaves the loop.           *)
CheckDone ==
    /\ lpc = "check"
    /\ allDone' = AllWorkersDone
    /\ IF EnoughReady(allDone')
       THEN lpc' = "merge" /\ UNCHANGED ready
       ELSE lpc' = (IF allDone' THEN "stats" ELSE "collect") /\ ready' = <<>>
    /\ UNCHANGED <<workerVars, bufferVars, workersDone, pos, chain, totalDocs,
                   level, metaVars>>

ReadyBuffers == {ready[i] : i \in DOMAIN ready}
ReadyDocs == UNION {buffer[k] : k \in ReadyBuffers}

(* Mutant: the documents are not counted. *)
MergeBuffersUncounted ==
    /\ lpc = "merge"
    /\ chain' = IF ReadyDocs = {} THEN chain ELSE Append(chain, ReadyDocs)
    /\ lpc' = "clear"
    /\ UNCHANGED <<workerVars, bufferVars, workersDone, pos, ready, allDone,
                   totalDocs, level, metaVars>>

(* tp_merge_worker_buffers_to_segment; buffers without documents make no   *)
(* segment.  The segment goes to the tail of the chain.                    *)
MergeBuffers ==
    /\ lpc = "merge"
    /\ chain' = IF ReadyDocs = {} THEN chain ELSE Append(chain, ReadyDocs)
    /\ totalDocs' = totalDocs + Cardinality(ReadyDocs)
    /\ lpc' = "clear"
    /\ UNCHANGED <<workerVars, bufferVars, workersDone, pos, ready, allDone,
                   level, metaVars>>

(* The leader's next step when it has emptied all but the first of ready. *)
AfterClear == IF Len(ready) > 1 THEN "clear" ELSE IF allDone THEN "stats" ELSE "collect"

(* Mutant: the buffer becomes available with its documents still in it. *)
ClearBufferKeeps ==
    /\ lpc = "clear"
    /\ status' = [status EXCEPT ![Head(ready)] = "empty"]
    /\ ready' = Tail(ready)
    /\ lpc' = AfterClear
    /\ UNCHANGED <<workerVars, buffer, workersDone, pos, allDone, chain,
                   totalDocs, level, metaVars>>

(* One of the merged buffers is emptied and given back to its worker. *)
ClearBuffer ==
    /\ lpc = "clear"
    /\ buffer' = [buffer EXCEPT ![Head(ready)] = {}]
    /\ status' = [status EXCEPT ![Head(ready)] = "empty"]
    /\ ready' = Tail(ready)
    /\ lpc' = AfterClear
    /\ UNCHANGED <<workerVars, workersDone, pos, allDone, chain, totalDocs,
                   level, metaVars>>

(* WaitForParallelWorkersToFinish, then the metapage. *)
WriteMetapage ==
    /\ lpc = "stats"
    /\ \A w \in Launched : wpc[w] = "done"
    /\ chains' = [chains EXCEPT ![0] = chain]
    /\ counts' = [counts EXCEPT ![0] = Len(chain)]
    /\ metaDocs' = totalDocs
    /\ lpc' = "compact"
    /\ UNCHANGED <<workerVars, bufferVars, workersDone, pos, ready, allDone,
                   chain, totalDocs, level>>

CompactLevel ==
    /\ lpc = "compact"
    /\ NeedsCompaction(counts, level)
    /\ chains[level] # <<>>
    /\ chains' = ReplaceLevel(chains, level,
                     ChainDocs(MergeSources(chains[level], counts[level])))
    /\ counts' = RecountLevel(counts, level)
    /\ level' = level + 1
    /\ UNCHANGED <<workerVars, bufferVars, workersDone, lpc, pos, ready,
                   allDone, chain, totalDocs, metaDocs>>

FinishBuild ==
    /\ lpc = "compact"
    /\ ~NeedsCompaction(counts, level) \/ chains[level] = <<>>
    /\ lpc' = "finished"
    /\ UNCHANGED <<workerVars, bufferVars, workersDone, pos, ready, allDone,
                   chain, totalDocs, level, metaVars>>

----------------------------------------------------------------------------
WorkerStep(w) ==
    \/ StartWorker(w) \/ TakeBlock(w) \/ FetchTuple(w) \/ SwitchBuffer(w)
    \/ AwaitBuffer(w) \/ ProcessDocument(w) \/ EndScan(w) \/ SignalCompletion(w)

LeaderStep ==
    \/ CollectBuffer \/ CheckDone \/ MergeBuffers \/ ClearBuffer
    \/ WriteMetapage \/ CompactLevel \/ FinishBuild

(* The statement is over. *)
Terminated == lpc = "finished" /\ UNCHANGED vars

Next == LeaderStep \/ (\E w \in Workers : WorkerStep(w)) \/ Terminated

Spec == Init /\ [][Next]_vars

(* Leader and workers are processes the operating system schedules. *)
FairSpec ==
    /\ Spec
    /\ WF_vars(LeaderStep)
    /\ \A w \in Workers : WF_vars(WorkerStep(w))

----------------------------------------------------------------------------
(* Properties *)

WorkerSteps == {"absent", "start", "scan", "switch", "wait", "process",
                "complete", "done"}
LeaderSteps == {"collect", "check", "merge", "clear", "stats", "compact",
                "finished"}

(* Every variable has its type. *)
TypeOK ==
    /\ unscanned \subseteq HeapBlocks
    /\ todo \in [Workers -> SUBSET Docs]
    /\ tuple \in [Workers -> Docs \cup {NoDoc}]
    /\ wpc \in [Workers -> WorkerSteps]
    /\ active \in [Workers -> {0, 1}]
    /\ status \in [Buffers -> {"empty", "filling", "ready"}]
    /\ buffer \in [Buffers -> SUBSET Docs]
    /\ workersDone \in Nat
    /\ lpc \in LeaderSteps
    /\ pos \in 0 .. 2 * NWorkers - 1
    /\ ready \in Seq(Buffers)
    /\ allDone \in BOOLEAN
    /\ chain \in Seq(Segments)
    /\ totalDocs \in Nat
    /\ level \in Levels
    /\ chains \in [Levels -> Seq(Segments)]
    /\ counts \in [Levels -> Nat]
    /\ metaDocs \in Nat

(* A buffer the leader has in hand: it is merged, or its documents are in  *)
(* the chain already and it waits to be emptied.                           *)
Merged(k) == lpc = "clear" /\ k \in ReadyBuffers

(* Documents still to be indexed, by where they are. *)
Unscanned == UNION unscanned
InHand(w) == todo[w] \cup ({tuple[w]} \ {NoDoc})
Buffered(k) == IF Merged(k) THEN {} ELSE buffer[k]

(* Every document of the heap is in exactly one place on its way into a    *)
(* segment: a heap block nobody has taken, the hands of one worker, one    *)
(* buffer, or one segment.  Only documents without lexemes disappear.      *)
ExactlyOnce ==
    /\ \A d \in Docs \ Skipped :
          \/ d \in Unscanned
          \/ \E w \in Workers : d \in InHand(w)
          \/ \E k \in Buffers : d \in Buffered(k)
          \/ d \in ChainDocs(chain)
    /\ \A w \in Workers :
          /\ InHand(w) \cap (Unscanned \cup ChainDocs(chain)) = {}
          /\ \A v \in Workers \ {w} : InHand(v) \cap InHand(w) = {}
          /\ \A k \in Buffers : InHand(w) \cap Buffered(k) = {}
    /\ \A k \in Buffers :
          /\ Buffered(k) \cap (Unscanned \cup ChainDocs(chain)) = {}
          /\ \A m \in Buffers \ {k} : Buffered(k) \cap Buffered(m) = {}
    /\ Unscanned \cap ChainDocs(chain) = {}
    /\ \A i, j \in DOMAIN chain : i # j => chain[i] \cap chain[j] = {}

(* Worker and leader never use one buffer at the same time: a worker adds  *)
(* to a buffer that is being filled, the leader merges and empties buffers *)
(* that are ready, and no worker has the same buffer in its hands.         *)
BufferHandover ==
    /\ \A w \in Workers : wpc[w] \in {"scan", "process", "switch"} =>
          status[ActiveBuffer(w)] = "filling"
    /\ \A k \in ReadyBuffers : status[k] = "ready"
    /\ \A k \in Buffers : status[k] = "empty" => buffer[k] = {}

(* What a merge has counted is what the segments hold. *)
StatsMatchSegments ==
    /\ lpc # "clear" => totalDocs = Cardinality(ChainDocs(chain))
    /\ lpc = "finished" =>
          /\ metaDocs = Cardinality(LinkedDocs(chains))
          /\ \A l \in Levels : counts[l] = Len(chains[l])

(* A finished build has indexed every document of the heap. *)
AllIndexed == lpc = "finished" => Docs \ Skipped \subseteq LinkedDocs(chains)

(* The heap is scanned and every worker has left its loop: CREATE INDEX    *)
(* then ends, whatever the leader was doing when the last one left.        *)
ScannedBuildEnds ==
    (\A w \in Workers : wpc[w] \in {"complete", "done"}) ~> lpc = "finished"

(* CREATE INDEX ends. *)
BuildEnds == <>(lpc = "finished")
=============================================================================
