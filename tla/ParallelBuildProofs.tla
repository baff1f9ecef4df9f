------------------------ MODULE ParallelBuildProofs ------------------------
(***************************************************************************)
(* Theorems about ParallelBuild for every number of workers, every heap    *)
(* and every spill threshold.                                              *)
(***************************************************************************)
EXTENDS ParallelBuild, SegmentProofs

(* What a worker has in hand at each step: a tuple between the fetch and   *)
(* the end of tp_worker_process_document, and at the start its two buffers *)
(* untouched.                                                              *)
WorkerInv ==
    \A w \in Workers :
       /\ tuple[w] \in Docs <=> wpc[w] \in {"switch", "wait", "process"}
       /\ tuple[w] \notin todo[w]
       /\ wpc[w] = "start" => active[w] = 0 /\ status[<<w, 0>>] = "empty"

(* The place of a buffer in the leader's sweep. *)
Position(k) == 2 * (k[1] - 1) + k[2]

(* The leader holds buffers it has already swept over, each once. *)
LeaderInv ==
    /\ lpc # "collect" => pos = 0
    /\ lpc \in {"merge", "clear"} => ready # <<>>
    /\ lpc = "collect" => \A i \in DOMAIN ready : Position(ready[i]) < pos
    /\ \A i, j \in DOMAIN ready : i # j => ready[i] # ready[j]

TypeInv == TypeOK /\ WorkerInv /\ LeaderInv

----------------------------------------------------------------------------
(* The sweep visits buffers, and their place in it is where it is. *)
LEMMA BufferAtPosition ==
    ASSUME NEW n \in 0 .. 2 * NWorkers - 1
    PROVE  BufferAt(n) \in Buffers /\ Position(BufferAt(n)) = n
  <1>1. n \in Nat /\ NWorkers \in Nat /\ n < 2 * NWorkers
    BY ParallelBuildAssumption
  <1>2. n \div 2 \in Nat /\ n % 2 \in {0, 1} /\ n = (2 * (n \div 2)) + (n % 2)
    BY <1>1
  <1>3. n \div 2 + 1 \in 1 .. NWorkers
    BY <1>1, <1>2
  <1> QED BY <1>2, <1>3 DEF BufferAt, Buffers, Workers, Position

(* A place in the sweep is a number. *)
LEMMA PositionType ==
    ASSUME NEW k \in Buffers
    PROVE  Position(k) \in Int
  <1>1. PICK w \in Workers, j \in {0, 1} : k = <<w, j>>
    BY DEF Buffers
  <1>2. k[1] = w /\ k[2] = j /\ w \in Int /\ j \in Int
    BY <1>1 DEF Workers
  <1> QED BY <1>2 DEF Position

(* A worker's active buffer is one of its own. *)
LEMMA ActiveIsBuffer ==
    ASSUME TypeOK, NEW w \in Workers
    PROVE  ActiveBuffer(w) \in Buffers
  BY DEF TypeOK, ActiveBuffer, Buffers

(* What a merge writes is a finite set of documents. *)
LEMMA ReadyDocsType ==
    ASSUME TypeOK
    PROVE  /\ ReadyBuffers \subseteq Buffers
           /\ ReadyDocs \in Segments
           /\ Cardinality(ReadyDocs) \in Nat
  <1>1. \A i \in DOMAIN ready : ready[i] \in Buffers
    BY DEF TypeOK
  <1>2. ReadyBuffers \subseteq Buffers
    BY <1>1 DEF ReadyBuffers
  <1>3. ReadyDocs \subseteq Docs
    BY <1>2 DEF ReadyDocs, TypeOK
  <1>4. IsFiniteSet(ReadyDocs)
    BY <1>3, FS_Subset, ParallelBuildAssumption
  <1> QED BY <1>2, <1>3, <1>4, FS_CardinalityType DEF Segments

(* The initial states have the types. *)
LEMMA TypeInit == Init => TypeInv
  <1> SUFFICES ASSUME Init PROVE TypeInv
    OBVIOUS
  <1>1. 0 \in Levels /\ 0 \in 0 .. 2 * NWorkers - 1
    BY ParallelBuildAssumption, LevelsAssumption DEF Levels
  <1>2. /\ unscanned \subseteq HeapBlocks
        /\ todo \in [Workers -> SUBSET Docs]
        /\ tuple \in [Workers -> Docs \cup {NoDoc}]
        /\ wpc \in [Workers -> WorkerSteps]
        /\ active \in [Workers -> {0, 1}]
    BY DEF Init, WorkerSteps
  <1>3. /\ status \in [Buffers -> {"empty", "filling", "ready"}]
        /\ buffer \in [Buffers -> SUBSET Docs]
    BY DEF Init
  <1>4. /\ chains \in [Levels -> Seq(Segments)]
        /\ counts \in [Levels -> Nat]
        /\ chain \in Seq(Segments)
        /\ ready \in Seq(Buffers)
    BY DEF Init, EmptyChains, ZeroCounts
  <1>5. TypeOK
    BY <1>1, <1>2, <1>3, <1>4 DEF Init, TypeOK, LeaderSteps
  <1>6. \A w \in Workers : <<w, 0>> \in Buffers
    BY DEF Buffers
  <1>7. WorkerInv
    BY <1>6, ParallelBuildAssumption DEF Init, WorkerInv
  <1>8. LeaderInv
    BY DEF Init, LeaderInv
  <1> QED BY <1>5, <1>7, <1>8 DEF TypeInv

(* A worker's step preserves it: one case for each action. *)
LEMMA WorkerTypeStep ==
    ASSUME TypeInv, NEW w \in Workers, WorkerStep(w)
    PROVE  TypeInv'
  <1> USE DEF TypeInv, TypeOK, WorkerInv, WorkerGoTo, WorkerSteps, leaderVars,
              metaVars, bufferVars
  <1>1. ActiveBuffer(w) \in Buffers /\ <<w, 0>> \in Buffers
    BY ActiveIsBuffer DEF Buffers
  <1>2. UNCHANGED leaderVars
    BY DEF WorkerStep, StartWorker, TakeBlock, FetchTuple, SwitchBuffer,
           AwaitBuffer, ProcessDocument, EndScan, SignalCompletion
  <1>3. LeaderInv'
    BY <1>2 DEF LeaderInv
  <1>4. CASE StartWorker(w)
    BY <1>1, <1>3, <1>4 DEF StartWorker
  <1>5. CASE TakeBlock(w)
    <2>1. PICK block \in unscanned :
             /\ unscanned' = unscanned \ {block}
             /\ todo' = [todo EXCEPT ![w] = block]
      BY <1>5 DEF TakeBlock
    <2>2. block \subseteq Docs
      BY ParallelBuildAssumption
    <2>3. tuple[w] \notin block
      BY <1>5, <2>2 DEF TakeBlock
    <2> QED BY <1>3, <1>5, <2>1, <2>2, <2>3 DEF TakeBlock
  <1>6. CASE FetchTuple(w)
    <2>1. PICK d \in todo[w] :
             /\ todo' = [todo EXCEPT ![w] = @ \ {d}]
             /\ tuple' = [tuple EXCEPT ![w] = d]
      BY <1>6 DEF FetchTuple
    <2>2. d \in Docs
      OBVIOUS
    <2> QED BY <1>3, <1>6, <2>1, <2>2 DEF FetchTuple
  <1>7. CASE SwitchBuffer(w)
    <2>1. TypeOK'
      BY <1>1, <1>7 DEF SwitchBuffer
    <2>2. WorkerInv'
      BY <1>1, <1>7 DEF SwitchBuffer, ActiveBuffer, Buffers
    <2> QED BY <1>3, <2>1, <2>2
  <1>8. CASE AwaitBuffer(w)
    <2>1. TypeOK'
      BY <1>1, <1>8 DEF AwaitBuffer
    <2>2. WorkerInv'
      BY <1>1, <1>8 DEF AwaitBuffer, ActiveBuffer, Buffers
    <2> QED BY <1>3, <2>1, <2>2
  <1>9. CASE ProcessDocument(w)
    <2>1. tuple[w] \in Docs
      BY <1>9 DEF ProcessDocument
    <2>2. TypeOK'
      BY <1>1, <1>9, <2>1 DEF ProcessDocument
    <2>3. NoDoc \notin Docs /\ NoDoc \notin todo[w]
      BY ParallelBuildAssumption
    <2>4. WorkerInv'
      BY <1>9, <2>3 DEF ProcessDocument
    <2> QED BY <1>3, <2>2, <2>4
  <1>10. CASE EndScan(w)
    <2>1. TypeOK'
      BY <1>1, <1>10 DEF EndScan
    <2>2. WorkerInv'
      BY <1>1, <1>10 DEF EndScan, ActiveBuffer, Buffers
    <2> QED BY <1>3, <2>1, <2>2
  <1>11. CASE SignalCompletion(w)
    BY <1>3, <1>11 DEF SignalCompletion
  <1> QED BY <1>4, <1>5, <1>6, <1>7, <1>8, <1>9, <1>10, <1>11 DEF WorkerStep

(* Appending a buffer that the sweep has just reached keeps the buffers in *)
(* hand apart.                                                             *)
LEMMA SweepStep ==
    ASSUME TypeInv, CollectBuffer
    PROVE  TypeInv'
  <1> USE DEF TypeInv, TypeOK, LeaderSteps, metaVars, bufferVars, workerVars
  <1> DEFINE k == BufferAt(pos)
  <1>1. k \in Buffers /\ Position(k) = pos
    BY BufferAtPosition
  <1>2. ready' \in Seq(Buffers)
    BY <1>1 DEF CollectBuffer
  <1>3. pos' \in 0 .. 2 * NWorkers - 1
    BY ParallelBuildAssumption DEF CollectBuffer
  <1>4. TypeOK'
    BY <1>2, <1>3 DEF CollectBuffer
  <1>5. WorkerInv'
    BY DEF CollectBuffer, WorkerInv
  <1>6. \A i \in DOMAIN ready : Position(ready[i]) < pos /\ ready[i] # k
    BY <1>1 DEF CollectBuffer, LeaderInv
  <1>7. /\ \A i \in DOMAIN ready' : Position(ready'[i]) < pos + 1
        /\ \A i, j \in DOMAIN ready' : i # j => ready'[i] # ready'[j]
    <2> HIDE DEF k
    <2>1. CASE ready' = ready
      <3>1. \A i \in DOMAIN ready : Position(ready[i]) \in Int
        BY PositionType
      <3> QED BY <1>6, <2>1, <3>1 DEF LeaderInv
    <2>2. CASE ready' = Append(ready, k)
      <3>1. \A i \in DOMAIN ready : Position(ready[i]) \in Int
        BY PositionType
      <3>2. DOMAIN ready' = 1 .. Len(ready) + 1 /\ DOMAIN ready = 1 .. Len(ready)
        BY <1>1, <2>2
      <3>3. /\ \A i \in DOMAIN ready : ready'[i] = ready[i]
            /\ ready'[Len(ready) + 1] = k
        BY <1>1, <2>2
      <3>4. \A i \in DOMAIN ready' : i \in DOMAIN ready \/ i = Len(ready) + 1
        BY <3>2
      <3>5. \A i \in DOMAIN ready' : Position(ready'[i]) < pos + 1
        <4> SUFFICES ASSUME NEW i \in DOMAIN ready' PROVE Position(ready'[i]) < pos + 1
          OBVIOUS
        <4>1. pos \in Int
          OBVIOUS
        <4>2. CASE i \in DOMAIN ready
          <5>1. ready'[i] = ready[i] /\ Position(ready[i]) < pos /\ Position(ready[i]) \in Int
            BY <1>6, <3>1, <3>3, <4>2
          <5> QED BY <4>1, <5>1
        <4>3. CASE i = Len(ready) + 1
          <5>1. ready'[i] = k
            BY <3>3, <4>3
          <5> QED BY <1>1, <4>1, <5>1
        <4> QED BY <3>4, <4>2, <4>3
      <3>6. \A i, j \in DOMAIN ready' : i # j => ready'[i] # ready'[j]
        BY <1>6, <3>3, <3>4 DEF LeaderInv
      <3> QED BY <3>5, <3>6
    <2> QED BY <2>1, <2>2 DEF CollectBuffer, k
  <1>8. LeaderInv'
    BY <1>7 DEF LeaderInv, CollectBuffer
  <1> QED BY <1>4, <1>5, <1>8

(* Taking the first of several buffers leaves some, of one leaves none. *)
LEMMA TailFacts ==
    ASSUME NEW S, NEW s \in Seq(S), s # <<>>
    PROVE  /\ Len(s) > 1 => Tail(s) # <<>>
           /\ ~(Len(s) > 1) => Tail(s) = <<>>
  <1>1. Len(s) \in Nat
    OBVIOUS
  <1>2. Len(Tail(s)) = Len(s) - 1
    OBVIOUS
  <1>3. Len(<<>>) = 0
    OBVIOUS
  <1>4. \A n \in Nat : n - 1 = 0 => ~(n > 1)
    OBVIOUS
  <1>5. ASSUME Len(s) > 1, Tail(s) = <<>> PROVE FALSE
    <2>1. Len(s) - 1 = 0
      BY <1>2, <1>3, <1>5, Zenon
    <2> QED BY <1>1, <1>4, <1>5, <2>1, Zenon
  <1>6. ASSUME ~(Len(s) > 1) PROVE Tail(s) = <<>>
    BY <1>1, <1>2, <1>6
  <1> QED BY <1>5, <1>6

(* The leader's other steps. *)
LEMMA LeaderTypeStep ==
    ASSUME TypeInv, LeaderStep
    PROVE  TypeInv'
  <1> USE DEF TypeInv, TypeOK, LeaderSteps, metaVars, bufferVars, workerVars
  <1>1. CASE CollectBuffer
    BY <1>1, SweepStep
  <1>2. CASE CheckDone
    <2>a. allDone' \in BOOLEAN
      BY <1>2 DEF CheckDone, AllWorkersDone
    <2>b. \/ lpc' = "merge" /\ ready' = ready /\ ready # <<>>
          \/ lpc' \in {"stats", "collect"} /\ ready' = <<>>
      <3>1. EnoughReady(allDone') => ready # <<>>
        BY DEF EnoughReady
      <3>2. \/ EnoughReady(allDone') /\ lpc' = "merge" /\ UNCHANGED ready
            \/ lpc' \in {"stats", "collect"} /\ ready' = <<>>
        BY <1>2, Zenon DEF CheckDone
      <3> QED BY <3>1, <3>2
    <2>c. UNCHANGED <<workerVars, bufferVars, workersDone, pos, chain, totalDocs,
                      level, metaVars>>
      BY <1>2 DEF CheckDone
    <2>d. lpc' \in LeaderSteps /\ ready' \in Seq(Buffers)
      <3>1. ready \in Seq(Buffers) /\ <<>> \in Seq(Buffers)
        OBVIOUS
      <3> QED BY <2>b, <3>1, Zenon
    <2>1. TypeOK'
      BY <2>a, <2>c, <2>d, Zenon
    <2>2. LeaderInv'
      BY <1>2, <2>b, <2>c DEF CheckDone, LeaderInv
    <2>3. WorkerInv'
      BY <2>c DEF WorkerInv
    <2> QED BY <2>1, <2>2, <2>3
  <1>3. CASE MergeBuffers
    <2>1. chain' \in Seq(Segments) /\ totalDocs' \in Nat
      BY <1>3, ReadyDocsType DEF MergeBuffers
    <2>2. TypeOK'
      BY <1>3, <2>1 DEF MergeBuffers
    <2>3. LeaderInv'
      BY <1>3 DEF MergeBuffers, LeaderInv
    <2>4. WorkerInv'
      BY <1>3 DEF MergeBuffers, WorkerInv
    <2> QED BY <2>2, <2>3, <2>4
  <1>4. CASE ClearBuffer
    <2>1. ready # <<>> /\ Head(ready) \in Buffers
      BY <1>4 DEF ClearBuffer, LeaderInv
    <2>2. /\ Tail(ready) \in Seq(Buffers)
          /\ DOMAIN Tail(ready) = 1 .. Len(ready) - 1
          /\ \A i \in DOMAIN Tail(ready) :
                i + 1 \in DOMAIN ready /\ Tail(ready)[i] = ready[i + 1]
      BY <2>1
    <2>3. lpc' \in {"clear", "stats", "collect"}
      BY <1>4 DEF ClearBuffer, AfterClear
    <2>4. TypeOK'
      BY <1>4, <2>1, <2>2, <2>3 DEF ClearBuffer
    <2>5. \A i, j \in DOMAIN ready' : i # j => ready'[i] # ready'[j]
      BY <1>4, <2>2 DEF ClearBuffer, LeaderInv
    <2>6. lpc' = "clear" => ready' # <<>>
      <3>1. lpc' = "clear" => Len(ready) > 1
        BY <1>4 DEF ClearBuffer, AfterClear
      <3>2. Len(ready) > 1 => Tail(ready) # <<>>
        BY <2>1, TailFacts
      <3>3. ready' = Tail(ready)
        BY <1>4 DEF ClearBuffer
      <3> QED BY <3>1, <3>2, <3>3
    <2>7. lpc' = "collect" => ready' = <<>>
      BY <1>4, <2>1, <2>2 DEF ClearBuffer, AfterClear
    <2>8. LeaderInv'
      BY <1>4, <2>3, <2>5, <2>6, <2>7 DEF ClearBuffer, LeaderInv
    <2>9. WorkerInv'
      BY <1>4, <2>1 DEF ClearBuffer, WorkerInv, Buffers
    <2> QED BY <2>4, <2>8, <2>9
  <1>5. CASE WriteMetapage
    <2>1. 0 \in Levels
      BY LevelsAssumption DEF Levels
    <2>2. TypeOK'
      BY <1>5, <2>1 DEF WriteMetapage
    <2>3. LeaderInv'
      BY <1>5 DEF WriteMetapage, LeaderInv
    <2>4. WorkerInv'
      BY <1>5 DEF WriteMetapage, WorkerInv
    <2> QED BY <2>2, <2>3, <2>4
  <1>6. CASE CompactLevel
    <2> DEFINE docs == ChainDocs(MergeSources(chains[level], counts[level]))
    <2>1. level \in Levels /\ level + 1 \in Levels
      BY <1>6, LevelsAssumption DEF CompactLevel, NeedsCompaction, Levels
    <2>2. docs \in Segments
      BY <2>1, MergeSourcesType
    <2>3. chains' = ReplaceLevel(chains, level, docs)
      BY <1>6 DEF CompactLevel
    <2> HIDE DEF docs
    <2>4. chains' \in [Levels -> Seq(Segments)]
      BY <2>1, <2>2, <2>3, ReplaceLevelValue DEF ChainsType
    <2>5. counts' \in [Levels -> Nat]
      BY <1>6, <2>1, RecountLevelValue DEF CompactLevel
    <2>6. TypeOK'
      BY <1>6, <2>1, <2>4, <2>5 DEF CompactLevel
    <2>7. LeaderInv'
      BY <1>6 DEF CompactLevel, LeaderInv
    <2>8. WorkerInv'
      BY <1>6 DEF CompactLevel, WorkerInv
    <2> QED BY <2>6, <2>7, <2>8
  <1>7. CASE FinishBuild
    <2>1. LeaderInv'
      BY <1>7 DEF FinishBuild, LeaderInv
    <2>2. WorkerInv'
      BY <1>7 DEF FinishBuild, WorkerInv
    <2> QED BY <1>7, <2>1, <2>2 DEF FinishBuild
  <1> QED BY <1>1, <1>2, <1>3, <1>4, <1>5, <1>6, <1>7 DEF LeaderStep

(* The type invariant with what it rests on. *)
LEMMA TypeInvariant == Spec => []TypeInv
  <1>1. ASSUME TypeInv, [Next]_vars PROVE TypeInv'
    <2>1. CASE LeaderStep
      BY <1>1, <2>1, LeaderTypeStep
    <2>2. ASSUME NEW w \in Workers, WorkerStep(w) PROVE TypeInv'
      BY <1>1, <2>2, WorkerTypeStep
    <2>3. CASE UNCHANGED vars
      BY <1>1, <2>3 DEF TypeInv, TypeOK, WorkerInv, LeaderInv, vars, workerVars,
                        bufferVars, leaderVars, metaVars
    <2> QED BY <1>1, <2>1, <2>2, <2>3 DEF Next, Terminated
  <1> QED BY <1>1, TypeInit, PTL DEF Spec

(* Every variable of the build keeps its type (TpParallelBuildShared, the  *)
(* workers' buffers, the leader's ready_buffers).                          *)
THEOREM BuildTypeCorrect == Spec => []TypeOK
  <1>1. TypeInv => TypeOK
    BY DEF TypeInv
  <1> QED BY <1>1, TypeInvariant, PTL

----------------------------------------------------------------------------
(***************************************************************************)
(* The hand-over of buffers.  BufferHandover is inductive given TypeInv:   *)
(* that the leader holds no buffer twice is what makes giving one back     *)
(* safe.                                                                   *)
(***************************************************************************)

(* The active buffers of two workers are two buffers. *)
LEMMA ActiveDistinct ==
    ASSUME NEW v \in Workers, NEW w \in Workers, v # w
    PROVE  ActiveBuffer(v) # ActiveBuffer(w)
  BY DEF ActiveBuffer

(* The worker's part. *)
LEMMA WorkerHandover ==
    ASSUME TypeInv, BufferHandover, NEW w \in Workers, WorkerStep(w)
    PROVE  BufferHandover'
  <1> DEFINE a == ActiveBuffer(w)
  <1> USE DEF TypeInv, TypeOK, WorkerGoTo, leaderVars, bufferVars
  <1>1. a \in Buffers /\ <<w, 0>> \in Buffers
    BY ActiveIsBuffer DEF Buffers
  <1>2. ready' = ready
    BY DEF WorkerStep, StartWorker, TakeBlock, FetchTuple, SwitchBuffer,
           AwaitBuffer, ProcessDocument, EndScan, SignalCompletion
  <1>3. ReadyBuffers' = ReadyBuffers /\ ReadyBuffers \subseteq Buffers
    BY <1>2, ReadyDocsType DEF ReadyBuffers
  <1>4. /\ \A v \in Workers : wpc[v] \in {"scan", "process", "switch"} =>
             status[ActiveBuffer(v)] = "filling"
        /\ \A k \in ReadyBuffers : status[k] = "ready"
        /\ \A k \in Buffers : status[k] = "empty" => buffer[k] = {}
        /\ \A v \in Workers \ {w} : ActiveBuffer(v) # a
        /\ \A v \in Workers : ActiveBuffer(v) \in Buffers
    BY ActiveDistinct, ActiveIsBuffer DEF BufferHandover
  <1>5. ASSUME active' = active PROVE \A v \in Workers : ActiveBuffer(v)' = ActiveBuffer(v)
    BY <1>5 DEF ActiveBuffer
  <1>6. CASE StartWorker(w)
    <2>1. a = <<w, 0>> /\ status[a] = "empty"
      BY <1>6 DEF StartWorker, WorkerInv, ActiveBuffer
    <2>2. a \notin ReadyBuffers
      BY <1>4, <2>1
    <2>3. /\ status' = [status EXCEPT ![a] = "filling"]
          /\ buffer' = buffer /\ active' = active
          /\ wpc' = [wpc EXCEPT ![w] = "scan"]
      BY <1>6, <2>1 DEF StartWorker
    <2> HIDE DEF a
    <2> QED BY <1>1, <1>3, <1>4, <1>5, <2>2, <2>3 DEF BufferHandover, a
  <1>7. CASE TakeBlock(w) \/ FetchTuple(w) \/ SignalCompletion(w)
    <2>1. /\ status' = status /\ buffer' = buffer /\ active' = active
          /\ wpc[w] = "scan" \/ wpc'[w] = "done"
          /\ \A v \in Workers \ {w} : wpc'[v] = wpc[v]
      BY <1>7 DEF TakeBlock, FetchTuple, SignalCompletion
    <2> QED BY <1>3, <1>4, <1>5, <2>1 DEF BufferHandover
  <1>8. CASE SwitchBuffer(w)
    <2>1. status[a] = "filling" /\ a \notin ReadyBuffers
      BY <1>4, <1>8 DEF SwitchBuffer
    <2>2. /\ status' = [status EXCEPT ![a] = "ready"]
          /\ buffer' = buffer
          /\ wpc' = [wpc EXCEPT ![w] = "wait"]
          /\ \A v \in Workers \ {w} : ActiveBuffer(v)' = ActiveBuffer(v)
      BY <1>8 DEF SwitchBuffer, ActiveBuffer
    <2> HIDE DEF a
    <2> QED BY <1>1, <1>3, <1>4, <2>1, <2>2 DEF BufferHandover
  <1>9. CASE AwaitBuffer(w)
    <2>1. status[a] = "empty" /\ a \notin ReadyBuffers
      BY <1>4, <1>9 DEF AwaitBuffer
    <2>2. /\ status' = [status EXCEPT ![a] = "filling"]
          /\ buffer' = buffer /\ active' = active
          /\ wpc' = [wpc EXCEPT ![w] = "process"]
      BY <1>9 DEF AwaitBuffer
    <2> HIDE DEF a
    <2> QED BY <1>1, <1>3, <1>4, <1>5, <2>1, <2>2 DEF BufferHandover, a
  <1>10. CASE ProcessDocument(w)
    <2>1. status[a] = "filling"
      BY <1>4, <1>10 DEF ProcessDocument
    <2>2. /\ status' = status /\ active' = active
          /\ \A k \in Buffers \ {a} : buffer'[k] = buffer[k]
          /\ wpc[w] = "process" /\ wpc' = [wpc EXCEPT ![w] = "scan"]
      BY <1>10 DEF ProcessDocument
    <2> HIDE DEF a
    <2> QED BY <1>1, <1>3, <1>4, <1>5, <2>1, <2>2 DEF BufferHandover
  <1>11. CASE EndScan(w)
    <2>1. status[a] = "filling" /\ a \notin ReadyBuffers
      BY <1>4, <1>11 DEF EndScan
    <2>2. /\ status'[a] = "empty" => buffer[a] = {}
          /\ \A k \in Buffers \ {a} : status'[k] = status[k]
          /\ buffer' = buffer /\ active' = active
          /\ wpc' = [wpc EXCEPT ![w] = "complete"]
      BY <1>1, <1>11 DEF EndScan
    <2> HIDE DEF a
    <2>3. \A v \in Workers : wpc'[v] \in {"scan", "process", "switch"} =>
             status'[ActiveBuffer(v)'] = "filling"
      BY <1>4, <1>5, <2>2
    <2>4. \A k \in ReadyBuffers' : status'[k] = "ready"
      BY <1>3, <1>4, <2>1, <2>2
    <2>5. \A k \in Buffers : status'[k] = "empty" => buffer'[k] = {}
      BY <1>4, <2>2
    <2> QED BY <2>3, <2>4, <2>5 DEF BufferHandover
  <1> QED BY <1>6, <1>7, <1>8, <1>9, <1>10, <1>11 DEF WorkerStep

(* The leader's part. *)
LEMMA LeaderHandover ==
    ASSUME TypeInv, BufferHandover, LeaderStep
    PROVE  BufferHandover'
  <1> USE DEF TypeInv, TypeOK, workerVars, bufferVars
  <1>1. UNCHANGED workerVars
    BY DEF LeaderStep, CollectBuffer, CheckDone, MergeBuffers, ClearBuffer,
           WriteMetapage, CompactLevel, FinishBuild
  <1>2. \A w \in Workers : wpc'[w] = wpc[w] /\ ActiveBuffer(w)' = ActiveBuffer(w)
    BY <1>1 DEF ActiveBuffer
  <1>3. \A k \in ReadyBuffers : status[k] = "ready"
    BY DEF BufferHandover
  <1>4. CASE CollectBuffer
    <2>1. \/ ready' = ready
          \/ status[BufferAt(pos)] = "ready" /\ ready' = Append(ready, BufferAt(pos))
      BY <1>4 DEF CollectBuffer
    <2>2. BufferAt(pos) \in Buffers
      BY BufferAtPosition
    <2>3. \A k \in ReadyBuffers' : k \in ReadyBuffers \/ status[k] = "ready"
      <3>1. CASE ready' = ready
        BY <3>1 DEF ReadyBuffers
      <3>2. CASE status[BufferAt(pos)] = "ready" /\ ready' = Append(ready, BufferAt(pos))
        <4>1. \A i \in DOMAIN ready' :
                 (i \in DOMAIN ready /\ ready'[i] = ready[i]) \/ ready'[i] = BufferAt(pos)
          BY <2>2, <3>2
        <4> QED BY <3>2, <4>1 DEF ReadyBuffers
      <3> QED BY <2>1, <3>1, <3>2
    <2> QED BY <1>2, <1>3, <1>4, <2>3 DEF BufferHandover, CollectBuffer
  <1>5. CASE ClearBuffer
    <2> DEFINE k == Head(ready)
    <2>1. ready # <<>> /\ k \in Buffers /\ k = ready[1] /\ 1 \in DOMAIN ready
      BY <1>5 DEF ClearBuffer, LeaderInv
    <2>2. \A i \in DOMAIN Tail(ready) :
             i + 1 \in DOMAIN ready /\ i + 1 # 1 /\ Tail(ready)[i] = ready[i + 1]
      BY <2>1
    <2>3. \A i \in DOMAIN Tail(ready) : Tail(ready)[i] \in ReadyBuffers \ {k}
      BY <2>1, <2>2 DEF LeaderInv, ReadyBuffers
    <2>4. ReadyBuffers' \subseteq ReadyBuffers \ {k}
      BY <1>5, <2>3 DEF ClearBuffer, ReadyBuffers
    <2>5. status[k] = "ready"
      BY <1>3, <2>1 DEF ReadyBuffers
    <2>6. /\ status' = [status EXCEPT ![k] = "empty"]
          /\ buffer' = [buffer EXCEPT ![k] = {}]
      BY <1>5 DEF ClearBuffer
    <2> HIDE DEF k
    <2>7. ReadyBuffers \subseteq Buffers
      BY ReadyDocsType
    <2>8. \A w \in Workers : ActiveBuffer(w) \in Buffers
      BY ActiveIsBuffer
    <2> QED BY <1>2, <1>3, <2>1, <2>4, <2>5, <2>6, <2>7, <2>8 DEF BufferHandover
  <1>6. CASE CheckDone
    <2>1. ready' = ready \/ ready' = <<>>
      BY <1>6, Zenon DEF CheckDone
    <2>2. ReadyBuffers' \subseteq ReadyBuffers
      BY <2>1 DEF ReadyBuffers
    <2>3. UNCHANGED bufferVars
      BY <1>6 DEF CheckDone
    <2> QED BY <1>2, <1>3, <2>2, <2>3 DEF BufferHandover
  <1>7. CASE MergeBuffers \/ WriteMetapage \/ CompactLevel \/ FinishBuild
    <2>1. UNCHANGED <<bufferVars, ready>>
      BY <1>7 DEF MergeBuffers, WriteMetapage, CompactLevel, FinishBuild
    <2> QED BY <1>2, <1>3, <2>1 DEF BufferHandover, ReadyBuffers
  <1> QED BY <1>4, <1>5, <1>6, <1>7 DEF LeaderStep

(* Leader and workers never use one buffer at the same time, whatever the  *)
(* number of workers and the order in which they and the leader run: the   *)
(* status word alone keeps them apart.                                     *)
THEOREM HandoverSafe == Spec => []BufferHandover
  <1>1. Init => BufferHandover
    BY ParallelBuildAssumption DEF Init, BufferHandover, ReadyBuffers
  <1>2. ASSUME TypeInv, BufferHandover, [Next]_vars PROVE BufferHandover'
    <2>1. CASE LeaderStep
      BY <1>2, <2>1, LeaderHandover
    <2>2. ASSUME NEW w \in Workers, WorkerStep(w) PROVE BufferHandover'
      BY <1>2, <2>2, WorkerHandover
    <2>3. CASE UNCHANGED vars
      BY <1>2, <2>3 DEF BufferHandover, ReadyBuffers, ActiveBuffer, vars,
                        workerVars, bufferVars, leaderVars
    <2> QED BY <1>2, <2>1, <2>2, <2>3 DEF Next, Terminated
  <1> QED BY <1>1, <1>2, TypeInvariant, PTL DEF Spec

----------------------------------------------------------------------------
(***************************************************************************)
(* Every document is in exactly one place.  Most steps move no document;   *)
(* the three that do (TakeBlock, ProcessDocument, MergeBuffers) have a     *)
(* lemma each.                                                             *)
(***************************************************************************)

(* A step that moves no document keeps ExactlyOnce. *)
LEMMA SamePlaces ==
    ASSUME ExactlyOnce,
           Unscanned' = Unscanned,
           \A w \in Workers : InHand(w)' = InHand(w),
           \A k \in Buffers : Buffered(k)' = Buffered(k),
           chain' = chain
    PROVE  ExactlyOnce'
  BY DEF ExactlyOnce, ChainDocs

(* A worker takes a heap block for itself. *)
LEMMA TakeBlockOnce ==
    ASSUME TypeInv, ExactlyOnce, NEW w \in Workers, TakeBlock(w)
    PROVE  ExactlyOnce'
  <1>1. PICK block \in unscanned :
           /\ unscanned' = unscanned \ {block}
           /\ todo' = [todo EXCEPT ![w] = block]
    BY DEF TakeBlock
  <1>2. tuple[w] = NoDoc /\ todo[w] = {} /\ tuple' = tuple
    BY DEF TakeBlock, TypeInv, TypeOK, WorkerInv
  <1>3. InHand(w) = {} /\ InHand(w)' = block
    BY <1>1, <1>2 DEF InHand, TypeInv, TypeOK
  <1>4. \A v \in Workers \ {w} : InHand(v)' = InHand(v)
    BY <1>1, <1>2 DEF InHand, TypeInv, TypeOK
  <1>5. \A x \in unscanned \ {block} : x \cap block = {}
    BY ParallelBuildAssumption DEF TypeInv, TypeOK
  <1>6. /\ Unscanned' \cap block = {}
        /\ Unscanned = Unscanned' \cup block
    BY <1>1, <1>5 DEF Unscanned
  <1>7. \A k \in Buffers : Buffered(k)' = Buffered(k)
    BY DEF TakeBlock, Buffered, Merged, ReadyBuffers, bufferVars, leaderVars
  <1>8. chain' = chain /\ ChainDocs(chain)' = ChainDocs(chain)
    BY DEF TakeBlock, leaderVars, ChainDocs
  <1> QED BY <1>3, <1>4, <1>6, <1>7, <1>8 DEF ExactlyOnce

(* A worker adds the tuple in its slot to its active buffer. *)
LEMMA ProcessDocumentOnce ==
    ASSUME TypeInv, BufferHandover, ExactlyOnce, NEW w \in Workers,
           ProcessDocument(w)
    PROVE  ExactlyOnce'
  <1>a. PICK a \in Buffers : a = ActiveBuffer(w)
    BY ActiveIsBuffer DEF TypeInv
  <1>t. PICK t \in Docs : t = tuple[w]
    BY DEF ProcessDocument, TypeInv, WorkerInv
  <1> DEFINE kept == {t} \ Skipped
  <1>1. t # NoDoc /\ t \notin todo[w]
    BY <1>t, ParallelBuildAssumption DEF TypeInv, WorkerInv
  <1>2. status[a] = "filling" /\ a \notin ReadyBuffers
    BY <1>a DEF ProcessDocument, BufferHandover
  <1>3. t \in InHand(w) /\ InHand(w)' = InHand(w) \ {t}
    BY <1>t, <1>1 DEF ProcessDocument, InHand, TypeInv, TypeOK
  <1>4. \A v \in Workers \ {w} : InHand(v)' = InHand(v)
    BY DEF ProcessDocument, InHand, TypeInv, TypeOK
  <1>b. ReadyBuffers' = ReadyBuffers /\ buffer' = [buffer EXCEPT ![a] = @ \cup kept]
    BY <1>a, <1>t DEF ProcessDocument, ReadyBuffers, leaderVars
  <1>5. Buffered(a)' = Buffered(a) \cup kept
    <2>1. Buffered(a) = buffer[a] /\ Buffered(a)' = buffer'[a]
      BY <1>2, <1>b DEF Buffered, Merged
    <2> QED BY <1>b, <2>1 DEF TypeInv, TypeOK
  <1>6. \A k \in Buffers \ {a} : Buffered(k)' = Buffered(k)
    BY <1>a DEF ProcessDocument, Buffered, Merged, ReadyBuffers, TypeInv, TypeOK,
                leaderVars
  <1>7. Unscanned' = Unscanned /\ chain' = chain /\ ChainDocs(chain)' = ChainDocs(chain)
    BY DEF ProcessDocument, Unscanned, leaderVars, ChainDocs
  <1>8. kept \subseteq {t} /\ (t \in Docs \ Skipped => kept = {t})
    OBVIOUS
  <1> HIDE DEF kept
  <1>9. \A d \in Docs \ Skipped :
          \/ d \in Unscanned'
          \/ \E v \in Workers : d \in InHand(v)'
          \/ \E k \in Buffers : d \in Buffered(k)'
          \/ d \in ChainDocs(chain)'
    <2> SUFFICES ASSUME NEW d \in Docs \ Skipped
                 PROVE  \/ d \in Unscanned'
                        \/ \E v \in Workers : d \in InHand(v)'
                        \/ \E k \in Buffers : d \in Buffered(k)'
                        \/ d \in ChainDocs(chain)'
      OBVIOUS
    <2>1. CASE d = t
      BY <1>1, <1>5, <1>8, <2>1
    <2>2. CASE d # t
      <3>1. \A v \in Workers : d \in InHand(v) => d \in InHand(v)'
        BY <1>3, <1>4, <2>2
      <3>2. \A k \in Buffers : d \in Buffered(k) => d \in Buffered(k)'
        BY <1>5, <1>6
      <3> QED BY <1>7, <3>1, <3>2 DEF ExactlyOnce
    <2> QED BY <2>1, <2>2
  <1>10. \A v \in Workers : InHand(v)' \subseteq InHand(v) \ {t}
    BY <1>3, <1>4 DEF ExactlyOnce
  <1>11. \A k \in Buffers : Buffered(k)' \subseteq Buffered(k) \cup {t}
    BY <1>5, <1>6, <1>8
  <1>12. \A k \in Buffers : t \notin Buffered(k)
    BY <1>3 DEF ExactlyOnce
  <1>13. t \notin Unscanned /\ t \notin ChainDocs(chain)
    BY <1>3 DEF ExactlyOnce
  <1>14. ASSUME NEW v \in Workers
         PROVE  /\ InHand(v)' \cap (Unscanned' \cup ChainDocs(chain)') = {}
                /\ \A u \in Workers \ {v} : InHand(u)' \cap InHand(v)' = {}
                /\ \A k \in Buffers : InHand(v)' \cap Buffered(k)' = {}
    BY <1>7, <1>10, <1>11 DEF ExactlyOnce
  <1>15. ASSUME NEW k \in Buffers
         PROVE  /\ Buffered(k)' \cap (Unscanned' \cup ChainDocs(chain)') = {}
                /\ \A m \in Buffers \ {k} : Buffered(k)' \cap Buffered(m)' = {}
    <2>1. Buffered(k)' \cap (Unscanned' \cup ChainDocs(chain)') = {}
      BY <1>7, <1>11, <1>13 DEF ExactlyOnce
    <2>2. ASSUME NEW m \in Buffers \ {k} PROVE Buffered(k)' \cap Buffered(m)' = {}
      BY <1>5, <1>6, <1>8, <1>12 DEF ExactlyOnce
    <2> QED BY <2>1, <2>2
  <1> QED BY <1>7, <1>9, <1>14, <1>15 DEF ExactlyOnce

(* A segment at the tail of a chain adds its documents and no others. *)
LEMMA AppendSegment ==
    ASSUME NEW c \in Seq(Segments), NEW seg \in Segments
    PROVE  /\ DOMAIN Append(c, seg) = 1 .. Len(c) + 1
           /\ DOMAIN c = 1 .. Len(c)
           /\ \A i \in DOMAIN c : Append(c, seg)[i] = c[i]
           /\ Append(c, seg)[Len(c) + 1] = seg
           /\ ChainDocs(Append(c, seg)) = ChainDocs(c) \cup seg
  <1>1. /\ DOMAIN Append(c, seg) = 1 .. Len(c) + 1
        /\ DOMAIN c = 1 .. Len(c)
        /\ Len(c) \in Nat
    OBVIOUS
  <1>2. /\ \A i \in DOMAIN c : Append(c, seg)[i] = c[i]
        /\ Append(c, seg)[Len(c) + 1] = seg
    OBVIOUS
  <1>3. \A i \in DOMAIN Append(c, seg) : i \in DOMAIN c \/ i = Len(c) + 1
    BY <1>1
  <1>4. /\ \A i \in DOMAIN c : i \in DOMAIN Append(c, seg)
        /\ Len(c) + 1 \in DOMAIN Append(c, seg)
    BY <1>1
  <1>5. ChainDocs(Append(c, seg)) \subseteq ChainDocs(c) \cup seg
    BY <1>2, <1>3 DEF ChainDocs
  <1>6. ChainDocs(c) \cup seg \subseteq ChainDocs(Append(c, seg))
    BY <1>2, <1>4 DEF ChainDocs
  <1> QED BY <1>1, <1>2, <1>5, <1>6

(* The leader merges the buffers in its hands into a segment. *)
LEMMA MergeBuffersOnce ==
    ASSUME TypeInv, ExactlyOnce, MergeBuffers
    PROVE  ExactlyOnce'
  <1>1. PICK docs \in Segments : docs = ReadyDocs
    BY ReadyDocsType DEF TypeInv
  <1>2. PICK taken \in SUBSET Buffers : taken = ReadyBuffers
    BY ReadyDocsType DEF TypeInv
  <1>3. lpc = "merge" /\ lpc' = "clear" /\ buffer' = buffer /\ ReadyBuffers' = taken
    BY <1>2 DEF MergeBuffers, ReadyBuffers, bufferVars
  <1>4. \A k \in Buffers : Buffered(k) = buffer[k]
    BY <1>3 DEF Buffered, Merged
  <1>5. /\ \A k \in taken : Buffered(k)' = {} /\ Buffered(k) \subseteq docs
        /\ \A k \in Buffers \ taken : Buffered(k)' = Buffered(k)
    BY <1>1, <1>2, <1>3, <1>4 DEF Buffered, Merged, ReadyDocs
  <1>6. \A d \in docs : \E k \in taken : d \in Buffered(k)
    BY <1>1, <1>2, <1>4 DEF ReadyDocs
  <1>7. /\ Unscanned' = Unscanned
        /\ \A w \in Workers : InHand(w)' = InHand(w)
    BY DEF MergeBuffers, Unscanned, InHand, workerVars
  <1>8. chain' = IF docs = {} THEN chain ELSE Append(chain, docs)
    BY <1>1 DEF MergeBuffers
  <1>9. ChainDocs(chain)' = ChainDocs(chain) \cup docs
    <2>1. chain \in Seq(Segments) /\ ChainDocs(chain)' = ChainDocs(chain')
      BY DEF TypeInv, TypeOK, ChainDocs
    <2>2. CASE docs = {}
      BY <1>8, <2>1, <2>2
    <2>3. CASE docs # {}
      BY <1>8, <2>1, <2>3, AppendSegment
    <2> QED BY <2>2, <2>3
  <1>10. /\ docs \cap (Unscanned \cup ChainDocs(chain)) = {}
         /\ \A w \in Workers : docs \cap InHand(w) = {}
         /\ \A k \in Buffers \ taken : docs \cap Buffered(k) = {}
    BY <1>6 DEF ExactlyOnce
  <1>11. \A d \in Docs \ Skipped :
          \/ d \in Unscanned'
          \/ \E w \in Workers : d \in InHand(w)'
          \/ \E k \in Buffers : d \in Buffered(k)'
          \/ d \in ChainDocs(chain)'
    BY <1>5, <1>7, <1>9 DEF ExactlyOnce
  <1>12. \A w \in Workers :
          /\ InHand(w)' \cap (Unscanned' \cup ChainDocs(chain)') = {}
          /\ \A v \in Workers \ {w} : InHand(v)' \cap InHand(w)' = {}
          /\ \A k \in Buffers : InHand(w)' \cap Buffered(k)' = {}
    BY <1>5, <1>7, <1>9, <1>10 DEF ExactlyOnce
  <1>13. \A k \in Buffers :
          /\ Buffered(k)' \cap (Unscanned' \cup ChainDocs(chain)') = {}
          /\ \A m \in Buffers \ {k} : Buffered(k)' \cap Buffered(m)' = {}
    BY <1>5, <1>7, <1>9, <1>10 DEF ExactlyOnce
  <1>14. Unscanned' \cap ChainDocs(chain)' = {}
    BY <1>7, <1>9, <1>10 DEF ExactlyOnce
  <1>15. \A i, j \in DOMAIN chain' : i # j => chain'[i] \cap chain'[j] = {}
    <2>1. CASE docs = {}
      BY <1>8, <2>1 DEF ExactlyOnce
    <2>2. CASE docs # {}
      <3>1. chain' = Append(chain, docs) /\ chain \in Seq(Segments)
        BY <1>8, <2>2 DEF TypeInv, TypeOK
      <3>2. /\ DOMAIN chain' = 1 .. Len(chain) + 1
            /\ DOMAIN chain = 1 .. Len(chain)
            /\ \A i \in DOMAIN chain : chain'[i] = chain[i]
            /\ chain'[Len(chain) + 1] = docs
        BY <3>1, AppendSegment
      <3>3. \A i \in DOMAIN chain' : i \in DOMAIN chain \/ i = Len(chain) + 1
        BY <3>1, <3>2
      <3>4. \A i \in DOMAIN chain : chain[i] \cap docs = {}
        BY <1>10 DEF ChainDocs
      <3> QED BY <3>2, <3>3, <3>4 DEF ExactlyOnce
    <2> QED BY <2>1, <2>2
  <1> QED BY <1>11, <1>12, <1>13, <1>14, <1>15 DEF ExactlyOnce

(* Emptying a merged buffer moves no document: they are in the chain. *)
LEMMA ClearBufferOnce ==
    ASSUME TypeInv, ExactlyOnce, ClearBuffer
    PROVE  ExactlyOnce'
  <1>1. PICK k \in Buffers : k = Head(ready)
    BY DEF ClearBuffer, TypeInv, TypeOK, LeaderInv
  <1>2. ready \in Seq(Buffers) /\ ready # <<>> /\ k = ready[1] /\ 1 \in DOMAIN ready
    BY <1>1 DEF ClearBuffer, TypeInv, TypeOK, LeaderInv
  <1>3. lpc = "clear" /\ ready' = Tail(ready) /\ buffer' = [buffer EXCEPT ![k] = {}]
    BY <1>1 DEF ClearBuffer
  <1>4. /\ \A i \in DOMAIN ready' : i + 1 \in DOMAIN ready /\ ready'[i] = ready[i + 1]
        /\ \A i \in DOMAIN ready : i # 1 => i - 1 \in DOMAIN ready' /\ ready'[i - 1] = ready[i]
    BY <1>2, <1>3
  <1>5. ReadyBuffers \ {k} \subseteq ReadyBuffers' /\ ReadyBuffers' \subseteq ReadyBuffers
    BY <1>2, <1>4 DEF ReadyBuffers
  <1>6. k \in ReadyBuffers
    BY <1>2 DEF ReadyBuffers
  <1>7. lpc' = "clear" \/ ReadyBuffers' = {}
    <2>1. lpc' # "clear" => ~(Len(ready) > 1)
      BY DEF ClearBuffer, AfterClear
    <2>2. lpc' # "clear" => ready' = <<>>
      BY <1>2, <1>3, <2>1, TailFacts
    <2> QED BY <2>2 DEF ReadyBuffers
  <1>8. Buffered(k) = {} /\ Buffered(k)' = {}
    BY <1>3, <1>6 DEF Buffered, Merged, TypeInv, TypeOK
  <1>9. \A m \in Buffers \ {k} : Buffered(m)' = Buffered(m)
    BY <1>3, <1>5, <1>7 DEF Buffered, Merged, TypeInv, TypeOK
  <1>10. /\ Unscanned' = Unscanned /\ chain' = chain
         /\ \A w \in Workers : InHand(w)' = InHand(w)
    BY DEF ClearBuffer, Unscanned, InHand, workerVars
  <1> QED BY <1>8, <1>9, <1>10, SamePlaces

(* The other steps of the leader move nothing either. *)
LEMMA LeaderOnce ==
    ASSUME TypeInv, ExactlyOnce, LeaderStep
    PROVE  ExactlyOnce'
  <1>1. CASE MergeBuffers
    BY <1>1, MergeBuffersOnce
  <1>2. CASE ClearBuffer
    BY <1>2, ClearBufferOnce
  <1>3. CASE CollectBuffer \/ CheckDone \/ WriteMetapage \/ CompactLevel \/ FinishBuild
    <2>1. UNCHANGED <<workerVars, bufferVars, chain>>
      BY <1>3 DEF CollectBuffer, CheckDone, WriteMetapage, CompactLevel, FinishBuild
    <2>2. lpc # "clear"
      BY <1>3 DEF CollectBuffer, CheckDone, WriteMetapage, CompactLevel, FinishBuild
    <2>3. lpc' # "clear"
      <3>1. CASE CollectBuffer
        BY <3>1 DEF CollectBuffer
      <3>2. CASE CheckDone
        BY <3>2 DEF CheckDone
      <3>3. CASE WriteMetapage \/ CompactLevel \/ FinishBuild
        BY <3>3 DEF WriteMetapage, CompactLevel, FinishBuild
      <3> QED BY <1>3, <3>1, <3>2, <3>3
    <2>4. /\ Unscanned' = Unscanned /\ chain' = chain
          /\ \A w \in Workers : InHand(w)' = InHand(w)
      BY <2>1 DEF Unscanned, InHand, workerVars
    <2>5. \A k \in Buffers : Buffered(k)' = Buffered(k)
      BY <2>1, <2>2, <2>3 DEF Buffered, Merged, bufferVars
    <2> QED BY <2>4, <2>5, SamePlaces
  <1> QED BY <1>1, <1>2, <1>3 DEF LeaderStep

(* The steps of a worker. *)
LEMMA WorkerOnce ==
    ASSUME TypeInv, BufferHandover, ExactlyOnce, NEW w \in Workers, WorkerStep(w)
    PROVE  ExactlyOnce'
  <1>1. CASE TakeBlock(w)
    BY <1>1, TakeBlockOnce
  <1>2. CASE ProcessDocument(w)
    BY <1>2, ProcessDocumentOnce
  <1>3. CASE FetchTuple(w)
    <2>1. PICK d \in todo[w] :
             /\ todo' = [todo EXCEPT ![w] = @ \ {d}]
             /\ tuple' = [tuple EXCEPT ![w] = d]
      BY <1>3 DEF FetchTuple
    <2>2. tuple[w] = NoDoc /\ d \in Docs /\ d # NoDoc
      <3>1. tuple[w] = NoDoc
        BY <1>3 DEF FetchTuple, TypeInv, TypeOK, WorkerInv
      <3>2. d \in Docs
        BY DEF TypeInv, TypeOK
      <3> QED BY <3>1, <3>2, ParallelBuildAssumption
    <2>3. \A v \in Workers : InHand(v)' = InHand(v)
      BY <2>1, <2>2 DEF InHand, TypeInv, TypeOK
    <2>4. Unscanned' = Unscanned /\ chain' = chain
      BY <1>3 DEF FetchTuple, Unscanned, leaderVars
    <2>5. \A k \in Buffers : Buffered(k)' = Buffered(k)
      BY <1>3 DEF FetchTuple, Buffered, Merged, ReadyBuffers, leaderVars, bufferVars
    <2> QED BY <2>3, <2>4, <2>5, SamePlaces
  <1>4. CASE \/ StartWorker(w) \/ SwitchBuffer(w) \/ AwaitBuffer(w)
             \/ EndScan(w) \/ SignalCompletion(w)
    <2>1. UNCHANGED <<unscanned, todo, tuple, buffer, leaderVars>>
      BY <1>4 DEF StartWorker, SwitchBuffer, AwaitBuffer, EndScan,
                  SignalCompletion, bufferVars
    <2>2. /\ Unscanned' = Unscanned /\ chain' = chain
          /\ \A v \in Workers : InHand(v)' = InHand(v)
          /\ \A k \in Buffers : Buffered(k)' = Buffered(k)
      BY <2>1 DEF Unscanned, InHand, Buffered, Merged, ReadyBuffers, leaderVars
    <2> QED BY <2>2, SamePlaces
  <1> QED BY <1>1, <1>2, <1>3, <1>4 DEF WorkerStep

(* No interleaving of leader and workers loses a document of the heap or   *)
(* indexes one twice on its way from the scan to a segment: it is always   *)
(* in exactly one place, and only documents without lexemes drop out.      *)
THEOREM DocumentsOnce == Spec => []ExactlyOnce
  <1>1. Init => ExactlyOnce
    <2> SUFFICES ASSUME Init PROVE ExactlyOnce
      OBVIOUS
    <2>1. /\ Unscanned = Docs /\ chain = <<>>
          /\ \A w \in Workers : InHand(w) = {}
          /\ \A k \in Buffers : Buffered(k) = {}
      BY ParallelBuildAssumption DEF Init, Unscanned, InHand, Buffered, Merged
    <2>2. DOMAIN chain = {} /\ ChainDocs(chain) = {}
      BY <2>1 DEF ChainDocs
    <2> QED BY <2>1, <2>2 DEF ExactlyOnce
  <1>2. ASSUME TypeInv, BufferHandover, ExactlyOnce, [Next]_vars PROVE ExactlyOnce'
    <2>1. CASE LeaderStep
      BY <1>2, <2>1, LeaderOnce
    <2>2. ASSUME NEW w \in Workers, WorkerStep(w) PROVE ExactlyOnce'
      BY <1>2, <2>2, WorkerOnce
    <2>3. CASE UNCHANGED vars
      <3>1. /\ Unscanned' = Unscanned /\ chain' = chain
            /\ \A w \in Workers : InHand(w)' = InHand(w)
            /\ \A k \in Buffers : Buffered(k)' = Buffered(k)
        BY <2>3 DEF Unscanned, InHand, Buffered, Merged, ReadyBuffers, vars,
                    workerVars, bufferVars, leaderVars
      <3> QED BY <1>2, <3>1, SamePlaces
    <2> QED BY <1>2, <2>1, <2>2, <2>3 DEF Next, Terminated
  <1> QED BY <1>1, <1>2, TypeInvariant, HandoverSafe, PTL DEF Spec

----------------------------------------------------------------------------
(* The counters follow the segments through the whole build: total_docs at *)
(* every step, the metapage from the moment it is written, whatever the    *)
(* compaction has merged since; before that nothing is linked.             *)
StatsInv ==
    /\ totalDocs = Cardinality(ChainDocs(chain))
    /\ lpc \notin {"compact", "finished"} => chains = EmptyChains /\ counts = ZeroCounts
    /\ lpc \in {"compact", "finished"} =>
          /\ metaDocs = totalDocs
          /\ LinkedDocs(chains) = ChainDocs(chain)
          /\ \A l \in Levels : counts[l] = Len(chains[l])

(* The documents of a chain of segments are finitely many. *)
LEMMA ChainDocsFinite ==
    ASSUME NEW c \in Seq(Segments)
    PROVE  /\ ChainDocs(c) \subseteq Docs
           /\ IsFiniteSet(ChainDocs(c))
           /\ Cardinality(ChainDocs(c)) \in Nat
  <1>1. \A i \in DOMAIN c : c[i] \in Segments
    OBVIOUS
  <1>2. ChainDocs(c) \subseteq Docs
    BY <1>1 DEF ChainDocs, Segments
  <1>3. IsFiniteSet(ChainDocs(c))
    BY <1>2, FS_Subset, ParallelBuildAssumption
  <1> QED BY <1>2, <1>3, FS_CardinalityType

(* The documents of a merge are new to the chain, so adding their number   *)
(* to total_docs is exact.                                                 *)
LEMMA MergeBuffersStats ==
    ASSUME TypeInv, ExactlyOnce, StatsInv, MergeBuffers
    PROVE  StatsInv'
  <1>1. PICK docs \in Segments : docs = ReadyDocs
    BY ReadyDocsType DEF TypeInv
  <1>2. PICK old \in Segments : old = ChainDocs(chain)
    <2>1. ChainDocs(chain) \subseteq Docs
      BY ChainDocsFinite DEF TypeInv, TypeOK
    <2> QED BY <2>1 DEF Segments
  <1>3. ChainDocs(chain') = old \cup docs
    <2>1. chain \in Seq(Segments) /\ chain' = IF docs = {} THEN chain ELSE Append(chain, docs)
      BY <1>1 DEF MergeBuffers, TypeInv, TypeOK
    <2>2. CASE docs = {}
      BY <1>2, <2>1, <2>2
    <2>3. CASE docs # {}
      BY <1>2, <2>1, <2>3, AppendSegment
    <2> QED BY <2>2, <2>3
  <1>4. docs \cap old = {}
    <2>1. ReadyBuffers \subseteq Buffers
      BY ReadyDocsType DEF TypeInv
    <2>2. \A k \in Buffers : Buffered(k) = buffer[k]
      BY DEF MergeBuffers, Buffered, Merged
    <2>3. \A k \in ReadyBuffers : buffer[k] \cap old = {}
      BY <1>2, <2>1, <2>2 DEF ExactlyOnce
    <2> QED BY <1>1, <2>3 DEF ReadyDocs
  <1>5. IsFiniteSet(docs) /\ IsFiniteSet(old)
    BY FS_Subset, ParallelBuildAssumption DEF Segments
  <1>6. /\ Cardinality(docs) \in Nat /\ Cardinality(old) \in Nat
        /\ Cardinality(old \cup docs)
              = Cardinality(old) + Cardinality(docs) - Cardinality(old \cap docs)
    BY <1>5, FS_Union, FS_CardinalityType
  <1>7. old \cap docs = {} /\ Cardinality({}) = 0
    BY <1>4, FS_EmptySet
  <1>8. Cardinality(old \cup docs) = Cardinality(old) + Cardinality(docs)
    <2>1. Cardinality(old \cap docs) = 0
      BY <1>7, Zenon
    <2>2. \A i, j \in Nat : i + j - 0 = i + j
      OBVIOUS
    <2> QED BY <1>6, <2>1, <2>2
  <1>9. totalDocs' = Cardinality(ChainDocs(chain'))
    BY <1>1, <1>2, <1>3, <1>8 DEF StatsInv, MergeBuffers
  <1> QED BY <1>9 DEF StatsInv, MergeBuffers, metaVars, ChainDocs

(* The metapage is written from the chain and the leader's counter. *)
LEMMA WriteMetapageStats ==
    ASSUME TypeInv, StatsInv, WriteMetapage
    PROVE  StatsInv'
  <1>1. PICK c \in Seq(Segments) : c = chain
    BY DEF TypeInv, TypeOK
  <1>2. 0 \in Levels
    BY LevelsAssumption DEF Levels
  <1>3. /\ chains' = [EmptyChains EXCEPT ![0] = c]
        /\ counts' = [ZeroCounts EXCEPT ![0] = Len(c)]
        /\ chain' = c /\ metaDocs' = totalDocs /\ totalDocs' = totalDocs
        /\ lpc' = "compact"
    BY <1>1 DEF WriteMetapage, StatsInv
  <1>4. /\ chains'[0] = c /\ counts'[0] = Len(c)
        /\ \A l \in Levels \ {0} : chains'[l] = <<>> /\ counts'[l] = 0
    BY <1>2, <1>3 DEF EmptyChains, ZeroCounts
  <1>5. \A l \in Levels : counts'[l] = Len(chains'[l])
    BY <1>4
  <1>6. ChainDocs(<<>>) = {}
    BY DEF ChainDocs
  <1>7. LinkedDocs(chains') = ChainDocs(c)
    <2>1. /\ ChainDocs(chains'[0]) = ChainDocs(c)
          /\ \A l \in Levels \ {0} : ChainDocs(chains'[l]) = {}
      BY <1>4, <1>6
    <2> QED BY <1>2, <2>1, Zenon DEF LinkedDocs
  <1>8. totalDocs = Cardinality(ChainDocs(c))
    BY <1>1 DEF StatsInv
  <1>9. /\ totalDocs' = Cardinality(ChainDocs(chain'))
        /\ LinkedDocs(chains') = ChainDocs(chain')
    BY <1>3, <1>7, <1>8
  <1> QED BY <1>3, <1>5, <1>9 DEF StatsInv, ChainDocs, LinkedDocs

(* A merge of a level opens all its segments, because level_counts is the  *)
(* length of the chain, and so keeps the documents and the counts.         *)
LEMMA CompactLevelStats ==
    ASSUME TypeInv, StatsInv, CompactLevel
    PROVE  StatsInv'
  <1>1. PICK cs \in ChainsType : cs = chains
    BY DEF TypeInv, TypeOK, ChainsType
  <1>2. PICK n \in [Levels -> Nat] : n = counts
    BY DEF TypeInv, TypeOK
  <1>3. PICK l \in Levels : l = level /\ l + 1 \in Levels
    BY NextLevel DEF CompactLevel, NeedsCompaction, TypeInv, TypeOK
  <1>4. \A m \in Levels : n[m] = Len(cs[m])
    BY <1>1, <1>2 DEF StatsInv, CompactLevel
  <1>5. cs[l] \in Seq(Segments) /\ cs[l + 1] \in Seq(Segments)
    BY <1>3 DEF ChainsType
  <1>6. MergeSources(cs[l], n[l]) = cs[l]
    BY <1>3, <1>4, <1>5, MergeSourcesAll
  <1>7. /\ chains' = ReplaceLevel(cs, l, ChainDocs(cs[l]))
        /\ counts' = RecountLevel(n, l)
    BY <1>1, <1>2, <1>3, <1>6 DEF CompactLevel
  <1>8. PICK seg \in Segments : seg = ChainDocs(cs[l])
    BY <1>5, ChainDocsFinite DEF Segments
  <1>9. LinkedDocs(chains') = LinkedDocs(cs)
    BY <1>3, <1>7, ReplaceLevelDocs
  <1>10. /\ chains'[l] = <<>>
         /\ chains'[l + 1] = <<seg>> \o cs[l + 1]
         /\ \A m \in Levels \ {l, l + 1} : chains'[m] = cs[m]
    BY <1>3, <1>7, <1>8, ReplaceLevelValue, SMTT(30)
  <1>11. /\ counts'[l] = 0
         /\ counts'[l + 1] = n[l + 1] + 1
         /\ \A m \in Levels \ {l, l + 1} : counts'[m] = n[m]
    BY <1>3, <1>7, RecountLevelValue
  <1>12. Len(chains'[l + 1]) = Len(cs[l + 1]) + 1
    BY <1>5, <1>8, <1>10, ConsChain
  <1>13. \A m \in Levels : counts'[m] = Len(chains'[m])
    <2>1. counts'[l] = Len(chains'[l])
      BY <1>10, <1>11
    <2>2. counts'[l + 1] = Len(chains'[l + 1])
      BY <1>3, <1>4, <1>11, <1>12
    <2>3. \A m \in Levels \ {l, l + 1} : counts'[m] = Len(chains'[m])
      BY <1>4, <1>10, <1>11
    <2> QED BY <2>1, <2>2, <2>3
  <1>14. /\ lpc = "compact" /\ lpc' = lpc /\ chain' = chain
         /\ totalDocs' = totalDocs /\ metaDocs' = metaDocs
    BY DEF CompactLevel
  <1>15. LinkedDocs(chains') = ChainDocs(chain') /\ totalDocs' = Cardinality(ChainDocs(chain'))
    BY <1>1, <1>9, <1>14 DEF StatsInv
  <1> QED BY <1>13, <1>14, <1>15 DEF StatsInv, ChainDocs, LinkedDocs

(* Every step keeps the counters right. *)
LEMMA StatsStep ==
    ASSUME TypeInv, ExactlyOnce, StatsInv, [Next]_vars
    PROVE  StatsInv'
  <1>1. CASE MergeBuffers
    BY <1>1, MergeBuffersStats
  <1>2. CASE WriteMetapage
    BY <1>2, WriteMetapageStats
  <1>3. CASE CompactLevel
    BY <1>3, CompactLevelStats
  <1>4. CASE CollectBuffer \/ CheckDone \/ ClearBuffer \/ FinishBuild
    <2>1. UNCHANGED <<chain, totalDocs, metaVars>>
      BY <1>4 DEF CollectBuffer, CheckDone, ClearBuffer, FinishBuild
    <2>2. \/ lpc \notin {"compact", "finished"} /\ lpc' \notin {"compact", "finished"}
          \/ lpc = "compact" /\ lpc' = "finished"
      <3>1. CASE CollectBuffer
        BY <3>1 DEF CollectBuffer
      <3>2. CASE CheckDone
        BY <3>2 DEF CheckDone
      <3>3. CASE ClearBuffer
        BY <3>3 DEF ClearBuffer, AfterClear
      <3>4. CASE FinishBuild
        BY <3>4 DEF FinishBuild
      <3> QED BY <1>4, <3>1, <3>2, <3>3, <3>4
    <2> QED BY <2>1, <2>2 DEF StatsInv, metaVars
  <1>5. CASE (\E w \in Workers : WorkerStep(w)) \/ UNCHANGED vars
    <2>1. UNCHANGED <<leaderVars, metaVars>>
      BY <1>5 DEF WorkerStep, StartWorker, TakeBlock, FetchTuple, SwitchBuffer,
                  AwaitBuffer, ProcessDocument, EndScan, SignalCompletion, vars
    <2> QED BY <2>1 DEF StatsInv, leaderVars, metaVars
  <1> QED BY <1>1, <1>2, <1>3, <1>4, <1>5 DEF Next, LeaderStep, Terminated

(* For any number of workers: total_docs, as the leader adds it up merge   *)
(* by merge, is the number of documents in its segments, and when CREATE   *)
(* INDEX ends the metapage's total_docs is the number of documents in all  *)
(* levels and level_counts the length of every chain.                      *)
THEOREM StatsExact == Spec => []StatsMatchSegments
  <1>1. Init => StatsInv
    <2> SUFFICES ASSUME Init PROVE StatsInv
      OBVIOUS
    <2>1. ChainDocs(chain) = {}
      BY DEF Init, ChainDocs
    <2> QED BY <2>1, FS_EmptySet DEF Init, StatsInv
  <1>2. StatsInv => StatsMatchSegments
    BY DEF StatsInv, StatsMatchSegments
  <1> QED BY <1>1, <1>2, StatsStep, TypeInvariant, DocumentsOnce, PTL DEF Spec
=============================================================================
