------------------------ MODULE CrashRecoveryProofs ------------------------
(***************************************************************************)
(* Theorems about CrashRecovery for any number of backends, documents,     *)
(* blocks and levels.                                                      *)
(***************************************************************************)
EXTENDS CrashRecovery, WellFoundedInduction, FiniteSetTheorems, TLAPS

(* What the step of a call says about it. *)
CallInv ==
    /\ op = "insert" => doc \in heap
    /\ pc \in {"add", "docid", "commit", "clear_docids"} => op = "insert"
    /\ pc \in {"flush", "clear", "clear_docids", "link", "merge_flush", "merge_link"} => seg \in Blocks
    /\ pc \in {"merge_flush", "merge_link"} => level < MaxLevels - 1
    /\ pc = "write" => memtable # {}
    /\ ~attached => pc = "idle"
    /\ pc = "idle" => op = "none"

TypeInv == TypeOK /\ CallInv

(* The n blocks of the file are docid pages, those of D, or pages of       *)
(* segments: a page of one kind never becomes one of the other, pointers   *)
(* stay within a kind and a docid page points to a later one.              *)
Segs(D, n) == (1 .. n) \ D

PagesLaid(pages, D, n) ==
    /\ \A k \in D : pages[k].kind # "segment"
    /\ \A k \in D : pages[k].next = NoBlock \/ (pages[k].next \in D /\ pages[k].next > k)
    /\ \A k \in Segs(D, n) : pages[k].kind # "docid"
    /\ \A k \in Segs(D, n) : pages[k].next \in Segs(D, n) \cup {NoBlock}
    /\ \A k \in Blocks \ (1 .. n) : pages[k] = ZeroPage

MetaLaid(m, D, n) ==
    /\ m.first \in D \cup {NoBlock}
    /\ \A l \in Levels : m.heads[l] \in Segs(D, n) \cup {NoBlock}

RefsLaid(D, n) ==
    /\ D \subseteq 1 .. n
    /\ free \subseteq Segs(D, n)
    /\ seg \in Segs(D, n) \cup {NoBlock}
    /\ \A b \in Backends : cache[b] \in D \cup {NoBlock}

Layout(D) ==
    /\ PagesLaid(page, D, nblocks) /\ PagesLaid(diskPage, D, nblocks)
    /\ MetaLaid(meta, D, nblocks) /\ MetaLaid(diskMeta, D, nblocks)
    /\ RefsLaid(D, nblocks)

LayoutInv == \E D \in SUBSET Blocks : Layout(D)

(* Segments have documents; one that a metapage names, in memory or on disk, is on disk. *)
SegmentInv ==
    /\ \A k \in Blocks : page[k].kind = "segment" => page[k].docs # {}
    /\ \A k \in Blocks : diskPage[k].kind = "segment" =>
                            diskPage[k].docs # {} /\ page[k].kind = "segment"
    /\ \A l \in Levels : meta.heads[l] # NoBlock => diskPage[meta.heads[l]].kind = "segment"
    /\ \A l \in Levels : diskMeta.heads[l] # NoBlock => diskPage[diskMeta.heads[l]].kind = "segment"
    /\ pc \in {"flush", "merge_flush"} => page[seg].kind = "segment"
    /\ pc \in {"clear", "clear_docids", "link", "merge_link"} => diskPage[seg].kind = "segment"

-----------------------------------------------------------------------------
(* Induction over the steps of a walk. *)

(* A set of natural numbers that is not empty has a least element. *)
LEMMA LeastNat ==
    ASSUME NEW T, T \subseteq Nat, T # {}
    PROVE  \E n \in T : \A m \in T : n <= m
  <1>1. PICK n \in T : \A m \in T : ~ (<<m, n>> \in OpToRel(<, Nat))
    BY NatLessThanWellFounded, WFMin, Zenon
  <1>2. \A m \in T : ~ (m < n)
    BY <1>1 DEF OpToRel
  <1> QED BY <1>2

(* A set that holds 0 and, with each number, the next one holds all of them. *)
LEMMA NatSetInduction ==
    ASSUME NEW S, 0 \in S, \A n \in Nat : n \in S => n + 1 \in S
    PROVE  \A n \in Nat : n \in S
  <1> SUFFICES ASSUME {n \in Nat : n \notin S} # {} PROVE FALSE
    OBVIOUS
  <1>1. PICK n \in {n \in Nat : n \notin S} : \A m \in {k \in Nat : k \notin S} : n <= m
    BY LeastNat
  <1>2. n # 0 /\ n - 1 \in Nat /\ n - 1 \in S
    BY <1>1
  <1> QED BY <1>1, <1>2

(* h is the walk along next from a block. *)
IsWalk(h, pages, start, num) ==
    h = [n \in 0 .. num |-> IF n = 0 THEN start
                            ELSE IF h[n - 1] = NoBlock THEN NoBlock
                            ELSE pages[h[n - 1]].next]

(* There is such a walk, and FirstBlocks are the blocks it meets. *)
LEMMA WalkExists ==
    ASSUME NEW pages, NEW start
    PROVE  \E h : /\ IsWalk(h, pages, start, MaxBlocks)
                  /\ \A num : FirstBlocks(pages, start, num) =
                       {h[n] : n \in {i \in 0 .. MaxBlocks : i < num}} \ {NoBlock}
  <1> DEFINE G == {k \in Nat : \E h : IsWalk(h, pages, start, k)}
             nxt(x) == IF x = NoBlock THEN NoBlock ELSE pages[x].next
  <1>1. 0 \in G
    <2> DEFINE h0 == [n \in 0 .. 0 |-> start]
    <2>1. IsWalk(h0, pages, start, 0)
      BY DEF IsWalk
    <2> QED BY <2>1
  <1>2. \A k \in Nat : k \in G => k + 1 \in G
    <2> SUFFICES ASSUME NEW k \in Nat, NEW h, IsWalk(h, pages, start, k)
                 PROVE  \E g : IsWalk(g, pages, start, k + 1)
      OBVIOUS
    <2> DEFINE g == [n \in 0 .. k + 1 |-> IF n = k + 1 THEN nxt(h[k]) ELSE h[n]]
    <2>1. \A n \in 0 .. k : h[n] = IF n = 0 THEN start ELSE nxt(h[n - 1])
      BY DEF IsWalk
    <2>2. \A n \in 0 .. k + 1 : g[n] = IF n = 0 THEN start ELSE nxt(g[n - 1])
      <3> HIDE DEF nxt
      <3> QED BY <2>1
    <2>3. g = [n \in 0 .. k + 1 |-> g[n]]
      OBVIOUS
    <2>4. IsWalk(g, pages, start, k + 1)
      <3> HIDE DEF g
      <3> QED BY <2>2, <2>3 DEF IsWalk
    <2> QED BY <2>4
  <1>3. MaxBlocks \in G
    <2> HIDE DEF G
    <2> QED BY <1>1, <1>2, NatSetInduction, RecoveryAssumption
  <1> DEFINE hop[n \in 0 .. MaxBlocks] ==
               IF n = 0 THEN start
               ELSE IF hop[n - 1] = NoBlock THEN NoBlock
               ELSE pages[hop[n - 1]].next
  <1>4. IsWalk(hop, pages, start, MaxBlocks)
    BY <1>3 DEF IsWalk
  <1>5. \A num : FirstBlocks(pages, start, num) =
                       {hop[n] : n \in {i \in 0 .. MaxBlocks : i < num}} \ {NoBlock}
    BY DEF FirstBlocks
  <1> HIDE DEF hop
  <1> QED BY <1>4, <1>5

(* A walk does not leave a set that is closed under next. *)
LEMMA WalkStays ==
    ASSUME NEW pages, NEW start, NEW num, NEW C, start \in C \cup {NoBlock},
           \A k \in C : pages[k].next \in C \cup {NoBlock}
    PROVE  FirstBlocks(pages, start, num) \subseteq C
  <1>1. PICK h : /\ IsWalk(h, pages, start, MaxBlocks)
                 /\ FirstBlocks(pages, start, num) =
                       {h[n] : n \in {i \in 0 .. MaxBlocks : i < num}} \ {NoBlock}
    BY WalkExists
  <1> DEFINE G == {n \in Nat : n \in 0 .. MaxBlocks => h[n] \in C \cup {NoBlock}}
  <1>2. 0 \in G
    BY <1>1, RecoveryAssumption DEF IsWalk
  <1>3. \A n \in Nat : n \in G => n + 1 \in G
    <2> SUFFICES ASSUME NEW n \in Nat, n \in G, n + 1 \in 0 .. MaxBlocks
                 PROVE  h[n + 1] \in C \cup {NoBlock}
      OBVIOUS
    <2>1. h[n] \in C \cup {NoBlock}
      BY RecoveryAssumption
    <2>2. h[n + 1] = IF h[n] = NoBlock THEN NoBlock ELSE pages[h[n]].next
      BY <1>1, RecoveryAssumption DEF IsWalk
    <2> QED BY <2>1, <2>2
  <1>4. \A n \in Nat : n \in G
    <2> HIDE DEF G
    <2> QED BY <1>2, <1>3, NatSetInduction
  <1> QED BY <1>1, <1>4

(* A walk begins at its start. *)
LEMMA WalkStarts ==
    ASSUME NEW pages, NEW start, start # NoBlock, NEW num \in Nat, num # 0
    PROVE  start \in FirstBlocks(pages, start, num)
  <1>0. PICK h : /\ IsWalk(h, pages, start, MaxBlocks)
                 /\ \A x : FirstBlocks(pages, start, x) =
                       {h[n] : n \in {i \in 0 .. MaxBlocks : i < x}} \ {NoBlock}
    BY WalkExists
  <1>1. /\ IsWalk(h, pages, start, MaxBlocks)
        /\ FirstBlocks(pages, start, num) = {h[n] : n \in {i \in 0 .. MaxBlocks : i < num}} \ {NoBlock}
    BY <1>0, Zenon
  <1>2. 0 \in {i \in 0 .. MaxBlocks : i < num} /\ h[0] = start
    BY <1>1, RecoveryAssumption DEF IsWalk
  <1> QED BY <1>1, <1>2

(* A chain whose pages point to later pages ends. *)
LEMMA ChainEnds ==
    ASSUME NEW pages, NEW D \in SUBSET Blocks, NEW start \in D,
           \A k \in D : pages[k].next = NoBlock \/ (pages[k].next \in D /\ pages[k].next > k)
    PROVE  \E k \in Reach(pages, start) : pages[k].next = NoBlock
  <1>1. PICK h : /\ IsWalk(h, pages, start, MaxBlocks)
                 /\ FirstBlocks(pages, start, MaxBlocks) =
                       {h[n] : n \in {i \in 0 .. MaxBlocks : i < MaxBlocks}} \ {NoBlock}
    BY WalkExists
  <1>2. \A n \in 0 .. MaxBlocks : h[n] = IF n = 0 THEN start
                                          ELSE IF h[n - 1] = NoBlock THEN NoBlock
                                          ELSE pages[h[n - 1]].next
    BY <1>1 DEF IsWalk
  <1>3. MaxBlocks \in Nat /\ NoBlock \notin Blocks
    BY RecoveryAssumption DEF Blocks
  <1>0. \A k \in D : k \in 1 .. MaxBlocks /\ k \in Int /\ k >= 1
    BY <1>3 DEF Blocks
  <1> DEFINE G == {n \in Nat : n \in 0 .. MaxBlocks => h[n] = NoBlock \/ (h[n] \in D /\ h[n] >= n + 1)}
  <1>4. 0 \in G
    <2>1. start >= 1
      BY <1>0
    <2> QED BY <1>2, <1>3, <2>1
  <1>5. \A n \in Nat : n \in G => n + 1 \in G
    <2> SUFFICES ASSUME NEW n \in Nat, n \in G, n + 1 \in 0 .. MaxBlocks
                 PROVE  h[n + 1] = NoBlock \/ (h[n + 1] \in D /\ h[n + 1] >= n + 1 + 1)
      OBVIOUS
    <2>1. h[n] = NoBlock \/ (h[n] \in D /\ h[n] >= n + 1)
      BY <1>3
    <2>2. h[n + 1] = IF h[n] = NoBlock THEN NoBlock ELSE pages[h[n]].next
      BY <1>2, <1>3
    <2>3. CASE h[n] = NoBlock
      BY <2>2, <2>3
    <2>4. CASE h[n] # NoBlock
      <3>1. h[n] \in D /\ h[n] \in Int /\ h[n] >= n + 1
        BY <1>0, <2>1, <2>4
      <3>2. h[n + 1] = NoBlock \/ (h[n + 1] \in D /\ h[n + 1] > h[n])
        BY <2>2, <2>4, <3>1
      <3>3. h[n + 1] \in D => h[n + 1] \in Int
        BY <1>0
      <3> QED BY <3>1, <3>2, <3>3
    <2> QED BY <2>3, <2>4
  <1>6. \A n \in Nat : n \in G
    <2> HIDE DEF G
    <2> QED BY <1>4, <1>5, NatSetInduction
  <1> DEFINE T == {n \in 0 .. MaxBlocks : h[n] = NoBlock}
  <1>7. MaxBlocks \in T
    <2>1. h[MaxBlocks] = NoBlock \/ (h[MaxBlocks] \in D /\ h[MaxBlocks] >= MaxBlocks + 1)
      BY <1>3, <1>6
    <2>2. h[MaxBlocks] \in D => h[MaxBlocks] \in 1 .. MaxBlocks
      BY <1>0
    <2> QED BY <1>3, <2>1, <2>2
  <1>8. PICK n \in T : \A m \in T : n <= m
    <2>1. T \subseteq Nat
      BY <1>3
    <2> QED BY <1>7, <2>1, LeastNat
  <1>9. n # 0 /\ n - 1 \in 0 .. MaxBlocks /\ n - 1 < MaxBlocks /\ n - 1 \notin T
    BY <1>2, <1>3, <1>8
  <1>10. h[n - 1] # NoBlock /\ pages[h[n - 1]].next = NoBlock
    BY <1>2, <1>3, <1>8, <1>9
  <1>11. h[n - 1] \in Reach(pages, start)
    BY <1>1, <1>9, <1>10 DEF Reach
  <1> QED BY <1>10, <1>11

-----------------------------------------------------------------------------
(* Types. *)

(* The number of levels and blocks, and what is not a block. *)
LEMMA Bounds ==
    /\ MaxBlocks \in Nat /\ MaxLevels \in Nat /\ MaxLevels >= 2 /\ SegmentsPerLevel \in Nat
    /\ NoBlock \notin Blocks /\ NoBlock \in BlockNumber /\ Blocks \subseteq BlockNumber
    /\ 0 \in Levels /\ Levels \subseteq Int /\ Blocks \subseteq Int
  BY RecoveryAssumption DEF Levels, Blocks, BlockNumber

(* Pages of the three kinds have their type. *)
LEMMA PageTypes ==
    ASSUME NEW docs \in SUBSET Docs, NEW next \in BlockNumber
    PROVE  /\ ZeroPage \in PageType /\ DocidPage(docs, next) \in PageType
           /\ SegmentPage(docs, next) \in PageType
  BY Bounds DEF ZeroPage, DocidPage, SegmentPage, PageType

(* Writing a page, its documents or its next pointer. *)
LEMMA WritePageEffect ==
    ASSUME NEW pages \in [Blocks -> PageType], NEW k \in Blocks, NEW p \in PageType,
           NEW w, w = [pages EXCEPT ![k] = p]
    PROVE  /\ w \in [Blocks -> PageType]
           /\ w[k] = p
           /\ \A j \in Blocks : j # k => w[j] = pages[j]
  OBVIOUS

(* Its next pointer is written. *)
LEMMA WriteNextEffect ==
    ASSUME NEW pages \in [Blocks -> PageType], NEW k \in Blocks, NEW x \in BlockNumber,
           NEW w, w = [pages EXCEPT ![k].next = x]
    PROVE  /\ w \in [Blocks -> PageType]
           /\ \A j \in Blocks : w[j].kind = pages[j].kind /\ w[j].docs = pages[j].docs
           /\ \A j \in Blocks : j # k => w[j] = pages[j]
           /\ w[k].next = x
  BY DEF PageType

(* What naming a first docid page does to the metapage. *)
LEMMA FirstMeta ==
    ASSUME NEW m \in MetaType, NEW k \in BlockNumber, NEW w, w = [m EXCEPT !.first = k]
    PROVE  w \in MetaType /\ w.first = k /\ w.heads = m.heads /\ w.counts = m.counts
  BY DEF MetaType

(* What LinkL0 does to the metapage. *)
LEMMA LinkedEffect ==
    ASSUME TypeInv, LinkL0
    PROVE  /\ meta' \in MetaType /\ diskMeta' = meta' /\ meta'.first = meta.first
           /\ meta'.heads[0] = seg /\ meta'.counts[0] = meta.counts[0] + 1
           /\ \A i \in Levels : i # 0 => meta'.heads[i] = meta.heads[i] /\ meta'.counts[i] = meta.counts[i]
  <1>0. /\ meta \in MetaType /\ seg \in BlockNumber /\ totalDocs \in Nat
        /\ meta' = [meta EXCEPT !.heads[0] = seg, !.counts[0] = @ + 1, !.docs = totalDocs]
        /\ diskMeta' = meta'
    BY DEF TypeInv, TypeOK, LinkL0, FlushMeta
  <1>1. meta.heads \in [Levels -> BlockNumber] /\ meta.counts \in [Levels -> Nat]
    BY <1>0 DEF MetaType
  <1>2. /\ meta'.first = meta.first /\ meta'.docs = totalDocs
        /\ meta'.heads = [meta.heads EXCEPT ![0] = seg]
        /\ meta'.counts = [meta.counts EXCEPT ![0] = @ + 1]
    BY <1>0 DEF MetaType
  <1>3. meta' = [first |-> meta'.first, heads |-> meta'.heads, counts |-> meta'.counts, docs |-> meta'.docs]
    BY <1>0 DEF MetaType
  <1>4. /\ meta'.heads \in [Levels -> BlockNumber] /\ meta'.counts \in [Levels -> Nat]
        /\ meta'.first \in BlockNumber
    BY <1>0, <1>1, <1>2, Bounds DEF MetaType
  <1>5. meta' \in MetaType
    BY <1>0, <1>2, <1>3, <1>4 DEF MetaType
  <1> QED BY <1>0, <1>1, <1>2, <1>5, Bounds

(* What LinkMerged does to the metapage. *)
LEMMA MergedEffect ==
    ASSUME TypeInv, LinkMerged
    PROVE  /\ level \in Levels /\ level + 1 \in Levels
           /\ meta' \in MetaType /\ meta'.first = meta.first
           /\ meta'.heads[level] = NoBlock /\ meta'.heads[level + 1] = seg
           /\ meta'.counts[level] = 0 /\ meta'.counts[level + 1] = meta.counts[level + 1] + 1
           /\ \A i \in Levels : i # level /\ i # level + 1 =>
                meta'.heads[i] = meta.heads[i] /\ meta'.counts[i] = meta.counts[i]
  <1>0. /\ meta \in MetaType /\ seg \in BlockNumber /\ level \in Levels
        /\ meta' = [meta EXCEPT !.heads[level] = NoBlock, !.counts[level] = 0,
                                !.heads[level + 1] = seg, !.counts[level + 1] = @ + 1]
    BY DEF TypeInv, TypeOK, LinkMerged
  <1>1. level # level + 1 /\ level + 1 \in Levels
    BY <1>0, Bounds DEF TypeInv, CallInv, LinkMerged, Levels
  <1>2. meta.heads \in [Levels -> BlockNumber] /\ meta.counts \in [Levels -> Nat]
    BY <1>0 DEF MetaType
  <1>3. /\ meta'.first = meta.first /\ meta'.docs = meta.docs
        /\ meta'.heads = [meta.heads EXCEPT ![level] = NoBlock, ![level + 1] = seg]
        /\ meta'.counts = [meta.counts EXCEPT ![level] = 0, ![level + 1] = @ + 1]
    BY <1>0 DEF MetaType
  <1>4. meta' = [first |-> meta'.first, heads |-> meta'.heads, counts |-> meta'.counts, docs |-> meta'.docs]
    BY <1>0 DEF MetaType
  <1>5. meta'.heads \in [Levels -> BlockNumber] /\ meta'.counts \in [Levels -> Nat]
    BY <1>0, <1>1, <1>2, <1>3, Bounds
  <1>6. meta' \in MetaType
    BY <1>0, <1>3, <1>4, <1>5 DEF MetaType
  <1> QED BY <1>0, <1>1, <1>2, <1>3, <1>6

(* The blocks a walk meets are blocks. *)
LEMMA WalkTypes ==
    ASSUME NEW pages \in [Blocks -> PageType], NEW start \in BlockNumber, NEW num
    PROVE  FirstBlocks(pages, start, num) \subseteq Blocks
  <1>1. \A k \in Blocks : pages[k].next \in Blocks \cup {NoBlock}
    BY DEF PageType, BlockNumber
  <1> QED BY <1>1, WalkStays DEF BlockNumber

(* The steps of calls are preserved. *)
LEMMA CallInvStep ==
    ASSUME TypeInv, [Next]_vars
    PROVE  CallInv'
  <1> USE Bounds DEF TypeInv, TypeOK, CallInv, Steps
  <1>1. ASSUME NEW b \in Backends, StartSpill(b) PROVE CallInv'
    BY <1>1 DEF StartSpill, diskVars, fileVars, memVars, callVars, heapVars
  <1>2. ASSUME NEW b \in Backends, NEW d \in Docs, StartInsert(b, d) PROVE CallInv'
    BY <1>2 DEF StartInsert, diskVars, fileVars, memVars, callVars, heapVars
  <1>3. CASE AddTerms
    BY <1>3 DEF AddTerms, diskVars, fileVars, memVars, callVars, heapVars
  <1>4. CASE AppendDocidCached
    BY <1>4 DEF AppendDocidCached, StoreDocid, diskVars, fileVars, memVars, callVars, heapVars
  <1>5. CASE AppendDocidFirst
    BY <1>5 DEF AppendDocidFirst, StoreDocid, FlushMeta, diskVars, fileVars, memVars, callVars, heapVars
  <1>6. CASE AppendDocidLast
    BY <1>6 DEF AppendDocidLast, StoreDocid, diskVars, fileVars, memVars, callVars, heapVars
  <1>7. CASE AppendDocidNew
    BY <1>7 DEF AppendDocidNew, StoreDocid, diskVars, fileVars, memVars, callVars, heapVars
  <1>8. ASSUME NEW k \in Blocks, WriteSegment(k) PROVE CallInv'
    BY <1>8 DEF WriteSegment, AllocateSegmentPage, SegmentBlocks, diskVars, fileVars, memVars, callVars, heapVars
  <1>9. ASSUME NEW k \in Blocks, MergeSegments(k) PROVE CallInv'
    BY <1>9 DEF MergeSegments, MergeDue, AllocateSegmentPage, SegmentBlocks, diskVars, fileVars, memVars, callVars, heapVars
  <1>10. CASE FlushSegment
    BY <1>10 DEF FlushSegment, FlushRelation, diskVars, fileVars, memVars, callVars, heapVars
  <1>11. CASE ClearMemtable
    BY <1>11 DEF ClearMemtable, diskVars, fileVars, memVars, callVars, heapVars
  <1>12. CASE ClearDocidPages
    BY <1>12 DEF ClearDocidPages, FlushMeta, diskVars, fileVars, memVars, callVars, heapVars
  <1>13. CASE LinkL0
    BY <1>13 DEF LinkL0, FlushMeta, diskVars, fileVars, memVars, callVars, heapVars
  <1>14. CASE StopCompaction
    BY <1>14 DEF StopCompaction, EndCall, diskVars, fileVars, memVars, callVars, heapVars
  <1>15. CASE FlushMerged
    BY <1>15 DEF FlushMerged, FlushRelation, diskVars, fileVars, memVars, callVars, heapVars
  <1>16. CASE LinkMerged
    BY <1>16 DEF LinkMerged, diskVars, fileVars, memVars, callVars, heapVars
  <1>17. CASE Commit
    BY <1>17 DEF Commit, EndCall, diskVars, fileVars, memVars, callVars, heapVars
  <1>18. CASE Rollback
    BY <1>18 DEF Rollback, EndCall, diskVars, fileVars, memVars, callVars, heapVars
  <1>19. ASSUME NEW k \in Blocks, WritePage(k) PROVE CallInv'
    BY <1>19 DEF WritePage, diskVars, fileVars, memVars, callVars, heapVars
  <1>20. CASE WriteMeta
    BY <1>20 DEF WriteMeta, diskVars, fileVars, memVars, callVars, heapVars
  <1>21. CASE Restart
    BY <1>21 DEF Restart, FlushRelation, ForgetSharedMemory, diskVars, fileVars, memVars, callVars, heapVars
  <1>22. CASE Crash
    BY <1>22 DEF Crash, ForgetSharedMemory, EndCall, diskVars, fileVars, memVars, callVars, heapVars
  <1>23. CASE Recover
    BY <1>23 DEF Recover, diskVars, fileVars, memVars, callVars, heapVars
  <1>24. CASE RecoverFails
    BY <1>24 DEF RecoverFails, diskVars, fileVars, memVars, callVars, heapVars
  <1>25. CASE UNCHANGED vars
    BY <1>25 DEF vars, diskVars, fileVars, memVars, callVars, heapVars
  <1> QED BY <1>1, <1>2, <1>3, <1>4, <1>5, <1>6, <1>7, <1>8, <1>9, <1>10, <1>11, <1>12, <1>13, <1>14, <1>15, <1>16, <1>17, <1>18, <1>19, <1>20, <1>21, <1>22, <1>23, <1>24, <1>25 DEF Next, CallStep

-----------------------------------------------------------------------------
(* The layout of the file *)

(* Every block of a layout is a block of the file. *)
LEMMA LaidBlocks ==
    ASSUME NEW n \in 0 .. MaxBlocks, NEW D \in SUBSET Blocks, D \subseteq 1 .. n
    PROVE  /\ Segs(D, n) \subseteq Blocks /\ NoBlock \notin Segs(D, n) /\ NoBlock \notin D
           /\ D \cap Segs(D, n) = {} /\ 1 .. n \subseteq Blocks
           /\ \A k \in Blocks : k \in D \/ k \in Segs(D, n) \/ k \in Blocks \ (1 .. n)
  <1>1. 1 .. n \subseteq 1 .. MaxBlocks
    BY Bounds
  <1>2. NoBlock \notin 1 .. MaxBlocks
    BY RecoveryAssumption
  <1> QED BY <1>1, <1>2 DEF Segs, Blocks

(* A block that is on disk as it was or as it is in its buffer. *)
LEMMA MixedLaid ==
    ASSUME NEW n \in 0 .. MaxBlocks, NEW D \in SUBSET Blocks, D \subseteq 1 .. n,
           NEW p, NEW q, NEW w, PagesLaid(p, D, n), PagesLaid(q, D, n),
           \A k \in Blocks : w[k] = p[k] \/ w[k] = q[k]
    PROVE  PagesLaid(w, D, n)
  BY LaidBlocks DEF PagesLaid

(* The file grows by a block, which holds zeros, of either kind. *)
LEMMA PagesGrow ==
    ASSUME NEW n \in 0 .. MaxBlocks, n + 1 \in Blocks, NEW D \in SUBSET Blocks, D \subseteq 1 .. n,
           NEW pages, PagesLaid(pages, D, n)
    PROVE  PagesLaid(pages, D, n + 1) /\ PagesLaid(pages, D \cup {n + 1}, n + 1)
  <1> DEFINE E == D \cup {n + 1}
  <1>1. n + 1 \in Blocks \ (1 .. n) /\ pages[n + 1] = ZeroPage
    BY Bounds DEF PagesLaid, Blocks
  <1>2. pages[n + 1].kind = "zero" /\ pages[n + 1].next = NoBlock
    BY <1>1 DEF ZeroPage
  <1>3. /\ Segs(D, n + 1) = Segs(D, n) \cup {n + 1}
        /\ Segs(E, n + 1) = Segs(D, n)
        /\ Blocks \ (1 .. n + 1) \subseteq Blocks \ (1 .. n)
    BY Bounds DEF Segs, Blocks
  <1>4. PagesLaid(pages, D, n + 1)
    BY <1>2, <1>3 DEF PagesLaid
  <1>5. PagesLaid(pages, E, n + 1)
    BY <1>2, <1>3 DEF PagesLaid
  <1> QED BY <1>4, <1>5

(* What the longer file means for the two kinds of blocks. *)
LEMMA RestGrows ==
    ASSUME NEW n \in 0 .. MaxBlocks, n + 1 \in Blocks, NEW D \in SUBSET Blocks, D \subseteq 1 .. n
    PROVE  /\ Segs(D, n) \subseteq Segs(D, n + 1)
           /\ n + 1 \in Segs(D, n + 1)
           /\ Segs(D \cup {n + 1}, n + 1) = Segs(D, n)
           /\ D \subseteq 1 .. n + 1 /\ D \cup {n + 1} \subseteq 1 .. n + 1
           /\ n + 1 \notin D /\ \A k \in D : k < n + 1
           /\ n + 1 \notin 1 .. n
  BY Bounds DEF Segs, Blocks

(* A page gets documents: its kind and its next pointer stay. *)
LEMMA DocsLaid ==
    ASSUME NEW n \in 0 .. MaxBlocks, NEW D \in SUBSET Blocks, D \subseteq 1 .. n,
           NEW pages, NEW w, PagesLaid(pages, D, n), NEW k \in 1 .. n,
           \A j \in Blocks : w[j].kind = pages[j].kind /\ w[j].next = pages[j].next,
           \A j \in Blocks : j # k => w[j] = pages[j]
    PROVE  PagesLaid(w, D, n)
  <1> USE DEF PagesLaid
  <1>1. \A j \in D : j \in Blocks
    OBVIOUS
  <1>2. \A j \in Segs(D, n) : j \in Blocks /\ j \notin D
    BY LaidBlocks
  <1>3. k \in Blocks /\ k \in 1 .. n
    BY LaidBlocks DEF Segs
  <1>4. \A j \in D : w[j].kind # "segment"
    BY <1>1, <1>2, <1>3
  <1>5. \A j \in D : w[j].next = NoBlock \/ (w[j].next \in D /\ w[j].next > j)
    BY <1>1, <1>2, <1>3
  <1>6. \A j \in Segs(D, n) : w[j].kind # "docid"
    BY <1>1, <1>2, <1>3
  <1>7. \A j \in Segs(D, n) : w[j].next \in Segs(D, n) \cup {NoBlock}
    BY <1>1, <1>2, <1>3
  <1>8. \A j \in Blocks \ (1 .. n) : w[j] = ZeroPage
    BY <1>3
  <1> QED BY <1>4, <1>5, <1>6, <1>7, <1>8

(* A page of a segment is written, or its next pointer. *)
LEMMA SegmentLaid ==
    ASSUME NEW n \in 0 .. MaxBlocks, NEW D \in SUBSET Blocks, D \subseteq 1 .. n,
           NEW pages, NEW w, PagesLaid(pages, D, n), NEW k \in Segs(D, n),
           w[k].kind # "docid", w[k].next \in Segs(D, n) \cup {NoBlock},
           \A j \in Blocks : j # k => w[j] = pages[j]
    PROVE  PagesLaid(w, D, n)
  <1> USE DEF PagesLaid
  <1>1. \A j \in D : j \in Blocks
    OBVIOUS
  <1>2. \A j \in Segs(D, n) : j \in Blocks /\ j \notin D
    BY LaidBlocks
  <1>3. k \in Blocks /\ k \in 1 .. n
    BY LaidBlocks DEF Segs
  <1>4. \A j \in D : w[j].kind # "segment"
    BY <1>1, <1>2, <1>3
  <1>5. \A j \in D : w[j].next = NoBlock \/ (w[j].next \in D /\ w[j].next > j)
    BY <1>1, <1>2, <1>3
  <1>6. \A j \in Segs(D, n) : w[j].kind # "docid"
    BY <1>1, <1>2, <1>3
  <1>7. \A j \in Segs(D, n) : w[j].next \in Segs(D, n) \cup {NoBlock}
    BY <1>1, <1>2, <1>3
  <1>8. \A j \in Blocks \ (1 .. n) : w[j] = ZeroPage
    BY <1>3
  <1> QED BY <1>4, <1>5, <1>6, <1>7, <1>8

(* A docid page is written, or its next pointer. *)
LEMMA DocidLaid ==
    ASSUME NEW n \in 0 .. MaxBlocks, NEW D \in SUBSET Blocks, D \subseteq 1 .. n,
           NEW pages, NEW w, PagesLaid(pages, D, n), NEW k \in D,
           w[k].kind # "segment",
           w[k].next = NoBlock \/ (w[k].next \in D /\ w[k].next > k),
           \A j \in Blocks : j # k => w[j] = pages[j]
    PROVE  PagesLaid(w, D, n)
  <1> USE DEF PagesLaid
  <1>1. \A j \in D : j \in Blocks
    OBVIOUS
  <1>2. \A j \in Segs(D, n) : j \in Blocks /\ j \notin D
    BY LaidBlocks
  <1>3. k \in Blocks /\ k \in 1 .. n
    BY LaidBlocks DEF Segs
  <1>4. \A j \in D : w[j].kind # "segment"
    BY <1>1, <1>2, <1>3
  <1>5. \A j \in D : w[j].next = NoBlock \/ (w[j].next \in D /\ w[j].next > j)
    BY <1>1, <1>2, <1>3
  <1>6. \A j \in Segs(D, n) : w[j].kind # "docid"
    BY <1>1, <1>2, <1>3
  <1>7. \A j \in Segs(D, n) : w[j].next \in Segs(D, n) \cup {NoBlock}
    BY <1>1, <1>2, <1>3
  <1>8. \A j \in Blocks \ (1 .. n) : w[j] = ZeroPage
    BY <1>3
  <1> QED BY <1>4, <1>5, <1>6, <1>7, <1>8

-----------------------------------------------------------------------------
(* What the steps do to the pages *)

(* A document being inserted is a document. *)
LEMMA DocTyped ==
    ASSUME TypeInv, op = "insert"
    PROVE  doc \in Docs
  BY DEF TypeInv, TypeOK, CallInv

(* The last page of the docid chain is one of its pages. *)
LEMMA LastOfChain ==
    ASSUME TypeInv, NEW D \in SUBSET Blocks, Layout(D), meta.first # NoBlock
    PROVE  /\ LastPage(meta.first) \in D
           /\ LastPage(meta.first) \in Reach(page, meta.first)
           /\ page[LastPage(meta.first)].next = NoBlock
  <1>1. meta.first \in D
    BY DEF Layout, MetaLaid
  <1>2. \A k \in D : page[k].next = NoBlock \/ (page[k].next \in D /\ page[k].next > k)
    BY DEF Layout, PagesLaid
  <1>3. \E k \in Reach(page, meta.first) : page[k].next = NoBlock
    BY <1>1, <1>2, ChainEnds
  <1>4. Reach(page, meta.first) \subseteq D
    <2>1. \A k \in D : page[k].next \in D \cup {NoBlock}
      BY <1>2
    <2> QED BY <1>1, <2>1, WalkStays DEF Reach
  <1>5. /\ LastPage(meta.first) \in Reach(page, meta.first)
        /\ page[LastPage(meta.first)].next = NoBlock
    BY <1>3 DEF LastPage
  <1> QED BY <1>4, <1>5

(* Storing a docid adds it to one page and remembers the page. *)
LEMMA StoreEffect ==
    ASSUME TypeInv, op = "insert", NEW pages \in [Blocks -> PageType], NEW k \in Blocks,
           StoreDocid(pages, k)
    PROVE  /\ page' \in [Blocks -> PageType]
           /\ \A j \in Blocks : page'[j].kind = pages[j].kind /\ page'[j].next = pages[j].next
           /\ \A j \in Blocks : j # k => page'[j] = pages[j]
           /\ page'[k].docs = pages[k].docs \cup {doc}
           /\ cache' \in [Backends -> BlockNumber] /\ cache'[who] = k
           /\ \A b \in Backends : b # who => cache'[b] = cache[b]
           /\ pc' = "commit"
  <1>1. page' = [pages EXCEPT ![k].docs = @ \cup {doc}] /\ pc' = "commit"
        /\ cache' = [cache EXCEPT ![who] = k]
    BY DEF StoreDocid
  <1>2. /\ page' \in [Blocks -> PageType]
        /\ \A j \in Blocks : page'[j].kind = pages[j].kind /\ page'[j].next = pages[j].next
        /\ \A j \in Blocks : j # k => page'[j] = pages[j]
        /\ page'[k].docs = pages[k].docs \cup {doc}
    <2>1. doc \in Docs
      BY DocTyped
    <2>2. PICK d \in Docs : d = doc
      BY <2>1
    <2>3. PICK w : w = [pages EXCEPT ![k].docs = @ \cup {d}]
      OBVIOUS
    <2>4. /\ w \in [Blocks -> PageType]
          /\ \A j \in Blocks : w[j].kind = pages[j].kind /\ w[j].next = pages[j].next
          /\ \A j \in Blocks : j # k => w[j] = pages[j]
          /\ w[k].docs = pages[k].docs \cup {d}
      BY <2>3 DEF PageType
    <2>5. w = page'
      BY <1>1, <2>2, <2>3
    <2> QED BY <2>2, <2>4, <2>5
  <1>3. cache \in [Backends -> BlockNumber] /\ who \in Backends /\ k \in BlockNumber
    BY Bounds DEF TypeInv, TypeOK
  <1> QED BY <1>1, <1>2, <1>3

(* A page that is full is flushed: the disk has a page as it was or as it is. *)
LEMMA FlushEffect ==
    ASSUME TypeInv, page' \in [Blocks -> PageType], NEW k \in Blocks,
           \/ diskPage' = [diskPage EXCEPT ![k] = page'[k]]
           \/ diskPage' = diskPage
    PROVE  /\ diskPage' \in [Blocks -> PageType]
           /\ \A j \in Blocks : diskPage'[j] = diskPage[j] \/ diskPage'[j] = page'[j]
  BY DEF TypeInv, TypeOK

(* The docid goes to the page the backend has cached. *)
LEMMA CachedEffect ==
    ASSUME TypeInv, NEW D \in SUBSET Blocks, Layout(D), AppendDocidCached
    PROVE  /\ op = "insert" /\ cache[who] \in D
           /\ page' \in [Blocks -> PageType] /\ diskPage' \in [Blocks -> PageType]
           /\ \A j \in Blocks : page'[j].kind = page[j].kind /\ page'[j].next = page[j].next
           /\ \A j \in Blocks : j # cache[who] => page'[j] = page[j]
           /\ page'[cache[who]].docs = page[cache[who]].docs \cup {doc}
           /\ \A j \in Blocks : diskPage'[j] = diskPage[j] \/ diskPage'[j] = page'[j]
           /\ cache' = cache
           /\ pc' = "commit"
  <1>1. op = "insert"
    BY DEF AppendDocidCached, TypeInv, CallInv
  <1>2. cache[who] \in D
    BY DEF AppendDocidCached, CacheUsable, Layout, RefsLaid, TypeInv, TypeOK
  <1>3. cache[who] \in Blocks
    BY <1>2
  <1>4. page \in [Blocks -> PageType] /\ StoreDocid(page, cache[who])
    BY DEF AppendDocidCached, TypeInv, TypeOK
  <1>5. \/ diskPage' = [diskPage EXCEPT ![cache[who]] = page'[cache[who]]]
        \/ diskPage' = diskPage
    BY DEF AppendDocidCached
  <1>6. /\ page' \in [Blocks -> PageType]
        /\ \A j \in Blocks : page'[j].kind = page[j].kind /\ page'[j].next = page[j].next
        /\ \A j \in Blocks : j # cache[who] => page'[j] = page[j]
        /\ page'[cache[who]].docs = page[cache[who]].docs \cup {doc}
        /\ pc' = "commit"
    BY <1>1, <1>3, <1>4, StoreEffect
  <1>7. cache' = cache
    BY DEF AppendDocidCached, StoreDocid, TypeInv, TypeOK
  <1>8. /\ diskPage' \in [Blocks -> PageType]
        /\ \A j \in Blocks : diskPage'[j] = diskPage[j] \/ diskPage'[j] = page'[j]
    BY <1>3, <1>5, <1>6, FlushEffect
  <1> QED BY <1>1, <1>2, <1>6, <1>7, <1>8

(* The docid goes to the last page of the chain. *)
LEMMA LastEffect ==
    ASSUME TypeInv, NEW D \in SUBSET Blocks, Layout(D), AppendDocidLast
    PROVE  \E k \in D :
              /\ op = "insert" /\ k = LastPage(meta.first)
              /\ page' \in [Blocks -> PageType] /\ diskPage' \in [Blocks -> PageType]
              /\ \A j \in Blocks : page'[j].kind = page[j].kind /\ page'[j].next = page[j].next
              /\ \A j \in Blocks : j # k => page'[j] = page[j]
              /\ page'[k].docs = page[k].docs \cup {doc}
              /\ \A j \in Blocks : diskPage'[j] = diskPage[j] \/ diskPage'[j] = page'[j]
              /\ cache' \in [Backends -> BlockNumber] /\ cache'[who] = k
              /\ \A b \in Backends : b # who => cache'[b] = cache[b]
              /\ pc' = "commit"
  <1>1. op = "insert"
    BY DEF AppendDocidLast, TypeInv, CallInv
  <1>2. PICK k \in D : k = LastPage(meta.first)
    BY LastOfChain DEF AppendDocidLast
  <1>3. k \in Blocks
    BY <1>2
  <1>4. page \in [Blocks -> PageType] /\ StoreDocid(page, k)
    BY <1>2 DEF AppendDocidLast, TypeInv, TypeOK
  <1>5. \/ diskPage' = [diskPage EXCEPT ![k] = page'[k]]
        \/ diskPage' = diskPage
    BY <1>2 DEF AppendDocidLast
  <1>6. /\ page' \in [Blocks -> PageType]
        /\ \A j \in Blocks : page'[j].kind = page[j].kind /\ page'[j].next = page[j].next
        /\ \A j \in Blocks : j # k => page'[j] = page[j]
        /\ page'[k].docs = page[k].docs \cup {doc}
        /\ cache' \in [Backends -> BlockNumber] /\ cache'[who] = k
        /\ \A b \in Backends : b # who => cache'[b] = cache[b]
        /\ pc' = "commit"
    BY <1>1, <1>3, <1>4, StoreEffect
  <1>7. /\ diskPage' \in [Blocks -> PageType]
        /\ \A j \in Blocks : diskPage'[j] = diskPage[j] \/ diskPage'[j] = page'[j]
    BY <1>3, <1>5, <1>6, FlushEffect
  <1> QED BY <1>1, <1>2, <1>6, <1>7

(* The docid goes to the first page of a new chain. *)
LEMMA FirstEffect ==
    ASSUME TypeInv, NEW D \in SUBSET Blocks, Layout(D), AppendDocidFirst
    PROVE  \E k \in Blocks :
              /\ op = "insert" /\ k = nblocks + 1 /\ nblocks' = k
              /\ page' \in [Blocks -> PageType] /\ diskPage' \in [Blocks -> PageType]
              /\ \A j \in Blocks : j # k => page'[j] = page[j]
              /\ page'[k].kind = "docid" /\ page'[k].next = NoBlock /\ page'[k].docs = {doc}
              /\ \A j \in Blocks : diskPage'[j] = diskPage[j] \/ diskPage'[j] = page'[j]
              /\ meta' \in MetaType /\ meta'.first = k /\ meta'.heads = meta.heads
              /\ meta'.counts = meta.counts /\ diskMeta' = meta'
              /\ cache' \in [Backends -> BlockNumber] /\ cache'[who] = k
              /\ \A b \in Backends : b # who => cache'[b] = cache[b]
              /\ pc' = "commit"
  <1>1. op = "insert"
    BY DEF AppendDocidFirst, TypeInv, CallInv
  <1>2. PICK k \in Blocks : k = nblocks + 1
    BY DEF AppendDocidFirst
  <1>3. DocidPage({}, NoBlock) \in PageType
    BY PageTypes, Bounds
  <1>4. PICK pages : pages = [page EXCEPT ![k] = DocidPage({}, NoBlock)]
    OBVIOUS
  <1>5. page \in [Blocks -> PageType] /\ meta \in MetaType
    BY DEF TypeInv, TypeOK
  <1>6. /\ pages \in [Blocks -> PageType]
        /\ pages[k] = DocidPage({}, NoBlock)
        /\ \A j \in Blocks : j # k => pages[j] = page[j]
    BY <1>3, <1>4, <1>5, WritePageEffect
  <1>7. StoreDocid(pages, k)
    BY <1>2, <1>4 DEF AppendDocidFirst
  <1>8. \/ diskPage' = [diskPage EXCEPT ![k] = page'[k]]
        \/ diskPage' = diskPage
    BY <1>2 DEF AppendDocidFirst
  <1>9. /\ page' \in [Blocks -> PageType]
        /\ \A j \in Blocks : page'[j].kind = pages[j].kind /\ page'[j].next = pages[j].next
        /\ \A j \in Blocks : j # k => page'[j] = pages[j]
        /\ page'[k].docs = pages[k].docs \cup {doc}
        /\ cache' \in [Backends -> BlockNumber] /\ cache'[who] = k
        /\ \A b \in Backends : b # who => cache'[b] = cache[b]
        /\ pc' = "commit"
    BY <1>1, <1>6, <1>7, StoreEffect
  <1>10. /\ diskPage' \in [Blocks -> PageType]
         /\ \A j \in Blocks : diskPage'[j] = diskPage[j] \/ diskPage'[j] = page'[j]
    BY <1>8, <1>9, FlushEffect
  <1>11. page'[k].kind = "docid" /\ page'[k].next = NoBlock /\ page'[k].docs = {doc}
    BY <1>6, <1>9 DEF DocidPage
  <1>12. /\ meta' = [meta EXCEPT !.first = k] /\ diskMeta' = meta' /\ nblocks' = k
    BY <1>2 DEF AppendDocidFirst, FlushMeta
  <1>13. meta' \in MetaType /\ meta'.first = k /\ meta'.heads = meta.heads /\ meta'.counts = meta.counts
    BY <1>5, <1>12, FirstMeta, Bounds
  <1>14. \A j \in Blocks : j # k => page'[j] = page[j]
    BY <1>6, <1>9
  <1> QED BY <1>1, <1>2, <1>9, <1>10, <1>11, <1>12, <1>13, <1>14

(* The docid goes to a new page behind the last one. *)
LEMMA NewEffect ==
    ASSUME TypeInv, NEW D \in SUBSET Blocks, Layout(D), AppendDocidNew
    PROVE  \E k \in Blocks, last \in D :
              /\ op = "insert" /\ k = nblocks + 1 /\ nblocks' = k
              /\ last = LastPage(meta.first) /\ last # k
              /\ page' \in [Blocks -> PageType] /\ diskPage' \in [Blocks -> PageType]
              /\ \A j \in Blocks : j # k /\ j # last => page'[j] = page[j]
              /\ page'[k].kind = "docid" /\ page'[k].next = NoBlock /\ page'[k].docs = {doc}
              /\ page'[last].kind = page[last].kind /\ page'[last].next = k
              /\ page'[last].docs = page[last].docs
              /\ \A j \in Blocks : diskPage'[j] = diskPage[j] \/ diskPage'[j] = page'[j]
              /\ cache' \in [Backends -> BlockNumber] /\ cache'[who] = k
              /\ \A b \in Backends : b # who => cache'[b] = cache[b]
              /\ pc' = "commit"
  <1>1. op = "insert"
    BY DEF AppendDocidNew, TypeInv, CallInv
  <1>2. PICK k \in Blocks : k = nblocks + 1
    BY DEF AppendDocidNew
  <1>3. PICK last \in D : last = LastPage(meta.first)
    BY LastOfChain DEF AppendDocidNew
  <1>4. last # k
    <2>1. D \subseteq 1 .. nblocks /\ nblocks \in Nat
      BY Bounds DEF Layout, RefsLaid, TypeInv, TypeOK
    <2> QED BY <1>2, <2>1
  <1>5. DocidPage({}, NoBlock) \in PageType
    BY PageTypes, Bounds
  <1>6. PICK pages : pages = [page EXCEPT ![k] = DocidPage({}, NoBlock), ![last].next = k]
    OBVIOUS
  <1>7. page \in [Blocks -> PageType] /\ diskPage \in [Blocks -> PageType]
    BY DEF TypeInv, TypeOK
  <1>8. PICK p : p = [page EXCEPT ![k] = DocidPage({}, NoBlock)]
    OBVIOUS
  <1>9. /\ p \in [Blocks -> PageType]
        /\ p[k] = DocidPage({}, NoBlock)
        /\ \A j \in Blocks : j # k => p[j] = page[j]
    BY <1>5, <1>7, <1>8, WritePageEffect
  <1>10. pages = [p EXCEPT ![last].next = k]
    BY <1>6, <1>8
  <1>11. last \in Blocks /\ k \in BlockNumber
    BY <1>3, Bounds
  <1>12. /\ pages \in [Blocks -> PageType]
         /\ \A j \in Blocks : pages[j].kind = p[j].kind /\ pages[j].docs = p[j].docs
         /\ \A j \in Blocks : j # last => pages[j] = p[j]
         /\ pages[last].next = k
    BY <1>9, <1>10, <1>11, WriteNextEffect
  <1>13. StoreDocid(pages, k)
    BY <1>2, <1>3, <1>6 DEF AppendDocidNew
  <1>14. /\ page' \in [Blocks -> PageType]
         /\ \A j \in Blocks : page'[j].kind = pages[j].kind /\ page'[j].next = pages[j].next
         /\ \A j \in Blocks : j # k => page'[j] = pages[j]
         /\ page'[k].docs = pages[k].docs \cup {doc}
         /\ cache' \in [Backends -> BlockNumber] /\ cache'[who] = k
         /\ \A b \in Backends : b # who => cache'[b] = cache[b]
         /\ pc' = "commit"
    BY <1>1, <1>12, <1>13, StoreEffect
  <1>15. diskPage' = [diskPage EXCEPT ![last] = page'[last], ![k] = IF IsFull(k) THEN page'[k] ELSE @]
    BY <1>2, <1>3 DEF AppendDocidNew
  <1>16. diskPage' \in [Blocks -> PageType]
    BY <1>7, <1>11, <1>14, <1>15
  <1>17. \A j \in Blocks : diskPage'[j] = diskPage[j] \/ diskPage'[j] = page'[j]
    BY <1>4, <1>7, <1>11, <1>15
  <1>18. \A j \in Blocks : j # k /\ j # last => page'[j] = page[j]
    BY <1>9, <1>12, <1>14
  <1>19. page'[k].kind = "docid" /\ page'[k].next = NoBlock /\ page'[k].docs = {doc}
    BY <1>4, <1>9, <1>12, <1>14 DEF DocidPage
  <1>20. /\ page'[last].kind = page[last].kind /\ page'[last].next = k
         /\ page'[last].docs = page[last].docs
    BY <1>4, <1>9, <1>11, <1>12, <1>14
  <1>21. nblocks' = k
    BY <1>2 DEF AppendDocidNew
  <1> QED BY <1>1, <1>2, <1>3, <1>4, <1>14, <1>16, <1>17, <1>18, <1>19, <1>20, <1>21

(* A segment is written to a free block, or else to a block the file is extended by. *)
LEMMA SegmentEffect ==
    ASSUME TypeInv, NEW D \in SUBSET Blocks, Layout(D), NEW k \in Blocks, NEW docs \in SUBSET Docs,
           k \in SegmentBlocks, AllocateSegmentPage(k),
           page' = [page EXCEPT ![k] = SegmentPage(docs, NoBlock)]
    PROVE  /\ page' \in [Blocks -> PageType]
           /\ \A j \in Blocks : j # k => page'[j] = page[j]
           /\ page'[k].kind = "segment" /\ page'[k].docs = docs /\ page'[k].next = NoBlock
           /\ free' = free \ {k}
           /\ \/ k \in free /\ nblocks' = nblocks
              \/ free = {} /\ k = nblocks + 1 /\ nblocks' = nblocks + 1
  <1>1. page \in [Blocks -> PageType] /\ free \subseteq Blocks
    BY DEF TypeInv, TypeOK
  <1>2. SegmentPage(docs, NoBlock) \in PageType
    BY PageTypes, Bounds
  <1>3. /\ page' \in [Blocks -> PageType]
        /\ page'[k] = SegmentPage(docs, NoBlock)
        /\ \A j \in Blocks : j # k => page'[j] = page[j]
    BY <1>1, <1>2, WritePageEffect
  <1>4. page'[k].kind = "segment" /\ page'[k].docs = docs /\ page'[k].next = NoBlock
    BY <1>3 DEF SegmentPage
  <1>5. \/ k \in free /\ nblocks' = nblocks
        \/ free = {} /\ k = nblocks + 1 /\ nblocks' = nblocks + 1
    BY DEF SegmentBlocks, AllocateSegmentPage
  <1> QED BY <1>3, <1>4, <1>5 DEF AllocateSegmentPage

(* The documents of the segments to be merged; there are some. *)
LEMMA SourceDocs ==
    ASSUME TypeInv
    PROVE  /\ SourceBlocks \subseteq Blocks
           /\ DocsOf(page, SourceBlocks) \subseteq Docs
           /\ (MergeDue /\ page[meta.heads[level]].docs # {}) => DocsOf(page, SourceBlocks) # {}
  <1>1. page \in [Blocks -> PageType] /\ meta.heads[level] \in BlockNumber /\ meta.counts[level] \in Nat
    BY DEF TypeInv, TypeOK, MetaType
  <1>2. SourceBlocks \subseteq Blocks
    BY <1>1, WalkTypes DEF SourceBlocks
  <1>3. \A j \in Blocks : page[j].docs \subseteq Docs
    BY <1>1 DEF PageType
  <1>4. DocsOf(page, SourceBlocks) \subseteq Docs
    BY <1>2, <1>3 DEF DocsOf
  <1>5. ASSUME MergeDue, page[meta.heads[level]].docs # {} PROVE DocsOf(page, SourceBlocks) # {}
    <2>1. meta.heads[level] # NoBlock /\ meta.counts[level] # 0
      BY <1>1, <1>5, Bounds, RecoveryAssumption DEF MergeDue
    <2>2. meta.heads[level] \in SourceBlocks
      BY <1>1, <2>1, WalkStarts DEF SourceBlocks
    <2> QED BY <1>5, <2>2 DEF DocsOf
  <1> QED BY <1>2, <1>4, <1>5

(* A step that leaves the file and its caches alone. *)
Quiet ==
    /\ UNCHANGED <<diskVars, fileVars>>
    /\ cache' = cache
    /\ seg' = seg \/ seg' = NoBlock

(* These are such steps. *)
LEMMA QuietSteps ==
    ASSUME \/ \E b \in Backends : StartSpill(b) \/ \E d \in Docs : StartInsert(b, d)
           \/ AddTerms \/ ClearMemtable \/ StopCompaction \/ Commit \/ Rollback
           \/ Recover \/ RecoverFails \/ UNCHANGED vars
    PROVE  Quiet
  <1> USE DEF Quiet, memVars, callVars
  <1>1. ASSUME NEW b \in Backends, StartSpill(b) PROVE Quiet
    BY <1>1 DEF StartSpill
  <1>2. ASSUME NEW b \in Backends, NEW d \in Docs, StartInsert(b, d) PROVE Quiet
    BY <1>2 DEF StartInsert
  <1>3. CASE AddTerms
    BY <1>3 DEF AddTerms
  <1>4. CASE ClearMemtable
    BY <1>4 DEF ClearMemtable
  <1>5. CASE StopCompaction
    BY <1>5 DEF StopCompaction, EndCall
  <1>6. CASE Commit
    BY <1>6 DEF Commit, EndCall
  <1>7. CASE Rollback
    BY <1>7 DEF Rollback, EndCall
  <1>8. CASE Recover
    BY <1>8 DEF Recover
  <1>9. CASE RecoverFails
    BY <1>9 DEF RecoverFails
  <1>10. CASE UNCHANGED vars
    BY <1>10 DEF vars
  <1> QED BY <1>1, <1>2, <1>3, <1>4, <1>5, <1>6, <1>7, <1>8, <1>9, <1>10

-----------------------------------------------------------------------------
(* Types *)

(* The pages, the metapage and the caches keep their types. *)
FileTypes ==
    /\ page \in [Blocks -> PageType] /\ diskPage \in [Blocks -> PageType]
    /\ meta \in MetaType /\ diskMeta \in MetaType
    /\ nblocks \in 0 .. MaxBlocks /\ free \subseteq Blocks
    /\ cache \in [Backends -> BlockNumber] /\ seg \in BlockNumber

(* Every step keeps them. *)
LEMMA FileTypesStep ==
    ASSUME TypeInv, LayoutInv, [Next]_vars
    PROVE  FileTypes'
  <1>0. PICK D \in SUBSET Blocks : Layout(D)
    BY DEF LayoutInv
  <1>t. FileTypes
    BY DEF FileTypes, TypeInv, TypeOK
  <1>n. NoBlock \in BlockNumber /\ Blocks \subseteq BlockNumber /\ \A k \in Blocks : k \in 0 .. MaxBlocks
    BY Bounds DEF Blocks
  <1>a. who \in Backends /\ level \in Levels
    BY DEF TypeInv, TypeOK
  <1>1. CASE Quiet
    BY <1>1, <1>t, <1>n DEF Quiet, FileTypes, diskVars, fileVars
  <1>2. CASE AppendDocidCached
    <2>1. /\ page' \in [Blocks -> PageType] /\ diskPage' \in [Blocks -> PageType] /\ cache' = cache
      BY <1>0, <1>2, CachedEffect
    <2> QED BY <1>2, <1>t, <2>1 DEF AppendDocidCached, FileTypes
  <1>3. CASE AppendDocidFirst
    <2>1. PICK k \in Blocks :
             /\ nblocks' = k /\ page' \in [Blocks -> PageType] /\ diskPage' \in [Blocks -> PageType]
             /\ meta' \in MetaType /\ diskMeta' = meta' /\ cache' \in [Backends -> BlockNumber]
      BY <1>0, <1>3, FirstEffect
    <2> QED BY <1>3, <1>t, <1>n, <2>1 DEF AppendDocidFirst, FileTypes
  <1>4. CASE AppendDocidLast
    <2>1. /\ page' \in [Blocks -> PageType] /\ diskPage' \in [Blocks -> PageType]
          /\ cache' \in [Backends -> BlockNumber]
      BY <1>0, <1>4, LastEffect
    <2> QED BY <1>4, <1>t, <2>1 DEF AppendDocidLast, FileTypes
  <1>5. CASE AppendDocidNew
    <2>1. PICK k \in Blocks :
             /\ nblocks' = k /\ page' \in [Blocks -> PageType] /\ diskPage' \in [Blocks -> PageType]
             /\ cache' \in [Backends -> BlockNumber]
      BY <1>0, <1>5, NewEffect
    <2> QED BY <1>5, <1>t, <1>n, <2>1 DEF AppendDocidNew, FileTypes
  <1>6. ASSUME NEW k \in Blocks, WriteSegment(k) PROVE FileTypes'
    <2>1. memtable \in SUBSET Docs
      BY DEF TypeInv, TypeOK
    <2>2. /\ page' \in [Blocks -> PageType] /\ free' = free \ {k}
          /\ \/ k \in free /\ nblocks' = nblocks
             \/ free = {} /\ k = nblocks + 1 /\ nblocks' = nblocks + 1
      BY <1>0, <1>6, <2>1, SegmentEffect DEF WriteSegment
    <2> QED BY <1>6, <1>t, <1>n, <2>2 DEF WriteSegment, FileTypes, diskVars, memVars
  <1>7. ASSUME NEW k \in Blocks, MergeSegments(k) PROVE FileTypes'
    <2>1. DocsOf(page, SourceBlocks) \in SUBSET Docs
      BY SourceDocs
    <2>2. /\ page' \in [Blocks -> PageType] /\ free' = free \ {k}
          /\ \/ k \in free /\ nblocks' = nblocks
             \/ free = {} /\ k = nblocks + 1 /\ nblocks' = nblocks + 1
      BY <1>0, <1>7, <2>1, SegmentEffect DEF MergeSegments
    <2> QED BY <1>7, <1>t, <1>n, <2>2 DEF MergeSegments, FileTypes, diskVars, memVars
  <1>8. CASE FlushSegment
    BY <1>8, <1>t DEF FlushSegment, FlushRelation, FileTypes, fileVars, memVars
  <1>9. CASE ClearDocidPages
    <2>1. meta' \in MetaType /\ diskMeta' = meta'
      BY <1>9, <1>t, <1>n, FirstMeta DEF ClearDocidPages, FlushMeta, FileTypes
    <2>2. cache' \in [Backends -> BlockNumber]
      BY <1>9, <1>t, <1>n DEF ClearDocidPages, FileTypes
    <2> QED BY <1>9, <1>t, <2>1, <2>2 DEF ClearDocidPages, FileTypes
  <1>10. CASE LinkL0
    <2>1. seg \in Blocks /\ totalDocs \in Nat
      BY <1>10 DEF LinkL0, TypeInv, CallInv, TypeOK
    <2>2. meta.heads[0] \in BlockNumber
      BY <1>t, Bounds DEF FileTypes, MetaType
    <2>3. page' \in [Blocks -> PageType]
      BY <1>10, <1>t, <2>1, <2>2, WriteNextEffect DEF LinkL0, FileTypes
    <2>4. meta' \in MetaType /\ diskMeta' = meta'
      BY <1>10, LinkedEffect
    <2> QED BY <1>10, <1>t, <2>3, <2>4 DEF LinkL0, FileTypes, memVars
  <1>11. CASE FlushMerged
    BY <1>11, <1>t DEF FlushMerged, FlushRelation, FileTypes, fileVars, memVars
  <1>12. CASE LinkMerged
    <2>1. seg \in Blocks /\ level + 1 \in Levels
      BY <1>12, <1>a, Bounds DEF LinkMerged, TypeInv, CallInv, Levels
    <2>2. meta.heads[level + 1] \in BlockNumber
      BY <1>t, <2>1 DEF FileTypes, MetaType
    <2>3. page' \in [Blocks -> PageType]
      BY <1>12, <1>t, <2>1, <2>2, WriteNextEffect DEF LinkMerged, FileTypes
    <2>4. meta' \in MetaType
      BY <1>12, MergedEffect
    <2>5. free' \subseteq Blocks
      BY <1>12, <1>t, SourceDocs DEF LinkMerged, FileTypes
    <2> QED BY <1>12, <1>t, <2>3, <2>4, <2>5 DEF LinkMerged, FileTypes, diskVars, memVars
  <1>13. ASSUME NEW k \in Blocks, WritePage(k) PROVE FileTypes'
    BY <1>13, <1>t DEF WritePage, FileTypes, fileVars, memVars, callVars
  <1>14. CASE WriteMeta
    BY <1>14, <1>t DEF WriteMeta, FileTypes, fileVars, memVars, callVars
  <1>15. CASE Restart
    BY <1>15, <1>t, <1>n DEF Restart, FlushRelation, ForgetSharedMemory, FileTypes, fileVars, callVars
  <1>16. CASE Crash
    BY <1>16, <1>t, <1>n DEF Crash, ForgetSharedMemory, EndCall, FileTypes, diskVars
  <1> HIDE DEF FileTypes
  <1> QED BY <1>1, <1>2, <1>3, <1>4, <1>5, <1>6, <1>7, <1>8, <1>9, <1>10, <1>11, <1>12, <1>13, <1>14,
             <1>15, <1>16, QuietSteps DEF Next, CallStep

(* So do the other variables. *)
RestTypes ==
    /\ memtable \subseteq Docs
    /\ totalDocs \in Nat
    /\ attached \in BOOLEAN
    /\ pc \in Steps
    /\ op \in {"none", "insert", "spill"}
    /\ who \in Backends
    /\ doc \in Docs \cup {NoDoc}
    /\ level \in Levels
    /\ heap \subseteq Docs
    /\ committed \subseteq heap

(* Every step keeps them. *)
LEMMA RestTypesStep ==
    ASSUME TypeInv, [Next]_vars
    PROVE  RestTypes'
  <1>0. RestTypes /\ CallInv /\ meta \in MetaType
    BY DEF RestTypes, TypeInv, TypeOK
  <1> USE <1>0, Bounds DEF RestTypes, CallInv, Steps
  <1>1. ASSUME NEW b \in Backends, StartSpill(b) PROVE RestTypes'
    BY <1>1 DEF StartSpill, memVars, callVars, heapVars
  <1>2. ASSUME NEW b \in Backends, NEW d \in Docs, StartInsert(b, d) PROVE RestTypes'
    BY <1>2 DEF StartInsert, memVars, callVars, heapVars
  <1>3. CASE AddTerms
    BY <1>3 DEF AddTerms, memVars, callVars, heapVars
  <1>4. CASE AppendDocidCached
    BY <1>4 DEF AppendDocidCached, StoreDocid, memVars, callVars, heapVars
  <1>5. CASE AppendDocidFirst
    BY <1>5 DEF AppendDocidFirst, StoreDocid, memVars, callVars, heapVars
  <1>6. CASE AppendDocidLast
    BY <1>6 DEF AppendDocidLast, StoreDocid, memVars, callVars, heapVars
  <1>7. CASE AppendDocidNew
    BY <1>7 DEF AppendDocidNew, StoreDocid, memVars, callVars, heapVars
  <1>8. ASSUME NEW k \in Blocks, WriteSegment(k) PROVE RestTypes'
    BY <1>8 DEF WriteSegment, memVars, callVars, heapVars
  <1>9. ASSUME NEW k \in Blocks, MergeSegments(k) PROVE RestTypes'
    BY <1>9 DEF MergeSegments, memVars, callVars, heapVars
  <1>10. CASE FlushSegment
    BY <1>10 DEF FlushSegment, memVars, callVars, heapVars
  <1>11. CASE ClearMemtable
    BY <1>11 DEF ClearMemtable, memVars, callVars, heapVars
  <1>12. CASE ClearDocidPages
    BY <1>12 DEF ClearDocidPages, memVars, callVars, heapVars
  <1>13. CASE LinkL0
    BY <1>13 DEF LinkL0, memVars, callVars, heapVars
  <1>14. CASE StopCompaction
    BY <1>14 DEF StopCompaction, EndCall, memVars, callVars, heapVars
  <1>15. CASE FlushMerged
    BY <1>15 DEF FlushMerged, memVars, callVars, heapVars
  <1>16. CASE LinkMerged
    <2>1. level + 1 \in Levels
      BY <1>16 DEF LinkMerged, Levels
    <2> QED BY <1>16, <2>1 DEF LinkMerged, memVars, heapVars
  <1>17. CASE Commit
    BY <1>17 DEF Commit, EndCall, memVars, callVars, heapVars
  <1>18. CASE Rollback
    BY <1>18 DEF Rollback, EndCall, memVars, callVars, heapVars
  <1>19. ASSUME NEW k \in Blocks, WritePage(k) PROVE RestTypes'
    BY <1>19 DEF WritePage, memVars, callVars, heapVars
  <1>20. CASE WriteMeta
    BY <1>20 DEF WriteMeta, memVars, callVars, heapVars
  <1>21. CASE Restart
    BY <1>21 DEF Restart, ForgetSharedMemory, memVars, callVars, heapVars
  <1>22. CASE Crash
    BY <1>22 DEF Crash, ForgetSharedMemory, EndCall, memVars, callVars, heapVars
  <1>23. CASE Recover
    <2>1. memtable' \subseteq Docs
      BY <1>23 DEF Recover
    <2>2. totalDocs' \in Nat
      BY <1>23 DEF Recover, MetaType
    <2> QED BY <1>23, <2>1, <2>2 DEF Recover, fileVars, callVars, heapVars
  <1>24. CASE RecoverFails
    <2>1. memtable' \subseteq Docs
      BY <1>24 DEF RecoverFails
    <2>2. Cardinality(memtable') \in Nat
      BY <2>1, RecoveryAssumption, FS_Subset, FS_CardinalityType
    <2>3. totalDocs' \in Nat
      BY <1>24, <2>2 DEF RecoverFails
    <2> QED BY <1>24, <2>1, <2>3 DEF RecoverFails, fileVars, callVars, heapVars
  <1>25. CASE UNCHANGED vars
    BY <1>25 DEF vars, diskVars, fileVars, memVars, callVars, heapVars
  <1> QED BY <1>1, <1>2, <1>3, <1>4, <1>5, <1>6, <1>7, <1>8, <1>9, <1>10, <1>11, <1>12, <1>13, <1>14, <1>15, <1>16, <1>17, <1>18, <1>19, <1>20, <1>21, <1>22, <1>23, <1>24, <1>25 DEF Next, CallStep

(* Types and calls together; the file is laid out when a step is taken. *)
LEMMA TypeInvStep ==
    ASSUME TypeInv, LayoutInv, [Next]_vars
    PROVE  TypeInv'
  <1>1. FileTypes' /\ RestTypes' /\ CallInv'
    BY FileTypesStep, RestTypesStep, CallInvStep
  <1> QED BY <1>1 DEF FileTypes, RestTypes, TypeInv, TypeOK

-----------------------------------------------------------------------------
(* The layout is kept. *)

(* A layout of the next state. *)
LEMMA LayoutFrom ==
    ASSUME NEW E \in SUBSET Blocks, PagesLaid(page', E, nblocks'), PagesLaid(diskPage', E, nblocks'),
           MetaLaid(meta', E, nblocks'), MetaLaid(diskMeta', E, nblocks'), RefsLaid(E, nblocks)'
    PROVE  LayoutInv'
  <1>1. Layout(E)'
    BY DEF Layout
  <1> QED BY <1>1 DEF LayoutInv

(* The file may grow by a block of a segment. *)
LEMMA SegmentStep ==
    ASSUME TypeInv, NEW D \in SUBSET Blocks, Layout(D), NEW k \in Blocks, NEW docs \in SUBSET Docs,
           k \in SegmentBlocks, AllocateSegmentPage(k),
           page' = [page EXCEPT ![k] = SegmentPage(docs, NoBlock)],
           seg' = k, UNCHANGED <<diskPage, meta, diskMeta, cache>>
    PROVE  LayoutInv'
  <1>1. /\ \A j \in Blocks : j # k => page'[j] = page[j]
        /\ page'[k].kind = "segment" /\ page'[k].next = NoBlock
        /\ free' = free \ {k}
        /\ \/ k \in free /\ nblocks' = nblocks
           \/ free = {} /\ k = nblocks + 1 /\ nblocks' = nblocks + 1
    BY SegmentEffect
  <1>2. nblocks \in 0 .. MaxBlocks /\ D \subseteq 1 .. nblocks
    BY DEF TypeInv, TypeOK, Layout, RefsLaid
  <1>3. /\ PagesLaid(page, D, nblocks') /\ PagesLaid(diskPage, D, nblocks')
        /\ nblocks' \in 0 .. MaxBlocks /\ D \subseteq 1 .. nblocks'
        /\ k \in Segs(D, nblocks') /\ Segs(D, nblocks) \subseteq Segs(D, nblocks')
    <2>1. CASE k \in free /\ nblocks' = nblocks
      BY <1>2, <2>1 DEF Layout, RefsLaid
    <2>2. CASE k = nblocks + 1 /\ nblocks' = nblocks + 1
      <3>1. PagesLaid(page, D, nblocks) /\ PagesLaid(diskPage, D, nblocks)
        BY DEF Layout
      <3>2. nblocks + 1 \in Blocks /\ nblocks + 1 \in 0 .. MaxBlocks
        BY <2>2, Bounds DEF Blocks
      <3>3. PagesLaid(page, D, nblocks + 1) /\ PagesLaid(diskPage, D, nblocks + 1)
        BY <1>2, <3>1, <3>2, PagesGrow
      <3>4. /\ Segs(D, nblocks) \subseteq Segs(D, nblocks + 1)
            /\ nblocks + 1 \in Segs(D, nblocks + 1) /\ D \subseteq 1 .. nblocks + 1
        BY <1>2, <3>2, RestGrows
      <3> QED BY <2>2, <3>2, <3>3, <3>4
    <2> QED BY <1>1, <2>1, <2>2
  <1>4. PagesLaid(page', D, nblocks')
    BY <1>1, <1>3, SegmentLaid
  <1>5. MetaLaid(meta', D, nblocks') /\ MetaLaid(diskMeta', D, nblocks')
    BY <1>3 DEF Layout, MetaLaid
  <1>6. RefsLaid(D, nblocks)'
    BY <1>1, <1>3 DEF Layout, RefsLaid
  <1> QED BY <1>3, <1>4, <1>5, <1>6, LayoutFrom

(* Every step leaves the file laid out, with a docid page more or the same ones. *)
LEMMA LayoutStep ==
    ASSUME TypeInv, LayoutInv, [Next]_vars
    PROVE  LayoutInv'
  <1>0. PICK D \in SUBSET Blocks : Layout(D)
    BY DEF LayoutInv
  <1> DEFINE n == nblocks
  <1>p. PagesLaid(page, D, n) /\ PagesLaid(diskPage, D, n)
    BY <1>0 DEF Layout
  <1>m. MetaLaid(meta, D, n) /\ MetaLaid(diskMeta, D, n)
    BY <1>0 DEF Layout
  <1>r. RefsLaid(D, n)
    BY <1>0 DEF Layout
  <1>d. D \subseteq 1 .. n /\ n \in 0 .. MaxBlocks /\ who \in Backends
    BY <1>r DEF RefsLaid, TypeInv, TypeOK
  <1>1. CASE Quiet
    <2>1. Layout(D)'
      BY <1>p, <1>m, <1>r, <1>1 DEF Quiet, Layout, RefsLaid, diskVars, fileVars
    <2> QED BY <2>1 DEF LayoutInv
  <1>2. CASE AppendDocidCached
    <2>1. /\ cache[who] \in D
          /\ \A j \in Blocks : page'[j].kind = page[j].kind /\ page'[j].next = page[j].next
          /\ \A j \in Blocks : j # cache[who] => page'[j] = page[j]
          /\ \A j \in Blocks : diskPage'[j] = diskPage[j] \/ diskPage'[j] = page'[j]
          /\ cache' = cache
      BY <1>0, <1>2, CachedEffect
    <2>2. PagesLaid(page', D, n)
      BY <1>d, <1>p, <2>1, DocsLaid
    <2>3. PagesLaid(diskPage', D, n)
      BY <1>d, <1>p, <2>1, <2>2, MixedLaid
    <2>4. n' = n /\ meta' = meta /\ diskMeta' = diskMeta /\ RefsLaid(D, n)'
      BY <1>2, <1>r, <2>1 DEF AppendDocidCached, RefsLaid
    <2> QED BY <1>m, <2>2, <2>3, <2>4, LayoutFrom
  <1>4. CASE AppendDocidLast
    <2>1. PICK k \in D :
          /\ \A j \in Blocks : page'[j].kind = page[j].kind /\ page'[j].next = page[j].next
          /\ \A j \in Blocks : j # k => page'[j] = page[j]
          /\ \A j \in Blocks : diskPage'[j] = diskPage[j] \/ diskPage'[j] = page'[j]
          /\ cache'[who] = k
          /\ \A b \in Backends : b # who => cache'[b] = cache[b]
      BY <1>0, <1>4, LastEffect
    <2>2. PagesLaid(page', D, n)
      BY <1>d, <1>p, <2>1, DocsLaid
    <2>3. PagesLaid(diskPage', D, n)
      BY <1>d, <1>p, <2>1, <2>2, MixedLaid
    <2>4. n' = n /\ meta' = meta /\ diskMeta' = diskMeta /\ RefsLaid(D, n)'
      BY <1>4, <1>r, <2>1 DEF AppendDocidLast, RefsLaid
    <2> QED BY <1>m, <2>2, <2>3, <2>4, LayoutFrom
  <1>3. CASE AppendDocidFirst
    <2>1. PICK k \in Blocks :
          /\ k = n + 1 /\ n' = k
          /\ \A j \in Blocks : j # k => page'[j] = page[j]
          /\ page'[k].kind = "docid" /\ page'[k].next = NoBlock
          /\ \A j \in Blocks : diskPage'[j] = diskPage[j] \/ diskPage'[j] = page'[j]
          /\ meta'.first = k /\ meta'.heads = meta.heads /\ diskMeta' = meta'
          /\ cache'[who] = k
          /\ \A b \in Backends : b # who => cache'[b] = cache[b]
      BY <1>0, <1>3, FirstEffect
    <2>2. PICK E \in SUBSET Blocks : E = D \cup {k}
      OBVIOUS
    <2>3. PagesLaid(page, E, k) /\ PagesLaid(diskPage, E, k)
      BY <1>d, <1>p, <2>1, <2>2, PagesGrow
    <2>4. /\ Segs(E, k) = Segs(D, n) /\ E \subseteq 1 .. k /\ k \in 0 .. MaxBlocks
      BY <1>d, <2>1, <2>2, RestGrows, Bounds DEF Blocks
    <2>10. k \in E /\ page'[k].kind # "segment"
      BY <2>1, <2>2
    <2>5. PagesLaid(page', E, k)
      BY <2>1, <2>3, <2>4, <2>10, DocidLaid
    <2>6. PagesLaid(diskPage', E, k)
      BY <2>1, <2>3, <2>4, <2>5, MixedLaid
    <2>7. MetaLaid(meta', E, k) /\ MetaLaid(diskMeta', E, k)
      BY <1>m, <2>1, <2>2, <2>4 DEF MetaLaid
    <2>8. free' = free /\ seg' = seg
      BY <1>3 DEF AppendDocidFirst
    <2>9. RefsLaid(E, n)'
      BY <1>r, <2>1, <2>2, <2>4, <2>8 DEF RefsLaid
    <2> QED BY <2>1, <2>5, <2>6, <2>7, <2>9, LayoutFrom
  <1>5. CASE AppendDocidNew
    <2>1. PICK k \in Blocks, last \in D :
          /\ k = n + 1 /\ n' = k /\ last # k
          /\ \A j \in Blocks : j # k /\ j # last => page'[j] = page[j]
          /\ page'[k].kind = "docid" /\ page'[k].next = NoBlock
          /\ page'[last].kind = page[last].kind /\ page'[last].next = k
          /\ \A j \in Blocks : diskPage'[j] = diskPage[j] \/ diskPage'[j] = page'[j]
          /\ cache'[who] = k
          /\ \A b \in Backends : b # who => cache'[b] = cache[b]
      BY <1>0, <1>5, NewEffect
    <2>2. PICK E \in SUBSET Blocks : E = D \cup {k}
      OBVIOUS
    <2>3. PagesLaid(page, E, k) /\ PagesLaid(diskPage, E, k)
      BY <1>d, <1>p, <2>1, <2>2, PagesGrow
    <2>4. /\ Segs(E, k) = Segs(D, n) /\ E \subseteq 1 .. k /\ k \in 0 .. MaxBlocks
          /\ last < k
      BY <1>d, <2>1, <2>2, RestGrows, Bounds DEF Blocks
    <2>5. PICK p : p = [page EXCEPT ![k] = page'[k]]
      OBVIOUS
    <2>6. p[k] = page'[k] /\ \A j \in Blocks : j # k => p[j] = page[j]
      BY <2>5 DEF TypeInv, TypeOK
    <2>7. PagesLaid(p, E, k)
      BY <2>1, <2>2, <2>3, <2>4, <2>6, DocidLaid
    <2>8. \A j \in Blocks : j # last => page'[j] = p[j]
      BY <2>1, <2>6
    <2>9. page'[last].kind # "segment" /\ last \in E
      BY <1>p, <2>1, <2>2 DEF PagesLaid
    <2>10. page'[last].next \in E /\ page'[last].next > last
      BY <2>1, <2>2, <2>4
    <2>11. PagesLaid(page', E, k)
      BY <2>4, <2>7, <2>8, <2>9, <2>10, DocidLaid
    <2>12. PagesLaid(diskPage', E, k)
      BY <2>1, <2>3, <2>4, <2>11, MixedLaid
    <2>13. free' = free /\ seg' = seg /\ meta' = meta /\ diskMeta' = diskMeta
      BY <1>5 DEF AppendDocidNew
    <2>14. MetaLaid(meta', E, k) /\ MetaLaid(diskMeta', E, k)
      BY <1>m, <2>2, <2>4, <2>13 DEF MetaLaid
    <2>15. RefsLaid(E, n)'
      BY <1>r, <2>1, <2>2, <2>4, <2>13 DEF RefsLaid
    <2> QED BY <2>1, <2>11, <2>12, <2>14, <2>15, LayoutFrom
  <1>6. ASSUME NEW k \in Blocks, WriteSegment(k) PROVE LayoutInv'
    <2>1. memtable \in SUBSET Docs
      BY DEF TypeInv, TypeOK
    <2> QED BY <1>0, <1>6, <2>1, SegmentStep DEF WriteSegment, diskVars, memVars
  <1>7. ASSUME NEW k \in Blocks, MergeSegments(k) PROVE LayoutInv'
    <2>1. DocsOf(page, SourceBlocks) \in SUBSET Docs
      BY SourceDocs
    <2> QED BY <1>0, <1>7, <2>1, SegmentStep DEF MergeSegments, diskVars, memVars
  <1>8. CASE FlushSegment \/ FlushMerged
    <2>1. n' = n /\ page' = page /\ diskPage' = page /\ meta' = meta /\ diskMeta' = meta /\ RefsLaid(D, n)'
      BY <1>8, <1>r DEF FlushSegment, FlushMerged, FlushRelation, RefsLaid, fileVars, memVars
    <2> QED BY <1>m, <1>p, <2>1, LayoutFrom
  <1>9. CASE ClearDocidPages
    <2>1. meta \in MetaType /\ NoBlock \in BlockNumber /\ cache \in [Backends -> BlockNumber]
      BY Bounds DEF TypeInv, TypeOK
    <2>2. meta'.first = NoBlock /\ meta'.heads = meta.heads /\ diskMeta' = meta'
      BY <1>9, <2>1, FirstMeta DEF ClearDocidPages, FlushMeta
    <2>3. MetaLaid(meta', D, n) /\ MetaLaid(diskMeta', D, n)
      BY <1>m, <2>2 DEF MetaLaid
    <2>4. n' = n /\ page' = page /\ diskPage' = diskPage
      BY <1>9 DEF ClearDocidPages
    <2>5. RefsLaid(D, n)'
      BY <1>9, <1>r, <2>1 DEF ClearDocidPages, RefsLaid
    <2> QED BY <1>p, <2>3, <2>4, <2>5, LayoutFrom
  <1>10. CASE LinkL0
    <2>1. /\ seg \in Blocks /\ totalDocs \in Nat /\ meta \in MetaType /\ page \in [Blocks -> PageType]
          /\ 0 \in Levels /\ seg \in BlockNumber
      BY <1>10, Bounds DEF LinkL0, TypeInv, CallInv, TypeOK
    <2>2. meta.heads[0] \in BlockNumber /\ meta.heads[0] \in Segs(D, n) \cup {NoBlock} /\ seg \in Segs(D, n)
      BY <1>m, <1>r, <2>1, Bounds DEF MetaLaid, RefsLaid, MetaType
    <2>3. /\ \A j \in Blocks : page'[j].kind = page[j].kind
          /\ \A j \in Blocks : j # seg => page'[j] = page[j]
          /\ page'[seg].next = meta.heads[0]
      BY <1>10, <2>1, <2>2, WriteNextEffect DEF LinkL0
    <2>4. page'[seg].kind # "docid"
      BY <1>p, <2>1, <2>2, <2>3 DEF PagesLaid
    <2>5. PagesLaid(page', D, n)
      BY <1>d, <1>p, <2>2, <2>3, <2>4, SegmentLaid
    <2>6. /\ diskMeta' = meta' /\ meta'.first = meta.first /\ meta'.heads[0] = seg
          /\ \A i \in Levels : i # 0 => meta'.heads[i] = meta.heads[i]
      BY <1>10, LinkedEffect
    <2>7. MetaLaid(meta', D, n) /\ MetaLaid(diskMeta', D, n)
      BY <1>m, <2>2, <2>6 DEF MetaLaid
    <2>8. n' = n /\ diskPage' = diskPage /\ RefsLaid(D, n)'
      BY <1>10, <1>r DEF LinkL0, RefsLaid, memVars
    <2> QED BY <1>p, <2>5, <2>7, <2>8, LayoutFrom
  <1>12. CASE LinkMerged
    <2>1. /\ seg \in Blocks /\ meta \in MetaType /\ page \in [Blocks -> PageType]
          /\ level \in Levels /\ level + 1 \in Levels /\ seg \in BlockNumber
      BY <1>12, Bounds DEF LinkMerged, TypeInv, CallInv, TypeOK, Levels
    <2>2. /\ meta.heads[level + 1] \in BlockNumber /\ meta.heads[level + 1] \in Segs(D, n) \cup {NoBlock}
          /\ seg \in Segs(D, n) /\ meta.heads[level] \in Segs(D, n) \cup {NoBlock}
      BY <1>m, <1>r, <2>1, Bounds DEF MetaLaid, RefsLaid, MetaType
    <2>3. /\ \A j \in Blocks : page'[j].kind = page[j].kind
          /\ \A j \in Blocks : j # seg => page'[j] = page[j]
          /\ page'[seg].next = meta.heads[level + 1]
      BY <1>12, <2>1, <2>2, WriteNextEffect DEF LinkMerged
    <2>4. page'[seg].kind # "docid"
      BY <1>p, <2>1, <2>2, <2>3 DEF PagesLaid
    <2>5. PagesLaid(page', D, n)
      BY <1>d, <1>p, <2>2, <2>3, <2>4, SegmentLaid
    <2>6. /\ meta'.first = meta.first
          /\ meta'.heads[level] = NoBlock /\ meta'.heads[level + 1] = seg
          /\ \A i \in Levels : i # level /\ i # level + 1 => meta'.heads[i] = meta.heads[i]
      BY <1>12, MergedEffect
    <2>7. MetaLaid(meta', D, n)
      BY <1>m, <2>2, <2>6 DEF MetaLaid
    <2>8. SourceBlocks \subseteq Segs(D, n)
      <3>1. \A k \in Segs(D, n) : page[k].next \in Segs(D, n) \cup {NoBlock}
        BY <1>p DEF PagesLaid
      <3> QED BY <2>2, <3>1, WalkStays DEF SourceBlocks
    <2>9. n' = n /\ diskPage' = diskPage /\ diskMeta' = diskMeta /\ RefsLaid(D, n)'
      BY <1>12, <1>r, <2>8 DEF LinkMerged, RefsLaid, memVars, diskVars
    <2> QED BY <1>p, <1>m, <2>5, <2>7, <2>9, LayoutFrom
  <1>13. ASSUME NEW k \in Blocks, WritePage(k) PROVE LayoutInv'
    <2>1. \A j \in Blocks : diskPage'[j] = diskPage[j] \/ diskPage'[j] = page[j]
      BY <1>13 DEF WritePage, TypeInv, TypeOK
    <2>2. PagesLaid(diskPage', D, n)
      BY <1>d, <1>p, <2>1, MixedLaid
    <2>3. n' = n /\ page' = page /\ meta' = meta /\ diskMeta' = diskMeta /\ RefsLaid(D, n)'
      BY <1>13, <1>r DEF WritePage, RefsLaid, fileVars, memVars, callVars
    <2> QED BY <1>p, <1>m, <2>2, <2>3, LayoutFrom
  <1>14. CASE WriteMeta
    <2>1. /\ n' = n /\ page' = page /\ diskPage' = diskPage /\ meta' = meta /\ diskMeta' = meta
          /\ RefsLaid(D, n)'
      BY <1>14, <1>r DEF WriteMeta, RefsLaid, fileVars, memVars, callVars
    <2> QED BY <1>m, <1>p, <2>1, LayoutFrom
  <1>15. CASE Restart
    <2>1. /\ n' = n /\ page' = page /\ diskPage' = page /\ meta' = meta /\ diskMeta' = meta
          /\ RefsLaid(D, n)'
      BY <1>15, <1>r DEF Restart, FlushRelation, ForgetSharedMemory, RefsLaid, fileVars, callVars
    <2> QED BY <1>m, <1>p, <2>1, LayoutFrom
  <1>16. CASE Crash
    <2>1. /\ n' = n /\ page' = diskPage /\ diskPage' = diskPage /\ meta' = diskMeta /\ diskMeta' = diskMeta
          /\ RefsLaid(D, n)'
      BY <1>16, <1>r DEF Crash, ForgetSharedMemory, EndCall, RefsLaid, diskVars
    <2> QED BY <1>m, <1>p, <2>1, LayoutFrom
  <1> QED BY <1>1, <1>2, <1>3, <1>4, <1>5, <1>6, <1>7, <1>8, <1>9, <1>10, <1>12, <1>13, <1>14,
             <1>15, <1>16, QuietSteps DEF Next, CallStep

-----------------------------------------------------------------------------
(* Segments that a metapage names are on disk. *)

(* Docid pages are written: no segment changes, in memory or on disk. *)
LEMMA SegmentsAlone ==
    ASSUME TypeInv, SegmentInv, pc' = "commit", seg' = seg,
           meta'.heads = meta.heads, diskMeta'.heads = meta.heads \/ diskMeta'.heads = diskMeta.heads,
           \A j \in Blocks : page'[j] = page[j] \/ (page'[j].kind # "segment" /\ diskPage[j].kind # "segment"),
           \A j \in Blocks : diskPage'[j] = diskPage[j] \/ diskPage'[j] = page'[j]
    PROVE  SegmentInv'
  <1>0. \A l \in Levels : meta.heads[l] \in BlockNumber /\ diskMeta.heads[l] \in BlockNumber
    BY DEF TypeInv, TypeOK, MetaType
  <1>1. \A k \in Blocks : page'[k].kind = "segment" => page'[k].docs # {}
    BY DEF SegmentInv
  <1>2. \A k \in Blocks : diskPage'[k].kind = "segment" => diskPage'[k].docs # {} /\ page'[k].kind = "segment"
    BY <1>1 DEF SegmentInv
  <1>3. \A k \in Blocks : diskPage[k].kind = "segment" => diskPage'[k].kind = "segment"
    BY DEF SegmentInv
  <1>4. \A l \in Levels : meta'.heads[l] # NoBlock => diskPage'[meta'.heads[l]].kind = "segment"
    BY <1>0, <1>3 DEF SegmentInv, BlockNumber
  <1>5. \A l \in Levels : diskMeta'.heads[l] # NoBlock => diskPage'[diskMeta'.heads[l]].kind = "segment"
    BY <1>0, <1>3 DEF SegmentInv, BlockNumber
  <1> QED BY <1>1, <1>2, <1>4, <1>5 DEF SegmentInv

(* A segment is written, with documents, to a block that is not of a docid page. *)
LEMMA SegmentWritten ==
    ASSUME TypeInv, SegmentInv, NEW k \in Blocks, pc' \in {"flush", "merge_flush"}, seg' = k,
           UNCHANGED <<diskPage, meta, diskMeta>>,
           \A j \in Blocks : j # k => page'[j] = page[j],
           page'[k].kind = "segment", page'[k].docs # {}
    PROVE  SegmentInv'
  <1>1. \A j \in Blocks : page'[j].kind = "segment" => page'[j].docs # {}
    BY DEF SegmentInv
  <1>2. \A j \in Blocks : diskPage'[j].kind = "segment" => diskPage'[j].docs # {} /\ page'[j].kind = "segment"
    BY DEF SegmentInv
  <1> QED BY <1>1, <1>2 DEF SegmentInv

(* Every step keeps the segments that are named on disk. *)
LEMMA SegmentInvStep ==
    ASSUME TypeInv, LayoutInv, SegmentInv, [Next]_vars
    PROVE  SegmentInv'
  <1>0. PICK D \in SUBSET Blocks : Layout(D)
    BY DEF LayoutInv
  <1>d. \A k \in D : page[k].kind # "segment" /\ diskPage[k].kind # "segment"
    BY <1>0 DEF Layout, PagesLaid
  <1>h. \A l \in Levels : meta.heads[l] \in BlockNumber /\ diskMeta.heads[l] \in BlockNumber
    BY DEF TypeInv, TypeOK, MetaType
  <1>g. /\ \A l \in Levels : meta.heads[l] # NoBlock => meta.heads[l] \in Blocks
        /\ \A l \in Levels : diskMeta.heads[l] # NoBlock => diskMeta.heads[l] \in Blocks
    BY <1>h DEF BlockNumber
  <1>z. nblocks + 1 \in Blocks => diskPage[nblocks + 1].kind = "zero"
    BY <1>0, Bounds DEF Layout, PagesLaid, TypeInv, TypeOK, ZeroPage, Blocks
  <1>1. ASSUME Quiet,
               \/ pc' \in {"idle", "add", "docid", "write", "compact"}
               \/ (pc' = pc /\ seg' = seg)
               \/ (pc = "clear" /\ seg' = seg /\ pc' \in {"clear_docids", "link"})
        PROVE  SegmentInv'
    BY <1>1 DEF Quiet, SegmentInv, diskVars, fileVars
  <1>q. ASSUME \/ \E b \in Backends : StartSpill(b) \/ \E d \in Docs : StartInsert(b, d)
               \/ AddTerms \/ ClearMemtable \/ StopCompaction \/ Commit \/ Rollback
               \/ Recover \/ RecoverFails \/ UNCHANGED vars
        PROVE  SegmentInv'
    <2>1. Quiet
      BY <1>q, QuietSteps
    <2>2. \/ pc' \in {"idle", "add", "docid", "write", "compact"}
          \/ (pc' = pc /\ seg' = seg)
          \/ (pc = "clear" /\ seg' = seg /\ pc' \in {"clear_docids", "link"})
      BY <1>q DEF StartSpill, StartInsert, AddTerms, ClearMemtable, StopCompaction, Commit, Rollback,
                  Recover, RecoverFails, EndCall, vars, callVars
    <2> QED BY <1>1, <2>1, <2>2
  <1>2. CASE AppendDocidCached
    <2>1. /\ cache[who] \in D
          /\ \A j \in Blocks : page'[j].kind = page[j].kind
          /\ \A j \in Blocks : j # cache[who] => page'[j] = page[j]
          /\ \A j \in Blocks : diskPage'[j] = diskPage[j] \/ diskPage'[j] = page'[j]
          /\ pc' = "commit"
      BY <1>0, <1>2, CachedEffect
    <2>2. seg' = seg /\ meta' = meta /\ diskMeta' = diskMeta
      BY <1>2 DEF AppendDocidCached
    <2>3. \A j \in Blocks : page'[j] = page[j] \/ (page'[j].kind # "segment" /\ diskPage[j].kind # "segment")
      BY <1>d, <2>1
    <2> QED BY <2>1, <2>2, <2>3, SegmentsAlone
  <1>4. CASE AppendDocidLast
    <2>1. PICK k \in D :
          /\ \A j \in Blocks : page'[j].kind = page[j].kind
          /\ \A j \in Blocks : j # k => page'[j] = page[j]
          /\ \A j \in Blocks : diskPage'[j] = diskPage[j] \/ diskPage'[j] = page'[j]
          /\ pc' = "commit"
      BY <1>0, <1>4, LastEffect
    <2>2. seg' = seg /\ meta' = meta /\ diskMeta' = diskMeta
      BY <1>4 DEF AppendDocidLast
    <2>3. \A j \in Blocks : page'[j] = page[j] \/ (page'[j].kind # "segment" /\ diskPage[j].kind # "segment")
      BY <1>d, <2>1
    <2> QED BY <2>1, <2>2, <2>3, SegmentsAlone
  <1>3. CASE AppendDocidFirst
    <2>1. PICK k \in Blocks :
          /\ k = nblocks + 1
          /\ \A j \in Blocks : j # k => page'[j] = page[j]
          /\ page'[k].kind = "docid"
          /\ \A j \in Blocks : diskPage'[j] = diskPage[j] \/ diskPage'[j] = page'[j]
          /\ meta'.heads = meta.heads /\ diskMeta' = meta'
          /\ pc' = "commit"
      BY <1>0, <1>3, FirstEffect
    <2>2. seg' = seg
      BY <1>3 DEF AppendDocidFirst
    <2>3. \A j \in Blocks : page'[j] = page[j] \/ (page'[j].kind # "segment" /\ diskPage[j].kind # "segment")
      BY <1>z, <2>1
    <2> QED BY <2>1, <2>2, <2>3, SegmentsAlone
  <1>5. CASE AppendDocidNew
    <2>1. PICK k \in Blocks, last \in D :
          /\ k = nblocks + 1
          /\ \A j \in Blocks : j # k /\ j # last => page'[j] = page[j]
          /\ page'[k].kind = "docid"
          /\ page'[last].kind = page[last].kind
          /\ \A j \in Blocks : diskPage'[j] = diskPage[j] \/ diskPage'[j] = page'[j]
          /\ pc' = "commit"
      BY <1>0, <1>5, NewEffect
    <2>2. seg' = seg /\ meta' = meta /\ diskMeta' = diskMeta
      BY <1>5 DEF AppendDocidNew
    <2>3. \A j \in Blocks : page'[j] = page[j] \/ (page'[j].kind # "segment" /\ diskPage[j].kind # "segment")
      BY <1>d, <1>z, <2>1
    <2> QED BY <2>1, <2>2, <2>3, SegmentsAlone
  <1>6. ASSUME NEW k \in Blocks, WriteSegment(k) PROVE SegmentInv'
    <2>1. memtable \in SUBSET Docs /\ memtable # {}
      BY <1>6 DEF TypeInv, TypeOK, CallInv, WriteSegment
    <2>2. /\ \A j \in Blocks : j # k => page'[j] = page[j]
          /\ page'[k].kind = "segment" /\ page'[k].docs = memtable
      BY <1>0, <1>6, <2>1, SegmentEffect DEF WriteSegment
    <2> QED BY <1>6, <2>1, <2>2, SegmentWritten DEF WriteSegment, diskVars
  <1>7. ASSUME NEW k \in Blocks, MergeSegments(k) PROVE SegmentInv'
    <2>1. DocsOf(page, SourceBlocks) \in SUBSET Docs
      BY SourceDocs
    <2>2. /\ \A j \in Blocks : j # k => page'[j] = page[j]
          /\ page'[k].kind = "segment" /\ page'[k].docs = DocsOf(page, SourceBlocks)
      BY <1>0, <1>7, <2>1, SegmentEffect DEF MergeSegments
    <2>3. MergeDue /\ level \in Levels /\ meta.heads[level] # NoBlock
      BY <1>7 DEF MergeSegments, MergeDue, TypeInv, TypeOK
    <2>4. meta.heads[level] \in Blocks /\ diskPage[meta.heads[level]].kind = "segment"
      BY <1>g, <2>3 DEF SegmentInv
    <2>5. page[meta.heads[level]].docs # {}
      BY <2>4 DEF SegmentInv
    <2>6. DocsOf(page, SourceBlocks) # {}
      BY <2>3, <2>5, SourceDocs
    <2> QED BY <1>7, <2>2, <2>6, SegmentWritten DEF MergeSegments, diskVars
  <1>8. CASE FlushSegment \/ FlushMerged
    <2>1. /\ page' = page /\ diskPage' = page /\ meta' = meta /\ diskMeta' = meta /\ seg' = seg
          /\ pc' \in {"clear", "merge_link"} /\ page[seg].kind = "segment"
      BY <1>8 DEF FlushSegment, FlushMerged, FlushRelation, fileVars, SegmentInv
    <2>2. \A l \in Levels : meta.heads[l] # NoBlock => page[meta.heads[l]].kind = "segment"
      BY <1>g DEF SegmentInv
    <2> QED BY <2>1, <2>2 DEF SegmentInv
  <1>9. CASE ClearDocidPages
    <2>1. meta \in MetaType /\ NoBlock \in BlockNumber
      BY Bounds DEF TypeInv, TypeOK
    <2>2. meta'.heads = meta.heads /\ diskMeta' = meta'
      BY <1>9, <2>1, FirstMeta DEF ClearDocidPages, FlushMeta
    <2>3. /\ page' = page /\ diskPage' = diskPage /\ seg' = seg /\ pc' = "link"
          /\ diskPage[seg].kind = "segment"
      BY <1>9 DEF ClearDocidPages, SegmentInv
    <2> QED BY <2>2, <2>3 DEF SegmentInv
  <1>10. CASE LinkL0
    <2>1. /\ seg \in Blocks /\ page \in [Blocks -> PageType] /\ 0 \in Levels
          /\ pc' = "compact" /\ diskPage[seg].kind = "segment" /\ diskPage' = diskPage
      BY <1>10, Bounds DEF LinkL0, TypeInv, CallInv, TypeOK, SegmentInv
    <2>2. meta.heads[0] \in BlockNumber
      BY <1>h, <2>1
    <2>3. \A j \in Blocks : page'[j].kind = page[j].kind /\ page'[j].docs = page[j].docs
      BY <1>10, <2>1, <2>2, WriteNextEffect DEF LinkL0
    <2>4. /\ diskMeta' = meta' /\ meta'.heads[0] = seg
          /\ \A i \in Levels : i # 0 => meta'.heads[i] = meta.heads[i]
      BY <1>10, LinkedEffect
    <2>5. \A l \in Levels : meta'.heads[l] # NoBlock => diskPage[meta'.heads[l]].kind = "segment"
      BY <2>1, <2>4 DEF SegmentInv
    <2> QED BY <2>1, <2>3, <2>4, <2>5 DEF SegmentInv
  <1>12. CASE LinkMerged
    <2>1. /\ seg \in Blocks /\ page \in [Blocks -> PageType]
          /\ pc' = "compact" /\ diskPage[seg].kind = "segment"
          /\ diskPage' = diskPage /\ diskMeta' = diskMeta
      BY <1>12 DEF LinkMerged, TypeInv, CallInv, TypeOK, SegmentInv, diskVars
    <2>4. /\ level \in Levels /\ level + 1 \in Levels
          /\ meta'.heads[level] = NoBlock /\ meta'.heads[level + 1] = seg
          /\ \A i \in Levels : i # level /\ i # level + 1 => meta'.heads[i] = meta.heads[i]
      BY <1>12, MergedEffect
    <2>2. meta.heads[level + 1] \in BlockNumber
      BY <1>h, <2>4
    <2>3. \A j \in Blocks : page'[j].kind = page[j].kind /\ page'[j].docs = page[j].docs
      BY <1>12, <2>1, <2>2, WriteNextEffect DEF LinkMerged
    <2>5. \A l \in Levels : meta'.heads[l] # NoBlock => diskPage[meta'.heads[l]].kind = "segment"
      BY <2>1, <2>4 DEF SegmentInv
    <2> QED BY <2>1, <2>3, <2>5 DEF SegmentInv
  <1>13. ASSUME NEW k \in Blocks, WritePage(k) PROVE SegmentInv'
    <2>1. /\ page' = page /\ meta' = meta /\ diskMeta' = diskMeta /\ pc' = pc /\ seg' = seg
      BY <1>13 DEF WritePage, fileVars, callVars
    <2>2. \A j \in Blocks : diskPage'[j] = diskPage[j] \/ diskPage'[j] = page[j]
      BY <1>13 DEF WritePage, TypeInv, TypeOK
    <2>3. \A j \in Blocks : diskPage[j].kind = "segment" => diskPage'[j].kind = "segment"
      BY <2>2 DEF SegmentInv
    <2>4. \A j \in Blocks : diskPage'[j].kind = "segment" => diskPage'[j].docs # {} /\ page'[j].kind = "segment"
      BY <2>1, <2>2 DEF SegmentInv
    <2>5. pc \in {"clear", "clear_docids", "link", "merge_link"} => seg \in Blocks
      BY DEF TypeInv, CallInv
    <2> QED BY <1>g, <2>1, <2>3, <2>4, <2>5 DEF SegmentInv
  <1>14. CASE WriteMeta
    BY <1>14 DEF WriteMeta, SegmentInv, fileVars, callVars
  <1>15. CASE Restart
    <2>1. /\ page' = page /\ diskPage' = page /\ meta' = meta /\ diskMeta' = meta
          /\ pc' = "idle"
      BY <1>15 DEF Restart, FlushRelation, fileVars, callVars
    <2>2. \A l \in Levels : meta.heads[l] # NoBlock => page[meta.heads[l]].kind = "segment"
      BY <1>g DEF SegmentInv
    <2> QED BY <2>1, <2>2 DEF SegmentInv
  <1>16. CASE Crash
    BY <1>16 DEF Crash, EndCall, SegmentInv, diskVars
  <1> QED BY <1>q, <1>2, <1>3, <1>4, <1>5, <1>6, <1>7, <1>8, <1>9, <1>10, <1>12, <1>13, <1>14,
             <1>15, <1>16 DEF Next, CallStep

-----------------------------------------------------------------------------
(* Theorems *)

FileInv == TypeInv /\ LayoutInv /\ SegmentInv

(* An empty index is well formed. *)
LEMMA FileInit == Init => FileInv
  <1> SUFFICES ASSUME Init PROVE FileInv
    OBVIOUS
  <1> USE Bounds DEF Init, EmptyMeta
  <1>1. ZeroPage \in PageType /\ ZeroPage.kind = "zero"
    BY PageTypes DEF ZeroPage
  <1>2. EmptyMeta \in MetaType
    BY DEF MetaType
  <1>3. TypeInv
    BY <1>1, <1>2 DEF TypeInv, TypeOK, CallInv, Steps
  <1>4. Layout({})
    <2>1. \A k \in Blocks : page[k] = ZeroPage
      OBVIOUS
    <2>2. Segs({}, nblocks) = {}
      BY DEF Segs
    <2> QED BY <2>1, <2>2 DEF Layout, PagesLaid, MetaLaid, RefsLaid
  <1>5. LayoutInv
    BY <1>4 DEF LayoutInv
  <1>6. SegmentInv
    BY <1>1 DEF SegmentInv
  <1> QED BY <1>3, <1>5, <1>6 DEF FileInv

(* A step from a well-formed file leads to one. *)
LEMMA FileStep == FileInv /\ [Next]_vars => FileInv'
  BY TypeInvStep, LayoutStep, SegmentInvStep DEF FileInv

(* Every variable of the file, of shared memory and of the call under way  *)
(* keeps its type, whatever crashes and restarts there are.                *)
THEOREM RecoveryTypes == Spec => []TypeOK
  <1>1. FileInv => TypeOK
    BY DEF FileInv, TypeInv
  <1> QED BY <1>1, FileInit, FileStep, PTL DEF Spec

(* What a crash at any moment leaves on disk can be read back: the head of *)
(* L0 is a segment whose pages were flushed before the metapage that names *)
(* it, and the docid chain does not lead into a segment.                   *)
THEOREM DiskReadable == Spec => []DiskSound
  <1>1. FileInv => DiskSound
    <2> SUFFICES ASSUME FileInv PROVE DiskSound
      OBVIOUS
    <2>1. DiskHeadComplete
      <3> SUFFICES ASSUME diskMeta.heads[0] # NoBlock
                   PROVE  /\ diskPage[diskMeta.heads[0]].kind = "segment"
                          /\ diskPage[diskMeta.heads[0]].docs # {}
        BY DEF DiskHeadComplete
      <3>1. diskMeta.heads[0] \in Blocks
        BY Bounds DEF FileInv, TypeInv, TypeOK, MetaType, BlockNumber
      <3> QED BY <3>1, Bounds DEF FileInv, SegmentInv
    <2>2. PICK D \in SUBSET Blocks : Layout(D)
      BY DEF FileInv, LayoutInv
    <2>3. /\ diskMeta.first \in D \cup {NoBlock}
          /\ \A k \in D : diskPage[k].next \in D \cup {NoBlock}
          /\ \A k \in D : diskPage[k].kind # "segment"
      BY <2>2 DEF Layout, MetaLaid, PagesLaid
    <2>4. Reach(diskPage, diskMeta.first) \subseteq D
      BY <2>3, WalkStays DEF Reach
    <2>5. DiskDocidsSound
      BY <2>3, <2>4 DEF DiskDocidsSound
    <2> QED BY <2>1, <2>5 DEF DiskSound
  <1> QED BY <1>1, FileInit, FileStep, PTL DEF Spec

-----------------------------------------------------------------------------
(* The chains of the levels.  Everything below is about a server that is   *)
(* stopped in an orderly way: a crash may bring back a metapage that names *)
(* segments whose blocks are free.                                         *)

(* f lists the c blocks of the chain that begins at head, the last first.  *)
IsChain(f, c, pages, head) ==
    /\ f \in [1 .. c -> Blocks]
    /\ \A i, j \in 1 .. c : f[i] = f[j] => i = j
    /\ head = IF c = 0 THEN NoBlock ELSE f[c]
    /\ \A i \in 1 .. c : pages[f[i]].next = IF i = 1 THEN NoBlock ELSE f[i - 1]

On(f, c) == {f[i] : i \in 1 .. c}

(* A walk meets all blocks of a chain; so does one of as many steps as the *)
(* chain has blocks.                                                       *)
LEMMA ChainBlocks ==
    ASSUME NEW f, NEW c \in Nat, NEW pages, NEW head, IsChain(f, c, pages, head)
    PROVE  /\ FirstBlocks(pages, head, c) = On(f, c)
           /\ Reach(pages, head) = On(f, c)
  <1>0. MaxBlocks \in Nat /\ NoBlock \notin Blocks
    BY RecoveryAssumption DEF Blocks
  <1>1. c <= MaxBlocks
    <2>1. IsFiniteSet(1 .. MaxBlocks) /\ Cardinality(1 .. MaxBlocks) = MaxBlocks
      BY <1>0, FS_Interval
    <2>2. IsFiniteSet(1 .. c) /\ Cardinality(1 .. c) = c
      BY FS_Interval
    <2>3. f \in [1 .. c -> 1 .. MaxBlocks]
      BY DEF IsChain, Blocks
    <2>4. ~ (Cardinality(1 .. MaxBlocks) < Cardinality(1 .. c))
      <3> SUFFICES ASSUME Cardinality(1 .. MaxBlocks) < Cardinality(1 .. c) PROVE FALSE
        OBVIOUS
      <3>1. PICK S, T : S = 1 .. c /\ T = 1 .. MaxBlocks
        OBVIOUS
      <3>2. IsFiniteSet(S) /\ IsFiniteSet(T) /\ Cardinality(T) < Cardinality(S) /\ f \in [S -> T]
        BY <2>1, <2>2, <2>3, <3>1, Zenon
      <3>3. \E x, y \in S : x # y /\ f[x] = f[y]
        BY <3>2, FS_PigeonHole, Zenon
      <3> QED BY <3>1, <3>3 DEF IsChain
    <2> QED BY <1>0, <2>1, <2>2, <2>4
  <1>2. PICK h : /\ IsWalk(h, pages, head, MaxBlocks)
                 /\ \A num : FirstBlocks(pages, head, num) =
                       {h[n] : n \in {i \in 0 .. MaxBlocks : i < num}} \ {NoBlock}
    BY WalkExists
  <1>3. \A n \in 0 .. MaxBlocks : h[n] = IF n = 0 THEN head
                                          ELSE IF h[n - 1] = NoBlock THEN NoBlock
                                          ELSE pages[h[n - 1]].next
    BY <1>2 DEF IsWalk
  <1>b. \A i \in 1 .. c : f[i] \in Blocks /\ f[i] # NoBlock
    BY <1>0 DEF IsChain
  <1> DEFINE at(n) == IF n < c THEN f[c - n] ELSE NoBlock
             G == {n \in Nat : n \in 0 .. MaxBlocks => h[n] = at(n)}
  <1>4. 0 \in G
    BY <1>0, <1>3 DEF IsChain
  <1>5. \A n \in Nat : n \in G => n + 1 \in G
    <2> SUFFICES ASSUME NEW n \in Nat, n \in G, n + 1 \in 0 .. MaxBlocks
                 PROVE  h[n + 1] = at(n + 1)
      OBVIOUS
    <2>1. h[n] = at(n)
      BY <1>0
    <2>2. h[n + 1] = IF h[n] = NoBlock THEN NoBlock ELSE pages[h[n]].next
      BY <1>0, <1>3
    <2>3. CASE n < c
      <3>1. c - n \in 1 .. c /\ h[n] = f[c - n] /\ h[n] # NoBlock
        BY <1>b, <2>1, <2>3
      <3>2. h[n + 1] = IF c - n = 1 THEN NoBlock ELSE f[c - n - 1]
        BY <2>2, <3>1 DEF IsChain
      <3> QED BY <2>3, <3>2
    <2>4. CASE ~ (n < c)
      BY <2>1, <2>2, <2>4
    <2> QED BY <2>3, <2>4
  <1>6. \A n \in Nat : n \in G
    <2> HIDE DEF G
    <2> QED BY <1>4, <1>5, NatSetInduction
  <1>7. \A n \in 0 .. MaxBlocks : h[n] = at(n)
    BY <1>0, <1>6
  <1>8. \A num \in Nat : num >= c =>
            {h[n] : n \in {i \in 0 .. MaxBlocks : i < num}} \ {NoBlock} = On(f, c)
    <2> SUFFICES ASSUME NEW num \in Nat, num >= c
                 PROVE  {h[n] : n \in {i \in 0 .. MaxBlocks : i < num}} \ {NoBlock} = On(f, c)
      OBVIOUS
    <2>1. ASSUME NEW n \in 0 .. MaxBlocks, n < num, h[n] # NoBlock PROVE h[n] \in On(f, c)
      <3>1. n < c /\ c - n \in 1 .. c /\ h[n] = f[c - n]
        BY <1>7, <2>1
      <3> QED BY <3>1 DEF On
    <2>2. ASSUME NEW i \in 1 .. c
          PROVE  f[i] \in {h[n] : n \in {j \in 0 .. MaxBlocks : j < num}} \ {NoBlock}
      <3>1. /\ c - i \in 0 .. MaxBlocks /\ c - i < num /\ h[c - i] = f[i] /\ f[i] # NoBlock
        BY <1>0, <1>1, <1>7, <1>b
      <3> QED BY <3>1
    <2> QED BY <2>1, <2>2 DEF On
  <1>9. FirstBlocks(pages, head, c) = On(f, c)
    <2>1. FirstBlocks(pages, head, c) = {h[n] : n \in {i \in 0 .. MaxBlocks : i < c}} \ {NoBlock}
      BY <1>2, Zenon
    <2> QED BY <1>8, <2>1
  <1>10. FirstBlocks(pages, head, MaxBlocks) = On(f, c)
    <2>1. FirstBlocks(pages, head, MaxBlocks) = {h[n] : n \in {i \in 0 .. MaxBlocks : i < MaxBlocks}} \ {NoBlock}
      BY <1>2, Zenon
    <2> QED BY <1>0, <1>1, <1>8, <2>1
  <1> QED BY <1>9, <1>10 DEF Reach

(* A chain stays one when the pages on it keep their next pointers. *)
LEMMA ChainKept ==
    ASSUME NEW f, NEW c \in Nat, NEW pages, NEW w, NEW head, IsChain(f, c, pages, head),
           \A k \in On(f, c) : w[k].next = pages[k].next
    PROVE  IsChain(f, c, w, head)
  <1>1. \A i \in 1 .. c : f[i] \in On(f, c)
    BY DEF On
  <1> QED BY <1>1 DEF IsChain

(* A block is put in front of a chain. *)
LEMMA ChainPush ==
    ASSUME NEW f, NEW c \in Nat, NEW pages, NEW w, NEW head, IsChain(f, c, pages, head),
           NEW k \in Blocks, k \notin On(f, c),
           \A j \in On(f, c) : w[j].next = pages[j].next,
           w[k].next = head
    PROVE  \E g : /\ IsChain(g, c + 1, w, k) /\ On(g, c + 1) = On(f, c) \cup {k}
  <1> DEFINE g == [i \in 1 .. c + 1 |-> IF i = c + 1 THEN k ELSE f[i]]
  <1>1. \A i \in 1 .. c : f[i] \in On(f, c) /\ f[i] \in Blocks
    BY DEF On, IsChain
  <1>2. /\ g \in [1 .. c + 1 -> Blocks] /\ g[c + 1] = k
        /\ \A i \in 1 .. c : i \in 1 .. c + 1 /\ g[i] = f[i]
        /\ \A i \in 1 .. c + 1 : i = c + 1 \/ i \in 1 .. c
    BY <1>1
  <1>3. On(g, c + 1) = On(f, c) \cup {k}
    <2> HIDE DEF g
    <2>1. c + 1 \in 1 .. c + 1
      OBVIOUS
    <2>2. \A x \in On(g, c + 1) : x \in On(f, c) \cup {k}
      BY <1>1, <1>2 DEF On
    <2>3. \A x \in On(f, c) \cup {k} : x \in On(g, c + 1)
      BY <1>2, <2>1 DEF On
    <2> QED BY <2>2, <2>3
  <1>4. \A i, j \in 1 .. c + 1 : g[i] = g[j] => i = j
    <2> HIDE DEF g
    <2> QED BY <1>1, <1>2 DEF IsChain
  <1>5. \A i \in 1 .. c + 1 : w[g[i]].next = IF i = 1 THEN NoBlock ELSE g[i - 1]
    <2> SUFFICES ASSUME NEW i \in 1 .. c + 1
                 PROVE  w[g[i]].next = IF i = 1 THEN NoBlock ELSE g[i - 1]
      OBVIOUS
    <2> HIDE DEF g
    <2>1. CASE i = c + 1
      <3>1. CASE c = 0
        BY <1>2, <2>1, <3>1 DEF IsChain
      <3>2. CASE c # 0
        <4>1. i # 1 /\ i - 1 = c /\ c \in 1 .. c /\ g[c] = f[c]
          BY <1>2, <2>1, <3>2
        <4>2. head = f[c] /\ w[g[i]].next = head
          BY <1>2, <2>1, <3>2 DEF IsChain
        <4> QED BY <4>1, <4>2
      <3> QED BY <3>1, <3>2
    <2>2. CASE i # c + 1
      <3>1. i \in 1 .. c /\ g[i] = f[i] /\ f[i] \in On(f, c)
        BY <1>1, <1>2, <2>2
      <3>2. w[f[i]].next = IF i = 1 THEN NoBlock ELSE f[i - 1]
        BY <3>1 DEF IsChain
      <3>3. i # 1 => i - 1 \in 1 .. c
        BY <3>1
      <3>4. i # 1 => g[i - 1] = f[i - 1]
        BY <1>2, <3>3
      <3> QED BY <3>1, <3>2, <3>4
    <2> QED BY <2>1, <2>2
  <1>6. IsChain(g, c + 1, w, k)
    <2> HIDE DEF g
    <2>1. k = IF c + 1 = 0 THEN NoBlock ELSE g[c + 1]
      BY <1>2
    <2> QED BY <1>2, <1>4, <1>5, <2>1 DEF IsChain
  <1> HIDE DEF g
  <1> QED BY <1>3, <1>6

(* The segment being written is not yet in a chain. *)
Pending == pc \in {"flush", "clear", "clear_docids", "link", "merge_flush", "merge_link"}

(* Each level has a chain of as many segments as its counter says; the     *)
(* chains share no block, with each other, the free space map or the       *)
(* segment being written.                                                  *)
Chained(C) ==
    /\ \A l \in Levels : IsChain(C[l], meta.counts[l], page, meta.heads[l])
    /\ \A l, m \in Levels : l # m => On(C[l], meta.counts[l]) \cap On(C[m], meta.counts[m]) = {}
    /\ \A l \in Levels : \A k \in On(C[l], meta.counts[l]) : k \notin free /\ page[k].kind = "segment"
    /\ Pending => seg \notin free /\ \A l \in Levels : seg \notin On(C[l], meta.counts[l])

ChainInv == \E C : Chained(C)

(* The live segments are those of the chains. *)
LEMMA LiveOfChains ==
    ASSUME NEW m \in MetaType, NEW pages, NEW C,
           \A l \in Levels : IsChain(C[l], m.counts[l], pages, m.heads[l])
    PROVE  LiveSegments(m, pages) = UNION {On(C[l], m.counts[l]) : l \in Levels}
  <1>1. m.counts \in [Levels -> Nat]
    BY DEF MetaType
  <1>2. \A l \in Levels : Reach(pages, m.heads[l]) = On(C[l], m.counts[l])
    BY <1>1, ChainBlocks
  <1> QED BY <1>2 DEF LiveSegments

(* A merge takes the whole chain of its level. *)
LEMMA ChainsAreLive ==
    ASSUME TypeInv, NEW C, Chained(C)
    PROVE  /\ \A l \in Levels : On(C[l], meta.counts[l]) \subseteq Blocks
           /\ SourceBlocks = On(C[level], meta.counts[level])
           /\ LiveSegments(meta, page) = UNION {On(C[l], meta.counts[l]) : l \in Levels}
  <1>1. meta.counts \in [Levels -> Nat] /\ level \in Levels /\ meta \in MetaType
    BY DEF TypeInv, TypeOK, MetaType
  <1>2. \A l \in Levels : IsChain(C[l], meta.counts[l], page, meta.heads[l])
    BY DEF Chained
  <1>3. FirstBlocks(page, meta.heads[level], meta.counts[level]) = On(C[level], meta.counts[level])
    BY <1>1, <1>2, ChainBlocks
  <1>4. ASSUME NEW l \in Levels PROVE On(C[l], meta.counts[l]) \subseteq Blocks
    <2>1. C[l] \in [1 .. meta.counts[l] -> Blocks]
      BY <1>2 DEF IsChain
    <2> QED BY <2>1 DEF On
  <1>5. LiveSegments(meta, page) = UNION {On(C[l], meta.counts[l]) : l \in Levels}
    BY <1>1, <1>2, LiveOfChains
  <1> QED BY <1>3, <1>4, <1>5 DEF SourceBlocks

(* No live segment is touched and no segment becomes live. *)
LEMMA ChainsAlone ==
    ASSUME TypeInv, TypeInv', NEW C, Chained(C),
           meta'.heads = meta.heads, meta'.counts = meta.counts, free' \subseteq free,
           \A k \in Blocks : page[k].kind = "segment" /\ k \notin free => page'[k] = page[k],
           Pending' => seg' \notin free' /\ (\/ (Pending /\ seg' = seg)
                                             \/ seg' \in free
                                             \/ page[seg'].kind # "segment")
    PROVE  /\ Chained(C)'
           /\ SegmentDocs' = SegmentDocs
           /\ \A l \in Levels : On(C[l], meta'.counts[l]) = On(C[l], meta.counts[l])
           /\ \A l \in Levels : \A k \in On(C[l], meta.counts[l]) : page'[k] = page[k]
  <1>1. meta.counts \in [Levels -> Nat]
    BY DEF TypeInv, TypeOK, MetaType
  <1>2. \A l \in Levels : \A k \in On(C[l], meta.counts[l]) : page'[k] = page[k]
    BY ChainsAreLive DEF Chained
  <1>3. ASSUME NEW l \in Levels PROVE IsChain(C[l], meta.counts[l], page', meta.heads[l])
    BY <1>1, <1>2, <1>3, ChainKept DEF Chained
  <1>4. Pending' => seg' \notin free' /\ \A l \in Levels : seg' \notin On(C[l], meta.counts[l])
    BY DEF Chained
  <1>5. Chained(C)'
    BY <1>2, <1>3, <1>4 DEF Chained
  <1>6. LiveSegments(meta', page') = LiveSegments(meta, page)
    <2>1. LiveSegments(meta, page) = UNION {On(C[l], meta.counts[l]) : l \in Levels}
      BY ChainsAreLive
    <2>2. meta' \in MetaType /\ \A l \in Levels : IsChain(C[l], meta'.counts[l], page', meta'.heads[l])
      BY <1>3 DEF TypeInv, TypeOK
    <2>3. LiveSegments(meta', page') = UNION {On(C[l], meta'.counts[l]) : l \in Levels}
      BY <2>2, LiveOfChains
    <2> QED BY <2>1, <2>3
  <1>7. \A k \in LiveSegments(meta, page) : page'[k] = page[k]
    BY <1>2, ChainsAreLive
  <1>8. SegmentDocs' = SegmentDocs
    BY <1>6, <1>7 DEF SegmentDocs, DocsOf
  <1> QED BY <1>2, <1>5, <1>8

(* The chains of the next state, one of them with the segment in front. *)
LEMMA PushedChains ==
    ASSUME TypeInv, TypeInv', NEW C, Chained(C), NEW n \in Levels, Pending, seg \in Blocks,
           \A j \in Blocks : j # seg => page'[j] = page[j], page'[seg].next = meta.heads[n],
           meta'.heads[n] = seg, meta'.counts[n] = meta.counts[n] + 1
    PROVE  \E g : /\ IsChain(g, meta'.counts[n], page', meta'.heads[n])
                  /\ On(g, meta'.counts[n]) = On(C[n], meta.counts[n]) \cup {seg}
  <1>1. meta.counts[n] \in Nat
    BY DEF TypeInv, TypeOK, MetaType
  <1>2. IsChain(C[n], meta.counts[n], page, meta.heads[n]) /\ seg \notin On(C[n], meta.counts[n])
    BY DEF Chained
  <1>3. \A j \in On(C[n], meta.counts[n]) : page'[j].next = page[j].next
    BY <1>2, ChainsAreLive
  <1>4. \E g : /\ IsChain(g, meta.counts[n] + 1, page', seg)
               /\ On(g, meta.counts[n] + 1) = On(C[n], meta.counts[n]) \cup {seg}
    BY <1>1, <1>2, <1>3, ChainPush
  <1> QED BY <1>4

(* The new segment joins the chain of level 0. *)
LEMMA ChainsLinked ==
    ASSUME TypeInv, TypeInv', SegmentInv, NEW C, Chained(C), LinkL0
    PROVE  /\ ChainInv'
           /\ SegmentDocs' = SegmentDocs \cup page[seg].docs
  <1>1. /\ seg \in Blocks /\ page \in [Blocks -> PageType] /\ 0 \in Levels /\ Pending /\ ~Pending'
        /\ meta.heads[0] \in BlockNumber /\ free' = free
    BY Bounds DEF LinkL0, TypeInv, CallInv, TypeOK, MetaType, Pending
  <1>2. /\ \A j \in Blocks : page'[j].kind = page[j].kind /\ page'[j].docs = page[j].docs
        /\ \A j \in Blocks : j # seg => page'[j] = page[j]
        /\ page'[seg].next = meta.heads[0]
    BY <1>1, WriteNextEffect DEF LinkL0
  <1>3. page[seg].kind = "segment"
    BY <1>1 DEF LinkL0, SegmentInv
  <1>4. /\ meta' \in MetaType
        /\ meta'.heads[0] = seg /\ meta'.counts[0] = meta.counts[0] + 1
        /\ \A i \in Levels : i # 0 => meta'.heads[i] = meta.heads[i] /\ meta'.counts[i] = meta.counts[i]
    BY LinkedEffect
  <1>5. PICK g : /\ IsChain(g, meta'.counts[0], page', meta'.heads[0])
                 /\ On(g, meta'.counts[0]) = On(C[0], meta.counts[0]) \cup {seg}
    BY <1>1, <1>2, <1>4, PushedChains
  <1>6. PICK E : E = [l \in Levels |-> IF l = 0 THEN g ELSE C[l]]
    OBVIOUS
  <1>7. /\ On(E[0], meta'.counts[0]) = On(C[0], meta.counts[0]) \cup {seg}
        /\ \A l \in Levels : l # 0 => On(E[l], meta'.counts[l]) = On(C[l], meta.counts[l])
    BY <1>1, <1>4, <1>5, <1>6
  <1>8. \A l \in Levels : \A k \in On(C[l], meta.counts[l]) : k \in Blocks /\ k # seg /\ page'[k] = page[k]
    BY <1>1, <1>2, ChainsAreLive DEF Chained
  <1>9. ASSUME NEW l \in Levels PROVE IsChain(E[l], meta'.counts[l], page', meta'.heads[l])
    <2>1. CASE l = 0
      BY <1>1, <1>5, <1>6, <2>1
    <2>2. CASE l # 0
      <3>1. IsChain(C[l], meta.counts[l], page, meta.heads[l]) /\ meta.counts[l] \in Nat
        BY DEF Chained, TypeInv, TypeOK, MetaType
      <3>2. IsChain(C[l], meta.counts[l], page', meta.heads[l])
        BY <1>8, <3>1, ChainKept
      <3> QED BY <1>4, <1>6, <2>2, <3>2
    <2> QED BY <2>1, <2>2
  <1>10. \A l, m \in Levels : l # m => On(E[l], meta'.counts[l]) \cap On(E[m], meta'.counts[m]) = {}
    BY <1>7, <1>8 DEF Chained
  <1>11. \A l \in Levels : \A k \in On(E[l], meta'.counts[l]) : k \notin free' /\ page'[k].kind = "segment"
    BY <1>1, <1>2, <1>3, <1>7, <1>8 DEF Chained
  <1>12. Chained(E)'
    BY <1>1, <1>9, <1>10, <1>11 DEF Chained
  <1>13. LiveSegments(meta', page') = LiveSegments(meta, page) \cup {seg}
    <2>1. LiveSegments(meta', page') = UNION {On(E[l], meta'.counts[l]) : l \in Levels}
      BY <1>4, <1>9, LiveOfChains
    <2>2. LiveSegments(meta, page) = UNION {On(C[l], meta.counts[l]) : l \in Levels}
      BY ChainsAreLive
    <2> QED BY <1>1, <1>7, <2>1, <2>2
  <1>14. LiveSegments(meta, page) \subseteq Blocks
    BY ChainsAreLive
  <1>15. SegmentDocs' = SegmentDocs \cup page[seg].docs
    BY <1>1, <1>2, <1>13, <1>14 DEF SegmentDocs, DocsOf
  <1> QED BY <1>12, <1>15 DEF ChainInv

(* The merged segment takes the place of the chain it was made from. *)
LEMMA ChainsMerged ==
    ASSUME TypeInv, TypeInv', SegmentInv, NEW C, Chained(C), LinkMerged
    PROVE  /\ ChainInv'
           /\ page[seg].docs = DocsOf(page, SourceBlocks) => SegmentDocs' = SegmentDocs
  <1>0. /\ level \in Levels /\ level + 1 \in Levels /\ level # level + 1
        /\ meta' \in MetaType
        /\ meta'.heads[level] = NoBlock /\ meta'.heads[level + 1] = seg
        /\ meta'.counts[level] = 0 /\ meta'.counts[level + 1] = meta.counts[level + 1] + 1
        /\ \A i \in Levels : i # level /\ i # level + 1 =>
                meta'.heads[i] = meta.heads[i] /\ meta'.counts[i] = meta.counts[i]
    <2>1. level # level + 1
      BY Bounds DEF TypeInv, TypeOK
    <2> QED BY <2>1, MergedEffect
  <1>1. /\ seg \in Blocks /\ page \in [Blocks -> PageType] /\ Pending /\ ~Pending'
        /\ meta.heads[level + 1] \in BlockNumber /\ free' = free \cup SourceBlocks
    BY <1>0, Bounds DEF LinkMerged, TypeInv, CallInv, TypeOK, MetaType, Pending
  <1>2. /\ \A j \in Blocks : page'[j].kind = page[j].kind /\ page'[j].docs = page[j].docs
        /\ \A j \in Blocks : j # seg => page'[j] = page[j]
        /\ page'[seg].next = meta.heads[level + 1]
    BY <1>1, WriteNextEffect DEF LinkMerged
  <1>3. page[seg].kind = "segment"
    BY <1>1 DEF LinkMerged, SegmentInv
  <1>5. PICK g : /\ IsChain(g, meta'.counts[level + 1], page', meta'.heads[level + 1])
                 /\ On(g, meta'.counts[level + 1]) = On(C[level + 1], meta.counts[level + 1]) \cup {seg}
    BY <1>0, <1>1, <1>2, PushedChains
  <1>6. PICK E : E = [l \in Levels |-> IF l = level THEN [i \in 1 .. 0 |-> NoBlock]
                                        ELSE IF l = level + 1 THEN g ELSE C[l]]
    OBVIOUS
  <1>7. /\ On(E[level + 1], meta'.counts[level + 1]) = On(C[level + 1], meta.counts[level + 1]) \cup {seg}
        /\ On(E[level], meta'.counts[level]) = {}
        /\ \A l \in Levels : l # level /\ l # level + 1 => On(E[l], meta'.counts[l]) = On(C[l], meta.counts[l])
    <2>1. On(E[level], meta'.counts[level]) = {}
      BY <1>0 DEF On
    <2> QED BY <1>0, <1>5, <1>6, <2>1
  <1>8. \A l \in Levels : \A k \in On(C[l], meta.counts[l]) : k \in Blocks /\ k # seg /\ page'[k] = page[k]
    BY <1>1, <1>2, ChainsAreLive DEF Chained
  <1>9. ASSUME NEW l \in Levels PROVE IsChain(E[l], meta'.counts[l], page', meta'.heads[l])
    <2>1. CASE l = level + 1
      BY <1>0, <1>5, <1>6, <2>1
    <2>2. CASE l # level /\ l # level + 1
      <3>1. IsChain(C[l], meta.counts[l], page, meta.heads[l]) /\ meta.counts[l] \in Nat
        BY DEF Chained, TypeInv, TypeOK, MetaType
      <3>2. IsChain(C[l], meta.counts[l], page', meta.heads[l])
        BY <1>8, <3>1, ChainKept
      <3> QED BY <1>0, <1>6, <2>2, <3>2
    <2>3. CASE l = level
      <3>1. E[l] = [i \in 1 .. 0 |-> NoBlock] /\ meta'.counts[l] = 0 /\ meta'.heads[l] = NoBlock
        BY <1>0, <1>6, <2>3
      <3> QED BY <3>1 DEF IsChain
    <2> QED BY <2>1, <2>2, <2>3
  <1>s. SourceBlocks = On(C[level], meta.counts[level])
    BY ChainsAreLive
  <1>10. \A l, m \in Levels : l # m => On(E[l], meta'.counts[l]) \cap On(E[m], meta'.counts[m]) = {}
    <2>1. \A l \in Levels : On(E[l], meta'.counts[l]) \subseteq On(C[l], meta.counts[l]) \cup {seg}
      BY <1>7
    <2>2. \A l \in Levels : l # level + 1 => seg \notin On(E[l], meta'.counts[l])
      BY <1>7, <1>8
    <2> QED BY <1>8, <2>1, <2>2 DEF Chained
  <1>11. ASSUME NEW l \in Levels, NEW k \in On(E[l], meta'.counts[l])
         PROVE  k \notin free' /\ page'[k].kind = "segment"
    <2>1. l # level /\ (k \in On(C[l], meta.counts[l]) \/ k = seg)
      BY <1>7, <1>11
    <2>2. k \notin SourceBlocks
      BY <1>0, <1>8, <1>s, <2>1 DEF Chained
    <2> QED BY <1>1, <1>2, <1>3, <1>8, <2>1, <2>2 DEF Chained
  <1>12. Chained(E)'
    BY <1>1, <1>9, <1>10, <1>11 DEF Chained
  <1>13. LiveSegments(meta', page') \cup SourceBlocks = LiveSegments(meta, page) \cup {seg}
    <2>1. LiveSegments(meta', page') = UNION {On(E[l], meta'.counts[l]) : l \in Levels}
      BY <1>0, <1>9, LiveOfChains
    <2>2. LiveSegments(meta, page) = UNION {On(C[l], meta.counts[l]) : l \in Levels}
      BY ChainsAreLive
    <2> QED BY <1>0, <1>7, <1>s, <2>1, <2>2
  <1>14. LiveSegments(meta, page) \subseteq Blocks /\ SourceBlocks \subseteq LiveSegments(meta, page)
         /\ seg \in LiveSegments(meta', page')
    <2>1. LiveSegments(meta', page') = UNION {On(E[l], meta'.counts[l]) : l \in Levels}
      BY <1>0, <1>9, LiveOfChains
    <2> QED BY <1>0, <1>7, <1>s, <2>1, ChainsAreLive
  <1>15. ASSUME page[seg].docs = DocsOf(page, SourceBlocks) PROVE SegmentDocs' = SegmentDocs
    <2>1. \A d \in SegmentDocs' : d \in SegmentDocs
      BY <1>1, <1>2, <1>13, <1>14, <1>15 DEF SegmentDocs, DocsOf
    <2>2. \A d \in SegmentDocs : d \in SegmentDocs'
      BY <1>1, <1>2, <1>13, <1>14, <1>15 DEF SegmentDocs, DocsOf
    <2> QED BY <2>1, <2>2
  <1> QED BY <1>12, <1>15 DEF ChainInv

(* Every step keeps the chains; only links change what the segments hold. *)
LEMMA ChainStep ==
    ASSUME ~Crashes, FileInv, FileInv', ChainInv, [Next]_vars
    PROVE  /\ ChainInv'
           /\ pc \notin {"link", "merge_link"} => SegmentDocs' = SegmentDocs
  <1>0. PICK D \in SUBSET Blocks : Layout(D)
    BY DEF FileInv, LayoutInv
  <1>c. PICK C : Chained(C)
    BY DEF ChainInv
  <1>t. TypeInv /\ TypeInv' /\ SegmentInv
    BY DEF FileInv
  <1>d. \A k \in D : page[k].kind # "segment"
    BY <1>0 DEF Layout, PagesLaid
  <1>z. nblocks + 1 \in Blocks => page[nblocks + 1].kind = "zero"
    BY <1>0, <1>t, Bounds DEF Layout, PagesLaid, TypeInv, TypeOK, ZeroPage, Blocks
  <1> DEFINE Goal == ChainInv' /\ SegmentDocs' = SegmentDocs
  <1>k. ASSUME meta'.heads = meta.heads, meta'.counts = meta.counts, free' \subseteq free,
               \A k \in Blocks : page[k].kind = "segment" /\ k \notin free => page'[k] = page[k],
               Pending' => seg' \notin free' /\ (\/ (Pending /\ seg' = seg)
                                                 \/ seg' \in free
                                                 \/ page[seg'].kind # "segment")
        PROVE  Goal
    BY <1>c, <1>t, <1>k, ChainsAlone DEF ChainInv
  <1>p. Pending => seg \notin free
    BY <1>c DEF Chained
  <1>1. ASSUME Quiet, Pending' => Pending /\ seg' = seg PROVE Goal
    BY <1>1, <1>k, <1>p DEF Quiet, fileVars
  <1>q. ASSUME \/ \E b \in Backends : StartSpill(b) \/ \E d \in Docs : StartInsert(b, d)
               \/ AddTerms \/ ClearMemtable \/ StopCompaction \/ Commit \/ Rollback
               \/ Recover \/ RecoverFails \/ UNCHANGED vars
        PROVE  Goal
    <2>1. Quiet
      BY <1>q, QuietSteps
    <2>2. Pending' => Pending /\ seg' = seg
      BY <1>q DEF StartSpill, StartInsert, AddTerms, ClearMemtable, StopCompaction, Commit, Rollback,
                  Recover, RecoverFails, EndCall, vars, callVars, Pending
    <2> QED BY <1>1, <2>1, <2>2
  <1>2. CASE AppendDocidCached
    <2>1. /\ cache[who] \in D
          /\ \A j \in Blocks : j # cache[who] => page'[j] = page[j]
          /\ pc' = "commit"
      BY <1>0, <1>2, <1>t, CachedEffect
    <2>2. meta' = meta /\ free' = free /\ ~Pending'
      BY <1>2, <2>1 DEF AppendDocidCached, Pending
    <2> QED BY <1>d, <1>k, <2>1, <2>2
  <1>4. CASE AppendDocidLast
    <2>1. PICK k \in D :
          /\ \A j \in Blocks : j # k => page'[j] = page[j]
          /\ pc' = "commit"
      BY <1>0, <1>4, <1>t, LastEffect
    <2>2. meta' = meta /\ free' = free /\ ~Pending'
      BY <1>4, <2>1 DEF AppendDocidLast, Pending
    <2> QED BY <1>d, <1>k, <2>1, <2>2
  <1>3. CASE AppendDocidFirst
    <2>1. PICK k \in Blocks :
          /\ k = nblocks + 1
          /\ \A j \in Blocks : j # k => page'[j] = page[j]
          /\ meta'.heads = meta.heads /\ meta'.counts = meta.counts
          /\ pc' = "commit"
      BY <1>0, <1>3, <1>t, FirstEffect
    <2>2. free' = free /\ ~Pending'
      BY <1>3, <2>1 DEF AppendDocidFirst, Pending
    <2> QED BY <1>k, <1>z, <2>1, <2>2
  <1>5. CASE AppendDocidNew
    <2>1. PICK k \in Blocks, last \in D :
          /\ k = nblocks + 1
          /\ \A j \in Blocks : j # k /\ j # last => page'[j] = page[j]
          /\ pc' = "commit"
      BY <1>0, <1>5, <1>t, NewEffect
    <2>2. meta' = meta /\ free' = free /\ ~Pending'
      BY <1>5, <2>1 DEF AppendDocidNew, Pending
    <2> QED BY <1>d, <1>k, <1>z, <2>1, <2>2
  <1>6. ASSUME NEW k \in Blocks, NEW docs \in SUBSET Docs,
               k \in SegmentBlocks, AllocateSegmentPage(k),
               page' = [page EXCEPT ![k] = SegmentPage(docs, NoBlock)],
               seg' = k, meta' = meta
        PROVE  Goal
    <2>1. /\ \A j \in Blocks : j # k => page'[j] = page[j]
          /\ free' = free \ {k}
          /\ \/ k \in free /\ nblocks' = nblocks
             \/ free = {} /\ k = nblocks + 1 /\ nblocks' = nblocks + 1
      BY <1>0, <1>6, <1>t, SegmentEffect
    <2>2. k \in free \/ page[k].kind # "segment"
      BY <1>z, <2>1
    <2> QED BY <1>6, <1>k, <2>1, <2>2
  <1>7. ASSUME NEW k \in Blocks, WriteSegment(k) PROVE Goal
    <2>1. memtable \in SUBSET Docs
      BY <1>t DEF TypeInv, TypeOK
    <2> QED BY <1>6, <1>7, <2>1 DEF WriteSegment
  <1>8. ASSUME NEW k \in Blocks, MergeSegments(k) PROVE Goal
    <2>1. DocsOf(page, SourceBlocks) \in SUBSET Docs
      BY <1>t, SourceDocs
    <2> QED BY <1>6, <1>8, <2>1 DEF MergeSegments
  <1>9. CASE FlushSegment \/ FlushMerged
    <2>1. Pending /\ seg' = seg /\ meta' = meta /\ page' = page /\ free' = free
      BY <1>9 DEF FlushSegment, FlushMerged, Pending, fileVars
    <2> QED BY <1>k, <1>p, <2>1
  <1>10. CASE ClearDocidPages
    <2>1. meta \in MetaType /\ NoBlock \in BlockNumber
      BY <1>t, Bounds DEF TypeInv, TypeOK
    <2>2. meta'.heads = meta.heads /\ meta'.counts = meta.counts
      BY <1>10, <2>1, FirstMeta DEF ClearDocidPages, FlushMeta
    <2>3. Pending /\ seg' = seg /\ page' = page /\ free' = free
      BY <1>10 DEF ClearDocidPages, Pending
    <2> QED BY <1>k, <1>p, <2>2, <2>3
  <1>11. CASE LinkL0
    <2>1. ChainInv'
      BY <1>11, <1>c, <1>t, ChainsLinked
    <2> QED BY <1>11, <2>1 DEF LinkL0
  <1>12. CASE LinkMerged
    <2>1. ChainInv'
      BY <1>12, <1>c, <1>t, ChainsMerged
    <2> QED BY <1>12, <2>1 DEF LinkMerged
  <1>13. CASE Restart
    <2>1. ~Pending' /\ meta' = meta /\ page' = page /\ free' = free
      BY <1>13 DEF Restart, Pending, fileVars, callVars
    <2> QED BY <1>k, <2>1
  <1>14. ~Crash /\ ~WriteMeta /\ \A k \in Blocks : ~WritePage(k)
    BY DEF Crash, WriteMeta, WritePage
  <1>15. Goal => (ChainInv' /\ (pc \notin {"link", "merge_link"} => SegmentDocs' = SegmentDocs))
    OBVIOUS
  <1> HIDE DEF Goal
  <1> QED BY <1>q, <1>2, <1>3, <1>4, <1>5, <1>7, <1>8, <1>9, <1>10, <1>11, <1>12, <1>13, <1>14, <1>15
          DEF Next, CallStep

(* There are no chains at first. *)
LEMMA ChainInit == Init => ChainInv
  <1> SUFFICES ASSUME Init PROVE ChainInv
    OBVIOUS
  <1> DEFINE C == [l \in Levels |-> [i \in 1 .. 0 |-> NoBlock]]
  <1>1. \A l \in Levels : meta.counts[l] = 0 /\ meta.heads[l] = NoBlock /\ C[l] = [i \in 1 .. 0 |-> NoBlock]
    BY DEF Init, EmptyMeta
  <1> HIDE DEF C
  <1>2. \A l \in Levels : IsChain(C[l], meta.counts[l], page, meta.heads[l]) /\ On(C[l], meta.counts[l]) = {}
    <2> SUFFICES ASSUME NEW l \in Levels
                 PROVE  IsChain(C[l], meta.counts[l], page, meta.heads[l]) /\ On(C[l], meta.counts[l]) = {}
      OBVIOUS
    <2>1. IsChain([i \in 1 .. 0 |-> NoBlock], 0, page, NoBlock)
      BY DEF IsChain
    <2>2. On([i \in 1 .. 0 |-> NoBlock], 0) = {}
      BY DEF On
    <2> QED BY <1>1, <2>1, <2>2
  <1>3. ~Pending
    BY DEF Init, Pending
  <1>4. Chained(C)
    BY <1>2, <1>3 DEF Chained
  <1> QED BY <1>4 DEF ChainInv

(* A block in the free space map belongs to no live segment, as long as    *)
(* the server is only stopped in an orderly way: the next segment written  *)
(* overwrites no document a query can reach.                               *)
THEOREM FreeBlocksDead ==
    ASSUME ~Crashes
    PROVE  Spec => []FreeBlocksNotLive
  <1>1. Init => FileInv /\ ChainInv
    BY FileInit, ChainInit
  <1>2. FileInv /\ ChainInv /\ [Next]_vars => (FileInv /\ ChainInv)'
    BY FileStep, ChainStep
  <1>3. FileInv /\ ChainInv => FreeBlocksNotLive
    <2> SUFFICES ASSUME FileInv, ChainInv PROVE FreeBlocksNotLive
      OBVIOUS
    <2>1. PICK C : Chained(C)
      BY DEF ChainInv
    <2>2. LiveSegments(meta, page) = UNION {On(C[l], meta.counts[l]) : l \in Levels}
      BY <2>1, ChainsAreLive DEF FileInv
    <2> QED BY <2>1, <2>2 DEF Chained, FreeBlocksNotLive
  <1> QED BY <1>1, <1>2, <1>3, PTL DEF Spec

-----------------------------------------------------------------------------
(* The docid chain. *)

(* A walk does not change while the pointers it follows stay. *)
LEMMA WalkSame ==
    ASSUME NEW pages, NEW w, NEW start, NEW num, NEW D, start \in D \cup {NoBlock},
           \A k \in D : pages[k].next \in D \cup {NoBlock},
           \A k \in D : w[k].next = pages[k].next
    PROVE  FirstBlocks(w, start, num) = FirstBlocks(pages, start, num)
  <1>1. PICK h : /\ IsWalk(h, pages, start, MaxBlocks)
                 /\ FirstBlocks(pages, start, num) =
                       {h[n] : n \in {i \in 0 .. MaxBlocks : i < num}} \ {NoBlock}
    BY WalkExists
  <1>2. PICK g : /\ IsWalk(g, w, start, MaxBlocks)
                 /\ FirstBlocks(w, start, num) =
                       {g[n] : n \in {i \in 0 .. MaxBlocks : i < num}} \ {NoBlock}
    BY WalkExists
  <1>3. /\ \A n \in 0 .. MaxBlocks : h[n] = IF n = 0 THEN start
                                            ELSE IF h[n - 1] = NoBlock THEN NoBlock
                                            ELSE pages[h[n - 1]].next
        /\ \A n \in 0 .. MaxBlocks : g[n] = IF n = 0 THEN start
                                            ELSE IF g[n - 1] = NoBlock THEN NoBlock
                                            ELSE w[g[n - 1]].next
    BY <1>1, <1>2 DEF IsWalk
  <1>4. MaxBlocks \in Nat
    BY RecoveryAssumption
  <1> DEFINE G == {n \in Nat : n \in 0 .. MaxBlocks => g[n] = h[n] /\ h[n] \in D \cup {NoBlock}}
  <1>5. 0 \in G
    BY <1>3, <1>4
  <1>6. \A n \in Nat : n \in G => n + 1 \in G
    <2> SUFFICES ASSUME NEW n \in Nat, n \in G, n + 1 \in 0 .. MaxBlocks
                 PROVE  g[n + 1] = h[n + 1] /\ h[n + 1] \in D \cup {NoBlock}
      OBVIOUS
    <2>1. g[n] = h[n] /\ h[n] \in D \cup {NoBlock}
      BY <1>4
    <2>2. /\ h[n + 1] = IF h[n] = NoBlock THEN NoBlock ELSE pages[h[n]].next
          /\ g[n + 1] = IF g[n] = NoBlock THEN NoBlock ELSE w[g[n]].next
      BY <1>3, <1>4
    <2> QED BY <2>1, <2>2
  <1>7. \A n \in Nat : n \in G
    <2> HIDE DEF G
    <2> QED BY <1>5, <1>6, NatSetInduction
  <1>8. \A n \in 0 .. MaxBlocks : g[n] = h[n]
    BY <1>4, <1>7
  <1> QED BY <1>1, <1>2, <1>8

(* A page is linked behind the last one of a chain of docid pages: the     *)
(* chain has it, and all it had before.                                    *)
LEMMA ChainGrows ==
    ASSUME NEW pages, NEW w, NEW D \in SUBSET Blocks, NEW start \in D,
           \A j \in D : pages[j].next = NoBlock \/ (pages[j].next \in D /\ pages[j].next > j),
           NEW last \in Reach(pages, start), pages[last].next = NoBlock,
           NEW k \in Blocks, \A j \in D : j < k,
           \A j \in D : j # last => w[j].next = pages[j].next,
           w[last].next = k, w[k].next = NoBlock
    PROVE  Reach(w, start) = Reach(pages, start) \cup {k}
  <1>1. PICK h : /\ IsWalk(h, pages, start, MaxBlocks)
                 /\ FirstBlocks(pages, start, MaxBlocks) =
                       {h[n] : n \in {i \in 0 .. MaxBlocks : i < MaxBlocks}} \ {NoBlock}
    BY WalkExists
  <1>2. PICK g : /\ IsWalk(g, w, start, MaxBlocks)
                 /\ FirstBlocks(w, start, MaxBlocks) =
                       {g[n] : n \in {i \in 0 .. MaxBlocks : i < MaxBlocks}} \ {NoBlock}
    BY WalkExists
  <1>3. /\ \A n \in 0 .. MaxBlocks : h[n] = IF n = 0 THEN start
                                            ELSE IF h[n - 1] = NoBlock THEN NoBlock
                                            ELSE pages[h[n - 1]].next
        /\ \A n \in 0 .. MaxBlocks : g[n] = IF n = 0 THEN start
                                            ELSE IF g[n - 1] = NoBlock THEN NoBlock
                                            ELSE w[g[n - 1]].next
    BY <1>1, <1>2 DEF IsWalk
  <1>4. MaxBlocks \in Nat /\ MaxBlocks # 0 /\ NoBlock \notin Blocks
    BY RecoveryAssumption DEF Blocks
  <1>5. /\ \A j \in D : j \in 1 .. MaxBlocks /\ j \in Int /\ j >= 1
        /\ k \in Int /\ k <= MaxBlocks /\ k # NoBlock
    BY <1>4 DEF Blocks
  <1> DEFINE P(n) == h[n] = NoBlock \/ (h[n] \in D /\ h[n] >= n + 1 /\ g[n] = h[n])
             G == {n \in Nat : n \in 0 .. MaxBlocks => P(n)}
  <1>6. 0 \in G
    <2>1. start >= 1
      BY <1>5
    <2> QED BY <1>3, <1>4, <2>1
  <1>7. \A n \in Nat : n \in G => n + 1 \in G
    <2> SUFFICES ASSUME NEW n \in Nat, n \in G, n + 1 \in 0 .. MaxBlocks
                 PROVE  P(n + 1)
      OBVIOUS
    <2>1. P(n)
      BY <1>4
    <2>2. /\ h[n + 1] = IF h[n] = NoBlock THEN NoBlock ELSE pages[h[n]].next
          /\ g[n + 1] = IF g[n] = NoBlock THEN NoBlock ELSE w[g[n]].next
      BY <1>3, <1>4
    <2>3. CASE h[n + 1] = NoBlock
      BY <2>3
    <2>4. CASE h[n + 1] # NoBlock
      <3>1. h[n] \in D /\ h[n] \in Int /\ h[n] >= n + 1 /\ g[n] = h[n] /\ h[n] # NoBlock
        BY <1>5, <2>1, <2>2, <2>4
      <3>2. h[n + 1] = pages[h[n]].next /\ g[n + 1] = w[h[n]].next
        BY <2>2, <3>1
      <3>3. h[n] # last
        BY <2>4, <3>2
      <3>4. h[n + 1] \in D /\ h[n + 1] > h[n] /\ g[n + 1] = h[n + 1] /\ h[n + 1] \in Int
        BY <1>5, <2>4, <3>1, <3>2, <3>3
      <3> QED BY <3>1, <3>4
    <2> QED BY <2>3, <2>4
  <1>8. \A n \in Nat : n \in G
    <2> HIDE DEF G
    <2> QED BY <1>6, <1>7, NatSetInduction
  <1>9. \A n \in 0 .. MaxBlocks : P(n)
    BY <1>4, <1>8
  <1>10. \A x \in Reach(pages, start) : \E n \in 0 .. MaxBlocks : n < MaxBlocks /\ x = h[n] /\ x # NoBlock
    BY <1>1 DEF Reach
  <1>11. Reach(pages, start) \subseteq Reach(w, start)
    <2> SUFFICES ASSUME NEW x \in Reach(pages, start) PROVE x \in Reach(w, start)
      OBVIOUS
    <2>1. PICK n \in 0 .. MaxBlocks : n < MaxBlocks /\ x = h[n] /\ x # NoBlock
      BY <1>10
    <2>2. g[n] = x
      BY <1>9, <2>1
    <2> QED BY <1>2, <2>1, <2>2 DEF Reach
  <1>12. k \in Reach(w, start)
    <2>1. PICK n \in 0 .. MaxBlocks : n < MaxBlocks /\ last = h[n] /\ last # NoBlock
      BY <1>10
    <2>2. last \in D /\ last >= n + 1 /\ g[n] = last /\ last \in Int
      BY <1>5, <1>9, <2>1
    <2>3. n + 1 < MaxBlocks /\ n + 1 \in 0 .. MaxBlocks
      BY <1>4, <1>5, <2>2
    <2>4. g[n + 1] = k
      BY <1>3, <1>4, <2>1, <2>2, <2>3
    <2> QED BY <1>2, <1>5, <2>3, <2>4 DEF Reach
  <1>13. \A x \in Reach(pages, start) : x \in D /\ pages[x].next \in Reach(pages, start) \cup {NoBlock}
    <2> SUFFICES ASSUME NEW x \in Reach(pages, start), pages[x].next # NoBlock \/ x \notin D
                 PROVE  x \in D /\ pages[x].next \in Reach(pages, start)
      BY <1>9, <1>10
    <2>1. PICK n \in 0 .. MaxBlocks : n < MaxBlocks /\ x = h[n] /\ x # NoBlock
      BY <1>10
    <2>2. x \in D /\ x >= n + 1 /\ x \in Int
      BY <1>5, <1>9, <2>1
    <2>3. pages[x].next \in D /\ pages[x].next > x /\ pages[x].next \in Int /\ pages[x].next <= MaxBlocks
      BY <1>5, <2>2
    <2>4. n + 1 \in 0 .. MaxBlocks /\ n + 1 < MaxBlocks
      BY <1>4, <2>2, <2>3
    <2>5. h[n + 1] = pages[x].next
      BY <1>3, <1>4, <2>1, <2>4
    <2>6. h[n + 1] \in Reach(pages, start)
      BY <1>1, <1>4, <2>3, <2>4, <2>5 DEF Reach
    <2> QED BY <2>2, <2>5, <2>6
  <1>14. Reach(w, start) \subseteq Reach(pages, start) \cup {k}
    <2>1. start \in Reach(pages, start)
      BY <1>4, <1>5, WalkStarts DEF Reach
    <2>2. PICK S : S = Reach(pages, start) \cup {k}
      OBVIOUS
    <2>3. start \in S \cup {NoBlock} /\ \A x \in S : w[x].next \in S \cup {NoBlock}
      BY <1>13, <2>1, <2>2
    <2>4. FirstBlocks(w, start, MaxBlocks) \subseteq S
      BY <2>3, WalkStays
    <2> QED BY <2>2, <2>4 DEF Reach
  <1> QED BY <1>11, <1>12, <1>14

(* The documents recovery would index again. *)
DocidDocs == DocsOf(page, DocidBlocks)

(* The docid chain can be read to its end, and a backend that has cached a *)
(* page of it has cached one of this chain.                                *)
DocidInv ==
    /\ ChainReadable
    /\ \A b \in Backends : cache[b] # NoBlock => cache[b] \in DocidBlocks

(* The docid chain lies in the docid pages. *)
LEMMA DocidsLaid ==
    ASSUME NEW D \in SUBSET Blocks, Layout(D)
    PROVE  /\ meta.first \in D \cup {NoBlock}
           /\ \A k \in D : page[k].next \in D \cup {NoBlock}
           /\ DocidBlocks \subseteq D
  <1>1. meta.first \in D \cup {NoBlock} /\ \A k \in D : page[k].next \in D \cup {NoBlock}
    BY DEF Layout, MetaLaid, PagesLaid
  <1>2. FirstBlocks(page, meta.first, MaxBlocks) \subseteq D
    BY <1>1, WalkStays
  <1> QED BY <1>1, <1>2 DEF DocidBlocks, Reach

(* No docid page is written. *)
LEMMA DocidsAlone ==
    ASSUME NEW D \in SUBSET Blocks, Layout(D), meta'.first = meta.first,
           \A k \in D : page'[k] = page[k]
    PROVE  /\ DocidBlocks' = DocidBlocks /\ DocidDocs' = DocidDocs
           /\ ChainReadable => ChainReadable'
  <1>1. FirstBlocks(page', meta.first, MaxBlocks) = FirstBlocks(page, meta.first, MaxBlocks)
    BY DocidsLaid, WalkSame
  <1>2. DocidBlocks' = DocidBlocks
    BY <1>1 DEF DocidBlocks, Reach
  <1>3. \A k \in DocidBlocks : page'[k] = page[k]
    BY DocidsLaid
  <1>4. DocidDocs' = DocidDocs
    BY <1>2, <1>3 DEF DocidDocs, DocsOf
  <1>5. ChainReadable => ChainReadable'
    BY <1>2, <1>3 DEF ChainReadable, DocidBlocks
  <1> QED BY <1>2, <1>4, <1>5

(* A docid is stored in a page of the chain. *)
LEMMA DocidStored ==
    ASSUME NEW D \in SUBSET Blocks, Layout(D), meta'.first = meta.first, NEW k \in DocidBlocks,
           \A j \in Blocks : page'[j].kind = page[j].kind /\ page'[j].next = page[j].next,
           \A j \in Blocks : j # k => page'[j] = page[j],
           page'[k].docs = page[k].docs \cup {doc}
    PROVE  /\ DocidBlocks' = DocidBlocks /\ DocidDocs' = DocidDocs \cup {doc}
           /\ ChainReadable => ChainReadable'
  <1>1. FirstBlocks(page', meta.first, MaxBlocks) = FirstBlocks(page, meta.first, MaxBlocks)
    BY DocidsLaid, WalkSame
  <1>2. DocidBlocks' = DocidBlocks /\ DocidBlocks \subseteq Blocks
    BY <1>1, DocidsLaid DEF DocidBlocks, Reach
  <1>3. \A j \in DocidBlocks : page'[j].docs = IF j = k THEN page[j].docs \cup {doc} ELSE page[j].docs
    BY <1>2
  <1>4. DocidDocs' = DocidDocs \cup {doc}
    BY <1>2, <1>3 DEF DocidDocs, DocsOf
  <1>5. ChainReadable => ChainReadable'
    BY <1>2 DEF ChainReadable, DocidBlocks
  <1> QED BY <1>2, <1>4, <1>5

(* The chain gets its first page. *)
LEMMA DocidsBegun ==
    ASSUME TypeInv, NEW D \in SUBSET Blocks, Layout(D), AppendDocidFirst
    PROVE  /\ DocidDocs' = DocidDocs \cup {doc} /\ ChainReadable'
           /\ DocidBlocks' = {nblocks + 1} /\ DocidBlocks = {}
  <1>1. PICK k \in Blocks :
           /\ k = nblocks + 1
           /\ page'[k].kind = "docid" /\ page'[k].next = NoBlock /\ page'[k].docs = {doc}
           /\ meta'.first = k
    BY FirstEffect
  <1>2. PICK S : S = {k}
    OBVIOUS
  <1>3. FirstBlocks(page', k, MaxBlocks) \subseteq S
    BY <1>1, <1>2, WalkStays
  <1>4. k # NoBlock /\ MaxBlocks \in Nat /\ MaxBlocks # 0
    BY Bounds, RecoveryAssumption
  <1>5. k \in FirstBlocks(page', k, MaxBlocks)
    BY <1>4, WalkStarts
  <1>6. DocidBlocks' = {k}
    BY <1>1, <1>2, <1>3, <1>5 DEF DocidBlocks, Reach
  <1>7. DocidBlocks = {}
    <2>1. PICK N : N = {}
      OBVIOUS
    <2>2. meta.first = NoBlock
      BY DEF AppendDocidFirst
    <2>3. FirstBlocks(page, NoBlock, MaxBlocks) \subseteq N
      BY <2>1, WalkStays
    <2> QED BY <2>1, <2>2, <2>3 DEF DocidBlocks, Reach
  <1>8. DocidDocs' = {doc} /\ DocidDocs = {}
    BY <1>1, <1>6, <1>7 DEF DocidDocs, DocsOf
  <1>9. ChainReadable'
    BY <1>1, <1>6 DEF ChainReadable, DocidBlocks
  <1> QED BY <1>1, <1>6, <1>7, <1>8, <1>9

(* The chain gets a new last page. *)
LEMMA DocidsExtended ==
    ASSUME TypeInv, NEW D \in SUBSET Blocks, Layout(D), AppendDocidNew
    PROVE  /\ DocidDocs' = DocidDocs \cup {doc} /\ (ChainReadable => ChainReadable')
           /\ DocidBlocks' = DocidBlocks \cup {nblocks + 1}
  <1>1. PICK k \in Blocks, last \in D :
              /\ k = nblocks + 1 /\ last = LastPage(meta.first) /\ last # k
              /\ \A j \in Blocks : j # k /\ j # last => page'[j] = page[j]
              /\ page'[k].kind = "docid" /\ page'[k].next = NoBlock /\ page'[k].docs = {doc}
              /\ page'[last].kind = page[last].kind /\ page'[last].next = k
              /\ page'[last].docs = page[last].docs
    BY NewEffect
  <1>2. meta.first # NoBlock /\ meta' = meta
    BY DEF AppendDocidNew
  <1>3. meta.first \in D
    BY <1>2, DocidsLaid
  <1>4. last \in Reach(page, meta.first) /\ page[last].next = NoBlock
    BY <1>1, <1>2, LastOfChain
  <1>5. \A j \in D : j < k /\ j # k
    BY <1>1, Bounds DEF Layout, RefsLaid, TypeInv, TypeOK
  <1>6. \A j \in D : page[j].next = NoBlock \/ (page[j].next \in D /\ page[j].next > j)
    BY DEF Layout, PagesLaid
  <1>7. \A j \in D : j # last => page'[j] = page[j]
    BY <1>1, <1>5
  <1>8. Reach(page', meta.first) = Reach(page, meta.first) \cup {k}
    <2>1. PICK w, p, m : w = page' /\ p = page /\ m = meta.first
      OBVIOUS
    <2>2. /\ m \in D /\ last \in Reach(p, m) /\ p[last].next = NoBlock
          /\ \A j \in D : p[j].next = NoBlock \/ (p[j].next \in D /\ p[j].next > j)
          /\ \A j \in D : j < k
          /\ \A j \in D : j # last => w[j].next = p[j].next
          /\ w[last].next = k /\ w[k].next = NoBlock
      BY <1>1, <1>3, <1>4, <1>5, <1>6, <1>7, <2>1
    <2>3. Reach(w, m) = Reach(p, m) \cup {k}
      BY <2>2, ChainGrows
    <2> QED BY <2>1, <2>3
  <1>9. DocidBlocks' = DocidBlocks \cup {k}
    BY <1>2, <1>8 DEF DocidBlocks
  <1>10. \A j \in DocidBlocks : page'[j].docs = page[j].docs /\ page'[j].kind = page[j].kind
    BY <1>1, <1>7, DocidsLaid
  <1>11. DocidDocs' = DocidDocs \cup {doc}
    BY <1>1, <1>9, <1>10 DEF DocidDocs, DocsOf
  <1>12. ChainReadable => ChainReadable'
    BY <1>1, <1>9, <1>10 DEF ChainReadable, DocidBlocks
  <1> QED BY <1>1, <1>9, <1>11, <1>12

(* Every step keeps the docid chain readable; it gains a docid or is cleared. *)
LEMMA DocidStep ==
    ASSUME ~Crashes, \A a, b \in Backends : a = b, FileInv, DocidInv, [Next]_vars
    PROVE  /\ DocidInv'
           /\ pc \notin {"docid", "clear_docids"} => DocidDocs' = DocidDocs
           /\ (pc = "docid" /\ pc' = "commit") => DocidDocs' = DocidDocs \cup {doc}
  <1>0. PICK D \in SUBSET Blocks : Layout(D)
    BY DEF FileInv, LayoutInv
  <1>t. TypeInv /\ who \in Backends /\ cache \in [Backends -> BlockNumber]
    BY DEF FileInv, TypeInv, TypeOK
  <1>f. free \subseteq Segs(D, nblocks) /\ seg \in Segs(D, nblocks) \cup {NoBlock} /\ D \subseteq 1 .. nblocks
    BY <1>0 DEF Layout, RefsLaid
  <1>s. \A k \in D : k \notin Segs(D, nblocks)
    BY DEF Segs
  <1>n. nblocks + 1 \notin D
    BY <1>f, <1>t, Bounds DEF TypeInv, TypeOK
  <1> DEFINE Goal == /\ DocidInv'
                     /\ pc \notin {"docid", "clear_docids"} => DocidDocs' = DocidDocs
                     /\ (pc = "docid" /\ pc' = "commit") => DocidDocs' = DocidDocs \cup {doc}
  <1>k. ASSUME meta'.first = meta.first, \A k \in D : page'[k] = page[k],
               cache' = cache \/ cache' = [b \in Backends |-> NoBlock],
               pc # "docid" \/ pc' # "commit"
        PROVE  Goal
    <2>1. /\ DocidBlocks' = DocidBlocks /\ DocidDocs' = DocidDocs
          /\ ChainReadable => ChainReadable'
      BY <1>0, <1>k, DocidsAlone
    <2> QED BY <1>k, <2>1 DEF DocidInv
  <1>q. ASSUME \/ \E b \in Backends : StartSpill(b) \/ \E d \in Docs : StartInsert(b, d)
               \/ AddTerms \/ ClearMemtable \/ StopCompaction \/ Commit \/ Rollback
               \/ Recover \/ RecoverFails \/ UNCHANGED vars
        PROVE  Goal
    <2>1. Quiet
      BY <1>q, QuietSteps
    <2>2. pc # "docid" \/ pc' # "commit"
      BY <1>q DEF StartSpill, StartInsert, AddTerms, ClearMemtable, StopCompaction, Commit, Rollback,
                  Recover, RecoverFails, EndCall, vars, callVars
    <2> QED BY <1>k, <2>1, <2>2 DEF Quiet, fileVars
  <1>2. CASE AppendDocidCached
    <2>1. /\ \A j \in Blocks : page'[j].kind = page[j].kind /\ page'[j].next = page[j].next
          /\ \A j \in Blocks : j # cache[who] => page'[j] = page[j]
          /\ page'[cache[who]].docs = page[cache[who]].docs \cup {doc}
          /\ cache' = cache /\ cache[who] \in D
      BY <1>0, <1>2, <1>t, CachedEffect
    <2>2. meta' = meta /\ cache[who] # NoBlock /\ pc = "docid"
      BY <1>2 DEF AppendDocidCached, CacheUsable
    <2>3. cache[who] \in DocidBlocks
      BY <1>t, <2>2 DEF DocidInv
    <2>4. /\ DocidBlocks' = DocidBlocks /\ DocidDocs' = DocidDocs \cup {doc}
          /\ ChainReadable => ChainReadable'
      BY <1>0, <2>1, <2>2, <2>3, DocidStored
    <2> QED BY <2>1, <2>2, <2>4 DEF DocidInv
  <1>3. CASE AppendDocidFirst
    <2>1. PICK k \in Blocks : k = nblocks + 1 /\ cache'[who] = k
      BY <1>0, <1>3, <1>t, FirstEffect
    <2>2. /\ DocidDocs' = DocidDocs \cup {doc} /\ ChainReadable'
          /\ DocidBlocks' = {nblocks + 1}
      BY <1>0, <1>3, <1>t, DocidsBegun
    <2>3. pc = "docid"
      BY <1>3 DEF AppendDocidFirst
    <2> QED BY <1>t, <2>1, <2>2, <2>3 DEF DocidInv
  <1>4. CASE AppendDocidLast
    <2>1. PICK k \in D :
          /\ k = LastPage(meta.first)
          /\ \A j \in Blocks : page'[j].kind = page[j].kind /\ page'[j].next = page[j].next
          /\ \A j \in Blocks : j # k => page'[j] = page[j]
          /\ page'[k].docs = page[k].docs \cup {doc}
          /\ cache'[who] = k
      BY <1>0, <1>4, <1>t, LastEffect
    <2>2. meta' = meta /\ meta.first # NoBlock /\ pc = "docid"
      BY <1>4 DEF AppendDocidLast
    <2>3. k \in DocidBlocks
      BY <1>0, <1>t, <2>1, <2>2, LastOfChain DEF DocidBlocks
    <2>4. /\ DocidBlocks' = DocidBlocks /\ DocidDocs' = DocidDocs \cup {doc}
          /\ ChainReadable => ChainReadable'
      BY <1>0, <2>1, <2>2, <2>3, DocidStored
    <2> QED BY <1>t, <2>1, <2>2, <2>3, <2>4 DEF DocidInv
  <1>5. CASE AppendDocidNew
    <2>1. PICK k \in Blocks : k = nblocks + 1 /\ cache'[who] = k
      BY <1>0, <1>5, <1>t, NewEffect
    <2>2. /\ DocidDocs' = DocidDocs \cup {doc} /\ (ChainReadable => ChainReadable')
          /\ DocidBlocks' = DocidBlocks \cup {nblocks + 1}
      BY <1>0, <1>5, <1>t, DocidsExtended
    <2>3. pc = "docid"
      BY <1>5 DEF AppendDocidNew
    <2> QED BY <1>t, <2>1, <2>2, <2>3 DEF DocidInv
  <1>6. ASSUME NEW k \in Blocks, NEW docs \in SUBSET Docs,
               k \in SegmentBlocks, AllocateSegmentPage(k),
               page' = [page EXCEPT ![k] = SegmentPage(docs, NoBlock)],
               meta' = meta, cache' = cache, pc # "docid"
        PROVE  Goal
    <2>1. /\ \A j \in Blocks : j # k => page'[j] = page[j]
          /\ \/ k \in free /\ nblocks' = nblocks
             \/ free = {} /\ k = nblocks + 1 /\ nblocks' = nblocks + 1
      BY <1>0, <1>6, <1>t, SegmentEffect
    <2>2. k \notin D
      BY <1>f, <1>n, <1>s, <2>1
    <2> QED BY <1>6, <1>k, <2>1, <2>2
  <1>7. ASSUME NEW k \in Blocks, WriteSegment(k) PROVE Goal
    <2>1. memtable \in SUBSET Docs
      BY <1>t DEF TypeInv, TypeOK
    <2> QED BY <1>6, <1>7, <2>1 DEF WriteSegment, memVars
  <1>8. ASSUME NEW k \in Blocks, MergeSegments(k) PROVE Goal
    <2>1. DocsOf(page, SourceBlocks) \in SUBSET Docs
      BY <1>t, SourceDocs
    <2> QED BY <1>6, <1>8, <2>1 DEF MergeSegments, memVars
  <1>9. CASE FlushSegment \/ FlushMerged
    <2>1. meta' = meta /\ page' = page /\ cache' = cache /\ pc # "docid"
      BY <1>9 DEF FlushSegment, FlushMerged, fileVars, memVars
    <2> QED BY <1>k, <2>1
  <1>10. CASE ClearDocidPages
    <2>1. meta \in MetaType /\ NoBlock \in BlockNumber
      BY <1>t, Bounds DEF TypeInv, TypeOK
    <2>2. meta'.first = NoBlock
      BY <1>10, <2>1, FirstMeta DEF ClearDocidPages, FlushMeta
    <2>3. pc = "clear_docids" /\ cache'[who] = NoBlock
      BY <1>10, <1>t DEF ClearDocidPages
    <2>4. PICK N : N = {}
      OBVIOUS
    <2>5. FirstBlocks(page', NoBlock, MaxBlocks) \subseteq N
      BY <2>4, WalkStays
    <2>6. ChainReadable'
      BY <2>2, <2>4, <2>5 DEF ChainReadable, Reach
    <2> QED BY <1>t, <2>3, <2>6 DEF DocidInv
  <1>11. CASE LinkL0
    <2>1. /\ seg \in Blocks /\ page \in [Blocks -> PageType] /\ meta.heads[0] \in BlockNumber
          /\ pc # "docid" /\ cache' = cache
      BY <1>11, <1>t, Bounds DEF LinkL0, TypeInv, CallInv, TypeOK, MetaType, memVars
    <2>2. \A j \in Blocks : j # seg => page'[j] = page[j]
      BY <1>11, <2>1, WriteNextEffect DEF LinkL0
    <2>3. meta'.first = meta.first
      BY <1>11, <1>t, LinkedEffect
    <2>4. seg \notin D
      BY <1>f, <1>s, <2>1, Bounds
    <2> QED BY <1>k, <2>1, <2>2, <2>3, <2>4
  <1>12. CASE LinkMerged
    <2>1. meta'.first = meta.first /\ level + 1 \in Levels
      BY <1>12, <1>t, MergedEffect
    <2>2. /\ seg \in Blocks /\ page \in [Blocks -> PageType] /\ meta.heads[level + 1] \in BlockNumber
          /\ pc # "docid" /\ cache' = cache
      BY <1>12, <1>t, <2>1 DEF LinkMerged, TypeInv, CallInv, TypeOK, MetaType, memVars
    <2>3. \A j \in Blocks : j # seg => page'[j] = page[j]
      BY <1>12, <2>2, WriteNextEffect DEF LinkMerged
    <2>4. seg \notin D
      BY <1>f, <1>s, <2>2, Bounds
    <2> QED BY <1>k, <2>1, <2>2, <2>3, <2>4
  <1>13. CASE Restart
    <2>1. meta' = meta /\ page' = page /\ cache' = [b \in Backends |-> NoBlock] /\ pc # "docid"
      BY <1>13 DEF Restart, ForgetSharedMemory, fileVars
    <2> QED BY <1>k, <2>1
  <1>14. ~Crash /\ ~WriteMeta /\ \A k \in Blocks : ~WritePage(k)
    BY DEF Crash, WriteMeta, WritePage
  <1> QED BY <1>q, <1>2, <1>3, <1>4, <1>5, <1>7, <1>8, <1>9, <1>10, <1>11, <1>12, <1>13, <1>14
          DEF Next, CallStep

-----------------------------------------------------------------------------
(* Committed documents. *)

(* The documents of the segment a spill has written and not yet linked. *)
Spilled == IF pc \in {"flush", "clear", "clear_docids", "link"} THEN page[seg].docs ELSE {}

(* A committed document is in the memtable, in a segment, or on its way    *)
(* from one to the other; and recovery finds it in the docid chain or need *)
(* not, because a segment has it.                                          *)
StoreInv ==
    /\ pc \in {"flush", "clear"} => memtable \subseteq page[seg].docs
    /\ pc \in {"clear_docids", "link"} => memtable = {}
    /\ attached => committed \subseteq memtable \cup SegmentDocs \cup Spilled
    /\ committed \subseteq DocidDocs \cup SegmentDocs \cup Spilled
    /\ op = "insert" /\ pc # "add" => doc \in memtable \cup SegmentDocs \cup Spilled
    /\ pc = "commit" => doc \in DocidDocs
    /\ pc \in {"merge_flush", "merge_link"} => page[seg].docs = DocsOf(page, SourceBlocks)

(* A merged segment has the documents of its sources. *)
LEMMA MergedDocs ==
    ASSUME TypeInv, NEW D \in SUBSET Blocks, Layout(D), NEW C, Chained(C), NEW k \in Blocks, MergeSegments(k)
    PROVE  page'[seg'].docs = DocsOf(page, SourceBlocks)'
  <1>1. /\ DocsOf(page, SourceBlocks) \in SUBSET Docs /\ level \in Levels /\ meta.counts[level] \in Nat
        /\ seg' = k /\ meta' = meta /\ level' = level
    BY SourceDocs DEF MergeSegments, TypeInv, TypeOK, MetaType
  <1>2. /\ \A j \in Blocks : j # k => page'[j] = page[j]
        /\ page'[k].docs = DocsOf(page, SourceBlocks)
        /\ \/ k \in free /\ nblocks' = nblocks
           \/ free = {} /\ k = nblocks + 1 /\ nblocks' = nblocks + 1
    BY <1>1, SegmentEffect DEF MergeSegments
  <1>3. k = nblocks + 1 => page[k].kind = "zero"
    BY Bounds DEF Layout, PagesLaid, TypeInv, TypeOK, ZeroPage, Blocks
  <1>4. \A j \in On(C[level], meta.counts[level]) : j \in Blocks /\ j # k /\ page'[j] = page[j]
    BY <1>1, <1>2, <1>3, ChainsAreLive DEF Chained
  <1>5. IsChain(C[level], meta.counts[level], page, meta.heads[level])
    BY <1>1 DEF Chained
  <1>6. IsChain(C[level], meta.counts[level], page', meta.heads[level])
    BY <1>1, <1>4, <1>5, ChainKept
  <1>7. FirstBlocks(page', meta.heads[level], meta.counts[level]) = On(C[level], meta.counts[level])
    BY <1>1, <1>6, ChainBlocks
  <1>8. SourceBlocks = On(C[level], meta.counts[level])
    BY ChainsAreLive
  <1>9. SourceBlocks' = SourceBlocks
    BY <1>1, <1>7, <1>8 DEF SourceBlocks
  <1>10. \A j \in SourceBlocks : page'[j] = page[j]
    BY <1>4, <1>8
  <1> QED BY <1>1, <1>2, <1>9, <1>10 DEF DocsOf

(* Every step keeps the committed documents in one of their places. *)
LEMMA StoreStep ==
    ASSUME ~Crashes, \A a, b \in Backends : a = b,
           FileInv, FileInv', ChainInv, DocidInv, StoreInv, [Next]_vars
    PROVE  StoreInv'
  <1>0. PICK D \in SUBSET Blocks : Layout(D)
    BY DEF FileInv, LayoutInv
  <1>c. PICK C : Chained(C)
    BY DEF ChainInv
  <1>t. TypeInv /\ TypeInv' /\ SegmentInv
    BY DEF FileInv
  <1>i. CallInv /\ committed \subseteq heap /\ pc \in Steps
    BY <1>t DEF TypeInv, TypeOK
  <1>s. pc \notin {"link", "merge_link"} => SegmentDocs' = SegmentDocs
    BY ChainStep
  <1>d. /\ pc \notin {"docid", "clear_docids"} => DocidDocs' = DocidDocs
        /\ (pc = "docid" /\ pc' = "commit") => DocidDocs' = DocidDocs \cup {doc}
    BY DocidStep
  <1> USE DEF StoreInv, Spilled
  <1>1. ASSUME NEW b \in Backends, StartSpill(b) PROVE StoreInv'
    BY <1>1, <1>d, <1>s DEF StartSpill, memVars, heapVars
  <1>2. ASSUME NEW b \in Backends, NEW d \in Docs, StartInsert(b, d) PROVE StoreInv'
    BY <1>2, <1>d, <1>s DEF StartInsert, memVars
  <1>3. CASE AddTerms
    BY <1>3, <1>d, <1>s DEF AddTerms, heapVars
  <1>4. CASE AppendDocidCached \/ AppendDocidFirst \/ AppendDocidLast \/ AppendDocidNew
    <2>1. /\ pc = "docid" /\ pc' = "commit" /\ doc' = doc /\ op' = op /\ memtable' = memtable
          /\ attached' = attached /\ committed' = committed
      BY <1>4 DEF AppendDocidCached, AppendDocidFirst, AppendDocidLast, AppendDocidNew, StoreDocid, heapVars
    <2> QED BY <1>d, <1>s, <2>1
  <1>5. ASSUME NEW k \in Blocks, WriteSegment(k) PROVE StoreInv'
    <2>1. memtable \in SUBSET Docs
      BY <1>t DEF TypeInv, TypeOK
    <2>2. page'[k].docs = memtable
      BY <1>0, <1>5, <1>t, <2>1, SegmentEffect DEF WriteSegment
    <2> QED BY <1>5, <1>d, <1>s, <2>2 DEF WriteSegment, memVars, heapVars
  <1>6. CASE FlushSegment
    BY <1>6, <1>d, <1>s DEF FlushSegment, fileVars, memVars, heapVars
  <1>7. CASE ClearMemtable
    BY <1>7, <1>d, <1>s DEF ClearMemtable, fileVars, heapVars
  <1>8. CASE ClearDocidPages
    <2>1. attached
      BY <1>8, <1>i DEF ClearDocidPages, CallInv
    <2> QED BY <1>8, <1>s, <2>1 DEF ClearDocidPages, heapVars
  <1>9. CASE LinkL0
    <2>1. SegmentDocs' = SegmentDocs \cup page[seg].docs
      BY <1>9, <1>c, <1>t, ChainsLinked
    <2> QED BY <1>9, <1>d, <2>1 DEF LinkL0, memVars, heapVars
  <1>10. CASE StopCompaction
    BY <1>10, <1>d, <1>s DEF StopCompaction, EndCall, memVars, heapVars
  <1>11. ASSUME NEW k \in Blocks, MergeSegments(k) PROVE StoreInv'
    <2>1. page'[seg'].docs = DocsOf(page, SourceBlocks)'
      BY <1>0, <1>11, <1>c, <1>t, MergedDocs
    <2> QED BY <1>11, <1>d, <1>s, <2>1 DEF MergeSegments, memVars, heapVars
  <1>12. CASE FlushMerged
    <2>1. DocsOf(page, SourceBlocks)' = DocsOf(page, SourceBlocks) /\ page' = page /\ seg' = seg
      BY <1>12 DEF FlushMerged, fileVars, SourceBlocks
    <2> QED BY <1>12, <1>d, <1>s, <2>1 DEF FlushMerged, memVars, heapVars
  <1>13. CASE LinkMerged
    <2>1. page[seg].docs = DocsOf(page, SourceBlocks)
      BY <1>13 DEF LinkMerged
    <2>2. SegmentDocs' = SegmentDocs
      BY <1>13, <1>c, <1>t, <2>1, ChainsMerged
    <2> QED BY <1>13, <1>d, <2>2 DEF LinkMerged, memVars, heapVars
  <1>14. CASE Commit
    <2>1. op = "insert" /\ attached
      BY <1>14, <1>i DEF Commit, CallInv
    <2> QED BY <1>14, <1>d, <1>s, <2>1 DEF Commit, EndCall, memVars
  <1>15. CASE Rollback
    BY <1>15, <1>d, <1>s DEF Rollback, EndCall, memVars, heapVars
  <1>16. CASE Restart
    BY <1>16, <1>d, <1>i, <1>s DEF Restart, ForgetSharedMemory, callVars, heapVars, CallInv
  <1>17. CASE Recover
    <2>1. pc = "idle" /\ pc' = "idle" /\ committed' = committed /\ op' = op
      BY <1>17, <1>i DEF Recover, CallInv, callVars, heapVars
    <2>2. DocidDocs \cap committed \subseteq memtable'
      BY <1>17 DEF Recover, DocidDocs
    <2>3. op # "insert"
      BY <1>i, <2>1 DEF CallInv
    <2> QED BY <1>d, <1>s, <2>1, <2>2, <2>3
  <1>18. ~RecoverFails /\ ~Crash /\ ~WriteMeta /\ \A k \in Blocks : ~WritePage(k)
    BY DEF Crash, WriteMeta, WritePage, RecoverFails, DocidInv
  <1>19. CASE UNCHANGED vars
    <2>1. SegmentDocs' = SegmentDocs /\ DocidDocs' = DocidDocs /\ DocsOf(page, SourceBlocks)' = DocsOf(page, SourceBlocks)
      BY <1>19 DEF vars, fileVars, callVars, SegmentDocs, DocidDocs, DocidBlocks, SourceBlocks
    <2> QED BY <1>19, <2>1 DEF vars, fileVars, memVars, callVars, heapVars
  <1> HIDE DEF StoreInv
  <1> QED BY <1>1, <1>2, <1>3, <1>4, <1>5, <1>6, <1>7, <1>8, <1>9, <1>10, <1>11, <1>12, <1>13, <1>14, <1>15,
             <1>16, <1>17, <1>18, <1>19 DEF Next, CallStep

(* Whatever orderly restarts and recoveries there have been, an index that *)
(* one backend writes holds every document whose INSERT has committed.     *)
(* With two backends the docid_writer_cache of one may name a page of a    *)
(* chain the other has cleared; after a crash the docid pages themselves   *)
(* may be missing.                                                         *)
THEOREM CommittedSurvive ==
    ASSUME ~Crashes, \A a, b \in Backends : a = b
    PROVE  Spec => []CommittedStored
  <1> DEFINE Inv == FileInv /\ ChainInv /\ DocidInv /\ StoreInv
  <1>1. Init => Inv
    <2> SUFFICES ASSUME Init PROVE Inv
      OBVIOUS
    <2>1. PICK N : N = {}
      OBVIOUS
    <2>2. meta.first = NoBlock /\ cache = [b \in Backends |-> NoBlock]
      BY DEF Init, EmptyMeta
    <2>3. FirstBlocks(page, NoBlock, MaxBlocks) \subseteq N
      BY <2>1, WalkStays
    <2>4. DocidInv
      BY <2>1, <2>2, <2>3 DEF DocidInv, ChainReadable, Reach
    <2>5. StoreInv
      BY DEF Init, StoreInv
    <2> QED BY <2>4, <2>5, FileInit, ChainInit
  <1>2. Inv /\ [Next]_vars => Inv'
    BY FileStep, ChainStep, DocidStep, StoreStep
  <1>3. Inv => CommittedStored
    BY DEF StoreInv, Spilled, CommittedStored, Settled, Stored
  <1> QED BY <1>1, <1>2, <1>3, PTL DEF Spec

=============================================================================
