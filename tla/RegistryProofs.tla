--------------------------- MODULE RegistryProofs ---------------------------
(***************************************************************************)
(* Theorems about Registry for any number of backends, rows, tenants and   *)
(* shared states: the types, the memory a backend may use, the one         *)
(* memtable, the committed rows and the tenant counts.                     *)
(***************************************************************************)
EXTENDS Registry, FiniteSetTheorems, TLAPS

TableType == [Tenants -> Nat] \cup {NoTable}

PageType == Rows \cup {InvalidBlockNumber}

FileType == [segs : SUBSET Rows, first_docid_page : PageType, pages : [Rows -> SUBSET Rows],
             tstats : TableType, astray : SUBSET Rows]

StateType == [status : {"unused", "live", "freed"}, mem : SUBSET Rows, private : BOOLEAN,
              tstats : TableType]

CacheType == [kind : {"absent", "null", "entry"}, dp : 0 .. MaxStates, build_mode : BOOLEAN]

(* Every variable has its type. *)
Types ==
    /\ disk \in FileType /\ saved \in FileType
    /\ snap \in [Backends -> PageType] /\ writer \in [Backends -> PageType]
    /\ wrote \in [Backends -> SUBSET heap]
    /\ shm \in [1 .. MaxStates -> StateType]
    /\ cache \in [Backends -> CacheType]
    /\ accum \in TableType

Building == \E b \in Backends : xact[b] \in {"build", "built", "pbuilt"}
Reloading == \E b \in Backends : step[b] = "reload"

(* DDL has the index to itself, and what a backend has cached at each step. *)
CallInv ==
    /\ \A b, c \in Backends : xact[b] \notin {"none", "dml"} /\ c # b => xact[c] = "none"
    /\ \A b \in Backends :
         /\ xact[b] = "dml" => exists
         /\ xact[b] # "dml" => wrote[b] = {}
         /\ step[b] = "missed" => cache[b].kind = "absent"
         /\ step[b] = "reload" => cached(b)
         /\ step[b] = "ready" => cache[b].kind # "absent"
         /\ cache[b].kind = "absent" => cache[b] = Absent
         /\ xact[b] = "build" => /\ cached(b) /\ cache[b].dp = registry
                                 /\ \A c \in Backends \ {b} : cache[c].dp # registry
         /\ xact[b] = "built" => cached(b) /\ cache[b].dp = registry
         /\ xact[b] = "drop" => exists /\ registry = NoDp

TypeInv == TypeOK /\ Types /\ CallInv

(* The registered state is alive, and private only to a build. *)
RegLive ==
    registry # NoDp => /\ shm[registry].status = "live"
                       /\ shm[registry].private => \E b \in Backends : xact[b] = "build"

(* So is every cached one, unless a DROP is under way in another backend or was rolled back. *)
CacheLive ==
    (exists \/ Building) /\ "drop_rolled_back" \notin hazard =>
        \A b \in Backends : cached(b) /\ (\A c \in Backends \ {b} : xact[c] # "drop") =>
            /\ shm[cache[b].dp].status = "live"
            /\ shm[cache[b].dp].private => xact[b] = "build"

MemInv == RegLive /\ CacheLive

(* Nothing disturbed the sharing: whoever has the index cached has the registered state, and
   a backend that reloads documents is alone with a state that is still empty. *)
ShareInv ==
    Undisturbed /\ (exists \/ Building) =>
        /\ \A b \in Backends : cache[b].kind # "null"
        /\ \A b \in Backends :
             cached(b) /\ (\A c \in Backends : xact[c] # "drop") => cache[b].dp = registry
        /\ \A b \in Backends : xact[b] = "drop" => ~cached(b)
        /\ \A b \in Backends : xact[b] = "pbuilt" => registry = NoDp
        /\ \A b \in Backends : step[b] = "reload" =>
             /\ snap[b] = disk.first_docid_page
             /\ shm[cache[b].dp].mem = {} /\ shm[cache[b].dp].tstats = NoTable
             /\ \A c \in Backends \ {b} : ~cached(c)

(* Where the rows of the index are.  Those of committed and of running transactions are on
   disk ... *)
DiskInv ==
    Undisturbed /\ exists /\ ~Building =>
        /\ committed \subseteq disk.segs \cup docids(disk) \cup disk.astray
        /\ \A b \in Backends : wrote[b] \subseteq disk.segs \cup docids(disk) \cup disk.astray

(* ... those of the docid chain are in memory too, once they are reloaded ... *)
DocidsInv ==
    Undisturbed /\ exists /\ ~Building /\ registry # NoDp /\ ~Reloading =>
        docids(disk) \subseteq shm[registry].mem \cup disk.segs

(* ... a build that may be undone has them in the file to go back to ... *)
SavedInv ==
    Undisturbed /\ exists /\ Building =>
        committed \subseteq saved.segs \cup docids(saved) \cup saved.astray

(* ... and in its segments, in its memtable or still to read. *)
BuildInv ==
    \A b \in Backends :
        /\ xact[b] = "build" => committed \subseteq disk.segs \cup shm[cache[b].dp].mem \cup todo
        /\ xact[b] \in {"built", "pbuilt"} => committed \subseteq disk.segs
        /\ xact[b] \in {"build", "built", "pbuilt"} => docids(disk) = {}

DataInv == DiskInv /\ DocidsInv /\ SavedInv /\ BuildInv

(* Only rows of the heap are anywhere in the index. *)
HeapFiles ==
    /\ disk.segs \subseteq heap /\ saved.segs \subseteq heap
    /\ todo \subseteq heap

HeapMemory == \A p \in 1 .. MaxStates : shm[p].mem \subseteq heap

HeapInv == HeapFiles /\ HeapMemory

(* The docid pages name rows of the heap, and no chain has the name of a row that is yet to be
   inserted. *)
PagesUsed(f, rows) ==
    /\ f.first_docid_page \in rows \cup {InvalidBlockNumber}
    /\ \A c \in Rows : f.pages[c] \subseteq rows /\ (c \notin rows => f.pages[c] = {})

PagesInv == PagesUsed(disk, heap) /\ PagesUsed(saved, heap)

(* The counts of a file are those of its segments. *)
FileCounted(f) ==
    /\ f.tstats = NoTable => f.segs = {}
    /\ f.tstats # NoTable => f.tstats = counts(f.segs)

(* The counts of a state are those of its memtable and of the segments. *)
StateCounted(s, segs) ==
    /\ s.tstats = NoTable => s.mem = {}
    /\ s.tstats # NoTable => s.tstats = counts(s.mem \cup segs)

CountDisk == hazard = {} /\ exists /\ ~Building => FileCounted(disk)

CountState ==
    hazard = {} /\ exists /\ ~Building /\ registry # NoDp /\ ~Reloading =>
        StateCounted(shm[registry], disk.segs)

CountSaved == hazard = {} /\ exists /\ Building => FileCounted(saved)

(* A build has the counts of the memtable in hand; what it spilled is in the accumulator. *)
CountBuild ==
    hazard = {} => \A b \in Backends :
        /\ xact[b] = "build" =>
             /\ StateCounted(shm[registry], {}) /\ todo \cap shm[registry].mem = {}
             /\ disk.tstats = NoTable
             /\ accum = NoTable => disk.segs = {}
        /\ xact[b] \in {"built", "pbuilt"} => FileCounted(disk)
        /\ xact[b] = "built" => shm[registry].mem = {} /\ shm[registry].tstats = NoTable

CountInv == CountDisk /\ CountState /\ CountSaved /\ CountBuild

-----------------------------------------------------------------------------
(* Tables of counts. *)

(* The counts of some rows are numbers. *)
LEMMA CountsType ==
    ASSUME NEW S \in SUBSET Rows
    PROVE  counts(S) \in [Tenants -> Nat]
  <1>1. \A t \in Tenants : Cardinality({r \in S : TenantOf[r] = t}) \in Nat
    <2> TAKE t \in Tenants
    <2>1. IsFiniteSet({r \in S : TenantOf[r] = t})
      BY FS_Subset, TenantAssumption
    <2> QED BY <2>1, FS_CardinalityType
  <1> QED BY <1>1 DEF counts

(* Adding to a table gives a table. *)
LEMMA PlusType ==
    ASSUME NEW tab \in TableType, NEW n \in [Tenants -> Nat]
    PROVE  plus(tab, n) \in [Tenants -> Nat]
  BY DEF TableType, plus

(* What a reload leaves in the table of the state is a table. *)
LEMMA RestoredType ==
    ASSUME NEW s, s.tstats \in TableType, NEW S \in SUBSET Rows, NEW tab \in TableType
    PROVE  restored_tstats(s, S, tab) \in TableType
  <1>1. plus(s.tstats, counts(S)) \in TableType
    BY PlusType, CountsType DEF TableType
  <1>2. (IF S = {} THEN s.tstats ELSE plus(s.tstats, counts(S))) \in TableType
    BY <1>1
  <1>3. tab # NoTable => tab \in [Tenants -> Nat]
    BY DEF TableType
  <1>4. tab # NoTable =>
          plus(IF S = {} THEN s.tstats ELSE plus(s.tstats, counts(S)), tab) \in TableType
    BY <1>2, <1>3, PlusType DEF TableType
  <1> QED BY <1>2, <1>4 DEF restored_tstats

-----------------------------------------------------------------------------
(* Values. *)

(* The values that actions write have their types. *)
LEMMA ValueTypes ==
    /\ NoTable \in TableType /\ NoFile \in FileType
    /\ \A p \in BOOLEAN : FreshState(p) \in StateType
    /\ Unused \in StateType
    /\ Absent \in CacheType /\ Null \in CacheType
    /\ \A p \in 0 .. MaxStates, m \in BOOLEAN : Entry(p, m) \in CacheType
  <1>1. NoTable \in TableType
    BY DEF TableType
  <1>2. NoFile \in FileType
    BY <1>1 DEF FileType, PageType, NoFile
  <1>3. (\A p \in BOOLEAN : FreshState(p) \in StateType) /\ Unused \in StateType
    BY <1>1 DEF FreshState, StateType, Unused
  <1>4. 0 \in 0 .. MaxStates
    BY BoundsAssumption
  <1> QED BY <1>1, <1>2, <1>3, <1>4 DEF CacheType, Absent, Null, Entry, NoDp

(* The fields of what a cache holds. *)
LEMMA CacheFields ==
    /\ Absent.kind = "absent" /\ Absent.dp = NoDp
    /\ Null.kind = "null" /\ Null.dp = NoDp
    /\ \A p, m : Entry(p, m).kind = "entry" /\ Entry(p, m).dp = p
  BY DEF Absent, Null, Entry

(* The fields of an unused state and of a file without content. *)
LEMMA FreshFields ==
    /\ Unused.status = "unused" /\ Unused.mem = {}
    /\ NoFile.segs = {} /\ NoFile.pages = [c \in Rows |-> {}] /\ docids(NoFile) = {}
    /\ NoFile.tstats = NoTable /\ NoFile.first_docid_page = InvalidBlockNumber /\ NoFile.astray = {}
  BY DEF FreshState, Unused, NoFile, docids, chain

(* Updating a state or a file gives one. *)
LEMMA UpdateTypes ==
    /\ \A s \in StateType, S \in SUBSET Rows, tab \in TableType :
         /\ [s EXCEPT !.mem = S, !.tstats = tab] \in StateType
         /\ [s EXCEPT !.mem = S] \in StateType
         /\ [s EXCEPT !.tstats = tab] \in StateType
         /\ [s EXCEPT !.status = "freed"] \in StateType
    /\ \A f \in FileType, S \in SUBSET Rows, tab \in TableType :
         /\ [f EXCEPT !.segs = S, !.tstats = tab] \in FileType
         /\ [f EXCEPT !.segs = S] \in FileType
  BY ZenonT(60) DEF StateType, FileType

(* What storing a docid makes of a file. *)
Stored(g, f, page, r) ==
    /\ g.segs = f.segs /\ g.tstats = f.tstats
    /\ \A c \in Rows : g.pages[c] = IF c = page THEN f.pages[c] \cup {r} ELSE f.pages[c]
    /\ g.first_docid_page = IF page = r THEN r ELSE f.first_docid_page
    /\ g.astray = IF page = r \/ page = f.first_docid_page THEN f.astray ELSE f.astray \cup {r}

LEMMA StoreFields ==
    ASSUME NEW f \in FileType, NEW page \in Rows, NEW r \in Rows
    PROVE  store_docid(f, page, r) \in FileType /\ Stored(store_docid(f, page, r), f, page, r)
  <1> DEFINE first == IF page = r THEN r ELSE f.first_docid_page
             pages == [f.pages EXCEPT ![page] = f.pages[page] \cup {r}]
             astray == IF page = first THEN f.astray ELSE f.astray \cup {r}
             g == [segs |-> f.segs, first_docid_page |-> first, pages |-> pages,
                   tstats |-> f.tstats, astray |-> astray]
  <1>0. store_docid(f, page, r) = [f EXCEPT !.pages = pages, !.first_docid_page = first, !.astray = astray]
    BY DEF store_docid
  <1>2. first \in PageType /\ pages \in [Rows -> SUBSET Rows] /\ astray \in SUBSET Rows
    BY DEF PageType, FileType
  <1>3. f.segs \in SUBSET Rows /\ f.tstats \in TableType
    BY DEF FileType
  <1>4. page = first <=> page = r \/ page = f.first_docid_page
    OBVIOUS
  <1>5. astray = IF page = r \/ page = f.first_docid_page THEN f.astray ELSE f.astray \cup {r}
    BY <1>4
  <1> HIDE DEF first, pages, astray
  <1>1. store_docid(f, page, r) = g
    BY <1>0 DEF FileType
  <1>6. g \in FileType
    BY <1>2, <1>3 DEF FileType
  <1>7. g.segs = f.segs /\ g.tstats = f.tstats /\ g.pages = pages /\ g.first_docid_page = first
        /\ g.astray = astray
    OBVIOUS
  <1>8. \A c \in Rows : pages[c] = IF c = page THEN f.pages[c] \cup {r} ELSE f.pages[c]
    BY DEF pages, FileType
  <1>9. Stored(g, f, page, r)
    BY <1>5, <1>7, <1>8 DEF first, Stored
  <1> HIDE DEF g
  <1> QED BY <1>1, <1>6, <1>9

(* What a spill makes of a file. *)
LEMMA SpilledFields ==
    ASSUME NEW f \in FileType, NEW s \in StateType
    PROVE  /\ spilled(f, s) \in FileType
           /\ spilled(f, s).segs = f.segs \cup s.mem
           /\ spilled(f, s).tstats = IF s.tstats = NoTable THEN f.tstats ELSE s.tstats
           /\ spilled(f, s).pages = f.pages
           /\ spilled(f, s).first_docid_page = f.first_docid_page
           /\ spilled(f, s).astray = f.astray
           /\ docids(spilled(f, s)) = docids(f)
  <1> DEFINE tab == IF s.tstats = NoTable THEN f.tstats ELSE s.tstats
             g == [segs |-> f.segs \cup s.mem, first_docid_page |-> f.first_docid_page,
                   pages |-> f.pages, tstats |-> tab, astray |-> f.astray]
  <1>0. spilled(f, s) = [f EXCEPT !.segs = f.segs \cup s.mem, !.tstats = tab]
    BY DEF spilled
  <1>2. s.mem \in SUBSET Rows /\ tab \in TableType /\ f.segs \in SUBSET Rows /\ f.astray \in SUBSET Rows
        /\ f.first_docid_page \in PageType /\ f.pages \in [Rows -> SUBSET Rows]
    BY DEF StateType, FileType
  <1> HIDE DEF tab
  <1>1. spilled(f, s) = g
    BY <1>0 DEF FileType
  <1>3. g \in FileType
    BY <1>2 DEF FileType
  <1>4. g.segs = f.segs \cup s.mem /\ g.tstats = tab /\ g.pages = f.pages
        /\ g.first_docid_page = f.first_docid_page /\ g.astray = f.astray
    OBVIOUS
  <1>5. docids(g) = docids(f)
    BY <1>4 DEF docids, chain
  <1> QED BY <1>1, <1>3, <1>4, <1>5 DEF tab

(* What cutting the docid chain off makes of a file. *)
LEMMA CutFields ==
    ASSUME NEW f \in FileType
    PROVE  LET g == [f EXCEPT !.first_docid_page = InvalidBlockNumber]
           IN  /\ g \in FileType /\ g.segs = f.segs /\ g.tstats = f.tstats /\ g.pages = f.pages
               /\ g.first_docid_page = InvalidBlockNumber /\ g.astray = f.astray
  BY DEF FileType, PageType

(* Adding a row to a state. *)
LEMMA AddedFields ==
    ASSUME NEW s \in StateType, NEW r \in Rows
    PROVE  /\ added(s, r) \in StateType
           /\ added(s, r).mem = s.mem \cup {r} /\ added(s, r).tstats = plus(s.tstats, counts({r}))
           /\ added(s, r).status = s.status /\ added(s, r).private = s.private
           /\ added(s, r).tstats \in [Tenants -> Nat] /\ added(s, r).tstats \in TableType
  <1>1. plus(s.tstats, counts({r})) \in [Tenants -> Nat]
    BY PlusType, CountsType DEF StateType
  <1>2. plus(s.tstats, counts({r})) \in TableType /\ s.mem \cup {r} \in SUBSET Rows
    BY <1>1 DEF TableType, StateType
  <1>3. PICK tab : tab = plus(s.tstats, counts({r}))
    OBVIOUS
  <1>4. added(s, r) = [status |-> s.status, mem |-> s.mem \cup {r}, private |-> s.private, tstats |-> tab]
    <2>1. added(s, r) = [s EXCEPT !.mem = s.mem \cup {r}, !.tstats = tab]
      BY <1>3 DEF added
    <2> QED BY <2>1 DEF StateType
  <1>5. s.status \in {"unused", "live", "freed"} /\ s.private \in BOOLEAN
    BY DEF StateType
  <1>6. added(s, r) \in StateType
    BY <1>2, <1>3, <1>4, <1>5 DEF StateType
  <1> QED BY <1>1, <1>2, <1>3, <1>4, <1>6

(* The fields of states, files and cache entries have their types. *)
LEMMA FieldTypes ==
    ASSUME Types
    PROVE  /\ \A p \in 1 .. MaxStates : /\ shm[p] \in StateType /\ shm[p].mem \subseteq Rows
                                        /\ shm[p].tstats \in TableType
           /\ disk.segs \subseteq Rows /\ disk.tstats \in TableType
           /\ saved.segs \subseteq Rows
           /\ \A b \in Backends : /\ snap[b] \in PageType /\ writer[b] \in PageType
                                  /\ chain(disk, snap[b]) \subseteq Rows
                                  /\ cache[b] \in CacheType /\ cache[b].dp \in 0 .. MaxStates
                                  /\ wrote[b] \subseteq heap
  <1>1. \A b \in Backends : snap[b] \in PageType /\ chain(disk, snap[b]) \subseteq Rows
    BY DEF Types, FileType, PageType, chain
  <1> QED BY <1>1 DEF Types, StateType, FileType, CacheType

(* A cached entry and the registry name states that exist. *)
LEMMA Addresses ==
    ASSUME TypeInv
    PROVE  /\ registry # NoDp => registry \in 1 .. MaxStates
           /\ \A b \in Backends : cached(b) => cache[b].dp \in 1 .. MaxStates
           /\ used < MaxStates => used + 1 \in 1 .. MaxStates
  BY BoundsAssumption DEF TypeInv, TypeOK, NoDp

(* The types are preserved. *)
LEMMA TypesStep ==
    ASSUME TypeInv, [Next]_vars
    PROVE  Types'
  <1> USE DEF TypeInv, Types
  <1>1. CASE Restart
    <2>1. shm' \in [1 .. MaxStates -> StateType]
      BY <1>1, ValueTypes DEF Restart
    <2>2. cache' \in [Backends -> CacheType]
      BY <1>1, ValueTypes DEF Restart
    <2> QED BY <1>1, <2>1, <2>2 DEF Restart, PageType
  <1>2. ASSUME NEW b \in Backends, BeginUse(b) PROVE Types'
    BY <1>2 DEF BeginUse
  <1>3. ASSUME NEW b \in Backends, UseCached(b) PROVE Types'
    BY <1>3 DEF UseCached
  <1>4. ASSUME NEW b \in Backends, Attach(b) PROVE Types'
    <2> DEFINE tab == IF shm[registry].tstats = NoTable THEN disk.tstats ELSE shm[registry].tstats
    <2>1. registry \in 1 .. MaxStates
      BY <1>4, Addresses DEF Attach
    <2>2. tab \in TableType /\ shm[registry] \in StateType
      BY <2>1, FieldTypes
    <2>3. shm' = [shm EXCEPT ![registry] = [shm[registry] EXCEPT !.tstats = tab]]
      BY <1>4, <2>1 DEF Attach
    <2>4. shm' \in [1 .. MaxStates -> StateType]
      <3> HIDE DEF tab
      <3> QED BY <2>2, <2>3, UpdateTypes, Zenon
    <2>5. cache' \in [Backends -> CacheType]
      <3>1. Entry(registry, FALSE) \in CacheType
        BY <2>1, BoundsAssumption DEF Entry, CacheType
      <3> QED BY <1>4, <3>1 DEF Attach
    <2> QED BY <1>4, <2>4, <2>5 DEF Attach
  <1>5. ASSUME NEW b \in Backends, LookupMiss(b) PROVE Types'
    BY <1>5 DEF LookupMiss
  <1>6. ASSUME NEW b \in Backends, CreateSharedState(b) PROVE Types'
    <2>1. shm' \in [1 .. MaxStates -> StateType]
      BY <1>6, ValueTypes DEF CreateSharedState
    <2>2. cache' \in [Backends -> CacheType]
      <3>1. Entry(used + 1, FALSE) \in CacheType
        BY <1>6, Addresses, BoundsAssumption DEF CreateSharedState, Entry, CacheType
      <3> QED BY <1>6, <3>1 DEF CreateSharedState
    <2>3. snap' \in [Backends -> PageType]
      <3>1. disk.first_docid_page \in PageType
        BY DEF FileType
      <3> QED BY <1>6, <3>1 DEF CreateSharedState
    <2> QED BY <1>6, <2>1, <2>2, <2>3 DEF CreateSharedState
  <1>7. ASSUME NEW b \in Backends, ReloadFromDocids(b) PROVE Types'
    <2> DEFINE docs == chain(disk, snap[b])
               s == state(b)
    <2>1. cache[b].dp \in 1 .. MaxStates /\ s \in StateType /\ s.mem \subseteq Rows
      BY <1>7, Addresses, FieldTypes DEF ReloadFromDocids, CallInv, state
    <2>2. docs \in SUBSET Rows /\ restored_tstats(s, docs, disk.tstats) \in TableType
      BY <2>1, RestoredType, FieldTypes DEF state
    <2>3. shm' = [shm EXCEPT ![cache[b].dp] =
                   [s EXCEPT !.mem = s.mem \cup docs, !.tstats = restored_tstats(s, docs, disk.tstats)]]
      BY <1>7, <2>1 DEF ReloadFromDocids
    <2>4. s.mem \cup docs \in SUBSET Rows
      BY <2>1, <2>2
    <2> HIDE DEF s, docs
    <2>5. shm' \in [1 .. MaxStates -> StateType]
      BY <2>1, <2>2, <2>3, <2>4, UpdateTypes, Zenon
    <2>6. snap' \in [Backends -> PageType]
      BY <1>7 DEF ReloadFromDocids, PageType
    <2> QED BY <1>7, <2>5, <2>6 DEF ReloadFromDocids
  <1>8. ASSUME NEW b \in Backends, NEW r \in Rows, Insert(b, r) PROVE Types'
    <2>1. cached(b) => cache[b].dp \in 1 .. MaxStates /\ added(state(b), r) \in StateType
      BY Addresses, FieldTypes, AddedFields DEF state
    <2>2. shm' = IF cached(b) THEN [shm EXCEPT ![cache[b].dp] = added(state(b), r)] ELSE shm
      BY <1>8 DEF Insert
    <2>3. shm' \in [1 .. MaxStates -> StateType]
      BY <2>1, <2>2
    <2>4. PICK page \in docid_pages(disk, writer[b], r) :
            disk' = store_docid(disk, page, r) /\ writer' = [writer EXCEPT ![b] = page]
      BY <1>8 DEF Insert
    <2>5. page \in Rows
      BY DEF docid_pages, FileType, PageType
    <2>6. disk' \in FileType /\ writer' \in [Backends -> PageType]
      BY <2>4, <2>5, StoreFields DEF PageType
    <2>7. wrote' \in [Backends -> SUBSET heap']
      BY <1>8 DEF Insert
    <2> QED BY <1>8, <2>3, <2>6, <2>7 DEF Insert
  <1>22. ASSUME NEW b \in Backends, NEW r \in Rows, InsertSpill(b, r) PROVE Types'
    <2>1. cache[b].dp \in 1 .. MaxStates /\ added(state(b), r) \in StateType
      BY <1>22, Addresses, FieldTypes, AddedFields DEF InsertSpill, state
    <2>2. PICK s \in StateType : s = added(state(b), r)
      BY <2>1
    <2>3. shm' = [shm EXCEPT ![cache[b].dp] = [s EXCEPT !.mem = {}]]
      BY <1>22, <2>2 DEF InsertSpill
    <2>4. shm' \in [1 .. MaxStates -> StateType]
      BY <2>1, <2>3, UpdateTypes, Zenon
    <2>5. PICK f \in FileType : f = [spilled(disk, s) EXCEPT !.first_docid_page = InvalidBlockNumber]
      BY SpilledFields, CutFields
    <2>6. disk' = store_docid(f, r, r) /\ writer' = [writer EXCEPT ![b] = r]
      BY <1>22, <2>2, <2>5 DEF InsertSpill
    <2>7. disk' \in FileType /\ writer' \in [Backends -> PageType]
      BY <2>6, StoreFields DEF PageType
    <2>8. wrote' \in [Backends -> SUBSET heap']
      BY <1>22 DEF InsertSpill
    <2> QED BY <1>22, <2>4, <2>7, <2>8 DEF InsertSpill
  <1>9. ASSUME NEW b \in Backends, Spill(b) PROVE Types'
    <2>1. cache[b].dp \in 1 .. MaxStates /\ state(b) \in StateType
      BY <1>9, Addresses, FieldTypes DEF Spill, state
    <2>2. disk' \in FileType
      BY <1>9, <2>1, SpilledFields DEF Spill
    <2>5. shm' = [shm EXCEPT ![cache[b].dp] = [@ EXCEPT !.mem = {}]]
      BY <1>9 DEF Spill
    <2>6. shm' \in [1 .. MaxStates -> StateType]
      BY <2>1, <2>5, UpdateTypes, Zenon DEF state
    <2> QED BY <1>9, <2>2, <2>6 DEF Spill
  <1>10. ASSUME NEW b \in Backends, NEW c \in BOOLEAN, EndUse(b, c) PROVE Types'
    BY <1>10 DEF EndUse
  <1>11. ASSUME NEW b \in Backends, EndSession(b) PROVE Types'
    <2>1. cache' \in [Backends -> CacheType]
      BY <1>11, ValueTypes DEF EndSession
    <2> QED BY <1>11, <2>1 DEF EndSession, PageType
  <1>12. ASSUME NEW b \in Backends, StartBuild(b) PROVE Types'
    <2>1. shm' \in [1 .. MaxStates -> StateType]
      BY <1>12, ValueTypes DEF StartBuild
    <2>2. cache' \in [Backends -> CacheType]
      <3>1. Entry(used + 1, TRUE) \in CacheType
        BY <1>12, Addresses, BoundsAssumption DEF StartBuild, Entry, CacheType
      <3> QED BY <1>12, <3>1, ValueTypes DEF StartBuild
    <2>3. writer' \in [Backends -> PageType]
      BY <1>12 DEF StartBuild, PageType
    <2> QED BY <1>12, <2>1, <2>2, <2>3, ValueTypes DEF StartBuild
  <1>13. ASSUME NEW b \in Backends, BuildDocument(b) PROVE Types'
    <2> DEFINE s == state(b)
    <2>1. PICK r \in todo :
            LET mem == s.mem \cup {r}
                n == plus(s.tstats, counts({r}))
            IN  IF Cardinality(mem) >= BatchSize
                THEN /\ disk' = [disk EXCEPT !.segs = @ \cup mem]
                     /\ shm' = [shm EXCEPT ![cache[b].dp] = FreshState(TRUE)]
                     /\ accum' = plus(accum, n)
                ELSE /\ shm' = [shm EXCEPT ![cache[b].dp] = [s EXCEPT !.mem = mem, !.tstats = n]]
                     /\ UNCHANGED <<disk, accum>>
      BY <1>13, Zenon DEF BuildDocument
    <2> DEFINE mem == s.mem \cup {r}
               n == plus(s.tstats, counts({r}))
    <2>2. cache[b].dp \in 1 .. MaxStates /\ s \in StateType /\ s.mem \subseteq Rows /\ r \in Rows
      BY <1>13, Addresses, FieldTypes DEF BuildDocument, CallInv, TypeOK, state
    <2>3. mem \in SUBSET Rows /\ n \in [Tenants -> Nat] /\ n \in TableType
      BY <2>2, PlusType, CountsType, FieldTypes DEF TableType, StateType
    <2>4. plus(accum, n) \in TableType /\ disk.segs \cup mem \in SUBSET Rows
      BY <2>3, PlusType, FieldTypes DEF TableType
    <2>5. shm[cache[b].dp] = s
      BY DEF state
    <2> HIDE DEF s, n, mem
    <2>6. CASE Cardinality(mem) >= BatchSize
      <3>1. shm' \in [1 .. MaxStates -> StateType]
        BY <2>1, <2>6, ValueTypes DEF mem
      <3>2. disk' = [disk EXCEPT !.segs = disk.segs \cup mem] /\ accum' = plus(accum, n)
        BY <2>1, <2>6 DEF mem, n
      <3>3. disk' \in FileType /\ accum' \in TableType
        BY <3>2, <2>4, UpdateTypes, Zenon
      <3> QED BY <1>13, <3>1, <3>3 DEF BuildDocument
    <2>7. CASE ~(Cardinality(mem) >= BatchSize)
      <3>1. shm' = [shm EXCEPT ![cache[b].dp] = [s EXCEPT !.mem = mem, !.tstats = n]]
            /\ UNCHANGED <<disk, accum>>
        BY <2>1, <2>2, <2>5, <2>7 DEF mem, n
      <3>2. shm' \in [1 .. MaxStates -> StateType]
        BY <3>1, <2>2, <2>3, UpdateTypes, Zenon
      <3> QED BY <1>13, <3>1, <3>2 DEF BuildDocument
    <2> QED BY <2>6, <2>7
  <1>14. ASSUME NEW b \in Backends, FinishBuild(b) PROVE Types'
    <2>1. cache[b].dp \in 1 .. MaxStates /\ state(b) \in StateType
      BY <1>14, Addresses, FieldTypes DEF FinishBuild, CallInv, state
    <2>2. disk' \in FileType
      BY <1>14, <2>1, SpilledFields DEF FinishBuild
    <2>3. [FreshState(FALSE) EXCEPT !.tstats = accum] \in StateType
      BY ValueTypes, UpdateTypes, Zenon
    <2>4. shm' \in [1 .. MaxStates -> StateType]
      BY <1>14, <2>3 DEF FinishBuild
    <2>5. cache' \in [Backends -> CacheType]
      BY <1>14, ValueTypes, FieldTypes DEF FinishBuild
    <2> QED BY <1>14, <2>2, <2>4, <2>5, ValueTypes DEF FinishBuild
  <1>15. ASSUME NEW b \in Backends, ParallelBuild(b) PROVE Types'
    <2> DEFINE tab == IF committed = {} THEN NoTable ELSE counts(committed)
    <2>1. tab \in TableType /\ committed \in SUBSET Rows
      BY CountsType DEF TableType, TypeOK
    <2>2. disk' = [NoFile EXCEPT !.segs = committed, !.tstats = tab]
      BY <1>15 DEF ParallelBuild
    <2> HIDE DEF tab
    <2>3. disk' \in FileType
      BY <2>1, <2>2, ValueTypes, UpdateTypes, Zenon
    <2>4. cache' \in [Backends -> CacheType]
      BY <1>15, ValueTypes DEF ParallelBuild
    <2>5. writer' \in [Backends -> PageType]
      BY <1>15 DEF ParallelBuild, PageType
    <2> QED BY <1>15, <2>3, <2>4, <2>5 DEF ParallelBuild
  <1>16. ASSUME NEW b \in Backends, CommitBuild(b) PROVE Types'
    BY <1>16, ValueTypes DEF CommitBuild
  <1>17. ASSUME NEW b \in Backends, AbortBuild(b) PROVE Types'
    <2>1. [FreshState(FALSE) EXCEPT !.status = "freed"] \in StateType
      BY ValueTypes, UpdateTypes, Zenon
    <2>2. shm' \in [1 .. MaxStates -> StateType]
      BY <1>17, <2>1 DEF AbortBuild
    <2>3. cache' \in [Backends -> CacheType]
      BY <1>17, ValueTypes DEF AbortBuild
    <2> QED BY <1>17, <2>2, <2>3, ValueTypes DEF AbortBuild
  <1>18. ASSUME NEW b \in Backends, RollbackBuilt(b) PROVE Types'
    BY <1>18, ValueTypes DEF RollbackBuilt
  <1>19. ASSUME NEW b \in Backends, Drop(b) PROVE Types'
    <2>1. [FreshState(FALSE) EXCEPT !.status = "freed"] \in StateType
      BY ValueTypes, UpdateTypes, Zenon
    <2>2. shm' \in [1 .. MaxStates -> StateType]
      BY <1>19, <2>1 DEF Drop, tp_cleanup_index_shared_memory
    <2>3. cache' \in [Backends -> CacheType]
      BY <1>19, ValueTypes DEF Drop, tp_cleanup_index_shared_memory
    <2> QED BY <1>19, <2>2, <2>3 DEF Drop
  <1>20. ASSUME NEW b \in Backends, NEW c \in BOOLEAN, EndDrop(b, c) PROVE Types'
    BY <1>20 DEF EndDrop
  <1>21. CASE UNCHANGED vars
    BY <1>21 DEF vars
  <1> QED BY <1>1, <1>2, <1>3, <1>4, <1>5, <1>6, <1>7, <1>8, <1>9, <1>10, <1>11, <1>12, <1>13, <1>14, <1>15, <1>16, <1>17, <1>18, <1>19, <1>20, <1>21, <1>22 DEF Next, Access

(* TypeOK is preserved. *)
LEMMA TypeOKStep ==
    ASSUME TypeInv, [Next]_vars
    PROVE  TypeOK'
  <1>0. /\ disk'.segs \subseteq Rows /\ disk'.astray \subseteq Rows
        /\ disk'.first_docid_page \in Rows \cup {InvalidBlockNumber}
        /\ writer' \in [Backends -> Rows \cup {InvalidBlockNumber}]
    BY TypesStep DEF Types, FileType, PageType
  <1> USE <1>0, BoundsAssumption DEF TypeInv, TypeOK, Types, CallInv, cached, Absent, Null, idle, no_ddl, NoDp, Hazards
  <1>1. CASE Restart
    BY <1>1 DEF Restart
  <1>2. ASSUME NEW b \in Backends, BeginUse(b) PROVE TypeOK'
    BY <1>2 DEF BeginUse
  <1>3. ASSUME NEW b \in Backends, UseCached(b) PROVE TypeOK'
    BY <1>3 DEF UseCached
  <1>4. ASSUME NEW b \in Backends, Attach(b) PROVE TypeOK'
    <2>1. cache'[b].kind = "entry" /\ cache'[b].dp = registry
          /\ \A c \in Backends \ {b} : cache'[c] = cache[c]
      BY <1>4 DEF Attach, Entry, Absent
    <2>2. used' = used /\ registry # NoDp /\ registry \in 0 .. used
      BY <1>4 DEF Attach
    <2>3. \A c \in Backends : cache'[c].dp \in 0 .. used' /\ (cached(c)' <=> cache'[c].dp # NoDp)
      <3>1. \A c \in Backends \ {b} : cache'[c].dp \in 0 .. used' /\ (cached(c)' <=> cache'[c].dp # NoDp)
        BY <2>1, <2>2
      <3>2. cache'[b].dp \in 0 .. used' /\ (cached(b)' <=> cache'[b].dp # NoDp)
        BY <2>1, <2>2
      <3> QED BY <3>1, <3>2
    <2>4. hazard' \subseteq Hazards
      BY <1>4 DEF Attach
    <2>5. /\ xact' \in [Backends -> {"none", "dml", "build", "built", "pbuilt", "drop"}]
          /\ step' \in [Backends -> {"idle", "lookup", "missed", "reload", "ready"}]
          /\ \A c \in Backends : xact'[c] = "dml" <=> step'[c] # "idle"
      BY <1>4 DEF Attach
    <2>6. accum' # NoTable => \E c \in Backends : xact'[c] = "build"
      BY <1>4 DEF Attach
    <2>7. registry' \in 0 .. used' /\ used' \in 0 .. MaxStates
      BY <1>4 DEF Attach
    <2> QED BY <1>4, <2>3, <2>4, <2>5, <2>6, <2>7 DEF Attach
  <1>5. ASSUME NEW b \in Backends, LookupMiss(b) PROVE TypeOK'
    BY <1>5 DEF LookupMiss
  <1>6. ASSUME NEW b \in Backends, CreateSharedState(b) PROVE TypeOK'
    <2>1. cache'[b].kind = "entry" /\ cache'[b].dp = used + 1
          /\ \A c \in Backends \ {b} : cache'[c] = cache[c]
      BY <1>6 DEF CreateSharedState, register, Entry, Absent
    <2>2. used' = used + 1 /\ used \in Nat
      BY <1>6 DEF CreateSharedState, register
    <2>3. \A c \in Backends : cache'[c].dp \in 0 .. used' /\ (cached(c)' <=> cache'[c].dp # NoDp)
      <3>1. \A c \in Backends \ {b} : cache'[c].dp \in 0 .. used' /\ (cached(c)' <=> cache'[c].dp # NoDp)
        BY <2>1, <2>2
      <3>2. cache'[b].dp \in 0 .. used' /\ (cached(b)' <=> cache'[b].dp # NoDp)
        BY <2>1, <2>2
      <3> QED BY <3>1, <3>2
    <2>4. hazard' \subseteq Hazards
      BY <1>6 DEF CreateSharedState, register
    <2>5. /\ xact' \in [Backends -> {"none", "dml", "build", "built", "pbuilt", "drop"}]
          /\ step' \in [Backends -> {"idle", "lookup", "missed", "reload", "ready"}]
          /\ \A c \in Backends : xact'[c] = "dml" <=> step'[c] # "idle"
      <3>1. /\ step' = [step EXCEPT ![b] = "ready"] \/ step' = [step EXCEPT ![b] = "reload"]
            /\ xact' = xact /\ step[b] = "missed"
        BY <1>6 DEF CreateSharedState
      <3>2. CASE step' = [step EXCEPT ![b] = "ready"]
        BY <3>1, <3>2
      <3>3. CASE step' = [step EXCEPT ![b] = "reload"]
        BY <3>1, <3>3
      <3> QED BY <3>1, <3>2, <3>3
    <2>6. accum' # NoTable => \E c \in Backends : xact'[c] = "build"
      BY <1>6 DEF CreateSharedState, register
    <2>7. registry' \in 0 .. used' /\ used' \in 0 .. MaxStates
      BY <1>6 DEF CreateSharedState, register
    <2> QED BY <1>6, <2>3, <2>4, <2>5, <2>6, <2>7 DEF CreateSharedState
  <1>7. ASSUME NEW b \in Backends, ReloadFromDocids(b) PROVE TypeOK'
    BY <1>7 DEF ReloadFromDocids
  <1>8. ASSUME NEW b \in Backends, NEW r \in Rows, Insert(b, r) PROVE TypeOK'
    <2>1. hazard' \subseteq hazard \cup {"miscounted"}
      BY <1>8, Zenon DEF Insert, miscount
    <2>2. /\ heap' = heap \cup {r}
          /\ UNCHANGED <<exists, committed, xact, step, registry, used, cache, todo, accum>>
      BY <1>8 DEF Insert
    <2> QED BY <2>1, <2>2
  <1>22. ASSUME NEW b \in Backends, NEW r \in Rows, InsertSpill(b, r) PROVE TypeOK'
    <2>1. hazard' \subseteq hazard \cup {"miscounted"}
      BY <1>22, Zenon DEF InsertSpill, miscount
    <2>2. /\ heap' = heap \cup {r}
          /\ UNCHANGED <<exists, committed, xact, step, registry, used, cache, todo, accum>>
      BY <1>22 DEF InsertSpill
    <2> QED BY <2>1, <2>2
  <1>9. ASSUME NEW b \in Backends, Spill(b) PROVE TypeOK'
    BY <1>9 DEF Spill
  <1>10. ASSUME NEW b \in Backends, NEW c \in BOOLEAN, EndUse(b, c) PROVE TypeOK'
    BY <1>10 DEF EndUse
  <1>11. ASSUME NEW b \in Backends, EndSession(b) PROVE TypeOK'
    BY <1>11 DEF EndSession
  <1>12. ASSUME NEW b \in Backends, StartBuild(b) PROVE TypeOK'
    <2>1. /\ cache'[b].kind = "entry" /\ cache'[b].dp = used + 1
          /\ \A c \in Backends \ {b} : cache'[c] = cache[c] \/ cache'[c] = Absent
      BY <1>12 DEF StartBuild, register, Entry, Absent
    <2>2. used' = used + 1 /\ used \in Nat
      BY <1>12 DEF StartBuild, register
    <2>3. \A c \in Backends : cache'[c].dp \in 0 .. used' /\ (cached(c)' <=> cache'[c].dp # NoDp)
      <3>1. \A c \in Backends \ {b} : cache'[c].dp \in 0 .. used' /\ (cached(c)' <=> cache'[c].dp # NoDp)
        BY <2>1, <2>2
      <3>2. cache'[b].dp \in 0 .. used' /\ (cached(b)' <=> cache'[b].dp # NoDp)
        BY <2>1, <2>2
      <3> QED BY <3>1, <3>2
    <2>4. hazard' \subseteq Hazards
      BY <1>12 DEF StartBuild, register
    <2>5. /\ xact' \in [Backends -> {"none", "dml", "build", "built", "pbuilt", "drop"}]
          /\ step' \in [Backends -> {"idle", "lookup", "missed", "reload", "ready"}]
          /\ \A c \in Backends : xact'[c] = "dml" <=> step'[c] # "idle"
      BY <1>12 DEF StartBuild, register
    <2>6. accum' # NoTable => \E c \in Backends : xact'[c] = "build"
      BY <1>12 DEF StartBuild, register
    <2>7. registry' \in 0 .. used' /\ used' \in 0 .. MaxStates
      BY <1>12 DEF StartBuild, register
    <2> QED BY <1>12, <2>3, <2>4, <2>5, <2>6, <2>7 DEF StartBuild
  <1>13. ASSUME NEW b \in Backends, BuildDocument(b) PROVE TypeOK'
    BY <1>13 DEF BuildDocument
  <1>14. ASSUME NEW b \in Backends, FinishBuild(b) PROVE TypeOK'
    <2>1. cache'[b].kind = "entry" /\ cache'[b].dp = cache[b].dp
          /\ \A c \in Backends \ {b} : cache'[c] = cache[c]
      BY <1>14 DEF FinishBuild, Entry, Absent
    <2>2. used' = used /\ cached(b)
      BY <1>14 DEF FinishBuild
    <2>3. \A c \in Backends : cache'[c].dp \in 0 .. used' /\ (cached(c)' <=> cache'[c].dp # NoDp)
      <3>1. \A c \in Backends \ {b} : cache'[c].dp \in 0 .. used' /\ (cached(c)' <=> cache'[c].dp # NoDp)
        BY <2>1, <2>2
      <3>2. cache'[b].dp \in 0 .. used' /\ (cached(b)' <=> cache'[b].dp # NoDp)
        BY <2>1, <2>2
      <3> QED BY <3>1, <3>2
    <2>4. hazard' \subseteq Hazards
      BY <1>14 DEF FinishBuild
    <2>5. /\ xact' \in [Backends -> {"none", "dml", "build", "built", "pbuilt", "drop"}]
          /\ step' \in [Backends -> {"idle", "lookup", "missed", "reload", "ready"}]
          /\ \A c \in Backends : xact'[c] = "dml" <=> step'[c] # "idle"
      BY <1>14 DEF FinishBuild
    <2>6. accum' # NoTable => \E c \in Backends : xact'[c] = "build"
      BY <1>14 DEF FinishBuild
    <2>7. registry' \in 0 .. used' /\ used' \in 0 .. MaxStates
      BY <1>14 DEF FinishBuild
    <2> QED BY <1>14, <2>3, <2>4, <2>5, <2>6, <2>7 DEF FinishBuild
  <1>15. ASSUME NEW b \in Backends, ParallelBuild(b) PROVE TypeOK'
    BY <1>15 DEF ParallelBuild
  <1>16. ASSUME NEW b \in Backends, CommitBuild(b) PROVE TypeOK'
    BY <1>16 DEF CommitBuild
  <1>17. ASSUME NEW b \in Backends, AbortBuild(b) PROVE TypeOK'
    BY <1>17 DEF AbortBuild
  <1>18. ASSUME NEW b \in Backends, RollbackBuilt(b) PROVE TypeOK'
    BY <1>18 DEF RollbackBuilt
  <1>19. ASSUME NEW b \in Backends, Drop(b) PROVE TypeOK'
    <2>0. /\ cache' = cache \/ cache' = [cache EXCEPT ![b] = Absent]
          /\ registry' = NoDp
      BY <1>19 DEF Drop, tp_cleanup_index_shared_memory
    <2>1. (cache'[b] = cache[b] \/ cache'[b] = Absent)
          /\ \A c \in Backends \ {b} : cache'[c] = cache[c]
      <3>1. CASE cache' = cache
        BY <3>1
      <3>2. CASE cache' = [cache EXCEPT ![b] = Absent]
        <4> HIDE DEF Absent
        <4> QED BY <3>2
      <3> QED BY <2>0, <3>1, <3>2
    <2>2. used' = used /\ used \in Nat
      BY <1>19 DEF Drop, tp_cleanup_index_shared_memory
    <2>3. \A c \in Backends : cache'[c].dp \in 0 .. used' /\ (cached(c)' <=> cache'[c].dp # NoDp)
      <3>1. \A c \in Backends \ {b} : cache'[c].dp \in 0 .. used' /\ (cached(c)' <=> cache'[c].dp # NoDp)
        BY <2>1, <2>2
      <3>2. cache'[b].dp \in 0 .. used' /\ (cached(b)' <=> cache'[b].dp # NoDp)
        BY <2>1, <2>2
      <3> QED BY <3>1, <3>2
    <2>4. hazard' \subseteq Hazards
      BY <1>19 DEF Drop, tp_cleanup_index_shared_memory
    <2>5. /\ xact' \in [Backends -> {"none", "dml", "build", "built", "pbuilt", "drop"}]
          /\ step' \in [Backends -> {"idle", "lookup", "missed", "reload", "ready"}]
          /\ \A c \in Backends : xact'[c] = "dml" <=> step'[c] # "idle"
      BY <1>19 DEF Drop, tp_cleanup_index_shared_memory
    <2>6. accum' # NoTable => \E c \in Backends : xact'[c] = "build"
      BY <1>19 DEF Drop, tp_cleanup_index_shared_memory
    <2>7. registry' \in 0 .. used' /\ used' \in 0 .. MaxStates
      BY <2>0, <2>2
    <2> QED BY <1>19, <2>3, <2>4, <2>5, <2>6, <2>7 DEF Drop
  <1>20. ASSUME NEW b \in Backends, NEW c \in BOOLEAN, EndDrop(b, c) PROVE TypeOK'
    BY <1>20 DEF EndDrop
  <1>21. CASE UNCHANGED vars
    BY <1>21 DEF vars
  <1> QED BY <1>1, <1>2, <1>3, <1>4, <1>5, <1>6, <1>7, <1>8, <1>9, <1>10, <1>11, <1>12, <1>13, <1>14, <1>15, <1>16, <1>17, <1>18, <1>19, <1>20, <1>21, <1>22 DEF Next, Access

(* The effect of each action on what backends have cached. *)
LEMMA AttachCache ==
    ASSUME TypeInv, NEW b \in Backends, Attach(b)
    PROVE  /\ cache'[b].kind = "entry" /\ cache'[b].dp = registry
           /\ \A c \in Backends \ {b} : cache'[c] = cache[c]
  BY DEF Attach, Entry, TypeInv, Types

(* CreateSharedState caches the new state. *)
LEMMA CreateCache ==
    ASSUME TypeInv, NEW b \in Backends, CreateSharedState(b)
    PROVE  /\ cache'[b].kind = "entry" /\ cache'[b].dp = used + 1
           /\ \A c \in Backends \ {b} : cache'[c] = cache[c]
  BY DEF CreateSharedState, Entry, TypeInv, Types

(* StartBuild caches the new state; a CREATE INDEX has nobody else's entry. *)
LEMMA StartCache ==
    ASSUME TypeInv, NEW b \in Backends, StartBuild(b)
    PROVE  /\ cache'[b].kind = "entry" /\ cache'[b].dp = used + 1
           /\ exists => \A c \in Backends \ {b} : cache'[c] = cache[c]
           /\ ~exists => \A c \in Backends \ {b} : cache'[c] = Absent
  BY DEF StartBuild, Entry, TypeInv, Types

(* FinishBuild keeps the state the builder has. *)
LEMMA FinishCache ==
    ASSUME TypeInv, NEW b \in Backends, FinishBuild(b)
    PROVE  /\ cache'[b].kind = "entry" /\ cache'[b].dp = cache[b].dp
           /\ \A c \in Backends \ {b} : cache'[c] = cache[c]
  BY DEF FinishBuild, Entry, TypeInv, Types

(* EndSession forgets it. *)
LEMMA EndSessionCache ==
    ASSUME TypeInv, NEW b \in Backends, EndSession(b)
    PROVE  /\ cache'[b] = Absent
           /\ \A c \in Backends \ {b} : cache'[c] = cache[c]
  BY DEF EndSession, TypeInv, Types

(* AbortBuild leaves a NULL. *)
LEMMA AbortCache ==
    ASSUME TypeInv, NEW b \in Backends, AbortBuild(b)
    PROVE  /\ cache'[b] = Null
           /\ \A c \in Backends \ {b} : cache'[c] = cache[c]
  BY DEF AbortBuild, TypeInv, Types

(* Drop removes the dropping backend's entry and frees what was registered. *)
LEMMA DropCache ==
    ASSUME TypeInv, NEW b \in Backends, Drop(b)
    PROVE  /\ cache'[b] = cache[b] \/ cache'[b] = Absent
           /\ registry # NoDp => cache'[b].kind # "entry"
           /\ registry = NoDp => cache' = cache
           /\ registry' = NoDp
           /\ \A c \in Backends \ {b} : cache'[c] = cache[c]
  <1>1. CASE registry # NoDp /\ cached(b)
    BY <1>1, CacheFields DEF Drop, tp_cleanup_index_shared_memory, TypeInv, Types
  <1>2. CASE ~(registry # NoDp /\ cached(b))
    BY <1>2 DEF Drop, tp_cleanup_index_shared_memory, cached
  <1> QED BY <1>1, <1>2

(* ParallelBuild leaves the entries of a REINDEX alone. *)
LEMMA ParallelCache ==
    ASSUME NEW b \in Backends, ParallelBuild(b)
    PROVE  /\ exists => cache' = cache /\ registry' = registry
           /\ ~exists => registry' = NoDp /\ \A c \in Backends : cache'[c] = Absent
  BY DEF ParallelBuild

(* The steps of the calls are preserved. *)
LEMMA CallInvStep ==
    ASSUME TypeInv, [Next]_vars
    PROVE  CallInv'
  <1> USE BoundsAssumption DEF TypeInv, TypeOK, Types, CallInv, cached, idle, no_ddl, NoDp
  <1>1. CASE Restart
    BY <1>1 DEF Restart
  <1>2. ASSUME NEW b \in Backends, BeginUse(b) PROVE CallInv'
    BY <1>2 DEF BeginUse
  <1>3. ASSUME NEW b \in Backends, UseCached(b) PROVE CallInv'
    BY <1>3 DEF UseCached
  <1>4. ASSUME NEW b \in Backends, Attach(b) PROVE CallInv'
    <2>1. \A c \in Backends : cache'[c].kind = "absent" => cache'[c] = Absent
      BY <1>4, AttachCache, CacheFields
    <2>2. \A c \in Backends :
            /\ step'[c] = "missed" => cache'[c].kind = "absent"
            /\ step'[c] = "reload" => cache'[c].kind = "entry"
            /\ step'[c] = "ready" => cache'[c].kind # "absent"
      <3>1. step' = [step EXCEPT ![b] = "ready"]
        BY <1>4 DEF Attach
      <3> QED BY <1>4, <3>1, AttachCache
    <2>3. \A c, d \in Backends : xact'[c] \notin {"none", "dml"} /\ d # c => xact'[d] = "none"
      BY <1>4 DEF Attach
    <2>4. \A c \in Backends :
            /\ xact'[c] = "dml" => exists'
            /\ xact'[c] # "dml" => wrote'[c] = {}
      BY <1>4 DEF Attach
    <2>5. \A c \in Backends : xact'[c] = "build" =>
            /\ cache'[c].kind = "entry" /\ cache'[c].dp = registry'
            /\ \A d \in Backends \ {c} : cache'[d].dp # registry'
      BY <1>4, AttachCache, CacheFields DEF Attach
    <2>6. \A c \in Backends : xact'[c] = "built" => cache'[c].kind = "entry" /\ cache'[c].dp = registry'
      BY <1>4, AttachCache, CacheFields DEF Attach
    <2>7. \A c \in Backends : xact'[c] = "drop" => exists' /\ registry' = NoDp
      BY <1>4 DEF Attach
    <2> HIDE DEF TypeInv, TypeOK, Types, NoDp, idle, no_ddl
    <2> QED BY <2>1, <2>2, <2>3, <2>4, <2>5, <2>6, <2>7
  <1>5. ASSUME NEW b \in Backends, LookupMiss(b) PROVE CallInv'
    BY <1>5, CacheFields DEF LookupMiss
  <1>6. ASSUME NEW b \in Backends, CreateSharedState(b) PROVE CallInv'
    <2>1. \A c \in Backends : cache'[c].kind = "absent" => cache'[c] = Absent
      BY <1>6, CreateCache, CacheFields
    <2>2. \A c \in Backends :
            /\ step'[c] = "missed" => cache'[c].kind = "absent"
            /\ step'[c] = "reload" => cache'[c].kind = "entry"
            /\ step'[c] = "ready" => cache'[c].kind # "absent"
      <3>1. step' = [step EXCEPT ![b] = "ready"] \/ step' = [step EXCEPT ![b] = "reload"]
        BY <1>6 DEF CreateSharedState
      <3> QED BY <1>6, <3>1, CreateCache
    <2>3. \A c, d \in Backends : xact'[c] \notin {"none", "dml"} /\ d # c => xact'[d] = "none"
      BY <1>6 DEF CreateSharedState, register
    <2>4. \A c \in Backends :
            /\ xact'[c] = "dml" => exists'
            /\ xact'[c] # "dml" => wrote'[c] = {}
      BY <1>6 DEF CreateSharedState, register
    <2>5. \A c \in Backends : xact'[c] = "build" =>
            /\ cache'[c].kind = "entry" /\ cache'[c].dp = registry'
            /\ \A d \in Backends \ {c} : cache'[d].dp # registry'
      BY <1>6, CreateCache, CacheFields DEF CreateSharedState, register
    <2>6. \A c \in Backends : xact'[c] = "built" => cache'[c].kind = "entry" /\ cache'[c].dp = registry'
      BY <1>6, CreateCache, CacheFields DEF CreateSharedState, register
    <2>7. \A c \in Backends : xact'[c] = "drop" => exists' /\ registry' = NoDp
      BY <1>6 DEF CreateSharedState, register
    <2> HIDE DEF TypeInv, TypeOK, Types, NoDp, idle, no_ddl
    <2> QED BY <2>1, <2>2, <2>3, <2>4, <2>5, <2>6, <2>7
  <1>7. ASSUME NEW b \in Backends, ReloadFromDocids(b) PROVE CallInv'
    BY <1>7 DEF ReloadFromDocids
  <1>8. ASSUME NEW b \in Backends, NEW r \in Rows, Insert(b, r) PROVE CallInv'
    BY <1>8 DEF Insert
  <1>22. ASSUME NEW b \in Backends, NEW r \in Rows, InsertSpill(b, r) PROVE CallInv'
    BY <1>22 DEF InsertSpill
  <1>9. ASSUME NEW b \in Backends, Spill(b) PROVE CallInv'
    BY <1>9 DEF Spill
  <1>10. ASSUME NEW b \in Backends, NEW c \in BOOLEAN, EndUse(b, c) PROVE CallInv'
    BY <1>10 DEF EndUse
  <1>11. ASSUME NEW b \in Backends, EndSession(b) PROVE CallInv'
    <2>1. \A c \in Backends : cache'[c].kind = "absent" => cache'[c] = Absent
      BY <1>11, EndSessionCache, CacheFields
    <2>2. \A c \in Backends :
            /\ step'[c] = "missed" => cache'[c].kind = "absent"
            /\ step'[c] = "reload" => cache'[c].kind = "entry"
            /\ step'[c] = "ready" => cache'[c].kind # "absent"
      BY <1>11, EndSessionCache, CacheFields DEF EndSession
    <2>3. \A c, d \in Backends : xact'[c] \notin {"none", "dml"} /\ d # c => xact'[d] = "none"
      BY <1>11 DEF EndSession
    <2>4. \A c \in Backends :
            /\ xact'[c] = "dml" => exists'
            /\ xact'[c] # "dml" => wrote'[c] = {}
      BY <1>11 DEF EndSession
    <2>5. \A c \in Backends : xact'[c] = "build" =>
            /\ cache'[c].kind = "entry" /\ cache'[c].dp = registry'
            /\ \A d \in Backends \ {c} : cache'[d].dp # registry'
      BY <1>11, EndSessionCache, CacheFields DEF EndSession
    <2>6. \A c \in Backends : xact'[c] = "built" => cache'[c].kind = "entry" /\ cache'[c].dp = registry'
      BY <1>11, EndSessionCache, CacheFields DEF EndSession
    <2>7. \A c \in Backends : xact'[c] = "drop" => exists' /\ registry' = NoDp
      BY <1>11 DEF EndSession
    <2> HIDE DEF TypeInv, TypeOK, Types, NoDp, idle, no_ddl
    <2> QED BY <2>1, <2>2, <2>3, <2>4, <2>5, <2>6, <2>7
  <1>12. ASSUME NEW b \in Backends, StartBuild(b) PROVE CallInv'
    <2>1. \A c \in Backends : cache'[c].kind = "absent" => cache'[c] = Absent
      BY <1>12, StartCache, CacheFields
    <2>2. \A c \in Backends :
            /\ step'[c] = "missed" => cache'[c].kind = "absent"
            /\ step'[c] = "reload" => cache'[c].kind = "entry"
            /\ step'[c] = "ready" => cache'[c].kind # "absent"
      BY <1>12, StartCache, CacheFields DEF StartBuild, register
    <2>3. \A c, d \in Backends : xact'[c] \notin {"none", "dml"} /\ d # c => xact'[d] = "none"
      BY <1>12 DEF StartBuild, register
    <2>4. \A c \in Backends :
            /\ xact'[c] = "dml" => exists'
            /\ xact'[c] # "dml" => wrote'[c] = {}
      BY <1>12 DEF StartBuild, register
    <2>5. \A c \in Backends : xact'[c] = "build" =>
            /\ cache'[c].kind = "entry" /\ cache'[c].dp = registry'
            /\ \A d \in Backends \ {c} : cache'[d].dp # registry'
      <3>1. /\ xact' = [xact EXCEPT ![b] = "build"] /\ registry' = used + 1
            /\ \A c \in Backends : xact[c] = "none"
        BY <1>12 DEF StartBuild, register
      <3>2. \A d \in Backends \ {b} : cache'[d].dp # used + 1
        BY <1>12, StartCache, CacheFields
      <3> QED BY <1>12, <3>1, <3>2, StartCache
    <2>6. \A c \in Backends : xact'[c] = "built" => cache'[c].kind = "entry" /\ cache'[c].dp = registry'
      BY <1>12, StartCache, CacheFields DEF StartBuild, register
    <2>7. \A c \in Backends : xact'[c] = "drop" => exists' /\ registry' = NoDp
      BY <1>12 DEF StartBuild, register
    <2> HIDE DEF TypeInv, TypeOK, Types, NoDp, idle, no_ddl
    <2> QED BY <2>1, <2>2, <2>3, <2>4, <2>5, <2>6, <2>7
  <1>13. ASSUME NEW b \in Backends, BuildDocument(b) PROVE CallInv'
    BY <1>13 DEF BuildDocument
  <1>14. ASSUME NEW b \in Backends, FinishBuild(b) PROVE CallInv'
    <2>1. \A c \in Backends : cache'[c].kind = "absent" => cache'[c] = Absent
      BY <1>14, FinishCache, CacheFields
    <2>2. \A c \in Backends :
            /\ step'[c] = "missed" => cache'[c].kind = "absent"
            /\ step'[c] = "reload" => cache'[c].kind = "entry"
            /\ step'[c] = "ready" => cache'[c].kind # "absent"
      BY <1>14, FinishCache, CacheFields, Zenon DEF FinishBuild
    <2>3. \A c, d \in Backends : xact'[c] \notin {"none", "dml"} /\ d # c => xact'[d] = "none"
      BY <1>14 DEF FinishBuild
    <2>4. \A c \in Backends :
            /\ xact'[c] = "dml" => exists'
            /\ xact'[c] # "dml" => wrote'[c] = {}
      BY <1>14 DEF FinishBuild
    <2>5. \A c \in Backends : xact'[c] = "build" =>
            /\ cache'[c].kind = "entry" /\ cache'[c].dp = registry'
            /\ \A d \in Backends \ {c} : cache'[d].dp # registry'
      <3>1. xact' = [xact EXCEPT ![b] = "built"] /\ xact[b] = "build"
        BY <1>14 DEF FinishBuild
      <3> QED BY <3>1
    <2>6. \A c \in Backends : xact'[c] = "built" => cache'[c].kind = "entry" /\ cache'[c].dp = registry'
      <3>1. xact' = [xact EXCEPT ![b] = "built"] /\ xact[b] = "build" /\ registry' = registry
        BY <1>14 DEF FinishBuild
      <3> QED BY <1>14, <3>1, FinishCache
    <2>7. \A c \in Backends : xact'[c] = "drop" => exists' /\ registry' = NoDp
      BY <1>14 DEF FinishBuild
    <2> HIDE DEF TypeInv, TypeOK, Types, NoDp, idle, no_ddl
    <2> QED BY <2>1, <2>2, <2>3, <2>4, <2>5, <2>6, <2>7
  <1>15. ASSUME NEW b \in Backends, ParallelBuild(b) PROVE CallInv'
    <2>1. \A c \in Backends : cache'[c].kind = "absent" => cache'[c] = Absent
      BY <1>15, ParallelCache, CacheFields
    <2>2. \A c \in Backends :
            /\ step'[c] = "missed" => cache'[c].kind = "absent"
            /\ step'[c] = "reload" => cache'[c].kind = "entry"
            /\ step'[c] = "ready" => cache'[c].kind # "absent"
      BY <1>15, ParallelCache, CacheFields DEF ParallelBuild
    <2>3. \A c, d \in Backends : xact'[c] \notin {"none", "dml"} /\ d # c => xact'[d] = "none"
      BY <1>15 DEF ParallelBuild
    <2>4. \A c \in Backends :
            /\ xact'[c] = "dml" => exists'
            /\ xact'[c] # "dml" => wrote'[c] = {}
      BY <1>15 DEF ParallelBuild
    <2>5. \A c \in Backends : xact'[c] = "build" =>
            /\ cache'[c].kind = "entry" /\ cache'[c].dp = registry'
            /\ \A d \in Backends \ {c} : cache'[d].dp # registry'
      BY <1>15, ParallelCache, CacheFields DEF ParallelBuild
    <2>6. \A c \in Backends : xact'[c] = "built" => cache'[c].kind = "entry" /\ cache'[c].dp = registry'
      BY <1>15, ParallelCache, CacheFields DEF ParallelBuild
    <2>7. \A c \in Backends : xact'[c] = "drop" => exists' /\ registry' = NoDp
      BY <1>15 DEF ParallelBuild
    <2> HIDE DEF TypeInv, TypeOK, Types, NoDp, idle, no_ddl
    <2> QED BY <2>1, <2>2, <2>3, <2>4, <2>5, <2>6, <2>7
  <1>16. ASSUME NEW b \in Backends, CommitBuild(b) PROVE CallInv'
    BY <1>16 DEF CommitBuild
  <1>17. ASSUME NEW b \in Backends, AbortBuild(b) PROVE CallInv'
    <2>1. \A c \in Backends : cache'[c].kind = "absent" => cache'[c] = Absent
      BY <1>17, AbortCache, CacheFields
    <2>2. \A c \in Backends :
            /\ step'[c] = "missed" => cache'[c].kind = "absent"
            /\ step'[c] = "reload" => cache'[c].kind = "entry"
            /\ step'[c] = "ready" => cache'[c].kind # "absent"
      BY <1>17, AbortCache, CacheFields DEF AbortBuild
    <2>3. \A c, d \in Backends : xact'[c] \notin {"none", "dml"} /\ d # c => xact'[d] = "none"
      BY <1>17 DEF AbortBuild
    <2>4. \A c \in Backends :
            /\ xact'[c] = "dml" => exists'
            /\ xact'[c] # "dml" => wrote'[c] = {}
      BY <1>17 DEF AbortBuild
    <2>5. \A c \in Backends : xact'[c] = "build" =>
            /\ cache'[c].kind = "entry" /\ cache'[c].dp = registry'
            /\ \A d \in Backends \ {c} : cache'[d].dp # registry'
      BY <1>17, AbortCache, CacheFields DEF AbortBuild
    <2>6. \A c \in Backends : xact'[c] = "built" => cache'[c].kind = "entry" /\ cache'[c].dp = registry'
      BY <1>17, AbortCache, CacheFields DEF AbortBuild
    <2>7. \A c \in Backends : xact'[c] = "drop" => exists' /\ registry' = NoDp
      BY <1>17 DEF AbortBuild
    <2> HIDE DEF TypeInv, TypeOK, Types, NoDp, idle, no_ddl
    <2> QED BY <2>1, <2>2, <2>3, <2>4, <2>5, <2>6, <2>7
  <1>18. ASSUME NEW b \in Backends, RollbackBuilt(b) PROVE CallInv'
    BY <1>18 DEF RollbackBuilt
  <1>19. ASSUME NEW b \in Backends, Drop(b) PROVE CallInv'
    <2>1. \A c \in Backends : cache'[c].kind = "absent" => cache'[c] = Absent
      BY <1>19, DropCache, CacheFields
    <2>2. \A c \in Backends :
            /\ step'[c] = "missed" => cache'[c].kind = "absent"
            /\ step'[c] = "reload" => cache'[c].kind = "entry"
            /\ step'[c] = "ready" => cache'[c].kind # "absent"
      BY <1>19, DropCache, CacheFields DEF Drop, tp_cleanup_index_shared_memory
    <2>3. \A c, d \in Backends : xact'[c] \notin {"none", "dml"} /\ d # c => xact'[d] = "none"
      BY <1>19 DEF Drop, tp_cleanup_index_shared_memory
    <2>4. \A c \in Backends :
            /\ xact'[c] = "dml" => exists'
            /\ xact'[c] # "dml" => wrote'[c] = {}
      BY <1>19 DEF Drop, tp_cleanup_index_shared_memory
    <2>5. \A c \in Backends : xact'[c] = "build" =>
            /\ cache'[c].kind = "entry" /\ cache'[c].dp = registry'
            /\ \A d \in Backends \ {c} : cache'[d].dp # registry'
      BY <1>19, DropCache, CacheFields DEF Drop, tp_cleanup_index_shared_memory
    <2>6. \A c \in Backends : xact'[c] = "built" => cache'[c].kind = "entry" /\ cache'[c].dp = registry'
      BY <1>19, DropCache, CacheFields DEF Drop, tp_cleanup_index_shared_memory
    <2>7. \A c \in Backends : xact'[c] = "drop" => exists' /\ registry' = NoDp
      BY <1>19 DEF Drop, tp_cleanup_index_shared_memory
    <2> HIDE DEF TypeInv, TypeOK, Types, NoDp, idle, no_ddl
    <2> QED BY <2>1, <2>2, <2>3, <2>4, <2>5, <2>6, <2>7
  <1>20. ASSUME NEW b \in Backends, NEW c \in BOOLEAN, EndDrop(b, c) PROVE CallInv'
    BY <1>20 DEF EndDrop
  <1>21. CASE UNCHANGED vars
    BY <1>21 DEF vars
  <1> HIDE DEF TypeInv, TypeOK, Types, CallInv, cached, idle, no_ddl, NoDp
  <1> QED BY <1>1, <1>2, <1>3, <1>4, <1>5, <1>6, <1>7, <1>8, <1>9, <1>10, <1>11, <1>12, <1>13, <1>14, <1>15, <1>16, <1>17, <1>18, <1>19, <1>20, <1>21, <1>22 DEF Next, Access

(* The initial state has its types. *)
LEMMA TypeInit ==
    Init => TypeInv
  <1> SUFFICES ASSUME Init PROVE TypeInv
    OBVIOUS
  <1>1. TypeOK
    <2>1. \A b \in Backends : cache[b].dp = NoDp /\ cache[b].kind = "absent"
      BY CacheFields DEF Init
    <2>2. disk.segs = {} /\ disk.astray = {} /\ disk.first_docid_page = InvalidBlockNumber
          /\ writer \in [Backends -> Rows \cup {InvalidBlockNumber}]
      BY FreshFields DEF Init
    <2>3. exists \in BOOLEAN
      BY DEF Init
    <2>6. registry = 0 /\ used = 0 /\ accum = NoTable /\ hazard = {} /\ todo = {}
      BY DEF Init, NoDp
    <2>4. committed \subseteq heap /\ heap \subseteq Rows
      BY DEF Init
    <2>5. /\ xact \in [Backends -> {"none", "dml", "build", "built", "pbuilt", "drop"}]
          /\ step \in [Backends -> {"idle", "lookup", "missed", "reload", "ready"}]
          /\ \A b \in Backends : xact[b] = "dml" <=> step[b] # "idle"
      BY DEF Init
    <2>7. 0 \in 0 .. 0 /\ 0 \in 0 .. MaxStates
      BY BoundsAssumption
    <2> QED BY <2>1, <2>2, <2>3, <2>4, <2>5, <2>6, <2>7 DEF TypeOK, cached, NoDp
  <1>2. Types
    BY ValueTypes DEF Init, Types, PageType
  <1>3. CallInv
    BY CacheFields DEF Init, CallInv, cached
  <1> QED BY <1>1, <1>2, <1>3 DEF TypeInv

(* The types and the steps of the calls, for every behaviour. *)
LEMMA TypeAlways ==
    Spec => []TypeInv
  <1>1. TypeInv /\ [Next]_vars => TypeInv'
    BY TypesStep, TypeOKStep, CallInvStep DEF TypeInv
  <1> QED BY <1>1, TypeInit, PTL DEF Spec

(* Every variable keeps its type; a backend is inside tp_get_local_index_state or past it
   exactly while it uses the index, and a build's accumulated counts never outlive it. *)
THEOREM RegistryTypes ==
    Spec => []TypeOK
  <1>1. TypeInv => TypeOK
    BY DEF TypeInv
  <1> QED BY <1>1, TypeAlways, PTL

-----------------------------------------------------------------------------
(* The effect of each action on the shared states. *)

(* Attach may load the tenant counts and changes nothing else. *)
LEMMA AttachShm ==
    ASSUME TypeInv, NEW b \in Backends, Attach(b)
    PROVE  /\ \A p \in 1 .. MaxStates :
                /\ shm'[p].status = shm[p].status /\ shm'[p].private = shm[p].private
                /\ shm'[p].mem = shm[p].mem
                /\ p # registry => shm'[p] = shm[p]
           /\ shm'[registry].tstats = IF shm[registry].tstats = NoTable THEN disk.tstats
                                      ELSE shm[registry].tstats
  <1>1. registry \in 1 .. MaxStates
    BY Addresses DEF Attach
  <1>2. shm \in [1 .. MaxStates -> StateType]
    BY DEF TypeInv, Types
  <1> QED BY <1>1, <1>2 DEF Attach, StateType

(* CreateSharedState adds a new state. *)
LEMMA CreateShm ==
    ASSUME TypeInv, NEW b \in Backends, CreateSharedState(b)
    PROVE  /\ used + 1 \in 1 .. MaxStates
           /\ shm'[used + 1].status = "live" /\ ~shm'[used + 1].private
           /\ shm'[used + 1].mem = {} /\ shm'[used + 1].tstats = NoTable
           /\ \A p \in 1 .. MaxStates : p # used + 1 => shm'[p] = shm[p]
  <1>1. used + 1 \in 1 .. MaxStates /\ shm \in [1 .. MaxStates -> StateType]
    BY Addresses DEF CreateSharedState, TypeInv, Types
  <1>2. shm' = [shm EXCEPT ![used + 1] = FreshState(FALSE)]
    BY DEF CreateSharedState
  <1> QED BY <1>1, <1>2 DEF FreshState

(* ReloadFromDocids adds to the memtable and to the counts. *)
LEMMA ReloadShm ==
    ASSUME TypeInv, NEW b \in Backends, ReloadFromDocids(b)
    PROVE  LET docs == chain(disk, snap[b])
               dp == cache[b].dp
           IN  /\ cached(b) /\ dp \in 1 .. MaxStates
               /\ shm'[dp].status = shm[dp].status /\ shm'[dp].private = shm[dp].private
               /\ shm'[dp].mem = shm[dp].mem \cup docs
               /\ shm'[dp].tstats = restored_tstats(shm[dp], docs, disk.tstats)
               /\ \A p \in 1 .. MaxStates : p # dp => shm'[p] = shm[p]
  <1>1. cached(b) /\ cache[b].dp \in 1 .. MaxStates
    BY Addresses DEF ReloadFromDocids, TypeInv, CallInv
  <1>2. shm \in [1 .. MaxStates -> StateType]
    BY DEF TypeInv, Types
  <1> QED BY <1>1, <1>2 DEF ReloadFromDocids, state, StateType

(* Insert adds the row to the memtable and counts it. *)
LEMMA InsertShm ==
    ASSUME TypeInv, NEW b \in Backends, NEW r \in Rows, Insert(b, r)
    PROVE  /\ ~cached(b) => shm' = shm
           /\ cached(b) =>
                LET dp == cache[b].dp
                IN  /\ dp \in 1 .. MaxStates
                    /\ shm'[dp].status = shm[dp].status /\ shm'[dp].private = shm[dp].private
                    /\ shm'[dp].mem = shm[dp].mem \cup {r}
                    /\ shm'[dp].tstats = plus(shm[dp].tstats, counts({r}))
                    /\ \A p \in 1 .. MaxStates : p # dp => shm'[p] = shm[p]
  <1>1. cached(b) => cache[b].dp \in 1 .. MaxStates
    BY Addresses
  <1>2. shm \in [1 .. MaxStates -> StateType]
    BY DEF TypeInv, Types
  <1>3. shm' = IF cached(b) THEN [shm EXCEPT ![cache[b].dp] = added(shm[cache[b].dp], r)] ELSE shm
    BY DEF Insert, state
  <1>4. CASE cached(b)
    <2>1. shm[cache[b].dp] \in StateType
      BY <1>1, <1>2, <1>4
    <2> QED BY <1>1, <1>2, <1>3, <1>4, <2>1, AddedFields
  <1> QED BY <1>3, <1>4

(* InsertSpill counts the row and empties the memtable. *)
LEMMA InsertSpillShm ==
    ASSUME TypeInv, NEW b \in Backends, NEW r \in Rows, InsertSpill(b, r)
    PROVE  LET dp == cache[b].dp
           IN  /\ cached(b) /\ dp \in 1 .. MaxStates
               /\ shm'[dp].status = shm[dp].status /\ shm'[dp].private = shm[dp].private
               /\ shm'[dp].mem = {}
               /\ shm'[dp].tstats = plus(shm[dp].tstats, counts({r}))
               /\ \A p \in 1 .. MaxStates : p # dp => shm'[p] = shm[p]
  <1>1. cached(b) /\ cache[b].dp \in 1 .. MaxStates
    BY Addresses DEF InsertSpill
  <1>2. shm \in [1 .. MaxStates -> StateType]
    BY DEF TypeInv, Types
  <1>3. PICK s \in StateType : s = added(shm[cache[b].dp], r)
    BY <1>1, <1>2, AddedFields
  <1>4. shm' = [shm EXCEPT ![cache[b].dp] = [s EXCEPT !.mem = {}]]
    BY <1>3 DEF InsertSpill, state
  <1>5. /\ shm'[cache[b].dp].status = s.status /\ shm'[cache[b].dp].private = s.private
        /\ shm'[cache[b].dp].mem = {} /\ shm'[cache[b].dp].tstats = s.tstats
        /\ \A p \in 1 .. MaxStates : p # cache[b].dp => shm'[p] = shm[p]
    BY <1>1, <1>2, <1>4 DEF StateType
  <1>6. shm[cache[b].dp] \in StateType
    BY <1>1, <1>2
  <1> QED BY <1>1, <1>3, <1>5, <1>6, AddedFields

(* Spill empties the memtable. *)
LEMMA SpillShm ==
    ASSUME TypeInv, NEW b \in Backends, Spill(b)
    PROVE  LET dp == cache[b].dp
           IN  /\ cached(b) /\ dp \in 1 .. MaxStates
               /\ shm'[dp].status = shm[dp].status /\ shm'[dp].private = shm[dp].private
               /\ shm'[dp].mem = {} /\ shm'[dp].tstats = shm[dp].tstats
               /\ \A p \in 1 .. MaxStates : p # dp => shm'[p] = shm[p]
  <1>1. cached(b) /\ cache[b].dp \in 1 .. MaxStates
    BY Addresses DEF Spill
  <1>2. shm \in [1 .. MaxStates -> StateType]
    BY DEF TypeInv, Types
  <1> QED BY <1>1, <1>2 DEF Spill, StateType

(* StartBuild adds a private state. *)
LEMMA StartShm ==
    ASSUME TypeInv, NEW b \in Backends, StartBuild(b)
    PROVE  /\ used + 1 \in 1 .. MaxStates
           /\ shm'[used + 1].status = "live" /\ shm'[used + 1].mem = {}
           /\ shm'[used + 1].tstats = NoTable
           /\ \A p \in 1 .. MaxStates : p # used + 1 => shm'[p] = shm[p]
  <1>1. used + 1 \in 1 .. MaxStates /\ shm \in [1 .. MaxStates -> StateType]
    BY Addresses DEF StartBuild, TypeInv, Types
  <1>2. shm' = [shm EXCEPT ![used + 1] = FreshState(TRUE)]
    BY DEF StartBuild
  <1> QED BY <1>1, <1>2 DEF FreshState

(* A document of a build goes to the builder's state, or the batch is spilled. *)
LEMMA DocumentShm ==
    ASSUME TypeInv, NEW b \in Backends, BuildDocument(b)
    PROVE  /\ cached(b) /\ registry \in 1 .. MaxStates /\ cache[b].dp = registry
           /\ \A p \in 1 .. MaxStates : p # registry => shm'[p] = shm[p]
           /\ \E r \in todo :
             LET dp == cache[b].dp
                 mem == shm[dp].mem \cup {r}
                 n == plus(shm[dp].tstats, counts({r}))
             IN  /\ todo' = todo \ {r}
                 /\ \/ /\ shm'[dp].status = "live" /\ shm'[dp].mem = {} /\ shm'[dp].tstats = NoTable
                       /\ disk'.segs = disk.segs \cup mem /\ docids(disk') = docids(disk)
                       /\ disk'.tstats = disk.tstats /\ accum' = plus(accum, n)
                    \/ /\ shm'[dp].status = shm[dp].status /\ shm'[dp].private = shm[dp].private
                       /\ shm'[dp].mem = mem /\ shm'[dp].tstats = n
                       /\ disk' = disk /\ accum' = accum
  <1>1. cached(b) /\ cache[b].dp \in 1 .. MaxStates /\ cache[b].dp = registry
    BY Addresses DEF BuildDocument, TypeInv, CallInv
  <1>2. shm \in [1 .. MaxStates -> StateType]
    BY DEF TypeInv, Types
  <1>3. PICK r \in todo :
          LET s == state(b)
              mem == s.mem \cup {r}
              n == plus(s.tstats, counts({r}))
          IN  /\ todo' = todo \ {r}
              /\ \/ /\ disk' = [disk EXCEPT !.segs = @ \cup mem]
                    /\ shm' = [shm EXCEPT ![cache[b].dp] = FreshState(TRUE)]
                    /\ accum' = plus(accum, n)
                 \/ /\ shm' = [shm EXCEPT ![cache[b].dp] = [s EXCEPT !.mem = mem, !.tstats = n]]
                    /\ UNCHANGED <<disk, accum>>
    BY Zenon DEF BuildDocument
  <1> DEFINE dp == cache[b].dp
             mem == shm[dp].mem \cup {r}
             n == plus(shm[dp].tstats, counts({r}))
  <1>4. \A p \in 1 .. MaxStates : p # dp => shm'[p] = shm[p]
    BY <1>1, <1>2, <1>3 DEF state
  <1>5. \/ /\ shm'[dp].status = "live" /\ shm'[dp].mem = {} /\ shm'[dp].tstats = NoTable
           /\ disk'.segs = disk.segs \cup mem /\ docids(disk') = docids(disk)
           /\ disk'.tstats = disk.tstats /\ accum' = plus(accum, n)
        \/ /\ shm'[dp].status = shm[dp].status /\ shm'[dp].private = shm[dp].private
           /\ shm'[dp].mem = mem /\ shm'[dp].tstats = n
           /\ disk' = disk /\ accum' = accum
    <2>1. CASE /\ disk' = [disk EXCEPT !.segs = disk.segs \cup mem]
               /\ shm' = [shm EXCEPT ![dp] = FreshState(TRUE)]
               /\ accum' = plus(accum, n)
      <3> HIDE DEF mem, n
      <3>1. disk \in FileType
        BY DEF TypeInv, Types
      <3>2. disk'.segs = disk.segs \cup mem /\ docids(disk') = docids(disk) /\ disk'.tstats = disk.tstats
        BY <2>1, <3>1 DEF FileType, docids, chain
      <3> QED BY <1>1, <1>2, <2>1, <3>2 DEF FreshState
    <2>2. CASE shm' = [shm EXCEPT ![dp] = [shm[dp] EXCEPT !.mem = mem, !.tstats = n]]
               /\ UNCHANGED <<disk, accum>>
      <3> HIDE DEF mem, n
      <3> QED BY <1>1, <1>2, <2>2 DEF StateType
    <2> QED BY <1>3, <2>1, <2>2 DEF state
  <1>6. todo' = todo \ {r}
    BY <1>3
  <1> QED BY <1>1, <1>4, <1>5, <1>6

(* FinishBuild leaves an empty shared memtable with the accumulated counts. *)
LEMMA FinishShm ==
    ASSUME TypeInv, NEW b \in Backends, FinishBuild(b)
    PROVE  LET dp == cache[b].dp
           IN  /\ cached(b) /\ dp \in 1 .. MaxStates /\ dp = registry
               /\ shm'[dp].status = "live" /\ ~shm'[dp].private
               /\ shm'[dp].mem = {} /\ shm'[dp].tstats = accum
               /\ \A p \in 1 .. MaxStates : p # dp => shm'[p] = shm[p]
  <1>1. cached(b) /\ cache[b].dp \in 1 .. MaxStates /\ cache[b].dp = registry
    BY Addresses DEF FinishBuild, TypeInv, CallInv
  <1>2. shm \in [1 .. MaxStates -> StateType]
    BY DEF TypeInv, Types
  <1>3. shm' = [shm EXCEPT ![cache[b].dp] = [FreshState(FALSE) EXCEPT !.tstats = accum]]
    BY DEF FinishBuild
  <1> QED BY <1>1, <1>2, <1>3 DEF FreshState

(* AbortBuild frees the registered state, which is the builder's. *)
LEMMA AbortShm ==
    ASSUME TypeInv, NEW b \in Backends, AbortBuild(b)
    PROVE  /\ registry' = NoDp
           /\ \A p \in 1 .. MaxStates : p # registry => shm'[p] = shm[p]
           /\ \A p \in 1 .. MaxStates : shm'[p].mem \subseteq shm[p].mem
  <1>1. registry \in 1 .. MaxStates
    BY Addresses DEF AbortBuild, TypeInv, CallInv
  <1>2. shm \in [1 .. MaxStates -> StateType]
    BY DEF TypeInv, Types
  <1>3. shm' = [shm EXCEPT ![registry] = [FreshState(FALSE) EXCEPT !.status = "freed"]] /\ registry' = NoDp
    BY DEF AbortBuild
  <1> QED BY <1>1, <1>2, <1>3 DEF FreshState

(* Drop frees the registered state. *)
LEMMA DropShm ==
    ASSUME TypeInv, NEW b \in Backends, Drop(b)
    PROVE  /\ registry' = NoDp
           /\ registry = NoDp => shm' = shm
           /\ \A p \in 1 .. MaxStates : p # registry => shm'[p] = shm[p]
           /\ \A p \in 1 .. MaxStates : shm'[p].mem \subseteq shm[p].mem
  <1>1. CASE registry # NoDp
    <2>1. registry \in 1 .. MaxStates
      BY <1>1, Addresses
    <2>2. shm \in [1 .. MaxStates -> StateType]
      BY DEF TypeInv, Types
    <2>3. shm' = [shm EXCEPT ![registry] = [FreshState(FALSE) EXCEPT !.status = "freed"]] /\ registry' = NoDp
      BY <1>1 DEF Drop, tp_cleanup_index_shared_memory
    <2> QED BY <1>1, <2>1, <2>2, <2>3 DEF FreshState
  <1>2. CASE registry = NoDp
    BY <1>2 DEF Drop
  <1> QED BY <1>1, <1>2
(* The rest of what those actions do. *)

(* Attach takes the backend to "ready", and the index is disturbed if somebody reloads. *)
LEMMA AttachFrame ==
    ASSUME NEW b \in Backends, Attach(b)
    PROVE  /\ step[b] = "lookup" /\ cache[b].kind = "absent" /\ registry # NoDp
           /\ step' = [step EXCEPT ![b] = "ready"]
           /\ hazard \subseteq hazard'
           /\ (\E c \in Backends : step[c] = "reload") => "forked" \in hazard'
           /\ UNCHANGED <<exists, disk, saved, heap, committed, xact, wrote, snap, registry, used, todo, accum>>
  BY CacheFields DEF Attach

(* CreateSharedState registers the new state; there is a reload when the index is not empty. *)
LEMMA CreateFrame ==
    ASSUME NEW b \in Backends, CreateSharedState(b)
    PROVE  /\ step[b] = "missed"
           /\ used' = used + 1 /\ registry' = used + 1
           /\ \/ /\ disk.segs = {} /\ disk.first_docid_page = InvalidBlockNumber
                 /\ step' = [step EXCEPT ![b] = "ready"] /\ snap' = snap
              \/ /\ step' = [step EXCEPT ![b] = "reload"]
                 /\ snap' = [snap EXCEPT ![b] = disk.first_docid_page]
           /\ hazard \subseteq hazard'
           /\ others_cached(b) => "forked" \in hazard'
           /\ UNCHANGED <<exists, disk, saved, heap, committed, xact, wrote, todo, accum>>
  BY DEF CreateSharedState, register

(* ReloadFromDocids takes the backend to "ready". *)
LEMMA ReloadFrame ==
    ASSUME NEW b \in Backends, ReloadFromDocids(b)
    PROVE  /\ step[b] = "reload"
           /\ step' = [step EXCEPT ![b] = "ready"]
           /\ snap' = [snap EXCEPT ![b] = InvalidBlockNumber]
           /\ hazard \subseteq hazard'
           /\ chain(disk, snap[b]) \cap disk.segs # {} => "reindexed" \in hazard'
           /\ "forked" \in hazard' => "forked" \in hazard
           /\ "drop_rolled_back" \in hazard' => "drop_rolled_back" \in hazard
           /\ UNCHANGED <<exists, disk, saved, heap, committed, xact, wrote, registry, used, cache, todo, accum>>
  BY DEF ReloadFromDocids

(* Insert stores the row and its docid. *)
LEMMA InsertFrame ==
    ASSUME NEW b \in Backends, NEW r \in Rows, Insert(b, r)
    PROVE  /\ step[b] = "ready" /\ r \notin heap
           /\ heap' = heap \cup {r}
           /\ wrote' = [wrote EXCEPT ![b] = wrote[b] \cup {r}]
           /\ hazard \subseteq hazard'
           /\ cached(b) /\ shm[cache[b].dp].tstats = NoTable /\ disk.tstats # NoTable => "miscounted" \in hazard'
           /\ UNCHANGED <<exists, saved, committed, xact, step, snap, registry, used, cache, todo, accum>>
  BY DEF Insert, state, miscount

(* InsertSpill stores the row, spills and then stores the docid. *)
LEMMA InsertSpillFrame ==
    ASSUME NEW b \in Backends, NEW r \in Rows, InsertSpill(b, r)
    PROVE  /\ step[b] = "ready" /\ r \notin heap /\ cached(b)
           /\ heap' = heap \cup {r}
           /\ wrote' = [wrote EXCEPT ![b] = wrote[b] \cup {r}]
           /\ hazard \subseteq hazard'
           /\ shm[cache[b].dp].tstats = NoTable /\ disk.tstats # NoTable => "miscounted" \in hazard'
           /\ UNCHANGED <<exists, saved, committed, xact, step, snap, registry, used, cache, todo, accum>>
  BY DEF InsertSpill, state, miscount

(* Spill changes the file and one state. *)
LEMMA SpillFrame ==
    ASSUME NEW b \in Backends, Spill(b)
    PROVE  /\ step[b] = "ready" /\ cached(b)
           /\ UNCHANGED <<exists, saved, heap, committed, xact, step, wrote, snap, registry, used, cache, todo, accum, hazard>>
  BY DEF Spill

(* StartBuild starts a file and registers a state. *)
LEMMA StartFrame ==
    ASSUME NEW b \in Backends, StartBuild(b)
    PROVE  /\ \A c \in Backends : xact[c] = "none"
           /\ xact' = [xact EXCEPT ![b] = "build"]
           /\ saved' = disk /\ disk' = NoFile /\ todo' = committed
           /\ used' = used + 1 /\ registry' = used + 1
           /\ exists => hazard \subseteq hazard' /\ (others_cached(b) => "forked" \in hazard')
           /\ ~exists => hazard' = {}
           /\ UNCHANGED <<exists, heap, committed, step, wrote, snap, accum>>
  BY DEF StartBuild, register, idle

(* BuildDocument changes the file, one state and the counts in hand. *)
LEMMA DocumentFrame ==
    ASSUME NEW b \in Backends, BuildDocument(b)
    PROVE  /\ xact[b] = "build"
           /\ UNCHANGED <<exists, saved, heap, committed, xact, step, wrote, snap, registry, used, cache, hazard>>
  BY DEF BuildDocument

(* FinishBuild ends the build. *)
LEMMA FinishFrame ==
    ASSUME NEW b \in Backends, FinishBuild(b)
    PROVE  /\ xact[b] = "build" /\ todo = {}
           /\ xact' = [xact EXCEPT ![b] = "built"] /\ accum' = NoTable
           /\ hazard \subseteq hazard'
           /\ accum # NoTable => "miscounted" \in hazard'
           /\ UNCHANGED <<exists, saved, heap, committed, step, wrote, snap, registry, used, todo>>
  BY DEF FinishBuild

(* AbortBuild goes back to the old file. *)
LEMMA AbortFrame ==
    ASSUME NEW b \in Backends, AbortBuild(b)
    PROVE  /\ xact[b] = "build"
           /\ disk' = saved /\ saved' = NoFile /\ todo' = {} /\ accum' = NoTable
           /\ xact' = [xact EXCEPT ![b] = "none"]
           /\ hazard \subseteq hazard'
           /\ exists => "forked" \in hazard'
           /\ UNCHANGED <<exists, heap, committed, step, wrote, snap, used>>
  BY DEF AbortBuild

(* Drop starts when no one uses the index. *)
LEMMA DropFrame ==
    ASSUME NEW b \in Backends, Drop(b)
    PROVE  /\ \A c \in Backends : xact[c] = "none"
           /\ exists
           /\ xact' = [xact EXCEPT ![b] = "drop"]
           /\ UNCHANGED <<exists, disk, saved, heap, committed, step, wrote, snap, used, todo, accum, hazard>>
  BY DEF Drop, idle

(* ParallelBuild writes a file of its own. *)
LEMMA ParallelFrame ==
    ASSUME NEW b \in Backends, ParallelBuild(b)
    PROVE  /\ \A c \in Backends : xact[c] = "none"
           /\ xact' = [xact EXCEPT ![b] = "pbuilt"]
           /\ saved' = disk /\ disk'.segs = committed /\ docids(disk') = {}
           /\ disk'.pages = [c \in Rows |-> {}] /\ disk'.first_docid_page = InvalidBlockNumber
           /\ disk'.tstats = IF committed = {} THEN NoTable ELSE counts(committed)
           /\ exists => /\ hazard \subseteq hazard'
                        /\ registry # NoDp \/ (\E c \in Backends : cached(c)) => "forked" \in hazard'
           /\ ~exists => hazard' = {}
           /\ UNCHANGED <<exists, heap, committed, step, wrote, snap, shm, used, todo, accum>>
  <1>1. disk' = [NoFile EXCEPT !.segs = committed,
                               !.tstats = IF committed = {} THEN NoTable ELSE counts(committed)]
    BY DEF ParallelBuild
  <1>2. /\ disk'.segs = committed /\ docids(disk') = {}
        /\ disk'.pages = [c \in Rows |-> {}] /\ disk'.first_docid_page = InvalidBlockNumber
        /\ disk'.tstats = IF committed = {} THEN NoTable ELSE counts(committed)
    BY <1>1 DEF NoFile, docids, chain
  <1> QED BY <1>2 DEF ParallelBuild, idle

(* The fields of the file that Insert, InsertSpill, Spill and FinishBuild write. *)
LEMMA InsertDisk ==
    ASSUME TypeInv, NEW b \in Backends, NEW r \in Rows, Insert(b, r)
    PROVE  disk'.segs = disk.segs /\ disk'.tstats = disk.tstats
  <1>1. disk \in FileType /\ writer[b] \in PageType
    BY DEF TypeInv, Types
  <1>2. PICK page \in docid_pages(disk, writer[b], r) : disk' = store_docid(disk, page, r)
    BY DEF Insert
  <1>3. page \in Rows
    BY <1>1 DEF docid_pages, FileType, PageType
  <1>4. Stored(disk', disk, page, r)
    BY <1>1, <1>2, <1>3, StoreFields
  <1> QED BY <1>4 DEF Stored

(* The docid of an INSERT is on the chain that recovery reads, or astray on one that was cut
   off; the others stay where they are. *)
LEMMA InsertPages ==
    ASSUME TypeInv, PagesInv, NEW b \in Backends, NEW r \in Rows, Insert(b, r)
    PROVE  /\ docids(disk) \subseteq docids(disk') /\ docids(disk') \subseteq docids(disk) \cup {r}
           /\ disk.astray \subseteq disk'.astray /\ r \in docids(disk') \cup disk'.astray
           /\ PagesUsed(disk', heap')
  <1>1. disk \in FileType /\ writer[b] \in PageType /\ PagesUsed(disk, heap)
    BY DEF TypeInv, Types, PagesInv
  <1>2. PICK page \in docid_pages(disk, writer[b], r) : disk' = store_docid(disk, page, r)
    BY DEF Insert
  <1>3. r \notin heap /\ heap' = heap \cup {r} /\ disk.pages[r] = {}
    BY <1>1, InsertFrame DEF PagesUsed
  <1>4. PICK first \in PageType : first = disk.first_docid_page
    BY <1>1 DEF FileType
  <1>5. PICK pages \in [Rows -> SUBSET Rows] : pages = disk.pages
    BY <1>1 DEF FileType
  <1>6. /\ page \in Rows
        /\ page = r => first = InvalidBlockNumber
        /\ page = r \/ page \in heap
    <2>1. CASE page = IF first = InvalidBlockNumber THEN r ELSE first
      BY <1>1, <1>3, <1>4, <2>1, PageAssumption DEF PagesUsed, PageType
    <2>2. CASE page \in Rows /\ pages[page] # {}
      BY <1>1, <1>3, <1>5, <2>2 DEF PagesUsed
    <2> QED BY <1>4, <1>5, <2>1, <2>2 DEF docid_pages
  <1>7. /\ \A c \in Rows : disk'.pages[c] = IF c = page THEN pages[c] \cup {r} ELSE pages[c]
        /\ disk'.first_docid_page = IF page = r THEN r ELSE first
        /\ disk'.astray = IF page = r \/ page = first THEN disk.astray ELSE disk.astray \cup {r}
    <2>1. Stored(disk', disk, page, r)
      BY <1>1, <1>2, <1>6, StoreFields
    <2> QED BY <1>4, <1>5, <2>1 DEF Stored
  <1>8. docids(disk) = IF first = InvalidBlockNumber THEN {} ELSE pages[first]
    BY <1>4, <1>5 DEF docids, chain
  <1>9. docids(disk') = IF page = r THEN pages[r] \cup {r}
                        ELSE IF first = InvalidBlockNumber THEN {}
                        ELSE IF page = first THEN pages[first] \cup {r} ELSE pages[first]
    BY <1>6, <1>7, PageAssumption DEF docids, chain, PageType
  <1>10. PagesUsed(disk', heap')
    <2>1. disk'.first_docid_page \in heap' \cup {InvalidBlockNumber}
      BY <1>1, <1>3, <1>4, <1>7 DEF PagesUsed
    <2>2. ASSUME NEW c \in Rows
          PROVE  disk'.pages[c] \subseteq heap' /\ (c \notin heap' => disk'.pages[c] = {})
      <3>1. pages[c] \subseteq heap /\ (c \notin heap => pages[c] = {})
        BY <1>1, <1>5 DEF PagesUsed
      <3>2. disk'.pages[c] = IF c = page THEN pages[c] \cup {r} ELSE pages[c]
        BY <1>7
      <3> QED BY <1>3, <1>6, <3>1, <3>2
    <2> QED BY <2>1, <2>2 DEF PagesUsed
  <1>11. pages[r] = {}
    BY <1>3, <1>5
  <1>12. PICK old, new : old = docids(disk) /\ new = docids(disk')
    OBVIOUS
  <1>13. old \subseteq new /\ new \subseteq old \cup {r} /\ disk.astray \subseteq disk'.astray
         /\ r \in new \cup disk'.astray
    <2>1. CASE page = r
      BY <1>6, <1>7, <1>8, <1>9, <1>11, <1>12, <2>1
    <2>2. CASE page # r /\ page = first
      BY <1>6, <1>7, <1>8, <1>9, <1>12, <2>2, PageAssumption
    <2>3. CASE page # r /\ page # first
      BY <1>7, <1>8, <1>9, <1>12, <2>3
    <2> QED BY <2>1, <2>2, <2>3
  <1> QED BY <1>10, <1>12, <1>13

(* InsertSpill writes the memtable and its counts with the new row, whose docid is all there is
   on the new chain. *)
NewChain(g, f, r) ==
    /\ g.first_docid_page = r
    /\ \A c \in Rows : g.pages[c] = IF c = r THEN f.pages[c] \cup {r} ELSE f.pages[c]

LEMMA InsertSpillDisk ==
    ASSUME TypeInv, NEW b \in Backends, NEW r \in Rows, InsertSpill(b, r)
    PROVE  LET s == shm[cache[b].dp]
           IN  /\ disk'.segs = disk.segs \cup s.mem \cup {r}
               /\ disk'.tstats = plus(s.tstats, counts({r}))
               /\ disk'.astray = disk.astray
               /\ NewChain(disk', disk, r)
  <1>1. disk \in FileType /\ shm[cache[b].dp] \in StateType
    BY InsertSpillShm DEF TypeInv, Types
  <1>2. PICK s \in StateType : s = shm[cache[b].dp]
    BY <1>1
  <1>3. PICK t \in StateType : t = added(s, r)
    BY AddedFields
  <1>4. t.mem = s.mem \cup {r} /\ t.tstats = plus(s.tstats, counts({r})) /\ t.tstats # NoTable
    <2>1. t.tstats \in [Tenants -> Nat]
      BY <1>3, AddedFields
    <2>2. PICK x : x = t.tstats
      OBVIOUS
    <2>3. PICK q \in Rows : q = r
      OBVIOUS
    <2>4. NoTable \notin [Tenants -> Nat]
      <3>1. TenantOf[q] \in Tenants
        BY TenantAssumption
      <3>2. NoTable[TenantOf[q]] = -1
        BY <3>1 DEF NoTable
      <3> QED BY <3>1, <3>2
    <2> QED BY <1>3, <2>1, <2>4, AddedFields
  <1>5. PICK g \in FileType : g = spilled(disk, t)
    BY <1>1, SpilledFields
  <1>6. /\ g.segs = disk.segs \cup t.mem /\ g.tstats = t.tstats
        /\ g.pages = disk.pages /\ g.astray = disk.astray
    BY <1>1, <1>4, <1>5, SpilledFields
  <1>7. PICK f \in FileType : f = [g EXCEPT !.first_docid_page = InvalidBlockNumber]
    BY CutFields
  <1>8. /\ f.segs = g.segs /\ f.tstats = g.tstats /\ f.pages = g.pages /\ f.astray = g.astray
    BY <1>7, CutFields
  <1>9. disk' = store_docid(f, r, r)
    BY <1>2, <1>3, <1>5, <1>7 DEF InsertSpill, state
  <1>10. /\ disk'.segs = f.segs /\ disk'.tstats = f.tstats /\ disk'.astray = f.astray
         /\ disk'.first_docid_page = r
         /\ \A c \in Rows : disk'.pages[c] = IF c = r THEN f.pages[c] \cup {r} ELSE f.pages[c]
    <2>1. Stored(disk', f, r, r)
      BY <1>9, StoreFields
    <2> QED BY <2>1 DEF Stored
  <1>11. NewChain(disk', disk, r)
    BY <1>6, <1>8, <1>10 DEF NewChain
  <1> QED BY <1>2, <1>4, <1>6, <1>8, <1>10, <1>11

(* The new chain has the new row only. *)
LEMMA InsertSpillPages ==
    ASSUME TypeInv, PagesInv, NEW b \in Backends, NEW r \in Rows, InsertSpill(b, r)
    PROVE  docids(disk') = {r} /\ PagesUsed(disk', heap')
  <1>1. PICK pages \in [Rows -> SUBSET Rows] : pages = disk.pages
    BY DEF TypeInv, Types, FileType
  <1>2. r \notin heap /\ heap' = heap \cup {r} /\ pages[r] = {}
        /\ \A c \in Rows : pages[c] \subseteq heap /\ (c \notin heap => pages[c] = {})
    BY <1>1, InsertSpillFrame DEF PagesInv, PagesUsed
  <1>3. /\ disk'.first_docid_page = r
        /\ \A c \in Rows : disk'.pages[c] = IF c = r THEN {r} ELSE pages[c]
    <2>1. NewChain(disk', disk, r)
      BY InsertSpillDisk
    <2> QED BY <1>1, <1>2, <2>1 DEF NewChain
  <1>4. docids(disk') = {r}
    BY <1>3, PageAssumption DEF docids, chain
  <1>5. \A c \in Rows : disk'.pages[c] \subseteq heap' /\ (c \notin heap' => disk'.pages[c] = {})
    BY <1>2, <1>3
  <1> QED BY <1>2, <1>3, <1>4, <1>5 DEF PagesUsed

(* Spill moves the memtable to a segment and writes the counts; the docid chain stays. *)
LEMMA SpillDisk ==
    ASSUME TypeInv, NEW b \in Backends, Spill(b)
    PROVE  LET s == shm[cache[b].dp]
           IN  /\ disk'.segs = disk.segs \cup s.mem /\ docids(disk') = docids(disk)
               /\ disk'.tstats = IF s.tstats = NoTable THEN disk.tstats ELSE s.tstats
               /\ disk'.astray = disk.astray /\ disk'.pages = disk.pages
               /\ disk'.first_docid_page = disk.first_docid_page
  <1>1. disk \in FileType /\ shm[cache[b].dp] \in StateType
    BY SpillShm DEF TypeInv, Types
  <1>2. disk' = spilled(disk, shm[cache[b].dp])
    BY DEF Spill, state
  <1> QED BY <1>1, <1>2, SpilledFields

(* FinishBuild spills what the builder has in memory and writes its counts. *)
LEMMA FinishDisk ==
    ASSUME TypeInv, NEW b \in Backends, FinishBuild(b)
    PROVE  LET s == shm[cache[b].dp]
           IN  /\ disk'.segs = disk.segs \cup s.mem /\ docids(disk') = docids(disk)
               /\ disk'.tstats = IF s.tstats = NoTable THEN disk.tstats ELSE s.tstats
               /\ disk'.pages = disk.pages /\ disk'.first_docid_page = disk.first_docid_page
  <1>1. disk \in FileType /\ shm[cache[b].dp] \in StateType
    BY FinishShm DEF TypeInv, Types
  <1>2. disk' = spilled(disk, shm[cache[b].dp])
    BY DEF FinishBuild, state
  <1> QED BY <1>1, <1>2, SpilledFields

-----------------------------------------------------------------------------
(* The memory that backends may use. *)

(* What a step starts from, apart from the types of states and files. *)
LEMMA Base ==
    ASSUME TypeInv
    PROVE  /\ CallInv
           /\ xact \in [Backends -> {"none", "dml", "build", "built", "pbuilt", "drop"}]
           /\ step \in [Backends -> {"idle", "lookup", "missed", "reload", "ready"}]
           /\ \A b \in Backends : xact[b] = "dml" <=> step[b] # "idle"
           /\ \A b \in Backends : cached(b) => cache[b].dp \in 1 .. MaxStates /\ cache[b].dp # used + 1
           /\ registry # NoDp => registry \in 1 .. MaxStates /\ registry # used + 1
           /\ cache \in [Backends -> CacheType]
           /\ \A b \in Backends : cache[b].kind \in {"absent", "null", "entry"}
  <1>1. \A b \in Backends : cache[b].kind \in {"absent", "null", "entry"}
    BY DEF TypeInv, Types, CacheType
  <1> QED BY <1>1, BoundsAssumption DEF TypeInv, TypeOK, Types, NoDp

(* The registered state stays alive. *)
LEMMA RegLiveStep ==
    ASSUME TypeInv, MemInv, [Next]_vars
    PROVE  RegLive'
  <1>0. CallInv
    BY Base
  <1> USE Base DEF MemInv, RegLive, CallInv, cached
  <1>1. CASE Restart
    BY <1>1, <1>0, CacheFields DEF Restart, idle
  <1>2. ASSUME NEW b \in Backends, BeginUse(b) PROVE RegLive'
    BY <1>2, <1>0 DEF BeginUse, no_ddl
  <1>3. ASSUME NEW b \in Backends, UseCached(b) PROVE RegLive'
    BY <1>3, <1>0 DEF UseCached
  <1>4. ASSUME NEW b \in Backends, Attach(b) PROVE RegLive'
    BY <1>4, <1>0, AttachFrame, AttachCache, AttachShm
  <1>5. ASSUME NEW b \in Backends, LookupMiss(b) PROVE RegLive'
    BY <1>5, <1>0 DEF LookupMiss
  <1>6. ASSUME NEW b \in Backends, CreateSharedState(b) PROVE RegLive'
    BY <1>6, CreateFrame, CreateShm
  <1>7. ASSUME NEW b \in Backends, ReloadFromDocids(b) PROVE RegLive'
    BY <1>7, <1>0, ReloadFrame, ReloadShm
  <1>8. ASSUME NEW b \in Backends, NEW r \in Rows, Insert(b, r) PROVE RegLive'
    <2>1. registry' = registry /\ xact' = xact
      BY <1>8, InsertFrame
    <2>2. registry # NoDp => shm'[registry].status = shm[registry].status
                             /\ shm'[registry].private = shm[registry].private
      BY <1>8, InsertShm, ZenonT(60)
    <2> QED BY <2>1, <2>2
  <1>22. ASSUME NEW b \in Backends, NEW r \in Rows, InsertSpill(b, r) PROVE RegLive'
    <2>1. registry' = registry /\ xact' = xact
      BY <1>22, InsertSpillFrame
    <2>2. registry # NoDp => shm'[registry].status = shm[registry].status
                             /\ shm'[registry].private = shm[registry].private
      BY <1>22, InsertSpillShm, ZenonT(60)
    <2> QED BY <2>1, <2>2
  <1>9. ASSUME NEW b \in Backends, Spill(b) PROVE RegLive'
    BY <1>9, <1>0, SpillFrame, SpillShm
  <1>10. ASSUME NEW b \in Backends, NEW c \in BOOLEAN, EndUse(b, c) PROVE RegLive'
    BY <1>10, <1>0 DEF EndUse
  <1>11. ASSUME NEW b \in Backends, EndSession(b) PROVE RegLive'
    BY <1>11, <1>0, EndSessionCache, CacheFields DEF EndSession
  <1>12. ASSUME NEW b \in Backends, StartBuild(b) PROVE RegLive'
    <2>1. registry' = used + 1 /\ xact'[b] = "build"
      BY <1>12, StartFrame
    <2> QED BY <1>12, <2>1, StartShm
  <1>13. ASSUME NEW b \in Backends, BuildDocument(b) PROVE RegLive'
    <2>1. registry' = registry /\ xact' = xact /\ xact[b] = "build"
      BY <1>13, DocumentFrame
    <2>2. shm'[registry].status = "live" \/ shm'[registry].status = shm[registry].status
      BY <1>13, DocumentShm
    <2> QED BY <2>1, <2>2
  <1>14. ASSUME NEW b \in Backends, FinishBuild(b) PROVE RegLive'
    <2>1. registry' = registry
      BY <1>14, FinishFrame
    <2>2. shm'[registry].status = "live" /\ ~shm'[registry].private
      BY <1>14, FinishShm
    <2> QED BY <2>1, <2>2
  <1>15. ASSUME NEW b \in Backends, ParallelBuild(b) PROVE RegLive'
    BY <1>15, <1>0, ParallelCache, CacheFields DEF ParallelBuild, idle
  <1>16. ASSUME NEW b \in Backends, CommitBuild(b) PROVE RegLive'
    BY <1>16, <1>0 DEF CommitBuild
  <1>17. ASSUME NEW b \in Backends, AbortBuild(b) PROVE RegLive'
    BY <1>17, <1>0, AbortFrame, AbortCache, AbortShm, CacheFields
  <1>18. ASSUME NEW b \in Backends, RollbackBuilt(b) PROVE RegLive'
    BY <1>18, <1>0 DEF RollbackBuilt
  <1>19. ASSUME NEW b \in Backends, Drop(b) PROVE RegLive'
    BY <1>19, <1>0, DropFrame, DropCache, DropShm, CacheFields
  <1>20. ASSUME NEW b \in Backends, NEW c \in BOOLEAN, EndDrop(b, c) PROVE RegLive'
    BY <1>20, <1>0 DEF EndDrop, others_cached
  <1>21. CASE UNCHANGED vars
    BY <1>21 DEF vars
  <1> QED BY <1>1, <1>2, <1>3, <1>4, <1>5, <1>6, <1>7, <1>8, <1>9, <1>10, <1>11, <1>12, <1>13, <1>14, <1>15, <1>16, <1>17, <1>18, <1>19, <1>20, <1>21, <1>22 DEF Next, Access

(* The cached states stay alive. *)
LEMMA CacheLiveStep ==
    ASSUME TypeInv, MemInv, [Next]_vars
    PROVE  CacheLive'
  <1>0. CallInv
    BY Base
  <1> USE Base DEF MemInv, CacheLive, CallInv, cached, Building
  <1>1. CASE Restart
    BY <1>1, <1>0, CacheFields DEF Restart, idle
  <1>2. ASSUME NEW b \in Backends, BeginUse(b) PROVE CacheLive'
    BY <1>2, <1>0 DEF BeginUse, no_ddl
  <1>3. ASSUME NEW b \in Backends, UseCached(b) PROVE CacheLive'
    BY <1>3, <1>0 DEF UseCached
  <1>4. ASSUME NEW b \in Backends, Attach(b) PROVE CacheLive'
    <2>1. /\ xact' = xact /\ exists' = exists /\ hazard \subseteq hazard'
          /\ step[b] = "lookup" /\ registry # NoDp
      BY <1>4, AttachFrame
    <2>2. xact[b] = "dml" /\ \A c \in Backends : xact[c] # "build"
      BY <2>1
    <2>3. shm[registry].status = "live" /\ ~shm[registry].private
      BY <2>1, <2>2 DEF RegLive
    <2> SUFFICES ASSUME exists \/ Building, "drop_rolled_back" \notin hazard,
                        NEW c \in Backends, cached(c)', \A d \in Backends \ {c} : xact[d] # "drop"
                 PROVE  /\ shm'[cache'[c].dp].status = "live"
                        /\ shm'[cache'[c].dp].private => xact[c] = "build"
      BY <2>1
    <2>4. CASE c = b
      BY <1>4, <2>1, <2>3, <2>4, AttachCache, AttachShm
    <2>5. CASE c # b
      BY <1>4, <2>5, AttachCache, AttachShm
    <2> QED BY <2>4, <2>5
  <1>5. ASSUME NEW b \in Backends, LookupMiss(b) PROVE CacheLive'
    BY <1>5, <1>0 DEF LookupMiss
  <1>6. ASSUME NEW b \in Backends, CreateSharedState(b) PROVE CacheLive'
    <2>1. xact' = xact /\ exists' = exists /\ hazard \subseteq hazard'
      BY <1>6, CreateFrame
    <2> SUFFICES ASSUME exists \/ Building, "drop_rolled_back" \notin hazard,
                        NEW c \in Backends, cached(c)', \A d \in Backends \ {c} : xact[d] # "drop"
                 PROVE  /\ shm'[cache'[c].dp].status = "live"
                        /\ shm'[cache'[c].dp].private => xact[c] = "build"
      BY <2>1
    <2>4. CASE c = b
      BY <1>6, <2>4, CreateCache, CreateShm
    <2>5. CASE c # b
      BY <1>6, <2>5, CreateCache, CreateShm
    <2> QED BY <2>4, <2>5
  <1>7. ASSUME NEW b \in Backends, ReloadFromDocids(b) PROVE CacheLive'
    BY <1>7, <1>0, ReloadFrame, ReloadShm
  <1>8. ASSUME NEW b \in Backends, NEW r \in Rows, Insert(b, r) PROVE CacheLive'
    <2>1. /\ xact' = xact /\ exists' = exists /\ hazard \subseteq hazard' /\ cache' = cache
      BY <1>8, InsertFrame
    <2>2. \A c \in Backends : cached(c) =>
            /\ shm'[cache[c].dp].status = shm[cache[c].dp].status
            /\ shm'[cache[c].dp].private = shm[cache[c].dp].private
      <3>1. CASE cached(b)
        <4>1. \A p \in 1 .. MaxStates :
                shm'[p].status = shm[p].status /\ shm'[p].private = shm[p].private
          BY <1>8, <3>1, InsertShm, ZenonT(60)
        <4> QED BY <4>1
      <3>2. CASE ~cached(b)
        BY <1>8, <3>2, InsertShm
      <3> QED BY <3>1, <3>2
    <2> QED BY <2>1, <2>2
  <1>22. ASSUME NEW b \in Backends, NEW r \in Rows, InsertSpill(b, r) PROVE CacheLive'
    <2>1. /\ xact' = xact /\ exists' = exists /\ hazard \subseteq hazard' /\ cache' = cache
      BY <1>22, InsertSpillFrame
    <2>2. \A p \in 1 .. MaxStates :
            shm'[p].status = shm[p].status /\ shm'[p].private = shm[p].private
      BY <1>22, InsertSpillShm, ZenonT(60)
    <2> QED BY <2>1, <2>2
  <1>9. ASSUME NEW b \in Backends, Spill(b) PROVE CacheLive'
    BY <1>9, <1>0, SpillFrame, SpillShm
  <1>10. ASSUME NEW b \in Backends, NEW c \in BOOLEAN, EndUse(b, c) PROVE CacheLive'
    BY <1>10, <1>0 DEF EndUse
  <1>11. ASSUME NEW b \in Backends, EndSession(b) PROVE CacheLive'
    BY <1>11, <1>0, EndSessionCache, CacheFields DEF EndSession
  <1>12. ASSUME NEW b \in Backends, StartBuild(b) PROVE CacheLive'
    <2>1. /\ xact' = [xact EXCEPT ![b] = "build"] /\ exists' = exists
          /\ \A c \in Backends : xact[c] = "none"
          /\ exists => hazard \subseteq hazard'
      BY <1>12, StartFrame
    <2> SUFFICES ASSUME "drop_rolled_back" \notin hazard', NEW c \in Backends, cached(c)'
                 PROVE  /\ shm'[cache'[c].dp].status = "live"
                        /\ shm'[cache'[c].dp].private => xact'[c] = "build"
      OBVIOUS
    <2>4. CASE c = b
      BY <1>12, <2>1, <2>4, StartCache, StartShm
    <2>5. CASE c # b
      <3>1. exists /\ cache'[c] = cache[c]
        BY <1>12, <2>5, StartCache, CacheFields
      <3>2. shm'[cache[c].dp] = shm[cache[c].dp]
        BY <1>12, <3>1, StartShm
      <3> QED BY <2>1, <2>5, <3>1, <3>2
    <2> QED BY <2>4, <2>5
  <1>13. ASSUME NEW b \in Backends, BuildDocument(b) PROVE CacheLive'
    <2>1. /\ xact' = xact /\ exists' = exists /\ hazard' = hazard /\ cache' = cache /\ xact[b] = "build"
      BY <1>13, DocumentFrame
    <2>2. \A c \in Backends \ {b} : cached(c) => shm'[cache[c].dp] = shm[cache[c].dp]
      <3>1. \A p \in 1 .. MaxStates : p # registry => shm'[p] = shm[p]
        BY <1>13, DocumentShm
      <3> QED BY <2>1, <3>1
    <2>3. shm'[cache[b].dp].status = "live" \/ shm'[cache[b].dp].status = shm[cache[b].dp].status
      BY <1>13, DocumentShm
    <2> QED BY <2>1, <2>2, <2>3
  <1>14. ASSUME NEW b \in Backends, FinishBuild(b) PROVE CacheLive'
    <2>1. /\ xact' = [xact EXCEPT ![b] = "built"] /\ xact[b] = "build" /\ exists' = exists
          /\ hazard \subseteq hazard'
      BY <1>14, FinishFrame
    <2>2. shm'[cache'[b].dp].status = "live" /\ ~shm'[cache'[b].dp].private
      BY <1>14, FinishShm, FinishCache
    <2>3. \A c \in Backends \ {b} :
            /\ cache'[c] = cache[c]
            /\ cached(c) => shm'[cache[c].dp] = shm[cache[c].dp]
      BY <1>14, <2>1, FinishShm, FinishCache
    <2> SUFFICES ASSUME "drop_rolled_back" \notin hazard', NEW c \in Backends, cached(c)'
                 PROVE  /\ shm'[cache'[c].dp].status = "live"
                        /\ shm'[cache'[c].dp].private => xact'[c] = "build"
      OBVIOUS
    <2>4. \A d \in Backends : xact[d] # "drop"
      BY <2>1
    <2>5. CASE c = b
      BY <2>2, <2>5
    <2>6. CASE c # b
      <3>1. cached(c) /\ cache'[c] = cache[c] /\ shm'[cache[c].dp] = shm[cache[c].dp]
        <4>1. cache'[c] = cache[c]
          BY <2>3, <2>6
        <4>2. cached(c)
          BY <4>1
        <4> QED BY <2>3, <2>6, <4>1, <4>2
      <3>2. Building /\ "drop_rolled_back" \notin hazard /\ xact'[c] = xact[c]
        BY <2>1, <2>6
      <3> QED BY <2>4, <3>1, <3>2
    <2> QED BY <2>5, <2>6
  <1>15. ASSUME NEW b \in Backends, ParallelBuild(b) PROVE CacheLive'
    BY <1>15, <1>0, ParallelCache, CacheFields DEF ParallelBuild, idle
  <1>16. ASSUME NEW b \in Backends, CommitBuild(b) PROVE CacheLive'
    BY <1>16, <1>0 DEF CommitBuild
  <1>17. ASSUME NEW b \in Backends, AbortBuild(b) PROVE CacheLive'
    BY <1>17, <1>0, AbortFrame, AbortCache, AbortShm, CacheFields
  <1>18. ASSUME NEW b \in Backends, RollbackBuilt(b) PROVE CacheLive'
    BY <1>18, <1>0 DEF RollbackBuilt
  <1>19. ASSUME NEW b \in Backends, Drop(b) PROVE CacheLive'
    BY <1>19, <1>0, DropFrame, DropCache, DropShm, CacheFields
  <1>20. ASSUME NEW b \in Backends, NEW c \in BOOLEAN, EndDrop(b, c) PROVE CacheLive'
    <2>1. /\ xact[b] = "drop" /\ xact' = [xact EXCEPT ![b] = "none"] /\ cache' = cache /\ shm' = shm
          /\ hazard \subseteq hazard'
          /\ exists' <=> ~c
          /\ ~c /\ others_cached(b) => "drop_rolled_back" \in hazard'
      BY <1>20 DEF EndDrop
    <2>2. ~Building'
      BY <2>1
    <2>3. CASE ~c /\ ~others_cached(b)
      <3>1. \A d \in Backends \ {b} : ~cached(d) /\ xact[d] = "none"
        BY <2>1, <2>3 DEF others_cached
      <3>2. exists
        BY <2>1
      <3> QED BY <2>1, <3>1, <3>2
    <2>4. CASE ~(~c /\ ~others_cached(b))
      BY <2>1, <2>2, <2>4
    <2> QED BY <2>3, <2>4
  <1>21. CASE UNCHANGED vars
    BY <1>21 DEF vars
  <1> QED BY <1>1, <1>2, <1>3, <1>4, <1>5, <1>6, <1>7, <1>8, <1>9, <1>10, <1>11, <1>12, <1>13, <1>14, <1>15, <1>16, <1>17, <1>18, <1>19, <1>20, <1>21, <1>22 DEF Next, Access
(* The memory that backends use or may find is alive and theirs to use, initially. *)
LEMMA MemInit ==
    Init => MemInv
  BY CacheFields DEF Init, MemInv, RegLive, CacheLive, Building, cached

(* Whatever memory a backend uses or may still find is live and can be addressed by it:
   freed memory and the private memtable of a build are never handed out, unless a DROP was
   rolled back while somebody had the index cached. *)
THEOREM MemorySafe ==
    Spec => []MemoryUsable
  <1>1. TypeInv /\ MemInv /\ [Next]_vars => MemInv'
    BY RegLiveStep, CacheLiveStep DEF MemInv
  <1>2. TypeInv /\ MemInv => MemoryUsable
    <2> SUFFICES ASSUME TypeInv, MemInv PROVE MemoryUsable
      OBVIOUS
    <2> USE Base DEF CallInv, MemInv
    <2>1. RegistryUsable
      BY DEF RegistryUsable, RegLive, no_ddl
    <2>2. NoFreedUse
      BY DEF NoFreedUse, CacheLive, state, cached
    <2> QED BY <2>1, <2>2 DEF MemoryUsable
  <1> QED BY <1>1, <1>2, MemInit, TypeAlways, PTL DEF Spec

-----------------------------------------------------------------------------
(* One memtable. *)

(* The sharing is preserved. *)
LEMMA ShareStep ==
    ASSUME TypeInv, ShareInv, [Next]_vars
    PROVE  ShareInv'
  <1>0. CallInv
    BY Base
  <1> USE Base DEF ShareInv, CallInv, cached, Building, Undisturbed
  <1>1. CASE Restart
    BY <1>1, <1>0, CacheFields DEF Restart, idle
  <1>2. ASSUME NEW b \in Backends, BeginUse(b) PROVE ShareInv'
    BY <1>2, <1>0 DEF BeginUse, no_ddl
  <1>3. ASSUME NEW b \in Backends, UseCached(b) PROVE ShareInv'
    BY <1>3, <1>0 DEF UseCached
  <1>4. ASSUME NEW b \in Backends, Attach(b) PROVE ShareInv'
    BY <1>4, <1>0, AttachFrame, AttachCache, AttachShm
  <1>5. ASSUME NEW b \in Backends, LookupMiss(b) PROVE ShareInv'
    BY <1>5, <1>0 DEF LookupMiss
  <1>6. ASSUME NEW b \in Backends, CreateSharedState(b) PROVE ShareInv'
    <2>1. /\ step[b] = "missed" /\ registry' = used + 1 /\ hazard \subseteq hazard'
          /\ exists' = exists /\ xact' = xact /\ disk' = disk
          /\ others_cached(b) => "forked" \in hazard'
          /\ \/ step' = [step EXCEPT ![b] = "ready"] /\ snap' = snap
             \/ step' = [step EXCEPT ![b] = "reload"] /\ snap' = [snap EXCEPT ![b] = disk.first_docid_page]
      BY <1>6, CreateFrame
    <2> SUFFICES ASSUME Undisturbed', exists' \/ Building'
                 PROVE  ShareInv'
      BY DEF ShareInv
    <2>2. /\ \A c \in Backends \ {b} : ~cached(c) /\ cache'[c] = cache[c]
          /\ cache'[b].kind = "entry" /\ cache'[b].dp = used + 1
          /\ shm'[used + 1].mem = {} /\ shm'[used + 1].tstats = NoTable
      BY <1>6, <2>1, CreateCache, CreateShm DEF others_cached
    <2>3. Undisturbed /\ (exists \/ Building) /\ xact[b] = "dml"
      BY <2>1
    <2>4. \A c \in Backends : cache'[c].kind # "null"
      BY <2>2, <2>3
    <2>5. \A c \in Backends \ {b} : ~cached(c)' /\ step'[c] # "reload"
      BY <2>1, <2>2
    <2>6. \A c \in Backends : xact'[c] # "drop" /\ xact'[c] # "pbuilt"
      BY <2>1, <2>3
    <2>7. step'[b] = "reload" => snap'[b] = disk'.first_docid_page
      BY <2>1, FieldTypes DEF TypeInv, Types
    <2> QED BY <2>1, <2>2, <2>4, <2>5, <2>6, <2>7
  <1>7. ASSUME NEW b \in Backends, ReloadFromDocids(b) PROVE ShareInv'
    BY <1>7, <1>0, ReloadFrame, ReloadShm
  <1>8. ASSUME NEW b \in Backends, NEW r \in Rows, Insert(b, r) PROVE ShareInv'
    <2>1. /\ step[b] = "ready" /\ hazard \subseteq hazard' /\ exists' = exists /\ xact' = xact
          /\ cache' = cache /\ registry' = registry /\ step' = step /\ snap' = snap
      BY <1>8, InsertFrame
    <2>2. Undisturbed' /\ (exists' \/ Building') => \A c \in Backends : step[c] # "reload"
      <3>1. Undisturbed' /\ (exists' \/ Building') => Undisturbed /\ (exists \/ Building)
        BY <2>1
      <3>2. Undisturbed /\ (exists \/ Building) => cached(b)
        BY <2>1
      <3> QED BY <2>1, <3>1, <3>2
    <2> QED BY <2>1, <2>2
  <1>22. ASSUME NEW b \in Backends, NEW r \in Rows, InsertSpill(b, r) PROVE ShareInv'
    <2>1. /\ step[b] = "ready" /\ hazard \subseteq hazard' /\ exists' = exists /\ xact' = xact
          /\ cache' = cache /\ registry' = registry /\ step' = step /\ snap' = snap /\ cached(b)
      BY <1>22, InsertSpillFrame
    <2>2. Undisturbed' /\ (exists' \/ Building') => \A c \in Backends : step[c] # "reload"
      BY <2>1
    <2> QED BY <2>1, <2>2
  <1>9. ASSUME NEW b \in Backends, Spill(b) PROVE ShareInv'
    BY <1>9, <1>0, SpillFrame, SpillShm
  <1>10. ASSUME NEW b \in Backends, NEW c \in BOOLEAN, EndUse(b, c) PROVE ShareInv'
    <2>1. /\ xact[b] = "dml" /\ xact' = [xact EXCEPT ![b] = "none"] /\ step' = [step EXCEPT ![b] = "idle"]
          /\ UNCHANGED <<exists, disk, snap, registry, shm, cache, hazard>>
      BY <1>10 DEF EndUse
    <2> QED BY <2>1
  <1>11. ASSUME NEW b \in Backends, EndSession(b) PROVE ShareInv'
    BY <1>11, <1>0, EndSessionCache, CacheFields DEF EndSession
  <1>12. ASSUME NEW b \in Backends, StartBuild(b) PROVE ShareInv'
    BY <1>12, <1>0, StartFrame, StartCache, StartShm, CacheFields DEF others_cached
  <1>13. ASSUME NEW b \in Backends, BuildDocument(b) PROVE ShareInv'
    BY <1>13, <1>0, DocumentFrame
  <1>14. ASSUME NEW b \in Backends, FinishBuild(b) PROVE ShareInv'
    BY <1>14, <1>0, FinishFrame, FinishCache
  <1>15. ASSUME NEW b \in Backends, ParallelBuild(b) PROVE ShareInv'
    <2>1. /\ \A c \in Backends : xact[c] = "none"
          /\ exists' = exists /\ xact' = [xact EXCEPT ![b] = "pbuilt"] /\ step' = step
          /\ exists => /\ hazard \subseteq hazard'
                       /\ registry # NoDp \/ (\E c \in Backends : cached(c)) => "forked" \in hazard'
      BY <1>15, ParallelFrame
    <2> SUFFICES ASSUME Undisturbed' PROVE ShareInv'
      BY <2>1
    <2>2. \A c \in Backends : cache'[c].kind # "null" /\ ~cached(c)' /\ step'[c] # "reload"
      BY <1>15, <2>1, ParallelCache, CacheFields
    <2>3. registry' = NoDp /\ \A c \in Backends : xact'[c] # "drop"
      BY <1>15, <2>1, ParallelCache
    <2> QED BY <2>2, <2>3
  <1>16. ASSUME NEW b \in Backends, CommitBuild(b) PROVE ShareInv'
    BY <1>16, <1>0 DEF CommitBuild
  <1>17. ASSUME NEW b \in Backends, AbortBuild(b) PROVE ShareInv'
    BY <1>17, <1>0, AbortFrame, AbortCache, CacheFields
  <1>18. ASSUME NEW b \in Backends, RollbackBuilt(b) PROVE ShareInv'
    BY <1>18, <1>0 DEF RollbackBuilt
  <1>19. ASSUME NEW b \in Backends, Drop(b) PROVE ShareInv'
    <2>1. /\ \A c \in Backends : xact[c] = "none"
          /\ exists /\ exists' = exists /\ xact' = [xact EXCEPT ![b] = "drop"] /\ step' = step
          /\ hazard' = hazard /\ registry' = NoDp
      BY <1>19, DropFrame, DropCache
    <2> SUFFICES ASSUME Undisturbed PROVE ShareInv'
      BY <2>1
    <2>2. \A c \in Backends : cache'[c].kind # "null" /\ step'[c] # "reload"
      BY <1>19, <2>1, DropCache, CacheFields
    <2>3. ~cached(b)'
      <3>1. CASE registry # NoDp
        BY <1>19, <3>1, DropCache
      <3>2. CASE registry = NoDp
        <4>1. cached(b) => cache[b].dp # NoDp
          BY DEF TypeInv, TypeOK
        <4>2. ~cached(b)
          BY <2>1, <3>2, <4>1
        <4> QED BY <1>19, <3>2, <4>2, DropCache
      <3> QED BY <3>1, <3>2
    <2>4. xact'[b] = "drop" /\ \A c \in Backends \ {b} : xact'[c] = "none"
      BY <2>1
    <2> QED BY <2>1, <2>2, <2>3, <2>4
  <1>20. ASSUME NEW b \in Backends, NEW c \in BOOLEAN, EndDrop(b, c) PROVE ShareInv'
    <2>1. /\ xact[b] = "drop" /\ xact' = [xact EXCEPT ![b] = "none"]
          /\ cache' = cache /\ step' = step /\ hazard \subseteq hazard' /\ registry' = registry
          /\ exists' <=> ~c
          /\ ~c /\ others_cached(b) => "drop_rolled_back" \in hazard'
      BY <1>20 DEF EndDrop
    <2>2. exists /\ \A d \in Backends \ {b} : xact[d] = "none"
      BY <2>1
    <2> SUFFICES ASSUME Undisturbed', exists' \/ Building'
                 PROVE  ShareInv'
      BY DEF ShareInv
    <2>3. Undisturbed /\ ~others_cached(b)
      BY <2>1, <2>2
    <2>4. \A d \in Backends : ~cached(d)' /\ cache'[d].kind # "null"
      BY <2>1, <2>2, <2>3 DEF others_cached
    <2>5. \A d \in Backends : xact'[d] = "none" /\ step'[d] # "reload"
      BY <2>1, <2>2
    <2> QED BY <2>1, <2>4, <2>5
  <1>21. CASE UNCHANGED vars
    BY <1>21 DEF vars
  <1> HIDE DEF ShareInv, CallInv, cached, Building, Undisturbed
  <1> QED BY <1>1, <1>2, <1>3, <1>4, <1>5, <1>6, <1>7, <1>8, <1>9, <1>10, <1>11, <1>12, <1>13, <1>14, <1>15, <1>16, <1>17, <1>18, <1>19, <1>20, <1>21, <1>22 DEF Next, Access
(* Unless a state was replaced under a cached entry, or attached to before its documents were
   reloaded, all backends that have the index cached share the registered memtable. *)
THEOREM SharedMemtable ==
    Spec => []OneMemtable
  <1>1. Init => ShareInv
    BY DEF Init, ShareInv, Building
  <1>2. TypeInv /\ ShareInv /\ [Next]_vars => ShareInv'
    BY ShareStep
  <1>3. ShareInv => OneMemtable
    BY DEF ShareInv, OneMemtable, no_ddl
  <1> QED BY <1>1, <1>2, <1>3, TypeAlways, PTL DEF Spec

-----------------------------------------------------------------------------
(* The committed rows. *)

(* Undisturbed, a backend that is past the lookup works on the registered state, and nobody
   is reloading it. *)
LEMMA ReadyShares ==
    ASSUME TypeInv, ShareInv, Undisturbed, NEW b \in Backends, step[b] = "ready"
    PROVE  /\ cached(b) /\ cache[b].dp = registry /\ registry \in 1 .. MaxStates /\ registry # NoDp
           /\ exists /\ ~Building /\ ~Reloading
  <1> USE Base DEF CallInv
  <1>1. xact[b] = "dml" /\ exists /\ ~Building /\ \A c \in Backends : xact[c] # "drop"
    BY DEF Building
  <1>2. cached(b) /\ cache[b].dp = registry /\ registry \in 1 .. MaxStates
    BY <1>1 DEF ShareInv, cached
  <1>3. ~Reloading
    BY <1>1, <1>2 DEF ShareInv, Reloading
  <1> QED BY <1>1, <1>2, <1>3 DEF NoDp

(* Undisturbed, a backend that reloads works on the registered state, which is still empty,
   and on the file as it copied it; it is the only one. *)
LEMMA ReloadShares ==
    ASSUME TypeInv, ShareInv, Undisturbed, NEW b \in Backends, step[b] = "reload"
    PROVE  /\ cached(b) /\ cache[b].dp = registry /\ registry \in 1 .. MaxStates /\ registry # NoDp
           /\ shm[registry].mem = {} /\ shm[registry].tstats = NoTable
           /\ exists /\ ~Building /\ snap[b] = disk.first_docid_page
           /\ \A c \in Backends \ {b} : step[c] # "reload"
  <1> USE Base DEF CallInv
  <1>1. xact[b] = "dml" /\ exists /\ ~Building /\ \A c \in Backends : xact[c] # "drop"
    BY DEF Building
  <1>2. cached(b) /\ cache[b].dp = registry /\ registry \in 1 .. MaxStates
    BY <1>1 DEF ShareInv
  <1>3. \A c \in Backends \ {b} : step[c] # "reload"
    BY <1>1, <1>2 DEF ShareInv
  <1>4. snap[b] = disk.first_docid_page /\ shm[cache[b].dp].mem = {} /\ shm[cache[b].dp].tstats = NoTable
    BY <1>1 DEF ShareInv
  <1> QED BY <1>1, <1>2, <1>3, <1>4 DEF NoDp

(* The rows stay on disk. *)
LEMMA DiskInvStep ==
    ASSUME TypeInv, ShareInv, DataInv, PagesInv, [Next]_vars
    PROVE  DiskInv'
  <1> USE Base DEF DataInv, DiskInv, DocidsInv, SavedInv, BuildInv, CallInv, Building, Undisturbed
  <1>1. CASE Restart
    BY <1>1 DEF Restart, idle
  <1>2. ASSUME NEW b \in Backends, BeginUse(b) PROVE DiskInv'
    BY <1>2 DEF BeginUse, no_ddl
  <1>3. ASSUME NEW b \in Backends, UseCached(b) PROVE DiskInv'
    BY <1>3 DEF UseCached
  <1>4. ASSUME NEW b \in Backends, Attach(b) PROVE DiskInv'
    BY <1>4, AttachFrame, AttachShm
  <1>5. ASSUME NEW b \in Backends, LookupMiss(b) PROVE DiskInv'
    BY <1>5 DEF LookupMiss
  <1>6. ASSUME NEW b \in Backends, CreateSharedState(b) PROVE DiskInv'
    BY <1>6, CreateFrame, CreateShm
  <1>7. ASSUME NEW b \in Backends, ReloadFromDocids(b) PROVE DiskInv'
    BY <1>7, ReloadFrame, ReloadShm, ReloadShares
  <1>8. ASSUME NEW b \in Backends, NEW r \in Rows, Insert(b, r) PROVE DiskInv'
    <2>1. /\ hazard \subseteq hazard' /\ exists' = exists /\ xact' = xact /\ committed' = committed
          /\ wrote'[b] = wrote[b] \cup {r} /\ \A c \in Backends \ {b} : wrote'[c] = wrote[c]
      BY <1>8, InsertFrame DEF TypeInv, Types
    <2>2. disk.segs \cup docids(disk) \cup disk.astray \cup {r} \subseteq disk'.segs \cup docids(disk') \cup disk'.astray
      BY <1>8, InsertDisk, InsertPages
    <2>3. CASE Undisturbed' /\ exists' /\ ~Building'
      <3>1. /\ committed \subseteq disk.segs \cup docids(disk) \cup disk.astray
            /\ \A c \in Backends : wrote[c] \subseteq disk.segs \cup docids(disk) \cup disk.astray
        BY <2>1, <2>3
      <3> QED BY <2>1, <2>2, <3>1
    <2>4. CASE ~(Undisturbed' /\ exists' /\ ~Building')
      BY <2>4
    <2> QED BY <2>3, <2>4
  <1>22. ASSUME NEW b \in Backends, NEW r \in Rows, InsertSpill(b, r) PROVE DiskInv'
    <2>1. /\ hazard \subseteq hazard' /\ exists' = exists /\ xact' = xact /\ committed' = committed
          /\ wrote'[b] = wrote[b] \cup {r} /\ \A c \in Backends \ {b} : wrote'[c] = wrote[c]
          /\ step[b] = "ready"
      BY <1>22, InsertSpillFrame DEF TypeInv, Types
    <2>2. /\ disk'.segs = disk.segs \cup shm[cache[b].dp].mem \cup {r}
          /\ disk'.astray = disk.astray
      BY <1>22, InsertSpillDisk
    <2>3. CASE Undisturbed' /\ exists' /\ ~Building'
      <3>1. /\ cache[b].dp = registry /\ docids(disk) \subseteq shm[registry].mem \cup disk.segs
        BY <2>1, <2>3, ReadyShares
      <3>2. /\ committed \subseteq disk.segs \cup docids(disk) \cup disk.astray
            /\ \A c \in Backends : wrote[c] \subseteq disk.segs \cup docids(disk) \cup disk.astray
        BY <2>1, <2>3
      <3>3. disk.segs \cup docids(disk) \cup disk.astray \cup {r} \subseteq disk'.segs \cup disk'.astray
        BY <2>2, <3>1
      <3> QED BY <2>1, <3>2, <3>3
    <2>4. CASE ~(Undisturbed' /\ exists' /\ ~Building')
      BY <2>4
    <2> QED BY <2>3, <2>4
  <1>9. ASSUME NEW b \in Backends, Spill(b) PROVE DiskInv'
    <2>1. /\ hazard' = hazard /\ exists' = exists /\ xact' = xact /\ committed' = committed
          /\ wrote' = wrote
      BY <1>9, SpillFrame
    <2>2. disk.segs \cup docids(disk) \cup disk.astray \subseteq disk'.segs \cup docids(disk') \cup disk'.astray
      BY <1>9, SpillDisk
    <2> QED BY <2>1, <2>2
  <1>10. ASSUME NEW b \in Backends, NEW c \in BOOLEAN, EndUse(b, c) PROVE DiskInv'
    BY <1>10 DEF EndUse
  <1>11. ASSUME NEW b \in Backends, EndSession(b) PROVE DiskInv'
    BY <1>11 DEF EndSession
  <1>12. ASSUME NEW b \in Backends, StartBuild(b) PROVE DiskInv'
    <2>1. xact'[b] = "build"
      BY <1>12, StartFrame
    <2> QED BY <2>1
  <1>13. ASSUME NEW b \in Backends, BuildDocument(b) PROVE DiskInv'
    <2>1. xact'[b] = "build"
      BY <1>13, DocumentFrame
    <2> QED BY <2>1
  <1>14. ASSUME NEW b \in Backends, FinishBuild(b) PROVE DiskInv'
    <2>1. xact'[b] = "built"
      BY <1>14, FinishFrame
    <2> QED BY <2>1
  <1>15. ASSUME NEW b \in Backends, ParallelBuild(b) PROVE DiskInv'
    <2>1. xact'[b] = "pbuilt"
      BY <1>15, ParallelFrame
    <2> QED BY <2>1
  <1>16. ASSUME NEW b \in Backends, CommitBuild(b) PROVE DiskInv'
    BY <1>16 DEF CommitBuild
  <1>17. ASSUME NEW b \in Backends, AbortBuild(b) PROVE DiskInv'
    BY <1>17, AbortFrame, AbortShm
  <1>18. ASSUME NEW b \in Backends, RollbackBuilt(b) PROVE DiskInv'
    BY <1>18 DEF RollbackBuilt
  <1>19. ASSUME NEW b \in Backends, Drop(b) PROVE DiskInv'
    BY <1>19, DropFrame, DropShm
  <1>20. ASSUME NEW b \in Backends, NEW c \in BOOLEAN, EndDrop(b, c) PROVE DiskInv'
    BY <1>20 DEF EndDrop
  <1>21. CASE UNCHANGED vars
    BY <1>21 DEF vars
  <1> QED BY <1>1, <1>2, <1>3, <1>4, <1>5, <1>6, <1>7, <1>8, <1>9, <1>10, <1>11, <1>12, <1>13, <1>14, <1>15, <1>16, <1>17, <1>18, <1>19, <1>20, <1>21, <1>22 DEF Next, Access

(* The rows of the docid chain stay in memory. *)
LEMMA DocidsInvStep ==
    ASSUME TypeInv, ShareInv, DataInv, PagesInv, [Next]_vars
    PROVE  DocidsInv'
  <1> USE Base DEF DataInv, DocidsInv, BuildInv, Reloading, CallInv, Building, Undisturbed
  <1>1. CASE Restart
    BY <1>1 DEF Restart, idle
  <1>2. ASSUME NEW b \in Backends, BeginUse(b) PROVE DocidsInv'
    BY <1>2 DEF BeginUse, no_ddl
  <1>3. ASSUME NEW b \in Backends, UseCached(b) PROVE DocidsInv'
    BY <1>3 DEF UseCached
  <1>4. ASSUME NEW b \in Backends, Attach(b) PROVE DocidsInv'
    <2>1. /\ hazard \subseteq hazard' /\ exists' = exists /\ xact' = xact /\ disk' = disk /\ registry' = registry
          /\ registry # NoDp /\ step[b] = "lookup" /\ step' = [step EXCEPT ![b] = "ready"]
      BY <1>4, AttachFrame
    <2>2. ~Reloading' => ~Reloading
      BY <2>1
    <2>3. shm'[registry].mem = shm[registry].mem
      BY <1>4, <2>1, AttachShm
    <2> QED BY <2>1, <2>2, <2>3
  <1>5. ASSUME NEW b \in Backends, LookupMiss(b) PROVE DocidsInv'
    BY <1>5 DEF LookupMiss
  <1>6. ASSUME NEW b \in Backends, CreateSharedState(b) PROVE DocidsInv'
    <2>1. registry' = used + 1 /\ disk' = disk /\ shm'[used + 1].mem = {}
      BY <1>6, CreateFrame, CreateShm
    <2>2. docids(disk) = {} \/ step' = [step EXCEPT ![b] = "reload"]
      BY <1>6, CreateFrame DEF docids, chain
    <2>3. docids(disk) # {} => Reloading'
      BY <2>2
    <2> QED BY <2>1, <2>3
  <1>7. ASSUME NEW b \in Backends, ReloadFromDocids(b) PROVE DocidsInv'
    <2>1. /\ hazard \subseteq hazard' /\ exists' = exists /\ xact' = xact /\ disk' = disk /\ registry' = registry
          /\ step[b] = "reload"
      BY <1>7, ReloadFrame
    <2>2. CASE Undisturbed
      <3>1. snap[b] = disk.first_docid_page /\ cache[b].dp = registry
        BY <2>1, <2>2, ReloadShares
      <3>2. shm'[registry].mem = shm[registry].mem \cup docids(disk)
        <4>1. shm'[cache[b].dp].mem = shm[cache[b].dp].mem \cup chain(disk, snap[b])
          BY <1>7, ReloadShm, Zenon
        <4> QED BY <3>1, <4>1 DEF docids
      <3> QED BY <2>1, <3>2
    <2>3. CASE ~Undisturbed
      BY <2>1, <2>3
    <2> QED BY <2>2, <2>3
  <1>8. ASSUME NEW b \in Backends, NEW r \in Rows, Insert(b, r) PROVE DocidsInv'
    <2>1. /\ hazard \subseteq hazard' /\ exists' = exists /\ xact' = xact /\ registry' = registry
          /\ step' = step /\ step[b] = "ready"
          /\ disk'.segs = disk.segs /\ docids(disk') \subseteq docids(disk) \cup {r}
      BY <1>8, InsertFrame, InsertDisk, InsertPages
    <2>2. CASE Undisturbed
      <3>1. cached(b) /\ cache[b].dp = registry
        BY <2>1, <2>2, ReadyShares
      <3>2. shm'[registry].mem = shm[registry].mem \cup {r}
        BY <1>8, <3>1, InsertShm, ZenonT(60)
      <3> QED BY <2>1, <3>2
    <2>3. CASE ~Undisturbed
      BY <2>1, <2>3
    <2> QED BY <2>2, <2>3
  <1>22. ASSUME NEW b \in Backends, NEW r \in Rows, InsertSpill(b, r) PROVE DocidsInv'
    <2>1. docids(disk') = {r}
      BY <1>22, InsertSpillPages, Zenon
    <2>2. disk'.segs = disk.segs \cup shm[cache[b].dp].mem \cup {r}
      BY <1>22, InsertSpillDisk
    <2> QED BY <2>1, <2>2
  <1>9. ASSUME NEW b \in Backends, Spill(b) PROVE DocidsInv'
    <2>1. /\ hazard' = hazard /\ exists' = exists /\ xact' = xact /\ registry' = registry
          /\ step' = step /\ step[b] = "ready"
          /\ disk'.segs = disk.segs \cup shm[cache[b].dp].mem /\ docids(disk') = docids(disk)
      BY <1>9, SpillFrame, SpillDisk
    <2>2. CASE Undisturbed
      <3>1. cached(b) /\ cache[b].dp = registry
        BY <2>1, <2>2, ReadyShares
      <3> QED BY <2>1, <3>1
    <2>3. CASE ~Undisturbed
      BY <2>1, <2>3
    <2> QED BY <2>2, <2>3
  <1>10. ASSUME NEW b \in Backends, NEW c \in BOOLEAN, EndUse(b, c) PROVE DocidsInv'
    BY <1>10 DEF EndUse
  <1>11. ASSUME NEW b \in Backends, EndSession(b) PROVE DocidsInv'
    BY <1>11 DEF EndSession
  <1>12. ASSUME NEW b \in Backends, StartBuild(b) PROVE DocidsInv'
    BY <1>12, StartFrame, StartShm, FreshFields
  <1>13. ASSUME NEW b \in Backends, BuildDocument(b) PROVE DocidsInv'
    <2>1. xact'[b] = "build"
      BY <1>13, DocumentFrame
    <2> QED BY <2>1
  <1>14. ASSUME NEW b \in Backends, FinishBuild(b) PROVE DocidsInv'
    BY <1>14, FinishFrame, FinishShm, FinishDisk
  <1>15. ASSUME NEW b \in Backends, ParallelBuild(b) PROVE DocidsInv'
    BY <1>15, ParallelFrame, ParallelCache
  <1>16. ASSUME NEW b \in Backends, CommitBuild(b) PROVE DocidsInv'
    BY <1>16 DEF CommitBuild
  <1>17. ASSUME NEW b \in Backends, AbortBuild(b) PROVE DocidsInv'
    BY <1>17, AbortFrame, AbortShm
  <1>18. ASSUME NEW b \in Backends, RollbackBuilt(b) PROVE DocidsInv'
    <2>1. /\ hazard \subseteq hazard' /\ exists' = exists /\ registry' = registry
          /\ xact[b] \in {"built", "pbuilt"} /\ (exists /\ xact[b] = "built" => "forked" \in hazard')
      BY <1>18 DEF RollbackBuilt
    <2>2. Undisturbed /\ xact[b] = "pbuilt" => registry = NoDp
      BY DEF ShareInv
    <2> QED BY <2>1, <2>2
  <1>19. ASSUME NEW b \in Backends, Drop(b) PROVE DocidsInv'
    BY <1>19, DropFrame, DropShm
  <1>20. ASSUME NEW b \in Backends, NEW c \in BOOLEAN, EndDrop(b, c) PROVE DocidsInv'
    BY <1>20 DEF EndDrop
  <1>21. CASE UNCHANGED vars
    BY <1>21 DEF vars
  <1> QED BY <1>1, <1>2, <1>3, <1>4, <1>5, <1>6, <1>7, <1>8, <1>9, <1>10, <1>11, <1>12, <1>13, <1>14, <1>15, <1>16, <1>17, <1>18, <1>19, <1>20, <1>21, <1>22 DEF Next, Access

(* The rows stay in the file to go back to. *)
LEMMA SavedInvStep ==
    ASSUME TypeInv, ShareInv, DataInv, [Next]_vars
    PROVE  SavedInv'
  <1> USE Base DEF DataInv, SavedInv, DiskInv, CallInv, Building, Undisturbed
  <1>1. CASE Restart
    BY <1>1 DEF Restart, idle
  <1>2. ASSUME NEW b \in Backends, BeginUse(b) PROVE SavedInv'
    BY <1>2 DEF BeginUse, no_ddl
  <1>3. ASSUME NEW b \in Backends, UseCached(b) PROVE SavedInv'
    BY <1>3 DEF UseCached
  <1>4. ASSUME NEW b \in Backends, Attach(b) PROVE SavedInv'
    BY <1>4, AttachFrame, AttachShm
  <1>5. ASSUME NEW b \in Backends, LookupMiss(b) PROVE SavedInv'
    BY <1>5 DEF LookupMiss
  <1>6. ASSUME NEW b \in Backends, CreateSharedState(b) PROVE SavedInv'
    BY <1>6, CreateFrame, CreateShm
  <1>7. ASSUME NEW b \in Backends, ReloadFromDocids(b) PROVE SavedInv'
    BY <1>7, ReloadFrame, ReloadShm, ReloadShares
  <1>8. ASSUME NEW b \in Backends, NEW r \in Rows, Insert(b, r) PROVE SavedInv'
    <2>1. xact' = xact /\ step[b] = "ready"
      BY <1>8, InsertFrame
    <2> QED BY <2>1
  <1>22. ASSUME NEW b \in Backends, NEW r \in Rows, InsertSpill(b, r) PROVE SavedInv'
    <2>1. xact' = xact /\ step[b] = "ready"
      BY <1>22, InsertSpillFrame
    <2> QED BY <2>1
  <1>9. ASSUME NEW b \in Backends, Spill(b) PROVE SavedInv'
    BY <1>9, SpillFrame, SpillShm, SpillDisk, ReadyShares
  <1>10. ASSUME NEW b \in Backends, NEW c \in BOOLEAN, EndUse(b, c) PROVE SavedInv'
    BY <1>10 DEF EndUse
  <1>11. ASSUME NEW b \in Backends, EndSession(b) PROVE SavedInv'
    BY <1>11 DEF EndSession
  <1>12. ASSUME NEW b \in Backends, StartBuild(b) PROVE SavedInv'
    BY <1>12, StartFrame, StartShm, FreshFields
  <1>13. ASSUME NEW b \in Backends, BuildDocument(b) PROVE SavedInv'
    BY <1>13, DocumentFrame
  <1>14. ASSUME NEW b \in Backends, FinishBuild(b) PROVE SavedInv'
    BY <1>14, FinishFrame, FinishShm, FinishDisk
  <1>15. ASSUME NEW b \in Backends, ParallelBuild(b) PROVE SavedInv'
    BY <1>15, ParallelFrame, ParallelCache
  <1>16. ASSUME NEW b \in Backends, CommitBuild(b) PROVE SavedInv'
    BY <1>16 DEF CommitBuild
  <1>17. ASSUME NEW b \in Backends, AbortBuild(b) PROVE SavedInv'
    BY <1>17, AbortFrame, AbortShm
  <1>18. ASSUME NEW b \in Backends, RollbackBuilt(b) PROVE SavedInv'
    BY <1>18 DEF RollbackBuilt
  <1>19. ASSUME NEW b \in Backends, Drop(b) PROVE SavedInv'
    <2>1. xact'[b] = "drop" /\ \A c \in Backends \ {b} : xact'[c] = "none"
      BY <1>19, DropFrame
    <2> QED BY <2>1
  <1>20. ASSUME NEW b \in Backends, NEW c \in BOOLEAN, EndDrop(b, c) PROVE SavedInv'
    BY <1>20 DEF EndDrop
  <1>21. CASE UNCHANGED vars
    BY <1>21 DEF vars
  <1> QED BY <1>1, <1>2, <1>3, <1>4, <1>5, <1>6, <1>7, <1>8, <1>9, <1>10, <1>11, <1>12, <1>13, <1>14, <1>15, <1>16, <1>17, <1>18, <1>19, <1>20, <1>21, <1>22 DEF Next, Access

(* The rows stay in the hands of the build. *)
LEMMA BuildInvStep ==
    ASSUME TypeInv, ShareInv, DataInv, [Next]_vars
    PROVE  BuildInv'
  <1> USE Base DEF DataInv, BuildInv, CallInv, Building, Undisturbed
  <1>1. CASE Restart
    BY <1>1 DEF Restart, idle
  <1>2. ASSUME NEW b \in Backends, BeginUse(b) PROVE BuildInv'
    BY <1>2 DEF BeginUse, no_ddl
  <1>3. ASSUME NEW b \in Backends, UseCached(b) PROVE BuildInv'
    BY <1>3 DEF UseCached
  <1>4. ASSUME NEW b \in Backends, Attach(b) PROVE BuildInv'
    BY <1>4, AttachFrame, AttachShm
  <1>5. ASSUME NEW b \in Backends, LookupMiss(b) PROVE BuildInv'
    BY <1>5 DEF LookupMiss
  <1>6. ASSUME NEW b \in Backends, CreateSharedState(b) PROVE BuildInv'
    BY <1>6, CreateFrame, CreateShm
  <1>7. ASSUME NEW b \in Backends, ReloadFromDocids(b) PROVE BuildInv'
    BY <1>7, ReloadFrame, ReloadShm, ReloadShares
  <1>8. ASSUME NEW b \in Backends, NEW r \in Rows, Insert(b, r) PROVE BuildInv'
    <2>1. xact' = xact /\ step[b] = "ready"
      BY <1>8, InsertFrame
    <2> QED BY <2>1
  <1>22. ASSUME NEW b \in Backends, NEW r \in Rows, InsertSpill(b, r) PROVE BuildInv'
    <2>1. xact' = xact /\ step[b] = "ready"
      BY <1>22, InsertSpillFrame
    <2> QED BY <2>1
  <1>9. ASSUME NEW b \in Backends, Spill(b) PROVE BuildInv'
    BY <1>9, SpillFrame, SpillShm, SpillDisk, ReadyShares
  <1>10. ASSUME NEW b \in Backends, NEW c \in BOOLEAN, EndUse(b, c) PROVE BuildInv'
    BY <1>10 DEF EndUse
  <1>11. ASSUME NEW b \in Backends, EndSession(b) PROVE BuildInv'
    BY <1>11 DEF EndSession
  <1>12. ASSUME NEW b \in Backends, StartBuild(b) PROVE BuildInv'
    BY <1>12, StartFrame, StartShm, FreshFields
  <1>13. ASSUME NEW b \in Backends, BuildDocument(b) PROVE BuildInv'
    <2>1. /\ xact' = xact /\ xact[b] = "build" /\ committed' = committed /\ cache' = cache
          /\ \A c \in Backends \ {b} : xact[c] = "none"
      BY <1>13, DocumentFrame
    <2>2. PICK r \in todo :
            /\ todo' = todo \ {r}
            /\ docids(disk') = docids(disk)
            /\ \/ disk'.segs = disk.segs \cup (shm[cache[b].dp].mem \cup {r})
               \/ disk'.segs = disk.segs /\ shm'[cache[b].dp].mem = shm[cache[b].dp].mem \cup {r}
      BY <1>13, DocumentShm, ZenonT(60)
    <2>3. committed \subseteq disk'.segs \cup shm'[cache[b].dp].mem \cup todo'
      BY <2>1, <2>2
    <2> QED BY <2>1, <2>2, <2>3
  <1>14. ASSUME NEW b \in Backends, FinishBuild(b) PROVE BuildInv'
    BY <1>14, FinishFrame, FinishShm, FinishDisk
  <1>15. ASSUME NEW b \in Backends, ParallelBuild(b) PROVE BuildInv'
    BY <1>15, ParallelFrame, ParallelCache
  <1>16. ASSUME NEW b \in Backends, CommitBuild(b) PROVE BuildInv'
    BY <1>16 DEF CommitBuild
  <1>17. ASSUME NEW b \in Backends, AbortBuild(b) PROVE BuildInv'
    BY <1>17, AbortFrame, AbortShm
  <1>18. ASSUME NEW b \in Backends, RollbackBuilt(b) PROVE BuildInv'
    BY <1>18 DEF RollbackBuilt
  <1>19. ASSUME NEW b \in Backends, Drop(b) PROVE BuildInv'
    BY <1>19, DropFrame, DropShm
  <1>20. ASSUME NEW b \in Backends, NEW c \in BOOLEAN, EndDrop(b, c) PROVE BuildInv'
    BY <1>20 DEF EndDrop
  <1>21. CASE UNCHANGED vars
    BY <1>21 DEF vars
  <1> QED BY <1>1, <1>2, <1>3, <1>4, <1>5, <1>6, <1>7, <1>8, <1>9, <1>10, <1>11, <1>12, <1>13, <1>14, <1>15, <1>16, <1>17, <1>18, <1>19, <1>20, <1>21, <1>22 DEF Next, Access

(* An empty file uses no docid pages. *)
LEMMA NoPagesUsed ==
    ASSUME NEW f, f.pages = [c \in Rows |-> {}], f.first_docid_page = InvalidBlockNumber, NEW rows
    PROVE  PagesUsed(f, rows)
  BY DEF PagesUsed

(* More rows do not make it wrong. *)
LEMMA PagesUsedMore ==
    ASSUME NEW f, NEW rows, NEW more, rows \subseteq more, PagesUsed(f, rows)
    PROVE  PagesUsed(f, more)
  BY DEF PagesUsed

(* The docid pages have rows of the heap. *)
LEMMA PagesInvStep ==
    ASSUME TypeInv, PagesInv, [Next]_vars
    PROVE  PagesInv'
  <1>0. PagesUsed(NoFile, heap')
    BY FreshFields, NoPagesUsed
  <1>00. PagesUsed(disk, heap) /\ PagesUsed(saved, heap)
    BY DEF PagesInv
  <1> USE <1>0, <1>00 DEF PagesInv
  <1>1. CASE Restart
    BY <1>1 DEF Restart
  <1>2. ASSUME NEW b \in Backends, BeginUse(b) PROVE PagesInv'
    BY <1>2 DEF BeginUse
  <1>3. ASSUME NEW b \in Backends, UseCached(b) PROVE PagesInv'
    BY <1>3 DEF UseCached
  <1>4. ASSUME NEW b \in Backends, Attach(b) PROVE PagesInv'
    BY <1>4 DEF Attach
  <1>5. ASSUME NEW b \in Backends, LookupMiss(b) PROVE PagesInv'
    BY <1>5 DEF LookupMiss
  <1>6. ASSUME NEW b \in Backends, CreateSharedState(b) PROVE PagesInv'
    BY <1>6 DEF CreateSharedState
  <1>7. ASSUME NEW b \in Backends, ReloadFromDocids(b) PROVE PagesInv'
    BY <1>7 DEF ReloadFromDocids
  <1>8. ASSUME NEW b \in Backends, NEW r \in Rows, Insert(b, r) PROVE PagesInv'
    <2>1. heap \subseteq heap' /\ saved' = saved /\ PagesUsed(disk', heap')
      BY <1>8, InsertFrame, InsertPages
    <2>2. PagesUsed(saved, heap')
      BY <2>1, PagesUsedMore
    <2> QED BY <2>1, <2>2
  <1>9. ASSUME NEW b \in Backends, Spill(b) PROVE PagesInv'
    <2>1. heap' = heap /\ saved' = saved
          /\ disk'.pages = disk.pages /\ disk'.first_docid_page = disk.first_docid_page
      BY <1>9, SpillFrame, SpillDisk
    <2>2. PagesUsed(disk', heap)
      BY <2>1 DEF PagesUsed
    <2> QED BY <2>1, <2>2
  <1>10. ASSUME NEW b \in Backends, NEW c \in BOOLEAN, EndUse(b, c) PROVE PagesInv'
    BY <1>10 DEF EndUse
  <1>11. ASSUME NEW b \in Backends, EndSession(b) PROVE PagesInv'
    BY <1>11 DEF EndSession
  <1>12. ASSUME NEW b \in Backends, StartBuild(b) PROVE PagesInv'
    BY <1>12 DEF StartBuild
  <1>13. ASSUME NEW b \in Backends, BuildDocument(b) PROVE PagesInv'
    <2>1. heap' = heap /\ saved' = saved
      BY <1>13, DocumentFrame
    <2>2. \/ \E S : disk' = [disk EXCEPT !.segs = S]
          \/ disk' = disk
      BY <1>13, Zenon DEF BuildDocument
    <2>3. disk'.pages = disk.pages /\ disk'.first_docid_page = disk.first_docid_page
      BY <2>2 DEF TypeInv, Types, FileType
    <2>4. PagesUsed(disk', heap)
      BY <2>3 DEF PagesUsed
    <2> QED BY <2>1, <2>4
  <1>14. ASSUME NEW b \in Backends, FinishBuild(b) PROVE PagesInv'
    <2>1. heap' = heap /\ saved' = saved
          /\ disk'.pages = disk.pages /\ disk'.first_docid_page = disk.first_docid_page
      BY <1>14, FinishFrame, FinishDisk
    <2>2. PagesUsed(disk', heap)
      BY <2>1 DEF PagesUsed
    <2> QED BY <2>1, <2>2
  <1>15. ASSUME NEW b \in Backends, ParallelBuild(b) PROVE PagesInv'
    <2>1. heap' = heap /\ saved' = disk /\ disk'.pages = [c \in Rows |-> {}]
          /\ disk'.first_docid_page = InvalidBlockNumber
      BY <1>15, ParallelFrame
    <2>2. PagesUsed(disk', heap')
      BY <2>1, NoPagesUsed
    <2> QED BY <2>1, <2>2
  <1>16. ASSUME NEW b \in Backends, CommitBuild(b) PROVE PagesInv'
    BY <1>16 DEF CommitBuild
  <1>17. ASSUME NEW b \in Backends, AbortBuild(b) PROVE PagesInv'
    BY <1>17 DEF AbortBuild
  <1>18. ASSUME NEW b \in Backends, RollbackBuilt(b) PROVE PagesInv'
    BY <1>18 DEF RollbackBuilt
  <1>19. ASSUME NEW b \in Backends, Drop(b) PROVE PagesInv'
    BY <1>19 DEF Drop
  <1>20. ASSUME NEW b \in Backends, NEW c \in BOOLEAN, EndDrop(b, c) PROVE PagesInv'
    BY <1>20 DEF EndDrop
  <1>21. CASE UNCHANGED vars
    BY <1>21 DEF vars
  <1>22. ASSUME NEW b \in Backends, NEW r \in Rows, InsertSpill(b, r) PROVE PagesInv'
    <2>1. heap \subseteq heap' /\ saved' = saved /\ PagesUsed(disk', heap')
      BY <1>22, InsertSpillFrame, InsertSpillPages
    <2>2. PagesUsed(saved, heap')
      BY <2>1, PagesUsedMore
    <2> QED BY <2>1, <2>2
  <1> QED BY <1>1, <1>2, <1>3, <1>4, <1>5, <1>6, <1>7, <1>8, <1>9, <1>10, <1>11, <1>12, <1>13, <1>14, <1>15, <1>16, <1>17, <1>18, <1>19, <1>20, <1>21, <1>22 DEF Next, Access

(* A committed row is found now and can be recovered after a restart: builds, spills,
   rebuilds and DDL hand it from one place to the next without a gap, unless the sharing was
   disturbed or the backend that inserted it stored its docid on a page that another backend's
   spill had cut off. *)
THEOREM RowsKept ==
    Spec => []CommittedKept
  <1>1. Init => ShareInv /\ DataInv /\ PagesInv
    <2> SUFFICES ASSUME Init PROVE ShareInv /\ DataInv /\ PagesInv
      OBVIOUS
    <2>1. ~exists /\ \A b \in Backends : xact[b] = "none"
      BY DEF Init
    <2>2. PagesInv
      BY FreshFields, NoPagesUsed DEF Init, PagesInv
    <2> QED BY <2>1, <2>2 DEF ShareInv, DataInv, DiskInv, DocidsInv, SavedInv, BuildInv, Building
  <1>2. TypeInv /\ ShareInv /\ DataInv /\ PagesInv /\ [Next]_vars => ShareInv' /\ DataInv' /\ PagesInv'
    BY ShareStep, DiskInvStep, DocidsInvStep, SavedInvStep, BuildInvStep, PagesInvStep DEF DataInv
  <1>3. TypeInv /\ ShareInv /\ DataInv => CommittedKept
    <2> SUFFICES ASSUME TypeInv, ShareInv, DataInv PROVE CommittedKept
      OBVIOUS
    <2>1. CommittedVisible
      <3> SUFFICES ASSUME Undisturbed, NEW b \in Backends, step[b] = "ready"
                   PROVE  cached(b) /\ committed \subseteq shm[cache[b].dp].mem \cup disk.segs \cup disk.astray
        BY DEF CommittedVisible, state
      <3>1. cached(b) /\ cache[b].dp = registry /\ registry # NoDp /\ exists /\ ~Building /\ ~Reloading
        BY ReadyShares
      <3> QED BY <3>1 DEF DataInv, DiskInv, DocidsInv
    <2>2. CommittedDurable
      <3>1. no_ddl => ~Building
        BY DEF no_ddl, Building
      <3> QED BY <3>1 DEF CommittedDurable, Durable, DataInv, DiskInv
    <2> QED BY <2>1, <2>2 DEF CommittedKept
  <1> QED BY <1>1, <1>2, <1>3, TypeAlways, PTL DEF Spec

-----------------------------------------------------------------------------
(* The tenant counts. *)

(* Counts of two sets of rows that share none add up. *)
LEMMA CountsUnion ==
    ASSUME NEW A \in SUBSET Rows, NEW B \in SUBSET Rows, A \cap B = {}
    PROVE  plus(counts(A), counts(B)) = counts(A \cup B)
  <1>1. ASSUME NEW t \in Tenants
        PROVE  plus(counts(A), counts(B))[t] = counts(A \cup B)[t]
    <2> DEFINE SA == {r \in A : TenantOf[r] = t}
               SB == {r \in B : TenantOf[r] = t}
    <2>1. IsFiniteSet(SA) /\ IsFiniteSet(SB)
      BY FS_Subset, TenantAssumption
    <2>2. SA \cap SB = {} /\ SA \cup SB = {r \in A \cup B : TenantOf[r] = t}
      OBVIOUS
    <2>3. Cardinality(SA \cup SB) = Cardinality(SA) + Cardinality(SB) - Cardinality(SA \cap SB)
      BY <2>1, FS_Union
    <2>4. Cardinality(SA \cap SB) = 0
      BY <2>2, FS_EmptySet
    <2>5. Cardinality(SA) \in Nat /\ Cardinality(SB) \in Nat
      BY <2>1, FS_CardinalityType
    <2>6. counts(A)[t] = Cardinality(SA) /\ counts(B)[t] = Cardinality(SB)
          /\ counts(A \cup B)[t] = Cardinality(SA \cup SB)
      BY <2>2 DEF counts
    <2> HIDE DEF SA, SB
    <2>7. counts(A) # NoTable
      <3>1. NoTable[t] = -1
        BY DEF NoTable
      <3> QED BY <2>5, <2>6, <3>1
    <2>8. plus(counts(A), counts(B))[t] = counts(A)[t] + counts(B)[t]
      BY <2>7 DEF plus
    <2> QED BY <2>3, <2>4, <2>5, <2>6, <2>8
  <1>2. plus(counts(A), counts(B)) = [t \in Tenants |-> plus(counts(A), counts(B))[t]]
    BY DEF plus
  <1>3. counts(A \cup B) = [t \in Tenants |-> counts(A \cup B)[t]]
    BY DEF counts
  <1> QED BY <1>1, <1>2, <1>3

(* Adding to no table gives what is added. *)
LEMMA PlusNone ==
    ASSUME NEW n \in [Tenants -> Nat]
    PROVE  plus(NoTable, n) = n
  BY DEF plus

(* Where there is a row, a table of numbers is not the absent one. *)
LEMMA TableProper ==
    ASSUME NEW r \in Rows, NEW n \in [Tenants -> Nat]
    PROVE  n # NoTable
  <1>1. TenantOf[r] \in Tenants
    BY TenantAssumption
  <1>2. NoTable[TenantOf[r]] = -1 /\ n[TenantOf[r]] \in Nat
    BY <1>1 DEF NoTable
  <1> QED BY <1>2

(* A row that is added to a state is counted once. *)
LEMMA AddedCounted ==
    ASSUME NEW s, NEW t, NEW segs \in SUBSET Rows, NEW r \in Rows,
           s.mem \in SUBSET Rows, r \notin s.mem \cup segs,
           StateCounted(s, segs), s.tstats = NoTable => segs = {},
           t.mem = s.mem \cup {r}, t.tstats = plus(s.tstats, counts({r}))
    PROVE  StateCounted(t, segs)
  <1>1. counts({r}) \in [Tenants -> Nat] /\ counts({r}) # NoTable
    BY CountsType, TableProper
  <1>2. t.tstats = counts(t.mem \cup segs)
    <2>1. CASE s.tstats = NoTable
      <3>1. t.mem \cup segs = {r}
        BY <2>1 DEF StateCounted
      <3> QED BY <1>1, <2>1, <3>1, PlusNone
    <2>2. CASE s.tstats # NoTable
      <3>1. s.tstats = counts(s.mem \cup segs)
        BY <2>2 DEF StateCounted
      <3>2. (s.mem \cup segs) \cap {r} = {} /\ s.mem \cup segs \in SUBSET Rows /\ {r} \in SUBSET Rows
        OBVIOUS
      <3>3. plus(counts(s.mem \cup segs), counts({r})) = counts((s.mem \cup segs) \cup {r})
        BY <3>2, CountsUnion
      <3>4. (s.mem \cup segs) \cup {r} = t.mem \cup segs
        OBVIOUS
      <3> QED BY <3>1, <3>3, <3>4
    <2> QED BY <2>1, <2>2
  <1>3. t.tstats # NoTable
    <2>1. t.mem \cup segs \in SUBSET Rows
      OBVIOUS
    <2> QED BY <1>2, <2>1, CountsType, TableProper
  <1> QED BY <1>2, <1>3 DEF StateCounted

(* The counts that a reload restores are those of the docid chain and of the segments. *)
LEMMA RestoredCounted ==
    ASSUME NEW s, NEW t, NEW f, s.tstats = NoTable,
           NEW docs \in SUBSET Rows, f.segs \in SUBSET Rows, docs \cap f.segs = {}, FileCounted(f),
           t.mem = docs, t.tstats = restored_tstats(s, docs, f.tstats)
    PROVE  StateCounted(t, f.segs)
  <1>1. counts(docs) \in [Tenants -> Nat] /\ counts(f.segs) \in [Tenants -> Nat]
    BY CountsType
  <1>2. docs # {} => counts(docs) # NoTable
    BY <1>1, TableProper
  <1>3. plus(NoTable, counts(docs)) = counts(docs) /\ plus(NoTable, counts(f.segs)) = counts(f.segs)
    BY <1>1, PlusNone
  <1>4. CASE docs = {} /\ f.tstats = NoTable
    BY <1>4 DEF restored_tstats, StateCounted
  <1>5. CASE docs = {} /\ f.tstats # NoTable
    <2>1. t.tstats = counts(f.segs)
      BY <1>3, <1>5 DEF restored_tstats, FileCounted
    <2>2. t.mem \cup f.segs = f.segs
      BY <1>5
    <2> QED BY <1>5, <2>1, <2>2 DEF StateCounted
  <1>6. CASE docs # {} /\ f.tstats = NoTable
    <2>1. t.tstats = counts(docs)
      BY <1>3, <1>6 DEF restored_tstats
    <2>2. t.mem \cup f.segs = docs
      BY <1>6 DEF FileCounted
    <2> QED BY <1>2, <1>6, <2>1, <2>2 DEF StateCounted
  <1>7. CASE docs # {} /\ f.tstats # NoTable
    <2>1. t.tstats = plus(counts(docs), counts(f.segs))
      BY <1>3, <1>7 DEF restored_tstats, FileCounted
    <2>2. t.tstats = counts(t.mem \cup f.segs)
      BY <2>1, CountsUnion DEF FileCounted
    <2>3. t.mem \cup f.segs \in SUBSET Rows
      OBVIOUS
    <2>4. t.tstats # NoTable
      BY <1>7, <2>2, <2>3, CountsType, TableProper
    <2> QED BY <2>2, <2>4 DEF StateCounted
  <1> QED BY <1>4, <1>5, <1>6, <1>7

(* Only rows of the heap are on disk. *)
LEMMA HeapFilesStep ==
    ASSUME TypeInv, HeapInv, [Next]_vars
    PROVE  HeapFiles'
  <1>0. /\ committed \subseteq heap /\ \A b \in Backends : cached(b) => cache[b].dp \in 1 .. MaxStates
        /\ shm \in [1 .. MaxStates -> StateType] /\ snap \in [Backends -> PageType]
    BY Addresses DEF TypeInv, TypeOK, Types
  <1> USE <1>0 DEF HeapInv, HeapFiles, HeapMemory
  <1>1. CASE Restart
    BY <1>1, FreshFields DEF Restart
  <1>2. ASSUME NEW b \in Backends, BeginUse(b) PROVE HeapFiles'
    BY <1>2 DEF BeginUse
  <1>3. ASSUME NEW b \in Backends, UseCached(b) PROVE HeapFiles'
    BY <1>3 DEF UseCached
  <1>4. ASSUME NEW b \in Backends, Attach(b) PROVE HeapFiles'
    BY <1>4, AttachFrame, AttachShm
  <1>5. ASSUME NEW b \in Backends, LookupMiss(b) PROVE HeapFiles'
    BY <1>5 DEF LookupMiss
  <1>6. ASSUME NEW b \in Backends, CreateSharedState(b) PROVE HeapFiles'
    BY <1>6, CreateFrame, CreateShm
  <1>7. ASSUME NEW b \in Backends, ReloadFromDocids(b) PROVE HeapFiles'
    BY <1>7, ReloadFrame, ReloadShm, FreshFields
  <1>8. ASSUME NEW b \in Backends, NEW r \in Rows, Insert(b, r) PROVE HeapFiles'
    BY <1>8, InsertFrame, InsertShm, InsertDisk
  <1>22. ASSUME NEW b \in Backends, NEW r \in Rows, InsertSpill(b, r) PROVE HeapFiles'
    <2>1. heap' = heap \cup {r} /\ saved' = saved /\ todo' = todo
      BY <1>22, InsertSpillFrame
    <2>2. shm[cache[b].dp].mem \subseteq heap
      BY <1>22, InsertSpillShm
    <2>3. disk'.segs = disk.segs \cup shm[cache[b].dp].mem \cup {r}
      BY <1>22, InsertSpillDisk
    <2> QED BY <2>1, <2>2, <2>3
  <1>9. ASSUME NEW b \in Backends, Spill(b) PROVE HeapFiles'
    BY <1>9, SpillFrame, SpillShm, SpillDisk
  <1>10. ASSUME NEW b \in Backends, NEW c \in BOOLEAN, EndUse(b, c) PROVE HeapFiles'
    BY <1>10 DEF EndUse
  <1>11. ASSUME NEW b \in Backends, EndSession(b) PROVE HeapFiles'
    BY <1>11 DEF EndSession
  <1>12. ASSUME NEW b \in Backends, StartBuild(b) PROVE HeapFiles'
    BY <1>12, StartFrame, StartShm, FreshFields
  <1>13. ASSUME NEW b \in Backends, BuildDocument(b) PROVE HeapFiles'
    <2>1. saved' = saved /\ heap' = heap
      BY <1>13, DocumentFrame
    <2>2. shm[cache[b].dp].mem \subseteq heap
      BY <1>13, DocumentShm
    <2>3. PICK r \in todo :
            /\ todo' = todo \ {r} /\ docids(disk') = docids(disk)
            /\ \/ disk'.segs = disk.segs \cup (shm[cache[b].dp].mem \cup {r})
               \/ disk'.segs = disk.segs
      BY <1>13, DocumentShm
    <2> QED BY <2>1, <2>2, <2>3
  <1>14. ASSUME NEW b \in Backends, FinishBuild(b) PROVE HeapFiles'
    BY <1>14, FinishFrame, FinishShm, FinishDisk
  <1>15. ASSUME NEW b \in Backends, ParallelBuild(b) PROVE HeapFiles'
    BY <1>15, ParallelFrame
  <1>16. ASSUME NEW b \in Backends, CommitBuild(b) PROVE HeapFiles'
    BY <1>16, FreshFields DEF CommitBuild
  <1>17. ASSUME NEW b \in Backends, AbortBuild(b) PROVE HeapFiles'
    BY <1>17, AbortFrame, AbortShm, FreshFields
  <1>18. ASSUME NEW b \in Backends, RollbackBuilt(b) PROVE HeapFiles'
    BY <1>18, FreshFields DEF RollbackBuilt
  <1>19. ASSUME NEW b \in Backends, Drop(b) PROVE HeapFiles'
    BY <1>19, DropFrame, DropShm
  <1>20. ASSUME NEW b \in Backends, NEW c \in BOOLEAN, EndDrop(b, c) PROVE HeapFiles'
    BY <1>20 DEF EndDrop
  <1>21. CASE UNCHANGED vars
    BY <1>21 DEF vars
  <1> QED BY <1>1, <1>2, <1>3, <1>4, <1>5, <1>6, <1>7, <1>8, <1>9, <1>10, <1>11, <1>12, <1>13, <1>14, <1>15, <1>16, <1>17, <1>18, <1>19, <1>20, <1>21, <1>22 DEF Next, Access

(* Only rows of the heap are in memory. *)
LEMMA HeapMemoryStep ==
    ASSUME TypeInv, PagesInv, HeapInv, [Next]_vars
    PROVE  HeapMemory'
  <1>0. /\ committed \subseteq heap /\ \A b \in Backends : cached(b) => cache[b].dp \in 1 .. MaxStates
        /\ shm \in [1 .. MaxStates -> StateType] /\ snap \in [Backends -> PageType]
    BY Addresses DEF TypeInv, TypeOK, Types
  <1> USE <1>0 DEF HeapInv, HeapFiles, HeapMemory
  <1>1. CASE Restart
    BY <1>1, FreshFields DEF Restart
  <1>2. ASSUME NEW b \in Backends, BeginUse(b) PROVE HeapMemory'
    BY <1>2 DEF BeginUse
  <1>3. ASSUME NEW b \in Backends, UseCached(b) PROVE HeapMemory'
    BY <1>3 DEF UseCached
  <1>4. ASSUME NEW b \in Backends, Attach(b) PROVE HeapMemory'
    BY <1>4, AttachFrame, AttachShm
  <1>5. ASSUME NEW b \in Backends, LookupMiss(b) PROVE HeapMemory'
    BY <1>5 DEF LookupMiss
  <1>6. ASSUME NEW b \in Backends, CreateSharedState(b) PROVE HeapMemory'
    BY <1>6, CreateFrame, CreateShm
  <1>7. ASSUME NEW b \in Backends, ReloadFromDocids(b) PROVE HeapMemory'
    <2>1. heap' = heap
      BY <1>7, ReloadFrame
    <2>2. chain(disk, snap[b]) \subseteq heap
      BY DEF PagesInv, PagesUsed, chain, PageType
    <2> QED BY <1>7, <2>1, <2>2, ReloadShm
  <1>8. ASSUME NEW b \in Backends, NEW r \in Rows, Insert(b, r) PROVE HeapMemory'
    <2>1. heap' = heap \cup {r} /\ snap' = snap
      BY <1>8, InsertFrame
    <2>2. \A p \in 1 .. MaxStates : shm'[p].mem \subseteq shm[p].mem \cup {r}
      <3>1. CASE cached(b)
        BY <1>8, <3>1, InsertShm
      <3>2. CASE ~cached(b)
        BY <1>8, <3>2, InsertShm
      <3> QED BY <3>1, <3>2
    <2> QED BY <2>1, <2>2
  <1>22. ASSUME NEW b \in Backends, NEW r \in Rows, InsertSpill(b, r) PROVE HeapMemory'
    BY <1>22, InsertSpillFrame, InsertSpillShm
  <1>9. ASSUME NEW b \in Backends, Spill(b) PROVE HeapMemory'
    BY <1>9, SpillFrame, SpillShm, SpillDisk
  <1>10. ASSUME NEW b \in Backends, NEW c \in BOOLEAN, EndUse(b, c) PROVE HeapMemory'
    BY <1>10 DEF EndUse
  <1>11. ASSUME NEW b \in Backends, EndSession(b) PROVE HeapMemory'
    BY <1>11 DEF EndSession
  <1>12. ASSUME NEW b \in Backends, StartBuild(b) PROVE HeapMemory'
    BY <1>12, StartFrame, StartShm, FreshFields
  <1>13. ASSUME NEW b \in Backends, BuildDocument(b) PROVE HeapMemory'
    <2>1. snap' = snap /\ heap' = heap /\ cache[b].dp = registry /\ registry \in 1 .. MaxStates
      BY <1>13, DocumentFrame, DocumentShm
    <2>2. \A p \in 1 .. MaxStates : p # registry => shm'[p] = shm[p]
      BY <1>13, DocumentShm
    <2>3. PICK r \in todo : shm'[cache[b].dp].mem \subseteq shm[cache[b].dp].mem \cup {r}
      BY <1>13, DocumentShm
    <2> QED BY <2>1, <2>2, <2>3
  <1>14. ASSUME NEW b \in Backends, FinishBuild(b) PROVE HeapMemory'
    BY <1>14, FinishFrame, FinishShm, FinishDisk
  <1>15. ASSUME NEW b \in Backends, ParallelBuild(b) PROVE HeapMemory'
    BY <1>15, ParallelFrame
  <1>16. ASSUME NEW b \in Backends, CommitBuild(b) PROVE HeapMemory'
    BY <1>16, FreshFields DEF CommitBuild
  <1>17. ASSUME NEW b \in Backends, AbortBuild(b) PROVE HeapMemory'
    BY <1>17, AbortFrame, AbortShm, FreshFields
  <1>18. ASSUME NEW b \in Backends, RollbackBuilt(b) PROVE HeapMemory'
    BY <1>18, FreshFields DEF RollbackBuilt
  <1>19. ASSUME NEW b \in Backends, Drop(b) PROVE HeapMemory'
    BY <1>19, DropFrame, DropShm
  <1>20. ASSUME NEW b \in Backends, NEW c \in BOOLEAN, EndDrop(b, c) PROVE HeapMemory'
    BY <1>20 DEF EndDrop
  <1>21. CASE UNCHANGED vars
    BY <1>21 DEF vars
  <1> QED BY <1>1, <1>2, <1>3, <1>4, <1>5, <1>6, <1>7, <1>8, <1>9, <1>10, <1>11, <1>12, <1>13, <1>14, <1>15, <1>16, <1>17, <1>18, <1>19, <1>20, <1>21, <1>22 DEF Next, Access

(* InsertSpill leaves the counts of what is then in the segments, on disk and in memory. *)
LEMMA InsertSpillCounted ==
    ASSUME TypeInv, ShareInv, HeapInv, CountInv, NEW b \in Backends, NEW r \in Rows, InsertSpill(b, r),
           hazard' = {}
    PROVE  /\ disk'.tstats # NoTable /\ disk'.tstats = counts(disk'.segs)
           /\ shm'[registry].mem = {} /\ shm'[registry].tstats = disk'.tstats
  <1>1. hazard = {} /\ step[b] = "ready" /\ r \notin heap
    BY InsertSpillFrame
  <1>2. /\ cached(b) /\ cache[b].dp = registry /\ registry # NoDp /\ exists /\ ~Building /\ ~Reloading
        /\ registry \in 1 .. MaxStates
    BY <1>1, ReadyShares DEF Undisturbed
  <1>3. FileCounted(disk) /\ StateCounted(shm[registry], disk.segs)
    BY <1>1, <1>2 DEF CountInv, CountDisk, CountState
  <1>4. r \notin shm[registry].mem \cup disk.segs
    BY <1>1, <1>2 DEF HeapInv, HeapFiles, HeapMemory
  <1>5. shm[registry].tstats = NoTable => disk.segs = {}
    <2>1. shm[registry].tstats = NoTable => disk.tstats = NoTable
      BY <1>2, InsertSpillFrame
    <2> QED BY <1>3, <2>1 DEF FileCounted
  <1>6. shm[registry].mem \in SUBSET Rows /\ disk.segs \in SUBSET Rows
    BY <1>2, FieldTypes DEF TypeInv
  <1>7. PICK t : t = [mem |-> shm[registry].mem \cup {r}, tstats |-> plus(shm[registry].tstats, counts({r}))]
    OBVIOUS
  <1>8. t.mem = shm[registry].mem \cup {r} /\ t.tstats = plus(shm[registry].tstats, counts({r}))
    BY <1>7
  <1>9. StateCounted(t, disk.segs)
    BY <1>3, <1>4, <1>5, <1>6, <1>8, AddedCounted
  <1>10. t.tstats # NoTable /\ t.tstats = counts(t.mem \cup disk.segs)
    BY <1>8, <1>9 DEF StateCounted
  <1>11. disk'.segs = disk.segs \cup shm[registry].mem \cup {r} /\ disk'.tstats = t.tstats
    BY <1>2, <1>8, InsertSpillDisk
  <1>12. disk'.segs = t.mem \cup disk.segs
    BY <1>8, <1>11
  <1>13. shm'[registry].mem = {} /\ shm'[registry].tstats = t.tstats
    BY <1>2, <1>8, InsertSpillShm
  <1> QED BY <1>10, <1>11, <1>12, <1>13

(* The counts on disk stay those of the segments. *)
LEMMA CountDiskStep ==
    ASSUME TypeInv, ShareInv, DataInv, HeapInv, CountInv, [Next]_vars
    PROVE  CountDisk'
  <1> USE Base DEF CountInv, CountDisk, CountSaved, CountBuild, FileCounted, CallInv, Building
  <1>1. CASE Restart
    BY <1>1 DEF Restart, idle
  <1>2. ASSUME NEW b \in Backends, BeginUse(b) PROVE CountDisk'
    BY <1>2 DEF BeginUse, no_ddl
  <1>3. ASSUME NEW b \in Backends, UseCached(b) PROVE CountDisk'
    BY <1>3 DEF UseCached
  <1>4. ASSUME NEW b \in Backends, Attach(b) PROVE CountDisk'
    BY <1>4, AttachFrame, AttachShm
  <1>5. ASSUME NEW b \in Backends, LookupMiss(b) PROVE CountDisk'
    BY <1>5 DEF LookupMiss
  <1>6. ASSUME NEW b \in Backends, CreateSharedState(b) PROVE CountDisk'
    BY <1>6, CreateFrame, CreateShm
  <1>7. ASSUME NEW b \in Backends, ReloadFromDocids(b) PROVE CountDisk'
    BY <1>7, ReloadFrame, ReloadShm, ReloadShares
  <1>8. ASSUME NEW b \in Backends, NEW r \in Rows, Insert(b, r) PROVE CountDisk'
    <2>1. /\ hazard \subseteq hazard' /\ exists' = exists /\ xact' = xact /\ registry' = registry
          /\ step' = step /\ step[b] = "ready" /\ r \notin heap
          /\ disk'.segs = disk.segs /\ disk'.tstats = disk.tstats
      BY <1>8, InsertFrame, InsertDisk
    <2> QED BY <2>1
  <1>22. ASSUME NEW b \in Backends, NEW r \in Rows, InsertSpill(b, r) PROVE CountDisk'
    <2> SUFFICES ASSUME hazard' = {} PROVE CountDisk'
      OBVIOUS
    <2> QED BY <1>22, InsertSpillCounted
  <1>9. ASSUME NEW b \in Backends, Spill(b) PROVE CountDisk'
    <2>1. /\ hazard' = hazard /\ exists' = exists /\ xact' = xact /\ registry' = registry
          /\ step' = step /\ step[b] = "ready"
          /\ disk'.segs = disk.segs \cup shm[cache[b].dp].mem
          /\ disk'.tstats = IF shm[cache[b].dp].tstats = NoTable THEN disk.tstats
                            ELSE shm[cache[b].dp].tstats
          /\ shm'[cache[b].dp].mem = {} /\ shm'[cache[b].dp].tstats = shm[cache[b].dp].tstats
      BY <1>9, SpillFrame, SpillDisk, SpillShm
    <2>2. shm[cache[b].dp].mem # {}
      BY <1>9 DEF Spill, state
    <2> SUFFICES ASSUME hazard = {} PROVE CountDisk'
      BY <2>1
    <2>3. exists /\ ~Building /\ ~Reloading /\ cache[b].dp = registry /\ registry # NoDp
      BY <2>1, ReadyShares DEF Undisturbed
    <2>4. /\ shm[registry].tstats # NoTable
          /\ shm[registry].tstats = counts(shm[registry].mem \cup disk.segs)
      BY <2>2, <2>3 DEF CountState, StateCounted
    <2>5. shm[registry].mem \cup disk.segs = disk'.segs
      BY <2>1, <2>3
    <2> QED BY <2>1, <2>3, <2>4, <2>5
  <1>10. ASSUME NEW b \in Backends, NEW c \in BOOLEAN, EndUse(b, c) PROVE CountDisk'
    BY <1>10 DEF EndUse
  <1>11. ASSUME NEW b \in Backends, EndSession(b) PROVE CountDisk'
    BY <1>11 DEF EndSession
  <1>12. ASSUME NEW b \in Backends, StartBuild(b) PROVE CountDisk'
    BY <1>12, StartFrame, StartShm, FreshFields
  <1>13. ASSUME NEW b \in Backends, BuildDocument(b) PROVE CountDisk'
    <2>1. xact'[b] = "build"
      BY <1>13, DocumentFrame
    <2> QED BY <2>1
  <1>14. ASSUME NEW b \in Backends, FinishBuild(b) PROVE CountDisk'
    <2>1. xact'[b] = "built"
      BY <1>14, FinishFrame
    <2> QED BY <2>1
  <1>15. ASSUME NEW b \in Backends, ParallelBuild(b) PROVE CountDisk'
    <2>1. xact'[b] = "pbuilt"
      BY <1>15, ParallelFrame
    <2> QED BY <2>1
  <1>16. ASSUME NEW b \in Backends, CommitBuild(b) PROVE CountDisk'
    BY <1>16 DEF CommitBuild
  <1>17. ASSUME NEW b \in Backends, AbortBuild(b) PROVE CountDisk'
    BY <1>17, AbortFrame, AbortShm
  <1>18. ASSUME NEW b \in Backends, RollbackBuilt(b) PROVE CountDisk'
    BY <1>18 DEF RollbackBuilt
  <1>19. ASSUME NEW b \in Backends, Drop(b) PROVE CountDisk'
    BY <1>19, DropFrame, DropShm
  <1>20. ASSUME NEW b \in Backends, NEW c \in BOOLEAN, EndDrop(b, c) PROVE CountDisk'
    BY <1>20 DEF EndDrop
  <1>21. CASE UNCHANGED vars
    BY <1>21 DEF vars
  <1> QED BY <1>1, <1>2, <1>3, <1>4, <1>5, <1>6, <1>7, <1>8, <1>9, <1>10, <1>11, <1>12, <1>13, <1>14, <1>15, <1>16, <1>17, <1>18, <1>19, <1>20, <1>21, <1>22 DEF Next, Access

(* The counts of the registered state stay those of what is indexed. *)
LEMMA CountStateStep ==
    ASSUME TypeInv, ShareInv, DataInv, HeapInv, CountInv, [Next]_vars
    PROVE  CountState'
  <1> USE Base DEF CountInv, CountState, CountDisk, CountBuild, StateCounted, FileCounted, Reloading, CallInv, Building
  <1>1. CASE Restart
    BY <1>1 DEF Restart, idle
  <1>2. ASSUME NEW b \in Backends, BeginUse(b) PROVE CountState'
    BY <1>2 DEF BeginUse, no_ddl
  <1>3. ASSUME NEW b \in Backends, UseCached(b) PROVE CountState'
    BY <1>3 DEF UseCached
  <1>4. ASSUME NEW b \in Backends, Attach(b) PROVE CountState'
    <2>1. /\ hazard \subseteq hazard' /\ exists' = exists /\ xact' = xact /\ registry' = registry
          /\ disk' = disk /\ registry # NoDp /\ step[b] = "lookup"
          /\ step' = [step EXCEPT ![b] = "ready"]
      BY <1>4, AttachFrame
    <2>2. ~Reloading' => ~Reloading
      BY <2>1
    <2>3. /\ shm'[registry].mem = shm[registry].mem
          /\ shm'[registry].tstats = IF shm[registry].tstats = NoTable THEN disk.tstats
                                     ELSE shm[registry].tstats
      BY <1>4, <2>1, AttachShm
    <2> SUFFICES ASSUME hazard = {}, exists, ~Building, ~Reloading
                 PROVE  StateCounted(shm'[registry], disk.segs)
      BY <2>1, <2>2
    <2>4. StateCounted(shm[registry], disk.segs) /\ FileCounted(disk)
      BY <2>1
    <2>5. CASE shm[registry].tstats = NoTable
      <3>1. shm'[registry].mem = {} /\ shm'[registry].tstats = disk.tstats
        BY <2>3, <2>4, <2>5
      <3>2. shm'[registry].mem \cup disk.segs = disk.segs
        BY <3>1
      <3> QED BY <2>4, <3>1, <3>2
    <2>6. CASE shm[registry].tstats # NoTable
      BY <2>3, <2>4, <2>6
    <2> QED BY <2>5, <2>6
  <1>5. ASSUME NEW b \in Backends, LookupMiss(b) PROVE CountState'
    BY <1>5 DEF LookupMiss
  <1>6. ASSUME NEW b \in Backends, CreateSharedState(b) PROVE CountState'
    BY <1>6, CreateFrame, CreateShm
  <1>7. ASSUME NEW b \in Backends, ReloadFromDocids(b) PROVE CountState'
    <2>1. /\ hazard \subseteq hazard' /\ exists' = exists /\ xact' = xact /\ disk' = disk /\ registry' = registry
          /\ step[b] = "reload"
          /\ chain(disk, snap[b]) \cap disk.segs # {} => "reindexed" \in hazard'
      BY <1>7, ReloadFrame
    <2> SUFFICES ASSUME hazard' = {} PROVE CountState'
      OBVIOUS
    <2>2. /\ cache[b].dp = registry /\ exists /\ ~Building
          /\ shm[registry].mem = {} /\ shm[registry].tstats = NoTable
      BY <2>1, ReloadShares DEF Undisturbed
    <2>3. FileCounted(disk) /\ chain(disk, snap[b]) \in SUBSET Rows /\ disk.segs \in SUBSET Rows
      BY <2>1, <2>2, FieldTypes DEF TypeInv
    <2>4. PICK docs \in SUBSET Rows : docs = chain(disk, snap[b])
      BY <2>3
    <2>5. docs \cap disk.segs = {}
      BY <2>1, <2>4
    <2>6. /\ shm'[registry].mem = docs
          /\ shm'[registry].tstats = restored_tstats(shm[registry], docs, disk.tstats)
      <3> HIDE DEF CallInv, Building, CountInv, CountState, CountDisk, CountBuild, StateCounted, FileCounted, Reloading
      <3>1. /\ shm'[registry].mem = shm[registry].mem \cup docs
            /\ shm'[registry].tstats = restored_tstats(shm[registry], docs, disk.tstats)
        BY <1>7, <2>2, <2>4, ReloadShm
      <3> QED BY <2>2, <3>1
    <2>7. StateCounted(shm'[registry], disk.segs)
      <3> HIDE DEF StateCounted, FileCounted
      <3> QED BY <2>2, <2>3, <2>5, <2>6, RestoredCounted
    <2> QED BY <2>1, <2>7
  <1>8. ASSUME NEW b \in Backends, NEW r \in Rows, Insert(b, r) PROVE CountState'
    <2>1. /\ hazard \subseteq hazard' /\ exists' = exists /\ xact' = xact /\ registry' = registry
          /\ step' = step /\ step[b] = "ready" /\ r \notin heap
          /\ disk'.segs = disk.segs /\ disk'.tstats = disk.tstats
      BY <1>8, InsertFrame, InsertDisk
    <2> SUFFICES ASSUME hazard' = {} PROVE CountState'
      BY <2>1
    <2>2. /\ cached(b) /\ cache[b].dp = registry /\ registry # NoDp /\ exists /\ ~Building /\ ~Reloading
          /\ registry \in 1 .. MaxStates
      BY <2>1, ReadyShares DEF Undisturbed
    <2>3. /\ shm'[registry].mem = shm[registry].mem \cup {r}
          /\ shm'[registry].tstats = plus(shm[registry].tstats, counts({r}))
      <3> HIDE DEF CallInv, Building, CountInv, CountState, CountDisk, CountBuild, StateCounted, FileCounted, Reloading
      <3> QED BY <1>8, <2>2, InsertShm
    <2>4. FileCounted(disk) /\ StateCounted(shm[registry], disk.segs)
      BY <2>1, <2>2
    <2>5. r \notin shm[registry].mem \cup disk.segs
      BY <2>1, <2>2 DEF HeapInv, HeapFiles, HeapMemory
    <2>6. shm[registry].tstats = NoTable => disk.segs = {}
      <3>1. shm[registry].tstats = NoTable => disk.tstats = NoTable
        BY <1>8, <2>2, InsertFrame
      <3> QED BY <2>4, <3>1
    <2>7. shm[registry].mem \in SUBSET Rows /\ disk.segs \in SUBSET Rows
      BY <2>2, FieldTypes DEF TypeInv
    <2> HIDE DEF StateCounted, FileCounted
    <2>8. StateCounted(shm'[registry], disk.segs)
      BY <2>3, <2>4, <2>5, <2>6, <2>7, AddedCounted
    <2> QED BY <2>1, <2>8
  <1>22. ASSUME NEW b \in Backends, NEW r \in Rows, InsertSpill(b, r) PROVE CountState'
    <2> SUFFICES ASSUME hazard' = {} PROVE CountState'
      OBVIOUS
    <2>1. registry' = registry
      BY <1>22, InsertSpillFrame
    <2>2. shm'[registry].mem \cup disk'.segs = disk'.segs
      BY <1>22, InsertSpillCounted
    <2> QED BY <1>22, <2>1, <2>2, InsertSpillCounted
  <1>9. ASSUME NEW b \in Backends, Spill(b) PROVE CountState'
    <2>1. /\ hazard' = hazard /\ exists' = exists /\ xact' = xact /\ registry' = registry
          /\ step' = step /\ step[b] = "ready"
          /\ disk'.segs = disk.segs \cup shm[cache[b].dp].mem
          /\ disk'.tstats = IF shm[cache[b].dp].tstats = NoTable THEN disk.tstats
                            ELSE shm[cache[b].dp].tstats
          /\ shm'[cache[b].dp].mem = {} /\ shm'[cache[b].dp].tstats = shm[cache[b].dp].tstats
      BY <1>9, SpillFrame, SpillDisk, SpillShm
    <2>2. shm[cache[b].dp].mem # {}
      BY <1>9 DEF Spill, state
    <2> SUFFICES ASSUME hazard = {} PROVE CountState'
      BY <2>1
    <2>3. exists /\ ~Building /\ ~Reloading /\ cache[b].dp = registry /\ registry # NoDp
      BY <2>1, ReadyShares DEF Undisturbed
    <2>4. /\ shm[registry].tstats # NoTable
          /\ shm[registry].tstats = counts(shm[registry].mem \cup disk.segs)
      BY <2>2, <2>3 DEF CountState, StateCounted
    <2>5. shm[registry].mem \cup disk.segs = disk'.segs
      BY <2>1, <2>3
    <2>6. {} \cup disk'.segs = disk'.segs
      OBVIOUS
    <2> QED BY <2>1, <2>3, <2>4, <2>5, <2>6
  <1>10. ASSUME NEW b \in Backends, NEW c \in BOOLEAN, EndUse(b, c) PROVE CountState'
    BY <1>10 DEF EndUse
  <1>11. ASSUME NEW b \in Backends, EndSession(b) PROVE CountState'
    BY <1>11 DEF EndSession
  <1>12. ASSUME NEW b \in Backends, StartBuild(b) PROVE CountState'
    BY <1>12, StartFrame, StartShm, FreshFields
  <1>13. ASSUME NEW b \in Backends, BuildDocument(b) PROVE CountState'
    <2>1. xact'[b] = "build"
      BY <1>13, DocumentFrame
    <2> QED BY <2>1
  <1>14. ASSUME NEW b \in Backends, FinishBuild(b) PROVE CountState'
    <2>1. xact'[b] = "built"
      BY <1>14, FinishFrame
    <2> QED BY <2>1
  <1>15. ASSUME NEW b \in Backends, ParallelBuild(b) PROVE CountState'
    BY <1>15, ParallelFrame, ParallelCache
  <1>16. ASSUME NEW b \in Backends, CommitBuild(b) PROVE CountState'
    <2>1. /\ xact[b] \in {"built", "pbuilt"} /\ hazard' = hazard /\ registry' = registry
          /\ shm' = shm /\ disk' = disk
      BY <1>16 DEF CommitBuild
    <2> SUFFICES ASSUME hazard = {}, registry # NoDp
                 PROVE  StateCounted(shm[registry], disk.segs)
      BY <2>1
    <2>2. xact[b] # "pbuilt"
      BY DEF ShareInv, Undisturbed
    <2> QED BY <2>1, <2>2
  <1>17. ASSUME NEW b \in Backends, AbortBuild(b) PROVE CountState'
    BY <1>17, AbortFrame, AbortShm
  <1>18. ASSUME NEW b \in Backends, RollbackBuilt(b) PROVE CountState'
    <2>1. /\ hazard \subseteq hazard' /\ exists' = exists /\ registry' = registry
          /\ xact[b] \in {"built", "pbuilt"} /\ (exists /\ xact[b] = "built" => "forked" \in hazard')
      BY <1>18 DEF RollbackBuilt
    <2>2. hazard = {} /\ xact[b] = "pbuilt" => registry = NoDp
      BY DEF ShareInv, Undisturbed
    <2> QED BY <2>1, <2>2
  <1>19. ASSUME NEW b \in Backends, Drop(b) PROVE CountState'
    BY <1>19, DropFrame, DropShm
  <1>20. ASSUME NEW b \in Backends, NEW c \in BOOLEAN, EndDrop(b, c) PROVE CountState'
    BY <1>20 DEF EndDrop
  <1>21. CASE UNCHANGED vars
    BY <1>21 DEF vars
  <1> QED BY <1>1, <1>2, <1>3, <1>4, <1>5, <1>6, <1>7, <1>8, <1>9, <1>10, <1>11, <1>12, <1>13, <1>14, <1>15, <1>16, <1>17, <1>18, <1>19, <1>20, <1>21, <1>22 DEF Next, Access

(* So do those of the file to go back to. *)
LEMMA CountSavedStep ==
    ASSUME TypeInv, ShareInv, DataInv, HeapInv, CountInv, [Next]_vars
    PROVE  CountSaved'
  <1> USE Base DEF CountInv, CountSaved, CountDisk, FileCounted, CallInv, Building
  <1>1. CASE Restart
    BY <1>1 DEF Restart, idle
  <1>2. ASSUME NEW b \in Backends, BeginUse(b) PROVE CountSaved'
    BY <1>2 DEF BeginUse, no_ddl
  <1>3. ASSUME NEW b \in Backends, UseCached(b) PROVE CountSaved'
    BY <1>3 DEF UseCached
  <1>4. ASSUME NEW b \in Backends, Attach(b) PROVE CountSaved'
    BY <1>4, AttachFrame, AttachShm
  <1>5. ASSUME NEW b \in Backends, LookupMiss(b) PROVE CountSaved'
    BY <1>5 DEF LookupMiss
  <1>6. ASSUME NEW b \in Backends, CreateSharedState(b) PROVE CountSaved'
    BY <1>6, CreateFrame, CreateShm
  <1>7. ASSUME NEW b \in Backends, ReloadFromDocids(b) PROVE CountSaved'
    BY <1>7, ReloadFrame, ReloadShm, ReloadShares
  <1>8. ASSUME NEW b \in Backends, NEW r \in Rows, Insert(b, r) PROVE CountSaved'
    <2>1. xact' = xact /\ step[b] = "ready"
      BY <1>8, InsertFrame
    <2> QED BY <2>1
  <1>22. ASSUME NEW b \in Backends, NEW r \in Rows, InsertSpill(b, r) PROVE CountSaved'
    <2>1. xact' = xact /\ step[b] = "ready"
      BY <1>22, InsertSpillFrame
    <2> QED BY <2>1
  <1>9. ASSUME NEW b \in Backends, Spill(b) PROVE CountSaved'
    BY <1>9, SpillFrame, SpillShm, SpillDisk, ReadyShares
  <1>10. ASSUME NEW b \in Backends, NEW c \in BOOLEAN, EndUse(b, c) PROVE CountSaved'
    BY <1>10 DEF EndUse
  <1>11. ASSUME NEW b \in Backends, EndSession(b) PROVE CountSaved'
    BY <1>11 DEF EndSession
  <1>12. ASSUME NEW b \in Backends, StartBuild(b) PROVE CountSaved'
    BY <1>12, StartFrame, StartShm, FreshFields
  <1>13. ASSUME NEW b \in Backends, BuildDocument(b) PROVE CountSaved'
    BY <1>13, DocumentFrame
  <1>14. ASSUME NEW b \in Backends, FinishBuild(b) PROVE CountSaved'
    BY <1>14, FinishFrame, FinishShm, FinishDisk
  <1>15. ASSUME NEW b \in Backends, ParallelBuild(b) PROVE CountSaved'
    BY <1>15, ParallelFrame, ParallelCache
  <1>16. ASSUME NEW b \in Backends, CommitBuild(b) PROVE CountSaved'
    BY <1>16 DEF CommitBuild
  <1>17. ASSUME NEW b \in Backends, AbortBuild(b) PROVE CountSaved'
    BY <1>17, AbortFrame, AbortShm
  <1>18. ASSUME NEW b \in Backends, RollbackBuilt(b) PROVE CountSaved'
    BY <1>18 DEF RollbackBuilt
  <1>19. ASSUME NEW b \in Backends, Drop(b) PROVE CountSaved'
    <2>1. xact'[b] = "drop" /\ \A c \in Backends \ {b} : xact'[c] = "none"
      BY <1>19, DropFrame
    <2> QED BY <2>1
  <1>20. ASSUME NEW b \in Backends, NEW c \in BOOLEAN, EndDrop(b, c) PROVE CountSaved'
    BY <1>20 DEF EndDrop
  <1>21. CASE UNCHANGED vars
    BY <1>21 DEF vars
  <1> QED BY <1>1, <1>2, <1>3, <1>4, <1>5, <1>6, <1>7, <1>8, <1>9, <1>10, <1>11, <1>12, <1>13, <1>14, <1>15, <1>16, <1>17, <1>18, <1>19, <1>20, <1>21, <1>22 DEF Next, Access

(* A build counts what it has in hand. *)
LEMMA CountBuildStep ==
    ASSUME TypeInv, ShareInv, DataInv, HeapInv, CountInv, [Next]_vars
    PROVE  CountBuild'
  <1> USE Base DEF CountInv, CountBuild, StateCounted, FileCounted, CallInv, Building
  <1>1. CASE Restart
    BY <1>1 DEF Restart, idle
  <1>2. ASSUME NEW b \in Backends, BeginUse(b) PROVE CountBuild'
    BY <1>2 DEF BeginUse, no_ddl
  <1>3. ASSUME NEW b \in Backends, UseCached(b) PROVE CountBuild'
    BY <1>3 DEF UseCached
  <1>4. ASSUME NEW b \in Backends, Attach(b) PROVE CountBuild'
    BY <1>4, AttachFrame, AttachShm
  <1>5. ASSUME NEW b \in Backends, LookupMiss(b) PROVE CountBuild'
    BY <1>5 DEF LookupMiss
  <1>6. ASSUME NEW b \in Backends, CreateSharedState(b) PROVE CountBuild'
    BY <1>6, CreateFrame, CreateShm
  <1>7. ASSUME NEW b \in Backends, ReloadFromDocids(b) PROVE CountBuild'
    BY <1>7, ReloadFrame, ReloadShm, ReloadShares
  <1>8. ASSUME NEW b \in Backends, NEW r \in Rows, Insert(b, r) PROVE CountBuild'
    <2>1. xact' = xact /\ step[b] = "ready"
      BY <1>8, InsertFrame
    <2> QED BY <2>1
  <1>22. ASSUME NEW b \in Backends, NEW r \in Rows, InsertSpill(b, r) PROVE CountBuild'
    <2>1. xact' = xact /\ step[b] = "ready"
      BY <1>22, InsertSpillFrame
    <2> QED BY <2>1
  <1>9. ASSUME NEW b \in Backends, Spill(b) PROVE CountBuild'
    BY <1>9, SpillFrame, SpillShm, SpillDisk, ReadyShares
  <1>10. ASSUME NEW b \in Backends, NEW c \in BOOLEAN, EndUse(b, c) PROVE CountBuild'
    BY <1>10 DEF EndUse
  <1>11. ASSUME NEW b \in Backends, EndSession(b) PROVE CountBuild'
    BY <1>11 DEF EndSession
  <1>12. ASSUME NEW b \in Backends, StartBuild(b) PROVE CountBuild'
    BY <1>12, StartFrame, StartShm, FreshFields
  <1>13. ASSUME NEW b \in Backends, BuildDocument(b) PROVE CountBuild'
    <2>1. /\ xact' = xact /\ xact[b] = "build" /\ hazard' = hazard /\ registry' = registry
          /\ \A c \in Backends \ {b} : xact[c] = "none"
          /\ cache[b].dp = registry /\ registry \in 1 .. MaxStates
      BY <1>13, DocumentFrame, DocumentShm
    <2> DEFINE s == shm[registry]
    <2>2. PICK r \in todo :
            /\ todo' = todo \ {r}
            /\ \/ /\ shm'[registry].mem = {} /\ shm'[registry].tstats = NoTable
                  /\ disk'.tstats = disk.tstats
                  /\ accum' = plus(accum, plus(s.tstats, counts({r})))
               \/ /\ shm'[registry].mem = s.mem \cup {r}
                  /\ shm'[registry].tstats = plus(s.tstats, counts({r}))
                  /\ disk' = disk /\ accum' = accum
      <3> HIDE DEF CallInv, Building, CountInv, CountBuild, StateCounted, FileCounted
      <3> QED BY <1>13, <2>1, DocumentShm
    <2>3. r \in Rows /\ s.mem \in SUBSET Rows /\ s.tstats \in TableType /\ accum \in TableType
      BY <2>1, FieldTypes DEF TypeInv, TypeOK, Types
    <2> SUFFICES ASSUME hazard = {}
                 PROVE  /\ StateCounted(shm'[registry], {}) /\ todo' \cap shm'[registry].mem = {}
                        /\ disk'.tstats = NoTable
                        /\ accum' = NoTable => disk'.segs = {}
      BY <2>1
    <2>4. /\ StateCounted(s, {}) /\ todo \cap s.mem = {} /\ disk.tstats = NoTable
          /\ accum = NoTable => disk.segs = {}
      BY <2>1
    <2>5. CASE shm'[registry].mem = {} /\ shm'[registry].tstats = NoTable
               /\ disk'.tstats = disk.tstats
               /\ accum' = plus(accum, plus(s.tstats, counts({r})))
      <3>1. accum' # NoTable
        <4>1. plus(s.tstats, counts({r})) \in [Tenants -> Nat]
          BY <2>3, PlusType, CountsType
        <4>2. accum' \in [Tenants -> Nat]
          BY <2>3, <2>5, <4>1, PlusType
        <4> QED BY <2>3, <4>2, TableProper
      <3> QED BY <2>4, <2>5, <3>1
    <2>6. CASE /\ shm'[registry].mem = s.mem \cup {r}
               /\ shm'[registry].tstats = plus(s.tstats, counts({r}))
               /\ disk' = disk /\ accum' = accum
      <3>1. r \notin s.mem \cup {}
        BY <2>4
      <3>2. StateCounted(shm'[registry], {})
        <4> HIDE DEF CallInv, Building, CountInv, CountBuild, StateCounted, FileCounted, s
        <4>1. {} \in SUBSET Rows
          OBVIOUS
        <4> QED BY <2>3, <2>4, <2>6, <3>1, <4>1, AddedCounted
      <3>3. todo' \cap shm'[registry].mem = {}
        BY <2>2, <2>4, <2>6
      <3> QED BY <2>4, <2>6, <3>2, <3>3
    <2> QED BY <2>2, <2>5, <2>6
  <1>14. ASSUME NEW b \in Backends, FinishBuild(b) PROVE CountBuild'
    <2>1. /\ xact[b] = "build" /\ xact' = [xact EXCEPT ![b] = "built"] /\ hazard \subseteq hazard'
          /\ registry' = registry /\ (accum # NoTable => "miscounted" \in hazard')
      BY <1>14, FinishFrame
    <2>2. \A c \in Backends \ {b} : xact'[c] = "none"
      BY <2>1
    <2>3. xact'[b] = "built"
      BY <2>1
    <2> DEFINE s == shm[registry]
    <2>4. /\ disk'.segs = disk.segs \cup s.mem /\ docids(disk') = docids(disk)
          /\ disk'.tstats = IF s.tstats = NoTable THEN disk.tstats ELSE s.tstats
          /\ shm'[registry].mem = {} /\ shm'[registry].tstats = accum
      <3> HIDE DEF CountInv, CountDisk, CountState, CountSaved, CountBuild
      <3>1. cache[b].dp = registry
        BY <1>14, FinishShm
      <3>2. shm'[cache[b].dp].mem = {} /\ shm'[cache[b].dp].tstats = accum
        BY <1>14, FinishShm
      <3>3. /\ disk'.segs = disk.segs \cup s.mem /\ docids(disk') = docids(disk)
            /\ disk'.tstats = IF s.tstats = NoTable THEN disk.tstats ELSE s.tstats
        BY <1>14, <3>1, FinishDisk
      <3> QED BY <3>1, <3>2, <3>3
    <2> SUFFICES ASSUME hazard' = {}
                 PROVE  /\ FileCounted(disk')
                        /\ shm'[registry].mem = {} /\ shm'[registry].tstats = NoTable
      BY <2>1, <2>2, <2>3
    <2>5. accum = NoTable /\ hazard = {}
      BY <2>1
    <2>6. StateCounted(s, {}) /\ disk.tstats = NoTable /\ disk.segs = {} /\ docids(disk) = {}
      BY <2>1, <2>5 DEF DataInv, BuildInv
    <2>7. disk'.segs = s.mem \cup {} /\ docids(disk') = {}
      BY <2>4, <2>6
    <2> QED BY <2>4, <2>5, <2>6, <2>7
  <1>15. ASSUME NEW b \in Backends, ParallelBuild(b) PROVE CountBuild'
    <2>1. /\ \A c \in Backends : xact[c] = "none"
          /\ xact' = [xact EXCEPT ![b] = "pbuilt"]
          /\ disk'.segs = committed /\ docids(disk') = {}
          /\ disk'.tstats = IF committed = {} THEN NoTable ELSE counts(committed)
      BY <1>15, ParallelFrame
    <2>2. xact'[b] = "pbuilt" /\ \A c \in Backends \ {b} : xact'[c] = "none"
      BY <2>1
    <2>3. committed # {} => counts(committed) # NoTable
      <3>1. committed \in SUBSET Rows
        BY DEF TypeInv, TypeOK
      <3> QED BY <3>1, CountsType, TableProper
    <2>4. FileCounted(disk')
      BY <2>1, <2>3
    <2> QED BY <2>2, <2>4
  <1>16. ASSUME NEW b \in Backends, CommitBuild(b) PROVE CountBuild'
    BY <1>16 DEF CommitBuild
  <1>17. ASSUME NEW b \in Backends, AbortBuild(b) PROVE CountBuild'
    BY <1>17, AbortFrame, AbortShm
  <1>18. ASSUME NEW b \in Backends, RollbackBuilt(b) PROVE CountBuild'
    BY <1>18 DEF RollbackBuilt
  <1>19. ASSUME NEW b \in Backends, Drop(b) PROVE CountBuild'
    BY <1>19, DropFrame, DropShm
  <1>20. ASSUME NEW b \in Backends, NEW c \in BOOLEAN, EndDrop(b, c) PROVE CountBuild'
    BY <1>20 DEF EndDrop
  <1>21. CASE UNCHANGED vars
    BY <1>21 DEF vars
  <1> QED BY <1>1, <1>2, <1>3, <1>4, <1>5, <1>6, <1>7, <1>8, <1>9, <1>10, <1>11, <1>12, <1>13, <1>14, <1>15, <1>16, <1>17, <1>18, <1>19, <1>20, <1>21, <1>22 DEF Next, Access
(* The tenant counts that a scan uses are those of the rows that are indexed, when the build
   was one batch, the builder was not the first to insert, the sharing was not disturbed and no
   reload met a docid whose row a segment holds: builds, spills, attachments and the other
   reloads count every row once. *)
THEOREM CountsKept ==
    Spec => []CountsExact
  <1>1. Init => ShareInv /\ DataInv /\ PagesInv /\ HeapInv /\ CountInv
    <2> SUFFICES ASSUME Init PROVE ShareInv /\ DataInv /\ PagesInv /\ HeapInv /\ CountInv
      OBVIOUS
    <2>1. ~exists /\ \A b \in Backends : xact[b] = "none"
      BY DEF Init
    <2>2. ShareInv /\ DataInv /\ CountInv
      BY <2>1 DEF ShareInv, DataInv, DiskInv, DocidsInv, SavedInv, BuildInv, Building,
                  CountInv, CountDisk, CountState, CountSaved, CountBuild
    <2>3. HeapFiles
      BY FreshFields DEF Init, HeapFiles
    <2>4. HeapMemory
      BY FreshFields DEF Init, HeapMemory
    <2>5. PagesInv
      BY FreshFields, NoPagesUsed DEF Init, PagesInv
    <2> QED BY <2>2, <2>3, <2>4, <2>5 DEF HeapInv
  <1>2. TypeInv /\ ShareInv /\ DataInv /\ PagesInv /\ HeapInv /\ CountInv /\ [Next]_vars
          => ShareInv' /\ DataInv' /\ PagesInv' /\ HeapInv' /\ CountInv'
    <2> SUFFICES ASSUME TypeInv, ShareInv, DataInv, PagesInv, HeapInv, CountInv, [Next]_vars
                 PROVE  ShareInv' /\ DataInv' /\ PagesInv' /\ HeapInv' /\ CountInv'
      OBVIOUS
    <2>1. DataInv'
      BY DiskInvStep, DocidsInvStep, SavedInvStep, BuildInvStep DEF DataInv
    <2>2. HeapInv'
      BY HeapFilesStep, HeapMemoryStep DEF HeapInv
    <2>3. CountInv'
      BY CountDiskStep, CountStateStep, CountSavedStep, CountBuildStep DEF CountInv
    <2> QED BY <2>1, <2>2, <2>3, ShareStep, PagesInvStep
  <1>3. TypeInv /\ ShareInv /\ CountInv => CountsExact
    <2> SUFFICES ASSUME TypeInv, ShareInv, CountInv, Undisturbed, hazard = {},
                        NEW b \in Backends, step[b] = "ready", shm[cache[b].dp].tstats # NoTable
                 PROVE  shm[cache[b].dp].tstats = counts(shm[cache[b].dp].mem \cup disk.segs)
      BY DEF CountsExact, state
    <2>1. cache[b].dp = registry /\ registry # NoDp /\ exists /\ ~Building /\ ~Reloading
      BY ReadyShares
    <2> QED BY <2>1 DEF CountInv, CountState, StateCounted
  <1> QED BY <1>1, <1>2, <1>3, TypeAlways, PTL DEF Spec
=============================================================================
