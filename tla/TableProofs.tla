---------------------------- MODULE TableProofs ----------------------------
(***************************************************************************)
(* Theorems about Table and CachedTable for every number of slots, pages,  *)
(* records, rows and frames: what page 1 holds is safe as long as the disk *)
(* does what it is told, the table's scan is complete whatever the disk    *)
(* does, and whatever the table and other clients do with a cache, the     *)
(* heap file's half of the table keeps what Table promises of it.          *)
(***************************************************************************)
EXTENDS CachedTable, HeapFileProofs

\* Every step of the table is a step of the heap file.
LEMMA TableStepIsHeapFileStep ==
    ASSUME [TableNext]_tableVars
    PROVE  [Next]_vars
<1>1. ASSUME NEW row \in Rows, TableInsert(row)
      PROVE  \E hint \in Pages \cup {0}, r \in Rows : InsertRow(hint, r)
  BY <1>1 DEF TableInsert
<1>2. ASSUME NEW rid \in RowIds, TableDelete(rid)
      PROVE  \E r \in RowIds \cup {NullRid} : DeleteRow(r)
  BY <1>2 DEF TableDelete
<1>3. CASE CreateTable \/ Restart \/ UNCHANGED tableVars
  BY <1>3 DEF CreateTable, Restart, tableVars, Next
<1>4. QED
  BY <1>1, <1>2, <1>3 DEF TableNext, Next

LEMMA TableTypeOK == TableSpec => []TypeOK
<1>1. TableInit => TypeOK
  BY SizesAssumption DEF TableInit, Init, TypeOK, Contents
<1>2. TypeOK /\ [TableNext]_tableVars => TypeOK'
  BY TableStepIsHeapFileStep, HeapFileTypeStep
<1>3. QED
  BY <1>1, <1>2, PTL DEF TableSpec

\* A table's insert fills a free slot of page 1 or, when it sees none, slot 0
\* of page 2.
LEMMA TableInsertEffect ==
    ASSUME TypeOK, NEW row \in Rows, TableInsert(row)
    PROVE  \E rid \in RowIds, unread \in UnreadableSets :
              /\ \E c \in WriteOutcomes(disk[rid], row) :
                   disk' = [disk EXCEPT ![rid] = c]
              /\ acked' = acked \cup {<<rid, row>>}
              /\ \/ rid = <<2, 0>>
                 \/ \E slot \in LooksFree(1, unread) : rid = <<1, slot>>
<1>1. PICK unread \in UnreadableSets, rid \in RowIds :
         /\ rid = TargetOf(1, unread)
         /\ \E c \in WriteOutcomes(disk[rid], row) :
              disk' = [disk EXCEPT ![rid] = c]
         /\ result' = rid
  BY DEF TableInsert, InsertRow, FirstPage
<1>2. LooksFree(1, unread) \subseteq SlotNums
  BY DEF LooksFree
<1>3. \/ rid = <<2, 0>>
      \/ \E slot \in LooksFree(1, unread) : rid = <<1, slot>>
  BY <1>1, <1>2, TargetCases
<1>4. \E c \in WriteOutcomes(disk[rid], row) : disk' = [disk EXCEPT ![rid] = c]
  BY <1>1
<1>5. acked' = acked \cup {<<rid, row>>}
  BY <1>1 DEF TableInsert
<1>6. QED
  BY <1>3, <1>4, <1>5, Zenon

-----------------------------------------------------------------------------
(* Page 1 *)

AckedWellFormed == acked \subseteq RowIds \X Rows

LEMMA InsertKeepsFirstPage ==
    ASSUME Faults = {}, TypeOK, AckedWellFormed, FirstPageKept,
           NEW row \in Rows, TableInsert(row)
    PROVE  AckedWellFormed' /\ FirstPageKept'
<1>0. disk \in [RowIds -> Contents]
  BY DEF TypeOK
<1>1. PICK rid \in RowIds, unread \in UnreadableSets :
         /\ \E c \in WriteOutcomes(disk[rid], row) :
              disk' = [disk EXCEPT ![rid] = c]
         /\ acked' = acked \cup {<<rid, row>>}
         /\ \/ rid = <<2, 0>>
            \/ \E slot \in LooksFree(1, unread) : rid = <<1, slot>>
  BY TableInsertEffect
<1>2. disk' = [disk EXCEPT ![rid] = row]
  BY <1>1 DEF WriteOutcomes
<1>3. rid[1] = 1 => disk[rid] = Free
  <2>1. ASSUME NEW slot \in LooksFree(1, unread), rid = <<1, slot>>
        PROVE  disk[rid] = Free
    BY <2>1, <1>1 DEF LooksFree, UnreadableSets
  <2>2. ASSUME rid = <<2, 0>>
        PROVE  rid[1] # 1
    BY <2>2
  <2>3. QED
    BY <1>1, <2>1, <2>2
<1>4. acked' \subseteq RowIds \X Rows
  BY <1>1 DEF AckedWellFormed
<1>5. ASSUME NEW a \in acked', a[1][1] = 1
      PROVE  GetRow(a[1])' = a[2]
  <2>1. CASE a \in acked
    <3>1. a[1] \in RowIds /\ a[2] \in Rows
      BY <2>1 DEF AckedWellFormed
    <3>2. disk[a[1]] = a[2]
      BY <1>5, <2>1 DEF FirstPageKept, GetRow
    <3>3. a[1] # rid
      BY <1>3, <1>5, <3>1, <3>2, RowsAssumption
    <3>4. QED
      BY <1>0, <1>2, <3>1, <3>2, <3>3 DEF GetRow
  <2>2. CASE a = <<rid, row>>
    BY <1>0, <1>2, <2>2 DEF GetRow
  <2>3. QED
    BY <1>1, <2>1, <2>2
<1>6. QED
  BY <1>4, <1>5 DEF AckedWellFormed, FirstPageKept

LEMMA DeleteKeepsFirstPage ==
    ASSUME Faults = {}, TypeOK, AckedWellFormed, FirstPageKept,
           NEW rid \in RowIds, DeleteRow(rid), acked' = {a \in acked : a[1] # rid}
    PROVE  AckedWellFormed' /\ FirstPageKept'
<1>1. disk \in [RowIds -> Contents]
  BY DEF TypeOK
<1>2. rid # NullRid
  BY SizesAssumption DEF RowIds, Pages, NullRid
<1>3. disk' = [disk EXCEPT ![rid] = Free]
  BY <1>2 DEF DeleteRow, WriteOutcomes
<1>4. ASSUME NEW a \in acked'
      PROVE  disk'[a[1]] = disk[a[1]]
  <2>1. a[1] \in RowIds /\ a[1] # rid
    BY DEF AckedWellFormed
  <2>2. QED
    BY <1>1, <1>3, <2>1
<1>5. QED
  BY <1>4 DEF AckedWellFormed, FirstPageKept, GetRow

\* On a disk that does what it is told, no further insert, deletion or restart
\* costs a row whose id lies on page 1.
THEOREM TableKeepsFirstPage ==
    ASSUME Faults = {}
    PROVE  TableSpec => []FirstPageKept
<1>1. TableInit => AckedWellFormed /\ FirstPageKept
  BY DEF TableInit, AckedWellFormed, FirstPageKept
<1>2. TypeOK /\ AckedWellFormed /\ FirstPageKept /\ [TableNext]_tableVars
        => AckedWellFormed' /\ FirstPageKept'
  <2> SUFFICES ASSUME TypeOK, AckedWellFormed, FirstPageKept, [TableNext]_tableVars
               PROVE  AckedWellFormed' /\ FirstPageKept'
    OBVIOUS
  <2>1. ASSUME NEW row \in Rows, TableInsert(row)
        PROVE  AckedWellFormed' /\ FirstPageKept'
    BY <2>1, InsertKeepsFirstPage
  <2>2. ASSUME NEW rid \in RowIds, TableDelete(rid)
        PROVE  AckedWellFormed' /\ FirstPageKept'
    BY <2>2, DeleteKeepsFirstPage DEF TableDelete
  <2>3. CASE CreateTable
    BY <2>3 DEF CreateTable, CreateHeapfile, AckedWellFormed, FirstPageKept, GetRow
  <2>4. CASE Restart
    BY <2>4 DEF Restart, CloseProcess, LoadHeapfile, AckedWellFormed, FirstPageKept,
                GetRow
  <2>5. CASE UNCHANGED tableVars
    BY <2>5 DEF tableVars, vars, AckedWellFormed, FirstPageKept, GetRow
  <2>6. QED
    BY <2>1, <2>2, <2>3, <2>4, <2>5 DEF TableNext
<1>3. QED
  BY <1>1, <1>2, TableTypeOK, PTL DEF TableSpec

-----------------------------------------------------------------------------
(* Scans *)

\* The table never writes beyond page 2.
TwoPages == \A rid \in Live : rid[1] \in {1, 2}

LEMMA InsertInTwoPages ==
    ASSUME TypeOK, TwoPages, NEW row \in Rows, TableInsert(row)
    PROVE  TwoPages'
<1>1. PICK rid \in RowIds, unread \in UnreadableSets :
         /\ \E c \in WriteOutcomes(disk[rid], row) :
              disk' = [disk EXCEPT ![rid] = c]
         /\ acked' = acked \cup {<<rid, row>>}
         /\ \/ rid = <<2, 0>>
            \/ \E slot \in LooksFree(1, unread) : rid = <<1, slot>>
  BY TableInsertEffect
<1>2. rid[1] \in {1, 2}
  BY <1>1
<1>3. \A r \in RowIds : r # rid => disk'[r] = disk[r]
  BY <1>1 DEF TypeOK
<1>4. QED
  BY <1>2, <1>3 DEF TwoPages, Live

LEMMA DeleteInTwoPages ==
    ASSUME TypeOK, TwoPages, NEW rid \in RowIds, DeleteRow(rid)
    PROVE  TwoPages'
<1>1. rid # NullRid
  BY SizesAssumption DEF RowIds, Pages, NullRid
<1>2. PICK c \in WriteOutcomes(disk[rid], Free) : disk' = [disk EXCEPT ![rid] = c]
  BY <1>1 DEF DeleteRow
<1>3. \A r \in RowIds : disk'[r] = disk[r] \/ disk'[r] = Free
  BY <1>2, RowsAssumption DEF WriteOutcomes, TypeOK
<1>4. QED
  BY <1>3 DEF TwoPages, Live

LEMMA TwoPagesScanned ==
    ASSUME ScanPages > 2, TwoPages
    PROVE  TableScanComplete
<1> SUFFICES ASSUME NEW rid \in Live
             PROVE  rid \in Scanned
  BY DEF TableScanComplete
<1>1. rid[1] = 1 \/ rid[1] = 2
  BY DEF TwoPages
<1>2. rid[1] < ScanPages
  BY <1>1, SizesAssumption
<1>3. 2 .. rid[1] - 1 = {}
  BY <1>1
<1>4. QED
  BY <1>2, <1>3 DEF Scanned

\* A table's scan returns every row of its file, also after deletions, failed
\* writes and restarts, as long as max_pages leaves room for the two pages.
THEOREM TableScansComplete ==
    ASSUME ScanPages > 2
    PROVE  TableSpec => []TableScanComplete
<1>1. TableInit => TwoPages
  BY DEF TableInit, Init, TwoPages, Live
<1>2. TypeOK /\ TwoPages /\ [TableNext]_tableVars => TwoPages'
  <2> SUFFICES ASSUME TypeOK, TwoPages, [TableNext]_tableVars
               PROVE  TwoPages'
    OBVIOUS
  <2>1. ASSUME NEW row \in Rows, TableInsert(row)
        PROVE  TwoPages'
    BY <2>1, InsertInTwoPages
  <2>2. ASSUME NEW rid \in RowIds, TableDelete(rid)
        PROVE  TwoPages'
    BY <2>2, DeleteInTwoPages DEF TableDelete
  <2>3. CASE CreateTable \/ Restart \/ UNCHANGED tableVars
    BY <2>3 DEF CreateTable, CreateHeapfile, Restart, CloseProcess, LoadHeapfile,
                tableVars, vars, TwoPages, Live
  <2>4. QED
    BY <2>1, <2>2, <2>3 DEF TableNext
<1>3. QED
  BY <1>1, <1>2, TwoPagesScanned, TableTypeOK, PTL DEF TableSpec

-----------------------------------------------------------------------------
(* With a page cache *)


\* What an operation does to the heap file: an insert with page 0, a deletion,
\* the opening and closing of the file, or nothing at all.
PendingCounted == pending # None => pending \in Rows /\ numRecords < MaxRecords

LEMMA CachedStepCases ==
    ASSUME TypeOK, PendingCounted, [CachedNext]_cachedVars
    PROVE  /\ PendingCounted'
           /\ TypeOK'
           /\ \/ /\ pending \in Rows /\ TableInsert(pending)
                 /\ heapRows' = heapRows \cup {pending}
              \/ /\ \E rid \in RowIds : DeleteRow(rid) /\ acked' = {a \in acked : a[1] # rid}
                 /\ UNCHANGED heapRows
              \/ UNCHANGED <<disk, acked, heapRows>>
<1>1. CASE Create
  <2>1. [Next]_vars /\ UNCHANGED <<disk, acked, heapRows, pending>> /\ pending = None
    BY <1>1 DEF Create, CreateTable, CreateHeapfile, Idle, Next
  <2>2. QED
    BY <2>1, HeapFileTypeStep DEF PendingCounted
<1>2. CASE Load
  <2>1. [Next]_vars /\ UNCHANGED <<disk, acked, heapRows, pending>> /\ pending = None
    BY <1>2 DEF Load, LoadHeapfile, Idle, Next
  <2>2. QED
    BY <2>1, HeapFileTypeStep DEF PendingCounted
<1>3. CASE Stop
  <2>1. [Next]_vars /\ UNCHANGED <<disk, acked, heapRows, pending>> /\ pending = None
    BY <1>3 DEF Stop, CloseProcess, Idle, Next
  <2>2. QED
    BY <2>1, HeapFileTypeStep DEF PendingCounted
<1>4. ASSUME NEW row \in Rows, InsertReadsPage(row)
      PROVE  /\ PendingCounted' /\ TypeOK'
             /\ UNCHANGED <<disk, acked, heapRows>>
  BY <1>4 DEF InsertReadsPage, PendingCounted, tableVars, vars, TypeOK
<1>5. CASE InsertCached
  <2>1. /\ pending # None /\ pending' = None
        /\ FreeSlots # {}
        /\ result' = <<1, Min(FreeSlots)>>
        /\ numRecords' = numRecords + 1
        /\ UNCHANGED <<disk, header, handle, acked, heapRows>>
    BY <1>5 DEF InsertCached, Inserting
  <2>2. Min(FreeSlots) \in SlotNums
    <3>1. FreeSlots \subseteq SlotNums /\ SlotNums \subseteq Nat
      BY SizesAssumption DEF FreeSlots, SlotNums
    <3>2. QED
      BY <2>1, <3>1, MinInSet
  <2>3. result' \in RowIds
    BY <2>1, <2>2, SizesAssumption DEF RowIds, Pages
  <2>4. numRecords' \in 0 .. MaxRecords
    BY <2>1, SizesAssumption DEF TypeOK, PendingCounted
  <2>5. QED
    BY <2>1, <2>3, <2>4 DEF TypeOK, PendingCounted
<1>6. CASE InsertDirect
  <2>1. /\ pending # None /\ pending' = None
        /\ TableInsert(pending)
        /\ heapRows' = heapRows \cup {pending}
    BY <1>6 DEF InsertDirect, Inserting
  <2>2. pending \in Rows
    BY <2>1 DEF PendingCounted
  <2>3. [Next]_vars
    BY <2>1, <2>2 DEF TableInsert, Next
  <2>4. QED
    BY <2>1, <2>2, <2>3, HeapFileTypeStep DEF PendingCounted
<1>7. ASSUME NEW rid \in RowIds, ReadRow(rid)
      PROVE  UNCHANGED <<tableVars, pending, heapRows>>
  BY <1>7 DEF ReadRow
<1>8. ASSUME NEW rid \in RowIds, Delete(rid)
      PROVE  /\ PendingCounted' /\ TypeOK'
             /\ DeleteRow(rid) /\ acked' = {a \in acked : a[1] # rid}
             /\ UNCHANGED heapRows
  <2>1. /\ DeleteRow(rid) /\ acked' = {a \in acked : a[1] # rid}
        /\ pending' = pending /\ pending = None /\ heapRows' = heapRows
    BY <1>8 DEF Delete, Idle
  <2>2. [Next]_vars
    BY <2>1 DEF Next
  <2>3. QED
    BY <2>1, <2>2, HeapFileTypeStep DEF PendingCounted
<1>9. ASSUME NEW id \in Cache!PageIds, OtherClient(id)
      PROVE  UNCHANGED <<tableVars, pending, heapRows>>
  BY <1>9 DEF OtherClient
<1>10. ASSUME UNCHANGED <<tableVars, pending, heapRows>>
       PROVE  PendingCounted' /\ TypeOK' /\ UNCHANGED <<disk, acked, heapRows>>
  BY <1>10 DEF tableVars, vars, PendingCounted, TypeOK
<1>11. CASE UNCHANGED cachedVars
  BY <1>10, <1>11 DEF cachedVars
<1>12. QED
  BY <1>1, <1>2, <1>3, <1>4, <1>5, <1>6, <1>7, <1>8, <1>9, <1>10, <1>11 DEF CachedNext

LEMMA CachedTypes == CachedSpec => [](TypeOK /\ PendingCounted)
<1>1. CachedInit => TypeOK /\ PendingCounted
  BY SizesAssumption DEF CachedInit, TableInit, Init, TypeOK, Contents, PendingCounted
<1>2. TypeOK /\ PendingCounted /\ [CachedNext]_cachedVars => (TypeOK /\ PendingCounted)'
  BY CachedStepCases
<1>3. QED
  BY <1>1, <1>2, PTL DEF CachedSpec

-----------------------------------------------------------------------------
(* The frames of the cache *)

\* PageCache takes these operators from the same module.
LEMMA SameStacks ==
    ASSUME NEW s
    PROVE  Cache!Last(s) = Last(s) /\ Cache!Front(s) = Front(s)
BY DEF Cache!Last, Last, Cache!Front, Front

\* A free frame is neither in use nor mapped, and the frame mapped under an id
\* holds a page of that id.
FramesSound ==
    /\ Cache!TypeOK
    /\ IsInjective(freePages)
    /\ Range(usedPages) \cap Range(freePages) = {}
    /\ \A id \in Cache!Mapped :
         pageMap[id] \notin Range(freePages) /\ cachePages[pageMap[id]].id = id

\* The page an insert wrote through last, also after the cache has ended.
OwnPageFound ==
    ownPage # None /\ pageMap[1] # None => frameSlots[pageMap[1]] = ownPage

CacheSound ==
    /\ FramesSound /\ OwnPageFound
    /\ frameSlots \in [Cache!Frames -> Slots]
    /\ ownPage \in Slots \cup {None}

LEMMA FrameFacts ==
    /\ NumPages \in Nat \ {0} /\ None \notin Cache!Frames /\ Cache!Frames \subseteq Nat
    /\ 1 \in Cache!AnyId /\ 0 \in Cache!AnyId /\ Cache!PageIds \subseteq Cache!AnyId
    /\ \A id \in Cache!AnyId, file \in {Own, Other} :
         [id |-> id, file |-> file] \in Cache!PageObjects
    /\ \A page \in Cache!PageObjects : page.id \in Cache!AnyId
BY FramesAssumption DEF Cache!Frames, Cache!AnyId, Cache!PageIds, Cache!PageObjects

\* evict_add_page refills one frame, under which no other id stays mapped.
LEMMA FrameFilled ==
    ASSUME FramesSound, NEW page \in Cache!PageObjects,
           Cache!EvictAddPage(page), status' # "undefined"
    PROVE  \E i \in Cache!Frames :
             /\ i = FilledFrame
             /\ cachePages' = [cachePages EXCEPT ![i] = page]
             /\ pageMap' \in [Cache!AnyId -> Cache!Frames \cup {None}]
             /\ pageMap'[page.id] = i
             /\ \A id \in Cache!AnyId \ {page.id} :
                  pageMap'[id] # None => pageMap'[id] = pageMap[id] /\ pageMap[id] # i
             /\ usedPages' \in Seq(Cache!Frames) /\ freePages' \in Seq(Cache!Frames)
             /\ IsInjective(freePages')
             /\ Range(usedPages') \cap Range(freePages') = {}
             /\ Range(freePages') \subseteq Range(freePages) /\ i \notin Range(freePages')
<1>1. /\ cachePages \in [Cache!Frames -> Cache!PageObjects]
      /\ pageMap \in [Cache!AnyId -> Cache!Frames \cup {None}]
      /\ usedPages \in Seq(Cache!Frames) /\ freePages \in Seq(Cache!Frames)
      /\ page.id \in Cache!AnyId
  BY FrameFacts DEF FramesSound, Cache!TypeOK
<1>2. /\ IsInjective(freePages)
      /\ Range(usedPages) \cap Range(freePages) = {}
      /\ \A id \in Cache!AnyId : pageMap[id] # None =>
           pageMap[id] \notin Range(freePages) /\ cachePages[pageMap[id]].id = id
  BY DEF FramesSound, Cache!Mapped
<1>3. CASE Cache!HasSpace /\ freePages # <<>> /\ Cache!AddToFree(page)
  <2> DEFINE i == Last(freePages)
  <2>1. /\ i = FilledFrame
        /\ cachePages' = [cachePages EXCEPT ![i] = page]
        /\ pageMap' = [pageMap EXCEPT ![page.id] = i]
        /\ usedPages' = Append(usedPages, i)
        /\ freePages' = Front(freePages)
    BY <1>3, SameStacks DEF FilledFrame, Cache!AddToFree
  <2>2. /\ i \in Cache!Frames /\ i \in Range(freePages)
        /\ Front(freePages) \in Seq(Cache!Frames)
        /\ Range(Front(freePages)) \subseteq Range(freePages)
        /\ IsInjective(Front(freePages)) /\ i \notin Range(Front(freePages))
    BY <1>1, <1>2, <1>3, Popped
  <2> HIDE DEF i
  <2>3. /\ Append(usedPages, i) \in Seq(Cache!Frames)
        /\ Range(Append(usedPages, i)) = Range(usedPages) \cup {i}
    BY <1>1, <2>2, Pushed
  <2>4. pageMap' \in [Cache!AnyId -> Cache!Frames \cup {None}] /\ pageMap'[page.id] = i
    BY <1>1, <2>1, <2>2
  <2>5. \A id \in Cache!AnyId \ {page.id} :
          pageMap'[id] # None => pageMap'[id] = pageMap[id] /\ pageMap[id] # i
    BY <1>1, <1>2, <2>1, <2>2
  <2>6. Range(usedPages') \cap Range(freePages') = {}
    BY <1>2, <2>1, <2>2, <2>3
  <2>7. QED
    BY <2>1, <2>2, <2>3, <2>4, <2>5, <2>6
<1>4. CASE ~Cache!HasSpace /\ Cache!EvictTop(page)
  <2> DEFINE i == Last(usedPages)
  <2>1. /\ i = FilledFrame
        /\ cachePages' = [cachePages EXCEPT ![i] = page]
        /\ pageMap' = [pageMap EXCEPT ![cachePages[i].id] = None, ![page.id] = i]
        /\ usedPages' = Front(usedPages)
        /\ freePages' = freePages
    BY <1>4, SameStacks DEF FilledFrame, Cache!EvictTop
  <2>2. usedPages # <<>>
    BY <1>4, FrameFacts DEF Cache!HasSpace
  <2>3. /\ i \in Cache!Frames /\ i \in Range(usedPages)
        /\ Front(usedPages) \in Seq(Cache!Frames)
        /\ Range(Front(usedPages)) \subseteq Range(usedPages)
    BY <1>1, <2>2, Popped
  <2> HIDE DEF i
  <2>4. pageMap' \in [Cache!AnyId -> Cache!Frames \cup {None}] /\ pageMap'[page.id] = i
    BY <1>1, <2>1, <2>3
  <2>5. \A id \in Cache!AnyId \ {page.id} :
          pageMap'[id] # None => pageMap'[id] = pageMap[id] /\ pageMap[id] # i
    BY <1>1, <1>2, <2>1, <2>3
  <2>6. i \notin Range(freePages) /\ Range(usedPages') \cap Range(freePages') = {}
    BY <1>2, <2>1, <2>3
  <2>7. QED
    BY <1>1, <1>2, <2>1, <2>3, <2>4, <2>5, <2>6
<1>5. QED
  BY <1>3, <1>4 DEF Cache!EvictAddPage

\* What a page is cached with is found under its id, and what an insert wrote
\* through stays where it is as long as it is mapped.
LEMMA CachedKeepsSound ==
    ASSUME CacheSound, status = "running",
           NEW page \in Cache!PageObjects, Cache!EvictAddPage(page),
           lastPage' \in [{Own, Other} -> 0 .. MaxPageId],
           NEW data \in Slots, Cached(data)
    PROVE  CacheSound'
<1>0. FramesSound /\ OwnPageFound
  BY DEF CacheSound
<1>1. /\ frameSlots \in [Cache!Frames -> Slots] /\ ownPage \in Slots \cup {None}
      /\ page.id \in Cache!AnyId
  BY FrameFacts DEF CacheSound
<1>2. latest' \in [Cache!AnyId -> Cache!PageObjects]
  BY <1>0 DEF Cache!EvictAddPage, FramesSound, Cache!TypeOK
<1>3. CASE status' = "undefined"
  <2>1. UNCHANGED <<cachePages, pageMap, usedPages, freePages>>
    BY <1>3 DEF Cache!EvictAddPage, Cache!cacheVars
  <2>2. UNCHANGED <<frameSlots, ownPage>>
    BY <1>3 DEF Cached
  <2>3. FramesSound'
    BY <1>0, <1>2, <1>3, <2>1 DEF FramesSound, Cache!TypeOK, Cache!Mapped
  <2>4. QED
    BY <1>0, <1>1, <2>1, <2>2, <2>3 DEF CacheSound, OwnPageFound
<1>4. CASE status' # "undefined"
  <2>1. PICK i \in Cache!Frames :
             /\ i = FilledFrame
             /\ cachePages' = [cachePages EXCEPT ![i] = page]
             /\ pageMap' \in [Cache!AnyId -> Cache!Frames \cup {None}]
             /\ pageMap'[page.id] = i
             /\ \A id \in Cache!AnyId \ {page.id} :
                  pageMap'[id] # None => pageMap'[id] = pageMap[id] /\ pageMap[id] # i
             /\ usedPages' \in Seq(Cache!Frames) /\ freePages' \in Seq(Cache!Frames)
             /\ IsInjective(freePages')
             /\ Range(usedPages') \cap Range(freePages') = {}
             /\ Range(freePages') \subseteq Range(freePages) /\ i \notin Range(freePages')
    BY <1>0, <1>4, FrameFilled
  <2>2. /\ cachePages \in [Cache!Frames -> Cache!PageObjects]
        /\ pageMap \in [Cache!AnyId -> Cache!Frames \cup {None}]
        /\ \A id \in Cache!AnyId : pageMap[id] # None =>
             pageMap[id] \notin Range(freePages) /\ cachePages[pageMap[id]].id = id
    BY <1>0 DEF FramesSound, Cache!TypeOK, Cache!Mapped
  <2>3. /\ cachePages' \in [Cache!Frames -> Cache!PageObjects]
        /\ cachePages'[i] = page
        /\ \A j \in Cache!Frames \ {i} : cachePages'[j] = cachePages[j]
    BY <2>1, <2>2
  <2>4. status' = "running"
    BY <1>4 DEF Cache!EvictAddPage
  <2>5. Cache!TypeOK'
    BY <1>2, <2>1, <2>3, <2>4 DEF Cache!TypeOK
  <2>6. ASSUME NEW id \in Cache!AnyId, pageMap'[id] # None
        PROVE  pageMap'[id] \notin Range(freePages') /\ cachePages'[pageMap'[id]].id = id
    <3>1. CASE id = page.id
      BY <2>1, <2>3, <3>1
    <3>2. CASE id # page.id
      <4>1. pageMap'[id] = pageMap[id] /\ pageMap[id] # i /\ pageMap[id] \in Cache!Frames
        BY <2>1, <2>2, <2>6, <3>2
      <4>2. QED
        BY <2>1, <2>2, <2>3, <2>6, <4>1
    <3>3. QED
      BY <3>1, <3>2
  <2>7. FramesSound'
    BY <2>1, <2>5, <2>6 DEF FramesSound, Cache!Mapped
  <2>8. /\ frameSlots' = [frameSlots EXCEPT ![i] = data]
        /\ ownPage' = IF page.id # 1 THEN ownPage
                      ELSE IF pending # None THEN data ELSE None
    BY <1>4, <2>1, <2>3 DEF Cached
  <2>9. OwnPageFound'
    <3>1. CASE page.id = 1
      BY <1>1, <2>1, <2>8, <3>1 DEF OwnPageFound
    <3>2. CASE page.id # 1
      <4>1. 1 \in Cache!AnyId \ {page.id}
        BY <3>2, FrameFacts
      <4>2. pageMap'[1] # None => /\ pageMap'[1] = pageMap[1] /\ pageMap[1] # i
                                  /\ pageMap[1] \in Cache!Frames
        BY <2>1, <2>2, <4>1
      <4>3. QED
        BY <1>0, <1>1, <2>8, <3>2, <4>2 DEF OwnPageFound
    <3>3. QED
      BY <3>1, <3>2
  <2>10. QED
    BY <1>1, <2>7, <2>8, <2>9 DEF CacheSound
<1>5. QED
  BY <1>3, <1>4

\* A read of the cache, by whatever client.
LEMMA FetchKeepsSound ==
    ASSUME CacheSound, NEW id \in Cache!PageIds, NEW file \in {Own, Other},
           NEW data \in Slots, Fetch(id, file, data)
    PROVE  CacheSound'
<1>1. lastPage \in [{Own, Other} -> 0 .. MaxPageId]
  BY DEF CacheSound, FramesSound, Cache!TypeOK
<1>2. CASE UNCHANGED <<cachePages, pageMap, usedPages, freePages, lastPage, latest,
                       frameSlots, ownPage>> /\ status' \in {status, "undefined"}
  BY <1>2 DEF CacheSound, FramesSound, OwnPageFound, Cache!TypeOK, Cache!Mapped
<1>3. CASE Cache!ReadHit(id, file) /\ UNCHANGED <<frameSlots, ownPage>>
  BY <1>2, <1>3 DEF Cache!ReadHit, Cache!cacheVars
<1>4. CASE Cache!ReadMiss(id, file) /\ Cached(data)
  <2>1. CASE status' = "undefined" /\ UNCHANGED <<Cache!cacheVars, latest>>
    BY <1>2, <1>4, <2>1 DEF Cache!ReadMiss, Cached, Cache!cacheVars
  <2>2. ASSUME NEW seen \in Cache!AnyId, Cache!EvictAddPage([id |-> seen, file |-> file])
        PROVE  CacheSound'
    <3>1. status = "running" /\ lastPage' = lastPage
      BY <1>4 DEF Cache!ReadMiss
    <3>2. [id |-> seen, file |-> file] \in Cache!PageObjects
      BY FrameFacts
    <3>3. QED
      BY <1>1, <1>4, <2>2, <3>1, <3>2, CachedKeepsSound
  <2>3. id \in Cache!AnyId
    BY FrameFacts
  <2>4. QED
    BY <1>4, <2>1, <2>2, <2>3 DEF Cache!ReadMiss
<1>5. QED
  BY <1>3, <1>4 DEF Fetch

\* A write through the cache, by whatever client, done or failed.
LEMMA WriteKeepsSound ==
    ASSUME CacheSound, NEW id \in Cache!PageIds, NEW file \in {Own, Other},
           NEW data \in Slots, WriteThrough(id, file), Cached(data)
    PROVE  CacheSound'
<1>1. lastPage \in [{Own, Other} -> 0 .. MaxPageId]
  BY DEF CacheSound, FramesSound, Cache!TypeOK
<1>2. status = "running" /\ Cache!EvictAddPage([id |-> id, file |-> file])
  BY DEF WriteThrough, Cache!WriteThrough, Cache!WriteThroughFails
<1>3. lastPage' \in [{Own, Other} -> 0 .. MaxPageId]
  <2>1. id \in 0 .. MaxPageId
    BY FramesAssumption DEF Cache!PageIds
  <2>2. QED
    BY <1>1, <2>1 DEF WriteThrough, Cache!WriteThrough, Cache!WriteThroughFails
<1>4. [id |-> id, file |-> file] \in Cache!PageObjects
  BY FrameFacts
<1>5. QED
  BY <1>2, <1>3, <1>4, CachedKeepsSound

\* The cache of a process that has just started.
EmptyCache ==
    /\ cachePages = [i \in Cache!Frames |-> Cache!NoPage]
    /\ pageMap = [id \in Cache!AnyId |-> None]
    /\ usedPages = <<>>
    /\ freePages = [i \in 1 .. NumPages |-> i - 1]
    /\ lastPage \in [{Own, Other} -> 0 .. MaxPageId]
    /\ status = "running"
    /\ latest = [id \in Cache!AnyId |-> Cache!NoPage]
    /\ frameSlots = [i \in Cache!Frames |-> Blank]
    /\ ownPage = None

LEMMA EmptyCacheSound == EmptyCache => CacheSound
<1> SUFFICES ASSUME EmptyCache
             PROVE  CacheSound
  OBVIOUS
<1>1. freePages = [k \in 1 .. NumPages |-> k - 1] /\ usedPages = <<>>
  BY DEF EmptyCache
<1>2. freePages \in Seq(Cache!Frames)
  BY <1>1, FramesAssumption DEF Cache!Frames
<1>3. IsInjective(freePages) /\ Range(usedPages) = {}
  BY <1>1, FramesAssumption DEF IsInjective, Range
<1>4. Cache!NoPage \in Cache!PageObjects
  BY FramesAssumption DEF Cache!NoPage, Cache!PageObjects, Cache!AnyId
<1>5. Cache!TypeOK
  BY <1>1, <1>2, <1>4 DEF EmptyCache, Cache!TypeOK
<1>6. Cache!Mapped = {} /\ ownPage = None
  BY DEF EmptyCache, Cache!Mapped
<1>7. FramesSound /\ OwnPageFound
  BY <1>3, <1>5, <1>6 DEF FramesSound, OwnPageFound
<1>8. frameSlots \in [Cache!Frames -> Slots]
  BY DEF EmptyCache, Blank, Slots, Contents
<1>9. QED
  BY <1>6, <1>7, <1>8 DEF CacheSound

-----------------------------------------------------------------------------
(* The table's use of the cache *)

CachedSound == CachedTypeOK /\ PendingCounted /\ CacheSound

LEMMA CachedSoundInit == CachedInit => CachedSound
<1> SUFFICES ASSUME CachedInit
             PROVE  CachedSound
  OBVIOUS
<1>1. TypeOK /\ PendingCounted
  BY SizesAssumption DEF CachedInit, TableInit, Init, TypeOK, Contents, PendingCounted
<1>2. EmptyCache
  BY FramesAssumption DEF CachedInit, Cache!Init, EmptyCache
<1>3. CacheSound
  BY <1>2, EmptyCacheSound
<1>4. Blank \in Slots
  BY DEF Blank, Slots, Contents
<1>5. CachedTypeOK
  BY <1>1, <1>3, <1>4 DEF CachedInit, CachedTypeOK, CacheSound, FramesSound
<1>6. QED
  BY <1>1, <1>3, <1>5 DEF CachedSound

LEMMA CachedSoundStep ==
    ASSUME CachedSound, [CachedNext]_cachedVars
    PROVE  CachedSound'
<1>1. /\ TypeOK /\ PendingCounted /\ CacheSound
      /\ mapped \in BOOLEAN /\ pending \in Rows \cup {None}
      /\ buffer \in Slots /\ heapRows \subseteq Rows
  BY DEF CachedSound, CachedTypeOK
<1>2. TypeOK' /\ PendingCounted'
  BY <1>1, CachedStepCases
<1> DEFINE LocalsTyped == /\ mapped' \in BOOLEAN /\ pending' \in Rows \cup {None}
                          /\ buffer' \in Slots /\ heapRows' \subseteq Rows
<1>3. SUFFICES LocalsTyped /\ CacheSound'
  BY <1>2 DEF CachedSound, CachedTypeOK, CacheSound, FramesSound
<1>4. 1 \in Cache!PageIds
  BY FramesAssumption DEF Cache!PageIds
<1>5. CASE UNCHANGED <<cache, frameSlots, ownPage>> /\ LocalsTyped
  BY <1>1, <1>5 DEF cache, CacheSound, FramesSound, OwnPageFound, Cache!TypeOK, Cache!Mapped
<1>6. CASE Create
  BY <1>1, <1>5, <1>6 DEF Create
<1>7. CASE Load
  BY <1>1, <1>5, <1>7 DEF Load
<1>8. CASE Stop
  <2>1. LocalsTyped
    BY <1>1, <1>8 DEF Stop
  <2>2. EmptyCache'
    BY <1>1, <1>8 DEF Stop, Idle, EmptyCache, CacheSound, FramesSound, Cache!TypeOK
  <2>3. CacheSound'
    BY <2>2, EmptyCacheSound, PTL
  <2>4. QED
    BY <2>1, <2>3
<1>9. ASSUME NEW row \in Rows, InsertReadsPage(row)
      PROVE  LocalsTyped /\ CacheSound'
  <2>1. PICK data \in Slots : Fetch(1, Own, data) /\ buffer' = data
    BY <1>9 DEF InsertReadsPage
  <2>2. CacheSound'
    BY <1>1, <1>4, <2>1, FetchKeepsSound
  <2>3. LocalsTyped
    BY <1>1, <1>9, <2>1 DEF InsertReadsPage
  <2>4. QED
    BY <2>2, <2>3
<1>10. CASE InsertCached
  <2> DEFINE data == [buffer EXCEPT ![Min(FreeSlots)] = pending]
  <2>1. /\ pending # None /\ pending' = None /\ buffer' = Blank
        /\ mapped' = TRUE /\ UNCHANGED heapRows
        /\ WriteThrough(1, Own) /\ Cached(data)
    BY <1>10 DEF InsertCached, Inserting
  <2>2. data \in Slots
    BY <1>1, <2>1 DEF Slots, Contents
  <2>3. Blank \in Slots
    BY DEF Blank, Slots, Contents
  <2> HIDE DEF data
  <2>4. CacheSound'
    BY <1>1, <1>4, <2>1, <2>2, WriteKeepsSound
  <2>5. QED
    BY <1>1, <2>1, <2>3, <2>4
<1>11. CASE InsertDirect
  <2>1. Blank \in Slots
    BY DEF Blank, Slots, Contents
  <2>2. pending \in Rows
    BY <1>1, <1>11 DEF InsertDirect, Inserting
  <2>3. LocalsTyped /\ UNCHANGED <<cache, frameSlots, ownPage>>
    BY <1>1, <1>11, <2>1, <2>2 DEF InsertDirect, Inserting
  <2>4. QED
    BY <1>5, <2>3
<1>12. ASSUME NEW rid \in RowIds, ReadRow(rid)
       PROVE  LocalsTyped /\ CacheSound'
  <2>1. PICK data \in Slots : Fetch(rid[1], Own, data)
    BY <1>12 DEF ReadRow
  <2>2. rid[1] \in Cache!PageIds
    BY <1>12, SizesAssumption, FramesAssumption DEF ReadRow, RowIds, Pages, Cache!PageIds
  <2>3. CacheSound'
    BY <1>1, <2>1, <2>2, FetchKeepsSound
  <2>4. QED
    BY <1>1, <1>12, <2>3 DEF ReadRow
<1>13. ASSUME NEW rid \in RowIds, Delete(rid)
       PROVE  LocalsTyped /\ CacheSound'
  BY <1>1, <1>5, <1>13 DEF Delete
<1>14. ASSUME NEW id \in Cache!PageIds, OtherClient(id)
       PROVE  LocalsTyped /\ CacheSound'
  <2>1. ASSUME NEW data \in Slots, Fetch(id, Other, data)
        PROVE  CacheSound'
    BY <1>1, <2>1, FetchKeepsSound
  <2>2. ASSUME NEW data \in NotRows, WriteThrough(id, Other), Cached(data)
        PROVE  CacheSound'
    <3>1. data \in Slots
      BY DEF NotRows, Slots, Contents
    <3>2. QED
      BY <1>1, <2>2, <3>1, WriteKeepsSound
  <2>3. QED
    BY <1>1, <1>14, <2>1, <2>2 DEF OtherClient
<1>15. CASE UNCHANGED cachedVars
  BY <1>1, <1>5, <1>15 DEF cachedVars
<1>16. QED
  BY <1>6, <1>7, <1>8, <1>9, <1>10, <1>11, <1>12, <1>13, <1>14, <1>15 DEF CachedNext

LEMMA CachedSoundInvariant == CachedSpec => []CachedSound
BY CachedSoundInit, CachedSoundStep, PTL DEF CachedSpec

-----------------------------------------------------------------------------
(* Theorems *)

\* A row that an insert gave to page 1 of the heap file stays there, whatever is
\* inserted through the cache under the same id, read, evicted or written by
\* other clients.
THEOREM CachedKeepsFirstPage ==
    ASSUME Faults = {}
    PROVE  CachedSpec => []FirstPageKept
<1>1. CachedInit => AckedWellFormed /\ FirstPageKept
  BY DEF CachedInit, TableInit, AckedWellFormed, FirstPageKept
<1>2. TypeOK /\ PendingCounted /\ AckedWellFormed /\ FirstPageKept /\ [CachedNext]_cachedVars
        => AckedWellFormed' /\ FirstPageKept'
  <2> SUFFICES ASSUME TypeOK, PendingCounted, AckedWellFormed, FirstPageKept,
                      [CachedNext]_cachedVars
               PROVE  AckedWellFormed' /\ FirstPageKept'
    OBVIOUS
  <2>1. CASE UNCHANGED <<disk, acked>>
    BY <2>1 DEF AckedWellFormed, FirstPageKept, GetRow
  <2>2. QED
    BY <2>1, CachedStepCases, InsertKeepsFirstPage, DeleteKeepsFirstPage
<1>3. QED
  BY <1>1, <1>2, CachedTypes, PTL DEF CachedSpec

\* The scan of a table with a cache returns every row of the heap file.
THEOREM CachedScansComplete ==
    ASSUME ScanPages > 2
    PROVE  CachedSpec => []TableScanComplete
<1>1. CachedInit => TwoPages
  BY DEF CachedInit, TableInit, Init, TwoPages, Live
<1>2. TypeOK /\ PendingCounted /\ TwoPages /\ [CachedNext]_cachedVars => TwoPages'
  <2> SUFFICES ASSUME TypeOK, PendingCounted, TwoPages, [CachedNext]_cachedVars
               PROVE  TwoPages'
    OBVIOUS
  <2>1. CASE UNCHANGED <<disk, acked>>
    BY <2>1 DEF TwoPages, Live
  <2>2. QED
    BY <2>1, CachedStepCases, InsertInTwoPages, DeleteInTwoPages
<1>3. QED
  BY <1>1, <1>2, TwoPagesScanned, CachedTypes, PTL DEF CachedSpec

\* And it returns no row that was only inserted through the cache.
THEOREM CachedScanFindsHeapRows ==
    ASSUME Faults = {}
    PROVE  CachedSpec => []ScanFindsHeapRows
<1> DEFINE HeapHoldsHeapRows == \A rid \in Live : disk[rid] \in heapRows
<1>1. CachedInit => HeapHoldsHeapRows
  BY DEF CachedInit, TableInit, Init, Live
<1>2. TypeOK /\ PendingCounted /\ HeapHoldsHeapRows /\ [CachedNext]_cachedVars
        => HeapHoldsHeapRows'
  <2> SUFFICES ASSUME TypeOK, PendingCounted, HeapHoldsHeapRows, [CachedNext]_cachedVars
               PROVE  HeapHoldsHeapRows'
    OBVIOUS
  <2>1. ASSUME pending \in Rows, TableInsert(pending), heapRows' = heapRows \cup {pending}
        PROVE  HeapHoldsHeapRows'
    <3>1. PICK rid \in RowIds, unread \in UnreadableSets :
            \E c \in WriteOutcomes(disk[rid], pending) : disk' = [disk EXCEPT ![rid] = c]
      BY <2>1, TableInsertEffect
    <3>2. disk' = [disk EXCEPT ![rid] = pending]
      BY <3>1 DEF WriteOutcomes
    <3>3. QED
      BY <2>1, <3>2 DEF Live, TypeOK
  <2>2. ASSUME NEW rid \in RowIds, DeleteRow(rid), UNCHANGED heapRows
        PROVE  HeapHoldsHeapRows'
    <3>1. rid # NullRid
      BY SizesAssumption DEF RowIds, Pages, NullRid
    <3>2. disk' = [disk EXCEPT ![rid] = Free]
      BY <2>2, <3>1 DEF DeleteRow, WriteOutcomes
    <3>3. QED
      BY <2>2, <3>2 DEF Live, TypeOK
  <2>3. CASE UNCHANGED <<disk, acked, heapRows>>
    BY <2>3 DEF Live
  <2>4. QED
    BY <2>1, <2>2, <2>3, CachedStepCases
<1>3. HeapHoldsHeapRows => ScanFindsHeapRows
  BY DEF ScanFindsHeapRows, Scanned
<1> HIDE DEF HeapHoldsHeapRows
<1>4. QED
  BY <1>1, <1>2, <1>3, CachedTypes, PTL DEF CachedSpec

\* The types, for every size of the cache and whatever other clients read and
\* write under the same page ids.
THEOREM CachedTypeOKHolds == CachedSpec => []CachedTypeOK
BY CachedSoundInvariant, PTL DEF CachedSound

\* The page an insert wrote through is the one the cache finds under id 1, over
\* any mixture of reads, evictions, failed writes and restarts, until another
\* client caches a page under that id.
THEOREM CachedRowReadBackHolds == CachedSpec => []CachedRowReadBack
<1>1. CachedSound => CachedRowReadBack
  BY DEF CachedSound, CacheSound, OwnPageFound, CachedRowReadBack
<1>2. QED
  BY <1>1, CachedSoundInvariant, PTL
=============================================================================
