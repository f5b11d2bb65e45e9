---------------------------- MODULE CachedTable ----------------------------
(***************************************************************************)
(* A Table with a page cache, src/src/storage-manager/Table.cpp, in a      *)
(* build without the address sanitizer.  An insert reads page 1 through    *)
(* the cache and puts the row in a free slot of it, writing the page       *)
(* through; when the cached page has none the row goes to the heap file as *)
(* in Table.  Rows are read by id through the cache only, and by scan from *)
(* the heap file only.  Other clients use the same cache for another file. *)
(*                                                                         *)
(* The cache keeps page n at offset 1040 n + 120 of the file, the heap     *)
(* file at 128 n: with fewer than 9 heap pages the two never overlap, so   *)
(* that disk (of HeapFile) and lastPage (of PageCache) are the file's two  *)
(* separate halves.                                                        *)
(***************************************************************************)
EXTENDS Table, Sequences, SequencesExt

CONSTANTS
    NumPages,   \* frames of the cache
    MaxPageId,  \* bound: page ids in the cache
    Own,        \* the path of the table's file
    Other,      \* the path of a file other clients use
    None,       \* no frame; no row
    WriteFails  \* BOOLEAN: a pwrite of the cache may fail

ASSUME PagesApartAssumption == MaxPage < 9
ASSUME NoneAssumption == None \notin Rows \cup {Free, Torn} /\ Own # Other
ASSUME FramesAssumption ==
    /\ NumPages \in Nat \ {0}
    /\ MaxPageId \in Nat \ {0}
    /\ None \notin Int
    /\ WriteFails \in BOOLEAN

VARIABLES
    cachePages, pageMap, usedPages, freePages, lastPage, status, latest, recency,
    frameSlots, \* the slots of the Page in each frame
    mapped,     \* the file's path is in the map of the DbFile singleton
    pending,    \* the row of an insert_row that has read page 1, or None
    buffer,     \* the slots of its local Page
    heapRows,   \* history: the rows that an insert gave to the heap file
    ownPage     \* history: the slots of page 1 as an insert wrote it through last,
                \*   None once another Page was cached under id 1

cache == <<cachePages, pageMap, usedPages, freePages, lastPage, status, latest, recency>>
cachedVars == <<tableVars, cache, frameSlots, mapped, pending, buffer, heapRows, ownPage>>

Cache == INSTANCE PageCache WITH Files <- {Own, Other}, Sanitized <- FALSE

Slots == [SlotNums -> Contents]
NotRows == [SlotNums -> {Free, Torn}]   \* Torn: bytes that are no row of the table
Blank == [s \in SlotNums |-> Free]

CachedInit ==
    /\ TableInit
    /\ Cache!Init
    /\ frameSlots = [i \in Cache!Frames |-> Blank]
    /\ mapped = FALSE
    /\ pending = None
    /\ buffer = Blank
    /\ heapRows = {}
    /\ ownPage = None

Idle == status = "running" /\ pending = None

-----------------------------------------------------------------------------
(* The cache, with the contents of its pages *)

\* The frame that evict_add_page fills.
FilledFrame == Last(IF Cache!HasSpace THEN freePages ELSE usedPages)

\* evict_add_page copied a Page with these slots into a frame, unless the step
\* was undefined.
Cached(data) ==
    IF status' = "undefined" THEN UNCHANGED <<frameSlots, ownPage>>
    ELSE /\ frameSlots' = [frameSlots EXCEPT ![FilledFrame] = data]
         /\ ownPage' = IF cachePages'[FilledFrame].id # 1 THEN ownPage
                       ELSE IF pending # None THEN data ELSE None

\* PageCache::read.  A page that the file does not have in full leaves in the
\* Page object what it held, which no constructor has set: any bytes.
Fetch(id, file, data) ==
    \/ /\ Cache!ReadHit(id, file)
       /\ data = frameSlots[pageMap[id]]
       /\ UNCHANGED <<frameSlots, ownPage>>
    \/ /\ Cache!ReadMiss(id, file)
       /\ Cached(data)

\* PageCache::write_through; the page is cached whether it was written or not.
WriteThrough(id, file) ==
    Cache!WriteThrough(id, file) \/ Cache!WriteThroughFails(id, file)

-----------------------------------------------------------------------------
(* Operations of the table *)

\* Nothing is mapped for a heap file that this process created and did not write
\* to through the cache: the cache reads through descriptor -1, which throws and
\* leaves everything as it was.
CanFetch(id) == mapped \/ pageMap[id] # None

\* insert_row up to the choice of a slot.
InsertReadsPage(row) ==
    /\ Idle
    /\ handle # "closed" /\ numRecords < MaxRecords
    /\ CanFetch(1)
    /\ \E data \in Slots : Fetch(1, Own, data) /\ buffer' = data
    /\ pending' = row
    /\ UNCHANGED <<tableVars, mapped, heapRows>>

FreeSlots == {s \in SlotNums : buffer[s] = Free}

Inserting ==
    /\ status = "running" /\ pending # None
    /\ pending' = None
    /\ buffer' = Blank

\* Faulty variant: the page is written where the heap file has its page 1.
InsertCachedOverHeap ==
    /\ FreeSlots # {}
    /\ Inserting
    /\ WriteThrough(1, Own)
    /\ LET slot == Min(FreeSlots)
       IN  /\ Cached([buffer EXCEPT ![slot] = pending])
           /\ result' = <<1, slot>>
           /\ disk' = [disk EXCEPT ![<<1, slot>>] = pending]
    /\ mapped' = TRUE
    /\ numRecords' = numRecords + 1
    /\ UNCHANGED <<header, handle, acked, heapRows>>

\* The row goes into a free slot of the page that was read; disk stays, as the
\* page is written elsewhere in the file.  write_through maps the path if it is
\* not: from here on the cache reads the file of a table created in this process.
InsertCached ==
    /\ FreeSlots # {}
    /\ Inserting
    /\ WriteThrough(1, Own)
    /\ LET slot == Min(FreeSlots)
       IN  /\ Cached([buffer EXCEPT ![slot] = pending])
           /\ result' = <<1, slot>>
    /\ mapped' = TRUE
    /\ numRecords' = numRecords + 1
    /\ UNCHANGED <<disk, header, handle, acked, heapRows>>

\* The page has no free slot: DB::insert_row, which looks at the heap file.
InsertDirect ==
    /\ FreeSlots = {}
    /\ Inserting
    /\ TableInsert(pending)
    /\ heapRows' = heapRows \cup {pending}
    /\ UNCHANGED <<cache, frameSlots, mapped, ownPage>>

\* read_row(rid): the row returned is the one in the slot of the page fetched.
ReadRow(rid) ==
    /\ Idle
    /\ rid[1] <= MaxPageId
    /\ handle # "closed"
    /\ CanFetch(rid[1])
    /\ \E data \in Slots : Fetch(rid[1], Own, data)
    /\ UNCHANGED <<tableVars, mapped, pending, buffer, heapRows>>

\* delete_row(table->getHeapFile(), rid), whichever path gave the id out: the
\* slot of the heap file is cleared, and the cached page keeps its row.
Delete(rid) ==
    /\ Idle
    /\ DeleteRow(rid)
    /\ acked' = {a \in acked : a[1] # rid}
    /\ UNCHANGED <<cache, frameSlots, mapped, pending, buffer, heapRows, ownPage>>

\* create_heapfile, in a process whose cache is still empty.
Create ==
    /\ Idle
    /\ CreateTable
    /\ UNCHANGED <<cache, frameSlots, mapped, pending, buffer, heapRows, ownPage>>

\* load_heapfile_registry maps the path.
Load ==
    /\ Idle
    /\ LoadHeapfile
    /\ mapped' = TRUE
    /\ UNCHANGED <<acked, cache, frameSlots, pending, buffer, heapRows, ownPage>>

\* The process stops, and with it the cache; the file stays.
Stop ==
    /\ Idle
    /\ CloseProcess
    /\ mapped' = FALSE
    /\ cachePages' = [i \in Cache!Frames |-> Cache!NoPage]
    /\ pageMap' = [id \in Cache!AnyId |-> None]
    /\ usedPages' = <<>>
    /\ freePages' = [i \in 1 .. NumPages |-> i - 1]
    /\ latest' = [id \in Cache!AnyId |-> Cache!NoPage]
    /\ recency' = <<>>
    /\ frameSlots' = [i \in Cache!Frames |-> Blank]
    /\ ownPage' = None
    /\ UNCHANGED <<acked, lastPage, status, pending, buffer, heapRows>>

\* Another client of the cache reads or writes a page of its own file, under
\* the same ids.
OtherClient(id) ==
    /\ Idle
    /\ \/ \E data \in Slots : Fetch(id, Other, data)
       \/ \E data \in NotRows : WriteThrough(id, Other) /\ Cached(data)
    /\ UNCHANGED <<tableVars, mapped, pending, buffer, heapRows>>

CachedNext ==
    \/ Create \/ Load \/ Stop
    \/ \E row \in Rows : InsertReadsPage(row)
    \/ InsertCached
    \/ InsertDirect
    \/ \E rid \in RowIds : ReadRow(rid) \/ Delete(rid)
    \/ \E id \in Cache!PageIds : OtherClient(id)

CachedSpec == CachedInit /\ [][CachedNext]_cachedVars

-----------------------------------------------------------------------------
(* Properties *)

CachedTypeOK ==
    /\ TypeOK /\ Cache!TypeOK
    /\ frameSlots \in [Cache!Frames -> Slots]
    /\ mapped \in BOOLEAN
    /\ pending \in Rows \cup {None}
    /\ buffer \in Slots
    /\ heapRows \subseteq Rows
    /\ ownPage \in Slots \cup {None}

\* A scan never finds a row that was only inserted through the cache, although
\* its insert was counted and given an id of page 1.
ScanFindsHeapRows == \A rid \in Scanned : disk[rid] \in heapRows

\* The page that an insert wrote through is the one a read of page 1 finds as
\* long as it is in the cache and no other client cached a page 1: not an
\* older copy of it in another frame, nor the heap file's slot, which may have
\* been deleted or filled since.
CachedRowReadBack ==
    status = "running" /\ ownPage # None /\ pageMap[1] # None
      => frameSlots[pageMap[1]] = ownPage
=============================================================================
