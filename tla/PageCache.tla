----------------------------- MODULE PageCache -----------------------------
(***************************************************************************)
(* The page cache, src/src/page-manager/PageCache.cpp, over files of pages *)
(* reached through DbFile (here every file has its own open descriptor).   *)
(*                                                                         *)
(* PAGE_SIZE of src/include/general/Page.hpp is 120 bytes more than the    *)
(* Page object: a write of a page reads past the end of the object and     *)
(* spills those bytes over the head of the next page of the file, and a    *)
(* read of a complete page writes past the end of the caller's buffer.     *)
(* The build sanitizes addresses and aborts there; a plain build survives  *)
(* the over-read of a write.  Anything undefined ends a behaviour here.    *)
(***************************************************************************)
EXTENDS Integers, FiniteSets, Sequences, Functions, SequencesExt

CONSTANTS
    NumPages,   \* NUM_PAGES, the frames of the cache
    MaxPageId,  \* bound: page ids
    Files,      \* file paths
    None,       \* an unused frame, an id that is not mapped
    Sanitized,  \* BOOLEAN: built with -fsanitize=address, as CMakeLists.txt does
    WriteFails  \* BOOLEAN: pwrite may fail

ASSUME CacheAssumption ==
    /\ NumPages \in Nat \ {0}
    /\ MaxPageId \in Nat \ {0}
    /\ None \notin Int
    /\ Sanitized \in BOOLEAN /\ WriteFails \in BOOLEAN

Frames  == 0 .. NumPages - 1
PageIds == 1 .. MaxPageId           \* the ids callers use: page 0 is a header
AnyId   == 0 .. MaxPageId           \* an id read from arbitrary bytes
NoPage  == [id |-> 0, file |-> None]
PageObjects == [id : AnyId, file : Files \cup {None}]

VARIABLES
    cachePages, \* theCachePages: id of the page in each frame, and (history)
                \*   the file it was read from or written to
    pageMap,    \* thePageMap: id -> frame, None when absent
    usedPages,  \* theUsedPages, a stack of frames, top last
    freePages,  \* theFreePages, a stack of frames, top last
    lastPage,   \* the last page of each file, 0 when it ends before page 1
    status,     \* "running" or "undefined"
    latest,     \* history: the page added last under each id
    recency     \* history: the ids added or hit, in order of use, latest last

vars == <<cachePages, pageMap, usedPages, freePages, lastPage, status,
          latest, recency>>

cacheVars == <<cachePages, pageMap, usedPages, freePages>>

Mapped == {id \in AnyId : pageMap[id] # None}

Touch(id) == Append(Remove(recency, id), id)

Init ==
    /\ cachePages = [i \in Frames |-> NoPage]
    /\ pageMap = [id \in AnyId |-> None]
    /\ usedPages = <<>>
    /\ freePages = [i \in 1 .. NumPages |-> i - 1]
    /\ lastPage = [f \in Files |-> 0]
    /\ status = "running"
    /\ latest = [id \in AnyId |-> NoPage]
    /\ recency = <<>>

-----------------------------------------------------------------------------
(* evict_add_page *)

HasSpace == Len(usedPages) < NumPages

\* Faulty variants: frames counted from 1; the frame not pushed as used.
AddToFreeFromOne(page) ==
    LET i == Last(freePages) + 1
    IN  /\ cachePages' = [cachePages EXCEPT ![i] = page]
        /\ pageMap' = [pageMap EXCEPT ![page.id] = i]
        /\ usedPages' = Append(usedPages, i)
        /\ freePages' = Front(freePages)
AddToFreeNotPushed(page) ==
    LET i == Last(freePages)
    IN  /\ cachePages' = [cachePages EXCEPT ![i] = page]
        /\ pageMap' = [pageMap EXCEPT ![page.id] = i]
        /\ freePages' = Front(freePages)
        /\ UNCHANGED usedPages

\* "cache has space": the last free frame is taken.
AddToFree(page) ==
    LET i == Last(freePages)
    IN  /\ cachePages' = [cachePages EXCEPT ![i] = page]
        /\ pageMap' = [pageMap EXCEPT ![page.id] = i]
        /\ usedPages' = Append(usedPages, i)
        /\ freePages' = Front(freePages)

\* Faulty variant: the map keeps the id of the evicted page.
EvictForgetsErase(page) ==
    LET i == Last(usedPages)
    IN  /\ cachePages' = [cachePages EXCEPT ![i] = page]
        /\ pageMap' = [pageMap EXCEPT ![page.id] = i]
        /\ usedPages' = Front(usedPages)
        /\ UNCHANGED freePages

\* Faulty variant: the evicted frame is given back to the free list as well.
EvictFreesFrame(page) ==
    LET i == Last(usedPages)
    IN  /\ cachePages' = [cachePages EXCEPT ![i] = page]
        /\ pageMap' = [pageMap EXCEPT ![cachePages[i].id] = None, ![page.id] = i]
        /\ usedPages' = Front(usedPages)
        /\ freePages' = Append(freePages, i)

\* Faulty variant: the frame filled first is evicted, the last one popped.
EvictBottom(page) ==
    LET i == Head(usedPages)
    IN  /\ cachePages' = [cachePages EXCEPT ![i] = page]
        /\ pageMap' = [pageMap EXCEPT ![cachePages[i].id] = None, ![page.id] = i]
        /\ usedPages' = Front(usedPages)
        /\ UNCHANGED freePages

\* "cache is full": the frame on top of the stack, the one filled last, is
\* evicted and refilled.  It is popped and never pushed again.
EvictTop(page) ==
    LET i == Last(usedPages)
    IN  /\ cachePages' = [cachePages EXCEPT ![i] = page]
        /\ pageMap' = [pageMap EXCEPT ![cachePages[i].id] = None, ![page.id] = i]
        /\ usedPages' = Front(usedPages)
        /\ UNCHANGED freePages

\* The whole of evict_add_page.  theFreePages.back() and pop_back of an empty
\* vector are undefined.
EvictAddPage(page) ==
    /\ \/ HasSpace /\ freePages # <<>> /\ AddToFree(page) /\ UNCHANGED status
       \/ HasSpace /\ freePages = <<>> /\ status' = "undefined" /\ UNCHANGED cacheVars
       \/ ~HasSpace /\ EvictTop(page) /\ UNCHANGED status
    /\ latest' = [latest EXCEPT ![page.id] = page]
    /\ recency' = Touch(page.id)

-----------------------------------------------------------------------------
(* read and write_through *)

ReadHit(id, file) ==
    /\ status = "running"
    /\ pageMap[id] # None
    /\ recency' = Touch(id)
    /\ UNCHANGED <<cacheVars, lastPage, status, latest>>

\* The bytes pread finds at the page's place: a complete page overruns the
\* buffer, the spill of the page before gives the buffer an arbitrary id, and
\* at the end of the file the buffer stays as the caller prepared it.
ReadMiss(id, file) ==
    /\ status = "running"
    /\ pageMap[id] = None
    /\ \/ /\ id <= lastPage[file]
          /\ status' = "undefined"
          /\ UNCHANGED <<cacheVars, latest, recency>>
       \/ /\ id > lastPage[file]
          /\ \E seen \in (IF id = lastPage[file] + 1 /\ id > 1 THEN AnyId ELSE {id}) :
               EvictAddPage([id |-> seen, file |-> file])
    /\ UNCHANGED lastPage

\* The page reaches the disk, and the over-read of the page object is caught
\* where it is looked for.
WriteThrough(id, file) ==
    /\ status = "running"
    /\ lastPage' = [lastPage EXCEPT ![file] = IF id > @ THEN id ELSE @]
    /\ \/ /\ Sanitized
          /\ status' = "undefined"
          /\ UNCHANGED <<cacheVars, latest, recency>>
       \/ ~Sanitized /\ EvictAddPage([id |-> id, file |-> file])

\* pwrite fails: its result is printed, the page is cached, true is returned.
WriteThroughFails(id, file) ==
    /\ WriteFails
    /\ status = "running"
    /\ EvictAddPage([id |-> id, file |-> file])
    /\ UNCHANGED lastPage

Next ==
    \E id \in PageIds, file \in Files :
        \/ ReadHit(id, file)
        \/ ReadMiss(id, file)
        \/ WriteThrough(id, file)
        \/ WriteThroughFails(id, file)

Spec == Init /\ [][Next]_vars

-----------------------------------------------------------------------------
(* Properties *)

TypeOK ==
    /\ cachePages \in [Frames -> PageObjects]
    /\ pageMap \in [AnyId -> Frames \cup {None}]
    /\ usedPages \in Seq(Frames)
    /\ freePages \in Seq(Frames)
    /\ lastPage \in [Files -> 0 .. MaxPageId]
    /\ status \in {"running", "undefined"}
    /\ latest \in [AnyId -> PageObjects]

\* A hit returns the page that was added last under the id asked for, and
\* never an older copy or a page of another id: adding an id again leaves its
\* old copy in another frame, and evictions and failed writes come between.
HitIsLatest ==
    status = "running" =>
        \A id \in Mapped :
            /\ cachePages[pageMap[id]] = latest[id]
            /\ latest[id].id = id

\* No frame on the free list is in use or mapped, and no frame is listed twice.
FramesDisjoint ==
    /\ IsInjective(usedPages) /\ IsInjective(freePages)
    /\ Range(usedPages) \cap Range(freePages) = {}
    /\ \A id \in Mapped : pageMap[id] \notin Range(freePages)

\* An eviction loses one frame for good, and only one: the cache ends before a
\* second could happen.
OneFrameLost ==
    \/ Len(usedPages) + Len(freePages) = NumPages
    \/ freePages = <<>> /\ Len(usedPages) = NumPages - 1

\* The page an eviction removes from the map is the page of the evicted frame,
\* although re-adding an id leaves a frame with a stale copy of it behind.
EvictsOwnEntry ==
    [][\A id \in Mapped : pageMap'[id] = None => pageMap[id] = Last(usedPages)]_vars

\* REPORT.md: pages are evicted in LRU order.
EvictsLeastRecent ==
    [][\A id \in Mapped : pageMap'[id] = None =>
          id = Head(SelectSeq(recency, LAMBDA x : pageMap[x] # None))]_vars
=============================================================================
