-------------------------- MODULE PageCacheProofs --------------------------
(***************************************************************************)
(* Theorems about PageCache for every number of frames, page ids and       *)
(* files: what it serves is what it was given last, its frame lists stay   *)
(* disjoint, and it loses exactly one frame before it ends.                *)
(***************************************************************************)
EXTENDS PageCache, DataProofs

-----------------------------------------------------------------------------
(* Steps of the cache *)

\* What the operations do to the cache.
LEMMA CacheSteps ==
    ASSUME TypeOK, [Next]_vars
    PROVE  \/ \E page \in PageObjects :
                 /\ page.id \in AnyId
                 /\ status = "running" /\ status' = "running"
                 /\ latest' = [latest EXCEPT ![page.id] = page]
                 /\ \/ HasSpace /\ freePages # <<>> /\ AddToFree(page)
                    \/ ~HasSpace /\ EvictTop(page)
           \/ \E page \in PageObjects :
                 /\ status' = "undefined"
                 /\ latest' \in {latest, [latest EXCEPT ![page.id] = page]}
                 /\ UNCHANGED cacheVars
           \/ UNCHANGED <<cacheVars, status, latest>>
<1>1. ASSUME NEW page \in PageObjects, EvictAddPage(page), status = "running"
      PROVE  \/ /\ status' = "running"
                /\ latest' = [latest EXCEPT ![page.id] = page]
                /\ \/ HasSpace /\ freePages # <<>> /\ AddToFree(page)
                   \/ ~HasSpace /\ EvictTop(page)
             \/ /\ status' = "undefined"
                /\ latest' \in {latest, [latest EXCEPT ![page.id] = page]}
                /\ UNCHANGED cacheVars
  BY <1>1 DEF EvictAddPage
<1>2. \A page \in PageObjects : page.id \in AnyId
  BY DEF PageObjects
<1>3. ASSUME NEW id \in AnyId, NEW file \in Files
      PROVE  [id |-> id, file |-> file] \in PageObjects
  BY DEF PageObjects
<1>4. ASSUME NEW id \in PageIds, NEW file \in Files,
             \/ ReadMiss(id, file)
             \/ WriteThrough(id, file)
             \/ WriteThroughFails(id, file)
      PROVE  /\ status = "running"
             /\ \/ \E page \in PageObjects : EvictAddPage(page)
                \/ status' = "undefined" /\ UNCHANGED <<cacheVars, latest>>
  <2>1. id \in AnyId
    BY CacheAssumption DEF PageIds, AnyId
  <2>2. QED
    BY <1>3, <1>4, <2>1 DEF ReadMiss, WriteThrough, WriteThroughFails
<1>5. ASSUME NEW id \in PageIds, NEW file \in Files, ReadHit(id, file)
      PROVE  UNCHANGED <<cacheVars, status, latest>>
  BY <1>5 DEF ReadHit
<1>6. CASE UNCHANGED vars
  BY <1>6 DEF vars, cacheVars
<1>7. [id |-> 0, file |-> None] \in PageObjects
  BY CacheAssumption DEF PageObjects, AnyId
<1>8. QED
  BY <1>1, <1>2, <1>4, <1>5, <1>6, <1>7 DEF Next

\* The two ways a page enters the cache, with the frame it gets.
LEMMA AddToFreeEffect ==
    ASSUME TypeOK, FramesDisjoint, NEW page \in PageObjects, page.id \in AnyId,
           freePages # <<>>, AddToFree(page)
    PROVE  \E i \in Frames :
             /\ cachePages' = [cachePages EXCEPT ![i] = page]
             /\ pageMap' = [pageMap EXCEPT ![page.id] = i]
             /\ i \in Range(freePages)
             /\ usedPages' \in Seq(Frames) /\ freePages' \in Seq(Frames)
             /\ Len(usedPages') = Len(usedPages) + 1
             /\ Len(freePages') = Len(freePages) - 1
             /\ usedPages' # <<>> /\ Last(usedPages') = i
             /\ Range(usedPages') = Range(usedPages) \cup {i}
             /\ Range(freePages') \subseteq Range(freePages)
             /\ i \notin Range(freePages')
             /\ IsInjective(usedPages') /\ IsInjective(freePages')
<1> DEFINE i == Last(freePages)
<1>1. usedPages \in Seq(Frames) /\ freePages \in Seq(Frames)
  BY DEF TypeOK
<1>2. /\ cachePages' = [cachePages EXCEPT ![i] = page]
      /\ pageMap' = [pageMap EXCEPT ![page.id] = i]
      /\ usedPages' = Append(usedPages, i)
      /\ freePages' = Front(freePages)
  BY DEF AddToFree
<1>3. IsInjective(usedPages) /\ IsInjective(freePages)
      /\ Range(usedPages) \cap Range(freePages) = {}
  BY DEF FramesDisjoint
<1>4. /\ i \in Frames /\ i \in Range(freePages)
      /\ Front(freePages) \in Seq(Frames)
      /\ Len(Front(freePages)) = Len(freePages) - 1
      /\ Range(Front(freePages)) \subseteq Range(freePages)
      /\ IsInjective(Front(freePages)) /\ i \notin Range(Front(freePages))
  BY <1>1, <1>3, Popped
<1> HIDE DEF i
<1>5. i \notin Range(usedPages)
  BY <1>3, <1>4
<1>6. /\ Append(usedPages, i) \in Seq(Frames)
      /\ Len(Append(usedPages, i)) = Len(usedPages) + 1
      /\ Append(usedPages, i) # <<>> /\ Last(Append(usedPages, i)) = i
      /\ Range(Append(usedPages, i)) = Range(usedPages) \cup {i}
      /\ IsInjective(Append(usedPages, i))
  BY <1>1, <1>3, <1>4, <1>5, Pushed
<1>7. QED
  BY <1>2, <1>4, <1>6

LEMMA EvictTopEffect ==
    ASSUME TypeOK, FramesDisjoint, NEW page \in PageObjects, page.id \in AnyId,
           ~HasSpace, EvictTop(page)
    PROVE  \E i \in Frames :
             /\ i = Last(usedPages) /\ usedPages # <<>>
             /\ cachePages' = [cachePages EXCEPT ![i] = page]
             /\ pageMap' = [pageMap EXCEPT ![cachePages[i].id] = None, ![page.id] = i]
             /\ i \in Range(usedPages)
             /\ usedPages' \in Seq(Frames) /\ freePages' = freePages
             /\ Len(usedPages') = Len(usedPages) - 1
             /\ Range(usedPages') \subseteq Range(usedPages)
             /\ IsInjective(usedPages')
<1>1. usedPages \in Seq(Frames) /\ IsInjective(usedPages)
  BY DEF TypeOK, FramesDisjoint
<1>2. usedPages # <<>>
  BY CacheAssumption DEF HasSpace
<1> DEFINE i == Last(usedPages)
<1>3. /\ i \in Frames /\ i \in Range(usedPages)
      /\ Front(usedPages) \in Seq(Frames)
      /\ Len(Front(usedPages)) = Len(usedPages) - 1
      /\ Range(Front(usedPages)) \subseteq Range(usedPages)
      /\ IsInjective(Front(usedPages))
  BY <1>1, <1>2, Popped
<1>4. /\ cachePages' = [cachePages EXCEPT ![i] = page]
      /\ pageMap' = [pageMap EXCEPT ![cachePages[i].id] = None, ![page.id] = i]
      /\ usedPages' = Front(usedPages)
      /\ freePages' = freePages
  BY DEF EvictTop
<1> HIDE DEF i
<1>5. i = Last(usedPages)
  BY DEF i
<1>6. QED
  BY <1>2, <1>3, <1>4, <1>5

-----------------------------------------------------------------------------
(* The inductive invariant *)

\* Before the first eviction the frame on top of the used stack is mapped under
\* the id of the page in it.
TopIsMapped ==
    Len(usedPages) + Len(freePages) = NumPages /\ usedPages # <<>>
        => pageMap[cachePages[Last(usedPages)].id] = Last(usedPages)

CacheTypes ==
    /\ cachePages \in [Frames -> PageObjects]
    /\ pageMap \in [AnyId -> Frames \cup {None}]
    /\ usedPages \in Seq(Frames)
    /\ freePages \in Seq(Frames)

CacheSound ==
    TypeOK /\ FramesDisjoint /\ HitIsLatest /\ OneFrameLost /\ TopIsMapped

LEMMA AddToFreeKeepsSound ==
    ASSUME CacheSound, NEW page \in PageObjects, page.id \in AnyId,
           status = "running",
           freePages # <<>>, HasSpace, AddToFree(page),
           latest' = [latest EXCEPT ![page.id] = page]
    PROVE  CacheTypes' /\ FramesDisjoint' /\ HitIsLatest' /\ OneFrameLost' /\ TopIsMapped'
<1>1. PICK i \in Frames :
         /\ cachePages' = [cachePages EXCEPT ![i] = page]
         /\ pageMap' = [pageMap EXCEPT ![page.id] = i]
         /\ i \in Range(freePages)
         /\ usedPages' \in Seq(Frames) /\ freePages' \in Seq(Frames)
         /\ Len(usedPages') = Len(usedPages) + 1
         /\ Len(freePages') = Len(freePages) - 1
         /\ usedPages' # <<>> /\ Last(usedPages') = i
         /\ Range(usedPages') = Range(usedPages) \cup {i}
         /\ Range(freePages') \subseteq Range(freePages)
         /\ i \notin Range(freePages')
         /\ IsInjective(usedPages') /\ IsInjective(freePages')
  BY AddToFreeEffect DEF CacheSound
<1>2. /\ cachePages \in [Frames -> PageObjects]
      /\ pageMap \in [AnyId -> Frames \cup {None}]
      /\ latest \in [AnyId -> PageObjects]
      /\ Len(usedPages) \in Nat /\ Len(freePages) \in Nat
      /\ None \notin Frames
  BY CacheAssumption DEF CacheSound, TypeOK, Frames
<1>3. \A id \in Mapped : pageMap[id] \notin Range(freePages)
  BY DEF CacheSound, FramesDisjoint
<1>4. Range(usedPages) \cap Range(freePages) = {}
  BY DEF CacheSound, FramesDisjoint
<1>5. CacheTypes'
  BY <1>1, <1>2 DEF CacheTypes
<1>6. \A id \in Mapped' :
         \/ id = page.id /\ pageMap'[id] = i
         \/ id # page.id /\ id \in Mapped /\ pageMap'[id] = pageMap[id]
  BY <1>1, <1>2 DEF Mapped
<1>7. FramesDisjoint'
  <2>1. Range(usedPages') \cap Range(freePages') = {}
    BY <1>1, <1>4
  <2>2. \A id \in Mapped' : pageMap'[id] \notin Range(freePages')
    BY <1>1, <1>3, <1>6
  <2>3. QED
    BY <1>1, <2>1, <2>2 DEF FramesDisjoint
<1>8. HitIsLatest'
  <2>1. ASSUME NEW id \in Mapped'
        PROVE  cachePages'[pageMap'[id]] = latest'[id] /\ latest'[id].id = id
    <3>1. id \in AnyId
      BY DEF Mapped
    <3>2. CASE id = page.id
      BY <1>1, <1>2, <3>1, <3>2
    <3>3. CASE id # page.id
      <4>1. id \in Mapped /\ pageMap'[id] = pageMap[id]
        BY <1>6, <3>3
      <4>2. pageMap[id] \in Frames /\ pageMap[id] # i
        BY <1>1, <1>2, <1>3, <3>1, <4>1 DEF Mapped
      <4>3. cachePages[pageMap[id]] = latest[id] /\ latest[id].id = id
        BY <4>1 DEF CacheSound, HitIsLatest
      <4>4. QED
        BY <1>1, <1>2, <3>1, <3>3, <4>1, <4>2, <4>3
    <3>4. QED
      BY <3>2, <3>3
  <2>2. QED
    BY <2>1 DEF HitIsLatest
<1>9. OneFrameLost'
  <2>1. Len(usedPages) + Len(freePages) = NumPages
    BY DEF CacheSound, OneFrameLost
  <2>2. QED
    BY <1>1, <1>2, <2>1 DEF OneFrameLost
<1>10. TopIsMapped'
  BY <1>1, <1>2 DEF TopIsMapped
<1>11. QED
  BY <1>5, <1>7, <1>8, <1>9, <1>10

LEMMA EvictTopKeepsSound ==
    ASSUME CacheSound, NEW page \in PageObjects, page.id \in AnyId,
           status = "running",
           ~HasSpace, EvictTop(page),
           latest' = [latest EXCEPT ![page.id] = page]
    PROVE  CacheTypes' /\ FramesDisjoint' /\ HitIsLatest' /\ OneFrameLost' /\ TopIsMapped'
<1>1. PICK i \in Frames :
         /\ i = Last(usedPages) /\ usedPages # <<>>
         /\ cachePages' = [cachePages EXCEPT ![i] = page]
         /\ pageMap' = [pageMap EXCEPT ![cachePages[i].id] = None, ![page.id] = i]
         /\ i \in Range(usedPages)
         /\ usedPages' \in Seq(Frames) /\ freePages' = freePages
         /\ Len(usedPages') = Len(usedPages) - 1
         /\ Range(usedPages') \subseteq Range(usedPages)
         /\ IsInjective(usedPages')
  BY EvictTopEffect DEF CacheSound
<1>2. /\ cachePages \in [Frames -> PageObjects]
      /\ pageMap \in [AnyId -> Frames \cup {None}]
      /\ latest \in [AnyId -> PageObjects]
      /\ Len(usedPages) \in Nat /\ Len(freePages) \in Nat
      /\ freePages \in Seq(Frames)
      /\ None \notin Frames /\ NumPages \in Nat
  BY CacheAssumption DEF CacheSound, TypeOK, Frames
<1>3. /\ \A id \in Mapped : pageMap[id] \notin Range(freePages)
      /\ Range(usedPages) \cap Range(freePages) = {}
      /\ IsInjective(freePages)
  BY DEF CacheSound, FramesDisjoint
<1>4. CacheTypes'
  BY <1>1, <1>2 DEF CacheTypes
<1>5. \A id \in Mapped' :
         \/ id = page.id /\ pageMap'[id] = i
         \/ /\ id # page.id /\ id # cachePages[i].id
            /\ id \in Mapped /\ pageMap'[id] = pageMap[id]
  BY <1>1, <1>2 DEF Mapped
<1>6. FramesDisjoint'
  <2>1. Range(usedPages') \cap Range(freePages') = {}
    BY <1>1, <1>3
  <2>2. i \notin Range(freePages)
    BY <1>1, <1>3
  <2>3. \A id \in Mapped' : pageMap'[id] \notin Range(freePages')
    BY <1>1, <1>3, <1>5, <2>2
  <2>4. QED
    BY <1>1, <1>3, <2>1, <2>3 DEF FramesDisjoint
<1>7. HitIsLatest'
  <2>1. ASSUME NEW id \in Mapped'
        PROVE  cachePages'[pageMap'[id]] = latest'[id] /\ latest'[id].id = id
    <3>1. id \in AnyId
      BY DEF Mapped
    <3>2. CASE id = page.id
      <4>1. pageMap'[id] = i
        BY <1>5, <3>2
      <4>2. QED
        BY <1>1, <1>2, <3>1, <3>2, <4>1
    <3>3. CASE id # page.id
      <4>1. id \in Mapped /\ pageMap'[id] = pageMap[id] /\ id # cachePages[i].id
        BY <1>5, <3>3
      <4>2. cachePages[pageMap[id]] = latest[id] /\ latest[id].id = id
        BY <4>1 DEF CacheSound, HitIsLatest
      <4>3. pageMap[id] \in Frames /\ pageMap[id] # i
        BY <1>2, <3>1, <4>1, <4>2 DEF Mapped
      <4>4. QED
        BY <1>1, <1>2, <3>1, <3>3, <4>1, <4>2, <4>3
    <3>4. QED
      BY <3>2, <3>3
  <2>2. QED
    BY <2>1 DEF HitIsLatest
<1>8. freePages = <<>> /\ Len(usedPages) = NumPages
  <2>1. Len(usedPages) >= NumPages
    BY <1>2 DEF HasSpace
  <2>2. Len(usedPages) = NumPages /\ Len(freePages) = 0
    BY <1>2, <2>1 DEF CacheSound, OneFrameLost
  <2>3. QED
    BY <1>2, <2>2
<1>9. OneFrameLost'
  BY <1>1, <1>2, <1>8 DEF OneFrameLost
<1>10. TopIsMapped'
  BY <1>1, <1>2, <1>8 DEF TopIsMapped
<1>11. QED
  BY <1>4, <1>6, <1>7, <1>9, <1>10

LEMMA CacheSoundInvariant == Spec => []CacheSound
<1>1. Init => CacheSound
  <2> SUFFICES ASSUME Init
               PROVE  CacheSound
    OBVIOUS
  <2>1. freePages = [k \in 1 .. NumPages |-> k - 1] /\ usedPages = <<>>
    BY DEF Init
  <2>2. freePages \in Seq(Frames) /\ Len(freePages) = NumPages
    BY <2>1, CacheAssumption DEF Frames
  <2>3. IsInjective(freePages) /\ IsInjective(usedPages) /\ Range(usedPages) = {}
    BY <2>1, CacheAssumption DEF IsInjective, Range
  <2>4. NoPage \in PageObjects
    BY CacheAssumption DEF NoPage, PageObjects, AnyId
  <2>5. TypeOK
    BY <2>1, <2>2, <2>4, CacheAssumption DEF Init, TypeOK
  <2>6. Mapped = {}
    BY DEF Init, Mapped
  <2>7. FramesDisjoint /\ HitIsLatest
    BY <2>3, <2>6 DEF FramesDisjoint, HitIsLatest
  <2>8. OneFrameLost /\ TopIsMapped
    BY <2>1, <2>2, CacheAssumption DEF OneFrameLost, TopIsMapped
  <2>9. QED
    BY <2>5, <2>7, <2>8 DEF CacheSound
<1>2. CacheSound /\ [Next]_vars => CacheSound'
  <2> SUFFICES ASSUME CacheSound, [Next]_vars
               PROVE  CacheSound'
    OBVIOUS
  <2>1. /\ lastPage' \in [Files -> 0 .. MaxPageId]
        /\ status' \in {"running", "undefined"}
    <3>1. lastPage \in [Files -> 0 .. MaxPageId] /\ status \in {"running", "undefined"}
      BY DEF CacheSound, TypeOK
    <3>2. PageIds \subseteq 0 .. MaxPageId
      BY CacheAssumption DEF PageIds
    <3>3. \A page : EvictAddPage(page) => status' \in {"running", "undefined"}
      BY <3>1 DEF EvictAddPage
    <3>4. ASSUME NEW id \in PageIds, NEW file \in Files, ReadMiss(id, file) \/ WriteThrough(id, file)
          PROVE  status' \in {"running", "undefined"} /\ lastPage' \in [Files -> 0 .. MaxPageId]
      <4>1. lastPage' = lastPage \/ lastPage' = [lastPage EXCEPT ![file] = IF id > @ THEN id ELSE @]
        BY <3>4 DEF ReadMiss, WriteThrough
      <4>2. QED
        BY <3>1, <3>2, <3>3, <3>4, <4>1 DEF ReadMiss, WriteThrough
    <3>5. QED
      BY <3>1, <3>3, <3>4 DEF Next, vars, ReadHit, WriteThroughFails
  <2>2. ASSUME NEW page \in PageObjects,
               page.id \in AnyId, status = "running",
               latest' = [latest EXCEPT ![page.id] = page],
               \/ HasSpace /\ freePages # <<>> /\ AddToFree(page)
               \/ ~HasSpace /\ EvictTop(page)
        PROVE  CacheSound'
    <3>1. CacheTypes' /\ FramesDisjoint' /\ HitIsLatest' /\ OneFrameLost' /\ TopIsMapped'
      BY <2>2, AddToFreeKeepsSound, EvictTopKeepsSound
    <3>2. latest' \in [AnyId -> PageObjects]
      BY <2>2 DEF CacheSound, TypeOK
    <3>3. QED
      BY <2>1, <3>1, <3>2 DEF CacheSound, CacheTypes, TypeOK
  <2>3. ASSUME NEW page \in PageObjects, status' = "undefined", UNCHANGED cacheVars,
               latest' \in {latest, [latest EXCEPT ![page.id] = page]}
        PROVE  CacheSound'
    <3>1. latest' \in [AnyId -> PageObjects]
      BY <2>3 DEF CacheSound, TypeOK
    <3>2. HitIsLatest'
      BY <2>3 DEF HitIsLatest
    <3>3. QED
      BY <2>1, <2>3, <3>1, <3>2 DEF CacheSound, TypeOK, cacheVars, FramesDisjoint, Mapped,
                                    OneFrameLost, TopIsMapped
  <2>4. CASE UNCHANGED <<cacheVars, status, latest>>
    BY <2>1, <2>4 DEF CacheSound, TypeOK, cacheVars, FramesDisjoint, Mapped, HitIsLatest,
                      OneFrameLost, TopIsMapped
  <2>5. TypeOK
    BY DEF CacheSound
  <2>6. QED
    BY <2>2, <2>3, <2>4, <2>5, CacheSteps
<1>3. QED
  BY <1>1, <1>2, PTL DEF Spec

-----------------------------------------------------------------------------
(* Theorems *)

THEOREM PageCacheTypeOK == Spec => []TypeOK
BY CacheSoundInvariant, PTL DEF CacheSound

\* A hit is served the page added last under its id, for caches of every size,
\* whatever mixture of reads, writes, failed writes and evictions came before.
THEOREM HitIsLatestHolds == Spec => []HitIsLatest
BY CacheSoundInvariant, PTL DEF CacheSound

\* A frame is never free and in use, nor twice in a list.
THEOREM FramesDisjointHolds == Spec => []FramesDisjoint
BY CacheSoundInvariant, PTL DEF CacheSound

\* The cache never survives to lose a second frame.
THEOREM OneFrameLostHolds == Spec => []OneFrameLost
BY CacheSoundInvariant, PTL DEF CacheSound

\* An eviction takes no page from the map but the one whose frame it reuses.
THEOREM EvictsOwnEntryHolds == Spec => EvictsOwnEntry
<1> DEFINE Own == \A id \in Mapped : pageMap'[id] = None => pageMap[id] = Last(usedPages)
<1>1. CacheSound /\ [Next]_vars => Own
  <2> SUFFICES ASSUME CacheSound, [Next]_vars,
                      NEW id \in Mapped, pageMap'[id] = None
               PROVE  pageMap[id] = Last(usedPages)
    OBVIOUS
  <2>1. /\ pageMap \in [AnyId -> Frames \cup {None}]
        /\ id \in AnyId /\ pageMap[id] # None
        /\ None \notin Frames
        /\ TypeOK /\ FramesDisjoint
        /\ Len(usedPages) \in Nat /\ Len(freePages) \in Nat /\ NumPages \in Nat
    BY CacheAssumption DEF CacheSound, TypeOK, Mapped, Frames
  <2>2. ASSUME NEW page \in PageObjects,
               page.id \in AnyId, freePages # <<>>, AddToFree(page)
        PROVE  FALSE
    <3>1. PICK i \in Frames : pageMap' = [pageMap EXCEPT ![page.id] = i]
      BY <2>1, <2>2, AddToFreeEffect
    <3>2. QED
      BY <2>1, <3>1
  <2>3. ASSUME NEW page \in PageObjects,
               page.id \in AnyId, ~HasSpace, EvictTop(page)
        PROVE  pageMap[id] = Last(usedPages)
    <3>1. PICK i \in Frames :
             /\ i = Last(usedPages) /\ usedPages # <<>>
             /\ pageMap' = [pageMap EXCEPT ![cachePages[i].id] = None, ![page.id] = i]
      BY <2>1, <2>3, EvictTopEffect
    <3>2. id = cachePages[i].id
      BY <2>1, <3>1
    <3>3. Len(usedPages) + Len(freePages) = NumPages
      BY <2>1, <2>3 DEF HasSpace, CacheSound, OneFrameLost
    <3>4. pageMap[cachePages[i].id] = i
      BY <3>1, <3>3 DEF CacheSound, TopIsMapped
    <3>5. QED
      BY <3>1, <3>2, <3>4
  <2>4. CASE UNCHANGED cacheVars
    BY <2>1, <2>4 DEF cacheVars
  <2>5. QED
    BY <2>1, <2>2, <2>3, <2>4, CacheSteps
<1> HIDE DEF Own
<1>2. Spec => [][Own]_vars
  BY <1>1, CacheSoundInvariant, PTL DEF Spec
<1>3. QED
  BY <1>2, PTL DEF Own, EvictsOwnEntry
=============================================================================
