--------------------------- MODULE HeapFileProofs ---------------------------
(***************************************************************************)
(* Theorems about HeapFile for every number of slots, pages, records and   *)
(* rows, and the lemmas about its operators that the client modules' proofs *)
(* rest on; then theorems about its client BulkLoader: it implements       *)
(* RowStore and keeps its count exact as long as the disk does what it is  *)
(* told and no rerun starts over at page 1, and its scans are complete,    *)
(* whatever the disk does, as long as it deletes nothing.                  *)
(***************************************************************************)
EXTENDS BulkLoader, DataProofs, FiniteSetTheorems

-----------------------------------------------------------------------------
(* The heap file *)

\* insert_row aims at a slot of the page that looks free to it, or else at slot
\* 0 of the next page, and then no slot of the page looked free.
LEMMA TargetCases ==
    ASSUME NEW page, NEW unread, LooksFree(page, unread) \subseteq SlotNums
    PROVE  \/ /\ LooksFree(page, unread) = {}
              /\ TargetOf(page, unread) = <<page + 1, 0>>
           \/ \E slot \in LooksFree(page, unread) :
                 TargetOf(page, unread) = <<page, slot>>
<1>1. CASE LooksFree(page, unread) = {}
  BY <1>1 DEF TargetOf
<1>2. CASE LooksFree(page, unread) # {}
  <2>1. LooksFree(page, unread) \subseteq Nat
    BY SizesAssumption DEF SlotNums
  <2>2. Min(LooksFree(page, unread)) \in LooksFree(page, unread)
    BY <1>2, <2>1, MinInSet
  <2>3. QED
    BY <1>2, <2>2 DEF TargetOf
<1>3. QED
  BY <1>1, <1>2

\* A write leaves a slot with legal contents.
LEMMA OutcomesAreContents ==
    ASSUME NEW old \in Contents, NEW new \in Contents
    PROVE  WriteOutcomes(old, new) \subseteq Contents
BY DEF WriteOutcomes, Contents

\* Every step of a heap file preserves the types of its variables.
LEMMA HeapFileTypeStep ==
    ASSUME TypeOK, [Next]_vars
    PROVE  TypeOK'
<1>1. CASE CreateHeapfile
  BY <1>1, SizesAssumption DEF CreateHeapfile, TypeOK
<1>2. CASE LoadHeapfile
  BY <1>2, SizesAssumption DEF LoadHeapfile, TypeOK
<1>3. CASE CloseProcess
  BY <1>3, SizesAssumption DEF CloseProcess, TypeOK
<1>4. ASSUME NEW hint \in Pages \cup {0}, NEW row \in Rows, InsertRow(hint, row)
      PROVE  TypeOK'
  <2>1. PICK unread \in UnreadableSets :
           LET rid == TargetOf(FirstPage(hint), unread)
           IN  /\ rid \in RowIds
               /\ \E c \in WriteOutcomes(disk[rid], row) :
                    disk' = [disk EXCEPT ![rid] = c]
               /\ result' = rid
    BY <1>4 DEF InsertRow
  <2>2. disk' \in [RowIds -> Contents]
    BY <2>1, OutcomesAreContents DEF TypeOK, Contents
  <2>3. numRecords' \in 0 .. MaxRecords
    BY <1>4, SizesAssumption DEF InsertRow, TypeOK
  <2>4. QED
    BY <1>4, <2>1, <2>2, <2>3 DEF InsertRow, TypeOK
<1>5. ASSUME NEW rid \in RowIds \cup {NullRid}, DeleteRow(rid)
      PROVE  TypeOK'
  <2>1. disk' \in [RowIds -> Contents]
    <3>1. CASE rid = NullRid
      BY <1>5, <3>1 DEF DeleteRow, TypeOK
    <3>2. CASE rid # NullRid
      BY <1>5, <3>2, OutcomesAreContents DEF DeleteRow, TypeOK, Contents
    <3>3. QED
      BY <3>1, <3>2
  <2>2. header' \in {"none", "whole", "damaged"}
    BY <1>5 DEF DeleteRow, TypeOK
  <2>3. numRecords' \in 0 .. MaxRecords
    BY <1>5, SizesAssumption DEF DeleteRow, TypeOK
  <2>4. QED
    BY <1>5, <2>1, <2>2, <2>3 DEF DeleteRow, TypeOK
<1>6. CASE UNCHANGED vars
  BY <1>6 DEF vars, TypeOK
<1>7. QED
  BY <1>1, <1>2, <1>3, <1>4, <1>5, <1>6 DEF Next

\* The slots, pages and counters of a heap file and the id of every call stay
\* within their types, through faults, restarts and calls in any order.
THEOREM HeapFileTypeOK == Spec => []TypeOK
<1>1. Init => TypeOK
  BY SizesAssumption DEF Init, TypeOK, Contents
<1>2. QED
  BY <1>1, HeapFileTypeStep, PTL DEF Spec

\* Without failed reads of a valid marker, a row is destroyed only by its
\* deletion or by an insert that found the whole previous page occupied; this
\* covers writes that fail and writes that are cut short.
THEOREM RowsLostOnlyAtOverflowHolds ==
    ASSUME "unread" \notin Faults
    PROVE  Spec => RowsLostOnlyAtOverflow
<1> DEFINE Lost(rid) ==
      \/ result' = rid /\ disk'[rid] = Free
      \/ /\ rid[2] = 0 /\ rid[1] > 1
         /\ \A slot \in SlotNums : disk[<<rid[1] - 1, slot>>] # Free
<1> DEFINE Step == \A rid \in RowIds :
      disk[rid] # Free /\ disk'[rid] # disk[rid] => Lost(rid)
<1>1. TypeOK /\ [Next]_vars => Step
  <2> SUFFICES ASSUME TypeOK, [Next]_vars, NEW rid \in RowIds,
                      disk[rid] # Free, disk'[rid] # disk[rid]
               PROVE  Lost(rid)
    OBVIOUS
  <2>1. ASSUME NEW hint \in Pages \cup {0}, NEW row \in Rows, InsertRow(hint, row)
        PROVE  Lost(rid)
    <3> DEFINE page == FirstPage(hint)
    <3>1. PICK target \in RowIds :
             /\ target = TargetOf(page, {})
             /\ \E c \in WriteOutcomes(disk[target], row) :
                  disk' = [disk EXCEPT ![target] = c]
      BY <2>1 DEF InsertRow, UnreadableSets
    <3>2. target = rid
      BY <3>1 DEF TypeOK
    <3>3. page \in Nat /\ page >= 1
      BY SizesAssumption DEF FirstPage, Pages
    <3>4. \A slot \in SlotNums :
             slot \in LooksFree(page, {}) <=> disk[<<page, slot>>] = Free
      BY DEF LooksFree
    <3>5. LooksFree(page, {}) = {} /\ rid = <<page + 1, 0>>
      <4>1. LooksFree(page, {}) \subseteq SlotNums
        BY DEF LooksFree
      <4>2. \/ LooksFree(page, {}) = {} /\ rid = <<page + 1, 0>>
            \/ \E slot \in LooksFree(page, {}) : rid = <<page, slot>>
        BY <3>1, <3>2, <4>1, TargetCases
      <4>3. QED
        BY <3>4, <4>1, <4>2
    <3>6. rid[2] = 0 /\ rid[1] = page + 1
      BY <3>5
    <3>7. rid[1] > 1 /\ rid[1] - 1 = page
      BY <3>3, <3>6
    <3>8. \A slot \in SlotNums : disk[<<rid[1] - 1, slot>>] # Free
      BY <3>4, <3>5, <3>7
    <3>9. QED
      BY <3>6, <3>7, <3>8
  <2>2. ASSUME NEW r \in RowIds \cup {NullRid}, DeleteRow(r)
        PROVE  Lost(rid)
    <3>1. r = rid /\ r # NullRid
      BY <2>2 DEF DeleteRow, TypeOK
    <3>2. disk'[rid] = Free
      <4>1. PICK c \in WriteOutcomes(disk[rid], Free) : disk' = [disk EXCEPT ![rid] = c]
        BY <2>2, <3>1 DEF DeleteRow
      <4>2. c \in {Free, disk[rid]}
        BY <4>1, RowsAssumption DEF WriteOutcomes
      <4>3. QED
        BY <4>1, <4>2 DEF TypeOK
    <3>3. QED
      BY <2>2, <3>1, <3>2 DEF DeleteRow
  <2>3. ASSUME UNCHANGED disk
        PROVE  Lost(rid)
    BY <2>3
  <2>4. QED
    BY <2>1, <2>2, <2>3
    DEF Next, CreateHeapfile, LoadHeapfile, CloseProcess, vars
<1>2. QED
  BY <1>1, HeapFileTypeOK, PTL DEF Spec, RowsLostOnlyAtOverflow

-----------------------------------------------------------------------------
(* A client that loads rows *)

\* The insert loop of the loader as seen from the store: the id it fills, what
\* the write left there, and the page it goes on with.
LEMMA LoadRowEffect ==
    ASSUME LoaderTypeOK, NEW row \in Rows, LoadRow(row)
    PROVE  \E rid \in RowIds, unread \in UnreadableSets :
              /\ \E c \in WriteOutcomes(disk[rid], row) :
                   disk' = [disk EXCEPT ![rid] = c]
              /\ current' = rid[1]
              /\ result' = rid
              /\ \/ rid = <<current + 1, 0>> /\ LooksFree(current, unread) = {}
                 \/ \E slot \in LooksFree(current, unread) : rid = <<current, slot>>
<1>1. FirstPage(current) = current
  BY SizesAssumption DEF LoaderTypeOK, Pages, FirstPage
<1>2. PICK unread \in UnreadableSets, rid \in RowIds :
         /\ rid = TargetOf(current, unread)
         /\ \E c \in WriteOutcomes(disk[rid], row) :
              disk' = [disk EXCEPT ![rid] = c]
         /\ result' = rid
  BY <1>1 DEF LoadRow, InsertRow
<1>3. LooksFree(current, unread) \subseteq SlotNums
  BY DEF LooksFree
<1>4. \/ rid = <<current + 1, 0>> /\ LooksFree(current, unread) = {}
      \/ \E slot \in LooksFree(current, unread) : rid = <<current, slot>>
  BY <1>2, <1>3, TargetCases
<1>5. current' = rid[1]
  BY <1>2 DEF LoadRow
<1>6. QED
  BY <1>2, <1>4, <1>5

LEMMA RowIdsFinite == IsFiniteSet(RowIds)
<1>1. IsFiniteSet(Pages) /\ IsFiniteSet(SlotNums)
  BY SizesAssumption, FS_Interval DEF Pages, SlotNums
<1>2. QED
  BY <1>1, FS_Product DEF RowIds

\* The loader stays within its types.
THEOREM LoaderTypeCorrect == LoaderSpec => []LoaderTypeOK
<1>1. LoaderInit => LoaderTypeOK
  <2>1. Init => TypeOK
    BY SizesAssumption DEF Init, TypeOK, Contents
  <2>2. 1 \in Pages
    BY SizesAssumption DEF Pages
  <2>3. QED
    BY <2>1, <2>2 DEF LoaderInit, LoaderTypeOK
<1>2. LoaderTypeOK /\ [LoaderNext]_loaderVars => LoaderTypeOK'
  <2> SUFFICES ASSUME LoaderTypeOK, [LoaderNext]_loaderVars
               PROVE  LoaderTypeOK'
    OBVIOUS
  <2>1. TypeOK'
    <3>1. [Next]_vars
      BY DEF LoaderNext, loaderVars, Start, Exit, LoadRow, RemoveRow, Next, vars,
             LoaderTypeOK
    <3>2. QED
      BY <3>1, HeapFileTypeStep DEF LoaderTypeOK
  <2>2. current' \in Pages
    <3>1. ASSUME NEW row \in Rows, LoadRow(row)
          PROVE  current' \in Pages
      BY <3>1, LoadRowEffect DEF RowIds
    <3>2. CASE Start
      BY <3>2, SizesAssumption DEF Start, Pages
    <3>3. ASSUME UNCHANGED current
          PROVE  current' \in Pages
      BY <3>3 DEF LoaderTypeOK
    <3>4. QED
      BY <3>1, <3>2, <3>3 DEF LoaderNext, loaderVars, Exit, RemoveRow
  <2>3. deleted' \in BOOLEAN
    BY DEF LoaderNext, loaderVars, Start, Exit, LoadRow, RemoveRow, LoaderTypeOK
  <2>4. QED
    BY <2>1, <2>2, <2>3 DEF LoaderTypeOK
<1>3. QED
  BY <1>1, <1>2, PTL DEF LoaderSpec

-----------------------------------------------------------------------------
(* The loader implements the abstract store *)

\* What makes it so: the loader never goes back to an earlier page, so that
\* the pages after the current one are empty, and the file it creates is new.
NothingBeyondCurrent ==
    /\ \A rid \in RowIds : rid[1] > current => disk[rid] = Free
    /\ header = "none" => \A rid \in RowIds : disk[rid] = Free
    /\ header = "none" => handle = "closed"

\* On a disk that does what it is told an insert fills a free slot with the row
\* and a deletion frees the slot of its row.
LEMMA LoaderSteps ==
    ASSUME Faults = {}, ~Reruns, LoaderTypeOK, NothingBeyondCurrent,
           [LoaderNext]_loaderVars
    PROVE  \/ \E row \in Rows, rid \in RowIds :
                 /\ LoadRow(row)
                 /\ disk[rid] = Free
                 /\ disk' = [disk EXCEPT ![rid] = row]
                 /\ current' = rid[1]
                 /\ current' >= current
           \/ \E rid \in RowIds :
                 /\ RemoveRow(rid)
                 /\ disk[rid] # Free
                 /\ disk' = [disk EXCEPT ![rid] = Free]
           \/ Start /\ UNCHANGED disk
           \/ (Exit \/ UNCHANGED loaderVars) /\ UNCHANGED disk
<1>1. ASSUME NEW row \in Rows, LoadRow(row)
      PROVE  \E rid \in RowIds :
                 /\ disk[rid] = Free
                 /\ disk' = [disk EXCEPT ![rid] = row]
                 /\ current' = rid[1]
                 /\ current' >= current
  <2>1. PICK rid \in RowIds, unread \in UnreadableSets :
           /\ \E c \in WriteOutcomes(disk[rid], row) :
                disk' = [disk EXCEPT ![rid] = c]
           /\ current' = rid[1]
           /\ result' = rid
           /\ \/ rid = <<current + 1, 0>> /\ LooksFree(current, unread) = {}
              \/ \E slot \in LooksFree(current, unread) : rid = <<current, slot>>
    BY <1>1, LoadRowEffect
  <2>2. disk' = [disk EXCEPT ![rid] = row]
    BY <2>1 DEF WriteOutcomes
  <2>3. current \in Nat
    BY SizesAssumption DEF LoaderTypeOK, Pages
  <2>4. ASSUME rid = <<current + 1, 0>>
        PROVE  disk[rid] = Free /\ rid[1] >= current
    <3>1. rid[1] = current + 1
      BY <2>4
    <3>2. disk[rid] = Free
      BY <2>3, <3>1 DEF NothingBeyondCurrent
    <3>3. rid[1] >= current
      BY <2>3, <3>1
    <3>4. QED
      BY <3>2, <3>3
  <2>5. ASSUME NEW slot \in LooksFree(current, unread), rid = <<current, slot>>
        PROVE  disk[rid] = Free /\ rid[1] >= current
    <3>1. disk[rid] = Free
      BY <2>1, <2>5 DEF LooksFree, UnreadableSets
    <3>2. rid[1] = current
      BY <2>5
    <3>3. rid[1] >= current
      BY <2>3, <3>2
    <3>4. QED
      BY <3>1, <3>3
  <2>6. disk[rid] = Free /\ rid[1] >= current
    BY <2>1, <2>4, <2>5
  <2>7. current' = rid[1]
    BY <2>1
  <2>8. current' >= current
    BY <2>6, <2>7
  <2>9. QED
    BY <2>2, <2>6, <2>7, <2>8
<1>2. ASSUME NEW rid \in RowIds, RemoveRow(rid)
      PROVE  disk[rid] # Free /\ disk' = [disk EXCEPT ![rid] = Free]
  <2>1. rid # NullRid
    BY SizesAssumption DEF RowIds, Pages, NullRid
  <2>2. QED
    BY <1>2, <2>1, RowsAssumption DEF RemoveRow, DeleteRow, WriteOutcomes, Live
<1>3. Start \/ Exit \/ UNCHANGED loaderVars => UNCHANGED disk
  BY DEF Start, CreateHeapfile, Exit, CloseProcess, loaderVars, vars
<1>4. QED
  BY <1>1, <1>2, <1>3 DEF LoaderNext

LEMMA NothingBeyondCurrentInvariant ==
    ASSUME Faults = {}, ~Reruns
    PROVE  LoaderSpec => []NothingBeyondCurrent
<1>1. LoaderInit => NothingBeyondCurrent
  BY DEF LoaderInit, Init, NothingBeyondCurrent
<1>2. LoaderTypeOK /\ NothingBeyondCurrent /\ [LoaderNext]_loaderVars
        => NothingBeyondCurrent'
  <2> SUFFICES ASSUME LoaderTypeOK, NothingBeyondCurrent, [LoaderNext]_loaderVars
               PROVE  NothingBeyondCurrent'
    OBVIOUS
  <2>0. /\ current \in Int
        /\ \A rid \in RowIds : rid[1] \in Int
        /\ disk \in [RowIds -> Contents]
    BY SizesAssumption DEF LoaderTypeOK, TypeOK, Pages, RowIds
  <2>1. ASSUME NEW row \in Rows, NEW rid \in RowIds,
               LoadRow(row),
               disk' = [disk EXCEPT ![rid] = row],
               current' = rid[1],
               current' >= current
        PROVE  NothingBeyondCurrent'
    <3>1. header' = header /\ handle' = handle /\ handle # "closed"
      BY <2>1 DEF LoadRow, InsertRow
    <3>2. header # "none"
      BY <3>1 DEF NothingBeyondCurrent
    <3>3. ASSUME NEW r \in RowIds, r[1] > current'
          PROVE  disk'[r] = Free
      BY <2>0, <2>1, <3>3 DEF NothingBeyondCurrent
    <3>4. QED
      BY <3>1, <3>2, <3>3 DEF NothingBeyondCurrent
  <2>2. ASSUME NEW rid \in RowIds,
               RemoveRow(rid),
               disk' = [disk EXCEPT ![rid] = Free]
        PROVE  NothingBeyondCurrent'
    <3>1. handle' = handle /\ current' = current
      BY <2>2 DEF RemoveRow, DeleteRow
    <3>2. rid # NullRid
      BY SizesAssumption DEF RowIds, Pages, NullRid
    <3>3. header' = header
      BY <2>2, <3>2 DEF RemoveRow, DeleteRow
    <3>4. \A r \in RowIds : disk'[r] = Free \/ disk'[r] = disk[r]
      BY <2>0, <2>2
    <3>5. QED
      BY <3>1, <3>3, <3>4 DEF NothingBeyondCurrent
  <2>3. CASE Start /\ UNCHANGED disk
    <3>1. header = "none" /\ header' # "none"
      BY <2>3 DEF Start, CreateHeapfile
    <3>2. QED
      BY <2>3, <3>1 DEF NothingBeyondCurrent
  <2>4. CASE (Exit \/ UNCHANGED loaderVars) /\ UNCHANGED disk
    BY <2>4 DEF Exit, CloseProcess, loaderVars, vars, NothingBeyondCurrent
  <2>5. QED
    BY <2>1, <2>2, <2>3, <2>4, LoaderSteps
<1>3. QED
  BY <1>1, <1>2, LoaderTypeCorrect, PTL DEF LoaderSpec

\* Without faults and reruns every behaviour of the loader is a behaviour of
\* the abstract store: ids are handed out only while free, and a row stays
\* under its id until the client deletes it.
THEOREM LoaderStoresRows ==
    ASSUME Faults = {}, ~Reruns
    PROVE  LoaderSpec => StoresRows
<1>1. LoaderInit => Store!Init
  BY DEF LoaderInit, Init, Store!Init
<1>2. LoaderTypeOK /\ NothingBeyondCurrent /\ [LoaderNext]_loaderVars
        => [Store!Next]_disk
  <2> SUFFICES ASSUME LoaderTypeOK, NothingBeyondCurrent, [LoaderNext]_loaderVars
               PROVE  [Store!Next]_disk
    OBVIOUS
  <2>1. ASSUME NEW row \in Rows, NEW rid \in RowIds, disk[rid] = Free,
               disk' = [disk EXCEPT ![rid] = row]
        PROVE  Store!Next
    BY <2>1 DEF Store!Next, Store!Insert
  <2>2. ASSUME NEW rid \in RowIds, disk[rid] # Free,
               disk' = [disk EXCEPT ![rid] = Free]
        PROVE  Store!Next
    BY <2>2 DEF Store!Next, Store!Delete
  <2>3. QED
    BY <2>1, <2>2, LoaderSteps
<1>3. QED
  BY <1>1, <1>2, LoaderTypeCorrect, NothingBeyondCurrentInvariant, PTL
  DEF LoaderSpec, StoresRows, Store!Spec

-----------------------------------------------------------------------------
(* The count of records *)

\* Without faults and reruns the handle's record count is exact, after any mix
\* of insertions and deletions.
THEOREM LoaderCountExact ==
    ASSUME Faults = {}, ~Reruns
    PROVE  LoaderSpec => []CountExact
<1>1. LoaderInit => CountExact
  BY DEF LoaderInit, Init, CountExact
<1>2. LoaderTypeOK /\ NothingBeyondCurrent /\ CountExact /\ [LoaderNext]_loaderVars
        => CountExact'
  <2> SUFFICES ASSUME LoaderTypeOK, NothingBeyondCurrent, CountExact,
                      [LoaderNext]_loaderVars
               PROVE  CountExact'
    OBVIOUS
  <2>1. disk \in [RowIds -> Contents]
    BY DEF LoaderTypeOK, TypeOK
  <2>2. IsFiniteSet(Live)
    BY RowIdsFinite, FS_Subset DEF Live
  <2>3. Cardinality(Live) \in Nat
    BY <2>2, FS_CardinalityType
  <2>4. ASSUME NEW row \in Rows, NEW rid \in RowIds, LoadRow(row),
               disk[rid] = Free, disk' = [disk EXCEPT ![rid] = row]
        PROVE  CountExact'
    <3>1. Live' = Live \cup {rid} /\ rid \notin Live
      BY <2>1, <2>4, RowsAssumption DEF Live
    <3>2. Cardinality(Live') = Cardinality(Live) + 1
      BY <2>2, <3>1, FS_AddElement
    <3>3. handle # "closed" /\ numRecords' = numRecords + 1
      BY <2>4 DEF LoadRow, InsertRow
    <3>4. QED
      BY <3>2, <3>3 DEF CountExact
  <2>5. ASSUME NEW rid \in RowIds, RemoveRow(rid), disk[rid] # Free,
               disk' = [disk EXCEPT ![rid] = Free]
        PROVE  CountExact'
    <3>1. Live' = Live \ {rid} /\ rid \in Live
      BY <2>1, <2>5 DEF Live
    <3>2. Cardinality(Live') = Cardinality(Live) - 1
      BY <2>2, <3>1, FS_RemoveElement
    <3>3. Cardinality(Live) # 0
      BY <2>2, <3>1, FS_EmptySet
    <3>4. /\ handle # "closed"
          /\ numRecords' = IF numRecords > 0 THEN numRecords - 1 ELSE 0
      BY <2>5 DEF RemoveRow, DeleteRow
    <3>5. numRecords = Cardinality(Live)
      BY <3>4 DEF CountExact
    <3>6. QED
      BY <2>3, <3>2, <3>3, <3>4, <3>5 DEF CountExact
  <2>6. CASE Start /\ UNCHANGED disk
    <3>1. header = "none" /\ numRecords' = 0
      BY <2>6 DEF Start, CreateHeapfile
    <3>2. Live' = {}
      BY <2>6, <3>1 DEF NothingBeyondCurrent, Live
    <3>3. QED
      BY <3>1, <3>2, FS_EmptySet DEF CountExact
  <2>7. CASE Exit
    BY <2>7 DEF Exit, CloseProcess, CountExact
  <2>8. CASE UNCHANGED loaderVars
    BY <2>8 DEF loaderVars, vars, CountExact, Live
  <2>9. QED
    BY <2>4, <2>5, <2>6, <2>7, <2>8, LoaderSteps
<1>3. QED
  BY <1>1, <1>2, LoaderTypeCorrect, NothingBeyondCurrentInvariant, PTL
  DEF LoaderSpec

-----------------------------------------------------------------------------
(* Scans *)

\* As long as nothing was deleted, no page before the current one, or before
\* one that holds a row, is empty.
NoEmptyPageBefore ==
    ~deleted =>
        /\ \A q \in 1 .. current - 1 : ~PageEmpty(q)
        /\ \A rid \in Live : \A q \in 1 .. rid[1] - 1 : ~PageEmpty(q)

LEMMA NoEmptyPageBeforeInvariant == LoaderSpec => []NoEmptyPageBefore
<1>1. LoaderInit => NoEmptyPageBefore
  BY DEF LoaderInit, Init, NoEmptyPageBefore, Live
<1>2. LoaderTypeOK /\ NoEmptyPageBefore /\ [LoaderNext]_loaderVars
        => NoEmptyPageBefore'
  <2> SUFFICES ASSUME LoaderTypeOK, NoEmptyPageBefore, [LoaderNext]_loaderVars,
                      ~deleted'
               PROVE  NoEmptyPageBefore'
    BY DEF NoEmptyPageBefore
  <2>0. ~deleted
    BY DEF LoaderNext, loaderVars, Start, Exit, LoadRow, RemoveRow
  <2>1. /\ disk \in [RowIds -> Contents]
        /\ current \in Pages
        /\ current \in Int
    BY SizesAssumption DEF LoaderTypeOK, TypeOK, Pages
  <2>2. ASSUME NEW row \in Rows, LoadRow(row)
        PROVE  NoEmptyPageBefore'
    <3>1. PICK rid \in RowIds, unread \in UnreadableSets :
             /\ \E c \in WriteOutcomes(disk[rid], row) :
                  disk' = [disk EXCEPT ![rid] = c]
             /\ current' = rid[1]
             /\ result' = rid
             /\ \/ rid = <<current + 1, 0>> /\ LooksFree(current, unread) = {}
                \/ \E slot \in LooksFree(current, unread) : rid = <<current, slot>>
      BY <2>2, LoadRowEffect
    <3>2. \A r \in RowIds : disk[r] # Free => disk'[r] # Free
      BY <2>1, <3>1, RowsAssumption DEF WriteOutcomes
    <3>3. \A r \in RowIds : r # rid => disk'[r] = disk[r]
      BY <2>1, <3>1
    <3>4. \A q \in Pages : ~PageEmpty(q) => ~PageEmpty(q)'
      BY <3>2 DEF PageEmpty, RowIds
    <3>5. 0 \in SlotNums
      BY SizesAssumption DEF SlotNums
    <3>6. \/ rid[1] = current
          \/ rid[1] = current + 1 /\ ~PageEmpty(current)
      <4>1. ASSUME rid = <<current + 1, 0>>, LooksFree(current, unread) = {}
            PROVE  rid[1] = current + 1 /\ ~PageEmpty(current)
        BY <3>5, <4>1 DEF LooksFree, PageEmpty
      <4>2. ASSUME NEW slot \in LooksFree(current, unread), rid = <<current, slot>>
            PROVE  rid[1] = current
        BY <4>2
      <4>3. QED
        BY <3>1, <4>1, <4>2
    <3>7. rid[1] \in Pages
      BY DEF RowIds
    <3>8. \A q \in 1 .. rid[1] - 1 : q \in Pages /\ ~PageEmpty(q)
      BY <2>0, <2>1, <3>6, <3>7, SizesAssumption DEF NoEmptyPageBefore, Pages
    <3>9. \A q \in 1 .. rid[1] - 1 : ~PageEmpty(q)'
      BY <3>4, <3>8
    <3>10. \A q \in 1 .. current' - 1 : ~PageEmpty(q)'
      <4>1. current' = rid[1]
        BY <3>1
      <4>2. QED
        BY <3>9, <4>1
    <3>11. ASSUME NEW r \in Live', NEW q \in 1 .. r[1] - 1
           PROVE  ~PageEmpty(q)'
      <4>1. CASE r = rid
        BY <3>9, <3>11, <4>1
      <4>2. CASE r # rid
        <5>1. r \in Live /\ r[1] \in Pages
          BY <3>3, <4>2 DEF Live, RowIds
        <5>2. ~PageEmpty(q)
          BY <2>0, <5>1 DEF NoEmptyPageBefore
        <5>3. q \in Pages
          BY <5>1, SizesAssumption DEF Pages
        <5>4. QED
          BY <3>4, <5>2, <5>3
      <4>3. QED
        BY <4>1, <4>2
    <3>12. QED
      BY <3>10, <3>11 DEF NoEmptyPageBefore
  <2>3. CASE Start
    BY <2>0, <2>3 DEF Start, CreateHeapfile, NoEmptyPageBefore, Live, PageEmpty
  <2>4. CASE Exit
    BY <2>0, <2>4 DEF Exit, CloseProcess, NoEmptyPageBefore, Live, PageEmpty
  <2>5. CASE UNCHANGED loaderVars
    BY <2>5 DEF loaderVars, vars, NoEmptyPageBefore, Live, PageEmpty
  <2>6. QED
    BY <2>2, <2>3, <2>4, <2>5 DEF LoaderNext, RemoveRow
<1>3. QED
  BY <1>1, <1>2, LoaderTypeCorrect, PTL DEF LoaderSpec

\* As long as it deletes nothing the loader leaves no row a scan would miss
\* below max_pages, whatever its writes did and however often it is rerun.
THEOREM LoaderScansComplete == LoaderSpec => []ScanFindsEveryRow
<1>1. NoEmptyPageBefore => ScanFindsEveryRow
  BY DEF NoEmptyPageBefore, ScanFindsEveryRow, Scanned
<1>2. QED
  BY <1>1, NoEmptyPageBeforeInvariant, PTL
=============================================================================
