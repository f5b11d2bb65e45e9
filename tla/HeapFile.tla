------------------------------ MODULE HeapFile ------------------------------
(***************************************************************************)
(* One heap file of the storage manager, src/src/storage-manager/          *)
(* HeapFile.cpp: a header page (page 0) followed by data pages of          *)
(* SlotsPerPage fixed-size slots.  The first byte of a slot is its valid   *)
(* marker; a slot whose marker is 0, or that lies beyond the end of the    *)
(* file, is free.  The file outlives the process; the handle, with its     *)
(* count of records, does not.                                             *)
(*                                                                         *)
(* The handlers are meant to be driven by a client (BulkLoader, Table);    *)
(* Next below drives them with every legal call.                           *)
(***************************************************************************)
EXTENDS Integers, FiniteSets, FiniteSetsExt

CONSTANTS
    SlotsPerPage,  \* SLOTS_PER_PAGE, PAGE_DATA_SIZE / SLOT_SIZE (1 in the code)
    ScanPages,     \* max_pages of scan_heap (100 in the code)
    MaxPage,       \* bound: data pages of the file
    MaxRecords,    \* bound: records counted by the handle
    Rows,          \* the rows that can be stored
    Free,          \* contents of a slot whose valid marker is 0
    Torn,          \* contents of a slot whose row was written only in part
    Faults         \* what pread/pwrite may do wrong, see FaultKinds

\* "fail": a pwrite stores nothing; "short": a pwrite stores a prefix of the
\* row; "unread": a pread of a valid marker fails.
FaultKinds == {"fail", "short", "unread"}

ASSUME SizesAssumption ==
    /\ SlotsPerPage \in Nat \ {0}
    /\ ScanPages \in Nat \ {0}
    /\ MaxPage \in Nat \ {0}
    /\ MaxRecords \in Nat

ASSUME RowsAssumption == Free \notin Rows /\ Torn \notin Rows /\ Free # Torn

ASSUME FaultsAssumption == Faults \subseteq FaultKinds

Pages    == 1 .. MaxPage
SlotNums == 0 .. SlotsPerPage - 1
RowIds   == Pages \X SlotNums           \* <<page_num, record_num>>
NullRid  == <<0, 0>>                    \* the zeroed RowId of a refused call
Contents == Rows \cup {Free, Torn}

VARIABLES
    disk,        \* contents of every slot of the file
    header,      \* page 0 on disk: "none", "whole", or "damaged"
    handle,      \* HeapFile*: "closed", "sound", or "garbled" (header misread)
    numRecords,  \* metadata.num_records of the handle
    result       \* the RowId the last call returned

vars == <<disk, header, handle, numRecords, result>>

-----------------------------------------------------------------------------
(* Reading slots *)

Live == {rid \in RowIds : disk[rid] # Free}

PageEmpty(page) == \A slot \in SlotNums : disk[<<page, slot>>] = Free

\* The slots of a page that the scan for a free slot takes to be free: the
\* marker byte starts as 0 and stays so when the read of it fails.
LooksFree(page, unread) ==
    {slot \in SlotNums : disk[<<page, slot>>] = Free \/ slot \in unread}

UnreadableSets == IF "unread" \in Faults THEN SUBSET SlotNums ELSE {{}}

FirstPage(hint) == IF hint = 0 THEN 1 ELSE hint

\* Faulty variant: the valid marker is not looked at.
TargetIgnoresMarker(page, unread) == <<page, 0>>

\* Where insert_row puts a row: the first free slot of the page, and if there
\* is none slot 0 of the next page, whatever that slot holds.
TargetOf(page, unread) ==
    IF LooksFree(page, unread) = {} THEN <<page + 1, 0>>
    ELSE <<page, Min(LooksFree(page, unread))>>

\* Faulty variant: the last page before max_pages is not visited.
ScannedEndsEarly ==
    {rid \in Live : /\ rid[1] < ScanPages - 1
                    /\ \A q \in 2 .. rid[1] - 1 : ~PageEmpty(q)}

\* The rows scan_heap returns: it visits the pages below max_pages in order
\* and stops at the first empty one after page 1.
Scanned ==
    {rid \in Live : rid[1] < ScanPages /\ \A q \in 2 .. rid[1] - 1 : ~PageEmpty(q)}

\* What get_row returns for a row id (Free stands for NULL).
GetRow(rid) == disk[rid]

-----------------------------------------------------------------------------
(* Writing slots *)

\* The outcomes of one pwrite that turns the current value old into new.  No
\* caller looks at the number of bytes written.
WriteOutcomes(old, new) ==
    {new} \cup (IF "fail" \in Faults THEN {old} ELSE {})
          \cup (IF "short" \in Faults /\ new \in Rows THEN {Torn} ELSE {})

Init ==
    /\ disk = [rid \in RowIds |-> Free]
    /\ header = "none"
    /\ handle = "closed"
    /\ numRecords = 0
    /\ result = NullRid

\* create_heapfile and the HeapFile constructor.  The file is opened without
\* O_TRUNC: only page 0 is rewritten, and the rows of an earlier file of the
\* same name stay behind a count of 0.  What became of the writes is not asked.
CreateHeapfile ==
    /\ handle = "closed"
    /\ \/ header' = "whole"
       \/ Faults \cap {"fail", "short"} # {} /\ header' = "damaged"
       \/ "fail" \in Faults /\ UNCHANGED header
    /\ handle' = "sound"
    /\ numRecords' = 0
    /\ UNCHANGED <<disk, result>>

\* load_heapfile_registry in a new process.  The count is read from a header
\* in which nothing ever stored it: 0, or, once the identifier's first byte is
\* lost, whatever bytes the shifted fields hold.  A header that never came to
\* the file reads as zeros when rows lie behind it; a file without either (or
\* with freed slots only, which are not told from it here) gives NULL.
LoadHeapfile ==
    /\ handle = "closed"
    /\ \/ header = "whole" /\ handle' = "sound" /\ numRecords' = 0
       \/ header = "none" /\ Live # {} /\ handle' = "garbled" /\ numRecords' = 0
       \/ header = "damaged" /\ handle' = "garbled" /\ numRecords' \in 0 .. MaxRecords
    /\ UNCHANGED <<disk, header, result>>

\* The process exits or is killed: what is on disk stays.
CloseProcess ==
    /\ handle # "closed"
    /\ handle' = "closed"
    /\ numRecords' = 0
    /\ result' = NullRid
    /\ UNCHANGED <<disk, header>>

\* insert_row(heapfile, row, page_num).  The id is returned and the record
\* counted whatever came of the write.
InsertRow(hint, row) ==
    /\ handle # "closed"
    /\ numRecords < MaxRecords
    /\ \E unread \in UnreadableSets :
         LET rid == TargetOf(FirstPage(hint), unread)
         IN  /\ rid \in RowIds
             /\ \E c \in WriteOutcomes(disk[rid], row) :
                  disk' = [disk EXCEPT ![rid] = c]
             /\ result' = rid
    /\ numRecords' = numRecords + 1
    /\ UNCHANGED <<header, handle>>

\* Faulty variants: the count is decremented without a test; not at all.
DeleteUnderflows(rid) ==
    /\ handle # "closed"
    /\ IF rid = NullRid
       THEN header' = "damaged" /\ UNCHANGED disk
       ELSE disk' = [disk EXCEPT ![rid] = Free] /\ UNCHANGED header
    /\ numRecords' = numRecords - 1
    /\ result' = rid
    /\ UNCHANGED handle
DeleteDoesNotCount(rid) ==
    /\ handle # "closed"
    /\ IF rid = NullRid
       THEN header' = "damaged" /\ UNCHANGED disk
       ELSE disk' = [disk EXCEPT ![rid] = Free] /\ UNCHANGED header
    /\ result' = rid
    /\ UNCHANGED <<handle, numRecords>>

\* delete_row(heapfile, rid).  Whether the slot holds a row is not checked,
\* nor whether the id is the null id, whose marker byte is the first byte of
\* the header page.
DeleteRow(rid) ==
    /\ handle # "closed"
    /\ IF rid = NullRid
       THEN /\ header' = "damaged" \/ ("fail" \in Faults /\ UNCHANGED header)
            /\ UNCHANGED disk
       ELSE /\ \E c \in WriteOutcomes(disk[rid], Free) :
                 disk' = [disk EXCEPT ![rid] = c]
            /\ UNCHANGED header
    /\ numRecords' = IF numRecords > 0 THEN numRecords - 1 ELSE 0
    /\ result' = rid
    /\ UNCHANGED handle

Next ==
    \/ CreateHeapfile
    \/ LoadHeapfile
    \/ CloseProcess
    \/ \E hint \in Pages \cup {0}, row \in Rows : InsertRow(hint, row)
    \/ \E rid \in RowIds \cup {NullRid} : DeleteRow(rid)

Spec == Init /\ [][Next]_vars

-----------------------------------------------------------------------------
(* Properties *)

TypeOK ==
    /\ disk \in [RowIds -> Contents]
    /\ header \in {"none", "whole", "damaged"}
    /\ handle \in {"closed", "sound", "garbled"}
    /\ numRecords \in 0 .. MaxRecords
    /\ result \in RowIds \cup {NullRid}

\* A row is destroyed only by a deletion of it, or by an insert that found the
\* whole previous page occupied: no other sequence of calls, and no failed or
\* short write, loses a row.
RowsLostOnlyAtOverflow ==
    [][\A rid \in RowIds :
         disk[rid] # Free /\ disk'[rid] # disk[rid]
           => \/ result' = rid /\ disk'[rid] = Free
              \/ /\ rid[2] = 0 /\ rid[1] > 1
                 /\ \A slot \in SlotNums : disk[<<rid[1] - 1, slot>>] # Free]_vars
=============================================================================
