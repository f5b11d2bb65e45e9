----------------------------- MODULE BulkLoader -----------------------------
(***************************************************************************)
(* A client of one heap file that follows the protocol of insert_row's     *)
(* page argument, as examples/storage-manager/generate_dummy_data.cpp      *)
(* does: start at page 1 of a heap file it creates, and pass to every      *)
(* insert the page the previous one returned.  The client may also delete  *)
(* rows it holds (delete_row is public; the example does not call it), and *)
(* the program may be run again on the file an earlier run left.           *)
(***************************************************************************)
EXTENDS HeapFile

CONSTANT Reruns     \* BOOLEAN: is the program run again on an existing file

ASSUME RerunsAssumption == Reruns \in BOOLEAN

VARIABLES
    current,    \* current_page of the loader
    deleted     \* history: has a row of the file been deleted

loaderVars == <<vars, current, deleted>>

LoaderInit == Init /\ current = 1 /\ deleted = FALSE

\* Program start: the heap file is created, or opened over the old one.
Start ==
    /\ Reruns \/ header = "none"
    /\ CreateHeapfile
    /\ current' = 1
    /\ UNCHANGED deleted

\* Faulty variants: the returned page is not followed; the returned slot is
\* followed instead of it.
LoadRowStays(row) ==
    /\ InsertRow(current, row)
    /\ UNCHANGED <<current, deleted>>
LoadRowFollowsSlot(row) ==
    /\ InsertRow(current, row)
    /\ current' = result'[2]
    /\ UNCHANGED deleted

\* One turn of the insert loop.
LoadRow(row) ==
    /\ InsertRow(current, row)
    /\ current' = result'[1]
    /\ UNCHANGED deleted

\* The client deletes a row it holds.
RemoveRow(rid) ==
    /\ rid \in Live
    /\ DeleteRow(rid)
    /\ deleted' = TRUE
    /\ UNCHANGED current

\* The program ends, or is killed between two rows.
Exit == CloseProcess /\ UNCHANGED <<current, deleted>>

LoaderNext ==
    \/ Start
    \/ Exit
    \/ \E row \in Rows : LoadRow(row)
    \/ \E rid \in RowIds : RemoveRow(rid)

LoaderSpec == LoaderInit /\ [][LoaderNext]_loaderVars

-----------------------------------------------------------------------------
(* Properties *)

LoaderTypeOK == TypeOK /\ current \in Pages /\ deleted \in BOOLEAN

\* Without faults and reruns the loader implements the abstract store: an
\* insert only ever takes a free id, and no row is lost but by its deletion.
\* It rests on there being no row beyond the current page.
Store == INSTANCE RowStore WITH rows <- disk
StoresRows == Store!Spec

\* Without faults and reruns the handle's count is the number of rows in the
\* file, through every mix of insertions and deletions.
CountExact == handle # "closed" => numRecords = Cardinality(Live)

\* As long as nothing was deleted a scan returns every row of the pages below
\* max_pages, even after reruns over an old file and after writes that failed
\* or were cut short: the loader leaves no empty page behind.
ScanFindsEveryRow ==
    ~deleted => \A rid \in Live : rid[1] < ScanPages => rid \in Scanned
=============================================================================
