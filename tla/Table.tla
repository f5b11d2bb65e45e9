------------------------------- MODULE Table -------------------------------
(***************************************************************************)
(* A Table without a page cache over one heap file, src/src/storage-       *)
(* manager/Table.cpp, as QueryExecutor makes them.  Every insert is handed *)
(* to the heap file with page 0, that is page 1.  Rows are read by id and  *)
(* by scan; deletions go to the heap file itself (Table has none), which   *)
(* getHeapFile gives access to.  The process may stop and load the file    *)
(* again.                                                                  *)
(***************************************************************************)
EXTENDS HeapFile

VARIABLE acked  \* history: <<id, row>> returned by inserts and not deleted

tableVars == <<vars, acked>>

TableInit == Init /\ acked = {}

\* Table on a fresh heap file.
CreateTable ==
    /\ header = "none"
    /\ CreateHeapfile
    /\ UNCHANGED acked

\* Faulty variant: the page passed is the last one that holds a row.
TableInsertAppends(row) ==
    LET last == IF Live = {} THEN 0 ELSE Max({rid[1] : rid \in Live})
    IN  /\ InsertRow(last, row)
        /\ acked' = acked \cup {<<result', row>>}

\* Table::insert_row(Row*): thePageCache is null, DB::insert_row(heap, row, 0).
TableInsert(row) ==
    /\ InsertRow(0, row)
    /\ acked' = acked \cup {<<result', row>>}

\* delete_row(table->getHeapFile(), rid) for an id the client was given.
TableDelete(rid) ==
    /\ \E a \in acked : a[1] = rid
    /\ DeleteRow(rid)
    /\ acked' = {a \in acked : a[1] # rid}

Restart == (CloseProcess \/ LoadHeapfile) /\ UNCHANGED acked

TableNext ==
    \/ CreateTable
    \/ Restart
    \/ \E row \in Rows : TableInsert(row)
    \/ \E rid \in RowIds : TableDelete(rid)

TableSpec == TableInit /\ [][TableNext]_tableVars

-----------------------------------------------------------------------------
(* Properties *)

\* Rows whose id lies on page 1 are kept and read back as inserted, over
\* deletions, restarts and any number of further inserts.
FirstPageKept == \A a \in acked : a[1][1] = 1 => GetRow(a[1]) = a[2]

\* Every row that an insert of the table stored is in what a scan returns, also
\* after deletions and restarts, although a scan ends at the page limit and at
\* the first empty page after page 1: the table never leaves a row behind one.
TableScanComplete == \A rid \in Live : rid \in Scanned

\* Every row whose id was returned and that was not deleted reads back: the
\* heap file is said to locate the correct page or append a new one.
AckedRowsReadBack == \A a \in acked : GetRow(a[1]) = a[2]
=============================================================================
