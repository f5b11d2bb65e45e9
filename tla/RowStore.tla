------------------------------ MODULE RowStore ------------------------------
(***************************************************************************)
(* What a heap file promises to whoever stores rows in it, with no pages,  *)
(* slots or files: a store of rows under row ids.  A row that was given an *)
(* id stays readable under that id, unchanged, until it is deleted; an id  *)
(* that is in use is never handed out again.                               *)
(*                                                                         *)
(* BulkLoader is shown to implement this specification.                    *)
(***************************************************************************)
CONSTANTS
    RowIds,     \* the row ids the store can hand out
    Rows,       \* the rows
    Free        \* what an id that holds no row is mapped to

VARIABLE rows   \* the row kept under each id

Init == rows = [rid \in RowIds |-> Free]

Insert(rid, row) ==
    /\ rows[rid] = Free
    /\ rows' = [rows EXCEPT ![rid] = row]

Delete(rid) ==
    /\ rows[rid] # Free
    /\ rows' = [rows EXCEPT ![rid] = Free]

Next == \E rid \in RowIds : Delete(rid) \/ \E row \in Rows : Insert(rid, row)

Spec == Init /\ [][Next]_rows
=============================================================================
