------------------------------ MODULE Executor ------------------------------
(***************************************************************************)
(* Statements of the query executor over several tables, src/src/query-    *)
(* executor/QueryExecutor.cpp, in one process: the catalog of Table        *)
(* objects, the heap files they were made with and the descriptors through *)
(* which those reach their files (module DbFile).  Beside statements, the  *)
(* program gives rows to tables with Table::insert_row(Row* ), reads them  *)
(* by id, loads tables of earlier processes and adds them to the catalog.  *)
(*                                                                         *)
(* A row is known by the table it was given to.  A page has one slot, as   *)
(* in the code; a Table without a cache fills page 1 and then writes every *)
(* row to page 2.                                                          *)
(***************************************************************************)
EXTENDS DbFile

CONSTANT MaxInserted    \* bound: rows of one INSERT statement

ASSUME InsertAssumption == MaxInserted \in Nat \ {0}

DataPages == {1, 2}
Row == [table : Tables]
RowOf(t) == [table |-> t]

ASSUME RowAssumption == None \notin Row /\ None \notin Tables

Contents == [DataPages -> Row \cup {None}]
Empty    == [p \in DataPages |-> None]

VARIABLES
    catalog,    \* tables_: the heap file of each Table, None when absent
    stored,     \* the data pages of every file
    answer,     \* the QueryResult of the last step, when it was a statement; the
                \*   rows of a SELECT are those of Scan
    lastLoaded  \* history: the table loaded last

execVars == <<fds, dbFd, fdMap, written, handles, registry,
              catalog, stored, answer, lastLoaded>>

Answer == [success : BOOLEAN, affected : 0 .. MaxInserted]
Ok     == [success |-> TRUE, affected |-> 0]
Failed == [success |-> FALSE, affected |-> 0]

hasTable(t) == catalog[t] # None

ExecInit ==
    /\ Init
    /\ catalog = [t \in Tables |-> None]
    /\ \E T \in SUBSET {t \in Tables : Main(t) \in written} :
         stored = [p \in Paths |->
                     IF p \in {Main(t) : t \in T}
                     THEN [Empty EXCEPT ![1] = RowOf(p[1])] ELSE Empty]
    /\ answer = Ok
    /\ lastLoaded = None

-----------------------------------------------------------------------------
(* Rows through a heap file *)

\* What the reads of a heap file find: through a closed descriptor, nothing.
Reached(h) == IF fds[h.fd] = None THEN Empty ELSE stored[fds[h.fd]]

\* The rows that scan_heap finds; page 1 being empty does not end it.
Scan(h) == {Reached(h)[p] : p \in DataPages} \ {None}

\* DB::insert_row(heap, row, 0): page 1 if its slot is free, else page 2.  A
\* write through a closed descriptor fails, which nobody looks at.
InsertThrough(h, row) ==
    LET page == IF Reached(h)[1] = None THEN 1 ELSE 2
    IN  stored' = IF fds[h.fd] = None THEN stored
                  ELSE [stored EXCEPT ![fds[h.fd]][page] = row]

\* Table::read_row asks the registry for the heap file of the id's heap_id,
\* which is 3 for every heap file, and then takes its own.
HeapFileOfId(t) == IF registry # None THEN registry ELSE catalog[t]
ReadRow(t, page) == Reached(HeapFileOfId(t))[page]

-----------------------------------------------------------------------------
(* Statements *)

\* Only the answer is new.
Answers(result) ==
    /\ answer' = result
    /\ UNCHANGED <<fds, dbFd, fdMap, written, handles, registry, catalog, stored,
                   lastLoaded>>

\* A statement about a table that is not there, UPDATE and DELETE, and the
\* algebra nodes executeRA does not know.
UnknownTable(t) == ~hasTable(t) /\ Answers(Failed)
Refused == Answers(Failed)

\* executeSelect, of a query whose operators end and keep every row.
Select(t) ==
    /\ hasTable(t)
    /\ Answers(Ok)

\* executeInsert: insert_row() without the row does nothing, once for each of
\* the n rows.
Insert(t, n) ==
    /\ hasTable(t)
    /\ Answers([Ok EXCEPT !.affected = n])

\* executeCreateTable.  The exception of create_heapfile becomes an answer; its
\* copy of the singleton has been destroyed.
CreateExists(t) == hasTable(t) /\ Answers(Failed)
CreateTooEarly(t) == ~hasTable(t) /\ ~Initialized /\ Answers(Failed)

\* Faulty variant: the Table enters the catalog before its file is opened.
CreateFailsAdded(t) ==
    /\ ~hasTable(t)
    /\ CreateHeapfileThrows(t)
    /\ catalog' = [catalog EXCEPT ![t] = [table |-> t, fd |-> None]]
    /\ answer' = Failed
    /\ UNCHANGED <<stored, lastLoaded>>
CreateFails(t) ==
    /\ ~hasTable(t)
    /\ CreateHeapfileThrows(t)
    /\ answer' = Failed
    /\ UNCHANGED <<catalog, stored, lastLoaded>>

Create(t) ==
    /\ ~hasTable(t)
    /\ CreateHeapfile(t)
    /\ catalog' = [catalog EXCEPT ![t] = [table |-> t, fd |-> Lowest(fds)]]
    /\ answer' = Ok
    /\ UNCHANGED <<stored, lastLoaded>>

\* executeDropTable: the name goes; the Table, its heap file, the descriptor
\* and the file stay.
Drop(t) ==
    /\ hasTable(t)
    /\ catalog' = [catalog EXCEPT ![t] = None]
    /\ answer' = Ok
    /\ UNCHANGED <<fds, dbFd, fdMap, written, handles, registry, stored, lastLoaded>>

-----------------------------------------------------------------------------
(* Calls of the program around the statements *)

Untouched == answer' = Ok /\ UNCHANGED <<catalog, stored>>

Process ==
    /\ Initialize \/ PrintMetadata \/ UnregisterHeapfile
    /\ Untouched /\ UNCHANGED lastLoaded

Load(t) ==
    /\ \/ LoadFound(t) /\ lastLoaded' = t
       \/ (LoadEmpty(t) \/ LoadThrows(t)) /\ UNCHANGED lastLoaded
    /\ Untouched

\* catalog.addTable(t, new Table(t, schema, heap)) of the loaded heap file.
AddTable(t) ==
    /\ registry # None /\ registry.table = t
    /\ catalog' = [catalog EXCEPT ![t] = registry]
    /\ answer' = Ok
    /\ UNCHANGED <<fds, dbFd, fdMap, written, handles, registry, stored, lastLoaded>>

\* Faulty variant: the row goes where reads look, to the heap file that the
\* registry has under the table's heap_id.
GiveRowById(t) ==
    /\ hasTable(t)
    /\ InsertThrough(HeapFileOfId(t), RowOf(t))
    /\ answer' = Ok
    /\ UNCHANGED <<fds, dbFd, fdMap, written, handles, registry, catalog, lastLoaded>>

\* Table::insert_row(Row* ) of a table of the catalog.
GiveRow(t) ==
    /\ hasTable(t)
    /\ InsertThrough(catalog[t], RowOf(t))
    /\ answer' = Ok
    /\ UNCHANGED <<fds, dbFd, fdMap, written, handles, registry, catalog, lastLoaded>>

\* `delete` of a heap file no Table of the catalog uses.
Delete(h) ==
    /\ \A t \in Tables : catalog[t] # h
    /\ DropHandle(h)
    /\ Untouched /\ UNCHANGED lastLoaded

ExecNext ==
    \/ Process
    \/ Refused
    \/ \E t \in Tables :
         \/ UnknownTable(t)
         \/ Select(t)
         \/ \E n \in 1 .. MaxInserted : Insert(t, n)
         \/ CreateExists(t) \/ CreateTooEarly(t) \/ CreateFails(t) \/ Create(t)
         \/ Drop(t)
         \/ Load(t)
         \/ AddTable(t)
         \/ GiveRow(t)
    \/ \E h \in handles : Delete(h)

ExecSpec == ExecInit /\ [][ExecNext]_execVars

-----------------------------------------------------------------------------
(* Properties *)

ExecTypeOK ==
    /\ TypeOK
    /\ catalog \in [Tables -> Handles \cup {None}]
    /\ stored \in [Paths -> Contents]
    /\ answer \in Answer
    /\ lastLoaded \in Tables \cup {None}

\* A table whose descriptor is not the number kept for database.db.
Sound(t) == hasTable(t) /\ catalog[t].fd # dbFd

\* A scan of a table finds rows given to tables of its name and of no other,
\* though descriptors are closed under their owners, their numbers are given to
\* other files, and rows are written through them.
SelectsOwnRows == \A t \in Tables : Sound(t) => Scan(catalog[t]) \subseteq {RowOf(t)}

\* Reading by id reaches the table's own rows or those of the table loaded
\* last, whose heap file has the same heap_id: never those of a third.
ReadsOwnOrLoadedLast ==
    \A t \in Tables, p \in DataPages :
        Sound(t) /\ (registry # None => registry.fd # dbFd)
          => ReadRow(t, p) \in {None, RowOf(t)} \cup
                (IF lastLoaded = None THEN {} ELSE {RowOf(lastLoaded)})

\* A statement that fails changes no table whose descriptor is sound: neither
\* its rows nor its place in the catalog.
FailureKeepsTables ==
    [][~answer'.success =>
         /\ catalog' = catalog
         /\ \A t \in Tables : Sound(t) => Scan(catalog[t])' = Scan(catalog[t])]_execVars
=============================================================================
