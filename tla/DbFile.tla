------------------------------- MODULE DbFile -------------------------------
(***************************************************************************)
(* File descriptors: the DbFile singleton of src/src/page-manager/         *)
(* DbFile.cpp and the heap files opened through it by src/src/storage-     *)
(* manager/HeapFile.cpp, in one process from its start.                    *)
(*                                                                         *)
(* The singleton owns the descriptor of database.db and a map from paths   *)
(* to descriptors.  load_heapfile_registry opens files through a reference *)
(* to it.  The HeapFile constructor and print_heapfile_metadata work on a  *)
(* local COPY of it: what the copy adds to its map is gone with the copy,  *)
(* and the copy's destructor closes the descriptor number the copy holds   *)
(* for database.db, whatever file has that number by then.                 *)
(***************************************************************************)
EXTENDS Integers, FiniteSets, FiniteSetsExt

CONSTANTS
    Tables,     \* table names
    MaxFd,      \* the last descriptor the process may have open
    None        \* no file, no descriptor, no heap file

FdNums == 3 .. MaxFd                    \* 0, 1 and 2 are the standard streams

\* "<t>.db", the file "<t>_2.db" probed for a second heap file, database.db, and
\* ".db", which the constructor opens when it is given an empty table name.
Main(t)   == <<t, 1>>
Second(t) == <<t, 2>>
DbPath    == <<"database", 0>>
NoNamePath == <<"", 1>>
Paths == (Tables \X {1, 2}) \cup {DbPath, NoNamePath}

ASSUME FdAssumption ==
    /\ MaxFd \in Nat /\ MaxFd >= 3
    /\ None \notin Paths /\ None \notin FdNums

ASSUME NamesAssumption == \A t \in Tables : t # "" /\ t # "database"

Handles == [table : Tables, fd : FdNums]    \* HeapFile objects
ASSUME HandleAssumption == None \notin Handles

VARIABLES
    fds,        \* kernel: the file each descriptor is open on
    dbFd,       \* theDbFd of the singleton; None before DbFile::initialize
    fdMap,      \* theFdMap of the singleton
    written,    \* the files that have a header page
    handles,    \* the HeapFile objects in use
    registry    \* heapfile_registry: every heap file has heap_id 3, one entry

vars == <<fds, dbFd, fdMap, written, handles, registry>>

-----------------------------------------------------------------------------
(* open and close *)

HasFree(f) == \E n \in FdNums : f[n] = None

\* open() returns the lowest descriptor that is not in use.
Lowest(f) == Min({n \in FdNums : f[n] = None})

Opened(f, path) == [f EXCEPT ![Lowest(f)] = path]

\* Faulty variant: the copy closes the descriptor that was opened last.
CopyClosesLast(f) ==
    [n \in FdNums |-> IF \E m \in FdNums : m > n /\ f[m] # None THEN f[n] ELSE None]

\* The destructor of a copy of the singleton.
CopyDestroyed(f) == [f EXCEPT ![dbFd] = None]

\* DbFile::getInstance throws before DbFile::initialize.
Initialized == dbFd # None

\* A program that finds, from earlier processes, the files of some tables.
Init ==
    /\ fds = [n \in FdNums |-> None]
    /\ dbFd = None
    /\ fdMap = [p \in Paths |-> None]
    /\ written \in {{Main(t) : t \in T} : T \in SUBSET Tables}
    /\ handles = {}
    /\ registry = None

\* DbFile::initialize: later calls do nothing.
Initialize ==
    /\ ~Initialized
    /\ dbFd' = Lowest(fds)
    /\ fds' = Opened(fds, DbPath)
    /\ fdMap' = [fdMap EXCEPT ![DbPath] = Lowest(fds)]
    /\ UNCHANGED <<written, handles, registry>>

-----------------------------------------------------------------------------
(* Heap files *)

\* The HeapFile constructor throws when the copy cannot open the file: the
\* path is in its map already, or no descriptor is left.  The copy is
\* destroyed as the exception passes.
CreateHeapfileThrows(t) ==
    /\ Initialized
    /\ fdMap[Main(t)] # None \/ ~HasFree(fds)
    /\ fds' = CopyDestroyed(fds)
    /\ UNCHANGED <<dbFd, fdMap, written, handles, registry>>

\* create_heapfile: the file is opened and its header page written through the
\* copy; the copy is destroyed at the end of the constructor.
CreateHeapfile(t) ==
    /\ Initialized
    /\ fdMap[Main(t)] = None
    /\ HasFree(fds)
    /\ fds' = CopyDestroyed(Opened(fds, Main(t)))
    /\ handles' = handles \cup {[table |-> t, fd |-> Lowest(fds)]}
    /\ written' = written \cup {Main(t)}
    /\ UNCHANGED <<dbFd, fdMap, registry>>

\* print_heapfile_metadata reads through a copy.
PrintMetadata ==
    /\ Initialized
    /\ handles # {}
    /\ fds' = CopyDestroyed(fds)
    /\ UNCHANGED <<dbFd, fdMap, written, handles, registry>>

\* load_heapfile_registry(t), first file, through the reference.  When the path
\* is in the map already nothing happens at all.
CanLoad(t) == Initialized /\ fdMap[Main(t)] = None /\ HasFree(fds)

\* The file is empty (or was just made by open): it stays open and mapped.
LoadEmpty(t) ==
    /\ CanLoad(t)
    /\ Main(t) \notin written
    /\ fds' = Opened(fds, Main(t))
    /\ fdMap' = [fdMap EXCEPT ![Main(t)] = Lowest(fds)]
    /\ UNCHANGED <<dbFd, written, handles, registry>>

\* Faulty variant: a registered heap file is not replaced.
LoadFoundKeepsFirst(t) ==
    LET fd     == Lowest(fds)
        first  == Opened(fds, Main(t))
        copied == CopyDestroyed(Opened(first, NoNamePath))
    IN  /\ CanLoad(t)
        /\ Main(t) \in written
        /\ HasFree(first)
        /\ fds' = Opened(copied, Second(t))
        /\ fdMap' = [fdMap EXCEPT ![Main(t)] = fd, ![Second(t)] = Lowest(copied)]
        /\ written' = written \cup {NoNamePath}
        /\ handles' = handles \cup {[table |-> t, fd |-> fd]}
        /\ registry' = IF registry = None THEN [table |-> t, fd |-> fd] ELSE registry
        /\ UNCHANGED dbFd

\* The file has a header: `new HeapFile(0, "", false)` opens ".db" through a
\* copy and leaks that descriptor, the object is given the first one and is
\* registered; next_heapfile on disk is never 0, so that "<t>_2.db" is opened,
\* found empty, and left open and mapped.
LoadFound(t) ==
    LET fd     == Lowest(fds)
        first  == Opened(fds, Main(t))
        copied == CopyDestroyed(Opened(first, NoNamePath))
    IN  /\ CanLoad(t)
        /\ Main(t) \in written
        /\ HasFree(first)
        /\ fds' = Opened(copied, Second(t))
        /\ fdMap' = [fdMap EXCEPT ![Main(t)] = fd, ![Second(t)] = Lowest(copied)]
        /\ written' = written \cup {NoNamePath}
        /\ handles' = handles \cup {[table |-> t, fd |-> fd]}
        /\ registry' = [table |-> t, fd |-> fd]
        /\ UNCHANGED dbFd

\* The same, with no descriptor left for ".db": the constructor throws.
LoadThrows(t) ==
    /\ CanLoad(t)
    /\ Main(t) \in written
    /\ ~HasFree(Opened(fds, Main(t)))
    /\ fds' = CopyDestroyed(Opened(fds, Main(t)))
    /\ fdMap' = [fdMap EXCEPT ![Main(t)] = Lowest(fds)]
    /\ UNCHANGED <<dbFd, written, handles, registry>>

\* `delete heapfile`: HeapFile has no destructor, its descriptor stays open.
DropHandle(h) ==
    /\ h \in handles \ {registry}
    /\ handles' = handles \ {h}
    /\ UNCHANGED <<fds, dbFd, fdMap, written, registry>>

\* unregister_heapfile(3): the object and its descriptor are left alone.
UnregisterHeapfile ==
    /\ registry # None
    /\ registry' = None
    /\ UNCHANGED <<fds, dbFd, fdMap, written, handles>>

Next ==
    \/ Initialize
    \/ PrintMetadata
    \/ UnregisterHeapfile
    \/ \E t \in Tables :
         \/ CreateHeapfile(t)
         \/ CreateHeapfileThrows(t)
         \/ LoadEmpty(t)
         \/ LoadFound(t)
         \/ LoadThrows(t)
    \/ \E h \in handles : DropHandle(h)

Spec == Init /\ [][Next]_vars

-----------------------------------------------------------------------------
(* Properties *)

TypeOK ==
    /\ fds \in [FdNums -> Paths \cup {None}]
    /\ dbFd \in FdNums \cup {None}
    /\ fdMap \in [Paths -> FdNums \cup {None}]
    /\ written \subseteq Paths
    /\ handles \subseteq Handles
    /\ registry \in Handles \cup {None}

\* A heap file or a map entry whose descriptor is not the number the singleton
\* holds for database.db always reaches its own file, over any sequence of
\* creations, loads, listings and failures.
HandlesReachOwnFile ==
    \A h \in handles : h.fd # dbFd => fds[h.fd] = Main(h.table)
MapReachesOwnFile ==
    \A p \in Paths : fdMap[p] \notin {None, dbFd} => fds[fdMap[p]] = p

\* A heap file opened while database.db's number is in use reaches its own
\* file: the first heap file of a process is always sound.
OpenedSoundWhileDbOpen ==
    [][(Initialized /\ fds[dbFd] # None)
         => \A h \in handles' \ handles : fds'[h.fd] = Main(h.table)]_vars

\* A heap file's descriptor never reaches a file of another table.
NoForeignFile ==
    \A h \in handles : \A t \in Tables \ {h.table} : fds[h.fd] \notin {Main(t), Second(t)}
=============================================================================
