--------------------------- MODULE ExecutorProofs ---------------------------
(***************************************************************************)
(* Theorems about DbFile and Executor for every set of tables and every    *)
(* number of descriptors: the only descriptor number through which a heap  *)
(* file or a path can reach a wrong file is the one of database.db;        *)
(* statements and calls use the descriptors as DbFile says, and the rows   *)
(* of a table stay its own.                                                *)
(***************************************************************************)
EXTENDS Executor, DataProofs

-----------------------------------------------------------------------------
(* The descriptors: open() and the copies of the singleton *)

FdTables == [FdNums -> Paths \cup {None}]

\* open() takes a descriptor that was free and disturbs no other.
LEMMA OpenedEffect ==
    ASSUME NEW f \in FdTables, HasFree(f), NEW path \in Paths
    PROVE  /\ Lowest(f) \in FdNums
           /\ f[Lowest(f)] = None
           /\ Opened(f, path) \in FdTables
           /\ Opened(f, path)[Lowest(f)] = path
           /\ \A n \in FdNums : f[n] # None => Opened(f, path)[n] = f[n]
<1>1. Lowest(f) \in {n \in FdNums : f[n] = None}
  <2> DEFINE S == {n \in FdNums : f[n] = None}
  <2>1. S # {}
    BY DEF HasFree
  <2>2. FdNums \subseteq Nat
    BY FdAssumption DEF FdNums
  <2>3. Min(S) \in S
    BY <2>1, <2>2, MinInSet
  <2>4. QED
    BY <2>3 DEF Lowest
<1>2. QED
  BY <1>1 DEF Opened, FdTables

\* A copy of the singleton leaves the descriptor of database.db free, and
\* disturbs no other.
LEMMA CopyDestroyedEffect ==
    ASSUME NEW f \in FdTables, dbFd \in FdNums
    PROVE  /\ CopyDestroyed(f) \in FdTables
           /\ HasFree(CopyDestroyed(f))
           /\ \A n \in FdNums : n # dbFd => CopyDestroyed(f)[n] = f[n]
BY DEF CopyDestroyed, FdTables, HasFree

LEMMA PathFacts ==
    /\ DbPath \in Paths /\ NoNamePath \in Paths
    /\ \A t \in Tables : Main(t) \in Paths /\ Second(t) \in Paths /\ Main(t) # Second(t)
    /\ None \notin Paths /\ None \notin FdNums
<1>1. DbPath \in Paths /\ NoNamePath \in Paths
  BY DEF Paths
<1>2. \A t \in Tables : Main(t) \in Paths /\ Second(t) \in Paths
  BY DEF Paths, Main, Second
<1>3. \A t \in Tables : Main(t) # Second(t)
  BY DEF Main, Second
<1>4. None \notin Paths /\ None \notin FdNums
  BY FdAssumption
<1>5. QED
  BY <1>1, <1>2, <1>3, <1>4

-----------------------------------------------------------------------------
(* The inductive invariant *)

NothingBeforeInitialize ==
    ~Initialized =>
        /\ handles = {}
        /\ \A p \in Paths : fdMap[p] = None
        /\ \A n \in FdNums : fds[n] = None

DescriptorsSound ==
    /\ TypeOK
    /\ NothingBeforeInitialize
    /\ HandlesReachOwnFile
    /\ MapReachesOwnFile

\* What a step must do to the descriptors to keep them sound: touch only the
\* one of database.db and free ones.
LEMMA SoundnessKept ==
    ASSUME DescriptorsSound, Initialized, dbFd' = dbFd,
           \A n \in FdNums : n # dbFd /\ fds[n] # None => fds'[n] = fds[n],
           fdMap' \in [Paths -> FdNums \cup {None}],
           handles' \subseteq Handles,
           \A h \in handles' \ handles : h.fd # dbFd => fds'[h.fd] = Main(h.table),
           \A p \in Paths : fdMap'[p] # fdMap[p] /\ fdMap'[p] # dbFd
                              => fds'[fdMap'[p]] = p
    PROVE  NothingBeforeInitialize' /\ HandlesReachOwnFile' /\ MapReachesOwnFile'
<1>1. NothingBeforeInitialize'
  BY DEF NothingBeforeInitialize, Initialized
<1>2. ASSUME NEW h \in handles', h.fd # dbFd
      PROVE  fds'[h.fd] = Main(h.table)
  <2>1. CASE h \in handles
    <3>1. h.fd \in FdNums /\ h.table \in Tables
      BY <2>1 DEF DescriptorsSound, TypeOK, Handles
    <3>2. fds[h.fd] = Main(h.table)
      BY <1>2, <2>1 DEF DescriptorsSound, HandlesReachOwnFile
    <3>3. fds[h.fd] # None
      BY <3>1, <3>2, PathFacts
    <3>4. QED
      BY <1>2, <3>1, <3>2, <3>3
  <2>2. CASE h \notin handles
    BY <1>2, <2>2
  <2>3. QED
    BY <2>1, <2>2
<1>3. ASSUME NEW p \in Paths, fdMap'[p] \notin {None, dbFd}
      PROVE  fds'[fdMap'[p]] = p
  <2>1. CASE fdMap'[p] = fdMap[p]
    <3>1. fdMap[p] \in FdNums
      BY <1>3, <2>1 DEF DescriptorsSound, TypeOK
    <3>2. fds[fdMap[p]] = p
      BY <1>3, <2>1 DEF DescriptorsSound, MapReachesOwnFile
    <3>3. p # None
      BY PathFacts
    <3>4. QED
      BY <1>3, <2>1, <3>1, <3>2, <3>3
  <2>2. CASE fdMap'[p] # fdMap[p]
    BY <1>3, <2>2
  <2>3. QED
    BY <2>1, <2>2
<1>4. QED
  BY <1>1, <1>2, <1>3 DEF HandlesReachOwnFile, MapReachesOwnFile

\* A file that a step opens on fds, and what the step leaves of it.
LEMMA LoadFoundEffect ==
    ASSUME TypeOK, NEW t \in Tables, LoadFound(t)
    PROVE  /\ dbFd \in FdNums
           /\ Lowest(fds) \in FdNums
           /\ fds[Lowest(fds)] = None
           /\ fds' \in FdTables
           /\ fdMap' \in [Paths -> FdNums \cup {None}]
           /\ \A n \in FdNums : n # dbFd /\ fds[n] # None => fds'[n] = fds[n]
           /\ Lowest(fds) # dbFd => fds'[Lowest(fds)] = Main(t)
           /\ \A p \in Paths : fdMap'[p] # fdMap[p] /\ fdMap'[p] # dbFd
                                 => fds'[fdMap'[p]] = p
<1> DEFINE fd     == Lowest(fds)
           first  == Opened(fds, Main(t))
           probed == Opened(first, NoNamePath)
           copied == CopyDestroyed(probed)
           last   == Opened(copied, Second(t))
<1>1. /\ fds \in FdTables /\ fdMap \in [Paths -> FdNums \cup {None}]
      /\ dbFd \in FdNums /\ HasFree(fds) /\ HasFree(first)
      /\ fds' = last
      /\ fdMap' = [fdMap EXCEPT ![Main(t)] = fd, ![Second(t)] = Lowest(copied)]
  BY DEF TypeOK, LoadFound, CanLoad, Initialized, FdTables
<1>2. /\ fd \in FdNums /\ fds[fd] = None
      /\ first \in FdTables /\ first[fd] = Main(t)
      /\ \A n \in FdNums : fds[n] # None => first[n] = fds[n]
  BY <1>1, OpenedEffect, PathFacts
<1>3. /\ probed \in FdTables
      /\ \A n \in FdNums : first[n] # None => probed[n] = first[n]
  <2> HIDE DEF first
  <2> QED
    BY <1>1, <1>2, OpenedEffect, PathFacts
<1>4. /\ copied \in FdTables /\ HasFree(copied)
      /\ \A n \in FdNums : n # dbFd => copied[n] = probed[n]
  <2> HIDE DEF probed
  <2> QED
    BY <1>1, <1>3, CopyDestroyedEffect
<1>5. /\ Lowest(copied) \in FdNums
      /\ last \in FdTables /\ last[Lowest(copied)] = Second(t)
      /\ \A n \in FdNums : copied[n] # None => last[n] = copied[n]
  <2> HIDE DEF copied
  <2> QED
    BY <1>4, OpenedEffect, PathFacts
<1> HIDE DEF fd, first, probed, copied, last
<1>6. \A n \in FdNums : n # dbFd /\ fds[n] # None => last[n] = fds[n]
  BY <1>2, <1>3, <1>4, <1>5
<1>7. fd # dbFd => last[fd] = Main(t)
  BY <1>2, <1>3, <1>4, <1>5, PathFacts
<1>8. \A p \in Paths : fdMap'[p] # fdMap[p] /\ fdMap'[p] # dbFd => last[fdMap'[p]] = p
  BY <1>1, <1>5, <1>7, PathFacts
<1>9. fdMap' \in [Paths -> FdNums \cup {None}]
  BY <1>1, <1>2, <1>5
<1>10. QED
  BY <1>1, <1>2, <1>5, <1>6, <1>7, <1>8, <1>9 DEF fd

LEMMA DescriptorsSoundStep ==
    ASSUME DescriptorsSound, [Next]_vars
    PROVE  DescriptorsSound'
<1>1. /\ fds \in FdTables
      /\ dbFd \in FdNums \cup {None}
      /\ fdMap \in [Paths -> FdNums \cup {None}]
      /\ written \subseteq Paths
      /\ handles \subseteq Handles
      /\ registry \in Handles \cup {None}
  BY DEF DescriptorsSound, TypeOK, FdTables
<1>2. CASE Initialize
  <2>1. /\ ~Initialized
        /\ dbFd' = Lowest(fds)
        /\ fds' = Opened(fds, DbPath)
        /\ fdMap' = [fdMap EXCEPT ![DbPath] = Lowest(fds)]
        /\ UNCHANGED <<written, handles, registry>>
    BY <1>2 DEF Initialize
  <2>2. handles = {} /\ \A p \in Paths : fdMap[p] = None
    BY <2>1 DEF DescriptorsSound, NothingBeforeInitialize
  <2>3. HasFree(fds)
    BY <2>1, FdAssumption DEF DescriptorsSound, NothingBeforeInitialize, HasFree, FdNums
  <2>4. Lowest(fds) \in FdNums /\ fds' \in FdTables
    BY <1>1, <2>1, <2>3, OpenedEffect, PathFacts
  <2>5. fdMap' \in [Paths -> FdNums \cup {None}]
    BY <1>1, <2>1, <2>4
  <2>6. TypeOK'
    BY <1>1, <2>1, <2>4, <2>5 DEF TypeOK, FdTables
  <2>7. NothingBeforeInitialize'
    BY <2>1, <2>4, PathFacts DEF NothingBeforeInitialize, Initialized
  <2>8. HandlesReachOwnFile'
    BY <2>1, <2>2 DEF HandlesReachOwnFile
  <2>9. \A p \in Paths : fdMap'[p] \in {None, dbFd'}
    BY <1>1, <2>1, <2>2
  <2>10. MapReachesOwnFile'
    BY <2>9 DEF MapReachesOwnFile
  <2>11. QED
    BY <2>6, <2>7, <2>8, <2>10 DEF DescriptorsSound
<1>3. ASSUME NEW t \in Tables, CreateHeapfile(t)
      PROVE  DescriptorsSound'
  <2> DEFINE opened == Opened(fds, Main(t))
             h      == [table |-> t, fd |-> Lowest(fds)]
  <2>1. /\ Lowest(fds) \in FdNums /\ fds[Lowest(fds)] = None
        /\ opened \in FdTables /\ opened[Lowest(fds)] = Main(t)
        /\ \A n \in FdNums : fds[n] # None => opened[n] = fds[n]
    BY <1>1, <1>3, OpenedEffect, PathFacts DEF CreateHeapfile
  <2>2. dbFd \in FdNums
    BY <1>1, <1>3 DEF CreateHeapfile, Initialized
  <2>3. /\ CopyDestroyed(opened) \in FdTables
        /\ \A n \in FdNums : n # dbFd => CopyDestroyed(opened)[n] = opened[n]
    <3> HIDE DEF opened
    <3> QED
      BY <2>1, <2>2, CopyDestroyedEffect
  <2>4. /\ fds' = CopyDestroyed(opened)
        /\ handles' = handles \cup {h}
        /\ written' = written \cup {Main(t)}
        /\ Initialized
        /\ UNCHANGED <<dbFd, fdMap, registry>>
    BY <1>3 DEF CreateHeapfile
  <2>5. h \in Handles /\ h.fd = Lowest(fds) /\ h.table = t
    BY <2>1 DEF Handles
  <2> HIDE DEF opened, h
  <2>6. \A n \in FdNums : n # dbFd /\ fds[n] # None => fds'[n] = fds[n]
    BY <2>1, <2>3, <2>4
  <2>7. h.fd # dbFd => fds'[h.fd] = Main(h.table)
    BY <2>1, <2>3, <2>4, <2>5
  <2>8. handles' \subseteq Handles
    BY <1>1, <2>4, <2>5
  <2>9. \A g \in handles' \ handles : g.fd # dbFd => fds'[g.fd] = Main(g.table)
    BY <2>4, <2>7
  <2>10. NothingBeforeInitialize' /\ HandlesReachOwnFile' /\ MapReachesOwnFile'
    BY <1>1, <2>4, <2>6, <2>8, <2>9, SoundnessKept
  <2>11. TypeOK'
    BY <1>1, <2>3, <2>4, <2>8, PathFacts DEF TypeOK, FdTables
  <2>12. QED
    BY <2>10, <2>11 DEF DescriptorsSound
<1>4. ASSUME Initialized, fds' = CopyDestroyed(fds),
             UNCHANGED <<dbFd, fdMap, written, handles, registry>>
      PROVE  DescriptorsSound'
  <2>1. dbFd \in FdNums
    BY <1>1, <1>4 DEF Initialized
  <2>2. /\ CopyDestroyed(fds) \in FdTables
        /\ \A n \in FdNums : n # dbFd => CopyDestroyed(fds)[n] = fds[n]
    BY <1>1, <2>1, CopyDestroyedEffect
  <2>3. TypeOK'
    BY <1>1, <1>4, <2>2 DEF TypeOK, FdTables
  <2>4. NothingBeforeInitialize' /\ HandlesReachOwnFile' /\ MapReachesOwnFile'
    BY <1>1, <1>4, <2>2, SoundnessKept
  <2>5. QED
    BY <2>3, <2>4 DEF DescriptorsSound
<1>5. ASSUME NEW t \in Tables, LoadEmpty(t)
      PROVE  DescriptorsSound'
  <2>1. /\ Lowest(fds) \in FdNums /\ fds[Lowest(fds)] = None
        /\ fds' \in FdTables /\ fds'[Lowest(fds)] = Main(t)
        /\ \A n \in FdNums : fds[n] # None => fds'[n] = fds[n]
    BY <1>1, <1>5, OpenedEffect, PathFacts DEF LoadEmpty, CanLoad
  <2>2. /\ fdMap' = [fdMap EXCEPT ![Main(t)] = Lowest(fds)]
        /\ Initialized
        /\ UNCHANGED <<dbFd, written, handles, registry>>
    BY <1>5 DEF LoadEmpty, CanLoad
  <2>3. fdMap' \in [Paths -> FdNums \cup {None}]
    BY <1>1, <2>1, <2>2
  <2>4. \A p \in Paths : fdMap'[p] # fdMap[p] => fds'[fdMap'[p]] = p
    BY <1>1, <2>1, <2>2
  <2>5. TypeOK'
    BY <1>1, <2>1, <2>2, <2>3 DEF TypeOK, FdTables
  <2>6. NothingBeforeInitialize' /\ HandlesReachOwnFile' /\ MapReachesOwnFile'
    BY <1>1, <2>1, <2>2, <2>3, <2>4, SoundnessKept
  <2>7. QED
    BY <2>5, <2>6 DEF DescriptorsSound
<1>6. ASSUME NEW t \in Tables, LoadFound(t)
      PROVE  DescriptorsSound'
  <2> DEFINE h == [table |-> t, fd |-> Lowest(fds)]
  <2>1. /\ Lowest(fds) \in FdNums
        /\ fds' \in FdTables
        /\ fdMap' \in [Paths -> FdNums \cup {None}]
        /\ \A n \in FdNums : n # dbFd /\ fds[n] # None => fds'[n] = fds[n]
        /\ Lowest(fds) # dbFd => fds'[Lowest(fds)] = Main(t)
        /\ \A p \in Paths : fdMap'[p] # fdMap[p] /\ fdMap'[p] # dbFd
                              => fds'[fdMap'[p]] = p
    BY <1>6, LoadFoundEffect DEF DescriptorsSound
  <2>2. /\ handles' = handles \cup {h}
        /\ registry' = h
        /\ written' = written \cup {NoNamePath}
        /\ dbFd' = dbFd
        /\ Initialized
    BY <1>6 DEF LoadFound, CanLoad
  <2>3. h \in Handles /\ h.fd = Lowest(fds) /\ h.table = t
    BY <2>1 DEF Handles
  <2> HIDE DEF h
  <2>4. handles' \subseteq Handles
    BY <1>1, <2>2, <2>3
  <2>5. \A g \in handles' \ handles : g.fd # dbFd => fds'[g.fd] = Main(g.table)
    BY <2>1, <2>2, <2>3
  <2>6. NothingBeforeInitialize' /\ HandlesReachOwnFile' /\ MapReachesOwnFile'
    BY <2>1, <2>2, <2>4, <2>5, SoundnessKept
  <2>7. TypeOK'
    BY <1>1, <2>1, <2>2, <2>3, <2>4, PathFacts DEF TypeOK, FdTables
  <2>8. QED
    BY <2>6, <2>7 DEF DescriptorsSound
<1>7. ASSUME NEW t \in Tables, LoadThrows(t)
      PROVE  DescriptorsSound'
  <2> DEFINE opened == Opened(fds, Main(t))
  <2>1. /\ Lowest(fds) \in FdNums /\ fds[Lowest(fds)] = None
        /\ opened \in FdTables /\ opened[Lowest(fds)] = Main(t)
        /\ \A n \in FdNums : fds[n] # None => opened[n] = fds[n]
    BY <1>1, <1>7, OpenedEffect, PathFacts DEF LoadThrows, CanLoad
  <2>2. dbFd \in FdNums
    BY <1>1, <1>7 DEF LoadThrows, CanLoad, Initialized
  <2>3. /\ CopyDestroyed(opened) \in FdTables
        /\ \A n \in FdNums : n # dbFd => CopyDestroyed(opened)[n] = opened[n]
    <3> HIDE DEF opened
    <3> QED
      BY <2>1, <2>2, CopyDestroyedEffect
  <2>4. /\ fds' = CopyDestroyed(opened)
        /\ fdMap' = [fdMap EXCEPT ![Main(t)] = Lowest(fds)]
        /\ Initialized
        /\ UNCHANGED <<dbFd, written, handles, registry>>
    BY <1>7 DEF LoadThrows, CanLoad
  <2> HIDE DEF opened
  <2>5. \A n \in FdNums : n # dbFd /\ fds[n] # None => fds'[n] = fds[n]
    BY <2>1, <2>3, <2>4
  <2>6. fdMap' \in [Paths -> FdNums \cup {None}]
    BY <1>1, <2>1, <2>4
  <2>7. \A p \in Paths : fdMap'[p] # fdMap[p] /\ fdMap'[p] # dbFd => fds'[fdMap'[p]] = p
    BY <1>1, <2>1, <2>3, <2>4
  <2>8. NothingBeforeInitialize' /\ HandlesReachOwnFile' /\ MapReachesOwnFile'
    BY <1>1, <2>4, <2>5, <2>6, <2>7, SoundnessKept
  <2>9. TypeOK'
    BY <1>1, <2>3, <2>4, <2>6 DEF TypeOK, FdTables
  <2>10. QED
    BY <2>8, <2>9 DEF DescriptorsSound
<1>8. ASSUME NEW h \in handles, DropHandle(h)
      PROVE  DescriptorsSound'
  BY <1>8 DEF DropHandle, DescriptorsSound, TypeOK, NothingBeforeInitialize, Initialized,
              HandlesReachOwnFile, MapReachesOwnFile
<1>9. CASE UNCHANGED vars
  BY <1>9 DEF vars, DescriptorsSound, TypeOK, NothingBeforeInitialize, Initialized,
              HandlesReachOwnFile, MapReachesOwnFile
<1>10. ASSUME NEW t \in Tables, CreateHeapfileThrows(t)
       PROVE  DescriptorsSound'
  BY <1>4, <1>10 DEF CreateHeapfileThrows
<1>11. CASE PrintMetadata
  BY <1>4, <1>11 DEF PrintMetadata
<1>12. CASE UnregisterHeapfile
  BY <1>12 DEF UnregisterHeapfile, DescriptorsSound, TypeOK, NothingBeforeInitialize,
               Initialized, HandlesReachOwnFile, MapReachesOwnFile
<1>13. QED
  BY <1>2, <1>3, <1>5, <1>6, <1>7, <1>8, <1>9, <1>10, <1>11, <1>12 DEF Next

LEMMA DescriptorsSoundInit == Init => DescriptorsSound
<1> SUFFICES ASSUME Init
             PROVE  DescriptorsSound
  OBVIOUS
<1>1. written \subseteq Paths
  BY PathFacts DEF Init
<1>2. TypeOK
  BY <1>1 DEF Init, TypeOK
<1>3. QED
  BY <1>2 DEF Init, DescriptorsSound, NothingBeforeInitialize, HandlesReachOwnFile,
              MapReachesOwnFile

LEMMA DescriptorsSoundInvariant == Spec => []DescriptorsSound
BY DescriptorsSoundInit, DescriptorsSoundStep, PTL DEF Spec

-----------------------------------------------------------------------------
(* Theorems *)

\* The variables keep their types: in particular the copies never leave the
\* singleton, a heap file or the map with a descriptor out of range.
THEOREM DbFileTypeOK == Spec => []TypeOK
BY DescriptorsSoundInvariant, PTL DEF DescriptorsSound

\* Over any sequence of creations, loads, listings and failures, in any number
\* of tables, a heap file can miss its own file only under the number the
\* singleton holds for database.db.
THEOREM HandlesReachOwnFileHolds == Spec => []HandlesReachOwnFile
BY DescriptorsSoundInvariant, PTL DEF DescriptorsSound

\* The same of the singleton's map of paths.
THEOREM MapReachesOwnFileHolds == Spec => []MapReachesOwnFile
BY DescriptorsSoundInvariant, PTL DEF DescriptorsSound

\* As long as a file is open under database.db's number, a heap file that is
\* created or loaded reaches its own file.
THEOREM OpenedSoundHolds == Spec => OpenedSoundWhileDbOpen
<1> DEFINE OpenedReachOwn ==
      (Initialized /\ fds[dbFd] # None)
        => \A h \in handles' \ handles : fds'[h.fd] = Main(h.table)
<1>1. ASSUME TypeOK, Initialized, fds[dbFd] # None, [Next]_vars,
             NEW h \in handles' \ handles
      PROVE  fds'[h.fd] = Main(h.table)
  <2>1. fds \in FdTables /\ dbFd \in FdNums
    BY <1>1 DEF TypeOK, FdTables, Initialized
  <2>2. ASSUME NEW t \in Tables, CreateHeapfile(t)
        PROVE  fds'[h.fd] = Main(h.table)
    <3> DEFINE opened == Opened(fds, Main(t))
    <3>1. /\ Lowest(fds) \in FdNums /\ fds[Lowest(fds)] = None
          /\ opened \in FdTables /\ opened[Lowest(fds)] = Main(t)
      BY <2>1, <2>2, OpenedEffect, PathFacts DEF CreateHeapfile
    <3>2. \A n \in FdNums : n # dbFd => CopyDestroyed(opened)[n] = opened[n]
      <4> HIDE DEF opened
      <4> QED
        BY <2>1, <3>1, CopyDestroyedEffect
    <3>3. fds' = CopyDestroyed(opened)
      BY <2>2 DEF CreateHeapfile
    <3> HIDE DEF opened
    <3>4. fds'[Lowest(fds)] = Main(t)
      BY <1>1, <3>1, <3>2, <3>3
    <3>5. h.fd = Lowest(fds) /\ h.table = t
      BY <1>1, <2>2 DEF CreateHeapfile
    <3>6. QED
      BY <3>4, <3>5
  <2>3. ASSUME NEW t \in Tables, LoadFound(t)
        PROVE  fds'[h.fd] = Main(h.table)
    <3>1. fds'[Lowest(fds)] = Main(t)
      BY <1>1, <2>3, LoadFoundEffect
    <3>2. h.fd = Lowest(fds) /\ h.table = t
      BY <1>1, <2>3 DEF LoadFound
    <3>3. QED
      BY <3>1, <3>2
  <2>4. CASE handles' \subseteq handles
    BY <1>1, <2>4
  <2>5. QED
    BY <1>1, <2>2, <2>3, <2>4 DEF Next, vars, Initialize, PrintMetadata,
       UnregisterHeapfile, CreateHeapfileThrows, LoadEmpty, LoadThrows, DropHandle
<1>2. TypeOK /\ [Next]_vars => OpenedReachOwn
  BY <1>1
<1> HIDE DEF OpenedReachOwn
<1>3. Spec => [][OpenedReachOwn]_vars
  BY <1>2, DbFileTypeOK, PTL DEF Spec
<1>4. QED
  BY <1>3, PTL DEF OpenedReachOwn, OpenedSoundWhileDbOpen


-----------------------------------------------------------------------------
(* The steps of the executor are steps of DbFile *)

LEMMA ExecStepIsDbFileStep ==
    ASSUME [ExecNext]_execVars
    PROVE  [Next]_vars
<1>1. CASE Process
  BY <1>1 DEF Process, Next
<1>2. ASSUME NEW t \in Tables, CreateFails(t) \/ Create(t)
      PROVE  Next
  BY <1>2 DEF CreateFails, Create, Next
<1>3. ASSUME NEW t \in Tables, Load(t)
      PROVE  Next
  BY <1>3 DEF Load, Next
<1>4. ASSUME NEW h \in handles, Delete(h)
      PROVE  Next
  BY <1>4 DEF Delete, Next
<1>5. CASE UNCHANGED execVars
  BY <1>5 DEF execVars, vars
<1>6. CASE Refused
  BY <1>6 DEF Refused, Answers, vars
<1>7. ASSUME NEW t \in Tables,
             \/ UnknownTable(t) \/ Select(t) \/ CreateExists(t) \/ CreateTooEarly(t)
             \/ Drop(t) \/ AddTable(t) \/ GiveRow(t)
             \/ \E n \in 1 .. MaxInserted : Insert(t, n)
      PROVE  UNCHANGED vars
  BY <1>7 DEF UnknownTable, Select, CreateExists, CreateTooEarly, Insert, Answers, Drop,
              AddTable, GiveRow, vars
<1>8. QED
  BY <1>1, <1>2, <1>3, <1>4, <1>5, <1>6, <1>7 DEF ExecNext

\* Whatever statements are executed, the files, the descriptors, the map and
\* the registry go through a behaviour of DbFile.
THEOREM ExecImplementsDbFile == ExecSpec => Spec
<1>1. ExecInit => Init
  BY DEF ExecInit
<1>2. QED
  BY <1>1, ExecStepIsDbFileStep, PTL DEF ExecSpec, Spec

-----------------------------------------------------------------------------
(* Headers: which files the descriptors reach *)

\* A file reached without a header is one that a load found empty and mapped;
\* the number kept for database.db never reaches a file with a header.
HeadersSound ==
    /\ \A h \in handles : Main(h.table) \in written
    /\ registry # None => registry \in handles
    /\ \A n \in FdNums, t \in Tables :
         fds[n] = Main(t) /\ Main(t) \notin written => fdMap[Main(t)] # None
    /\ Initialized => \A t \in Tables : fds[dbFd] = Main(t) => Main(t) \notin written

LEMMA MainFacts ==
    /\ \A s, t \in Tables : Main(s) = Main(t) => s = t
    /\ \A s, t \in Tables : Main(s) # Second(t)
    /\ \A t \in Tables : Main(t) # DbPath /\ Main(t) # NoNamePath
<1>1. \A s, t \in Tables : Main(s) = Main(t) => s = t
  BY DEF Main
<1>2. \A s, t \in Tables : Main(s) # Second(t)
  BY DEF Main, Second
<1>3. ASSUME NEW t \in Tables
      PROVE  Main(t) # DbPath /\ Main(t) # NoNamePath
  <2>1. t # "" /\ t # "database"
    BY NamesAssumption
  <2>2. Main(t)[1] = t /\ DbPath[1] = "database" /\ NoNamePath[1] = ""
    BY DEF Main, DbPath, NoNamePath
  <2>3. QED
    BY <2>1, <2>2
<1>4. QED
  BY <1>1, <1>2, <1>3

\* open() leaves every other descriptor alone.
LEMMA OpenedElsewhere ==
    ASSUME NEW f \in FdTables, NEW path, NEW n \in FdNums, Opened(f, path)[n] # f[n]
    PROVE  n = Lowest(f) /\ Opened(f, path)[n] = path
BY DEF Opened, FdTables

\* What LoadFound leaves under the number of database.db, and elsewhere.
LEMMA LoadFoundReaches ==
    ASSUME TypeOK, NEW t \in Tables, LoadFound(t)
    PROVE  /\ fds'[dbFd] \in {None, Second(t)}
           /\ \A n \in FdNums : fds'[n] \in {None, fds[n], Main(t), NoNamePath, Second(t)}
           /\ \A p \in Paths : fdMap[p] # None => fdMap'[p] # None
<1> DEFINE first  == Opened(fds, Main(t))
           probed == Opened(first, NoNamePath)
           copied == CopyDestroyed(probed)
<1>1. /\ fds \in FdTables /\ dbFd \in FdNums /\ HasFree(fds) /\ HasFree(first)
      /\ fds' = Opened(copied, Second(t))
  BY DEF TypeOK, LoadFound, CanLoad, Initialized, FdTables
<1>2. first \in FdTables
  BY <1>1, OpenedEffect, PathFacts
<1>3. probed \in FdTables
  <2> HIDE DEF first
  <2> QED
    BY <1>1, <1>2, OpenedEffect, PathFacts
<1>4. /\ copied \in FdTables /\ copied[dbFd] = None
      /\ \A n \in FdNums : copied[n] \in {None, probed[n]}
  <2> HIDE DEF probed
  <2> QED
    BY <1>1, <1>3 DEF CopyDestroyed, FdTables
<1>5. \A n \in FdNums : first[n] \in {fds[n], Main(t)}
  BY <1>1, OpenedElsewhere
<1> HIDE DEF first
<1>6. \A n \in FdNums : probed[n] \in {first[n], NoNamePath}
  BY <1>2, OpenedElsewhere
<1> HIDE DEF probed
<1> HIDE DEF copied
<1>7. \A n \in FdNums : fds'[n] \in {copied[n], Second(t)}
  BY <1>1, <1>4, OpenedElsewhere
<1>8. Lowest(fds) # None /\ Lowest(copied) # None
  <2>1. HasFree(copied)
    BY <1>1, <1>4 DEF HasFree
  <2>2. QED
    BY <1>1, <1>4, <2>1, OpenedEffect, PathFacts
<1>9. fdMap' = [fdMap EXCEPT ![Main(t)] = Lowest(fds), ![Second(t)] = Lowest(copied)]
  BY DEF LoadFound, copied, probed, first
<1>10. fdMap \in [Paths -> FdNums \cup {None}]
  BY DEF TypeOK
<1>11. \A p \in Paths : fdMap[p] # None => fdMap'[p] # None
  BY <1>8, <1>9, <1>10
<1>12. QED
  BY <1>1, <1>4, <1>5, <1>6, <1>7, <1>11

\* A step makes no header of a file that is mapped, forgets no header and no
\* path of the map.
HeadersGrow ==
    /\ written \subseteq written'
    /\ \A p \in Paths : fdMap[p] # None => fdMap'[p] # None
    /\ \A t \in Tables : Main(t) \in written' \ written => fdMap[Main(t)] = None

LEMMA HeadersGrowStep ==
    ASSUME DescriptorsSound, [Next]_vars
    PROVE  HeadersGrow
<1>1. /\ fds \in FdTables
      /\ fdMap \in [Paths -> FdNums \cup {None}]
  BY DEF DescriptorsSound, TypeOK, FdTables
<1>2. \A t \in Tables : HasFree(fds) => Lowest(fds) # None
  BY <1>1, OpenedEffect, PathFacts
<1>3. CASE Initialize
  <2>1. HasFree(fds)
    BY <1>3, FdAssumption DEF Initialize, DescriptorsSound, NothingBeforeInitialize,
                              HasFree, FdNums
  <2>2. Lowest(fds) # None
    BY <1>1, <2>1, OpenedEffect, PathFacts
  <2>3. QED
    BY <1>1, <1>3, <2>2 DEF Initialize, HeadersGrow
<1>4. ASSUME NEW t \in Tables, CreateHeapfile(t)
      PROVE  HeadersGrow
  BY <1>1, <1>4, MainFacts DEF CreateHeapfile, HeadersGrow
<1>5. ASSUME NEW t \in Tables, LoadEmpty(t) \/ LoadThrows(t)
      PROVE  HeadersGrow
  BY <1>1, <1>2, <1>5 DEF LoadEmpty, LoadThrows, CanLoad, HeadersGrow
<1>6. ASSUME NEW t \in Tables, LoadFound(t)
      PROVE  HeadersGrow
  <2>1. written' = written \cup {NoNamePath}
    BY <1>6 DEF LoadFound
  <2>2. \A p \in Paths : fdMap[p] # None => fdMap'[p] # None
    BY <1>6, LoadFoundReaches DEF DescriptorsSound
  <2>3. QED
    BY <2>1, <2>2, MainFacts DEF HeadersGrow
<1>7. CASE UNCHANGED <<written, fdMap>>
  BY <1>7 DEF HeadersGrow
<1>8. QED
  BY <1>3, <1>4, <1>5, <1>6, <1>7 DEF Next, vars, CreateHeapfileThrows, PrintMetadata,
     UnregisterHeapfile, DropHandle

LEMMA HeadersSoundStep ==
    ASSUME DescriptorsSound, HeadersSound, [Next]_vars
    PROVE  HeadersSound'
<1>1. /\ fds \in FdTables
      /\ dbFd \in FdNums \cup {None}
      /\ fdMap \in [Paths -> FdNums \cup {None}]
      /\ TypeOK
  BY DEF DescriptorsSound, TypeOK, FdTables
<1>2. HeadersGrow
  BY HeadersGrowStep
<1>3. ASSUME UNCHANGED <<handles, registry>>
      PROVE  /\ (\A h \in handles : Main(h.table) \in written)'
             /\ (registry # None => registry \in handles)'
  BY <1>2, <1>3 DEF HeadersSound, HeadersGrow
<1>4. ASSUME \A n \in FdNums, t \in Tables :
               fds'[n] = Main(t) /\ Main(t) \notin written'
                 => fds[n] = Main(t) \/ fdMap'[Main(t)] # None
      PROVE  (\A n \in FdNums, t \in Tables :
               fds[n] = Main(t) /\ Main(t) \notin written => fdMap[Main(t)] # None)'
  BY <1>2, <1>4, PathFacts DEF HeadersSound, HeadersGrow
<1>5. CASE Initialize
  <2>1. HasFree(fds)
    BY <1>5, FdAssumption DEF Initialize, DescriptorsSound, NothingBeforeInitialize,
                              HasFree, FdNums
  <2>2. /\ Lowest(fds) \in FdNums /\ fds'[Lowest(fds)] = DbPath
        /\ dbFd' = Lowest(fds)
        /\ UNCHANGED <<written, handles, registry>>
    BY <1>1, <1>5, <2>1, OpenedEffect, PathFacts DEF Initialize
  <2>3. \A n \in FdNums : fds'[n] \in {fds[n], DbPath}
    BY <1>1, <1>5, OpenedElsewhere DEF Initialize
  <2>4. QED
    BY <1>3, <1>4, <2>2, <2>3, MainFacts DEF HeadersSound
<1>6. ASSUME Initialized, fds' = CopyDestroyed(fds),
             UNCHANGED <<dbFd, fdMap, written, handles, registry>>
      PROVE  HeadersSound'
  <2>1. dbFd \in FdNums /\ fds'[dbFd] = None /\ \A n \in FdNums : fds'[n] \in {None, fds[n]}
    BY <1>1, <1>6 DEF Initialized, CopyDestroyed, FdTables
  <2>2. QED
    BY <1>3, <1>4, <1>6, <2>1, PathFacts DEF HeadersSound
<1>7. ASSUME NEW t \in Tables, CreateHeapfile(t)
      PROVE  HeadersSound'
  <2> DEFINE opened == Opened(fds, Main(t))
  <2>1. /\ dbFd \in FdNums /\ opened \in FdTables
        /\ fds' = CopyDestroyed(opened)
        /\ \A n \in FdNums : opened[n] \in {fds[n], Main(t)}
    BY <1>1, <1>7, OpenedEffect, OpenedElsewhere, PathFacts DEF CreateHeapfile, Initialized
  <2> HIDE DEF opened
  <2>2. fds'[dbFd] = None /\ \A n \in FdNums : fds'[n] \in {None, fds[n], Main(t)}
    BY <2>1 DEF CopyDestroyed, FdTables
  <2>3. /\ handles' = handles \cup {[table |-> t, fd |-> Lowest(fds)]}
        /\ written' = written \cup {Main(t)}
        /\ UNCHANGED <<dbFd, registry>>
    BY <1>7 DEF CreateHeapfile
  <2>4. QED
    BY <1>4, <2>2, <2>3, PathFacts DEF HeadersSound
<1>8. ASSUME NEW t \in Tables, LoadEmpty(t)
      PROVE  HeadersSound'
  <2>1. /\ \A n \in FdNums : fds'[n] \in {fds[n], Main(t)}
        /\ Lowest(fds) # None
    BY <1>1, <1>8, OpenedEffect, OpenedElsewhere, PathFacts DEF LoadEmpty, CanLoad
  <2>2. /\ fdMap'[Main(t)] # None /\ Main(t) \notin written
        /\ Initialized
        /\ UNCHANGED <<dbFd, written, handles, registry>>
    BY <1>1, <1>8, <2>1, PathFacts DEF LoadEmpty, CanLoad
  <2>3. dbFd \in FdNums
    BY <1>1, <2>2 DEF Initialized
  <2>4. QED
    BY <1>3, <1>4, <2>1, <2>2, <2>3, MainFacts DEF HeadersSound
<1>9. ASSUME NEW t \in Tables, LoadFound(t)
      PROVE  HeadersSound'
  <2>1. /\ fds'[dbFd] \in {None, Second(t)}
        /\ \A n \in FdNums : fds'[n] \in {None, fds[n], Main(t), NoNamePath, Second(t)}
    BY <1>1, <1>9, LoadFoundReaches
  <2>2. /\ Main(t) \in written
        /\ handles' = handles \cup {registry'}
        /\ registry'.table = t
        /\ written' = written \cup {NoNamePath}
        /\ UNCHANGED dbFd
    BY <1>9 DEF LoadFound
  <2>3. QED
    BY <1>4, <2>1, <2>2, MainFacts, PathFacts DEF HeadersSound
<1>10. ASSUME NEW t \in Tables, LoadThrows(t)
       PROVE  HeadersSound'
  <2> DEFINE opened == Opened(fds, Main(t))
  <2>1. /\ dbFd \in FdNums /\ opened \in FdTables
        /\ fds' = CopyDestroyed(opened)
        /\ \A n \in FdNums : opened[n] \in {fds[n], Main(t)}
    BY <1>1, <1>10, OpenedEffect, OpenedElsewhere, PathFacts
       DEF LoadThrows, CanLoad, Initialized
  <2> HIDE DEF opened
  <2>2. fds'[dbFd] = None /\ \A n \in FdNums : fds'[n] \in {None, fds[n], Main(t)}
    BY <2>1 DEF CopyDestroyed, FdTables
  <2>3. Main(t) \in written /\ UNCHANGED <<dbFd, written, handles, registry>>
    BY <1>10 DEF LoadThrows
  <2>4. QED
    BY <1>3, <1>4, <2>2, <2>3, PathFacts, MainFacts DEF HeadersSound
<1>11. ASSUME NEW h \in handles, DropHandle(h)
       PROVE  HeadersSound'
  BY <1>11 DEF DropHandle, HeadersSound, Initialized
<1>12. CASE UnregisterHeapfile
  BY <1>12 DEF UnregisterHeapfile, HeadersSound, Initialized
<1>13. CASE UNCHANGED vars
  BY <1>13 DEF vars, HeadersSound, Initialized
<1>14. QED
  BY <1>5, <1>6, <1>7, <1>8, <1>9, <1>10, <1>11, <1>12, <1>13
     DEF Next, CreateHeapfileThrows, PrintMetadata
-----------------------------------------------------------------------------
(* Rows: what the files hold *)

\* The tables of the catalog use heap files in use, a file with a header holds
\* rows of its own table, and a file that was never opened and mapped none.
RowsSound ==
    /\ \A t \in Tables : hasTable(t) => catalog[t] \in handles /\ catalog[t].table = t
    /\ registry # None => registry.table = lastLoaded
    /\ \A t \in Tables, p \in DataPages :
         Main(t) \in written => stored[Main(t)][p] \in {None, RowOf(t)}
    /\ \A t \in Tables :
         Main(t) \notin written /\ fdMap[Main(t)] = None => stored[Main(t)] = Empty

ExecSound == ExecTypeOK /\ DescriptorsSound /\ HeadersSound /\ RowsSound

\* A sound table reaches its own file, which has a header.
LEMMA SoundReachesOwnFile ==
    ASSUME ExecSound, NEW h \in handles, h.fd # dbFd
    PROVE  /\ Main(h.table) \in written
           /\ Reached(h) = stored[Main(h.table)]
           /\ \A p \in DataPages : Reached(h)[p] \in {None, RowOf(h.table)}
<1>1. h.fd \in FdNums /\ h.table \in Tables
  BY DEF ExecSound, DescriptorsSound, TypeOK, Handles
<1>2. fds[h.fd] = Main(h.table) /\ Main(h.table) \in written
  BY DEF ExecSound, DescriptorsSound, HandlesReachOwnFile, HeadersSound
<1>3. Main(h.table) # None
  BY <1>1, PathFacts
<1>4. QED
  BY <1>1, <1>2, <1>3 DEF Reached, ExecSound, RowsSound

\* Writing a row through a heap file changes no other file with a header than
\* its own, and no file that was never opened.
LEMMA InsertThroughEffect ==
    ASSUME ExecSound, NEW t \in Tables, hasTable(t), InsertThrough(catalog[t], RowOf(t)),
           UNCHANGED <<written, fdMap>>
    PROVE  /\ stored' \in [Paths -> Contents]
           /\ \A s \in Tables, p \in DataPages :
                Main(s) \in written => stored'[Main(s)][p] \in {None, RowOf(s)}
           /\ \A s \in Tables :
                Main(s) \notin written /\ fdMap[Main(s)] = None => stored'[Main(s)] = Empty
<1> DEFINE h == catalog[t]
           page == IF Reached(h)[1] = None THEN 1 ELSE 2
<1>1. /\ stored \in [Paths -> Contents]
      /\ h \in handles /\ h.table = t /\ h.fd \in FdNums
      /\ fds[h.fd] \in Paths \cup {None}
      /\ page \in DataPages
      /\ RowOf(t) \in Row
  BY DEF ExecSound, ExecTypeOK, DescriptorsSound, TypeOK, RowsSound, Handles, hasTable,
         DataPages, RowOf, Row
<1>2. CASE fds[h.fd] = None
  BY <1>1, <1>2 DEF InsertThrough, ExecSound, RowsSound
<1>3. CASE fds[h.fd] # None
  <2>1. stored' = [stored EXCEPT ![fds[h.fd]][page] = RowOf(t)]
    BY <1>3 DEF InsertThrough
  <2> HIDE DEF page
  <2>2. fds[h.fd] \in Paths
    BY <1>1, <1>3
  <2>3. stored' \in [Paths -> Contents]
    BY <1>1, <2>1, <2>2 DEF Contents
  <2>4. ASSUME NEW s \in Tables, NEW p \in DataPages, Main(s) \in written
        PROVE  stored'[Main(s)][p] \in {None, RowOf(s)}
    <3>1. stored[Main(s)][p] \in {None, RowOf(s)}
      BY <2>4 DEF ExecSound, RowsSound
    <3>2. CASE h.fd # dbFd
      <4>1. fds[h.fd] = Main(t)
        BY <1>1, <3>2 DEF ExecSound, DescriptorsSound, HandlesReachOwnFile
      <4>2. CASE s = t
        BY <1>1, <2>1, <2>2, <3>1, <4>1, <4>2 DEF Contents
      <4>3. CASE s # t
        <5>1. Main(s) # fds[h.fd] /\ Main(s) \in Paths
          BY <4>1, <4>3, MainFacts, PathFacts
        <5>2. QED
          BY <1>1, <2>1, <3>1, <5>1
      <4>4. QED
        BY <4>2, <4>3
    <3>3. CASE h.fd = dbFd
      <4>1. Main(s) # fds[h.fd]
        BY <1>1, <2>4, <3>3, PathFacts DEF ExecSound, HeadersSound, Initialized
      <4>2. QED
        BY <1>1, <2>1, <3>1, <4>1, PathFacts
    <3>4. QED
      BY <3>2, <3>3
  <2>5. ASSUME NEW s \in Tables, Main(s) \notin written, fdMap[Main(s)] = None
        PROVE  stored'[Main(s)] = Empty
    <3>1. fds[h.fd] # Main(s)
      BY <1>1, <2>5 DEF ExecSound, HeadersSound
    <3>2. QED
      BY <1>1, <2>1, <2>5, <3>1, PathFacts DEF ExecSound, RowsSound
  <2>6. QED
    BY <2>3, <2>4, <2>5
<1>4. QED
  BY <1>2, <1>3

\* What a step keeps of the rows when it leaves the data pages alone.
LEMMA StoredRowsKept ==
    ASSUME ExecSound, HeadersGrow, stored' = stored
    PROVE  /\ \A t \in Tables, p \in DataPages :
                Main(t) \in written' => stored'[Main(t)][p] \in {None, RowOf(t)}
           /\ \A t \in Tables :
                Main(t) \notin written' /\ fdMap'[Main(t)] = None => stored'[Main(t)] = Empty
<1>1. ASSUME NEW t \in Tables, NEW p \in DataPages, Main(t) \in written'
      PROVE  stored'[Main(t)][p] \in {None, RowOf(t)}
  <2>1. CASE Main(t) \in written
    BY <1>1, <2>1 DEF ExecSound, RowsSound
  <2>2. CASE Main(t) \notin written
    BY <1>1, <2>2 DEF ExecSound, RowsSound, HeadersGrow, Empty
  <2>3. QED
    BY <2>1, <2>2
<1>2. ASSUME NEW t \in Tables, Main(t) \notin written', fdMap'[Main(t)] = None
      PROVE  stored'[Main(t)] = Empty
  BY <1>2, PathFacts DEF ExecSound, RowsSound, HeadersGrow
<1>3. QED
  BY <1>1, <1>2

\* What a step keeps of the catalog and of the registry.
LEMMA CatalogKept ==
    ASSUME ExecSound, TypeOK',
           \/ UNCHANGED catalog
           \/ \E t \in Tables : /\ catalog' = [catalog EXCEPT ![t] = catalog'[t]]
                                /\ catalog'[t] # None => /\ catalog'[t] \in handles'
                                                         /\ catalog'[t].table = t,
           \A h \in handles \ handles' : \A t \in Tables : catalog[t] # h
    PROVE  /\ catalog' \in [Tables -> Handles \cup {None}]
           /\ (\A t \in Tables : hasTable(t) => catalog[t] \in handles /\ catalog[t].table = t)'
<1>1. /\ catalog \in [Tables -> Handles \cup {None}]
      /\ \A t \in Tables : catalog[t] # None => catalog[t] \in handles' /\ catalog[t].table = t
  BY DEF ExecSound, ExecTypeOK, RowsSound, hasTable
<1>2. CASE UNCHANGED catalog
  BY <1>1, <1>2 DEF hasTable
<1>3. CASE ~UNCHANGED catalog
  <2>1. PICK t \in Tables :
          /\ catalog' = [catalog EXCEPT ![t] = catalog'[t]]
          /\ catalog'[t] # None => catalog'[t] \in handles' /\ catalog'[t].table = t
    BY <1>3
  <2>2. catalog'[t] \in Handles \cup {None}
    BY <2>1 DEF TypeOK
  <2>3. \A s \in Tables : s # t => catalog'[s] = catalog[s]
    BY <1>1, <2>1
  <2>4. catalog' \in [Tables -> Handles \cup {None}]
    BY <1>1, <2>1, <2>2
  <2>5. QED
    BY <1>1, <2>1, <2>3, <2>4 DEF hasTable
<1>4. QED
  BY <1>2, <1>3

LEMMA ExecSoundStep ==
    ASSUME ExecSound, [ExecNext]_execVars
    PROVE  ExecSound'
<1>1. [Next]_vars
  BY ExecStepIsDbFileStep
<1>2. DescriptorsSound' /\ TypeOK' /\ HeadersSound' /\ HeadersGrow
  BY <1>1, DescriptorsSoundStep, HeadersSoundStep, HeadersGrowStep
     DEF ExecSound, DescriptorsSound
<1>3. ASSUME UNCHANGED <<handles, catalog, stored, registry, lastLoaded>>,
             answer' \in Answer
      PROVE  ExecSound'
  BY <1>2, <1>3, CatalogKept, StoredRowsKept DEF ExecSound, ExecTypeOK, RowsSound
<1>4. /\ Ok \in Answer /\ Failed \in Answer
      /\ \A n \in 1 .. MaxInserted : [Ok EXCEPT !.affected = n] \in Answer
  <2>1. 0 \in 0 .. MaxInserted /\ \A n \in 1 .. MaxInserted : n \in 0 .. MaxInserted
    BY InsertAssumption
  <2>2. QED
    BY <2>1 DEF Ok, Failed, Answer
<1>5. CASE Process
  <2>1. CASE UnregisterHeapfile
    BY <1>2, <1>4, <1>5, <2>1, CatalogKept, StoredRowsKept
       DEF Process, Untouched, UnregisterHeapfile, ExecSound, ExecTypeOK, RowsSound
  <2>2. CASE Initialize \/ PrintMetadata
    BY <1>3, <1>4, <1>5, <2>2 DEF Process, Untouched, Initialize, PrintMetadata
  <2>3. QED
    BY <1>5, <2>1, <2>2 DEF Process
<1>6. CASE \/ Refused \/ UNCHANGED execVars
           \/ \E t \in Tables : \/ UnknownTable(t) \/ Select(t) \/ CreateExists(t)
                                \/ CreateTooEarly(t) \/ CreateFails(t)
                                \/ \E n \in 1 .. MaxInserted : Insert(t, n)
  <2>1. answer' \in Answer
    BY <1>4, <1>6 DEF ExecSound, ExecTypeOK, execVars, Refused, UnknownTable, Select, Insert,
       CreateExists, CreateTooEarly, CreateFails, Answers
  <2>2. QED
    BY <1>3, <1>6, <2>1 DEF execVars, Refused, UnknownTable, Select, Insert,
       CreateExists, CreateTooEarly, CreateFails, CreateHeapfileThrows, Answers
<1>7. ASSUME NEW t \in Tables, Create(t)
      PROVE  ExecSound'
  <2>1. /\ handles' = handles \cup {[table |-> t, fd |-> Lowest(fds)]}
        /\ catalog' = [catalog EXCEPT ![t] = [table |-> t, fd |-> Lowest(fds)]]
        /\ answer' = Ok
        /\ UNCHANGED <<registry, stored, lastLoaded>>
    BY <1>7 DEF Create, CreateHeapfile
  <2>2. /\ catalog' = [catalog EXCEPT ![t] = catalog'[t]]
        /\ catalog'[t] \in handles' /\ catalog'[t].table = t
    BY <2>1 DEF ExecSound, ExecTypeOK
  <2>3. QED
    BY <1>2, <1>4, <2>1, <2>2, CatalogKept, StoredRowsKept DEF ExecSound, ExecTypeOK, RowsSound
<1>8. ASSUME NEW t \in Tables, Drop(t) \/ AddTable(t)
      PROVE  ExecSound'
  <2>1. /\ catalog' = [catalog EXCEPT ![t] = catalog'[t]]
        /\ catalog'[t] # None => catalog'[t] \in handles' /\ catalog'[t].table = t
        /\ answer' = Ok
        /\ UNCHANGED <<handles, registry, stored, lastLoaded>>
    BY <1>8 DEF Drop, AddTable, ExecSound, ExecTypeOK, HeadersSound
  <2>2. QED
    BY <1>2, <1>4, <2>1, CatalogKept, StoredRowsKept DEF ExecSound, ExecTypeOK, RowsSound
<1>9. ASSUME NEW t \in Tables, Load(t)
      PROVE  ExecSound'
  <2>1. /\ handles \subseteq handles' /\ answer' = Ok
        /\ UNCHANGED <<catalog, stored>>
        /\ \/ registry'.table = t /\ lastLoaded' = t
           \/ UNCHANGED <<registry, lastLoaded>>
    BY <1>9 DEF Load, Untouched, LoadFound, LoadEmpty, LoadThrows
  <2>2. QED
    BY <1>2, <1>4, <2>1, CatalogKept, StoredRowsKept DEF ExecSound, ExecTypeOK, RowsSound
<1>10. ASSUME NEW t \in Tables, GiveRow(t)
       PROVE  ExecSound'
  <2>1. /\ hasTable(t) /\ InsertThrough(catalog[t], RowOf(t)) /\ answer' = Ok
        /\ UNCHANGED <<written, fdMap, handles, registry, catalog, lastLoaded>>
    BY <1>10 DEF GiveRow
  <2>2. QED
    BY <1>2, <1>4, <2>1, CatalogKept, InsertThroughEffect DEF ExecSound, ExecTypeOK, RowsSound
<1>11. ASSUME NEW h \in handles, Delete(h)
       PROVE  ExecSound'
  <2>1. /\ handles \ handles' \subseteq {h} /\ \A t \in Tables : catalog[t] # h
        /\ answer' = Ok
        /\ UNCHANGED <<registry, catalog, stored, lastLoaded>>
    BY <1>11 DEF Delete, DropHandle, Untouched
  <2>2. QED
    BY <1>2, <1>4, <2>1, CatalogKept, StoredRowsKept DEF ExecSound, ExecTypeOK, RowsSound
<1>12. QED
  BY <1>5, <1>6, <1>7, <1>8, <1>9, <1>10, <1>11 DEF ExecNext

LEMMA ExecSoundInvariant == ExecSpec => []ExecSound
<1>1. ASSUME ExecInit
      PROVE  ExecSound
  <2>1. DescriptorsSound
    BY <1>1, DescriptorsSoundInit DEF ExecInit
  <2>2. PICK T \in SUBSET {t \in Tables : Main(t) \in written} :
          stored = [p \in Paths |-> IF p \in {Main(t) : t \in T}
                                    THEN [Empty EXCEPT ![1] = RowOf(p[1])] ELSE Empty]
    BY <1>1 DEF ExecInit
  <2>3. /\ Empty \in Contents
        /\ \A t \in Tables : [Empty EXCEPT ![1] = RowOf(t)] \in Contents
    BY DEF Empty, Contents, DataPages, RowOf, Row
  <2>4. \A t \in Tables : stored[Main(t)] = IF t \in T THEN [Empty EXCEPT ![1] = RowOf(t)]
                                            ELSE Empty
    <3> TAKE t \in Tables
    <3>1. Main(t) \in Paths /\ Main(t)[1] = t /\ (Main(t) \in {Main(s) : s \in T} <=> t \in T)
      BY PathFacts, MainFacts DEF Main
    <3>2. QED
      BY <2>2, <3>1
  <2>5. stored \in [Paths -> Contents]
    <3>1. \A p \in Paths : p \in {Main(t) : t \in T} => p[1] \in Tables
      BY DEF Main
    <3>2. QED
      BY <2>2, <2>3, <3>1
  <2>6. ExecTypeOK
    BY <1>1, <2>1, <2>5, InsertAssumption
       DEF ExecInit, ExecTypeOK, DescriptorsSound, Ok, Answer
  <2>7. HeadersSound
    BY <1>1, PathFacts DEF ExecInit, Init, HeadersSound, Initialized
  <2>8. RowsSound
    <3>1. \A t \in Tables, p \in DataPages : stored[Main(t)][p] \in {None, RowOf(t)}
      BY <2>4 DEF Empty, DataPages
    <3>2. \A t \in Tables : Main(t) \notin written => stored[Main(t)] = Empty
      BY <2>2, <2>4
    <3>3. QED
      BY <1>1, <3>1, <3>2 DEF RowsSound, ExecInit, Init, hasTable
  <2>9. QED
    BY <1>1, <2>1, <2>6, <2>7, <2>8 DEF ExecSound, ExecInit
<1>2. QED
  BY <1>1, ExecSoundStep, PTL DEF ExecSpec

-----------------------------------------------------------------------------
(* Theorems *)

\* Rows and answers keep their types, whatever file a row is written to.
THEOREM ExecTypeOKHolds == ExecSpec => []ExecTypeOK
BY ExecSoundInvariant, PTL DEF ExecSound

\* Statements included, a heap file can miss its own file only under the number
\* kept for database.db.
THEOREM ExecHandlesReachOwnFile == ExecSpec => []HandlesReachOwnFile
BY ExecSoundInvariant, PTL DEF ExecSound, DescriptorsSound

\* Statements included, the map of paths names the right descriptors.
THEOREM ExecMapReachesOwnFile == ExecSpec => []MapReachesOwnFile
BY ExecSoundInvariant, PTL DEF ExecSound, DescriptorsSound

\* A sound table never shows a row of another table, over any number of tables
\* and any history of closed descriptors.
THEOREM SelectsOwnRowsHolds == ExecSpec => []SelectsOwnRows
<1>1. ASSUME ExecSound, NEW t \in Tables, Sound(t)
      PROVE  Scan(catalog[t]) \subseteq {RowOf(t)}
  <2>1. catalog[t] \in handles /\ catalog[t].table = t /\ catalog[t].fd # dbFd
    BY <1>1 DEF Sound, ExecSound, RowsSound
  <2>2. \A p \in DataPages : Reached(catalog[t])[p] \in {None, RowOf(t)}
    BY <1>1, <2>1, SoundReachesOwnFile
  <2>3. QED
    BY <2>2 DEF Scan
<1>2. ExecSound => SelectsOwnRows
  BY <1>1 DEF SelectsOwnRows
<1>3. QED
  BY <1>2, ExecSoundInvariant, PTL

\* Reading by id never reaches a table that is neither the one asked nor the
\* one loaded last.
THEOREM ReadsOwnOrLoadedLastHolds == ExecSpec => []ReadsOwnOrLoadedLast
<1>1. ASSUME ExecSound, NEW t \in Tables, NEW p \in DataPages, Sound(t),
             registry # None => registry.fd # dbFd
      PROVE  ReadRow(t, p) \in {None, RowOf(t)} \cup
                (IF lastLoaded = None THEN {} ELSE {RowOf(lastLoaded)})
  <2>1. CASE registry = None
    <3>1. catalog[t] \in handles /\ catalog[t].table = t /\ catalog[t].fd # dbFd
      BY <1>1 DEF Sound, ExecSound, RowsSound
    <3>2. Reached(catalog[t])[p] \in {None, RowOf(t)}
      BY <1>1, <3>1, SoundReachesOwnFile
    <3>3. QED
      BY <2>1, <3>2 DEF ReadRow, HeapFileOfId
  <2>2. CASE registry # None
    <3>1. registry \in handles /\ registry.table = lastLoaded /\ registry.fd # dbFd
      BY <1>1, <2>2 DEF ExecSound, HeadersSound, RowsSound
    <3>2. lastLoaded # None
      <4>1. registry.table \in Tables
        BY <1>1, <2>2 DEF ExecSound, DescriptorsSound, TypeOK, Handles
      <4>2. QED
        BY <3>1, <4>1, RowAssumption
    <3>3. Reached(registry)[p] \in {None, RowOf(lastLoaded)}
      BY <1>1, <3>1, SoundReachesOwnFile
    <3>4. QED
      BY <2>2, <3>2, <3>3 DEF ReadRow, HeapFileOfId
  <2>3. QED
    BY <2>1, <2>2
<1>2. ExecSound => ReadsOwnOrLoadedLast
  BY <1>1 DEF ReadsOwnOrLoadedLast
<1>3. QED
  BY <1>2, ExecSoundInvariant, PTL

\* A statement that fails leaves every sound table its rows and its place.
THEOREM FailureKeepsTablesHolds == ExecSpec => FailureKeepsTables
<1> DEFINE Kept == ~answer'.success =>
              /\ catalog' = catalog
              /\ \A t \in Tables : Sound(t) => Scan(catalog[t])' = Scan(catalog[t])
<1>1. ASSUME ExecSound, [ExecNext]_execVars, ~answer'.success
      PROVE  /\ catalog' = catalog
             /\ \A t \in Tables : Sound(t) => Scan(catalog[t])' = Scan(catalog[t])
  <2>1. /\ UNCHANGED <<catalog, stored, dbFd, handles>>
    BY <1>1 DEF ExecNext, execVars, Process, Refused, UnknownTable, Select, Insert,
       CreateExists, CreateTooEarly, CreateFails, Create, Drop, Load, AddTable, GiveRow,
       Delete, Untouched, Answers, Ok, CreateHeapfileThrows
  <2>2. ExecSound'
    BY <1>1, ExecSoundStep
  <2>3. ASSUME NEW t \in Tables, Sound(t)
        PROVE  Scan(catalog[t])' = Scan(catalog[t])
    <3> DEFINE h == catalog[t]
    <3>1. h \in handles /\ h.table = t /\ h.fd # dbFd /\ h.fd \in FdNums
      BY <1>1, <2>3 DEF Sound, ExecSound, RowsSound, ExecTypeOK, TypeOK, Handles
    <3>2. fds[h.fd] = Main(t)
      BY <1>1, <3>1 DEF ExecSound, DescriptorsSound, HandlesReachOwnFile
    <3>3. fds'[h.fd] = Main(t)
      BY <2>1, <2>2, <3>1 DEF ExecSound, DescriptorsSound, HandlesReachOwnFile
    <3>4. QED
      BY <2>1, <3>2, <3>3 DEF Scan, Reached
  <2>4. QED
    BY <2>1, <2>3
<1>2. ExecSound /\ [ExecNext]_execVars => Kept
  BY <1>1
<1> HIDE DEF Kept
<1>3. ExecSpec => [][Kept]_execVars
  BY <1>2, ExecSoundInvariant, PTL DEF ExecSpec
<1>4. QED
  BY <1>3, PTL DEF Kept, FailureKeepsTables
=============================================================================
