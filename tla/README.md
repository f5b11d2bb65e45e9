# Phi-Database in TLA+

Phi-Database (`src/`) is a small relational database in C++: SQL text is
tokenized and parsed into a relational algebra tree, the tree is executed by a
pipeline of operators that pull batches of rows, and rows live in heap files of
fixed-size slots, reached through a descriptor singleton and, optionally, a page
cache. This directory holds TLA+ modules of those parts, the TLC runs that check
them on small instances, and TLAPS proofs of the storage layer's, the compiler's and the
executor's invariants for every value of the constants. `PROJECT.json` lists the components, the runs, the
hazards each property is aimed at, and the source lines of every definition.

    tlc -workers 2 -config HeapFile_api.cfg HeapFile     # one run
    tlapm HeapFileProofs.tla                             # one module of proofs

## 1. The system

One process, one thread: nothing in the compiled program runs concurrently, and
`TScheduler`, the only part about concurrency, is not built. What makes the code
hard is elsewhere: state that outlives the object that owns it (files, descriptor
numbers, cached pages), calls whose results nobody looks at (short and failed
writes), sequences of legal calls that end where no single call would, a pull
protocol in which an empty batch means "end", and a hand-written recursive
descent grammar.

| Part | Code | State | Operations | Interacts with |
|---|---|---|---|---|
| Heap file | `storage-manager/HeapFile.cpp` | the file; in memory the header (`num_records`, `heap_id`) | create, load, `insert_row(page_num)`, `delete_row`, `get_row`, `scan_heap` | `pread`/`pwrite` through `DbFile` |
| Row format | `HeapFile.cpp` `serialize_row`, `deserialize_row` | 128 bytes of a slot | insert, short write, delete, read | heap file |
| Table | `storage-manager/Table.cpp` | its heap file, its cache | `insert_row`, `read_row`, `scan` | heap file, registry, page cache |
| Descriptors | `page-manager/DbFile.cpp` | `theDbFd`, `theFdMap`, the kernel's table | `initialize`, `add_filepath`, copies and their destructors | every file user |
| Page cache | `page-manager/PageCache.cpp` | frames, id map, stacks of used and free frames | `read`, `write_through`, `evict_add_page` | `DbFile`, `Table` |
| SQL compiler | `sql-compiler/Lexer.cpp`, `Parser.cpp` | tokens, position | `tokenize_query`, `parse` and 40 parsing functions | executor (the tree) |
| Executor, operators | `query-executor/QueryExecutor.cpp`, `ops/StorageOps.cpp` | one operator object per plan node | `buildOperatorTree`, `open`, `next`, `close` | `Table::scan`, the tree |
| Executor, predicates | `QueryExecutor.cpp` | none | `evaluatePredicate`, `evaluateExpression` | `FilterOp`, the variant `datatype` |
| Executor, statements | `QueryExecutor.cpp` | the catalog | SELECT, INSERT, CREATE, DROP; UPDATE and DELETE are refused | tables, heap files, descriptors, parser |
| Transactions and log | `transaction-processor/*` | not compiled | | |

What is correct means, for each part:

* **Heap file** - a row whose id was returned reads back until it is deleted; an
  id in use is not handed out again; a scan returns every row; the record count
  is the number of rows; a failed write destroys no other row.
* **Row format** - what is read is what was written, as far as it reached the
  disk; no buffer is overrun by a row the codec itself produced.
* **Table** - as the heap file, for a caller that is never told a page.
* **Descriptors** - whoever holds a descriptor reaches the file it was opened on.
* **Page cache** - a hit is the latest page under its id; a frame is used once;
  an eviction removes the page it evicts; the least recent page goes first.
* **SQL compiler** - an accepted text means what its plan says, in full; a
  supported text is accepted.
* **Operators, predicates** - a SELECT gives the rows SQL gives it, and ends.
* **Statements** - a table has the rows it was given and no other's; a statement
  that fails changes nothing.

## 2. Modules

    RowStore                       what a store of rows promises (abstract)
      ^ implemented by
    HeapFile  <- BulkLoader        a client that follows the returned page
       ^------ Table               a client that always passes page 0
                 ^---- CachedTable <- MCCachedTable    and one with a page cache
    PageCache <------------'       the cache over files of pages
    DbFile                         descriptors and heap file objects
       ^------ Executor <- MCExecutor    statements over several tables
    RowCodec  <- MCRowCodec        rows as bytes in a slot
    Lexer <- SqlText <- Parser <- Sql <- MCParser   characters, lexemes, parser, grammar
             SqlTree <---'                          its trees
    Predicates <- Operators <- MCOperators   plans run by the pull protocol

    DataProofs  <- HeapFileProofs (HeapFile and BulkLoader)
                        ^--- TableProofs (Table and CachedTable)
                <- ExecutorProofs (DbFile and Executor)
                <- PageCacheProofs
                <- RowCodecProofs
                <- OperatorsProofs
                <- ParserProofs (Lexer and Parser)

### HeapFile, BulkLoader, Table, RowStore

`HeapFile` is `HeapFile.cpp` with rows as values. `disk` maps row ids
`<<page, slot>>` to a row, `Free` (valid marker 0, or past the end of the file)
or `Torn` (a row written in part); `header` is page 0; `handle` and `numRecords`
are the `HeapFile*` object, gone with the process (`CloseProcess`); `result` is
the id the last call returned. `InsertRow(hint, row)` is all of `insert_row`: the
search for a free marker (where a failed read counts as free), the step to slot 0
of the next page, the write with its outcomes, the count and the id that are
given whatever came of the write. `DeleteRow` includes the deletion of the null id, which
hits the header; `CreateHeapfile` leaves the header whole or, when
writes of it fail, damaged or as it was. `Scanned` is what `scan_heap` visits.

`BulkLoader` drives it as `examples/.../generate_dummy_data.cpp` does, passing
each insert the page the last one returned; deletions of held rows, kills between
rows and runs over an old file are added. `Table` drives it as `Table.cpp` does
without a cache, with page 0 every time. `RowStore` is the abstract store: an insert takes
a free id, only a deletion removes a row. Clients are separate modules because
what the heap file keeps depends on the page argument its caller passes: the
loader implements `RowStore`, the table does not.

### RowCodec

One slot, byte by byte: `EncodeColumn`, `WriteSlot(n)` (n bytes reach the file),
`ReadRow`, `DecodeColumn`, `ReturnRow`, `DeleteRow`, and `CopyRow`, which inserts
a row that was read. Byte k of column c is `<<c, k>>`; bytes of one column in
their order decode to it and any other mixture to anything of that width. The
byte `Absent` is past the end of the file, where the uninitialized buffer is
read. A column whose start is inside the buffer and whose end is not is the undefined state
`badInsert` or `badRead`. `SlotSize`, `ByteRange` (numCols) and `LenRange` (string
lengths) stand for 128, 256 and 65536.

### DbFile

`fds` is the kernel's table, `dbFd` and `fdMap` the singleton, `handles` the
`HeapFile` objects, `registry` the one entry of `heapfile_registry` (every heap
file has `heap_id` 3), `written` the files that are not empty. The central fact of
the code: `DbFile dbfile = DbFile::getInstance();` copies the singleton, and the
copy's destructor closes the number of `database.db`
(`CopyDestroyed`). `CreateHeapfile`, `LoadFound`, `LoadThrows`, `PrintMetadata`
are whole calls with every copy they make; `DropHandle` is a `HeapFile` deleted
without closing its descriptor, `UnregisterHeapfile` the registry's erase.

### Executor

`Executor` extends `DbFile` with the catalog, the data pages of every file and
the answer of the last statement: each statement of `execute` is one action, with
the early returns and the exception of each as actions of their own, and so is
each call a program makes around them (loading, listing, adding a loaded table to
the catalog, giving a `Table` a row, deleting a `HeapFile`). A row is known by
the table it was given to; an INSERT statement stores none. `Reached` is the file a heap file's descriptor leads to *now*, so
that scans, inserts and reads by id go wherever the descriptors of `DbFile`
have gone. `HeapFileOfId` is the registry that `read_row` asks first.

### CachedTable

`Table` with the branch `thePageCache != nullptr`, over `PageCache` instantiated
for two files, the table's and one of other clients. The cache addresses page n at
1040 n + 120, the heap file at 128 n, so that the page 1 of the one and of the
other are different bytes: `disk` and `lastPage` are disjoint parts of one file
(`PagesApartAssumption`). `frameSlots` gives the frames contents; an insert is
two steps, the read of page 1 and the choice of a slot with its write. `mapped`
says whether the singleton knows the path: a process that created the table does not, so
that its reads of the file throw until a write through the cache has added the path. A page
that is not in the file in full is any bytes.

### PageCache

The four containers of the class, with the history of what was added last and
used when. `EvictAddPage` is all of `evict_add_page`: the frame an eviction
refills is popped from the used stack and never pushed again, so a later page is
thought to fit and `theFreePages.back()` of an empty vector ends the behaviour
(`"undefined"`). `PAGE_SIZE` is 120 bytes too large: a read of a complete page
overruns the caller's buffer (always undefined), a write over-reads, which only a
sanitized build (`Sanitized`) notices, and spills an arbitrary id into the head of the next
page of the file.

### Lexer, Parser, and their references SqlTree, Sql, SqlText

`Lexer` is `tokenize_query`: one operator per branch of its loop, from a position
of the text to the tokens read there and the next position, in the order in which
the code tries them. A text is a sequence of characters; a run of letters or of
digits counts as one, because the code never looks inside it. Everything is put in
capitals first, also inside quotes. `Tokens` gives the tokens from each position on.

`Parser` is the recursive descent: one operator per parsing function, from a
position to a position and a tree, 0 for an exception. What a function reads further on,
by its calls and by the next turn of its loops, it finds in its parameter `Q`: what every
function and loop (`Kinds`) reads at the positions after its own. `Parsed` is the function
on positions that this defines from the last position down, and there is no other
recursion. A function calls at the position it was called at only those of the levels below
it, which are operators of their own. The two steps are `TokenizeQuery`, over the text whole
or cut off at any character, and `Parse`. The statements, their lexemes and the styles they
are written in are constants of the module (`Queries`, `StatementText`, `WholeStyles`,
`CutStyles`).

`Sql` is the reference for the parser: how a query tree is written, with no more
parentheses than it needs, and what plan SQL gives it. `SqlText` is the one for the
lexer: how the lexemes of a statement are written as characters, in several styles,
which tokens they are, and which lexemes can be written at all (`WellSpelt`). `Lossy`, `Refused` and `Spells` (in `Sql`) name what the parser
does not represent or support, so that the properties are claims about everything else.

### Operators

A plan is a tree of numbered nodes; `ops` holds each operator object's fields,
`stack` the calls of `next()` that have not returned, `batch` what the last one
returned. Every `next()` is split where it calls its child, so that what an
operator keeps across calls (`skipped`, `returned`, `leftIdx`, `rightIdx`) is
checked across every interleaving of pulls the plan makes. `Collect` is the loop of
`executeSelect`. `Build` is what `buildOperatorTree` accepts; `NestedLoopJoin` and
`NaiveSelection`, which it never makes, run in plans that a program links itself (`Link`).
Two history variables record what the code does not keep: the operators that returned an
empty batch (`ended`) and the rows that were taken from each operator (`taken`).

`Meaning` is what SQL gives the plan, with columns resolved in the rows below a
node and conditions by `Meant`; `Possible` are the rows it could give whatever the limits cut;
`Exact` says for which plans the pull protocol,
the columns and the predicates of the code come to the same. `Returns` and `Ends` say which
calls of `next()` return, and which operators come to an empty batch; both hang on plans
that return all they mean at once, again and again (`Repeats`), or at first (`Begins`).
Each is a function defined by recursion down the plan, with one step of it as an operator of
its own (`MeaningOf`, `ReturnsOf`, ...). `PlansAssumption` and `CatalogAssumption` are
what the compiler and the catalog give: nodes of a tree that are numbered from the root
down, expressions of the parser, rows of values, no column named `*`.

### Predicates

`Evaluated` is `evaluateExpression`: values are pairs of the variant's alternative
and a number, compared as `std::variant` compares them, alternatives first.
`Meant` is SQL's three-valued meaning of the same expression and `Sound` the
condition under which the two agree, node by node: both sides of a comparison of
one alternative, literals that the casts to `int` and `float` keep, no NULL, sign or
arithmetic, IS NULL only where its result is not compared; a column that the row
lacks has no meaning (`Unknown`).

## 3. Runs

| Run | Module | Shows |
|---|---|---|
| `heapfile_api` | HeapFile | over every sequence of creations, loads, inserts with any page, deletions and failed or short writes, only its deletion or an insert after a full page destroys a row |
| `loader_store` | BulkLoader | the loader implements `RowStore`; its count is exact; while nothing is deleted a scan that stops a page before the file does returns every row below |
| `cached_table` | MCCachedTable | the rows a cache took and those the heap file took never meet: scans find only the latter, and all of them, as they lie on the pages a scan comes to; those of page 1 are kept; a page written through is read back until it is evicted or its id is taken |
| `executor_tables` | MCExecutor | through statements, loads, drops, failures and exhausted descriptors a handle or map entry can miss its file only under the number of `database.db`; outside it a scan finds rows of its table only, a failed statement changes no table, and a read by id can reach the table loaded last and no third |
| `cache_plain` | PageCache | a hit is the page added last under its id, frames are disjoint, exactly one frame is lost, an eviction removes its own entry |
| `operators_pull` | MCOperators | queries the pull loop and the predicates serve get exactly the rows of SQL; every row that any query collects, ended or not, is one that SQL could give; the queries that `Ends` names end; nobody pulls after the end |
| `parser_compile` | MCParser | however a statement is written, its tokens are SQL's; what is read is read right; supported statements are accepted; nothing but what follows `*` or `NOT` is dropped silently |
| `codec_slot` | MCRowCodec | columns that reached the file read back in place; what can pass the end of a buffer |
| `table_overwrite` | Table | **violated**: page 2 is overwritten |
| `dbfile_foreign` | DbFile | **violated**: a heap file of a table reaches the main file of another |
| `cache_lru` | PageCache | **violated**: eviction is not LRU |
| `operators_ends` | MCOperators | **violated**: a SELECT without LIMIT does not end |

### Bounds

* `heapfile_api`: 2 slots a page, 3 data pages, `max_pages` 3, 2 counted records.
  Two slots give a page that is empty, partly full and full; three pages a page to overflow
  from, one to overwrite and one behind it. Deletions lower the count, so that two counted records
  still reach rows on every page. `loader_store` has 4 pages and 8 records, the whole file
  full, and a scan that stops after page 3.
* `cached_table` and `table_overwrite` use the code's own 1 slot a page; `cached_table`
  has a page behind 1 and 2, the only ones a `Table` reaches, so that a row could lie where no scan
  comes; two counted rows; ids 0 to 2 (`MaxPageId`; a `Table` asks for page 1 alone); and two frames for them,
  so that the table's page is evicted and its id cached for the other file.
* `executor_tables`: two tables and five descriptors (3 to 7): `database.db`, both files, the
  nameless file and stale copies can be open at once, and descriptors run out in the
  middle of a load or a CREATE. `dbfile_foreign` has three tables and the six descriptors 3 to 8.
* `cache_plain`: 3 frames, 4 ids, 2 files: more ids than frames, ids re-added, the
  same id from two files. The behaviour ends after one eviction and one
  more page, so nothing deeper exists.
* `operators_pull`: tables of up to 2 rows of an INTEGER and a BIGINT column, ints of
  3 bits for the code's 32, selections of 1 row for the code's 10, batches of 2 pairs for the code's 64,
  limits 0 to 3 over at most 8 product rows, LIMIT over LIMIT with the offsets 1 and 2, and up
  to 9 rows of a result (`MaxRows`, past which rows are not told apart, and `Fits`, that no
  result which is compared is longer): results below, at and above a batch.
* `parser_compile`: every expression of two operators, joins of three tables,
  every list of clauses, all other statements, and string literals and quoted names
  that look like words, marks, comments or quotes at twelve places of a statement.
  Statements with quotes, and all but queries, are written with blanks, with as few as
  possible in small letters, and with a comment of either form, holding quotes and the
  other's marks, between all lexemes; all but queries, and the longest of these, are also
  cut off at each character. Two operators are what precedence and grouping are about;
  the functions are called again for anything deeper.
* `codec_slot`: slots of 12 bytes, numCols modulo 4, lengths modulo 10: rows that
  fit, fill the slot exactly, lose a column, pass the end, overflow numCols,
  overflow a length and overflow it to 0; three inserts so that a torn row lies over a row and is
  read and inserted again.

`CHECK_DEADLOCK FALSE` is set where the system may stop: a full file, a cache in
its undefined state, a compiled query.

### Fairness

Only `Operators` has liveness properties. It assumes `WF_vars(Next)`: the one
thread of the executor takes its next step as long as it has one. There is no
lock, no I/O wait in the model and no other thread that could keep it from running.
All other specifications are safety only.

## 4. Findings

* `table_overwrite` - `insert_row` sends a row to slot 0 of the next page without looking
  at it (HeapFile.cpp:296). `Table` always starts at page 1, so every row after
  page 1 is full overwrites page 2, whereas REPORT.md:90 makes the heap file
  "responsible for locating the correct page or appending new ones".
* `dbfile_foreign` - after the first heap file is made, the number of `database.db` is
  closed and reused; the next creation closes it under whoever has it. A second creation of A opens
  A's file under that number and closes it itself; loading B opens B's file under it, and the
  second heap file of A reads and writes the file of B.
* `cache_lru` - the page filled last is evicted, REPORT.md:108 says LRU.
* `operators_ends` - `SeqScan::next` returns the whole table at each call, never
  an empty batch: a SELECT over a table with rows does not end without LIMIT.

Met in the code and visible in the models' definitions, without a run of their own: INSERT
counts rows and stores none (QueryExecutor.cpp:211, `Insert`); DROP TABLE keeps the file, so that a
table created again has its old rows (QueryExecutor.cpp:292, `Drop`, `Create`); `num_records` is never
written to disk; a deletion of the null id damages the header; `next_heapfile` is 8
on disk for ever, so that a load creates a second file; LIMIT above a short table repeats rows; a
batch that OFFSET or WHERE empties ends a query early; `*` is a symbol to the lexer, so a
product ends the statement silently, and so does NOT LIKE; the lexer puts string literals
and quoted names in capitals, and ends a comment or quote that is not closed at the
end of the text without an error; the parser takes a string or quoted name that spells a
bracket, `*` or one of nine words for it, where an expression begins.

## 5. Proofs

All theorems are checked by TLAPS, for every number of slots, pages, tables,
descriptors and frames, and every set of plans and of statements, that the named assumptions of the modules allow (sizes
positive, `Free`, `Torn` and `None` outside the sets they are told from).

* **HeapFile** (`HeapFileProofs`). `HeapFileTypeOK` by induction, one case per
  action; `TargetCases` says where an insert lands. `RowsLostOnlyAtOverflowHolds`
  is an action property from `TypeOK`, under the premise that no marker read
  fails (`"unread" \notin Faults`): with it the claim is false.
* **BulkLoader** (`HeapFileProofs`). `StoresRows` and `CountExact` are not
  inductive: an insert whose page is full takes slot 0 of the next page unseen.
  What makes it free is `NothingBeyondCurrent`, no live row lies beyond the
  loader's page, kept because the page only moves to the one an insert returned
  and a rerun is excluded. With it an insert is a step `RowStore!Insert`, a
  deletion a step `RowStore!Delete`, anything else a stutter
  (`LoaderStoresRows`), and the count changes with the cardinality of the live
  ids (`LoaderCountExact`). Both theorems assume `Faults = {}` and `~Reruns`. `LoaderScansComplete` rests on another invariant,
  `NoEmptyPageBefore`: while nothing is deleted no page before the current one, or before
  a live row, is empty. It holds with reruns and with write faults.
* **Table** (`TableProofs`). `TableKeepsFirstPage`: an insert lands in a free slot of
  page 1 or on page 2. `TableScansComplete`: all rows lie on pages 1 and 2, and a scan goes to page 2 when page 1 has one.
* **CachedTable** (`TableProofs`). What the cache does leaves the heap file's pages alone, so
  the two theorems of `Table` carry over, and `CachedScanFindsHeapRows` adds that every live row
  of the file was given to it directly. `CachedTypeOKHolds` and `CachedRowReadBackHolds` are
  about the cache's half. `CachedRowReadBack` is not inductive: what keeps the page an insert
  wrote through from being overwritten is that a frame on the free list is never mapped and
  that the frame mapped under an id holds a page of that id, so that an eviction which
  refills the frame of id 1 also unmaps it (`FramesSound`). `FrameFilled` says what
  `evict_add_page` does to the map and the stacks, in both of its branches; a read and a write
  of any client are one refill of a frame each (`FetchKeepsSound`, `WriteKeepsSound`), and a
  new process starts with an empty cache (`EmptyCacheSound`).
* **RowCodec** (`RowCodecProofs`). The five properties of the run, for every size of a slot, every
  width of numCols and of the lengths, and every set of rows. The invariant `IInv` follows the bytes
  through the three places they are in: while a row is encoded the columns before the next
  one are in the buffer at the offsets `Ends` gives them (`Encoding`); once written, those
  that end within the bytes that reached the file are in the slot (`Held`, by
  `WriteSlotInvariant`: the bytes behind a short write are an older row's and do not matter);
  a read that has not yet passed the last of these is at the end of the column it read last and
  has returned the columns before it (`Decoding`). `Origin` says what a row that is inserted
  again can be: one read from a whole slot fits in it and lacks a column only if it fills it.
  The heart is `DecodePlaced`: a column whose bytes are all there decodes to itself, by tag,
  length and value, and nothing else can be read. `EndsDefined` to `Layout` are about
  the recursive function `Ends`, proved with `Induction`. The proof found what the bounds of the run had hidden:
  a string whose length is a multiple of 65536 is stored without any character, so that what
  is stored of it is not the string itself (`Stored`); a row with such a string is in the run now.
* **DbFile** (`ExecutorProofs`). `DescriptorsSound`, the type invariant, the two
  soundness properties and "nothing exists before `initialize`", is inductive. Each
  action opens one or more descriptors (`OpenedEffect`: the lowest free one, the rest
  kept) and destroys a copy (`CopyDestroyedEffect`: only the number of
  `database.db` changes); `SoundnessKept` turns that into the invariant's conjuncts.
* **Executor** (`ExecutorProofs`). `ExecImplementsDbFile`: each statement is a step of `DbFile` or
  leaves it alone, so that its theorems hold under statements. `ExecSound` joins
  `DescriptorsSound` with `HeadersSound`, the file of every heap file object has a
  header, and `RowsSound`, a file with a header has rows of its own table only and one
  that has none and is not mapped is empty. `SelectsOwnRowsHolds` is the two together. The action properties follow from
  it case by case; in a failing CREATE the copy's destructor closes one number, which no sound
  table uses.
* **PageCache** (`PageCacheProofs`). `CacheSound` is the four invariants of the run, which
  are needed together, and `TopIsMapped`: before the first eviction the frame on top of
  the used stack is mapped under the id of the page in it. Without that an eviction
  could erase the entry of an id added again elsewhere. `AddToFreeKeepsSound` and
  `EvictTopKeepsSound` are the two cases; `CacheSteps` reduces every action to them.
  `EvictsOwnEntryHolds` follows.
* **Operators** (`OperatorsProofs`), for every set of plans that are trees
  (`PlansAssumption`), every catalog of well-formed rows (`CatalogAssumption`) and every batch size.
  `NoPullAfterEndHolds`: the invariant `PullSound` has two parts: the calls in progress are a
  path from the root whose operators each read the next one (`PathSound`), and an operator with a
  child that ended has ended itself, is a product that went on to its other side or to the pairs,
  or has just been handed the empty batch (`EndedSound`). Every action is a call
  (`PullKeepsSound`), a return (`ReturnKeepsSound`), a new start by executeSelect
  (`StartKeepsSound`) or changes one operator only.
  `OperatorsTypeOK`: a product stays within the pairs of its rows because its indexes stay 0 until
  both sides are read, and neither grows after that (`OpSound`).
  `OnlyMeantRowsHolds`: the invariant `RowsMeant` says of every place a row can be in, the batch in hand,
  the two sides of a product, the pairs it has made and the result, that the rows there are
  possible ones of the operator they come from (`May`). It holds of queries that never end,
  too, so that it needs nothing of what the operators have handed out before: a limit and a selection
  take rows away, a filter those that fail its condition (`AcceptsAsKeeps`), a projection
  and a product make the rows that `Made` does of theirs. `Possible` is a function by recursion
  down the plan like `Meaning` (`PossibleUnfold`).
  `AnswersExactHolds`: the invariant `AnswerSound` says what each operator of the plan has handed
  out so far (`Out`, the rows taken from it and the batch in hand), in terms of its counters and
  of the rows taken from its children. That is needed because the answer of the root is only a
  statement about the end, while an operator that keeps counters is right or wrong at each pull.
  `Serves`: these rows are the beginning of what the operator means, and all of it or nothing where it
  answers at once. `Fills`: a limit over an operator that repeats itself is idle or full; one
  that passes batches on has cut what it read at its number, and counted it. `Joins`: a
  product has handed out the pairs up to the two indexes, but those still in its vector. A
  projection has the projection of what it read, a filter all or nothing (`Progresses`).
  A product's step (`NextPair`) moves the number of the pair by one,
  and what a limit keeps of the next batch continues the cut (`LimitGoesOn`); each return is one of
  the root (`Collect`), of a child to its parent, or of a step, and preserves `AnswersAt` of every
  other operator. That filters decide as SQL does is a theorem of its own: by induction down the
  expression, `Evaluated` and `Meant` agree wherever `Sound` (`AgreesAt`, `AcceptsAsKeeps`), and a
  column name found by the operator is the only one of that name below it (`ResolvedPosition`).
  The premises are those of the property: the names of projections are found, `Exact` admits the
  plan and no vector reaches the bound `MaxRows`, which the code does not have (`Fits`).
* **Lexer** (`ParserProofs`). `TokensRightHolds`, for every set of statements of lexemes that
  are `WellSpelt` and every style that puts nothing, a space or a comment of either form
  between them (`QueriesAssumption`), and every alphabet that keeps letters, digits, marks and
  spaces apart (`CharactersAssumption`). Three facts carry it. Every well-spelt lexeme, when
  what follows does not run together with it, is read as its token (`LexemeRead`, from one
  lemma per branch of the lexer: `ReadsName`, `ReadsNumber`, `ReadsString`, `ReadsQuotedName`,
  `ReadsMark`, `ReadsPair`). What a style puts between two lexemes is skipped (`BlankSkipped`).
  And the text is these pieces one after the other (`TextParts`), so that by induction from its
  end the tokens are those of the lexemes (`TextRead`). For a text that is cut off the lexer is
  compared with itself on the whole text: a lexeme that ends before the cut is read as it would
  have been (`LexemeCut`), the one at the cut may be cut short or, unclosed, go to the end, and
  nothing comes after it (`TokensCut`). Strings and the tokens of a text are recursive functions
  of a position, so that `DataProofs` shows that they exist and unfold (`StringsUnfold`,
  `TokensUnfold`). The proof showed what `SqlText` had left unsaid: which lexemes can be written
  (a number with two points, or a name that begins with a digit, cannot), and that a number
  that ends in its point runs together with digits after it.
* **Parser** (`ParserProofs`). `ParserTypeOK`: the position stays within the tokens, whatever they are, so
  that the parser never asks for a token it did not come to. Each parsing function that is called
  at position i and returns has gone on (`Advances`) and each loop has not gone back (`Stops`),
  given that what is called further on does so (`ReadsOn`): one lemma per function, from
  `CallRead` to `StatementRead`. `ReadingStops` puts them together, and `ParsedStops` is the induction down from
  the last position. That there is such a function as `Parsed` is `ParsedUnfold`. As every
  call is at a later position or to a lower level, the proof is also the reason why the parser
  comes to an end. `ParserInv` adds what the step `Parse` needs: the tokens are a
  sequence (`TokensSequence`), and nothing is read before it.
* **DataProofs**: a non-empty set of naturals has a least element (`LeastElement`, `MinInSet`); a
  set with 0 and the successor of each of its naturals has them all (`Induction`), which stands for
  the induction principles of the library, whose predicates are operators no installed
  prover can instantiate; what pushing on and popping a stack do (`Pushed`, `Popped`); a piece
  of a sequence and the pairs of two; and functions defined by recursion down a tree whose
  children have larger numbers (`Downwards`, `Recursion`, `TreeInduction`): there is one, and it
  is the step applied to itself. The step is given as a relation, a set, as no operator can be.

Only model-checked: liveness (`EndingPlansEnd`), and that the parser agrees with the reference
`Sql` (`ReadRight`, `SupportedAccepted`, `NothingLeftOut`). These three say that a tree which is
written down and read is the same tree, for trees of every shape: an induction over trees
along operators of `Sql` that are `RECURSIVE`, about which tlapm takes no proof by SMT.
`OperatorsProofs` takes longest to check, some ten to fifteen minutes from nothing; `ParserProofs`
takes some eight.

## 6. Not modelled, and the plan

Not modelled: characters inside a run of letters or digits; the conversion of number
lexemes, where one too large throws; the header's bytes
(names have no length, so a name longer than a page is out of sight);
directory creation; memory; formatting, headings and logging; `Schema` and column
values in statements; `VectorizedSelection` and headers without definitions.
`Database` is an empty shell.

`TScheduler` and `TLogger` are not compiled, and do not compile as written: the
queues of the scheduler hold pointers to locals that are gone and the call that
would fill them is commented out, so that no order of operations can be read from
them.

Next:

1. A run of the loader with reruns and faults beside its theorem.
2. The header's bytes, with names longer than a page.
3. The reference `Sql` with recursive functions in place of its `RECURSIVE` operators, and a
   theorem that an expression is read back as it was written (`ReadRight`), by induction over
   what is left of its tokens.
