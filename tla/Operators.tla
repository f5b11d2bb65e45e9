----------------------------- MODULE Operators -----------------------------
(***************************************************************************)
(* One SELECT in the query executor, src/src/query-executor/               *)
(* QueryExecutor.cpp: the operator tree built from the relational algebra  *)
(* tree, and the loop that pulls batches of rows from its root until one   *)
(* is empty.  Every operator pulls from its children the same way; the     *)
(* calls of next() in progress are a stack.                                *)
(*                                                                         *)
(* A row is a sequence of values, a predicate an expression of Predicates. *)
(***************************************************************************)
EXTENDS Predicates, FiniteSets

CONSTANTS
    Plans,      \* the trees, each a function from 1 .. n to nodes, 1 the root
    Tables,     \* the tables of the catalog
    Schema,     \* the column names of each table
    Contents,   \* the row sequences a table can have
    BatchSize,  \* BATCH_SIZE of the products (64 in the code)
    NaiveRows,  \* the rows of a batch that NaiveSelection keeps (10 in the code)
    MaxRows     \* bound: rows a vector is modelled to hold, the rest is cut off

ASSUME OperatorsAssumption ==
    /\ BatchSize \in Nat \ {0}
    /\ NaiveRows \in Nat \ {0}
    /\ MaxRows \in Nat \ {0}

\* A node has a child in left (and right) or 0, the table of a scan, the
\* column names of a projection, a condition or <<>>, and the numbers of a
\* LIMIT clause (limit -1: none).  NestedLoopJoin and NaiveSelection are
\* operators that only a program that links its tree itself has.
Supported == {"scan", "filter", "project", "limit", "cross"}
Linked    == Supported \cup {"join", "naive"}
Products  == {"cross", "join"}
Star == "*"                         \* a null projection, from SELECT a, *

PlanNode == [op : STRING, left : Nat, right : Nat, table : STRING, cols : Seq(STRING),
             cond : Expressions, limit : Int, offset : Nat]

\* Plans are trees: the children of a node come after it and are its own.
Children(p, n) == {p[n].left, p[n].right} \ {0}

ASSUME PlansAssumption ==
    \A p \in Plans :
        /\ p \in Seq(PlanNode) /\ p # <<>>
        /\ \A n \in DOMAIN p :
             /\ Children(p, n) \subseteq {c \in DOMAIN p : c > n}
             /\ p[n].op = "scan" <=> p[n].left = 0
             /\ IF p[n].op \in Products THEN p[n].right \notin {0, p[n].left}
                                        ELSE p[n].right = 0
        /\ \A m, n \in DOMAIN p : m # n => Children(p, m) \cap Children(p, n) = {}

ASSUME CatalogAssumption ==
    /\ Schema \in [Tables -> Seq(STRING)]
    /\ \A t \in Tables : Star \notin Range(Schema[t])
    /\ Contents \subseteq Seq(Seq(Value))

VARIABLES
    plan,       \* the operator tree
    tables,     \* the rows of each table, as Table::scan returns them
    ops,        \* the state of each operator
    stack,      \* the operators whose next() is in progress, innermost last
    returning,  \* BOOLEAN: has the innermost call just returned batch
    batch,      \* the rows the last call returned
    rows,       \* result.rows
    status,     \* "new", "running", "done", "failed" (an exception) or
                \*   "undefined"
    ended,      \* history: the operators that returned an empty batch
    taken       \* history: the rows that were taken from each operator

vars == <<plan, tables, ops, stack, returning, batch, rows, status, ended, taken>>

Nodes == DOMAIN plan
Top   == Last(stack)
Node  == plan[Top]

Fresh == [left |-> <<>>, right |-> <<>>, leftIdx |-> 0, rightIdx |-> 0,
          side |-> "none", out |-> <<>>, skipped |-> 0, returned |-> 0]

Capped(s) == SubSeq(s, 1, IF Len(s) < MaxRows THEN Len(s) ELSE MaxRows)

Init ==
    /\ plan \in Plans
    /\ tables \in [Tables -> Contents]
    /\ ops = [n \in Nodes |-> Fresh]
    /\ stack = <<>>
    /\ returning = FALSE
    /\ batch = <<>>
    /\ rows = <<>>
    /\ status = "new"
    /\ ended = {}
    /\ taken = [n \in Nodes |-> <<>>]

-----------------------------------------------------------------------------
(* Building the tree *)

\* The table whose schema the columns of a node are looked up in: that of the
\* leftmost scan below it.
BaseTable ==
    LET Base[n \in Nodes] ==
            IF plan[n].op = "scan" THEN plan[n].table ELSE Base[plan[n].left]
    IN  Base
Names(n) == Schema[BaseTable[n]]

TablesKnown == \A n \in Nodes : plan[n].op = "scan" => plan[n].table \in Tables

\* buildOperatorTree throws for an operator it does not know and for a table
\* that is not in the catalog.
Buildable == TablesKnown /\ \A n \in Nodes : plan[n].op \in Supported

Build ==
    /\ status = "new"
    /\ IF Buildable THEN status' = "running" /\ stack' = <<1>>
                    ELSE status' = "failed" /\ UNCHANGED stack
    /\ UNCHANGED <<plan, tables, ops, returning, batch, rows, ended, taken>>

\* A program constructs the operators itself, from tables it has.
Linkable == TablesKnown /\ \A n \in Nodes : plan[n].op \in Linked

Link ==
    /\ status = "new"
    /\ Linkable /\ ~Buildable
    /\ status' = "running"
    /\ stack' = <<1>>
    /\ UNCHANGED <<plan, tables, ops, returning, batch, rows, ended, taken>>

-----------------------------------------------------------------------------
(* Calls *)

Calling(of)  == status = "running" /\ stack # <<>> /\ ~returning /\ Node.op \in of
Returned(of) == status = "running" /\ stack # <<>> /\ returning /\ Node.op \in of

\* The child that the innermost operator reads, and the batch that it takes.
Reading == IF Node.op \in Products /\ ops[Top].side = "right" THEN Node.right ELSE Node.left
Take ==
    taken' = IF returning THEN [taken EXCEPT ![Reading] = Capped(@ \o batch)] ELSE taken

Pull(child) ==
    /\ Take
    /\ stack' = Append(stack, child)
    /\ returning' = FALSE
    /\ UNCHANGED <<plan, tables, batch, rows, status, ended>>

Return(result) ==
    /\ Take
    /\ batch' = result
    /\ stack' = Front(stack)
    /\ returning' = TRUE
    /\ ended' = IF result = <<>> THEN ended \cup {Top} ELSE ended
    /\ UNCHANGED <<plan, tables, rows, status>>

Undefined ==
    /\ status' = "undefined"
    /\ UNCHANGED <<plan, tables, ops, stack, returning, batch, rows, ended, taken>>

\* SeqScan::next: the whole table, every time.
ScanNext ==
    /\ Calling({"scan"})
    /\ Return(tables[Node.table])
    /\ UNCHANGED ops

-----------------------------------------------------------------------------
(* Filters and projection *)

\* The elements of a sequence for which keep holds at their place.
Selected(s, keep) ==
    LET S[k \in 0 .. Len(s)] ==
            IF k = 0 THEN <<>>
            ELSE IF keep[k] THEN Append(S[k - 1], s[k]) ELSE S[k - 1]
    IN  S[Len(s)]

PullInput ==
    /\ Calling({"filter", "project", "naive"})
    /\ Pull(Node.left)
    /\ UNCHANGED ops

\* The loops over a batch do nothing with an empty one, which is passed on.
PassEnd ==
    /\ Returned({"filter", "project", "naive", "limit"})
    /\ batch = <<>>
    /\ Return(<<>>)
    /\ UNCHANGED ops

FilterRows ==
    /\ Returned({"filter"})
    /\ batch # <<>>
    /\ Return(Selected(batch, [i \in DOMAIN batch |-> Accepts(Node.cond, Names(Top), batch[i])]))
    /\ UNCHANGED ops

\* NaiveSelection::next: the first rows of a batch, whatever its condition.
NaiveKeeps ==
    /\ Returned({"naive"})
    /\ batch # <<>>
    /\ Return(SubSeq(batch, 1, IF Len(batch) < NaiveRows THEN Len(batch) ELSE NaiveRows))
    /\ UNCHANGED ops

\* The columns a projection finds, in its order; the others are left out.
Projected(cols, names, row) ==
    LET found == Selected(cols, [i \in DOMAIN cols |-> Position(names, cols[i]) \in 1 .. Len(row)])
    IN  [i \in DOMAIN found |-> row[Position(names, found[i])]]
Projection(cols, names, all) == [i \in DOMAIN all |-> Projected(cols, names, all[i])]

\* A null projection is dereferenced as soon as there is a row.
ProjectRows ==
    /\ Returned({"project"})
    /\ batch # <<>>
    /\ IF Star \in Range(Node.cols) THEN Undefined
       ELSE /\ Return(Projection(Node.cols, Names(Top), batch))
            /\ UNCHANGED ops

-----------------------------------------------------------------------------
(* Limit *)

\* Faulty variant: one row late.
LimitReachedLate == Node.limit >= 0 /\ ops[Top].returned > Node.limit

LimitReached == Node.limit >= 0 /\ ops[Top].returned >= Node.limit

LimitNext ==
    /\ Calling({"limit"})
    /\ IF LimitReached THEN Return(<<>>) ELSE Pull(Node.left)
    /\ UNCHANGED ops

\* What is left of a batch after OFFSET and LIMIT.
Skip(n) ==
    IF plan[n].offset - ops[n].skipped < Len(batch)
    THEN plan[n].offset - ops[n].skipped ELSE Len(batch)
Kept(n) ==
    LET rest == SubSeq(batch, Skip(n) + 1, Len(batch))
        room == plan[n].limit - ops[n].returned
    IN  IF plan[n].limit >= 0 /\ room < Len(rest) THEN SubSeq(rest, 1, room) ELSE rest

\* rows_returned_ is read, and counted here, only when there is a limit.
LimitRows ==
    /\ Returned({"limit"})
    /\ batch # <<>>
    /\ ops' = [ops EXCEPT ![Top].skipped = @ + Skip(Top),
                          ![Top].returned =
                              IF Node.limit < 0 THEN 0 ELSE @ + Len(Kept(Top))]
    /\ Return(Kept(Top))

-----------------------------------------------------------------------------
(* Cross product and nested loop join, whose condition is not looked at *)

\* The first next() reads the left child to its end, then the right one.
PullLeft ==
    /\ Calling(Products)
    /\ ops[Top].side = "none"
    /\ ops' = [ops EXCEPT ![Top].side = "left"]
    /\ Pull(Node.left)

DrainLeft ==
    /\ Returned(Products)
    /\ ops[Top].side = "left"
    /\ IF batch # <<>>
       THEN /\ ops' = [ops EXCEPT ![Top].left = Capped(@ \o batch)]
            /\ Pull(Node.left)
       ELSE /\ ops' = [ops EXCEPT ![Top].side = "right"]
            /\ Pull(Node.right)

DrainRight ==
    /\ Returned(Products)
    /\ ops[Top].side = "right"
    /\ IF batch # <<>>
       THEN /\ ops' = [ops EXCEPT ![Top].right = Capped(@ \o batch)]
            /\ Pull(Node.right)
       ELSE /\ ops' = [ops EXCEPT ![Top].side = "ready"]
            /\ Take
            /\ returning' = FALSE
            /\ UNCHANGED <<plan, tables, stack, batch, rows, status, ended>>

\* Faulty variant: one pair too many.
MorePairsInclusive(op) == Len(op.out) <= BatchSize /\ op.leftIdx < Len(op.left)

MorePairs(op) == Len(op.out) < BatchSize /\ op.leftIdx < Len(op.left)

\* Faulty variant: the right index is not reset when the left one moves on.
PairRowsNoReset ==
    /\ Calling(Products)
    /\ ops[Top].side = "ready"
    /\ MorePairs(ops[Top])
    /\ LET op == ops[Top]
           wraps == op.rightIdx + 1 >= Len(op.right)
       IN  IF op.rightIdx >= Len(op.right) THEN Undefined
           ELSE /\ ops' = [ops EXCEPT
                    ![Top].out = Append(@, op.left[op.leftIdx + 1] \o op.right[op.rightIdx + 1]),
                    ![Top].rightIdx = IF wraps THEN @ ELSE @ + 1,
                    ![Top].leftIdx = IF wraps THEN @ + 1 ELSE @]
                /\ UNCHANGED <<plan, tables, stack, returning, batch, rows, status, ended, taken>>

\* Faulty variant: the pair begins with the right row.
PairRowsSwapped ==
    /\ Calling(Products)
    /\ ops[Top].side = "ready"
    /\ MorePairs(ops[Top])
    /\ LET op == ops[Top]
           wraps == op.rightIdx + 1 >= Len(op.right)
       IN  IF op.rightIdx >= Len(op.right) THEN Undefined
           ELSE /\ ops' = [ops EXCEPT
                    ![Top].out = Append(@, op.right[op.rightIdx + 1] \o op.left[op.leftIdx + 1]),
                    ![Top].rightIdx = IF wraps THEN 0 ELSE @ + 1,
                    ![Top].leftIdx = IF wraps THEN @ + 1 ELSE @]
                /\ UNCHANGED <<plan, tables, stack, returning, batch, rows, status, ended, taken>>

\* One turn of the loop that fills a batch.  right_rows_[right_idx_] of an
\* empty vector is undefined.
PairRows ==
    /\ Calling(Products)
    /\ ops[Top].side = "ready"
    /\ MorePairs(ops[Top])
    /\ LET op == ops[Top]
           wraps == op.rightIdx + 1 >= Len(op.right)
       IN  IF op.rightIdx >= Len(op.right) THEN Undefined
           ELSE /\ ops' = [ops EXCEPT
                    ![Top].out = Append(@, op.left[op.leftIdx + 1] \o op.right[op.rightIdx + 1]),
                    ![Top].rightIdx = IF wraps THEN 0 ELSE @ + 1,
                    ![Top].leftIdx = IF wraps THEN @ + 1 ELSE @]
                /\ UNCHANGED <<plan, tables, stack, returning, batch, rows, status, ended, taken>>

\* Faulty variant: that the children have been read is not remembered.
ReturnPairsForgets ==
    /\ Calling(Products)
    /\ ops[Top].side = "ready"
    /\ ~MorePairs(ops[Top])
    /\ Return(ops[Top].out)
    /\ ops' = [ops EXCEPT ![Top].out = <<>>, ![Top].side = "none"]

ReturnPairs ==
    /\ Calling(Products)
    /\ ops[Top].side = "ready"
    /\ ~MorePairs(ops[Top])
    /\ Return(ops[Top].out)
    /\ ops' = [ops EXCEPT ![Top].out = <<>>]

-----------------------------------------------------------------------------
(* The loop of executeSelect *)

Collect ==
    /\ status = "running"
    /\ stack = <<>>
    /\ IF batch = <<>>
       THEN status' = "done" /\ UNCHANGED <<stack, returning, rows, taken>>
       ELSE /\ rows' = Capped(rows \o batch)
            /\ taken' = [taken EXCEPT ![1] = Capped(@ \o batch)]
            /\ stack' = <<1>>
            /\ returning' = FALSE
            /\ UNCHANGED status
    /\ UNCHANGED <<plan, tables, ops, batch, ended>>

\* The query is over: the result goes to the caller.
Stopped == status \in {"done", "failed", "undefined"} /\ UNCHANGED vars

Next ==
    \/ Build \/ Link
    \/ ScanNext
    \/ PullInput \/ PassEnd \/ FilterRows \/ NaiveKeeps \/ ProjectRows
    \/ LimitNext \/ LimitRows
    \/ PullLeft \/ DrainLeft \/ DrainRight \/ PairRows \/ ReturnPairs
    \/ Collect
    \/ Stopped

\* The executor's thread keeps running as long as it has a step to take.
Spec == Init /\ [][Next]_vars /\ WF_vars(Next)

-----------------------------------------------------------------------------
(* What a query means, and which plans the pull loop serves *)

\* The columns of the rows of a node, as SQL has them; SELECT * has them all.
ColumnsOf(C, n) ==
    LET node == plan[n]
    IN  CASE node.op = "scan"                     -> Schema[node.table]
          [] node.op \in Products                 -> C[node.left] \o C[node.right]
          [] node.op = "project" /\ node.cols # <<>> -> node.cols
          [] OTHER                                -> C[node.left]
Columns == LET C[n \in Nodes] == ColumnsOf(C, n) IN C

\* The rows that satisfy the condition of a node, the rows between its OFFSET
\* and its LIMIT, the pairs of two row sequences.
Satisfying(n, all) ==
    Selected(all, [i \in DOMAIN all |-> Keeps(plan[n].cond, Columns[n], all[i])])
WithinLimit(n, all) ==
    LET last == plan[n].offset + plan[n].limit
    IN  SubSeq(all, plan[n].offset + 1,
               IF plan[n].limit >= 0 /\ last < Len(all) THEN last ELSE Len(all))
Pairs(left, right) ==
    [k \in 1 .. Len(left) * Len(right) |->
        left[((k - 1) \div Len(right)) + 1] \o right[((k - 1) % Len(right)) + 1]]

\* The rows a plan stands for: those of the relational algebra, in scan order.
MeaningOf(M, n) ==
    LET node  == plan[n]
        below == M[node.left]
    IN  CASE node.op = "scan"  -> tables[node.table]
          [] node.op \in {"filter", "naive"} -> Satisfying(n, below)
          [] node.op = "project" ->
               IF node.cols = <<>> THEN below
               ELSE Projection(node.cols, Columns[node.left], below)
          [] node.op = "limit" -> WithinLimit(n, below)
          [] OTHER -> Satisfying(n, Pairs(below, M[node.right]))     \* a product
Meaning == LET M[n \in Nodes] == MeaningOf(M, n) IN M

Together(S, T) == {p[1] \o p[2] : p \in S \X T}

\* The rows that SQL could give at all, whatever the LIMITs cut: those an
\* operator makes of the rows below it, and of these the ones it keeps.
Made(P, n) ==
    LET node == plan[n]
    IN  CASE node.op = "scan" -> Range(tables[node.table])
          [] node.op = "project" ->
               {Projected(node.cols, Columns[node.left], row) : row \in P[node.left]}
          [] node.op \in Products -> Together(P[node.left], P[node.right])
          [] OTHER -> P[node.left]
PossibleOf(P, n) == {row \in Made(P, n) : Keeps(plan[n].cond, Columns[n], row)}
Possible == LET P[n \in Nodes] == PossibleOf(P, n) IN P

\* The name means one column of the rows below the node, and the operator, which
\* only has the schema of the leftmost table, finds it there.
Resolved(n, name) ==
    LET cols == Columns[plan[n].left]
    IN  {i \in DOMAIN cols : cols[i] = name} = {Position(Names(n), name)}

\* No projection misses its columns: SELECT * projects to none.
ProjectsRight ==
    \A n \in Nodes : plan[n].op = "project" =>
        plan[n].cols # <<>> /\ \A c \in Range(plan[n].cols) : Resolved(n, c)

\* The operator decides the condition of the node as SQL does, for these rows.
Decides(n, some) ==
    /\ ProjectsRight
    /\ \A i \in DOMAIN plan[n].cond :
         plan[n].cond[i].op = "column" => Resolved(n, plan[n].cond[i].name)
    /\ \A row \in some : Sound(plan[n].cond, Columns[n], row)

\* Only filters have a condition, and they decide it for every row they may see.
ConditionsRight ==
    \A n \in Nodes : plan[n].cond # <<>> =>
        plan[n].op = "filter" /\ Decides(n, Possible[plan[n].left])

\* NaiveSelection's condition and its limit cut nothing.
CutsNothing(n) ==
    Meaning[n] = Meaning[plan[n].left] /\ Len(Meaning[n]) <= NaiveRows

\* Every batch of the operator stands for the whole of what it means.
RepeatsOf(R, n) ==
    LET node == plan[n]
    IN  \/ node.op = "scan"
        \/ node.op = "project" /\ R[node.left]
        \/ node.op = "filter" /\ R[node.left] /\ Decides(n, Range(Meaning[node.left]))
        \/ node.op = "naive" /\ R[node.left] /\ CutsNothing(n)
Repeats == LET R[n \in Nodes] == RepeatsOf(R, n) IN R

\* The first batch of the operator stands for the whole of what it means.
BeginsOf(B, n) ==
    LET node == plan[n]
    IN  \/ node.op = "scan"
        \/ node.op \in {"project", "limit"} /\ B[node.left]
        \/ node.op = "filter" /\ B[node.left] /\ Decides(n, Range(Meaning[node.left]))
        \/ node.op = "naive" /\ B[node.left] /\ CutsNothing(n)
Begins == LET B[n \in Nodes] == BeginsOf(B, n) IN B

\* Does a call of the operator return; do its calls come to an empty batch (an
\* offset that skips a whole batch leaves an empty one).
ReturnsOf(E, n) ==
    LET node == plan[n]
    IN  CASE node.op = "scan" -> [call |-> TRUE, end |-> tables[node.table] = <<>>]
          [] node.op \in {"filter", "naive", "project"} -> E[node.left]
          [] node.op = "limit" ->
               [call |-> node.limit = 0 \/ E[node.left].call,
                end  |-> \/ node.limit = 0
                         \/ /\ E[node.left].call
                            /\ \/ node.limit > 0
                               \/ E[node.left].end
                               \/ /\ Begins[node.left]
                                  /\ Len(Meaning[node.left]) <= node.offset]
          [] OTHER ->                                                \* a product
               LET both == E[node.left].end /\ E[node.right].end
               IN  [call |-> both, end |-> both]
Returns == LET E[n \in Nodes] == ReturnsOf(E, n) IN E
Ends == Linkable => Returns[1].end

\* The operator hands out exactly what it means, in one batch ("one") or in
\* several ("many"), before its first empty batch; "no" if nothing is claimed.
\* A batch that a filter or an offset empties ends the query, and a limit that
\* the child's rows do not fill is filled up with the same rows again.  The
\* selection and the join do not look at their condition.
ExactOf(X, n) ==
    LET node == plan[n]
        from == node.left
        all  == Meaning[from]
    IN  CASE node.op = "scan" ->
               IF tables[node.table] = <<>> THEN "one" ELSE "no"
          [] node.op = "project" -> X[from]
          [] node.op = "filter" ->
               IF X[from] = "one" /\ Decides(n, Range(all)) THEN "one" ELSE "no"
          [] node.op = "naive" ->
               IF X[from] = "one" /\ CutsNothing(n) THEN "one" ELSE "no"
          [] node.op = "limit" ->
               IF \/ node.limit = 0
                  \/ X[from] = "one"
                  \/ /\ Repeats[from] /\ node.limit > 0
                     /\ Len(Meaning[from]) >= node.offset + node.limit
               THEN "one"
               ELSE IF X[from] = "many" /\ node.offset = 0 THEN "many" ELSE "no"
          [] OTHER ->                                                \* a product
               IF \/ X[from] = "no" \/ X[node.right] = "no"
                  \/ Meaning[node.right] = <<>> /\ Meaning[from] # <<>>
                  \/ Len(Meaning[n]) # Len(all) * Len(Meaning[node.right])
               THEN "no"
               ELSE IF Len(Meaning[n]) <= BatchSize THEN "one" ELSE "many"
Exact == LET X[n \in Nodes] == ExactOf(X, n) IN X

-----------------------------------------------------------------------------
(* Properties *)

\* The bound on vectors cuts nothing off.
Fits == \A n \in Nodes : Len(Meaning[n]) <= MaxRows

TypeOK ==
    /\ status \in {"new", "running", "done", "failed", "undefined"}
    /\ returning \in BOOLEAN
    /\ stack \in Seq(Nodes)
    /\ ended \subseteq Nodes
    /\ Len(rows) <= MaxRows
    /\ \A n \in Nodes :
         /\ ops[n].side \in {"none", "left", "right", "ready"}
         /\ ops[n].leftIdx \in 0 .. Len(ops[n].left)
         /\ ops[n].rightIdx \in 0 .. Len(ops[n].right)
         /\ Len(ops[n].out) <= BatchSize
         /\ ops[n].skipped <= plan[n].offset
         /\ ops[n].returned <= plan[n].limit \/ ops[n].returned = 0

\* A query the pull loop serves exactly, whose columns are those the schema of
\* the leftmost table has at the same place and whose predicates compare values
\* of one type, gets the rows SQL gives it, in order, each once, through any
\* nesting of operators and batch sizes.
AnswersExact ==
    status \in {"done", "undefined"} /\ ProjectsRight /\ Exact[1] # "no" /\ Fits =>
        status = "done" /\ rows = Meaning[1]

\* A query whose scans of non-empty tables are all below a LIMIT comes to its
\* end, with rows, an error or undefined.
EndingPlansEnd == Ends => <>(status \in {"done", "failed", "undefined"})

\* However a query is cut, repeated or never ended, through any nesting of
\* operators and batches, each row it has collected is one that SQL could give:
\* it passes every WHERE below it and puts together rows of the right tables.
OnlyMeantRows ==
    Linkable /\ ProjectsRight /\ ConditionsRight => Range(rows) \subseteq Possible[1]

\* No operator is pulled from again after it returned an empty batch.
NoPullAfterEnd == stack # <<>> => Top \notin ended

\* Every SELECT comes to its end: REPORT.md has the executor run simple
\* queries through the operator pipeline.
SelectsEnd == <>(status \in {"done", "failed", "undefined"})
=============================================================================
