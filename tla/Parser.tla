------------------------------- MODULE Parser -------------------------------
(***************************************************************************)
(* The SQL compiler, src/src/sql-compiler: the recursive descent parser    *)
(* (Parser.cpp) that turns the tokens of Lexer into a relational algebra   *)
(* tree, and compile_sql, which runs the two.                              *)
(*                                                                         *)
(* A parsing function takes the position of the next token and returns the *)
(* position after what it read with the tree; position 0 is an exception,  *)
(* which nothing recovers from: every check at position 0 is false, so it  *)
(* is handed up by itself.                                                 *)
(***************************************************************************)
EXTENDS SqlText, SqlTree

CONSTANTS
    Queries,        \* the statements that are compiled
    StatementText(_), \* the lexemes of a statement
    WholeStyles(_), \* the ways a statement is written as a whole
    CutStyles(_)    \* and those in which its text is cut off before its end

Ended(lexemes) == Append(lexemes, Word(";"))

ASSUME QueriesAssumption ==
    \A q \in Queries :
        /\ StatementText(q) \in Seq(Lexemes)
        /\ \A l \in Range(Ended(StatementText(q))) : WellSpelt(l)
        /\ \A style \in WholeStyles(q) \cup CutStyles(q) : IsStyle(style)

VARIABLES
    query,      \* the statement the query string was written from
    cut,        \* BOOLEAN: is its text cut off
    tokens,     \* Parser.tokens_
    result,     \* the tree parse() returned and the position it stopped at
    stage       \* "text", "tokens", "done" or "failed" (an exception)

vars == <<query, cut, tokens, result, stage>>

-----------------------------------------------------------------------------
(* Reading tokens *)

Read(at, tree) == [at |-> at, tree |-> tree]
Throw          == Read(0, None)

Value(i)     == IF i \in DOMAIN tokens THEN tokens[i].value ELSE ""
Has(i, v)    == i \in DOMAIN tokens /\ tokens[i].value = v
HasType(i, t) == i \in DOMAIN tokens /\ tokens[i].type = t

Match(i, v)   == IF Has(i, v) THEN i + 1 ELSE i

\* Faulty variant: the token is taken whatever it is.
ConsumeAny(i, v) == IF i = 0 THEN 0 ELSE i + 1

Consume(i, v) == IF Has(i, v) THEN i + 1 ELSE 0
Take(i, t)    == IF HasType(i, t) THEN Read(i + 1, Leaf(t, Value(i))) ELSE Throw

\* AS and a name, or a name alone unless it is one of those listed (a quoted
\* identifier can spell a keyword).
Alias(i, listed) ==
    IF Has(i, "AS") THEN Take(i + 1, "IDENTIFIER")
    ELSE IF HasType(i, "IDENTIFIER") /\ Value(i) \notin listed THEN Take(i, "IDENTIFIER")
    ELSE Read(i, None)

\* What is nested, and the rest of a loop, is read further on: a parsing function
\* gets what the functions read at the positions after its own, Q[position][kind].
Call(Q, kind, i) == IF i = 0 THEN Throw ELSE Q[i][kind]

\* do ... while (match(",")), from the first element.
Items(Q, kind, first) ==
    LET more == Call(Q, kind, first.at + 1)
    IN  IF Has(first.at, ",") THEN Read(more.at, Node(kind, <<first.tree>> \o more.tree.kids))
        ELSE Read(first.at, Node(kind, <<first.tree>>))

InBrackets(r) == Read(Consume(r.at, ")"), r.tree)

-----------------------------------------------------------------------------
(* Expressions *)

\* The levels of binary operators: what reads their operands, and their loop.
LevelOps == [expression |-> {"OR"}, and |-> {"AND"}, add |-> {"+", "-", "||"}, mul |-> {"*", "/", "%"}]
Operand  == [expression |-> "and", and |-> "not", add |-> "mul", mul |-> "unary"]
Loop     == [expression |-> "ors", and |-> "ands", add |-> "adds", mul |-> "muls"]

IsOp(level, i) ==
    /\ Value(i) \in LevelOps[level]
    /\ level \in {"add", "mul"} => HasType(i, "OPERATOR")

\* The loop: each operator with its right operand.
Chain(Q, level, i) ==
    LET right == Call(Q, Operand[level], i + 1)
        more  == Call(Q, Loop[level], right.at)
    IN  IF ~IsOp(level, i) THEN Read(i, None)
        ELSE Read(more.at, Node("more", <<Tree("operand", Value(i), <<right.tree>>)>> \o more.tree.kids))

\* Faulty variant: operators group to the right.
LevelToTheRight(Q, level, left) ==
    LET more == Call(Q, Loop[level], left.at)
        all  == <<Node("more", <<left.tree>>)>> \o more.tree.kids
    IN  Read(more.at, FoldRight(LAMBDA n, right : Binary(all[n + 1].label, all[n].kids[1], right),
                                [n \in 1 .. Len(all) - 1 |-> n], Last(all).kids[1]))

\* A level, from its first operand.
Level(Q, level, left) ==
    LET more == Call(Q, Loop[level], left.at)
    IN  Read(more.at, FoldLeft(LAMBDA all, next : Binary(next.label, all, next.kids[1]),
                               left.tree, more.tree.kids))

Prefixed(op, r) == Read(r.at, Unary(op, r.tree))

\* Faulty variant: the bounds are read as whole expressions, AND included.
BetweenReadsAnd(Q, left) ==
    LET low  == Call(Q, "expression", Match(left.at, "NOT") + 1)
        high == Call(Q, "expression", Consume(low.at, "AND"))
        both == Binary("AND", Binary(">=", left.tree, low.tree), Binary("<=", left.tree, high.tree))
    IN  Read(high.at, IF Has(left.at, "NOT") THEN Unary("NOT", both) ELSE both)

Between(Q, left) ==
    LET low  == Call(Q, "add", Match(left.at, "NOT") + 1)
        high == Call(Q, "add", Consume(low.at, "AND"))
        both == Binary("AND", Binary(">=", left.tree, low.tree), Binary("<=", left.tree, high.tree))
    IN  Read(high.at, IF Has(left.at, "NOT") THEN Unary("NOT", both) ELSE both)

\* A subquery is read and dropped.
In(Q, left) ==
    LET at   == Consume(Match(left.at, "NOT") + 1, "(")
        list == InBrackets(IF Has(at, "SELECT") THEN Read(Call(Q, "select", at).at, None)
                           ELSE Call(Q, "expressions", at))
        in   == Node("in", <<left.tree>> \o list.tree.kids)
    IN  Read(list.at, IF Has(left.at, "NOT") THEN Unary("NOT", in) ELSE in)

ComparisonOps == {"=", "<>", "!=", "<", "<=", ">", ">="}

\* What follows the left operand.  Comparisons do not chain, and NOT LIKE is
\* not one of them.
Comparison(Q, left) ==
    LET at    == left.at
        null  == Match(at + 1, "NOT")
        right == Call(Q, "add", at + 1)
    IN  IF Has(Match(at, "NOT"), "IN") THEN In(Q, left)
        ELSE IF Has(Match(at, "NOT"), "BETWEEN") THEN Between(Q, left)
        ELSE IF Has(at, "IS")
        THEN Read(Consume(null, "NULL"),
                  Unary(IF null = at + 1 THEN "IS NULL" ELSE "IS NOT NULL", left.tree))
        ELSE IF Has(at, "LIKE") \/ (HasType(at, "OPERATOR") /\ Value(at) \in ComparisonOps)
        THEN Read(right.at, Binary(IF Value(at) = "!=" THEN "<>" ELSE Value(at), left.tree, right.tree))
        ELSE left

ColumnOrFunction(Q, i) ==
    LET args == InBrackets(Call(Q, "expressions", Match(i + 2, "DISTINCT")))
    IN
    IF ~HasType(i, "IDENTIFIER") THEN Throw
    ELSE IF Has(i + 1, "(")
    THEN IF Value(i) = "COUNT" /\ Has(i + 2, "*")
         THEN InBrackets(Read(i + 3, Tree("call", "COUNT", <<Leaf("column", "*")>>)))
         ELSE IF Has(i + 2, ")") THEN Read(i + 3, Leaf("call", Value(i)))
         ELSE Read(args.at, Tree("call", Value(i), args.tree.kids))
    ELSE IF Has(i + 1, ".")
    THEN IF Has(i + 2, "*") \/ HasType(i + 2, "IDENTIFIER")
         THEN Read(i + 3, Tree("column", Value(i + 2), <<Leaf("table", Value(i))>>))
         ELSE Throw
    ELSE Read(i + 1, Leaf("column", Value(i)))

\* The WHEN arms, ELSE and END; the operand of CASE is read and dropped.
Arms(Q, i) ==
    LET when == Call(Q, "expression", i + 1)
        then == Call(Q, "expression", Consume(when.at, "THEN"))
        more == Call(Q, "arms", then.at)
        else == Call(Q, "expression", i + 1)
    IN  IF Has(i, "WHEN") THEN Read(more.at, Node("case", <<when.tree, then.tree>> \o more.tree.kids))
        ELSE IF Has(i, "ELSE") THEN Read(Consume(else.at, "END"), Node("case", <<else.tree>>))
        ELSE Read(Consume(i, "END"), Leaf("case", ""))
Case(Q, i) == Call(Q, "arms", IF Has(i, "WHEN") THEN i ELSE Call(Q, "expression", i).at)

\* A string literal that spells (, NULL, TRUE or FALSE is taken for it.
Primary(Q, i) ==
    LET nested(j) == InBrackets(Call(Q, "select", j)).at
    IN
    IF Has(i, "(") THEN IF Has(i + 1, "SELECT") THEN Read(nested(i + 1), Leaf("subquery", ""))
                        ELSE InBrackets(Call(Q, "expression", i + 1))
    ELSE IF Has(i, "NULL") THEN Read(i + 1, Leaf("null", "NULL"))
    ELSE IF Value(i) \in {"TRUE", "FALSE"} THEN Read(i + 1, Leaf("bool", Value(i)))
    ELSE IF HasType(i, "NUMBER") THEN Read(i + 1, Leaf("number", Value(i)))
    ELSE IF HasType(i, "STRING") THEN Read(i + 1, Leaf("string", Value(i)))
    ELSE IF Has(i, "CASE") THEN Case(Q, i + 1)
    ELSE IF Has(i, "EXISTS") THEN Read(nested(Consume(i + 1, "(")), Leaf("exists", ""))
    ELSE ColumnOrFunction(Q, i)

\* From the tightest level to OR.
Signed(Q, i) ==
    IF HasType(i, "OPERATOR") /\ Value(i) \in {"-", "+"}
    THEN Prefixed(Value(i), Call(Q, "unary", i + 1)) ELSE Primary(Q, i)
Product(Q, i)  == Level(Q, "mul", Signed(Q, i))
Sum(Q, i)      == Level(Q, "add", Product(Q, i))
Negation(Q, i) == IF Has(i, "NOT") THEN Prefixed("NOT", Call(Q, "not", i + 1))
                  ELSE Comparison(Q, Sum(Q, i))
Conjunction(Q, i) == Level(Q, "and", Negation(Q, i))
Expression(Q, i)  == Level(Q, "expression", Conjunction(Q, i))

-----------------------------------------------------------------------------
(* SELECT *)

SelectItem(Q, i) ==
    LET expr  == Expression(Q, i)
        alias == Alias(expr.at, {"FROM", ","})
    IN  IF Has(i, "*") THEN Read(i + 1, None)
        ELSE Read(alias.at, Tree("item", alias.tree.label, <<expr.tree>>))

\* The items, labelled "*" if there is a star; one before FROM or a comma is no
\* projection of its own.
SelectClause(Q, i) ==
    LET first == Has(i, "*") /\ Value(i + 1) \in {"FROM", ","}
        items == Call(Q, "items", IF first THEN i + 2 ELSE i)
        all   == first \/ None \in Range(items.tree.kids)
    IN  IF first /\ ~Has(i + 1, ",") THEN Read(i + 1, Leaf("items", "*"))
        ELSE Read(items.at, Tree("items", IF all THEN "*" ELSE "", items.tree.kids))

TableReference(Q, i) ==
    LET nested == InBrackets(Call(Q, "select", i + 1))
        named == Alias(nested.at, {})
        name  == Take(i, "IDENTIFIER")
        alias == Alias(name.at, {"JOIN", "INNER", "LEFT", "RIGHT", "FULL", "CROSS", "NATURAL",
                                 "ON", "WHERE", "GROUP", "ORDER", "LIMIT", ",", ";"})
    IN  IF Has(i, "(")
        THEN IF ~Has(i + 1, "SELECT") THEN InBrackets(Call(Q, "reference", i + 1))
             ELSE IF named.tree.label = "" THEN Read(named.at, nested.tree)
             ELSE Read(named.at, Node("RENAME", <<nested.tree, Leaf("alias", named.tree.label)>>))
        ELSE Read(alias.at, Tree("TABLE_SCAN", name.tree.label,
                                 <<Leaf("alias", IF alias.tree.label = "" THEN name.tree.label
                                                 ELSE alias.tree.label)>>))

\* USING (a, b) becomes a = a AND b = b, without tables.
UsingCondition(columns) ==
    FoldLeft(LAMBDA acc, c :
                 LET eq == Binary("=", Leaf("column", c.label), Leaf("column", c.label))
                 IN  IF acc = None THEN eq ELSE Binary("AND", acc, eq),
             None, columns)

JoinTypes == [CROSS |-> "CROSS_PRODUCT", LEFT |-> "LEFT_JOIN", RIGHT |-> "RIGHT_JOIN",
              FULL |-> "FULL_JOIN", INNER |-> "INNER_JOIN"]

\* The condition of a join: ON, USING, or none (CROSS and NATURAL never have one).
Condition(Q, i, conditional) ==
    LET using == InBrackets(Call(Q, "names", Consume(i + 1, "(")))
    IN  IF conditional /\ Has(i, "ON") THEN Call(Q, "expression", i + 1)
        ELSE IF conditional /\ Has(i, "USING") THEN Read(using.at, UsingCondition(using.tree.kids))
        ELSE Read(i, None)

\* The type of a join that starts at i, from what follows NATURAL.
JoinType(i, typed) ==
    IF Has(i, ",") THEN "CROSS_PRODUCT"
    ELSE IF Value(typed) \in DOMAIN JoinTypes THEN JoinTypes[Value(typed)] ELSE "INNER_JOIN"

\* Where its right operand is read.
JoinOperand(i, typed) ==
    LET outer == IF Value(typed) \in DOMAIN JoinTypes THEN typed + 1 ELSE typed
        join  == IF JoinType(i, typed) \in {"LEFT_JOIN", "RIGHT_JOIN", "FULL_JOIN"}
                 THEN Match(outer, "OUTER") ELSE outer
    IN  IF Has(i, ",") THEN i + 1 ELSE Consume(join, "JOIN")

\* The loop of parse_from_clause: each join without its left operand.
Joins(Q, i) ==
    LET typed == Match(i, "NATURAL")
        type  == JoinType(i, typed)
        right == Call(Q, "reference", JoinOperand(i, typed))
        cond  == Condition(Q, right.at, type # "CROSS_PRODUCT" /\ typed = i)
        more  == Call(Q, "joins", cond.at)
    IN  IF Value(i) \in DOMAIN JoinTypes \cup {"JOIN", "NATURAL", ","}
        THEN Read(more.at, Node("more",
                 <<Node(type, <<right.tree>> \o (IF cond.tree = None THEN <<>> ELSE <<cond.tree>>))>>
                   \o more.tree.kids))
        ELSE Read(i, None)

\* What is read so far is the left operand of the next join.
FromClause(Q, i) ==
    LET first == Call(Q, "reference", i)
        more  == Call(Q, "joins", first.at)
    IN  Read(more.at, FoldLeft(LAMBDA left, join : Node(join.kind, <<left>> \o join.kids),
                               first.tree, more.tree.kids))

SortItem(i) ==
    LET first == Take(i, "IDENTIFIER")
        second == Take(first.at + 1, "IDENTIFIER")
        name  == IF Has(first.at, ".") THEN second ELSE first
        nulls == IF Value(name.at) \in {"ASC", "DESC"} THEN name.at + 1 ELSE name.at
        last  == Match(nulls, "NULLS")
        end   == IF last # nulls /\ Value(last) \in {"FIRST", "LAST"} THEN last + 1 ELSE last
    IN  Read(end, Tree("sort", name.tree.label,
                <<Leaf("table", IF name = first THEN "" ELSE first.tree.label),
                  Leaf("direction", IF Has(name.at, "DESC") THEN "DESC" ELSE "ASC"),
                  Leaf("nulls", IF end # last /\ Has(last, "FIRST") THEN "FIRST" ELSE "LAST")>>))

\* Faulty variant: OFFSET is only read after LIMIT.
LimitClauseNeedsLimit(i) ==
    LET first  == Take(i + 1, "NUMBER")
        second == Take(first.at + 1, "NUMBER")
        comma  == Has(i, "LIMIT") /\ Has(first.at, ",")
        limit  == IF comma THEN second ELSE first
        after  == limit.at
        skip   == IF Has(after, "OFFSET") THEN Take(after + 1, "NUMBER") ELSE Read(after, first.tree)
    IN  IF ~Has(i, "LIMIT") THEN [at |-> i, limit |-> "-1", offset |-> "0"]
        ELSE [at |-> skip.at, limit |-> limit.tree.label,
              offset |-> IF comma \/ Has(after, "OFFSET") THEN skip.tree.label ELSE "0"]

\* LIMIT n, LIMIT m , n (m is the offset), and OFFSET m after either or alone.
LimitClause(i) ==
    LET first  == Take(i + 1, "NUMBER")
        second == Take(first.at + 1, "NUMBER")
        comma  == Has(i, "LIMIT") /\ Has(first.at, ",")
        limit  == IF ~Has(i, "LIMIT") THEN Read(i, Leaf("NUMBER", "-1"))
                  ELSE IF comma THEN second ELSE first
        after  == limit.at
        skip   == IF Has(after, "OFFSET") THEN Take(after + 1, "NUMBER") ELSE Read(after, first.tree)
    IN  [at |-> skip.at, limit |-> limit.tree.label,
         offset |-> IF comma \/ Has(after, "OFFSET") THEN skip.tree.label ELSE "0"]

\* GROUP BY or ORDER BY and a list, or nothing.
Clause(Q, kind, word, i) ==
    IF Has(i, word) THEN Call(Q, kind, Consume(i + 1, "BY")) ELSE Read(i, None)

\* WHERE or HAVING and a condition, or nothing.
Where(Q, word, i) ==
    IF Has(i, word) THEN Call(Q, "expression", i + 1) ELSE Read(i, None)

\* The plan of the clauses that were read.
SelectPlan(select, from, where, group, having, order, limit, unique) ==
    LET selected == Over(where # None, "SELECT_OP", from, <<where>>)
        grouped  == Over(group.kids # <<>>, "GROUP_BY", selected,
                         <<Node("group", group.kids),
                           Node("having", IF having = None THEN <<>> ELSE <<having>>)>>)
        projected == Tree("PROJECT", select.label, <<grouped>> \o select.kids)
        sorted   == Over(order.kids # <<>>, "SORT",
                         Over(unique, "DISTINCT", projected, <<>>), order.kids)
    IN  Over(limit.limit # "-1" \/ limit.offset # "0", "LIMIT_OP", sorted,
             <<Leaf("number", limit.limit), Leaf("number", limit.offset)>>)

SelectStatement(Q, i) ==
    LET quantified == Consume(i, "SELECT")
        start    == IF Value(quantified) \in {"DISTINCT", "ALL"} THEN quantified + 1 ELSE quantified
        select   == SelectClause(Q, start)
        from     == FromClause(Q, Consume(select.at, "FROM"))
        where    == Where(Q, "WHERE", from.at)
        group    == Clause(Q, "expressions", "GROUP", where.at)
        having   == Where(Q, "HAVING", group.at)
        order    == Clause(Q, "sorts", "ORDER", having.at)
        limit    == LimitClause(order.at)
    IN  Read(limit.at, SelectPlan(select.tree, from.tree, where.tree, group.tree, having.tree,
                                  order.tree, limit, Has(quantified, "DISTINCT")))

-----------------------------------------------------------------------------
(* The other statements *)

RowItem(Q, i) ==
    LET values == InBrackets(Call(Q, "expressions", Consume(i, "(")))
    IN  Read(values.at, Node("row", values.tree.kids))
Assignment(Q, i) ==
    LET column == Take(i, "IDENTIFIER")
        value  == Call(Q, "expression", Consume(column.at, "="))
    IN  Read(value.at, Tree("assign", column.tree.label, <<value.tree>>))

\* The column constraints: what each one sets.
Constraints(Q, i) ==
    LET value  == Call(Q, "expression", i + 1)
        check  == InBrackets(Call(Q, "expression", Consume(i + 1, "(")))
        set    == IF Has(i, "NOT") THEN Read(Consume(i + 1, "NULL"), Leaf("nullable", "FALSE"))
                  ELSE IF Has(i, "NULL") THEN Read(i + 1, Leaf("nullable", "TRUE"))
                  ELSE IF Has(i, "PRIMARY") THEN Read(Consume(i + 1, "KEY"), Leaf("key", "TRUE"))
                  ELSE IF Has(i, "DEFAULT") THEN Read(value.at, Node("default", <<value.tree>>))
                  ELSE IF Has(i, "UNIQUE") THEN Read(i + 1, None)
                  ELSE Read(check.at, None)
        more   == Call(Q, "constraints", set.at)
    IN  IF Value(i) \in {"NOT", "NULL", "PRIMARY", "DEFAULT", "UNIQUE", "CHECK"}
        THEN Read(more.at, Node("more", <<set.tree>> \o more.tree.kids))
        ELSE Read(i, None)

\* Type parameters are skipped up to the bracket that closes them or a ";".
ColumnDef(Q, i) ==
    LET name  == Take(i, "IDENTIFIER")
        type  == Take(name.at, "IDENTIFIER")
        stops == {j \in DOMAIN tokens : j > type.at /\ Value(j) \in {")", ";"}}
        stop  == IF stops = {} THEN Len(tokens) + 1 ELSE Min(stops)
        end   == IF Has(type.at, "(") THEN Consume(stop, ")") ELSE type.at
        sets  == Call(Q, "constraints", end)
    IN  Read(sets.at, FoldLeft(LAMBDA def, set :
                 CASE set.kind = "nullable" -> [def EXCEPT !.kids[2] = set]
                   [] set.kind = "key" -> [def EXCEPT !.kids[2] = Leaf("nullable", "FALSE"), !.kids[3] = set]
                   [] set.kind = "default" -> [def EXCEPT !.kids[4] = set]
                   [] OTHER -> def,
             Tree("column", name.tree.label,
                  <<Leaf("type", type.tree.label), Leaf("nullable", "TRUE"),
                    Leaf("key", "FALSE"), Leaf("default", "")>>),
             sets.tree.kids))

InsertStatement(Q, i) ==
    LET name    == Take(Consume(i + 1, "INTO"), "IDENTIFIER")
        columns == IF Has(name.at, "(") THEN InBrackets(Call(Q, "names", name.at + 1))
                   ELSE Read(name.at, Leaf("names", ""))
        rows    == Call(Q, "rows", Consume(columns.at, "VALUES"))
    IN  Read(rows.at, Tree("INSERT_OP", name.tree.label, <<columns.tree, rows.tree>>))

UpdateStatement(Q, i) ==
    LET name  == Take(i + 1, "IDENTIFIER")
        set   == Call(Q, "sets", Consume(name.at, "SET"))
        where == Where(Q, "WHERE", set.at)
    IN  Read(where.at, Tree("UPDATE_OP", name.tree.label, <<set.tree, where.tree>>))

DeleteStatement(Q, i) ==
    LET name  == Take(Consume(i + 1, "FROM"), "IDENTIFIER")
        where == Where(Q, "WHERE", name.at)
    IN  Read(where.at, Tree("DELETE_OP", name.tree.label, <<where.tree>>))

CreateStatement(Q, i) ==
    LET name    == Take(Consume(i + 1, "TABLE"), "IDENTIFIER")
        columns == InBrackets(Call(Q, "columns", Consume(name.at, "(")))
    IN  Read(columns.at, Tree("CREATE_TABLE_OP", name.tree.label, <<columns.tree>>))

DropStatement(i) ==
    LET name == Take(Consume(i + 1, "TABLE"), "IDENTIFIER")
    IN  Read(name.at, Leaf("DROP_TABLE_OP", name.tree.label))

Statement(Q, i) ==
    CASE Has(i, "SELECT") -> SelectStatement(Q, i)
      [] Has(i, "INSERT") -> InsertStatement(Q, i)
      [] Has(i, "UPDATE") -> UpdateStatement(Q, i)
      [] Has(i, "DELETE") -> DeleteStatement(Q, i)
      [] Has(i, "CREATE") -> CreateStatement(Q, i)
      [] Has(i, "DROP")   -> DropStatement(i)
      [] OTHER            -> Throw

Kinds == {"select", "reference", "joins", "expression", "and", "not", "add", "mul", "unary",
          "ors", "ands", "adds", "muls", "arms", "constraints",
          "expressions", "items", "names", "sorts", "rows", "sets", "columns"}

\* What a parsing function, a loop or a list reads at a position.
Reading(Q, kind, i) ==
    CASE kind = "select"      -> SelectStatement(Q, i)
      [] kind = "reference"   -> TableReference(Q, i)
      [] kind = "joins"       -> Joins(Q, i)
      [] kind = "expression"  -> Expression(Q, i)
      [] kind = "and"         -> Conjunction(Q, i)
      [] kind = "not"         -> Negation(Q, i)
      [] kind = "add"         -> Sum(Q, i)
      [] kind = "mul"         -> Product(Q, i)
      [] kind = "unary"       -> Signed(Q, i)
      [] kind = "ors"         -> Chain(Q, "expression", i)
      [] kind = "ands"        -> Chain(Q, "and", i)
      [] kind = "adds"        -> Chain(Q, "add", i)
      [] kind = "muls"        -> Chain(Q, "mul", i)
      [] kind = "arms"        -> Arms(Q, i)
      [] kind = "constraints" -> Constraints(Q, i)
      [] kind = "expressions" -> Items(Q, kind, Expression(Q, i))
      [] kind = "items"       -> Items(Q, kind, SelectItem(Q, i))
      [] kind = "names"       -> Items(Q, kind, Take(i, "IDENTIFIER"))
      [] kind = "sorts"       -> Items(Q, kind, SortItem(i))
      [] kind = "rows"        -> Items(Q, kind, RowItem(Q, i))
      [] kind = "sets"        -> Items(Q, kind, Assignment(Q, i))
      [] OTHER                -> Items(Q, kind, ColumnDef(Q, i))

\* That, at every position; all calls go forward.
Parsed ==
    LET P[i \in 1 .. Len(tokens) + 1] ==
            [kind \in Kinds |-> Reading([j \in i + 1 .. Len(tokens) + 1 |-> P[j]], kind, i)]
    IN  P

-----------------------------------------------------------------------------
(* compile_sql *)

Init ==
    /\ query \in Queries
    /\ cut = FALSE
    /\ tokens = <<>>
    /\ result = Throw
    /\ stage = "text"

\* tokenize_query throws, and compile_sql with it, at an unexpected character.
TokenizeQuery ==
    /\ stage = "text"
    /\ \/ /\ cut' = FALSE
          /\ \E style \in WholeStyles(query) :
               tokens' = Tokenized(TextOf(Ended(StatementText(query)), style))
       \/ /\ cut' = TRUE
          /\ \E style \in CutStyles(query) :
               LET text == TextOf(StatementText(query), style)
               IN  \E n \in 0 .. Len(text) - 1 : tokens' = Tokenized(SubSeq(text, 1, n))
    /\ stage' = IF Unexpected \in Range(tokens') THEN "failed" ELSE "tokens"
    /\ UNCHANGED <<query, result>>

Parse ==
    /\ stage = "tokens"
    /\ result' = Statement(Parsed, 1)
    /\ stage' = IF result'.at = 0 THEN "failed" ELSE "done"
    /\ UNCHANGED <<query, cut, tokens>>

Next == TokenizeQuery \/ Parse

Spec == Init /\ [][Next]_vars

-----------------------------------------------------------------------------
(* Properties *)

TypeOK ==
    /\ stage \in {"text", "tokens", "done", "failed"}
    /\ result.at \in 0 .. Len(tokens) + 1
    /\ stage = "done" => result.at > 0

\* The tokens of a text are those of SQL, however it is written; those of a text
\* that is cut off are the ones before the cut, and one more that the cut is in.
\* Strings in small letters are left out: the lexer puts them in capitals.
TokensRight ==
    LET lexemes == Ended(StatementText(query))
        right   == [i \in DOMAIN lexemes |-> TokenOf(lexemes[i])]
        capitals == \A l \in Range(lexemes) :
                        l.quote # "" => Range(Characters(l.text)) \cap DOMAIN Capitals = {}
    IN  stage # "text" /\ capitals =>
            IF cut THEN tokens = <<>> \/ IsPrefix(Front(tokens), right)
            ELSE tokens = right
=============================================================================
