-------------------------------- MODULE Sql --------------------------------
(***************************************************************************)
(* The queries the parser is checked on: source trees, how they are        *)
(* written, and which relational algebra they stand for.  This is the      *)
(* reference, not a translation of code, and the properties compare the    *)
(* parser with it.                                                         *)
(*                                                                         *)
(* Source queries are trees of the same shape as the parser's, and a text  *)
(* is a sequence of lexemes.                                               *)
(***************************************************************************)
EXTENDS Parser

Words(vs) == [i \in DOMAIN vs |-> Word(vs[i])]

Commas(texts) ==
    FoldLeft(LAMBDA acc, t : IF acc = <<>> THEN t ELSE acc \o <<Word(",")>> \o t,
             <<>>, texts)
InParens(text) == <<Word("(")>> \o text \o <<Word(")")>>
Optional(v, word) == IF v = "" THEN <<>> ELSE Words(<<word, v>>)

-----------------------------------------------------------------------------
(* Expressions *)

\* How tightly an expression binds: OR, AND, NOT, comparisons, sums, products,
\* signs, the rest.
Binding(e) ==
    CASE e.kind = "binary" ->
           (CASE e.label = "OR"             -> 1
              [] e.label = "AND"            -> 2
              [] e.label \in {"=", "<>", "<", "<=", ">", ">=", "LIKE"} -> 4
              [] e.label \in {"+", "-", "||"} -> 5
              [] OTHER                      -> 6)
      [] e.kind = "unary" ->
           (CASE e.label = "NOT"            -> 3
              [] e.label \in {"+", "-"}     -> 7
              [] OTHER                      -> 4)
      [] e.kind \in {"between", "in", "not like"} -> 4
      [] OTHER                              -> 8

\* A query is written with the parentheses it needs and no others.
RECURSIVE Text(_, _), Written(_), SelectText(_), RefText(_)
Text(e, least) == IF Binding(e) < least THEN InParens(Written(e)) ELSE Written(e)

Texts(es) == [i \in DOMAIN es |-> Text(es[i], 1)]

Written(e) ==
    LET arg(i, least) == Text(e.kids[i], least)
        tail == Commas(Texts(Tail(e.kids)))
    IN
    CASE e.kind = "string"  -> <<Quoted(e.label)>>
      [] e.kind = "named"   -> <<Named(e.label)>>
      [] e.kind = "column" /\ e.kids # <<>> ->
           Words(<<e.kids[1].label, ".", e.label>>)
      [] e.kind = "binary" ->
           LET b == Binding(e)
           IN  arg(1, IF b = 4 THEN 5 ELSE b) \o <<Word(e.label)>> \o arg(2, b + 1)
      [] e.kind = "unary" /\ e.label \in {"NOT", "+", "-"} ->
           <<Word(e.label)>> \o arg(1, Binding(e))
      [] e.kind = "unary" ->
           arg(1, 5) \o Words(IF e.label = "IS NULL" THEN <<"IS", "NULL">>
                              ELSE <<"IS", "NOT", "NULL">>)
      [] e.kind = "between" ->
           arg(1, 5) \o Words(IF e.label = "NOT" THEN <<"NOT", "BETWEEN">> ELSE <<"BETWEEN">>)
             \o arg(2, 5) \o <<Word("AND")>> \o arg(3, 5)
      [] e.kind = "in" ->
           arg(1, 5) \o Words(IF e.label = "NOT" THEN <<"NOT", "IN">> ELSE <<"IN">>)
             \o InParens(tail)
      [] e.kind = "not like" -> arg(1, 5) \o Words(<<"NOT", "LIKE">>) \o arg(2, 5)
      [] e.kind = "call" -> <<Word(e.label)>> \o InParens(Commas(Texts(e.kids)))
      [] e.kind = "case" ->            \* CASE WHEN kids[1] THEN kids[2] ELSE kids[3] END
           Words(<<"CASE", "WHEN">>) \o arg(1, 1) \o <<Word("THEN")>> \o arg(2, 1)
             \o <<Word("ELSE")>> \o arg(3, 1) \o <<Word("END")>>
      [] e.kind = "case of" ->         \* CASE kids[1] WHEN kids[2] THEN kids[3] END
           <<Word("CASE")>> \o arg(1, 1) \o <<Word("WHEN")>> \o arg(2, 1)
             \o <<Word("THEN")>> \o arg(3, 1) \o <<Word("END")>>
      [] e.kind = "subquery" -> InParens(SelectText(e.kids[1]))
      [] e.kind = "exists"   -> <<Word("EXISTS")>> \o InParens(SelectText(e.kids[1]))
      [] OTHER -> <<Word(e.label)>>

RECURSIVE Meaning(_)
Meaning(e) ==
    LET kids == [i \in DOMAIN e.kids |-> Meaning(e.kids[i])]
        negated(t) == IF e.label = "NOT" THEN Unary("NOT", t) ELSE t
    IN
    CASE e.kind = "between" ->
           negated(Binary("AND", Binary(">=", kids[1], kids[2]),
                                 Binary("<=", kids[1], kids[3])))
      [] e.kind = "in" -> negated(Node("in", kids))
      [] e.kind = "named" -> Leaf("column", e.label)
      [] e.kind = "not like" -> Unary("NOT", Binary("LIKE", kids[1], kids[2]))
      [] OTHER -> Tree(e.kind, e.label, kids)

-----------------------------------------------------------------------------
(* SELECT: the children are the select list, the table reference, WHERE,   *)
(* GROUP BY, HAVING, ORDER BY and LIMIT, each a tree without children when *)
(* it is left out; LIMIT has the two numbers, "-1" and "0" when left out.  *)

SelectTree(quantifier, items, from, where, group, having, order, limit) ==
    Tree("query", quantifier,
         <<Node("items", items), from, Node("where", where),
           Node("group", group), Node("having", having),
           Node("order", order), limit>>)

ItemText(item) ==
    IF item.kind = "star" THEN <<Word("*")>>
    ELSE Text(item.kids[1], 1) \o Optional(item.label, "AS")

SortText(s) ==
    <<Word(s.label)>> \o Words(IF s.kids[1].label = "" THEN <<>> ELSE <<s.kids[1].label>>)
      \o Optional(s.kids[2].label, "NULLS")

ClauseText(clause, words) ==
    IF clause.kids = <<>> THEN <<>> ELSE Words(words) \o Commas(Texts(clause.kids))

LimitText(l) ==
    CASE l.label = "limit"  -> Words(<<"LIMIT", l.kids[1].label>>)
      [] l.label = "offset" -> Words(<<"OFFSET", l.kids[2].label>>)
      [] l.label = "both"   -> Words(<<"LIMIT", l.kids[1].label, "OFFSET", l.kids[2].label>>)
      [] l.label = "comma"  -> Words(<<"LIMIT", l.kids[2].label, ",", l.kids[1].label>>)
      [] OTHER -> <<>>

SelectText(q) ==
    <<Word("SELECT")>>
      \o Words(IF q.label = "" THEN <<>> ELSE <<q.label>>)
      \o Commas([i \in DOMAIN q.kids[1].kids |-> ItemText(q.kids[1].kids[i])])
      \o <<Word("FROM")>> \o RefText(q.kids[2])
      \o ClauseText(q.kids[3], <<"WHERE">>)
      \o ClauseText(q.kids[4], <<"GROUP", "BY">>)
      \o ClauseText(q.kids[5], <<"HAVING">>)
      \o (IF q.kids[6].kids = <<>> THEN <<>>
          ELSE Words(<<"ORDER", "BY">>)
                 \o Commas([i \in DOMAIN q.kids[6].kids |-> SortText(q.kids[6].kids[i])]))
      \o LimitText(q.kids[7])

\* A table, a subquery or a join; joins nest to the left.
JoinWords(type) ==
    CASE type = ","     -> <<",">>
      [] type \in {"INNER", "USING"} -> <<"JOIN">>
      [] type = "LEFT"  -> <<"LEFT", "OUTER", "JOIN">>
      [] OTHER          -> <<type, "JOIN">>
RefText(r) ==
    CASE r.kind = "table" -> <<Word(r.label)>> \o Optional(r.kids[1].label, "AS")
      [] r.kind = "nested" -> InParens(SelectText(r.kids[1])) \o Optional(r.label, "AS")
      [] r.kind = "join" ->
           RefText(r.kids[1]) \o Words(JoinWords(r.label)) \o RefText(r.kids[2])
             \o (IF Len(r.kids) = 2 THEN <<>>
                 ELSE IF r.label = "USING" THEN <<Word("USING")>> \o InParens(Written(r.kids[3]))
                 ELSE <<Word("ON")>> \o Text(r.kids[3], 1))

JoinKind(type) ==
    CASE type \in {",", "CROSS"}       -> "CROSS_PRODUCT"
      [] type = "LEFT"                 -> "LEFT_JOIN"
      [] OTHER                         -> "INNER_JOIN"

\* The plan of a SELECT: FROM, WHERE, GROUP BY with HAVING, projection,
\* DISTINCT, ORDER BY and LIMIT, from the inside out.
RECURSIVE Plan(_), RefPlan(_)
Meanings(clause) == Node(clause.kind, [i \in DOMAIN clause.kids |-> Meaning(clause.kids[i])])

ItemPlan(item) ==
    IF item.kind = "star" THEN None ELSE Tree("item", item.label, <<Meaning(item.kids[1])>>)
SortPlan(s) ==
    Tree("sort", s.label,
         <<Leaf("table", ""),
           Leaf("direction", IF s.kids[1].label = "DESC" THEN "DESC" ELSE "ASC"),
           Leaf("nulls", IF s.kids[2].label = "FIRST" THEN "FIRST" ELSE "LAST")>>)

Plan(q) ==
    LET items == q.kids[1].kids
        stars == \E i \in DOMAIN items : items[i].kind = "star"
        shown == IF items[1].kind = "star" THEN Tail(items) ELSE items
        from    == RefPlan(q.kids[2])
        where   == Over(q.kids[3].kids # <<>>, "SELECT_OP", from, Meanings(q.kids[3]).kids)
        group   == Over(q.kids[4].kids # <<>>, "GROUP_BY", where,
                        <<Meanings(q.kids[4]), Meanings(q.kids[5])>>)
        project == Tree("PROJECT", IF stars THEN "*" ELSE "",
                        <<group>> \o [i \in DOMAIN shown |-> ItemPlan(shown[i])])
        unique  == Over(q.label = "DISTINCT", "DISTINCT", project, <<>>)
        sort    == Over(q.kids[6].kids # <<>>, "SORT", unique,
                        [i \in DOMAIN q.kids[6].kids |-> SortPlan(q.kids[6].kids[i])])
        limit   == q.kids[7]
    IN  Over(limit.label # "" /\ (limit.label = "offset" => limit.kids[2].label # "0"),
             "LIMIT_OP", sort, limit.kids)

RefPlan(r) ==
    CASE r.kind = "table" ->
           Tree("TABLE_SCAN", r.label,
                <<Leaf("alias", IF r.kids[1].label = "" THEN r.label ELSE r.kids[1].label)>>)
      [] r.kind = "nested" -> Over(r.label # "", "RENAME", Plan(r.kids[1]), <<Leaf("alias", r.label)>>)
      [] r.kind = "join" ->
           Node(JoinKind(r.label),
                <<RefPlan(r.kids[1]), RefPlan(r.kids[2])>>
                  \o (IF Len(r.kids) = 3 THEN <<Meaning(r.kids[3])>> ELSE <<>>))

-----------------------------------------------------------------------------
(* All statements.  The children of INSERT are column names and rows, of   *)
(* UPDATE assignments and WHERE, of DELETE WHERE, of CREATE TABLE columns: *)
(* each with its type and the words of its constraints, an expression      *)
(* after DEFAULT or in CHECK.                                              *)

Names(t) == [i \in DOMAIN t.kids |-> <<Word(t.kids[i].label)>>]

ConstraintText(c) ==
    CASE c.label = "NOT NULL"    -> Words(<<"NOT", "NULL">>)
      [] c.label = "PRIMARY KEY" -> Words(<<"PRIMARY", "KEY">>)
      [] c.label = "CHECK"       -> <<Word("CHECK")>> \o InParens(Written(c.kids[1]))
      [] c.label = "DEFAULT"     -> <<Word("DEFAULT")>> \o Written(c.kids[1])
      [] c.label = "(2)"         -> Words(<<"(", "2", ")">>)
      [] OTHER                   -> <<Word(c.label)>>
ColumnText(c) ==
    Words(<<c.label, c.kids[1].label>>)
      \o FlattenSeq([i \in DOMAIN c.kids |-> IF i = 1 THEN <<>> ELSE ConstraintText(c.kids[i])])

TextOfStatement(q) ==
    CASE q.kind = "query"  -> SelectText(q)
      [] q.kind = "insert" ->
           Words(<<"INSERT", "INTO", q.label>>)
             \o (IF q.kids[1].kids = <<>> THEN <<>> ELSE InParens(Commas(Names(q.kids[1]))))
             \o <<Word("VALUES")>>
             \o Commas([i \in DOMAIN q.kids[2].kids |-> InParens(Commas(Texts(q.kids[2].kids[i].kids)))])
      [] q.kind = "update" ->
           Words(<<"UPDATE", q.label, "SET">>)
             \o Commas([i \in DOMAIN q.kids[1].kids |->
                          Words(<<q.kids[1].kids[i].label, "=">>) \o Text(q.kids[1].kids[i].kids[1], 1)])
             \o ClauseText(q.kids[2], <<"WHERE">>)
      [] q.kind = "delete" ->
           Words(<<"DELETE", "FROM", q.label>>) \o ClauseText(q.kids[1], <<"WHERE">>)
      [] q.kind = "create" ->
           Words(<<"CREATE", "TABLE", q.label>>)
             \o InParens(Commas([i \in DOMAIN q.kids |-> ColumnText(q.kids[i])]))
      [] q.kind = "drop"   -> Words(<<"DROP", "TABLE", q.label>>)

ColumnPlan(c) ==
    LET words    == {c.kids[i].label : i \in 2 .. Len(c.kids)}
        defaults == SelectSeq(c.kids, LAMBDA k : k.label = "DEFAULT")
        is(b)    == IF b THEN "TRUE" ELSE "FALSE"
    IN  Tree("column", c.label,
             <<Leaf("type", c.kids[1].label),
               Leaf("nullable", is(words \cap {"NOT NULL", "PRIMARY KEY"} = {})),
               Leaf("key", is("PRIMARY KEY" \in words)),
               Node("default", IF defaults = <<>> THEN <<>> ELSE <<Meaning(defaults[1].kids[1])>>)>>)

WherePlan(w) == IF w.kids = <<>> THEN None ELSE Meaning(w.kids[1])

StatementPlan(q) ==
    CASE q.kind = "query"  -> Plan(q)
      [] q.kind = "insert" ->
           Tree("INSERT_OP", q.label, <<q.kids[1], Node("rows",
                [i \in DOMAIN q.kids[2].kids |-> Meanings(q.kids[2].kids[i])])>>)
      [] q.kind = "update" ->
           Tree("UPDATE_OP", q.label, <<Node("sets",
                [i \in DOMAIN q.kids[1].kids |->
                   Tree("assign", q.kids[1].kids[i].label, Meanings(q.kids[1].kids[i]).kids)]),
                WherePlan(q.kids[2])>>)
      [] q.kind = "delete" -> Tree("DELETE_OP", q.label, <<WherePlan(q.kids[1])>>)
      [] q.kind = "create" ->
           Tree("CREATE_TABLE_OP", q.label,
                <<Node("columns", [i \in DOMAIN q.kids |-> ColumnPlan(q.kids[i])])>>)
      [] q.kind = "drop"   -> Leaf("DROP_TABLE_OP", q.label)

-----------------------------------------------------------------------------
(* What the parser is known not to take or not to keep *)

RECURSIVE Uses(_, _)
Uses(t, kinds) ==
    \/ <<t.kind, t.label>> \in kinds \/ <<t.kind, "any">> \in kinds
    \/ \E i \in DOMAIN t.kids : Uses(t.kids[i], kinds)

\* The words the parser looks for where an expression begins, whatever quotes
\* they are in.
Lookalikes == {"(", ")", "*", "NOT", "NULL", "TRUE", "FALSE", "SELECT", "DISTINCT", "WHEN"}
Spells(q) ==
    Uses(q, ({"string", "named"} \X Lookalikes) \cup {<<"named", "CASE">>, <<"named", "EXISTS">>})

\* The star is no operator of the lexer, NOT LIKE none of the parser.
Refused(q) == Spells(q) \/ Uses(q, {<<"binary", "*">>, <<"not like", "any">>})

\* A subquery in an expression, the operand of CASE, NATURAL, the tables of
\* USING, HAVING without GROUP BY: read, and gone from the plan.  A string that
\* spells a word of the parser is that word.
Lossy(q) ==
    \/ Spells(q)
    \/ Uses(q, {<<"subquery", "any">>, <<"exists", "any">>, <<"case of", "any">>,
                    <<"join", "NATURAL">>, <<"join", "USING">>})
    \/ q.kind = "query" /\ q.kids[4].kids = <<>> /\ q.kids[5].kids # <<>>

-----------------------------------------------------------------------------
(* Properties *)

\* The tokens parse() did not look at, up to the end of the statement.
Unread ==
    SelectSeq(SubSeq(tokens, result.at, Len(tokens)), LAMBDA t : t # Token("SYMBOL", ";"))

\* A statement read to its end is taken for what it says: operators bind and
\* group as in SQL, joins nest to the left, the clauses nest in their order.
ReadRight ==
    stage = "done" /\ ~cut /\ Unread = <<>> /\ ~Lossy(query)
      /\ ~Uses(query, {"string", "named"} \X DOMAIN Capitals) =>
        result.tree = StatementPlan(query)

\* A statement in the parser's grammar is accepted, whatever is nested in it.
SupportedAccepted == ~cut /\ ~Refused(query) => stage # "failed"

\* An accepted text, whole or cut off, has no part that the plan silently
\* leaves out, but what follows a product or a NOT that is not IN or BETWEEN, and
\* half of the mark that begins a comment.
NothingLeftOut ==
    stage = "done" /\ ~Spells(query) /\ Unread # <<>> =>
        \/ Head(Unread).value \in {"*", "NOT"}
        \/ cut /\ Len(Unread) = 1 /\ Head(Unread).value \in {"-", "/"}
=============================================================================
