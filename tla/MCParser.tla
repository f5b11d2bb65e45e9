------------------------------ MODULE MCParser ------------------------------
(***************************************************************************)
(* Queries for model checking Parser: every expression of two operators    *)
(* over a few leaves, every combination of clauses, joins of two and three *)
(* tables, the other statements, string literals that look like something  *)
(* else, five ways of writing, and texts cut off at every character.       *)
(***************************************************************************)
EXTENDS Sql

Col(c) == Leaf("column", c)
Num(n) == Leaf("number", n)
A == Col("A")
Query(items, from, where) ==
    SelectTree("", items, from, where, <<>>, <<>>, <<>>,
               Tree("", "", <<Num("-1"), Num("0")>>))
T0 == Tree("table", "T", <<Leaf("alias", "")>>)
U0 == Tree("table", "U", <<Leaf("alias", "V")>>)
Just(e)  == Tree("as", "", <<e>>)
Sub      == Query(<<Just(A)>>, T0, <<>>)

MCDigits   == {"0", "1", "2"}
MCCapitals == ("s" :> "S") @@ ("select" :> "SELECT") @@ ("a" :> "A") @@ ("insert" :> "INSERT")
Leaves    == {A, Num("1")}

\* Every expression of one operator over x and y.
Apply(x, y) ==
    {Binary(op, x, y) : op \in {"OR", "AND", "=", "LIKE", "+", "-", "||", "/", "*"}}
      \cup {Unary(op, x) : op \in {"NOT", "-", "IS NULL", "IS NOT NULL"}}
      \cup {Tree("between", n, <<x, y, A>>) : n \in {"", "NOT"}}
      \cup {Tree("in", n, <<x, y, A>>) : n \in {"", "NOT"}}
      \cup {Tree("not like", "", <<x, y>>), Tree("call", "F", <<x, y>>),
            Tree("case", "", <<x, y, A>>)}

One == UNION {Apply(x, y) : x \in Leaves, y \in Leaves}
Two == UNION {Apply(x, A) \cup Apply(A, x) : x \in One}
Odd == {Tree("subquery", "", <<Sub>>), Tree("exists", "", <<Sub>>),
        Tree("case of", "", <<A, Num("1"), Num("2")>>), Tree("column", "A", <<Leaf("table", "T")>>),
        Leaf("string", "S"), Leaf("bool", "TRUE"), Leaf("null", "NULL"), Tree("call", "COUNT", <<Col("*")>>)}
Conditions == {Binary("OR", A, Unary("NOT", A)), Binary("=", A, Num("1"))}

Join(t, l, r) == Tree("join", t, <<l, r>>)
On(t, l, r, e) == Tree("join", t, <<l, r, e>>)
Refs == {T0, U0, Tree("nested", "W", <<Sub>>), Tree("nested", "", <<Sub>>)}
Joined(l, r) == {Join(",", l, r), Join("CROSS", l, r), Join("NATURAL", l, r), On("USING", l, r, A)}
                 \cup {On(t, l, r, e) : t \in {"INNER", "LEFT"}, e \in Conditions}
Froms == Refs \cup UNION {Joined(l, r) : l, r \in Refs}
           \cup UNION {Joined(l, T0) : l \in UNION {Joined(T0, r) : r \in Refs}}

Limit(form, n, m) == Tree("limit", form, <<Num(n), Num(m)>>)
Limits == {Tree("limit", "", <<Num("-1"), Num("0")>>), Limit("limit", "1", "0"),
           Limit("both", "1", "2"), Limit("comma", "1", "2"), Limit("both", "0", "0"),
           Limit("offset", "-1", "2"), Limit("offset", "-1", "0")}
Sorts  == {<<>>} \cup {<<Tree("sort", "A", <<Leaf("", d), Leaf("", n)>>), Tree("sort", "B", <<Leaf("", ""), Leaf("", "")>>)>> :
                         d \in {"", "ASC", "DESC"}, n \in {"", "FIRST", "LAST"}}
Star   == Leaf("star", "")
Lists  == {<<Star>>, <<Star, Just(A)>>, <<Just(A), Star>>, <<Tree("as", "B", <<A>>), Just(Num("1"))>>}

\* Every select list with every choice of the other clauses, and every ORDER BY
\* with every LIMIT.
With(q, items, sorts, limits) ==
    {SelectTree(q, items, T0, w, g, h, s, l) :
       w \in {<<>>, <<Binary("=", A, Num("1"))>>}, g \in {<<>>, <<A, Num("1")>>},
       h \in {<<>>, <<Binary("OR", A, A)>>}, s \in sorts, l \in limits}
Clauses ==
    With("", <<Just(A)>>, Sorts, Limits)
      \cup UNION {With(q, items, {<<>>, <<Tree("sort", "A", <<Leaf("", "DESC"), Leaf("", "")>>)>>},
                       {Limit("", "-1", "0"), Limit("both", "1", "2")}) :
                    q \in {"", "DISTINCT", "ALL"}, items \in Lists}

Queries1 ==
    {Query(<<Just(A)>>, T0, <<e>>) : e \in Leaves \cup One \cup Two \cup Odd}
      \cup {Query(<<Just(A)>>, from, <<>>) : from \in Froms}

Assign(c, e) == Tree("assign", c, <<e>>)
Wheres == {Tree("where", "", <<>>), Tree("where", "", <<Binary("=", A, Num("1"))>>)}
Rows   == {<<Tree("row", "", <<Num("1"), e>>)>> : e \in One} \cup
          {<<Tree("row", "", <<Num("1")>>), Tree("row", "", <<A, Num("2")>>)>>}
Words1 == {<<>>} \cup {<<c>> : c \in {Leaf("", "NOT NULL"), Leaf("", "NULL"), Leaf("", "UNIQUE"),
              Leaf("", "PRIMARY KEY"), Tree("", "CHECK", <<Binary("=", A, A)>>),
              Tree("", "DEFAULT", <<Num("1")>>)}}
Contrary == {<<Leaf("", "NULL")>>, <<Leaf("", "NOT NULL")>>, <<Leaf("", "PRIMARY KEY")>>}
Columns  == {Tree("column", "A", <<Leaf("", "INT")>> \o c[1] \o c[2] \o c[3]) :
               c \in {d \in {<<>>, <<Leaf("", "(2)")>>} \X Words1 \X Words1 :
                       ~{d[2], d[3]} \subseteq Contrary \/ d[2] = d[3]}}
Others ==
    {Tree("insert", "T", <<Tree("names", "", cs), Tree("rows", "", rs)>>) :
       cs \in {<<>>, <<Leaf("IDENTIFIER", "A"), Leaf("IDENTIFIER", "B")>>}, rs \in Rows}
      \cup {Tree("update", "T", <<Tree("set", "", s), w>>) :
              s \in {<<Assign("A", e)>> : e \in One} \cup {<<Assign("A", A), Assign("B", Num("1"))>>}, w \in Wheres}
      \cup {Tree("delete", "T", <<w>>) : w \in Wheres}
      \cup {Tree("create", "T", <<c>>) : c \in Columns}
      \cup {Tree("create", "T", <<c, d>>) : c, d \in {Tree("column", "B", <<Leaf("", "INT")>> \o w) : w \in Words1}}
      \cup {Leaf("drop", "T")}

Long == {SelectTree("DISTINCT", <<Tree("as", "B", <<A>>), Just(Num("1"))>>, r, <<c>>, <<A>>, <<c>>,
                    <<Tree("sort", "A", <<Leaf("", "ASC"), Leaf("", "FIRST")>>)>>, Limit("both", "1", "2")) :
           r \in Refs \cup Joined(T0, U0), c \in Apply(A, Num("1"))}

\* String literals and quoted names, where an expression can begin and elsewhere.
Texts2   == {"S", "s", "", "AND", "FROM", "-", "CASE", "--", "/*", "?", ";", ",", "O'S", "(", ")", "*",
             "NOT", "NULL", "SELECT", "DISTINCT", "WHEN"}
Literals == {Leaf(k, v) : k \in {"string", "named"}, v \in Texts2}
              \cup {Num("1.2"), Num("2."), Col("A1")}
Around(e) == {Query(<<Just(A)>>, T0, <<w>>) :
               w \in {Binary("<>", A, e), Binary("<=", e, A), Unary("NOT", Binary("||", e, e)), Tree("call", "F", <<e>>),
                      Tree("in", "", <<A, e>>), Tree("between", "NOT", <<e, A, Num("1")>>),
                      Tree("case", "", <<A, e, e>>), Tree("case of", "", <<e, A, e>>)}}
              \cup {Query(<<Just(e), Tree("as", "B", <<e>>)>>, T0, <<>>),
                    Tree("insert", "T", <<Tree("names", "", <<>>), Tree("rows", "", <<Tree("row", "", <<e, e>>)>>)>>),
                    Tree("update", "T", <<Tree("set", "", <<Assign("A", e)>>), Tree("where", "", <<>>)>>),
                    Tree("create", "T", <<Tree("column", "A", <<Leaf("", "INT"), Tree("", "DEFAULT", <<e>>)>>)>>)}
Quoting  == UNION {Around(e) : e \in Literals}

\* Every lexeme of two characters or more that is not one run of letters or digits.
MCSpelling ==
    ("O'S" :> <<"O", "'", "S">>) @@ ("--" :> <<"-", "-">>) @@ ("/*" :> <<"/", "*">>) @@ ("" :> <<>>)
      @@ ("||" :> <<"|", "|">>) @@ ("<=" :> <<"<", "=">>) @@ ("<>" :> <<"<", ">">>) @@ ("1.2" :> <<"1", ".", "2">>)
      @@ ("2." :> <<"2", ".">>) @@ ("A1" :> <<"A", "1">>)

Plain     == Style(<<" ">>, FALSE)
Tight     == Style(<<>>, TRUE)
Commented == Style(<<"/", "*", "S", "'", "*", "*", "/">>, FALSE)
Remarked  == Style(<<" ", "-", "-", "\"", "/", "*", "?", "\n">>, TRUE)

MCQueries == Queries1 \cup Clauses \cup Others \cup Long \cup Quoting

\* Statements with quotes, and all but queries, are written in every style;
\* all but queries, and queries with all clauses, are also cut off.
Quotes(q) == Uses(q, {<<"string", "any">>, <<"named", "any">>})
Full(q)   == /\ q.label = "DISTINCT" /\ q.kids[7].label = "both"
             /\ \A i \in 3 .. 6 : q.kids[i].kids # <<>>
MCWholeStyles(q) ==
    IF q.kind # "query" \/ Quotes(q) THEN {Plain, Tight, Commented, Remarked} ELSE {Plain}
MCCutStyles(q) ==
    CASE q.kind \in {"drop", "delete"} \/ (q.kind = "create" /\ Quotes(q)) -> {Tight, Commented, Remarked}
      [] q.kind = "query" /\ ~Full(q) -> {}
      [] OTHER -> {Tight}
=============================================================================
