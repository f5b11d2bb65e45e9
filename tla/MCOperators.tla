---------------------------- MODULE MCOperators ----------------------------
(***************************************************************************)
(* Plans for model checking Operators: the shapes the parser builds, LIMIT *)
(* over PROJECT over WHERE over FROM, where FROM is a table, a product, or *)
(* a subquery of the same shape; and joins and selections linked by hand.  *)
(***************************************************************************)
EXTENDS Operators

Blank == [op |-> "scan", left |-> 0, right |-> 0, table |-> "", cols |-> <<>>,
          cond |-> <<>>, limit |-> -1, offset |-> 0]

Shifted(p, by) ==
    [n \in DOMAIN p |-> [p[n] EXCEPT !.left  = IF @ = 0 THEN 0 ELSE @ + by,
                                     !.right = IF @ = 0 THEN 0 ELSE @ + by]]
Over(node, p) == <<[node EXCEPT !.left = 2]>> \o Shifted(p, 1)
Product(p, q) ==
    <<[Blank EXCEPT !.op = "cross", !.left = 2, !.right = 2 + Len(p)]>>
      \o Shifted(p, 1) \o Shifted(q, 1 + Len(p))

\* Expressions, and the tree of an operator over them.
Expr(op)     == [op |-> op, left |-> 0, right |-> 0, value |-> 0, name |-> ""]
IntLit(n)    == <<[Expr("int") EXCEPT !.value = n]>>
Column(c)    == <<[Expr("column") EXCEPT !.name = c]>>
Unary(op, e) == <<[Expr(op) EXCEPT !.left = 2]>> \o Shifted(e, 1)
Binary(op, d, e) ==
    <<[Expr(op) EXCEPT !.left = 2, !.right = 2 + Len(d)]>>
      \o Shifted(d, 1) \o Shifted(e, 1 + Len(d))
Is(c, n)     == Binary("=", Column(c), IntLit(n))

From(t)           == <<[Blank EXCEPT !.table = t]>>
Where(e, p)       == Over([Blank EXCEPT !.op = "filter", !.cond = e], p)
Naive(e, p)       == Over([Blank EXCEPT !.op = "naive", !.cond = e], p)
Join(e, p, q)     == [Product(p, q) EXCEPT ![1].op = "join", ![1].cond = e]
Select(cs, p)     == Over([Blank EXCEPT !.op = "project", !.cols = cs], p)
Limit(n, skip, p) == Over([Blank EXCEPT !.op = "limit", !.limit = n, !.offset = skip], p)
Sort(p)           == Over([Blank EXCEPT !.op = "sort"], p)

Limits == {<<0, 0>>, <<1, 0>>, <<2, 0>>, <<3, 0>>, <<1, 1>>, <<2, 1>>, <<-1, 1>>, <<-1, 2>>}
Limited(ps) == ps \cup {Limit(l[1], l[2], p) : l \in Limits, p \in ps}

\* Of an INTEGER and a BIGINT column, of a column of both tables or of none, and
\* through every connective.
Conditions(p) == {p} \cup {Where(Is(c, 1), p) : c \in {"x", "y", "z"}}
Tests ==
    { Binary("<=", Column("x"), IntLit(1)),
      Binary("<", Column("y"), Column("x")),
      Binary(">", Column("y"), IntLit(0)),
      Unary("not", Is("x", 2)),
      Binary("and", Is("x", 1), Unary("not", Unary("is null", Column("x")))),
      Binary("or", Unary("is not null", Column("x")), Is("x", 2)),
      Unary("not", Binary("=", Column("x"), Unary("minus", IntLit(1)))),
      Unary("not", Is("x", 9)),
      Binary("<>", Column("x"), <<Expr("null")>>),
      Binary("like", Column("x"), IntLit(1)) }

Single   == UNION {Conditions(From(t)) : t \in {"s", "t"}}
Tested   == {Select(<<"x">>, Where(e, From("s"))) : e \in Tests}
Subquery == {Limit(n, 0, Select(<<"x", "y">>, From(t))) : n \in {1, 2}, t \in {"s", "t"}}
Turned   == Select(<<"y">>, Where(Is("x", 1), Select(<<"y", "x">>, From("s"))))
Joined   == {Product(p, q) : p, q \in Subquery \cup {From("s")}}
Crossed  == Product(Limit(1, 0, From("t")), Limit(1, 0, From("s")))
Nested   == {Product(Product(p, q), r) : p, q, r \in {Limit(2, 0, From(t)) : t \in {"s", "t"}}}
Refused  == {Select(<<>>, Sort(From("s"))), Select(<<"x">>, From("u"))}
ByHand   ==
    LET two(t) == Limit(2, 0, From(t))
    IN  {Join(e, two("s"), two("t")) : e \in {<<>>, Binary(">", Column("x"), IntLit(0)), Is("x", 1)}}
          \cup {Naive(e, two("s")) : e \in {<<>>, Is("x", 1)}}
          \cup {Limit(2, 0, Naive(<<>>, From("s")))}

\* A LIMIT in a subquery and another one outside.
Twice ==
    LET offsets == {<<-1, 1>>, <<-1, 2>>, <<2, 1>>}
        from    == {From("s"), Crossed, Select(<<>>, From("s"))}
    IN  {Limit(l[1], l[2], Select(<<"x">>, Limit(m[1], m[2], p))) : l, m \in offsets, p \in from}

MCPlans ==
    Limited({Select(cs, p) : cs \in {<<"x">>, <<"y", "x">>, <<>>, <<"x", Star>>}, p \in Single})
      \cup Limited(Tested \cup {Turned} \cup {Select(<<"z">>, p) : p \in Conditions(Crossed)})
      \cup Limited({Select(<<"x">>, p) : p \in UNION {Conditions(j) : j \in Joined}})
      \cup Nested \cup Refused \cup ByHand \cup Twice

MCSchema   == [s |-> <<"x", "y">>, t |-> <<"y", "z">>]
MCRow(x, y) == <<<<OfInt, x>>, <<OfBigint, y>>>>
MCContents == {<<>>, <<MCRow(1, 2)>>, <<MCRow(2, 1), MCRow(1, 2)>>}
=============================================================================
