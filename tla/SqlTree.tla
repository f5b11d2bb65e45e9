------------------------------ MODULE SqlTree ------------------------------
(***************************************************************************)
(* The trees of the SQL compiler, src/include/sql-compiler/SqlAST.hpp:     *)
(* expressions and relational algebra nodes.  Every tree is a kind, a      *)
(* label and children: the fields a node of its kind uses.                 *)
(***************************************************************************)
EXTENDS Sequences

Tree(k, v, kids) == [kind |-> k, label |-> v, kids |-> kids]
Leaf(k, v)       == Tree(k, v, <<>>)
Node(k, kids)    == Tree(k, "", kids)

\* A null pointer.
None             == Leaf("none", "")

Binary(op, l, r) == Tree("binary", op, <<l, r>>)
Unary(op, e)     == Tree("unary", op, <<e>>)

\* An operator put over a plan, or the plan itself.
Over(applies, kind, plan, args) ==
    IF applies THEN Tree(kind, "", <<plan>> \o args) ELSE plan
=============================================================================
