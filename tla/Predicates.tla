----------------------------- MODULE Predicates -----------------------------
(***************************************************************************)
(* Predicates of WHERE over rows: FilterOp::evaluatePredicate and          *)
(* evaluateExpression, src/src/query-executor/QueryExecutor.cpp, and what  *)
(* SQL means by the same expression.                                       *)
(*                                                                         *)
(* A value is a pair: the alternative of the variant datatype that it has, *)
(* and a number that orders the values of that alternative (a string is    *)
(* its rank, false is 0).  An expression is a sequence of nodes, 1 the     *)
(* root, with the operands of a node behind it.                            *)
(***************************************************************************)
EXTENDS Integers, Sequences, SequencesExt

CONSTANT IntLimit       \* 2^31: an int is in -IntLimit .. IntLimit - 1

ASSUME PredicatesAssumption == IntLimit \in Nat \ {0}

ExprNode == [op : STRING, left : Nat, right : Nat, value : Int, name : STRING]

\* The alternatives of datatype, in its order.
OfInt    == 0
OfFloat  == 1
OfString == 2
OfBool   == 3
OfBigint == 4
OfDouble == 5

Truth(b)  == <<OfBool, IF b THEN 1 ELSE 0>>
IsTrue(v) == v = <<OfBool, 1>>

Value == {v \in (OfInt .. OfDouble) \X Int : v[1] = OfBool => v[2] \in {0, 1}}

\* static_cast<int> of an int64_t, and <float> of a double: of the numbers a
\* double holds, a float holds the even ones.
ToInt(n)   == ((n + IntLimit) % (2 * IntLimit)) - IntLimit
ToFloat(n) == n - (n % 2)

\* Faulty variant: <= leaves the equal values out.
ComparesStrictly(op, a, b) ==
    LET less(u, v) == u[1] < v[1] \/ (u[1] = v[1] /\ u[2] < v[2])
    IN  CASE op = "="            -> a = b
          [] op = "<>"           -> a # b
          [] op \in {"<", "<="}  -> less(a, b)
          [] op \in {">", ">="}  -> less(b, a)

\* The comparisons of std::variant: the alternatives first, the values only if
\* they are the same.
Compares(op, a, b) ==
    LET less(u, v) == u[1] < v[1] \/ (u[1] = v[1] /\ u[2] < v[2])
    IN  CASE op = "="  -> a = b
          [] op = "<>" -> a # b
          [] op = "<"  -> less(a, b)
          [] op = "<=" -> ~less(b, a)
          [] op = ">"  -> less(b, a)
          [] OTHER     -> ~less(a, b)      \* >=
Comparisons == {"=", "<>", "<", "<=", ">", ">="}

\* The operands of a node come after it, a literal of BOOLEAN is 0 or 1.
BinaryOps == Comparisons \cup {"and", "or"}
UnaryOps  == {"not", "minus", "plus", "is null", "is not null"}
Expressions ==
    {e \in Seq(ExprNode) : \A i \in DOMAIN e :
        /\ e[i].op \in BinaryOps \cup UnaryOps => e[i].left \in DOMAIN e /\ e[i].left > i
        /\ e[i].op \in BinaryOps => e[i].right \in DOMAIN e /\ e[i].right > i
        /\ e[i].op = "bool" => e[i].value \in {0, 1}}

\* The position of the first column of a name, 0 when there is none.
Position(names, name) == SelectInSeq(names, LAMBDA c : c = name)

\* COLUMN_REF: 0 for a column that is not found or that the row does not have.
ColumnValue(names, name, row) ==
    IF Position(names, name) \in 1 .. Len(row) THEN row[Position(names, name)] ELSE <<OfInt, 0>>

\* evaluateExpression, at the node i of e, where the operands have the values of
\* V.  A sign, IS NULL and IS NOT NULL return their operand; arithmetic, LIKE and
\* the other expressions are false.
ValueOf(V, e, i, names, row) ==
    LET node  == e[i]
        left  == V[node.left]
        right == V[node.right]
    IN  CASE node.op = "int"    -> <<OfInt, ToInt(node.value)>>
          [] node.op = "float"  -> <<OfFloat, ToFloat(node.value)>>
          [] node.op = "string" -> <<OfString, node.value>>
          [] node.op = "bool"   -> <<OfBool, node.value>>
          [] node.op = "null"   -> <<OfInt, 0>>
          [] node.op = "column" -> ColumnValue(names, node.name, row)
          [] node.op \in Comparisons -> Truth(Compares(node.op, left, right))
          [] node.op = "and"    -> Truth(IsTrue(left) /\ IsTrue(right))
          [] node.op = "or"     -> Truth(IsTrue(left) \/ IsTrue(right))
          [] node.op = "not"    -> Truth(~IsTrue(left))
          [] node.op \in {"minus", "plus", "is null", "is not null"} -> left
          [] OTHER              -> Truth(FALSE)
Evaluated(e, names, row) ==
    LET V[i \in DOMAIN e] == ValueOf(V, e, i, names, row) IN V[1]

\* evaluatePredicate: no predicate accepts every row, one that is no bool none.
Accepts(e, names, row) == e = <<>> \/ IsTrue(Evaluated(e, names, row))

-----------------------------------------------------------------------------
(* What SQL means by it *)

Unknown == <<6, 0>>     \* NULL, and what is not given a meaning here

\* Values compare by what they are, whatever their type.
SqlCompares(op, m, n) ==
    CASE op = "="  -> m = n
      [] op = "<>" -> m # n
      [] op = "<"  -> m < n
      [] op = "<=" -> m <= n
      [] op = ">"  -> m > n
      [] OTHER     -> m >= n       \* >=

MeantOf(M, e, i, names, row) ==
    LET node  == e[i]
        left  == M[node.left]
        right == M[node.right]
        either(v) == v \in {left, right}
    IN  CASE node.op = "int"    -> <<OfInt, node.value>>
          [] node.op = "float"  -> <<OfFloat, node.value>>
          [] node.op = "string" -> <<OfString, node.value>>
          [] node.op = "bool"   -> <<OfBool, node.value>>
          [] node.op = "column" -> IF Position(names, node.name) \in 1 .. Len(row)
                                   THEN row[Position(names, node.name)] ELSE Unknown
          [] node.op \in Comparisons ->
               IF either(Unknown) THEN Unknown
               ELSE Truth(SqlCompares(node.op, left[2], right[2]))
          [] node.op = "and" -> IF either(Truth(FALSE)) THEN Truth(FALSE)
                                ELSE IF either(Unknown) THEN Unknown ELSE Truth(TRUE)
          [] node.op = "or"  -> IF either(Truth(TRUE)) THEN Truth(TRUE)
                                ELSE IF either(Unknown) THEN Unknown ELSE Truth(FALSE)
          [] node.op = "not" -> IF left = Unknown THEN Unknown ELSE Truth(left = Truth(FALSE))
          [] node.op = "plus"        -> left
          [] node.op = "minus"       -> <<left[1], -left[2]>>
          [] node.op = "is null"     -> Truth(left = Unknown)
          [] node.op = "is not null" -> Truth(left # Unknown)
          [] OTHER                   -> Unknown
Meant(e, names, row) ==
    LET M[i \in DOMAIN e] == MeantOf(M, e, i, names, row) IN M

\* The predicates evaluateExpression gets right on a row: comparisons of values
\* of one alternative, with literals that the casts keep, under AND, OR, NOT;
\* and IS NULL of a value that is not NULL and no bool, as long as its result
\* is not compared.
Sound(e, names, row) ==
    LET M       == Meant(e, names, row)
        Test(i) == e[i].op \in Comparisons \cup {"and", "or", "not", "is null"} \/ M[i][1] = OfBool
    IN  e # <<>> =>
          /\ Test(1)
          /\ \A i \in DOMAIN e :
               LET node == e[i]
               IN  \/ node.op \in {"string", "bool"}
                   \/ node.op = "int"   /\ ToInt(node.value) = node.value
                   \/ node.op = "float" /\ ToFloat(node.value) = node.value
                   \/ node.op = "column" /\ M[i] # Unknown
                   \/ /\ node.op \in Comparisons
                      /\ M[node.left][1] = M[node.right][1]
                      /\ \A k \in {node.left, node.right} : e[k].op # "is null"
                   \/ node.op \in {"and", "or"} /\ Test(node.left) /\ Test(node.right)
                   \/ node.op = "not" /\ Test(node.left)
                   \/ node.op \in {"plus", "is null"} /\ M[node.left][1] # OfBool

\* The row is one that SQL's WHERE keeps.
Keeps(e, names, row) == e = <<>> \/ IsTrue(Meant(e, names, row)[1])
=============================================================================
