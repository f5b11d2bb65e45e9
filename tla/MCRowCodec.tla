----------------------------- MODULE MCRowCodec -----------------------------
(***************************************************************************)
(* Rows for model checking RowCodec in a slot of 12 bytes with numCols     *)
(* modulo 4 and lengths modulo 10: rows that fit, that fill the slot and   *)
(* lose a column at its end, that pass its end, with more columns than     *)
(* numCols counts, and with strings of which the length field keeps one    *)
(* character or none.                                                      *)
(***************************************************************************)
EXTENDS RowCodec

Value(t, v)  == [type |-> t, len |-> 0, val |-> v]
Text(l, v)   == [type |-> "string", len |-> l, val |-> v]
One == Value("int", "i")

MCData == {"i", "j", "s", "b", "c", "d", "empty", "zero", "garbage"}

MCRows ==
    {<<One, Value("int", "j"), One>>,
     <<Text(1, "s"), Value("bool", "b"), Value("bool", "c")>>, <<Text(11, "s"), Text(10, "s")>>,
     <<Value("double", "d"), Value("bool", "b")>>,
     <<Value("bool", "b"), Value("bool", "c"), Value("bool", "b"), Value("bool", "c"), Value("bool", "b")>>}
=============================================================================
