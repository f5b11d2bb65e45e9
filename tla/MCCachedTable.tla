--------------------------- MODULE MCCachedTable ---------------------------
(***************************************************************************)
(* CachedTable for model checking: rows are interchangeable.               *)
(***************************************************************************)
EXTENDS CachedTable

RowSymmetry == Permutations(Rows)
=============================================================================
