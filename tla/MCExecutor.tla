----------------------------- MODULE MCExecutor -----------------------------
(***************************************************************************)
(* Executor for model checking: table names are interchangeable.           *)
(***************************************************************************)
EXTENDS Executor, TLC

TableSymmetry == Permutations(Tables)
=============================================================================
