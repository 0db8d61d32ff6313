------------------------------ MODULE MCStoreLocks ------------------------------
(***************************************************************************)
(* TLC instance of StoreLocks: three callers, every mix of calls.          *)
(***************************************************************************)
EXTENDS StoreLocks, TLC

Symmetry == Permutations(Callers)
===============================================================================
