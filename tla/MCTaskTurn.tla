------------------------------- MODULE MCTaskTurn -------------------------------
(***************************************************************************)
(* TLC instances of TaskTurn.  Sends that return immediately are           *)
(* interchangeable.                                                        *)
(***************************************************************************)
EXTENDS TaskTurn, TLC

Symmetry == Permutations(Immediate)
===============================================================================
