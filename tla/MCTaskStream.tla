----------------------------- MODULE MCTaskStream ------------------------------
(***************************************************************************)
(* TLC instance of TaskStream: every interleaving of the store's writers   *)
(* with a stream being opened and drained.                                 *)
(***************************************************************************)
EXTENDS TaskStream, TLC

Symmetry == Permutations(Owners) \cup Permutations(Configs)
===============================================================================
