------------------------------ MODULE MCTaskStore ------------------------------
(***************************************************************************)
(* TLC instance of TaskStore: one task contended by two principals' calls, *)
(* one sink between its read and its write, and two configurations being   *)
(* registered.                                                             *)
(***************************************************************************)
EXTENDS TaskStore, TLC

Symmetry == Permutations(Owners) \cup Permutations(Configs)
===============================================================================
