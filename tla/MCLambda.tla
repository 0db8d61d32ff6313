-------------------------------- MODULE MCLambda --------------------------------
(***************************************************************************)
(* TLC instances of LambdaRecovery.                                        *)
(***************************************************************************)
EXTENDS LambdaRecovery, TLC

(* Follow-up requests are checked without the recovery handlers, and the
   recovery of the marker with a single request. *)
MCInit ==
  /\ LambdaInit
  /\ deployed = {} \/ \A s \in Sends \ Inline : send[s].pc = "done"

MCSpec == MCInit /\ [][LambdaNext]_lambdaVars /\ LambdaFairness

Symmetry == Permutations(Workers)
===============================================================================
