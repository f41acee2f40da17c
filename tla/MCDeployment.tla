---------------------------- MODULE MCDeployment ----------------------------
(* Deployment on small instances. *)
EXTENDS Deployment, TLC

Symmetry == Permutations(Commands) \cup Permutations(Machines)
=============================================================================
