---------------------------- MODULE MCInstances ----------------------------
(* Symmetry of the instances and of the process ids. *)
EXTENDS Instances, TLC

Symmetry == Permutations(Instances) \cup Permutations(Pids)
=============================================================================
