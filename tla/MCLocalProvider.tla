-------------------------- MODULE MCLocalProvider --------------------------
(* LocalProvider with a few commands and containers. *)
EXTENDS LocalProvider, TLC

Symmetry == Permutations(Processes) \cup Permutations(Containers)
============================================================================
