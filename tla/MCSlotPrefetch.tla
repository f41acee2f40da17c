-------------------------- MODULE MCSlotPrefetch --------------------------
(* SlotPrefetch on a few scripts. *)
EXTENDS SlotPrefetch, TLC

Symmetry == Permutations(Scripts)
============================================================================
