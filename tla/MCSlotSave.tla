----------------------------- MODULE MCSlotSave -----------------------------
EXTENDS SlotSave, TLC

Symmetry == Permutations(Saves) \cup Permutations(Machines) \cup Permutations(Dirs)
=============================================================================
