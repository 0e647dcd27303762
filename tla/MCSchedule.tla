----------------------------- MODULE MCSchedule -----------------------------
(* Schedule on small instances: sets of model values, given in the .cfg files. *)
EXTENDS Schedule, TLC

\* With no entry poisoned, entries and tools are interchangeable.
Symmetry == Permutations(Entries) \cup Permutations(Tools)
=============================================================================
