-------------------------- MODULE MCSoulReflection --------------------------
(* SoulReflection on small instances, and the promise it is held against. *)
EXTENDS SoulReflection, TLC

\* Processes of one kind are interchangeable.
Symmetry == Permutations(Sessions) \cup Permutations(Writers)
=============================================================================
