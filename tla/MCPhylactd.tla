----------------------------- MODULE MCPhylactd -----------------------------
(* Phylactd on small instances: sets of model values, given in the .cfg files. *)
EXTENDS Phylactd

\* Requests can overlap, and one session can wait for the place of another.
ASSUME Contended == Cardinality(Creators) > 1 /\ Cardinality(Sessions) > MaxConcurrent
=============================================================================
