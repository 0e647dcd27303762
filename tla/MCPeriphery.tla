----------------------------- MODULE MCPeriphery -----------------------------
(* Periphery on a small instance, given in the .cfg file. *)
EXTENDS Periphery

\* Two writers can overlap.
ASSUME Overlap == Cardinality(FileWriters) > 1

\* An answer can hold a block, and something before it or after it.
ASSUME BlockFits == MaxTokens > 3
=============================================================================
