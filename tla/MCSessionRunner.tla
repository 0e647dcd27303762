--------------------------- MODULE MCSessionRunner ---------------------------
(* SessionRunner on small instances: the constants are in the .cfg files. *)
EXTENDS ModelAdapters

\* Bound: a FIFO of more than two lines and an answer of two calls are looked at apart.
EventsOrCalls == Len(sent) > 2 => \A i \in DOMAIN log : log[i][1] = "assistant" => Len(log[i][3]) < 2
=============================================================================
