--------------------------- MODULE Autobiography ---------------------------
(***************************************************************************)
(* What the sessions together promise about SOUL.md, with no locks, no     *)
(* processes and no half-written file: each session adds its reflection to *)
(* everything reflected before, in one step, and no version is replaced    *)
(* before git has it.                                                      *)
(***************************************************************************)
CONSTANT Sessions

VARIABLES
    soul,   \* the sessions SOUL.md descends from
    head    \* those the last committed version descends from

Init == soul = {} /\ head = {}

Reflect(s) ==
    /\ head = soul
    /\ s \notin soul
    /\ soul' = soul \cup {s}
    /\ UNCHANGED head

Commit ==
    /\ head' = soul
    /\ UNCHANGED soul

Next == Commit \/ \E s \in Sessions : Reflect(s)

Spec == Init /\ [][Next]_<<soul, head>>
=============================================================================
