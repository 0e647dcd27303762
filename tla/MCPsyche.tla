------------------------------- MODULE MCPsyche -------------------------------
(***************************************************************************)
(* Small instances of Psyche for TLC.                                      *)
(***************************************************************************)
EXTENDS Psyche, TLC

\* The sessions that run at once are alike.
Symmetry == Permutations(Slots)

\* Bound: salience and commitments share nothing but the state of a concern, so a behaviour
\* is about one of them.  Before the first commitment anything goes; after it concerns are
\* not touched and do not become low.
OneMatter ==
    ledger # <<>> =>
        /\ \A s \in Slots : pc[s] # "touching"
        /\ \A c \in Concerns : ~concern[c].low /\ ~concern[c].flagged
=============================================================================
