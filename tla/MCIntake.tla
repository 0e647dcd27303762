------------------------------- MODULE MCIntake -------------------------------
(***************************************************************************)
(* Small instances of Intake for TLC.                                      *)
(***************************************************************************)
EXTENDS Intake, TLC

\* The handlers are alike.
Symmetry == Permutations(Handlers)

\* The instance is small, not the program: a request window that never fills would hide
\* the limiter.
ASSUME WindowFills == Limit < MaxEvents
=============================================================================
