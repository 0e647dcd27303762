--------------------------------- MODULE Poll ---------------------------------
(***************************************************************************)
(* One [[poll]] rule of phyl-poll: a task that runs a command at every     *)
(* interval and makes a session when its output is not what the file       *)
(* poll/<name>.last holds.                                                 *)
(*                                                                         *)
(* The outputs of the command are numbered in the order in which they      *)
(* come up, so that it never returns to an old one; event e is the change  *)
(* to output e.  A run in which the command fails or times out changes     *)
(* nothing, and neither does one whose output is the same.                 *)
(***************************************************************************)
EXTENDS SessionRequests

CONSTANTS
    Missing,    \* there is no .last file
    Cut         \* the .last file holds the beginning of an output

ASSUME NotOutputs == Missing \notin Events /\ Cut \notin Events /\ Missing # Cut

VARIABLES
    output,     \* what the command would print now
    polled,     \* the output of the run that is being handled
    pollPc,     \* "asleep", "baseline", "creating" or "writing"
    last,       \* what the .last file holds
    baselines   \* history: outputs that were taken as a baseline

pollVars == <<output, polled, pollPc, last, baselines>>

PollTypeOK ==
    /\ output \in Events /\ polled \in Events
    /\ pollPc \in {"asleep", "baseline", "creating", "writing"}
    /\ last \in Events \cup {Missing, Cut}
    /\ baselines \subseteq Events

PollInit ==
    /\ output = 1 /\ polled = 1
    /\ pollPc = "asleep"
    /\ last = Missing
    /\ baselines = {}

PollGoes(from, to) == pollPc = from /\ pollPc' = to

OutputChanges ==
    /\ output < MaxEvents
    /\ output' = output + 1
    /\ UNCHANGED <<requestVars, polled, pollPc, last, baselines>>

\* A command that fails or is late counts as if it had not been run.
PollCommand == polled' = output

\* The file is brought up to date as soon as the change is seen.
MutantWritesFirst ==
    /\ polled' = output
    /\ \/ last \in {Missing, Cut} /\ PollGoes("asleep", "baseline") /\ UNCHANGED last
       \/ last \notin {Missing, output} /\ PollGoes("asleep", "creating") /\ last' = output
    /\ UNCHANGED <<requestVars, output, baselines>>

\* read_to_string(..).ok(): a file that ends within a character is no text either, and
\* counts as none.
PollRuns ==
    /\ PollCommand
    /\ \/ last \in {Missing, Cut} /\ PollGoes("asleep", "baseline")
       \/ last \notin {Missing, output} /\ PollGoes("asleep", "creating")
    /\ UNCHANGED <<requestVars, output, last, baselines>>

\* One request, without a timeout; any answer but a success is an error.
PollRequest == Created(polled) \/ NotCreated(polled)

\* A failure is logged; the output becomes the new baseline all the same.
PollCreates ==
    /\ PollGoes("creating", "writing")
    /\ PollRequest
    /\ UNCHANGED <<window, output, polled, last, baselines>>

\* fs::write truncates the file, and then writes it.
PollWrites ==
    /\ PollGoes(pollPc, "asleep")
    /\ pollPc \in {"baseline", "writing"}
    /\ last' = polled
    /\ baselines' = IF pollPc = "baseline" THEN baselines \cup {polled} ELSE baselines
    /\ UNCHANGED <<requestVars, output, polled>>

\* The file cannot be opened, or the disk is full.
PollWriteFails ==
    /\ Lapse
    /\ PollGoes(pollPc, "asleep")
    /\ pollPc \in {"baseline", "writing"}
    /\ last' \in {last, Cut}
    /\ UNCHANGED <<made, givenUp, window, output, polled, baselines>>

\* phyl-poll dies and is started again.
PollDies ==
    /\ Lapse
    /\ pollPc' = "asleep"
    /\ CutOff([c \in {pollPc} \cap {"creating"} |-> polled])
    /\ last' \in IF pollPc \in {"baseline", "writing"} THEN {last, Cut} ELSE {last}
    /\ UNCHANGED <<window, output, polled, baselines>>

PollNext ==
    \/ OutputChanges \/ PollRuns \/ PollCreates
    \/ PollWrites \/ PollWriteFails \/ PollDies

\* What the rule takes for old news has been news: the output in the .last file was a
\* baseline, was made into a session, or its one request was given up.
OldNewsWasNews ==
    last \in Events => last \in baselines \/ made[last] > 0 \/ last \in givenUp
=============================================================================
