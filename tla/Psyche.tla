-------------------------------- MODULE Psyche --------------------------------
(***************************************************************************)
(* Concerns and commitments in psyche.db, which every session's            *)
(* phyl-tool-psyche and every session's phyl-psyche-sub share.             *)
(*                                                                         *)
(* No handler opens a transaction: each of its SQL statements commits by   *)
(* itself, so that a handler that reads a row and then updates it is two   *)
(* steps here, and whatever other sessions do may come in between.  An     *)
(* update writes its own columns and does not look at the state again.     *)
(*                                                                         *)
(* The salience of a concern is only told apart by the threshold below     *)
(* which it is flagged.  The queries of a pass that find no commitment,    *)
(* the lists of spawned concerns, kb_records and escalations are left out. *)
(***************************************************************************)
EXTENDS Naturals, FiniteSets, Sequences

CONSTANTS
    Concerns,       \* bound: the concerns that may be opened
    Conative,       \* the ones of type conative
    NoConcern,      \* the null concern
    Slots,          \* sessions that can run at once: max_concurrent
    MaxSessions,    \* bound: sessions that are registered
    MaxCommitments, \* bound: commitments that are made
    MaxFaults       \* bound: sessions killed or failed, statements and passes that fail

ASSUME ConcernsFinite == IsFiniteSet(Concerns) /\ Conative \subseteq Concerns
ASSUME NoConcernIsNone == NoConcern \notin Concerns
ASSUME SlotsFinite == IsFiniteSet(Slots) /\ Slots # {}
ASSUME PsycheBoundsNat == {MaxSessions, MaxCommitments, MaxFaults} \subseteq Nat

VARIABLES
    concern,    \* table concerns: state, whether its salience is low, touched_session, flagged
    ledger,     \* table commitments, in the order of creation, with who reported on it how often
    lastNumber, \* the AUTOINCREMENT of table sessions
    briefing,   \* the broken commitments that briefing.json lists
    pc,         \* how far each session is
    alive,      \* whether its runner is; its tool and its pass may outlive it
    number,     \* its PHYLACTERY_SESSION_NUMBER, 0 if it could not be registered
    call,       \* what the psyche call under way is about
    pass,       \* what the subconscious pass under way has read
    reopened,   \* history: how often each concern was moved out of a closed state
    excused,    \* history: broken commitments whose briefing was lost, and how is below
    faults

rows == <<concern, ledger>>
own == <<alive, number>>
histories == <<reopened, excused, faults>>
vars == <<rows, lastNumber, briefing, pc, own, call, pass, histories>>

-----------------------------------------------------------------------------
Active(c) == concern[c].state \in {"open", "committed"}
Closed(c) == concern[c].state = "closed"

Commitments == DOMAIN ledger
InState(x) == {m \in Commitments : ledger[m].state = x}

NoCall == [on |-> NoConcern, commitment |-> 0]
NoPass == [todo |-> {}, seen |-> {}, asked |-> 0, upTo |-> 0,
           pending |-> {}, broken |-> {}, late |-> FALSE]

InCall == {"touching", "closing", "committing", "moving", "reporting"}
InPass == {"decaying", "flagging", "asking"}

Absent == [state |-> "none", low |-> FALSE, touched |-> 0, flagged |-> FALSE]

TypeOK ==
    /\ concern \in [Concerns ->
            [state: {"none", "open", "committed", "closed"},
             low: BOOLEAN, touched: 0..lastNumber, flagged: BOOLEAN]]
    /\ ledger \in Seq([of: Concerns, state: {"pending", "fulfilled", "broken"},
                       by: Slots \cup {NoConcern}, reports: Nat])
    /\ lastNumber \in 0..MaxSessions
    /\ briefing \subseteq Commitments
    /\ pc \in [Slots -> {"gone", "ready"} \cup InCall \cup InPass]
    /\ alive \in [Slots -> BOOLEAN]
    /\ number \in [Slots -> 0..lastNumber]
    /\ call \in [Slots -> [on: Concerns \cup {NoConcern}, commitment: Commitments \cup {0}]]
    /\ pass \in [Slots -> [todo: SUBSET Concerns, seen: SUBSET Concerns, asked: 0..2,
                           upTo: Commitments \cup {0}, pending: SUBSET Commitments,
                           broken: SUBSET Commitments, late: BOOLEAN]]
    /\ reopened \in [Concerns -> Nat]
    /\ excused \subseteq Commitments
    /\ faults \in 0..MaxFaults

Init ==
    /\ concern = [c \in Concerns |-> Absent]
    /\ ledger = <<>>
    /\ lastNumber = 0
    /\ briefing = {}
    /\ pc = [s \in Slots |-> "gone"]
    /\ alive = [s \in Slots |-> FALSE]
    /\ number = [s \in Slots |-> 0]
    /\ call = [s \in Slots |-> NoCall]
    /\ pass = [s \in Slots |-> NoPass]
    /\ reopened = [c \in Concerns |-> 0]
    /\ excused = {}
    /\ faults = 0

\* The operators named Mutant... are plausible bugs, each in the form of the
\* definition that follows it; no specification uses them.

Fault == faults < MaxFaults /\ faults' = faults + 1

-----------------------------------------------------------------------------
(* A session. *)

Registers(s) ==
    /\ pc[s] = "gone"
    /\ lastNumber < MaxSessions
    /\ lastNumber' = lastNumber + 1
    /\ number' = [number EXCEPT ![s] = lastNumber + 1]
    /\ pc' = [pc EXCEPT ![s] = "ready"]
    /\ alive' = [alive EXCEPT ![s] = TRUE]
    /\ UNCHANGED <<rows, briefing, call, pass, histories>>

\* The database cannot be opened or written: the session runs under the number 0.
RegistersNot(s) ==
    /\ pc[s] = "gone"
    /\ Fault
    /\ number' = [number EXCEPT ![s] = 0]
    /\ pc' = [pc EXCEPT ![s] = "ready"]
    /\ alive' = [alive EXCEPT ![s] = TRUE]
    /\ UNCHANGED <<rows, lastNumber, briefing, call, pass, reopened, excused>>

\* The runner is killed or fails: there will be no pass.  A call or a pass under way
\* goes on.
Dies(s) ==
    /\ alive[s]
    /\ Fault
    /\ alive' = [alive EXCEPT ![s] = FALSE]
    /\ pc' = [pc EXCEPT ![s] = IF @ = "ready" THEN "gone" ELSE @]
    /\ number' = [number EXCEPT ![s] = IF pc[s] = "ready" THEN 0 ELSE @]
    /\ excused' = excused \cup InState("broken")
    /\ UNCHANGED <<rows, lastNumber, briefing, call, pass, reopened>>

-----------------------------------------------------------------------------
(* phyl-tool-psyche: one call at a time for each session. *)

Begins(s, to, about) ==
    /\ pc[s] = "ready"
    /\ pc' = [pc EXCEPT ![s] = to]
    /\ call' = [call EXCEPT ![s] = about]
    /\ UNCHANGED <<rows, lastNumber, briefing, own, pass, histories>>

About(c) == [NoCall EXCEPT !.on = c]

Returns(s) ==
    /\ pc' = [pc EXCEPT ![s] = IF alive[s] THEN "ready" ELSE "gone"]
    /\ number' = [number EXCEPT ![s] = IF alive[s] THEN @ ELSE 0]
    /\ call' = [call EXCEPT ![s] = NoCall]
    /\ UNCHANGED <<lastNumber, briefing, alive, pass>>

OpenConcern(s, c) ==
    /\ pc[s] = "ready"
    /\ concern[c].state = "none"
    /\ \E low \in BOOLEAN :
          concern' = [concern EXCEPT ![c] = [state |-> "open", low |-> low,
                                             touched |-> number[s], flagged |-> FALSE]]
    /\ UNCHANGED <<ledger, lastNumber, briefing, pc, own, call, pass, histories>>

ReadToTouch(s, c) == Active(c) /\ Begins(s, "touching", About(c))

\* The new salience is computed from the one that was read and any delta.
Touch(s) ==
    /\ pc[s] = "touching"
    /\ \E low \in BOOLEAN :
          concern' = [concern EXCEPT ![call[s].on].low = low,
                                     ![call[s].on].touched = number[s]]
    /\ Returns(s)
    /\ UNCHANGED <<ledger, histories>>

ReadToClose(s, c) == Active(c) /\ Begins(s, "closing", About(c))

\* resolve_concern and abandon_concern: resolved and abandoned are the same to the others.
Close(s) ==
    /\ pc[s] = "closing"
    /\ concern' = [concern EXCEPT ![call[s].on].state = "closed"]
    /\ Returns(s)
    /\ UNCHANGED <<ledger, histories>>

\* A concern may be committed to again.
MutantReadToCommit(s, c) ==
    /\ c \in Conative
    /\ Active(c)
    /\ Len(ledger) < MaxCommitments
    /\ Begins(s, "committing", About(c))

ReadToCommit(s, c) ==
    /\ c \in Conative
    /\ concern[c].state = "open"
    /\ Len(ledger) < MaxCommitments
    /\ Begins(s, "committing", About(c))

InsertCommitment(s) ==
    /\ pc[s] = "committing"
    /\ ledger' = Append(ledger, [of |-> call[s].on, state |-> "pending",
                                 by |-> NoConcern, reports |-> 0])
    /\ pc' = [pc EXCEPT ![s] = "moving"]
    /\ UNCHANGED <<concern, lastNumber, briefing, own, call, pass, histories>>

MoveConcern(s) ==
    /\ pc[s] = "moving"
    /\ LET c == call[s].on
       IN  /\ concern' = [concern EXCEPT ![c].state = "committed"]
           /\ reopened' = [reopened EXCEPT ![c] = IF Closed(c) THEN @ + 1 ELSE @]
    /\ Returns(s)
    /\ UNCHANGED <<ledger, excused, faults>>

ReadToReport(s, m) ==
    /\ ledger[m].state = "pending"
    /\ Begins(s, "reporting", [NoCall EXCEPT !.commitment = m])

\* The concern stays committed, whatever is reported.
ReportCommitment(s) ==
    /\ pc[s] = "reporting"
    /\ LET m == call[s].commitment
       IN  \E verdict \in {"fulfilled", "broken"} :
              /\ ledger' = [ledger EXCEPT ![m].state = verdict, ![m].by = s,
                                          ![m].reports = @ + 1]
              /\ excused' = IF verdict = "broken" /\ ~alive[s] THEN excused \cup {m}
                            ELSE excused \ {m}
    /\ Returns(s)
    /\ UNCHANGED <<concern, reopened, faults>>

\* A statement fails, or waits for the database for more than five seconds.
\* commit_to does not mind if its second statement does.
CallFails(s) ==
    /\ pc[s] \in InCall
    /\ Fault
    /\ Returns(s)
    /\ UNCHANGED <<rows, reopened, excused>>

\* The tool of a dead runner dies too.
CallIsCut(s) ==
    /\ pc[s] \in InCall
    /\ ~alive[s]
    /\ Returns(s)
    /\ UNCHANGED <<rows, histories>>

Calls(s) ==
    \/ \E c \in Concerns :
          OpenConcern(s, c) \/ ReadToTouch(s, c) \/ ReadToClose(s, c) \/ ReadToCommit(s, c)
    \/ \E m \in Commitments : ReadToReport(s, m)
    \/ Touch(s) \/ Close(s) \/ InsertCommitment(s) \/ MoveConcern(s) \/ ReportCommitment(s)
    \/ CallFails(s) \/ CallIsCut(s)

-----------------------------------------------------------------------------
(* phyl-psyche-sub, after the finalization of a session. *)

PassGoes(s, from, to) ==
    /\ pc[s] = from
    /\ pc' = [pc EXCEPT ![s] = to]
    /\ UNCHANGED <<lastNumber, call, reopened, faults>>

Ends(s) ==
    /\ alive' = [alive EXCEPT ![s] = FALSE]
    /\ number' = [number EXCEPT ![s] = 0]

\* run_decay: what is active and has not been touched in this session.
StartPass(s) ==
    /\ PassGoes(s, "ready", "decaying")
    /\ LET stale == {c \in Concerns : Active(c) /\ concern[c].touched < number[s]}
       IN  pass' = [pass EXCEPT ![s] = [NoPass EXCEPT !.todo = stale,
                                            !.seen = {c \in stale : concern[c].low}]]
    /\ UNCHANGED <<rows, briefing, own, excused>>

\* The new salience is computed from the one that was read.
Decay(s, c) ==
    /\ PassGoes(s, "decaying", "decaying")
    /\ c \in pass[s].todo
    /\ \E low \in BOOLEAN :
          /\ c \in pass[s].seen => low
          /\ concern' = [concern EXCEPT ![c].low = low]
    /\ pass' = [pass EXCEPT ![s].todo = @ \ {c}]
    /\ UNCHANGED <<ledger, briefing, own, excused>>

\* Those are flagged that were low before they decayed.
MutantReadToFlag(s) ==
    /\ PassGoes(s, "decaying", "flagging")
    /\ pass[s].todo = {}
    /\ pass' = [pass EXCEPT ![s].todo = {c \in @ \cup pass[s].seen : ~concern[c].flagged},
                            ![s].seen = {}]
    /\ UNCHANGED <<rows, briefing, own, excused>>

\* flag_for_abandonment
ReadToFlag(s) ==
    /\ PassGoes(s, "decaying", "flagging")
    /\ pass[s].todo = {}
    /\ pass' = [pass EXCEPT ![s].todo = {c \in Concerns : Active(c) /\ concern[c].low
                                                                    /\ ~concern[c].flagged},
                            ![s].seen = {}]
    /\ UNCHANGED <<rows, briefing, own, excused>>

Flag(s, c) ==
    /\ PassGoes(s, "flagging", "flagging")
    /\ c \in pass[s].todo
    /\ concern' = [concern EXCEPT ![c].flagged = TRUE]
    /\ pass' = [pass EXCEPT ![s].todo = @ \ {c}]
    /\ UNCHANGED <<ledger, briefing, own, excused>>

BeginBriefing(s) ==
    /\ PassGoes(s, "flagging", "asking")
    /\ pass[s].todo = {}
    /\ pass' = [pass EXCEPT ![s].upTo = Len(ledger)]
    /\ UNCHANGED <<rows, briefing, own, excused>>

MutantAskOrder == <<"broken", "pending">>

\* assemble_briefing: query_commitments is called twice.
AskOrder == <<"pending", "broken">>

\* What the last briefing had is not repeated.
MutantQueryCommitments(state) == InState(state) \ briefing

QueryCommitments(state) == InState(state)

Ask(s) ==
    /\ PassGoes(s, "asking", "asking")
    /\ pass[s].asked < 2
    /\ LET state == AskOrder[pass[s].asked + 1]
           found == QueryCommitments(state)
       IN  pass' = [pass EXCEPT ![s].asked = @ + 1,
                                ![s].pending = IF state = "pending" THEN found ELSE @,
                                ![s].broken = IF state = "broken" THEN found ELSE @]
    /\ UNCHANGED <<rows, briefing, own, excused>>

\* A pass that has asked before this is late with what it knows.
WriteBriefing(s) ==
    /\ PassGoes(s, "asking", "gone")
    /\ pass[s].asked = 2
    /\ briefing' = pass[s].broken
    /\ pass' = [t \in Slots |->
                   IF t = s THEN NoPass
                   ELSE [pass[t] EXCEPT !.late = @ \/ pass[t].asked > 0]]
    /\ excused' = IF pass[s].late THEN excused \cup InState("broken")
                  ELSE excused \ pass[s].broken
    /\ Ends(s)
    /\ UNCHANGED rows

\* A statement of the pass fails, or the pass is not installed; if it fails when it
\* writes, the file may be left empty.
PassFails(s) ==
    /\ pc[s] \in InPass
    /\ Fault
    /\ pc' = [pc EXCEPT ![s] = "gone"]
    /\ pass' = [pass EXCEPT ![s] = NoPass]
    /\ briefing' \in {briefing} \cup IF pass[s].asked = 2 THEN {{}} ELSE {}
    /\ excused' = excused \cup InState("broken")
    /\ Ends(s)
    /\ UNCHANGED <<rows, lastNumber, call, reopened>>

Passes(s) ==
    \/ StartPass(s)
    \/ \E c \in Concerns : Decay(s, c) \/ Flag(s, c)
    \/ ReadToFlag(s) \/ BeginBriefing(s) \/ Ask(s) \/ WriteBriefing(s) \/ PassFails(s)

-----------------------------------------------------------------------------
Next ==
    \E s \in Slots : Registers(s) \/ RegistersNot(s) \/ Dies(s) \/ Calls(s) \/ Passes(s)

Spec == Init /\ [][Next]_vars

-----------------------------------------------------------------------------
(* Properties. *)

CommitmentsOf(c) == {m \in Commitments : ledger[m].of = c}

\* What a handler decides on a row that others have changed meanwhile is bounded by the
\* sessions that run at once.  A closed concern comes back to life only through a
\* commit_to that overlapped with its closing; a concern has one commitment, but for
\* those that overlapped and those whose second statement failed; and a report stands,
\* but for those that overlapped with it.  "commitment already reported as ..."
StaleBound ==
    /\ \A c \in Concerns : reopened[c] <= Cardinality(Slots) - 1
    /\ \A c \in Concerns : Cardinality(CommitmentsOf(c)) <= Cardinality(Slots) + faults
    /\ \A m \in Commitments : ledger[m].reports <= Cardinality(Slots)

\* A commitment that was there when a briefing was begun and is not fulfilled when it is
\* complete is in one of its lists, even if it is reported on between the two queries.
NothingUnlisted ==
    [][\A s \in Slots :
          (pass[s].asked < 2 /\ pass'[s].asked = 2) =>
              \A m \in 1..pass[s].upTo :
                  ledger[m].state = "fulfilled" \/ m \in pass'[s].pending \cup pass'[s].broken]_vars

\* Whether the pass of the session in s will still look for broken commitments.
StillAsks(s) ==
    \/ pc[s] \in {"ready"} \cup InCall /\ alive[s]
    \/ pc[s] \in InPass

\* Whoever reported a broken commitment has put it into the briefing or still will, and
\* there it stays: unless its session died or its pass failed, or a pass that had asked
\* earlier wrote later.  docs/plan-psyche-system.md: "broken commitments persist in every
\* briefing until reported".
BrokenPersist ==
    \A m \in InState("broken") :
        \/ m \in briefing \cup excused
        \/ StillAsks(ledger[m].by)

StillFlags(s, c) ==
    \/ pc[s] \in {"ready", "decaying"} \cup InCall
    \/ pc[s] = "flagging" /\ c \in pass[s].todo

\* No concern slips below the threshold unseen: it is flagged, or a session that will
\* flag it is still there.  "We don't automatically abandon -- the agent must explicitly
\* disposition flagged concerns".
LowIsFlagged ==
    faults = 0 =>
        \A c \in Concerns :
            Active(c) /\ concern[c].low => concern[c].flagged \/ \E s \in Slots : StillFlags(s, c)

\* The pass of a session does not decay what was last touched in that session, whatever
\* other sessions with higher or lower numbers have touched before.
SparesOwn ==
    \A s \in Slots :
        pc[s] = "decaying" => \A c \in pass[s].todo : concern[c].touched # number[s]

\* The decay errs in neither direction: what fades is flagged, and what the session of
\* the pass has just touched does not fade.
FlagsFollowSalience == LowIsFlagged /\ SparesOwn
=============================================================================
