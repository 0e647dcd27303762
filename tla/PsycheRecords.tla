---------------------------- MODULE PsycheRecords ----------------------------
(***************************************************************************)
(* What Psyche leaves out of psyche.db: the list of concerns that were     *)
(* spawned from a concern, the records of knowledge, and escalations.      *)
(*                                                                         *)
(* As there, each SQL statement is a step.  The list is a JSON array in a  *)
(* column: it is read, appended to in the tool, and written as a whole.    *)
(* There is one concern that others are spawned from.                      *)
(***************************************************************************)
EXTENDS Naturals, FiniteSets

CONSTANTS
    Tellers,        \* sessions that run at once, each with its phyl-tool-psyche
    Children,       \* bound: concerns that are opened with spawned_from, or named as spawned
    Records,        \* bound: rows of kb_records, and of escalations
    MaxFailures     \* bound: statements that fail or are cut off

ASSUME TellersFinite == IsFiniteSet(Tellers)
ASSUME MaxFailuresNat == MaxFailures \in Nat

VARIABLES
    closed,         \* the concern is resolved
    spawned,        \* its column spawned
    children,       \* the concerns that have it in spawned_from
    record,         \* each row of kb_records: "none", "valid", "expired" or "invalid"
    escalations,    \* rows without responded_at; nothing writes that column
    tellPc,         \* of each session's call: "idle", "inserted", "appending", "resolving"
                    \* or "invalidating"
    tell,           \* what it is about: a child or a record, and a list of children
    retrieved,      \* the records each session knows: it made them or was shown them
    invalidations,  \* history: how often each record was invalidated
    disturbed,      \* history: children whose append overlapped with another, failed, or
                    \* came before the concern was resolved
    failures

recordVars == <<closed, spawned, children, record, escalations, tellPc, tell, retrieved,
                invalidations, disturbed, failures>>

NoTell == [of |-> {}, list |-> {}]

RecordsInit ==
    /\ closed = FALSE /\ spawned = {} /\ children = {}
    /\ record = [r \in Records |-> "none"]
    /\ escalations = {}
    /\ tellPc = [s \in Tellers |-> "idle"]
    /\ tell = [s \in Tellers |-> NoTell]
    /\ retrieved = [s \in Tellers |-> {}]
    /\ invalidations = [r \in Records |-> 0]
    /\ disturbed = {}
    /\ failures = 0

\* The operators named Mutant... are plausible bugs, each in the form of the
\* definition that follows it; no specification uses them.

Tell(s, from, to, about) ==
    /\ tellPc[s] = from
    /\ tellPc' = [tellPc EXCEPT ![s] = to]
    /\ tell' = [tell EXCEPT ![s] = about]

Appending == {s \in Tellers : tellPc[s] = "appending"}
ChildOf(s) == tell[s].of

-----------------------------------------------------------------------------
(* open_concern with spawned_from, in three statements. *)

InsertChild(s, c) ==
    /\ c \notin children \cup spawned
    /\ children' = children \cup {c}
    /\ Tell(s, "idle", "inserted", [of |-> {c}, list |-> {}])
    /\ UNCHANGED <<closed, spawned, record, escalations, retrieved, invalidations, disturbed,
                   failures>>

\* append_to_json_array, which does not ask for the state of the concern.
ReadList(s) ==
    /\ Tell(s, "inserted", "appending", [tell[s] EXCEPT !.list = spawned])
    /\ disturbed' = IF Appending = {} THEN disturbed
                    ELSE disturbed \cup UNION {ChildOf(t) : t \in Appending \cup {s}}
    /\ UNCHANGED <<closed, spawned, children, record, escalations, retrieved, invalidations,
                   failures>>

\* An array that does not parse is empty.
MutantWriteList(s) ==
    /\ spawned' = tell[s].of
    /\ Tell(s, "appending", "idle", NoTell)
    /\ UNCHANGED <<closed, children, record, escalations, retrieved, invalidations, disturbed,
                   failures>>

WriteList(s) ==
    /\ spawned' = tell[s].list \cup tell[s].of
    /\ Tell(s, "appending", "idle", NoTell)
    /\ UNCHANGED <<closed, children, record, escalations, retrieved, invalidations, disturbed,
                   failures>>

-----------------------------------------------------------------------------
(* resolve_concern: the state is read, then the list that the model gives is written. *)

ReadToResolve(s) ==
    /\ ~closed
    /\ \E given \in SUBSET Children : Tell(s, "idle", "resolving", [NoTell EXCEPT !.list = given])
    /\ UNCHANGED <<closed, spawned, children, record, escalations, retrieved, invalidations,
                   disturbed, failures>>

Resolve(s) ==
    /\ closed' = TRUE
    /\ spawned' = tell[s].list
    /\ disturbed' = disturbed \cup children
    /\ Tell(s, "resolving", "idle", NoTell)
    /\ UNCHANGED <<children, record, escalations, retrieved, invalidations, failures>>

-----------------------------------------------------------------------------
(* kb_record, kb_retrieve, kb_invalidate and escalate. *)

Idle(s) == tellPc[s] = "idle" /\ UNCHANGED <<tellPc, tell>>

KbRecord(s, r) ==
    /\ Idle(s) /\ record[r] = "none"
    /\ record' = [record EXCEPT ![r] = "valid"]
    /\ retrieved' = [retrieved EXCEPT ![s] = @ \cup {r}]
    /\ UNCHANGED <<closed, spawned, children, escalations, invalidations, disturbed, failures>>

\* expires_at is compared when a record is asked for.
Expires(r) ==
    /\ record[r] = "valid"
    /\ record' = [record EXCEPT ![r] = "expired"]
    /\ UNCHANGED <<closed, spawned, children, escalations, tellPc, tell, retrieved,
                   invalidations, disturbed, failures>>

KbRetrieve(s) ==
    /\ Idle(s)
    /\ \E found \in SUBSET {r \in Records : record[r] = "valid"} :   \* of a subject
          retrieved' = [retrieved EXCEPT ![s] = @ \cup found]
    /\ UNCHANGED <<closed, spawned, children, record, escalations, invalidations, disturbed,
                   failures>>

ReadToInvalidate(s, r) ==
    /\ r \in retrieved[s] /\ record[r] # "invalid"
    /\ Tell(s, "idle", "invalidating", [of |-> {r}, list |-> {}])
    /\ UNCHANGED <<closed, spawned, children, record, escalations, retrieved, invalidations,
                   disturbed, failures>>

Invalidate(s) ==
    /\ record' = [r \in Records |-> IF r \in tell[s].of THEN "invalid" ELSE record[r]]
    /\ invalidations' = [r \in Records |-> invalidations[r] + Cardinality(tell[s].of \cap {r})]
    /\ Tell(s, "invalidating", "idle", NoTell)
    /\ UNCHANGED <<closed, spawned, children, escalations, retrieved, disturbed, failures>>

Escalate(s, e) ==
    /\ Idle(s)
    /\ escalations' = escalations \cup {e}
    /\ UNCHANGED <<closed, spawned, children, record, retrieved, invalidations, disturbed,
                   failures>>

-----------------------------------------------------------------------------
\* A statement fails or the tool is killed.  That an append fails is ignored.
StatementFails(s) ==
    /\ tellPc[s] # "idle" /\ failures < MaxFailures
    /\ failures' = failures + 1
    /\ disturbed' = IF tellPc[s] \in {"inserted", "appending"}
                    THEN disturbed \cup ChildOf(s) ELSE disturbed
    /\ Tell(s, tellPc[s], "idle", NoTell)
    /\ UNCHANGED <<closed, spawned, children, record, escalations, retrieved, invalidations>>

\* The session ends; another takes its place.
TellerChanges(s) ==
    /\ Idle(s) /\ retrieved[s] # {}
    /\ retrieved' = [retrieved EXCEPT ![s] = {}]
    /\ UNCHANGED <<closed, spawned, children, record, escalations, invalidations, disturbed,
                   failures>>

RecordsNext ==
    \/ \E s \in Tellers :
          \/ \E c \in Children : InsertChild(s, c)
          \/ ReadList(s) \/ WriteList(s) \/ ReadToResolve(s) \/ Resolve(s)
          \/ KbRetrieve(s) \/ Invalidate(s) \/ StatementFails(s) \/ TellerChanges(s)
          \/ \E r \in Records : KbRecord(s, r) \/ ReadToInvalidate(s, r) \/ Escalate(s, r)
    \/ \E r \in Records : Expires(r)

-----------------------------------------------------------------------------
(* Properties. *)

BeingSpawned == UNION {ChildOf(s) : s \in {t \in Tellers : tellPc[t] \in {"inserted", "appending"}}}

\* A concern that was spawned from another is in its list, unless the two were linked at
\* the same time as others, a statement failed, or the list was replaced when the concern
\* was resolved.  Whatever is in the list of an open concern was spawned from it.  And a
\* record is invalidated no more often than there are sessions that found it valid at once.
LinksHold ==
    /\ children \ (BeingSpawned \cup disturbed) \subseteq spawned
    /\ ~closed => spawned \subseteq children
    /\ \A r \in Records : invalidations[r] <= Cardinality(Tellers)
=============================================================================
