------------------------------ MODULE FileWatch ------------------------------
(***************************************************************************)
(* A [[listen.watch]] of phyl-listen: one task that receives the changes   *)
(* the notify library reports, waits until a file has been quiet for the   *)
(* debounce time, and makes a session of it.  The changes that match no    *)
(* glob or no configured event type change nothing and are left out.       *)
(*                                                                         *)
(* An event is a watched file; it may change again and again.              *)
(***************************************************************************)
EXTENDS SessionRequests

CONSTANT MaxChanges     \* bound: how often a file changes

ASSUME MaxChangesNat == MaxChanges \in Nat

VARIABLES
    changes,    \* how often each file has changed
    notified,   \* how many of the changes are still in the channel
    debouncing, \* debounce_state: "no", "fresh" or "settled" for each file
    firing,     \* to_fire: the files that are still to become sessions
    told        \* history: how many of the changes have been decided on, or forgotten

watchVars == <<changes, notified, debouncing, firing, told>>

WatchTypeOK ==
    /\ changes \in [Events -> 0..MaxChanges]
    /\ notified \in [Events -> 0..MaxChanges]
    /\ debouncing \in [Events -> {"no", "fresh", "settled"}]
    /\ firing \subseteq Events
    /\ told \in [Events -> 0..MaxChanges]

WatchInit ==
    /\ changes = [f \in Events |-> 0]
    /\ notified = [f \in Events |-> 0]
    /\ debouncing = [f \in Events |-> "no"]
    /\ firing = {}
    /\ told = [f \in Events |-> 0]

\* The channel holds 256 changes; a notifier that finds it full waits.
FileChanges(f) ==
    /\ changes[f] < MaxChanges
    /\ changes' = [changes EXCEPT ![f] = @ + 1]
    /\ notified' = [notified EXCEPT ![f] = @ + 1]
    /\ UNCHANGED <<requestVars, debouncing, firing, told>>

\* The task takes changes out of the channel only between two rounds of sessions.  A
\* file that was about to settle waits again.
WatchReceives(f) ==
    /\ firing = {}
    /\ notified[f] > 0
    /\ notified' = [notified EXCEPT ![f] = @ - 1]
    /\ debouncing' = [debouncing EXCEPT ![f] = "fresh"]
    /\ UNCHANGED <<requestVars, changes, firing, told>>

\* The debounce time has passed since the last change that was received.
Settles(f) ==
    /\ debouncing[f] = "fresh"
    /\ debouncing' = [debouncing EXCEPT ![f] = "settled"]
    /\ UNCHANGED <<requestVars, changes, notified, firing, told>>

SettledFiles == {f \in Events : debouncing[f] = "settled"}

\* The whole map is drained, not only what has settled.
MutantDrains ==
    /\ firing = {}
    /\ SettledFiles # {}
    /\ firing' = SettledFiles
    /\ debouncing' = [f \in Events |-> "no"]
    /\ UNCHANGED <<requestVars, changes, notified, told>>

\* The top of the loop: debounce_state.retain.
WatchCollects ==
    /\ firing = {}
    /\ SettledFiles # {}
    /\ firing' = SettledFiles
    /\ debouncing' = [f \in Events |-> IF f \in SettledFiles THEN "no" ELSE debouncing[f]]
    /\ UNCHANGED <<requestVars, changes, notified, told>>

\* One session for all changes of a file that have been received, unless the rate
\* limiter drops them.
WatchFires(f) ==
    /\ f \in firing
    /\ firing' = firing \ {f}
    /\ told' = [told EXCEPT ![f] = changes[f] - notified[f]]
    /\ \/ Passes /\ (Created(f) \/ NotCreated(f))
       \/ Limited /\ UNCHANGED <<made, givenUp, lapses>>
    /\ UNCHANGED <<changes, notified, debouncing>>

\* phyl-listen stops and is started again: what it had not fired is forgotten, and
\* what changes in between is not noticed.  A request may be under way.
WatchRestarts ==
    /\ Lapse
    /\ notified' = [f \in Events |-> 0]
    /\ debouncing' = [f \in Events |-> "no"]
    /\ \E request \in {{}} \cup {{f} : f \in firing} : CutOff([f \in request |-> f])
    /\ firing' = {}
    /\ told' = changes
    /\ window' = 0
    /\ UNCHANGED changes

WatchNext ==
    \/ \E f \in Events :
          FileChanges(f) \/ WatchReceives(f) \/ Settles(f) \/ WatchFires(f)
    \/ WatchCollects \/ WatchRestarts
    \/ WindowSlides /\ UNCHANGED watchVars

\* A change that no session was asked for is still on its way to one: in the channel,
\* in the debounce map or among the files to fire.
NoChangeIsLost ==
    \A f \in Events :
        changes[f] > told[f] + notified[f] => debouncing[f] # "no" \/ f \in firing
=============================================================================
