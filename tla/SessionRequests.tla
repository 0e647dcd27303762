--------------------------- MODULE SessionRequests ---------------------------
(***************************************************************************)
(* What the event sources (webhooks, event streams, watched files, polled  *)
(* commands) share: events that are to become sessions, the one request    *)
(* they make of the daemon, and the caches that keep them in bounds.       *)
(*                                                                         *)
(* The module has no Next: each source has its own.                        *)
(***************************************************************************)
EXTENDS Naturals, FiniteSets

CONSTANTS
    MaxEvents,      \* bound: events of a source
    Limit,          \* rate_limit of the source, in sessions per minute
    MaxLapses       \* bound: how often a source forgets what it has seen

ASSUME EventBoundsNat == MaxEvents \in Nat \ {0} /\ MaxLapses \in Nat
ASSUME LimitPositive == Limit \in Nat \ {0}

Events == 1..MaxEvents

\* The operators named Mutant... are plausible bugs, each in the form of the
\* definition that follows it; no specification uses them.

VARIABLES
    made,       \* how many sessions each event was made into
    givenUp,    \* history: events whose request was refused, cut off or unanswered
    lapses,     \* how often a cache or a state file was lost
    window      \* RateLimiter: how many events passed in the last minute

requestVars == <<made, givenUp, lapses, window>>

RequestsTypeOK ==
    /\ made \in [Events -> Nat]
    /\ givenUp \subseteq Events
    /\ lapses \in 0..MaxLapses
    /\ window \in 0..Limit

RequestsInit ==
    /\ made = [e \in Events |-> 0]
    /\ givenUp = {}
    /\ lapses = 0
    /\ window = 0

Lapse == lapses < MaxLapses /\ lapses' = lapses + 1

\* create_session returns Ok: the daemon answered with success.
Created(e) ==
    /\ made' = [made EXCEPT ![e] = @ + 1]
    /\ UNCHANGED <<givenUp, lapses>>

\* It returns Err.  The daemon refused or is down; or it made the session, and
\* the answer was lost.
NotCreated(e) ==
    /\ givenUp' = givenUp \cup {e}
    /\ made' \in {made, [made EXCEPT ![e] = @ + 1]}
    /\ UNCHANGED lapses

\* The source dies with these requests under way, each for the event it is mapped to;
\* any of them may have come through.
CutOff(requests) ==
    /\ givenUp' = givenUp \cup {requests[r] : r \in DOMAIN requests}
    /\ \E through \in SUBSET DOMAIN requests :
          made' = [e \in Events |-> made[e] + Cardinality({r \in through : requests[r] = e})]

\* RateLimiter::check, one critical section.
Passes == window < Limit /\ window' = window + 1
Limited == window >= Limit /\ UNCHANGED window

\* The oldest entry leaves the sliding window.
WindowSlides ==
    /\ window > 0
    /\ window' = window - 1
    /\ UNCHANGED <<made, givenUp, lapses>>
=============================================================================
