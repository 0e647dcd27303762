------------------------------- MODULE Webhook -------------------------------
(***************************************************************************)
(* The webhook server of phyl-listen: handlers that run concurrently on    *)
(* the async runtime and share a rate limiter and a cache of the delivery  *)
(* ids of the last five minutes, each behind a mutex of its own.           *)
(*                                                                         *)
(* An event is one delivery: the sender may send it again, with the same   *)
(* id, at any time and as often as it likes.  Deliveries that match no     *)
(* hook, are too large or are not signed change nothing and are left out.  *)
(***************************************************************************)
EXTENDS SessionRequests

CONSTANTS
    Handlers,       \* requests that can be served at once
    NoEvent         \* the null event

ASSUME HandlersFinite == IsFiniteSet(Handlers)
ASSUME NoEventIsNone == NoEvent \notin Events

VARIABLES
    handler,    \* each request: how far handle_webhook is, and with which event
    hookSeen,   \* the ids in the DedupCache
    acked       \* history: events whose sender was answered 200 or 202

hookVars == <<handler, hookSeen, acked>>

IdleHandler == [pc |-> "idle", event |-> NoEvent]
CreatingHandlers == {h \in Handlers : handler[h].pc = "creating"}
Creating == {handler[h].event : h \in CreatingHandlers}

HookTypeOK ==
    /\ handler \in [Handlers -> [pc: {"idle"}, event: {NoEvent}]
                        \cup [pc: {"received", "passed", "creating"}, event: Events]]
    /\ hookSeen \subseteq Events
    /\ acked \subseteq Events

HookInit ==
    /\ handler = [h \in Handlers |-> IdleHandler]
    /\ hookSeen = {}
    /\ acked = {}

HookGoes(h, to) == handler' = [handler EXCEPT ![h].pc = to]
HookAnswers(h) == handler' = [handler EXCEPT ![h] = IdleHandler]

HookReceives(h, e) ==
    /\ handler[h] = IdleHandler
    /\ handler' = [handler EXCEPT ![h] = [pc |-> "received", event |-> e]]
    /\ UNCHANGED <<requestVars, hookSeen, acked>>

\* A redelivery takes a place in the window like any other; 429 without one.
HookLimits(h) ==
    /\ handler[h].pc = "received"
    /\ \/ Passes /\ HookGoes(h, "passed")
       \/ Limited /\ HookAnswers(h)
    /\ UNCHANGED <<made, givenUp, lapses, hookSeen, acked>>

\* The id is looked up, and kept only once the session is there.
MutantDedupLater(h) ==
    /\ handler[h].pc = "passed"
    /\ IF made[handler[h].event] > 0
       THEN /\ acked' = acked \cup {handler[h].event}
            /\ HookAnswers(h)
       ELSE HookGoes(h, "creating") /\ UNCHANGED acked
    /\ UNCHANGED <<requestVars, hookSeen>>

\* DedupCache::is_duplicate looks the id up and keeps it in one critical section.
\* A duplicate is answered 200.
HookDedups(h) ==
    /\ handler[h].pc = "passed"
    /\ IF handler[h].event \in hookSeen
       THEN /\ acked' = acked \cup {handler[h].event}
            /\ HookAnswers(h)
            /\ UNCHANGED hookSeen
       ELSE /\ hookSeen' = hookSeen \cup {handler[h].event}
            /\ HookGoes(h, "creating")
            /\ UNCHANGED acked
    /\ UNCHANGED requestVars

\* 202 before the daemon has answered.
MutantAcksFirst(h) ==
    /\ handler[h].pc = "creating"
    /\ acked' = acked \cup {handler[h].event}
    /\ HookAnswers(h)
    /\ UNCHANGED <<requestVars, hookSeen>>

\* 202, or 500; a sender that has hung up by then sees neither.  The id stays in
\* the cache either way.
HookCreates(h) ==
    /\ handler[h].pc = "creating"
    /\ \/ Created(handler[h].event) /\ acked' = acked \cup {handler[h].event}
       \/ NotCreated(handler[h].event) /\ UNCHANGED acked
    /\ HookAnswers(h)
    /\ UNCHANGED <<window, hookSeen>>

\* Five minutes have passed.
HookForgets(e) ==
    /\ Lapse
    /\ e \in hookSeen
    /\ hookSeen' = hookSeen \ {e}
    /\ UNCHANGED <<made, givenUp, window, handler, acked>>

\* phyl-listen stops and is started again: both caches were kept in memory.
HookRestarts ==
    /\ Lapse
    /\ handler' = [h \in Handlers |-> IdleHandler]
    /\ CutOff([h \in CreatingHandlers |-> handler[h].event])
    /\ hookSeen' = {}
    /\ window' = 0
    /\ UNCHANGED acked

HookNext ==
    \/ \E h \in Handlers :
          \/ \E e \in Events : HookReceives(h, e)
          \/ HookLimits(h) \/ HookDedups(h) \/ HookCreates(h)
    \/ \E e \in Events : HookForgets(e)
    \/ HookRestarts
    \/ WindowSlides /\ UNCHANGED hookVars

\* A sender that was told its delivery arrived can rely on the session: it is there
\* or being made, or its one request was given up.  (Then the redelivery that was to
\* repair this was answered as a duplicate.)
AckedIsMade ==
    \A e \in acked : made[e] > 0 \/ e \in Creating \/ e \in givenUp
=============================================================================
