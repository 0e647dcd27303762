-------------------------------- MODULE Intake --------------------------------
(***************************************************************************)
(* How events from outside become sessions: phyl-listen with its webhook   *)
(* server, its event streams and its file watches, and phyl-poll.          *)
(*                                                                         *)
(* The sources run at the same time but share nothing: each has its own    *)
(* rate limiter window, cache and files, and each makes its own requests   *)
(* of the daemon.  So a behaviour has one of them.                         *)
(***************************************************************************)
EXTENDS Webhook, SseListener, FileWatch, Poll

VARIABLE source     \* the configured source

vars == <<source, requestVars, hookVars, sseVars, watchVars, pollVars>>

Init ==
    /\ source \in {"hook", "sse", "watch", "poll"}
    /\ RequestsInit
    /\ HookInit /\ SseInit /\ WatchInit /\ PollInit

Hook == source = "hook" /\ HookNext /\ UNCHANGED <<source, sseVars, watchVars, pollVars>>
Sse == source = "sse" /\ SseNext /\ UNCHANGED <<source, hookVars, watchVars, pollVars>>
Watch == source = "watch" /\ WatchNext /\ UNCHANGED <<source, hookVars, sseVars, pollVars>>
Polling == source = "poll" /\ PollNext /\ UNCHANGED <<source, hookVars, sseVars, watchVars>>

Next == Hook \/ Sse \/ Watch \/ Polling

Spec == Init /\ [][Next]_vars

-----------------------------------------------------------------------------
TypeOK ==
    /\ source \in {"hook", "sse", "watch", "poll"}
    /\ RequestsTypeOK
    /\ HookTypeOK /\ SseTypeOK /\ WatchTypeOK /\ PollTypeOK

\* An event is made into one session, however often it is delivered, replayed or polled
\* and in whatever order the handlers run; each loss of a cache or a state file costs at
\* most one more.  A file is made into no more sessions than it had changes.
OncePerEvent ==
    \A e \in Events : made[e] <= IF source = "watch" THEN changes[e] ELSE 1 + lapses

=============================================================================
