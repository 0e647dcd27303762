----------------------------- MODULE SignalInbox -----------------------------
(***************************************************************************)
(* The inbound half of phyl-bridge-signal: signal_listener fetches what    *)
(* has arrived, and what the owner wrote becomes a session.                *)
(*                                                                         *)
(* `signal-cli receive` takes the messages off the server, and the bridge  *)
(* keeps them in memory only.  The queue of questions that messages could  *)
(* answer is left out: no program logs a question, so it stays empty.      *)
(***************************************************************************)
EXTENDS Naturals, SequencesExt

CONSTANT MaxMessages    \* bound: messages that are sent to the bridge's number

ASSUME MaxMessagesNat == MaxMessages \in Nat

Messages == 1..MaxMessages

VARIABLES
    sent,       \* how many messages were sent to it; they are numbered
    fromOwner,  \* those that have the owner's number
    waiting,    \* at the Signal server
    batch,      \* fetched and not processed yet
    inboxPc,    \* "idle" or "batch"
    posted,     \* history: messages in the order in which they were posted to the daemon
    sessions,   \* how many sessions each was made into
    reply,      \* what the owner was told of each: "nothing", "started" or "failed"
    lost        \* history: messages that were in memory when the bridge died

inboxVars == <<sent, fromOwner, waiting, batch, inboxPc, posted, sessions, reply, lost>>

InboxInit ==
    /\ sent = 0 /\ fromOwner = {}
    /\ waiting = <<>> /\ batch = <<>>
    /\ inboxPc = "idle"
    /\ posted = <<>>
    /\ sessions = [m \in Messages |-> 0]
    /\ reply = [m \in Messages |-> "nothing"]
    /\ lost = {}

\* The operators named Mutant... are plausible bugs, each in the form of the
\* definition that follows it; no specification uses them.

MessageArrives ==
    /\ sent < MaxMessages
    /\ sent' = sent + 1
    /\ fromOwner' \in {fromOwner, fromOwner \cup {sent'}}
    /\ waiting' = Append(waiting, sent')
    /\ UNCHANGED <<batch, inboxPc, posted, sessions, reply, lost>>

\* signal_receive: what is on stdout counts, whatever the exit code says.
Receives ==
    /\ inboxPc = "idle" /\ waiting # <<>>
    /\ batch' = waiting /\ waiting' = <<>>
    /\ inboxPc' = "batch"
    /\ UNCHANGED <<sent, fromOwner, posted, sessions, reply, lost>>

BatchDone ==
    /\ inboxPc = "batch" /\ batch = <<>>
    /\ inboxPc' = "idle"
    /\ UNCHANGED <<sent, fromOwner, waiting, batch, posted, sessions, reply, lost>>

\* The rest of the batch is not looked at.
MutantIgnoresStranger ==
    /\ inboxPc = "batch" /\ batch # <<>>
    /\ Head(batch) \notin fromOwner
    /\ batch' = <<>>
    /\ UNCHANGED <<sent, fromOwner, waiting, inboxPc, posted, sessions, reply, lost>>

IgnoresStranger ==
    /\ inboxPc = "batch" /\ batch # <<>>
    /\ Head(batch) \notin fromOwner
    /\ batch' = Tail(batch)
    /\ UNCHANGED <<sent, fromOwner, waiting, inboxPc, posted, sessions, reply, lost>>

\* process_inbound asks the daemon for a session.  daemon_post does not look at the status:
\* a refusal (too many sessions, no prompt) is an answer like any other.
PostsPrompt ==
    /\ inboxPc = "batch" /\ batch # <<>>
    /\ LET m == Head(batch)
       IN  /\ m \in fromOwner
           /\ posted' = Append(posted, m)
           /\ \E answer \in {"started", "failed"}, made \in {0, 1} :
                 /\ sessions' = [sessions EXCEPT ![m] = @ + made]
                 /\ reply' \in {reply, [reply EXCEPT ![m] = answer]}   \* signal_send may fail
    /\ batch' = Tail(batch)
    /\ UNCHANGED <<sent, fromOwner, waiting, inboxPc, lost>>

\* With a request under way, or between two.
BridgeDies ==
    /\ inboxPc = "batch"
    /\ lost' = lost \cup Range(batch)
    /\ batch' = <<>>
    /\ inboxPc' = "idle"
    /\ \/ UNCHANGED sessions
       \/ /\ batch # <<>> /\ Head(batch) \in fromOwner
          /\ sessions' = [sessions EXCEPT ![Head(batch)] = @ + 1]
    /\ UNCHANGED <<sent, fromOwner, waiting, posted, reply>>

InboxNext ==
    \/ MessageArrives \/ Receives \/ BatchDone \/ IgnoresStranger \/ PostsPrompt \/ BridgeDies

-----------------------------------------------------------------------------
(* Properties. *)

\* Each message of the owner is asked for at most once and in the order it was sent; when
\* the bridge is idle it has asked for every one it fetched, unless it died over the batch.
\* Nobody else's message is made into a session.
MessagesAccountedFor ==
    /\ \A m \in Messages : sessions[m] <= IF m \in fromOwner THEN 1 ELSE 0
    /\ \A i, j \in DOMAIN posted : i < j => posted[i] < posted[j]
    /\ fromOwner \subseteq Range(waiting) \cup Range(batch) \cup Range(posted) \cup lost
=============================================================================
