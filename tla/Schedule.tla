------------------------------ MODULE Schedule ------------------------------
(***************************************************************************)
(* The agent's agenda: the directory schedule/ that phyl-tool-self         *)
(* processes, one for each session, write and cancel entries in, and that  *)
(* phyl-sched scans to turn due entries into sessions.  Nothing but the    *)
(* file system connects them.                                              *)
(*                                                                         *)
(* The daemon is what its clients see of it: reachable or not, with room   *)
(* for a session or not, and listing the sessions that run; they survive   *)
(* it.  `lapses` counts the faults and bounds them.                        *)
(***************************************************************************)
EXTENDS Naturals, FiniteSets

CONSTANTS
    Entries,        \* schedule entries, each with a fresh uuid
    Poison,         \* those whose prompt the daemon can never start: a NUL byte in it
    Asking,         \* those whose sessions wait for a human, or for a tool that never answers
    Tools,          \* phyl-tool-self processes
    NoEntry,        \* the null entry
    MaxConcurrent,  \* MAX_CONCURRENT of phyl-sched (3)
    MaxScheduled,   \* MAX_SCHEDULED of phyl-tool-self (50)
    MaxTime,        \* bound: the last instant of the clock
    MaxLapses       \* bound: how many faults there are

ASSUME EntriesFinite == IsFiniteSet(Entries)
ASSUME ToolsFinite == IsFiniteSet(Tools)
ASSUME PoisonedEntries == Poison \subseteq Entries
ASSUME AskingEntries == Asking \subseteq Entries
ASSUME NoEntryIsNone == NoEntry \notin Entries
ASSUME LimitsPositive == {MaxConcurrent, MaxScheduled} \subseteq Nat \ {0}
ASSUME BoundsNat == {MaxTime, MaxLapses} \subseteq Nat

VARIABLES
    now,        \* the clock
    files,      \* the entries with a <uuid>.json in schedule/
    at,         \* when each entry is due
    corrupt,    \* entries whose file no longer parses
    tool,       \* each tool: the call it serves and the entry it is writing
    scheduled,  \* history: entries the agent was promised
    cancelled,  \* history: entries whose cancellation succeeded
    sched,      \* where the scan loop is
    batch,      \* due entries of this scan still to be fired
    current,    \* the entry fired and not yet removed
    inFlight,   \* in_flight: the sessions phyl-sched believes it has running
    daemon,     \* "up", "full" with as many sessions as it may run, or "down"
    running,    \* the sessions made from entries that run
    fired,      \* how many sessions each entry was made into
    lapses      \* faults so far

agenda == <<files, at, corrupt, scheduled, cancelled>>
loop == <<sched, batch, current, inFlight>>
sessions == <<running, fired>>
vars == <<now, agenda, tool, loop, daemon, sessions, lapses>>

Times == 0..MaxTime
\* The k-th session made from an entry.
Launches == Entries \X (1..(MaxLapses + 1))

IdleTool == [pc |-> "idle", entry |-> NoEntry]
Writing == {t \in Tools : tool[t].pc \in {"spawn_session", "sleep_until"}}
BeingWritten == {tool[t].entry : t \in Writing}

Due == {e \in files : at[e] <= now}
Fired == {e \in Entries : fired[e] > 0}

TypeOK ==
    /\ now \in Times
    /\ files \subseteq Entries /\ corrupt \subseteq Entries
    /\ scheduled \subseteq Entries /\ cancelled \subseteq Entries
    /\ at \in [Entries -> Times]
    /\ tool \in [Tools -> [pc: {"idle"}, entry: {NoEntry}]
                    \cup [pc: {"spawn_session", "sleep_until", "asleep"}, entry: Entries]]
    /\ sched \in {"down", "awake", "pruned", "firing", "removing", "resting"}
    /\ batch \subseteq Entries
    /\ current \in Entries \cup {NoEntry}
    /\ sched = "removing" <=> current # NoEntry
    /\ inFlight \subseteq Launches /\ running \subseteq Launches
    /\ daemon \in {"up", "full", "down"}
    /\ fired \in [Entries -> 0..(MaxLapses + 1)]
    /\ lapses \in 0..MaxLapses

Init ==
    /\ now = 0
    /\ files = {} /\ corrupt = {} /\ scheduled = {} /\ cancelled = {}
    /\ at = [e \in Entries |-> 0]
    /\ tool = [t \in Tools |-> IdleTool]
    /\ sched = "down" /\ batch = {} /\ current = NoEntry /\ inFlight = {}
    /\ daemon = "up"
    /\ running = {} /\ fired = [e \in Entries |-> 0]
    /\ lapses = 0

Tick ==
    /\ now < MaxTime
    /\ now' = now + 1
    /\ UNCHANGED <<agenda, tool, loop, daemon, sessions, lapses>>

\* One more fault.
Lapse == lapses < MaxLapses /\ lapses' = lapses + 1

\* The operators named Mutant... are plausible bugs, each in the form of the
\* definition that follows it; no specification uses them.

---------------------------------------------------------------------------
(* phyl-tool-self: spawn_session with a time, sleep_until, cancel_scheduled. *)

MutantCheckAfterFull(t, call, e, when) ==
    /\ tool[t] = IdleTool
    /\ when > now
    /\ e \notin scheduled \cup BeingWritten
    /\ Cardinality(files) <= MaxScheduled
    /\ at' = [at EXCEPT ![e] = when]
    /\ tool' = [tool EXCEPT ![t] = [pc |-> call, entry |-> e]]
    /\ UNCHANGED <<now, files, corrupt, scheduled, cancelled, loop, daemon, sessions, lapses>>

\* A time in the past is refused.  The json files are counted, then the entry is
\* written beside them.
CountEntries(t, call, e, when) ==
    /\ tool[t] = IdleTool
    /\ when > now
    /\ e \notin scheduled \cup BeingWritten
    /\ Cardinality(files) < MaxScheduled
    /\ at' = [at EXCEPT ![e] = when]
    /\ tool' = [tool EXCEPT ![t] = [pc |-> call, entry |-> e]]
    /\ UNCHANGED <<now, files, corrupt, scheduled, cancelled, loop, daemon, sessions, lapses>>

\* The rename makes the whole file appear at once.  After sleep_until the tool
\* ends the session.
WriteEntry(t) ==
    /\ t \in Writing
    /\ files' = files \cup {tool[t].entry}
    /\ scheduled' = scheduled \cup {tool[t].entry}
    /\ tool' = [tool EXCEPT ![t] =
                  IF @.pc = "sleep_until" THEN [pc |-> "asleep", entry |-> @.entry] ELSE IdleTool]
    /\ UNCHANGED <<now, at, corrupt, cancelled, loop, daemon, sessions, lapses>>

\* The write or the rename fails, or the tool dies with its session: at most a
\* .tmp file stays, which nobody counts or reads.
WriteFails(t) ==
    /\ t \in Writing
    /\ tool' = [tool EXCEPT ![t] = IdleTool]
    /\ UNCHANGED <<now, agenda, loop, daemon, sessions, lapses>>

\* Whether it is there is looked at twice; only the removal counts.
CancelScheduled(t, e) ==
    /\ tool[t] = IdleTool
    /\ e \in files
    /\ files' = files \ {e}
    /\ cancelled' = cancelled \cup {e}
    /\ UNCHANGED <<now, at, corrupt, scheduled, tool, loop, daemon, sessions, lapses>>

---------------------------------------------------------------------------
(* phyl-sched. *)

SchedStarts ==
    /\ sched = "down"
    /\ sched' = "awake"
    /\ inFlight' = {}
    /\ UNCHANGED <<now, agenda, tool, batch, current, daemon, sessions, lapses>>

Wakes ==
    /\ sched = "resting"
    /\ sched' = "awake"
    /\ UNCHANGED <<now, agenda, tool, batch, current, inFlight, daemon, sessions, lapses>>

Prunes(remaining) ==
    /\ sched = "awake"
    /\ sched' = "pruned"
    /\ inFlight' = remaining
    /\ UNCHANGED <<now, agenda, tool, batch, current, daemon, sessions, lapses>>

PruneCompleted == daemon # "down" /\ Prunes(inFlight \cap running)
\* The daemon does not answer as it should: assume they all still run.
PruneFails == Prunes(inFlight)
\* "cannot connect": assume none does.
PruneUnreachable == daemon = "down" /\ Prunes({})

MutantSlots == MaxConcurrent
Slots == MaxConcurrent - Cardinality(inFlight)

\* The earliest of the due entries, as many as there are slots.
Batch(S) ==
    /\ S \subseteq Due \ corrupt
    /\ Cardinality(S) <= Slots
    /\ \A e \in S : \A f \in (Due \ corrupt) \ S : at[e] <= at[f]
    /\ Cardinality(S) < Slots => S = Due \ corrupt

\* A file that does not parse ends the scan.
MutantCorruptEndsScan ==
    /\ sched = "pruned"
    /\ \E S \in SUBSET Due :
          /\ Batch(S)
          /\ batch' = IF files \cap corrupt = {} THEN S ELSE {}
          /\ sched' = IF batch' = {} THEN "resting" ELSE "firing"
    /\ UNCHANGED <<now, agenda, tool, current, inFlight, daemon, sessions, lapses>>

\* No slot: back to sleep.  Otherwise every file is read, and the corrupt ones
\* renamed to .bad.
Scan ==
    /\ sched = "pruned"
    /\ files' = IF Slots > 0 THEN files \ corrupt ELSE files
    /\ \E S \in SUBSET Due :
          /\ Batch(S)
          /\ batch' = S
          /\ sched' = IF S = {} THEN "resting" ELSE "firing"
    /\ UNCHANGED <<now, at, corrupt, scheduled, cancelled, tool, current, inFlight,
                   daemon, sessions, lapses>>

Earliest(e) == e \in batch /\ \A f \in batch : at[e] <= at[f]
Launch(e) == <<e, fired[e] + 1>>

\* What is left of the scan once e is dealt with.
AfterFiring(e) == IF batch = {e} THEN "resting" ELSE "firing"

\* The file is left for later, when the session has ended.
MutantCreateNoRemove(e) ==
    /\ sched = "firing" /\ Earliest(e)
    /\ daemon = "up" /\ e \notin Poison
    /\ fired[e] <= MaxLapses
    /\ running' = running \cup {Launch(e)}
    /\ fired' = [fired EXCEPT ![e] = @ + 1]
    /\ inFlight' = inFlight \cup {Launch(e)}
    /\ batch' = batch \ {e}
    /\ sched' = AfterFiring(e)
    /\ UNCHANGED <<now, agenda, tool, current, daemon, lapses>>

\* POST /sessions succeeds.  The file is not looked at again.
CreateSession(e) ==
    /\ sched = "firing" /\ Earliest(e)
    /\ daemon = "up" /\ e \notin Poison
    /\ running' = running \cup {Launch(e)}
    /\ fired' = [fired EXCEPT ![e] = @ + 1]
    /\ inFlight' = inFlight \cup {Launch(e)}
    /\ batch' = batch \ {e}
    /\ sched' = "removing"
    /\ current' = e
    /\ UNCHANGED <<now, agenda, tool, daemon, lapses>>

\* Whatever came of it, the entry is dealt with.
MutantFailureRemoves(e) ==
    /\ sched = "firing" /\ Earliest(e)
    /\ files' = files \ {e}
    /\ batch' = batch \ {e}
    /\ sched' = AfterFiring(e)
    /\ UNCHANGED <<now, at, corrupt, scheduled, cancelled, tool, current, inFlight,
                   daemon, sessions, lapses>>

\* Refused (429, 500), or no daemon to ask: the entry waits for the next scan.
CreateFails(e) ==
    /\ sched = "firing" /\ Earliest(e)
    /\ batch' = batch \ {e}
    /\ sched' = AfterFiring(e)
    /\ UNCHANGED <<now, agenda, tool, current, inFlight, daemon, sessions, lapses>>

\* The session is made and the connection breaks before the answer.
CreateUnanswered(e) ==
    /\ Lapse
    /\ sched = "firing" /\ Earliest(e)
    /\ daemon = "up" /\ e \notin Poison
    /\ running' = running \cup {Launch(e)}
    /\ fired' = [fired EXCEPT ![e] = @ + 1]
    /\ batch' = batch \ {e}
    /\ sched' = AfterFiring(e)
    /\ UNCHANGED <<now, agenda, tool, current, inFlight, daemon>>

FileHandled ==
    /\ sched = "removing"
    /\ sched' = IF batch = {} THEN "resting" ELSE "firing"
    /\ UNCHANGED <<now, at, corrupt, scheduled, cancelled, tool, batch, inFlight,
                   daemon, sessions>>

\* remove_file; a file that was cancelled meanwhile is an error nobody minds.
RemoveFired ==
    /\ FileHandled
    /\ files' = files \ {current}
    /\ current' = NoEntry
    /\ UNCHANGED lapses

RemoveFails ==
    /\ Lapse
    /\ FileHandled
    /\ current' = NoEntry
    /\ UNCHANGED files

\* Killed, or stopped by SIGINT between two scans: what it has running is kept
\* nowhere.
SchedStops ==
    /\ Lapse
    /\ sched # "down"
    /\ sched' = "down" /\ batch' = {} /\ current' = NoEntry
    /\ UNCHANGED <<now, agenda, tool, inFlight, daemon, sessions>>

---------------------------------------------------------------------------
(* The daemon, its sessions, and whoever edits files by hand. *)

DaemonDown ==
    /\ Lapse
    /\ daemon # "down" /\ daemon' = "down"
    /\ UNCHANGED <<now, agenda, tool, loop, sessions>>

DaemonUp ==
    /\ daemon = "down" /\ daemon' = "up"
    /\ UNCHANGED <<now, agenda, tool, loop, sessions, lapses>>

\* max_concurrent sessions run in it, this agenda's or others, or again fewer.
DaemonFills ==
    /\ daemon = "up" /\ daemon' = "full"
    /\ UNCHANGED <<now, agenda, tool, loop, sessions, lapses>>

DaemonDrains ==
    /\ daemon = "full" /\ daemon' = "up"
    /\ UNCHANGED <<now, agenda, tool, loop, sessions, lapses>>

\* As the daemon lists it.
SessionEnds(x) ==
    /\ x \in running
    /\ running' = running \ {x}
    /\ UNCHANGED <<now, agenda, tool, loop, daemon, fired, lapses>>

FileDamaged(e) ==
    /\ Lapse
    /\ e \in files
    /\ corrupt' = corrupt \cup {e}
    /\ UNCHANGED <<now, files, at, scheduled, cancelled, tool, loop, daemon, sessions>>

---------------------------------------------------------------------------
ToolStep(t) ==
    \/ \E call \in {"spawn_session", "sleep_until"}, e \in Entries, when \in Times :
          CountEntries(t, call, e, when)
    \/ WriteEntry(t) \/ WriteFails(t)
    \/ \E e \in Entries : CancelScheduled(t, e)

SchedStep ==
    \/ SchedStarts \/ Wakes \/ PruneCompleted \/ PruneFails \/ PruneUnreachable \/ Scan
    \/ \E e \in Entries : CreateSession(e) \/ CreateFails(e) \/ CreateUnanswered(e)
    \/ RemoveFired \/ RemoveFails

Next ==
    \/ Tick
    \/ \E t \in Tools : ToolStep(t)
    \/ SchedStep \/ SchedStops
    \/ DaemonDown \/ DaemonUp \/ DaemonFills \/ DaemonDrains
    \/ \E x \in running : SessionEnds(x)
    \/ \E e \in Entries : FileDamaged(e)

Spec == Init /\ [][Next]_vars

\* The clock and the loop go on, phyl-sched and the daemon are restarted.  A daemon that is
\* asked again and again lists its sessions some day, and creates one if it has room
\* whenever it is asked.  Sessions end by their deadline, but for those that wait for
\* what need not come.  The agent need not call its tools.
Fairness ==
    /\ WF_vars(Tick) /\ WF_vars(SchedStep) /\ WF_vars(DaemonUp)
    /\ SF_vars(PruneCompleted)
    /\ \A e \in Entries : SF_vars(CreateSession(e))
    /\ \A x \in (Entries \ Asking) \X (1..(MaxLapses + 1)) : WF_vars(SessionEnds(x))

FairSpec == Spec /\ Fairness

---------------------------------------------------------------------------
(* Properties. *)

\* The count and the write are two steps: sessions that schedule at the same time
\* overshoot the limit, by at most one entry for each tool beyond the first.
ScheduleBound ==
    Cardinality(files) + Cardinality(Writing) <= MaxScheduled - 1 + Cardinality(Tools)

\* What the agent was promised is on the agenda until it was made into a session,
\* cancelled or spoiled, whatever fails or crashes on the way.
NothingDropped == scheduled \subseteq files \cup Fired \cup cancelled \cup corrupt

\* An entry is fired again only for a fault: a crash or a failure between the
\* session and the removal of the file, one session for each.
RefireBound ==
    \A e \in Entries : fired[e] <= 1 + lapses

\* phyl-sched keeps to its limit as far as it knows.  But in_flight is kept in memory,
\* and dropped when the daemon is unreachable: each fault lets at most another
\* MaxConcurrent sessions run beside the forgotten ones.
HerdBound ==
    /\ Cardinality(inFlight) <= MaxConcurrent
    /\ Cardinality(running) <= MaxConcurrent * (1 + lapses)

\* Sessions that may never end, and entries that can never be started, leave a slot.
RoomLeft ==
    Cardinality({x \in running : x[1] \in Asking}) + Cardinality(files \cap Poison)
        < MaxConcurrent

\* A due entry is fired some day, unless it is cancelled or spoiled, if from some time on
\* there is room for it: in the daemon, and among the MaxConcurrent slots beside the sessions
\* that wait for a human or a tool and the entries that can never be started.  On the same
\* terms a session that has ended itself with sleep_until is woken.
DueFires ==
    <>[](RoomLeft /\ daemon # "full") =>
        \A e \in Entries \ Poison :
            /\ (e \in Due) ~> (e \in Fired \cup cancelled \cup corrupt)
            /\ \A t \in Tools : (tool[t] = [pc |-> "asleep", entry |-> e])
                                   ~> (e \in Fired \cup cancelled \cup corrupt)

=============================================================================
