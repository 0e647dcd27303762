------------------------------ MODULE Phylactd ------------------------------
(***************************************************************************)
(* The session daemon: the in-memory session table behind its mutex, the   *)
(* handlers of POST /sessions and DELETE /sessions/:id that run            *)
(* concurrently on the async runtime, the reaper task, and what happens to *)
(* all of it when the daemon goes down and is started again.               *)
(*                                                                         *)
(* Every critical section of the mutex is one action, except the reaper's, *)
(* which holds it across the probe of a process and the reading of its     *)
(* log: `probed` names the session in between, and the mutex is free when  *)
(* it names none.                                                          *)
(***************************************************************************)
EXTENDS RunnerProcess, Naturals

CONSTANTS
    Creators,       \* POST /sessions requests that can be in flight at once
    Deleters,       \* DELETE /sessions/:id requests that can be in flight
    MaxConcurrent,  \* config.session.max_concurrent
    MaxRestarts,    \* bound: how often the daemon goes down
    NoSession       \* the null session

ASSUME CreatorsFinite == IsFiniteSet(Creators)
ASSUME MaxConcurrentPositive == MaxConcurrent \in Nat \ {0}
ASSUME MaxRestartsNat == MaxRestarts \in Nat
ASSUME NoSessionIsNone == NoSession \notin Sessions

VARIABLES
    daemon,     \* "down", "recovering" before the socket is bound, or "up"
    table,      \* DaemonState.sessions
    creator,    \* each create request: how far it is and with which session
    deleter,    \* each delete request, likewise
    scan,       \* directories recover_sessions has still to visit
    probed,     \* the session found dead whose log is about to be read
    restarts    \* how often the daemon has gone down

daemonVars == <<daemon, table, creator, deleter, scan, probed, restarts>>
vars == <<proc, exit, pidFile, doneLog, recycled,
          daemon, table, creator, deleter, scan, probed, restarts>>

---------------------------------------------------------------------------
(* The table. *)

\* SessionStatus also has TimedOut; no statement of the daemon assigns it.
Statuses == {"absent", "running", "done", "crashed", "timed_out"}
Summaries == {"none", "log", "killed"}  \* nothing, the done entry's, DELETE's

Entry == [status: Statuses, child: BOOLEAN, summary: Summaries]

Absent == [status |-> "absent", child |-> FALSE, summary |-> "none"]

Status(s) == table[s].status
IsTracked(s) == Status(s) # "absent"
Running == {s \in Sessions : Status(s) = "running"}
Owned == {s \in Running : table[s].child}      \* not re-adopted

IdleRequest == [pc |-> "idle", sid |-> NoSession]

\* The table with the session closed; the Child, if any, is kept.
Closed(s, status, summary) ==
    [table EXCEPT ![s] =
       [status |-> status, child |-> table[s].child, summary |-> summary]]

\* Create requests that passed the limit and have not inserted their entry.
InFlight == {c \in Creators : creator[c].pc # "idle"}

\* The daemon is the parent of what it spawned itself and still has a Child for.
IsChild(s) ==
    \/ table[s].child
    \/ \E c \in Creators : creator[c] = [pc |-> "spawned", sid |-> s]

\* read_session_summary, and the status the reaper and the recovery draw from it.
LogSummary(s) == IF s \in doneLog THEN "log" ELSE "none"

TypeOK ==
    /\ ProcTypeOK
    /\ daemon \in {"down", "recovering", "up"}
    /\ table \in [Sessions -> Entry]
    /\ creator \in [Creators -> [pc: {"idle", "admitted"}, sid: {NoSession}]
                                 \cup [pc: {"spawned"}, sid: Sessions]]
    /\ deleter \in [Deleters -> [pc: {"idle"}, sid: {NoSession}]
                                 \cup [pc: {"signalled", "confirming"}, sid: Sessions]]
    /\ scan \subseteq Sessions
    /\ probed \in Sessions \cup {NoSession}
    /\ restarts \in 0..MaxRestarts

Init ==
    /\ ProcInit
    /\ daemon = "down"
    /\ table = [s \in Sessions |-> Absent]
    /\ creator = [c \in Creators |-> IdleRequest]
    /\ deleter = [d \in Deleters |-> IdleRequest]
    /\ scan = {}
    /\ probed = NoSession
    /\ restarts = 0

Serving == daemon = "up"
MutexFree == probed = NoSession

\* The operators named Mutant... are plausible bugs, each in the form of the
\* definition that follows it; no specification uses them.

---------------------------------------------------------------------------
(* POST /sessions.  The count is taken under the mutex, the directory and   *)
(* the process are made without it, and the entry is inserted under it.     *)

MutantCheckOffByOne(c) ==
    /\ Serving /\ MutexFree
    /\ creator[c].pc = "idle"
    /\ Cardinality(Running) <= MaxConcurrent
    /\ creator' = [creator EXCEPT ![c].pc = "admitted"]
    /\ UNCHANGED <<procVars, daemon, table, deleter, scan, probed, restarts>>

CreateCheck(c) ==
    /\ Serving /\ MutexFree
    /\ creator[c].pc = "idle"
    /\ Cardinality(Running) < MaxConcurrent   \* otherwise 429
    /\ creator' = [creator EXCEPT ![c].pc = "admitted"]
    /\ UNCHANGED <<procVars, daemon, table, deleter, scan, probed, restarts>>

CreateSpawn(c, s) ==
    /\ Serving
    /\ creator[c].pc = "admitted"
    /\ Spawn(s)
    /\ creator' = [creator EXCEPT ![c] = [pc |-> "spawned", sid |-> s]]
    /\ UNCHANGED <<daemon, table, deleter, scan, probed, restarts>>

\* No directory or no process: 500, and the directory stays.
CreateFails(c) ==
    /\ Serving
    /\ creator[c].pc = "admitted"
    /\ creator' = [creator EXCEPT ![c] = IdleRequest]
    /\ UNCHANGED <<procVars, daemon, table, deleter, scan, probed, restarts>>

\* The limit is checked again at the insertion, and the new process forgotten.
MutantInsertRechecks(c) ==
    /\ Serving /\ MutexFree
    /\ creator[c].pc = "spawned"
    /\ table' = IF Cardinality(Running) >= MaxConcurrent THEN table
                ELSE [table EXCEPT ![creator[c].sid] =
                   [status |-> "running", child |-> TRUE, summary |-> "none"]]
    /\ creator' = [creator EXCEPT ![c] = IdleRequest]
    /\ UNCHANGED <<procVars, daemon, deleter, scan, probed, restarts>>

CreateInsert(c) ==
    /\ Serving /\ MutexFree
    /\ creator[c].pc = "spawned"
    /\ table' = [table EXCEPT ![creator[c].sid] =
                   [status |-> "running", child |-> TRUE, summary |-> "none"]]
    /\ creator' = [creator EXCEPT ![c] = IdleRequest]
    /\ UNCHANGED <<procVars, daemon, deleter, scan, probed, restarts>>

---------------------------------------------------------------------------
(* DELETE /sessions/:id, in two critical sections. *)

\* SIGTERM for everyone, and no escalation.
MutantDeleteTermOnly(d, s) ==
    /\ Serving /\ MutexFree
    /\ deleter[d].pc = "idle"
    /\ Status(s) = "running"
    /\ deleter' = [deleter EXCEPT ![d] = [pc |-> "confirming", sid |-> s]]
    /\ UNCHANGED <<procVars, daemon, table, creator, scan, probed, restarts>>

\* A child is killed and waited for under the mutex; a re-adopted session gets
\* a SIGTERM (RunnerDies is when it takes effect) and half a second.
DeleteSignal(d, s) ==
    /\ Serving /\ MutexFree
    /\ deleter[d].pc = "idle"
    /\ Status(s) = "running"                  \* otherwise 404 or 409
    /\ \/ /\ table[s].child
          /\ KilledAndCollected({s})
          /\ deleter' = [deleter EXCEPT ![d] = [pc |-> "confirming", sid |-> s]]
       \/ /\ ~table[s].child
          /\ deleter' = [deleter EXCEPT ![d] = [pc |-> "signalled", sid |-> s]]
          /\ UNCHANGED <<proc, exit>>
    /\ UNCHANGED <<pidFile, doneLog, recycled>>
    /\ UNCHANGED <<daemon, table, creator, scan, probed, restarts>>

\* SIGKILL to whatever process has the pid by now.
DeleteKill(d) ==
    /\ Serving
    /\ deleter[d].pc = "signalled"
    /\ KilledAndCollected({deleter[d].sid})
    /\ recycled' = recycled \ {deleter[d].sid}
    /\ deleter' = [deleter EXCEPT ![d].pc = "confirming"]
    /\ UNCHANGED <<pidFile, doneLog>>
    /\ UNCHANGED <<daemon, table, creator, scan, probed, restarts>>

\* The client hangs up during the sleep and the handler is dropped.
DeleteAbandoned(d) ==
    /\ Serving
    /\ deleter[d].pc = "signalled"
    /\ deleter' = [deleter EXCEPT ![d] = IdleRequest]
    /\ UNCHANGED <<procVars, daemon, table, creator, scan, probed, restarts>>

MutantConfirmUnlocked(d) ==
    /\ Serving
    /\ deleter[d].pc = "confirming"
    /\ table' = Closed(deleter[d].sid, "done", "killed")
    /\ deleter' = [deleter EXCEPT ![d] = IdleRequest]
    /\ UNCHANGED <<procVars, daemon, creator, scan, probed, restarts>>

\* The second section looks at nothing but the presence of the entry.
DeleteConfirm(d) ==
    /\ Serving /\ MutexFree
    /\ deleter[d].pc = "confirming"
    /\ table' = Closed(deleter[d].sid, "done", "killed")
    /\ deleter' = [deleter EXCEPT ![d] = IdleRequest]
    /\ UNCHANGED <<procVars, daemon, creator, scan, probed, restarts>>

---------------------------------------------------------------------------
(* The reaper. *)

MutantDeadByPidOnly(s) == ~PidAnswers(s)

\* try_wait on a child, kill(pid, 0) on a re-adopted session.
FoundDead(s) == IF table[s].child THEN proc[s] \in Dead ELSE ~PidAnswers(s)

\* (A pass holds the mutex from its first session to its last.  To let requests in
\* between two sessions, as is done here, only adds behaviours.)
ReapProbe(s) ==
    /\ Serving /\ MutexFree
    /\ Status(s) = "running"
    /\ FoundDead(s)
    /\ Collected(IF table[s].child THEN {s} ELSE {})
    /\ probed' = s
    /\ UNCHANGED <<pidFile, doneLog, recycled>>
    /\ UNCHANGED <<daemon, table, creator, deleter, scan, restarts>>

MutantVerdictByExit(s) ==
    IF table[s].child THEN (IF exit[s] = "ok" THEN "done" ELSE "crashed")
    ELSE IF s \in doneLog THEN "done" ELSE "crashed"

\* A clean exit is Done; any other exit is Done if there is a done entry.
Verdict(s) ==
    IF (table[s].child /\ exit[s] = "ok") \/ s \in doneLog
    THEN "done" ELSE "crashed"

ReapRecord ==
    /\ Serving /\ probed # NoSession
    /\ table' = Closed(probed, Verdict(probed), LogSummary(probed))
    /\ probed' = NoSession
    /\ UNCHANGED <<procVars, daemon, creator, deleter, scan, restarts>>

---------------------------------------------------------------------------
(* Going down, and recover_sessions at the next start.                     *)

\* A crash leaves the runners alone; a reboot, or a stop of the whole systemd
\* unit, kills them too.  Either way init collects the bodies.
DaemonGoesDown(killed) ==
    /\ daemon # "down"
    /\ restarts < MaxRestarts
    /\ restarts' = restarts + 1
    /\ daemon' = "down"
    /\ table' = [s \in Sessions |-> Absent]
    /\ creator' = [c \in Creators |-> IdleRequest]
    /\ deleter' = [d \in Deleters |-> IdleRequest]
    /\ scan' = {}
    /\ probed' = NoSession
    /\ \/ killed = {} /\ Collected(Sessions)
       \/ killed # {} /\ KilledAndCollected(killed)
    /\ UNCHANGED <<pidFile, doneLog, recycled>>

DaemonCrashes == DaemonGoesDown({})
MachineStops == DaemonGoesDown(Sessions)

DaemonStarts ==
    /\ daemon = "down"
    /\ daemon' = "recovering"
    /\ scan' = {s \in Sessions : proc[s] # "none"}
    /\ UNCHANGED <<procVars, table, creator, deleter, probed, restarts>>

\* One session directory: without a pid file it is passed over, and a pid that
\* answers is taken for the session's runner.
RecoverProbe(s) ==
    /\ daemon = "recovering" /\ MutexFree
    /\ s \in scan
    /\ scan' = scan \ {s}
    /\ \/ /\ s \notin pidFile
          /\ UNCHANGED <<table, probed>>
       \/ /\ s \in pidFile /\ PidAnswers(s)
          /\ table' = [table EXCEPT ![s] =
                 [status |-> "running", child |-> FALSE, summary |-> "none"]]
          /\ UNCHANGED probed
       \/ /\ s \in pidFile /\ ~PidAnswers(s)
          /\ probed' = s
          /\ UNCHANGED table
    /\ UNCHANGED <<procVars, daemon, creator, deleter, restarts>>

RecoverRecord ==
    /\ daemon = "recovering" /\ probed # NoSession
    /\ table' = [table EXCEPT ![probed] =
           [status |-> IF LogSummary(probed) = "log" THEN "done" ELSE "crashed",
            child |-> FALSE, summary |-> LogSummary(probed)]]
    /\ probed' = NoSession
    /\ UNCHANGED <<procVars, daemon, creator, deleter, scan, restarts>>

\* The directory is read to its end: bind the socket and serve.
RecoverEnds ==
    /\ daemon = "recovering" /\ MutexFree
    /\ scan = {}
    /\ daemon' = "up"
    /\ UNCHANGED <<procVars, table, creator, deleter, scan, probed, restarts>>

---------------------------------------------------------------------------
RunnerStep(s) ==
    /\ \/ WritePid(s) \/ LogDone(s) \/ SessionFails(s) \/ RemovePid(s)
       \/ RunnerExits(s, IsChild(s)) \/ RunnerDies(s, IsChild(s))
       \/ PidRecycled(s)
    /\ UNCHANGED daemonVars

CreateStep(c) ==
    \/ CreateCheck(c)
    \/ \E s \in Sessions : CreateSpawn(c, s)
    \/ CreateFails(c)
    \/ CreateInsert(c)

DeleteStep(d) ==
    \/ \E s \in Sessions : DeleteSignal(d, s)
    \/ DeleteKill(d)
    \/ DeleteAbandoned(d)
    \/ DeleteConfirm(d)

LifeStep ==
    \/ DaemonCrashes \/ MachineStops \/ DaemonStarts
    \/ \E s \in Sessions : RecoverProbe(s)
    \/ RecoverRecord \/ RecoverEnds

Next ==
    \/ \E s \in Sessions : RunnerStep(s) \/ ReapProbe(s)
    \/ \E c \in Creators : CreateStep(c)
    \/ \E d \in Deleters : DeleteStep(d)
    \/ ReapRecord
    \/ LifeStep

Spec == Init /\ [][Next]_vars

\* The runtime keeps polling what it has accepted, the reaper task runs for as
\* long as the daemon does and each pass looks at every running session, and
\* the service manager starts the daemon again.  Requests and runners owe nobody
\* anything: no request need ever arrive, and a session may work forever.
Fairness ==
    /\ \A s \in Sessions : WF_vars(ReapProbe(s)) /\ WF_vars(RecoverProbe(s))
    /\ WF_vars(ReapRecord) /\ WF_vars(RecoverRecord) /\ WF_vars(RecoverEnds)
    /\ WF_vars(DaemonStarts)
    /\ \A c \in Creators : WF_vars(CreateInsert(c))
    /\ \A d \in Deleters : WF_vars(DeleteKill(d)) /\ WF_vars(DeleteConfirm(d))

FairSpec == Spec /\ Fairness

---------------------------------------------------------------------------
(* Properties. *)

Ended == {"done", "crashed"}

\* The limit is checked against a count taken before the process is made, so
\* requests that overlap can pass it together; they can overshoot it by at most
\* one session for each request beyond the first.  (Sessions re-adopted after a
\* restart are counted by the check but were admitted by an earlier daemon.)
AdmissionBound ==
    Cardinality(Owned) + Cardinality(InFlight)
        <= MaxConcurrent - 1 + Cardinality(Creators)

\* A session shown as ended has no runner left: neither the reaper, nor the
\* recovery, nor either path of DELETE closes the books on a live process.
EndedIsDead == \A s \in Sessions : Status(s) \in Ended => proc[s] \in Dead

\* The status agrees with the log: a finished session is never called crashed,
\* and one called done has a summary, the log's own unless it was killed.
VerdictMatchesLog ==
    \A s \in Sessions :
        /\ Status(s) = "crashed" => s \notin doneLog
        /\ Status(s) = "done" => table[s].summary # "none"
        /\ table[s].summary = "log" => s \in doneLog

\* Once a session has ended, its entry changes only by a DELETE that was already
\* under way and now confirms; what a DELETE has written is final.
OnlyDeleteRewrites ==
    [][\A s \in Sessions :
          /\ Status(s) \in Ended
          /\ table'[s] # table[s]
          /\ daemon' # "down"
          => /\ table[s].summary # "killed"
             /\ table'[s].status = "done" /\ table'[s].summary = "killed"]_vars

\* While the daemon has not gone down, a running process is in its table or with
\* the request that is inserting it.  (A restart forgets the runners that have not
\* written their pid file by then, or could not.)
RunnersTracked ==
    Serving /\ restarts = 0 =>
        \A s \in Sessions : IsLive(s) => IsTracked(s) \/ IsChild(s)

\* The end of a runner is noticed, unless another process has been given its pid, and
\* every child is waited for: no zombie stays with the daemon.
\* docs/sessions.md: "`running` | Session process is alive".
EndIsNoticed ==
    \A s \in Sessions :
        /\ (Status(s) = "running" /\ proc[s] \in Dead)
              ~> (Status(s) # "running" \/ s \in recycled)
        /\ (proc[s] = "zombie") ~> (proc[s] = "gone")

\* A runner that has written its pid file is running in the next daemon's table,
\* unless it comes to its end first.  docs/phylactd.md: "you can restart the daemon
\* without losing track of running sessions".
SurvivesRestart ==
    \A s \in Sessions :
        (daemon = "down" /\ IsLive(s) /\ s \in pidFile)
            ~> (Status(s) = "running" \/ ~IsLive(s) \/ s \notin pidFile)

\* The table comes to agree with the processes, whatever order their ends, restarts of the
\* daemon and the reaper's polls come in.
TableCatchesUp == EndIsNoticed /\ SurvivesRestart

---------------------------------------------------------------------------
(* What the documentation says and the code does not do. *)

\* docs/sessions.md: "Multiple sessions can run simultaneously (up to
\* `max_concurrent`, default 4)".
WithinLimit == Cardinality(Running) <= MaxConcurrent
=============================================================================
