--------------------------- MODULE RunnerProcess ---------------------------
(***************************************************************************)
(* One phyl-run process per session, as the rest of the system sees it:    *)
(* the operating-system process with its exit status, the pid file and the *)
(* done entry it leaves in sessions/<uuid>/.  What the agentic loop does   *)
(* between starting and finishing is abstracted to "working".              *)
(*                                                                         *)
(* The module has no Next: Phylactd composes these steps with its own.     *)
(***************************************************************************)
EXTENDS FiniteSets

CONSTANTS
    Sessions,       \* session ids; each POST /sessions takes a fresh one
    PidReuse        \* may the kernel hand a dead runner's pid to another process?

ASSUME SessionsFinite == IsFiniteSet(Sessions)
ASSUME PidReuseIsBoolean == PidReuse \in BOOLEAN

VARIABLES
    proc,       \* where each session's runner is in its life
    exit,       \* the status wait() returns for it: "ok" is exit code 0
    pidFile,    \* sessions whose directory holds a pid file
    doneLog,    \* sessions whose log.jsonl holds a done entry
    recycled    \* sessions whose pid now names an unrelated process

procVars == <<proc, exit, pidFile, doneLog, recycled>>

Live == {"booting", "working", "logged", "failed", "cleaned"}
Dead == {"zombie", "gone"}

ProcTypeOK ==
    /\ proc \in [Sessions -> {"none"} \cup Live \cup Dead]
    /\ exit \in [Sessions -> {"none", "ok", "err"}]
    /\ pidFile \subseteq Sessions
    /\ doneLog \subseteq Sessions
    /\ recycled \subseteq Sessions

ProcInit ==
    /\ proc = [s \in Sessions |-> "none"]
    /\ exit = [s \in Sessions |-> "none"]
    /\ pidFile = {}
    /\ doneLog = {}
    /\ recycled = {}

IsLive(s) == proc[s] \in Live

\* kill(pid, 0) == 0: the pid names a process, a zombie or a stranger included.
PidAnswers(s) == proc[s] \in Live \cup {"zombie"} \/ s \in recycled

\* A process that ends stays a zombie until its parent waits for it; without
\* a parent that still runs, init collects it at once.
AfterEnd(hasParent) == IF hasParent THEN "zombie" ELSE "gone"

---------------------------------------------------------------------------
(* Steps of phyl-run. *)

\* fork and exec by the daemon.
Spawn(s) ==
    /\ proc[s] = "none"
    /\ proc' = [proc EXCEPT ![s] = "booting"]
    /\ UNCHANGED <<exit, pidFile, doneLog, recycled>>

\* Until here the session directory has no pid file.  A failed write is only
\* reported, and the session goes on without one.
WritePid(s) ==
    /\ proc[s] = "booting"
    /\ proc' = [proc EXCEPT ![s] = "working"]
    /\ pidFile' \in {pidFile \cup {s}, pidFile}
    /\ UNCHANGED <<exit, doneLog, recycled>>

\* run_session reached its end: the done entry is its last fallible step.
LogDone(s) ==
    /\ proc[s] = "working"
    /\ proc' = [proc EXCEPT ![s] = "logged"]
    /\ doneLog' = doneLog \cup {s}
    /\ UNCHANGED <<exit, pidFile, recycled>>

\* Some `?` of run_session returned an error: no done entry.
SessionFails(s) ==
    /\ proc[s] = "working"
    /\ proc' = [proc EXCEPT ![s] = "failed"]
    /\ UNCHANGED <<exit, pidFile, doneLog, recycled>>

RemovePid(s) ==
    /\ proc[s] \in {"logged", "failed"}
    /\ proc' = [proc EXCEPT ![s] = "cleaned"]
    /\ pidFile' = pidFile \ {s}
    /\ UNCHANGED <<exit, doneLog, recycled>>

\* std::process::exit(exit_code): 0 exactly when run_session returned Ok.
RunnerExits(s, hasParent) ==
    /\ proc[s] = "cleaned"
    /\ proc' = [proc EXCEPT ![s] = AfterEnd(hasParent)]
    /\ exit' = [exit EXCEPT ![s] = IF s \in doneLog THEN "ok" ELSE "err"]
    /\ UNCHANGED <<pidFile, doneLog, recycled>>

\* A signal, a panic or the OOM killer: nothing is cleaned up.  This is also
\* when a SIGTERM takes effect, phyl-run having no handler for it.
RunnerDies(s, hasParent) ==
    /\ IsLive(s)
    /\ proc' = [proc EXCEPT ![s] = AfterEnd(hasParent)]
    /\ exit' = [exit EXCEPT ![s] = "err"]
    /\ UNCHANGED <<pidFile, doneLog, recycled>>

\* The pid of a collected process is given to a new process of the same user.
PidRecycled(s) ==
    /\ PidReuse
    /\ proc[s] = "gone"
    /\ recycled' = recycled \cup {s}
    /\ UNCHANGED <<proc, exit, pidFile, doneLog>>

---------------------------------------------------------------------------
(* What a parent or a signal does to the processes in S, all at once. *)

\* SIGKILL, and the wait that collects the body.
KilledAndCollected(S) ==
    /\ proc' = [s \in Sessions |->
                  IF s \in S /\ proc[s] # "none" THEN "gone" ELSE proc[s]]
    /\ exit' = [s \in Sessions |->
                  IF s \in S /\ IsLive(s) THEN "err" ELSE exit[s]]

\* wait() by the parent, or by init in its place.
Collected(S) ==
    /\ proc' = [s \in Sessions |->
                  IF s \in S /\ proc[s] = "zombie" THEN "gone" ELSE proc[s]]
    /\ UNCHANGED exit
=============================================================================
