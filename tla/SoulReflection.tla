--------------------------- MODULE SoulReflection ---------------------------
(***************************************************************************)
(* Step 11 of phyl-run: sessions that finish rewrite the one SOUL.md, each *)
(* under flock(.soul.lock), and commit it under flock(.git.lock), which    *)
(* write_file's auto-commit of knowledge files takes as well.              *)
(*                                                                         *)
(* The text of SOUL.md is abstracted to the set of sessions it descends    *)
(* from: the model is shown a text and a session and returns a text that   *)
(* descends from both.  A text nobody reflected in (an error message, a    *)
(* file truncated and not yet written) is the empty set.                   *)
(*                                                                         *)
(* A flock belongs to the open file, not to the process, and the lock      *)
(* files are opened without O_CLOEXEC: a child process (the model adapter, *)
(* git) inherits them, and when its parent is killed the lock lasts until  *)
(* the child ends.                                                         *)
(***************************************************************************)
EXTENDS FiniteSets

CONSTANTS
    Sessions,       \* phyl-run processes
    Writers,        \* phyl-tool-files processes that commit knowledge files
    Nobody,         \* a lock that is free
    ModelErrors,    \* may an adapter answer with the text of an API error?
    Kills,          \* may a process be killed (DELETE, tool timeout, crash)?
    IoFails         \* may opening a lock, writing SOUL.md or running git fail?

Agents == Sessions \cup Writers

ASSUME AgentsDiffer == Sessions \cap Writers = {}
ASSUME NobodyIsNone == Nobody \notin Agents
ASSUME FaultsBoolean == {ModelErrors, Kills, IoFails} \subseteq BOOLEAN

VARIABLES
    stage,      \* where each process is
    text,       \* the copy of SOUL.md each session holds, later its new text
    soul,       \* SOUL.md in the working tree
    index,      \* SOUL.md as staged
    head,       \* SOUL.md as committed
    soulLock,   \* whose open file holds .soul.lock
    gitLock,    \* whose open file holds .git.lock
    child,      \* the child process each one is waiting for, or left behind
    reflected   \* history: sessions that have written SOUL.md to the end

vars == <<stage, text, soul, index, head, soulLock, gitLock, child, reflected>>
files == <<soul, index, head>>

Stages == {"idle", "looping", "waiting", "reflecting", "writing", "gitWait",
           "adding", "committing", "unlocking", "ended", "failed", "killed"}

\* A writer of knowledge files never enters the stages of a reflection.
WriterStages == {"idle", "gitWait", "adding", "committing", "killed"}

Texts == SUBSET Sessions
GitChildren == {"add", "commit"}

TypeOK ==
    /\ stage \in [Agents -> Stages]
    /\ \A w \in Writers : stage[w] \in WriterStages
    /\ text \in [Sessions -> Texts]
    /\ soul \in Texts /\ index \in Texts /\ head \in Texts
    /\ soulLock \in Sessions \cup {Nobody}
    /\ gitLock \in Agents \cup {Nobody}
    /\ child \in [Agents -> {"none", "model"} \cup GitChildren]
    /\ reflected \subseteq Sessions

\* SOUL.md as `phyl init` commits it: no session is in it.
Init ==
    /\ stage = [a \in Agents |-> "idle"]
    /\ text = [s \in Sessions |-> {}]
    /\ soul = {} /\ index = {} /\ head = {}
    /\ soulLock = Nobody /\ gitLock = Nobody
    /\ child = [a \in Agents |-> "none"]
    /\ reflected = {}

Goes(a, from, to) == stage[a] = from /\ stage' = [stage EXCEPT ![a] = to]
Runs(a, what) == child' = [child EXCEPT ![a] = what]


\* What becomes of a lock when the last descriptor of a's open file is closed.
Unlocked(lock, a) == IF lock = a THEN Nobody ELSE lock

\* The operators named Mutant... are plausible bugs, each in the form of the
\* definition that follows it; no specification uses them.

---------------------------------------------------------------------------
(* finalize_soul, one session. *)

\* The copy read at the start goes into the system prompt.
SessionStarts(s) ==
    /\ Goes(s, "idle", "looping")
    /\ text' = [text EXCEPT ![s] = soul]
    /\ UNCHANGED <<files, soulLock, gitLock, child, reflected>>

LoopEnds(s) ==
    /\ Goes(s, "looping", "waiting")
    /\ UNCHANGED <<text, files, soulLock, gitLock, child, reflected>>

\* Reflecting on the copy read at the start of the session.
MutantTakeSoulLockStale(s) ==
    /\ Goes(s, "waiting", "reflecting")
    /\ soulLock = Nobody
    /\ soulLock' = s
    /\ Runs(s, "model")
    /\ UNCHANGED <<text, files, gitLock, reflected>>

\* With the lock comes a fresh copy, and the adapter is asked for a new text.
TakeSoulLock(s) ==
    /\ Goes(s, "waiting", "reflecting")
    /\ soulLock = Nobody
    /\ soulLock' = s
    /\ text' = [text EXCEPT ![s] = soul]
    /\ Runs(s, "model")
    /\ UNCHANGED <<files, gitLock, reflected>>

\* The answer is taken as it is.  fs::write truncates the file first.
ModelAnswers(s) ==
    /\ Goes(s, "reflecting", "writing")
    /\ \/ text' = [text EXCEPT ![s] = @ \cup {s}]
       \/ ModelErrors /\ text' = [text EXCEPT ![s] = {}]
    /\ soul' = {}
    /\ Runs(s, "none")
    /\ UNCHANGED <<index, head, soulLock, gitLock, reflected>>

\* The lock covers the file and not its commit.
MutantWriteSoulReleases(s) ==
    /\ Goes(s, "writing", "gitWait")
    /\ soul' = text[s]
    /\ reflected' = reflected \cup {s}
    /\ soulLock' = Nobody
    /\ UNCHANGED <<text, index, head, gitLock, child>>

WriteSoul(s) ==
    /\ Goes(s, "writing", "gitWait")
    /\ soul' = text[s]
    /\ reflected' = reflected \cup {s}
    /\ UNCHANGED <<text, index, head, soulLock, gitLock, child>>

MutantSkipKeepsLock(s) ==
    /\ Goes(s, "reflecting", "ended")
    /\ Runs(s, "none")
    /\ UNCHANGED <<text, files, soulLock, gitLock, reflected>>

\* No answer in time or no JSON, or SOUL.md cannot be opened: skip the update.
ReflectionSkipped(s) ==
    /\ Goes(s, "reflecting", "ended")
    /\ Runs(s, "none")
    /\ soulLock' = Nobody
    /\ UNCHANGED <<text, files, gitLock, reflected>>

\* fs::write fails after the truncation.
WriteFails(s) ==
    /\ IoFails
    /\ Goes(s, "writing", "ended")
    /\ soulLock' = Nobody
    /\ UNCHANGED <<text, files, gitLock, child, reflected>>

\* A lock file that cannot be opened fails the session.  The soul lock, if it
\* is held by then, is not released but goes with the process.
LockFails(s) ==
    /\ IoFails
    /\ stage[s] \in {"waiting", "gitWait"}
    /\ stage' = [stage EXCEPT ![s] = "failed"]
    /\ soulLock' = Unlocked(soulLock, s)
    /\ UNCHANGED <<text, files, gitLock, child, reflected>>

\* Lock order: soul, then git.
TakeGitLock(s) ==
    /\ Goes(s, "gitWait", "adding")
    /\ gitLock = Nobody
    /\ gitLock' = s
    /\ Runs(s, "add")
    /\ UNCHANGED <<text, files, soulLock, reflected>>

\* Neither failure stops the session; the exit status of `git add` is not even
\* looked at.
SoulAdded(s) ==
    /\ Goes(s, "adding", "committing")
    /\ \/ index' = soul
       \/ IoFails /\ UNCHANGED index
    /\ Runs(s, "commit")
    /\ UNCHANGED <<text, soul, head, soulLock, gitLock, reflected>>

\* git commit, with no path, commits all that is staged.
SoulCommitted(s) ==
    /\ Goes(s, "committing", "unlocking")
    /\ \/ head' = index
       \/ IoFails /\ UNCHANGED head
    /\ gitLock' = Nobody
    /\ Runs(s, "none")
    /\ UNCHANGED <<text, soul, index, soulLock, reflected>>

ReleaseSoulLock(s) ==
    /\ Goes(s, "unlocking", "ended")
    /\ soulLock' = Nobody
    /\ UNCHANGED <<text, files, gitLock, child, reflected>>

---------------------------------------------------------------------------
(* auto_commit_knowledge, after write_file has written its own file. *)

KnowledgeWritten(w) ==
    /\ Goes(w, "idle", "gitWait")
    /\ UNCHANGED <<text, files, soulLock, gitLock, child, reflected>>

WriterTakesGitLock(w) ==
    /\ Goes(w, "gitWait", "adding")
    /\ gitLock = Nobody
    /\ gitLock' = w
    /\ Runs(w, "add")
    /\ UNCHANGED <<text, files, soulLock, reflected>>

KnowledgeAdded(w) ==
    /\ Goes(w, "adding", "committing")
    /\ Runs(w, "commit")
    /\ UNCHANGED <<text, files, soulLock, gitLock, reflected>>

AddFails(w) ==
    /\ IoFails
    /\ Goes(w, "adding", "idle")
    /\ gitLock' = Nobody
    /\ Runs(w, "none")
    /\ UNCHANGED <<text, files, soulLock, reflected>>

\* The index is shared: a staged SOUL.md goes along.
KnowledgeCommitted(w) ==
    /\ Goes(w, "committing", "idle")
    /\ \/ head' = index
       \/ IoFails /\ UNCHANGED head
    /\ gitLock' = Nobody
    /\ Runs(w, "none")
    /\ UNCHANGED <<text, soul, index, soulLock, reflected>>

---------------------------------------------------------------------------
(* Death of a process, and of the child it leaves behind. *)

\* As if the lock files were opened with O_CLOEXEC.
MutantKilledFreesLocks(a) ==
    /\ Kills
    /\ stage[a] \notin {"idle", "ended", "failed", "killed"}
    /\ stage' = [stage EXCEPT ![a] = "killed"]
    /\ soulLock' = Unlocked(soulLock, a) /\ gitLock' = Unlocked(gitLock, a)
    /\ UNCHANGED <<text, files, child, reflected>>

Killed(a) ==
    /\ Kills
    /\ stage[a] \notin {"idle", "ended", "failed", "killed"}
    /\ stage' = [stage EXCEPT ![a] = "killed"]
    /\ IF child[a] = "none"
       THEN soulLock' = Unlocked(soulLock, a) /\ gitLock' = Unlocked(gitLock, a)
       ELSE UNCHANGED <<soulLock, gitLock>>
    /\ UNCHANGED <<text, files, child, reflected>>

\* An orphan finishes what it was started for; nobody reads what it says.
OrphanEnds(a) ==
    /\ stage[a] = "killed"
    /\ child[a] # "none"
    /\ index' = IF child[a] = "add" /\ a \in Sessions THEN soul ELSE index
    /\ head' = IF child[a] = "commit" THEN index ELSE head
    /\ Runs(a, "none")
    /\ soulLock' = Unlocked(soulLock, a)
    /\ gitLock' = Unlocked(gitLock, a)
    /\ UNCHANGED <<stage, text, soul, reflected>>

\* Another write_file, another phyl-tool-files.
WriterReplaced(w) ==
    /\ child[w] = "none"
    /\ Goes(w, "killed", "idle")
    /\ UNCHANGED <<text, files, soulLock, gitLock, child, reflected>>

---------------------------------------------------------------------------
SessionStep(s) ==
    \/ SessionStarts(s) \/ LoopEnds(s) \/ TakeSoulLock(s) \/ ModelAnswers(s)
    \/ WriteSoul(s) \/ ReflectionSkipped(s) \/ WriteFails(s) \/ LockFails(s)
    \/ TakeGitLock(s) \/ SoulAdded(s) \/ SoulCommitted(s) \/ ReleaseSoulLock(s)

WriterStep(w) ==
    \/ KnowledgeWritten(w) \/ WriterTakesGitLock(w) \/ KnowledgeAdded(w)
    \/ AddFails(w) \/ KnowledgeCommitted(w) \/ WriterReplaced(w)

Next ==
    \/ \E s \in Sessions : SessionStep(s)
    \/ \E w \in Writers : WriterStep(w)
    \/ \E a \in Agents : Killed(a) \/ OrphanEnds(a)

Spec == Init /\ [][Next]_vars

\* A process that can go on does: the adapter is bounded by MODEL_TIMEOUT_SECS,
\* git ends, and flock serves its waiters in turn, hence SF for the two locks.
\* No session need ever start or leave its loop, and no writer write; an adapter
\* left behind by a killed session is assumed to give up some day.
Fairness ==
    /\ \A s \in Sessions :
          /\ SF_vars(TakeSoulLock(s)) /\ SF_vars(TakeGitLock(s))
          /\ WF_vars(ModelAnswers(s) \/ ReflectionSkipped(s))
          /\ WF_vars(WriteSoul(s) \/ WriteFails(s))
          /\ WF_vars(SoulAdded(s)) /\ WF_vars(SoulCommitted(s))
          /\ WF_vars(ReleaseSoulLock(s))
    /\ \A w \in Writers :
          /\ SF_vars(WriterTakesGitLock(w))
          /\ WF_vars(KnowledgeAdded(w) \/ AddFails(w)) /\ WF_vars(KnowledgeCommitted(w))
    /\ \A a \in Agents : WF_vars(OrphanEnds(a))

FairSpec == Spec /\ Fairness

---------------------------------------------------------------------------
(* Properties. *)

\* What a session is reflecting on is SOUL.md as it is now, not a stale copy:
\* nobody writes the file under a reflection, killed sessions included.
ReflectsOnCurrent ==
    \A s \in Sessions : stage[s] = "reflecting" => text[s] = soul

\* Never two git processes on the repository at once, not even when one has
\* outlived the session that started it.
GitSerialized ==
    \A a, b \in Agents :
        child[a] \in GitChildren /\ child[b] \in GitChildren => a = b

\* Every reflection that was written is part of SOUL.md, whatever was written
\* after it (while the file is not being rewritten).
\* docs/identity-files.md: "ensuring no reflections are lost".
NoReflectionLost ==
    (\A s \in Sessions : stage[s] # "writing") => reflected \subseteq soul

\* Once the lock is free the autobiography is up to date: what SOUL.md says is
\* what git has.
HeadIsSoul == soulLock = Nobody => head = soul

\* Whoever waits for SOUL.md gets through, fails or is killed; nobody waits for a
\* lock that is never released.
FinalizationEnds ==
    \A s \in Sessions :
        (stage[s] = "waiting") ~> (stage[s] \in {"ended", "failed", "killed"})

---------------------------------------------------------------------------
(* Without faults the files behave like the abstract specification. *)

Rewriting == {s \in Sessions : stage[s] = "writing"}

\* A file being rewritten still counts as its last version: the new text, which
\* only the writer has yet, without the writer's reflection.
SoulAsSeen ==
    IF Rewriting = {} THEN soul ELSE UNION {text[s] \ {s} : s \in Rewriting}

Promise == INSTANCE Autobiography WITH soul <- SoulAsSeen

\* Every version of SOUL.md extends the one before it by one reflection, and is
\* committed before the next is written.
\* docs/identity-files.md: "Its history is the agent's autobiography".
IsAutobiography == Promise!Spec
=============================================================================
