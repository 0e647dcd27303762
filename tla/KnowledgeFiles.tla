---------------------------- MODULE KnowledgeFiles ----------------------------
(***************************************************************************)
(* write_file of phyl-tool-files on a file of knowledge/: the file is      *)
(* truncated and written in the open, and committed under .git.lock.       *)
(*                                                                         *)
(* SoulReflection has the lock, the processes that hold it and the index   *)
(* they share; this module has what it leaves out, the content of a file   *)
(* that several processes write, as the set of writers it has text of: {}  *)
(* is the truncated file.                                                  *)
(***************************************************************************)
EXTENDS Naturals

CONSTANTS
    FileWriters,    \* phyl-tool-files processes that write the file
    Before          \* stands for the text it has before, and for nobody

ASSUME BeforeIsNoWriter == Before \notin FileWriters

VARIABLES
    file,       \* the content of the file
    added,      \* ... in the index
    committed,  \* ... in the last commit
    holder,     \* of .git.lock, or Before for nobody
    filePc,     \* of each writer
    told,       \* what each writer's model was told of the commit
    mishap      \* history: a write or git failed or was off, or a writer was killed

fileVars == <<file, added, committed, holder, filePc, told, mishap>>

Free == Before

FilesInit ==
    /\ file = {Before} /\ added = file /\ committed = file
    /\ holder = Free
    /\ filePc = [w \in FileWriters |-> "idle"]
    /\ told = [w \in FileWriters |-> "nothing"]
    /\ mishap = FALSE

\* The operators named Mutant... are plausible bugs, each in the form of the
\* definition that follows it; no specification uses them.

FileGoes(w, a, b) == filePc[w] = a /\ filePc' = [filePc EXCEPT ![w] = b]
Tells(w, what) == told' = [told EXCEPT ![w] = what]

\* fs::write opens the file with O_TRUNC ...
Truncates(w) ==
    /\ FileGoes(w, "idle", "truncated")
    /\ file' = {}
    /\ UNCHANGED <<added, committed, holder, told, mishap>>

\* ... and writes from its own offset 0.  What another has written meanwhile is written
\* over, as far as the new text reaches.
WritesText(w) ==
    /\ FileGoes(w, "truncated", "written")
    /\ file' \in {{w}, file \cup {w}}
    /\ UNCHANGED <<added, committed, holder, told, mishap>>

\* The disk is full: an error for the model, and no commit.
WriteTextFails(w) ==
    /\ FileGoes(w, "truncated", "through")
    /\ file' \in {file, file \cup {w}}
    /\ Tells(w, "error")
    /\ mishap' = TRUE
    /\ UNCHANGED <<added, committed, holder>>

\* Whoever finds the lock taken leaves the commit to its holder.
MutantTakesLock(w) ==
    /\ FileGoes(w, "written", IF holder = Free THEN "locked" ELSE "through")
    /\ holder' = IF holder = Free THEN w ELSE holder
    /\ UNCHANGED <<file, added, committed, told, mishap>>

TakesLock(w) ==
    /\ holder = Free
    /\ FileGoes(w, "written", "locked")
    /\ holder' = w
    /\ UNCHANGED <<file, added, committed, told, mishap>>

\* With auto_commit = false nothing is committed, and the model is told that it was.
NoAutoCommit(w) ==
    /\ FileGoes(w, "written", "through")
    /\ Tells(w, "committed")
    /\ mishap' = TRUE
    /\ UNCHANGED <<file, added, committed, holder>>

GitAdds(w) ==
    /\ FileGoes(w, "locked", "added")
    /\ added' = file
    /\ UNCHANGED <<file, committed, holder, told, mishap>>

\* git says on stdout that there is nothing to commit, and the code looks for it on stderr.
GitCommits(w) ==
    /\ FileGoes(w, "added", "through")
    /\ Tells(w, IF committed = added THEN "failed" ELSE "committed")
    /\ committed' = added
    /\ holder' = Free
    /\ UNCHANGED <<file, added, mishap>>

GitFails(w) ==
    /\ filePc[w] \in {"locked", "added"}
    /\ filePc' = [filePc EXCEPT ![w] = "through"]
    /\ Tells(w, "failed")
    /\ holder' = Free
    /\ mishap' = TRUE
    /\ UNCHANGED <<file, added, committed>>

\* The runner's tool timeout, or DELETE.
WriterKilled(w) ==
    /\ filePc[w] \notin {"idle", "through"}
    /\ filePc' = [filePc EXCEPT ![w] = "through"]
    /\ holder' = IF holder = w THEN Free ELSE holder
    /\ mishap' = TRUE
    /\ UNCHANGED <<file, added, committed, told>>

FilesNext ==
    \E w \in FileWriters :
          \/ Truncates(w) \/ WritesText(w) \/ WriteTextFails(w)
          \/ TakesLock(w) \/ NoAutoCommit(w) \/ GitAdds(w) \/ GitCommits(w) \/ GitFails(w)
          \/ WriterKilled(w)

-----------------------------------------------------------------------------
(* Properties. *)

Pending(w) == filePc[w] \in {"truncated", "written", "locked", "added"}

\* Files are written outside of the lock, and a commit may take one that another process
\* has just truncated.  Without mishap, once nobody is at the file, the last commit has it
\* as it is: text of those who wrote it and nothing of before, and one of them was told so.
CommittedIsLatest ==
    ~mishap /\ (\A w \in FileWriters : ~Pending(w)) =>
        /\ committed = file
        /\ (\E w \in FileWriters : filePc[w] = "through") =>
              /\ file # {} /\ file \subseteq {w \in FileWriters : filePc[w] = "through"}
              /\ \E w \in FileWriters : told[w] = "committed"
=============================================================================
