----------------------- MODULE SoulReflection_proofs -----------------------
(***************************************************************************)
(* The two locks do their work for any number of sessions and writers,     *)
(* whatever is killed; and as long as nothing goes wrong no reflection is  *)
(* lost.                                                                   *)
(***************************************************************************)
EXTENDS SoulReflection, TLAPS

\* Between taking the soul lock and giving it back.
HoldingSoul ==
    {"reflecting", "writing", "gitWait", "adding", "committing", "unlocking"}

\* A process in a critical section holds the lock.
StageHolds ==
    /\ \A s \in Sessions : stage[s] \in HoldingSoul => soulLock = s
    /\ \A a \in Agents : stage[a] \in {"adding", "committing"} => gitLock = a

\* So does a child of its, for as long as it lives: this is what remains of the
\* lock when the process itself is killed.
ChildHolds ==
    /\ \A a \in Agents : child[a] \in GitChildren => gitLock = a
    /\ \A a \in Agents :
          /\ stage[a] = "reflecting" <=> stage[a] # "killed" /\ child[a] = "model"
          /\ stage[a] = "adding" <=> stage[a] # "killed" /\ child[a] = "add"
          /\ stage[a] = "committing" <=> stage[a] # "killed" /\ child[a] = "commit"

LockInv ==
    /\ TypeOK
    /\ StageHolds
    /\ ChildHolds
    /\ ReflectsOnCurrent

LEMMA LockInit == Init => LockInv
  BY AgentsDiffer, NobodyIsNone
     DEF Init, LockInv, TypeOK, StageHolds, ChildHolds, WriterStages,
     ReflectsOnCurrent, HoldingSoul, Stages, Texts, GitChildren, Agents

LEMMA SessionKeepsLocks ==
  ASSUME LockInv, NEW s \in Sessions, SessionStep(s)
  PROVE  LockInv'
<1> USE AgentsDiffer, NobodyIsNone
    DEF LockInv, TypeOK, StageHolds, ChildHolds, WriterStages,
    ReflectsOnCurrent, HoldingSoul, Stages, Texts, GitChildren, Agents, files,
    Goes, Runs
<1>1. CASE SessionStarts(s)
  BY <1>1 DEF SessionStarts
<1>2. CASE LoopEnds(s)
  BY <1>2 DEF LoopEnds
<1>3. CASE TakeSoulLock(s)
  BY <1>3 DEF TakeSoulLock
<1>4. CASE ModelAnswers(s)
  BY <1>4 DEF ModelAnswers
<1>5. CASE WriteSoul(s)
  BY <1>5 DEF WriteSoul
<1>6. CASE ReflectionSkipped(s)
  BY <1>6 DEF ReflectionSkipped
<1>7. CASE WriteFails(s)
  BY <1>7 DEF WriteFails
<1>8. CASE LockFails(s)
  BY <1>8 DEF LockFails, Unlocked
<1>9. CASE TakeGitLock(s)
  BY <1>9 DEF TakeGitLock
<1>10. CASE SoulAdded(s)
  BY <1>10 DEF SoulAdded
<1>11. CASE SoulCommitted(s)
  BY <1>11 DEF SoulCommitted
<1>12. CASE ReleaseSoulLock(s)
  BY <1>12 DEF ReleaseSoulLock
<1>. QED
  BY <1>1, <1>2, <1>3, <1>4, <1>5, <1>6, <1>7, <1>8, <1>9, <1>10, <1>11, <1>12
     DEF SessionStep

LEMMA WriterKeepsLocks ==
  ASSUME LockInv, NEW w \in Writers, WriterStep(w)
  PROVE  LockInv'
<1> USE AgentsDiffer, NobodyIsNone
    DEF LockInv, TypeOK, StageHolds, ChildHolds, WriterStages,
    ReflectsOnCurrent, HoldingSoul, Stages, Texts, GitChildren, Agents, files,
    Goes, Runs
<1>1. CASE KnowledgeWritten(w)
  BY <1>1 DEF KnowledgeWritten
<1>2. CASE WriterTakesGitLock(w)
  BY <1>2 DEF WriterTakesGitLock
<1>3. CASE KnowledgeAdded(w)
  BY <1>3 DEF KnowledgeAdded
<1>4. CASE AddFails(w)
  BY <1>4 DEF AddFails
<1>5. CASE KnowledgeCommitted(w)
  BY <1>5 DEF KnowledgeCommitted
<1>6. CASE WriterReplaced(w)
  BY <1>6 DEF WriterReplaced
<1>. QED
  BY <1>1, <1>2, <1>3, <1>4, <1>5, <1>6 DEF WriterStep

\* The lock of a killed process is free only once its child has ended too.
LEMMA DeathKeepsLocks ==
  ASSUME LockInv, NEW a \in Agents, Killed(a) \/ OrphanEnds(a)
  PROVE  LockInv'
<1> USE AgentsDiffer, NobodyIsNone
    DEF LockInv, TypeOK, StageHolds, ChildHolds, WriterStages,
    ReflectsOnCurrent, HoldingSoul, Stages, Texts, GitChildren, Agents, files,
    Unlocked, Runs
<1>1. CASE Killed(a)
  BY <1>1 DEF Killed
<1>2. CASE OrphanEnds(a)
  BY <1>2 DEF OrphanEnds
<1>. QED
  BY <1>1, <1>2

LEMMA LockStep == LockInv /\ [Next]_vars => LockInv'
<1> SUFFICES ASSUME LockInv, [Next]_vars PROVE LockInv'
  OBVIOUS
<1>1. CASE UNCHANGED vars
  BY <1>1 DEF vars, LockInv, TypeOK, StageHolds, ChildHolds, WriterStages,
     ReflectsOnCurrent
<1>2. CASE Next
  BY <1>2, SessionKeepsLocks, WriterKeepsLocks, DeathKeepsLocks DEF Next
<1>. QED
  BY <1>1, <1>2

LEMMA LocksHold == Spec => []LockInv
  BY LockInit, LockStep, PTL DEF Spec

\* Every variable keeps its type.
THEOREM SoulTypeCorrect == Spec => []TypeOK
  BY LocksHold, PTL DEF LockInv

\* Nobody writes SOUL.md under a session that reflects on it, whatever is killed.
THEOREM AlwaysCurrent == Spec => []ReflectsOnCurrent
  BY LocksHold, PTL DEF LockInv

\* No two git processes run at once, orphans included.
THEOREM GitIsSerialized == Spec => []GitSerialized
<1>1. LockInv => GitSerialized
  BY DEF LockInv, ChildHolds, GitSerialized
<1>. QED
  BY <1>1, LocksHold, PTL

---------------------------------------------------------------------------
(* Without faults. *)

NoFaults == ~ModelErrors /\ ~Kills /\ ~IoFails

\* The lock was taken and SOUL.md was not written yet.
Unreflected == {"idle", "looping", "waiting", "reflecting", "writing"}

\* The history variable is what the file says, or would say if it were not being
\* rewritten; the new text adds the writer alone.
KeptInv ==
    /\ \A a \in Agents : stage[a] # "killed"
    /\ Rewriting = {} => soul = reflected
    /\ \A s \in Sessions : stage[s] \in Unreflected => s \notin reflected
    /\ \A s \in Sessions : stage[s] = "writing" => text[s] = reflected \cup {s}

\* git is behind SOUL.md only while the session that wrote it is committing.
CommitInv ==
    /\ (\A s \in Sessions : stage[s] # "committing") => head = index
    /\ \A s \in Sessions : stage[s] = "committing" => index = reflected
    /\ (\A s \in Sessions : stage[s] \notin {"gitWait", "adding", "committing"})
           => head = reflected

FaultFree == LockInv /\ KeptInv /\ CommitInv

LEMMA SeenIsReflected == FaultFree => SoulAsSeen = reflected
<1> SUFFICES ASSUME FaultFree PROVE SoulAsSeen = reflected
  OBVIOUS
<1>1. CASE Rewriting = {}
  BY <1>1 DEF FaultFree, KeptInv, SoulAsSeen
<1>2. ASSUME NEW s \in Sessions, s \in Rewriting PROVE SoulAsSeen = reflected
  <2>1. stage[s] = "writing" /\ text[s] = reflected \cup {s} /\ s \notin reflected
    BY <1>2 DEF Rewriting, FaultFree, KeptInv, Unreflected
  <2>2. Rewriting = {s}
    BY <1>2 DEF Rewriting, FaultFree, LockInv, StageHolds, HoldingSoul
  <2>3. SoulAsSeen = text[s] \ {s}
    BY <2>2 DEF SoulAsSeen
  <2>. QED
    BY <2>1, <2>3
<1>. QED
  BY <1>1, <1>2 DEF Rewriting

LEMMA FaultFreeInit == Init => FaultFree
  BY LockInit, AgentsDiffer
     DEF Init, FaultFree, KeptInv, CommitInv, Rewriting, Unreflected, Agents

LEMMA FaultFreeSession ==
  ASSUME NoFaults, FaultFree, NEW s \in Sessions, SessionStep(s)
  PROVE  KeptInv' /\ CommitInv'
<1> USE AgentsDiffer, NobodyIsNone
    DEF NoFaults, FaultFree, KeptInv, CommitInv, LockInv, TypeOK, StageHolds,
    HoldingSoul, ReflectsOnCurrent, Unreflected, Rewriting, Stages, Texts,
    Agents, files, Goes, Runs
<1>1. CASE SessionStarts(s)
  BY <1>1 DEF SessionStarts
<1>2. CASE LoopEnds(s)
  BY <1>2 DEF LoopEnds
<1>3. CASE TakeSoulLock(s)
  BY <1>3 DEF TakeSoulLock
<1>4. CASE ModelAnswers(s)
  BY <1>4 DEF ModelAnswers
<1>5. CASE WriteSoul(s)
  BY <1>5 DEF WriteSoul
<1>6. CASE ReflectionSkipped(s)
  BY <1>6 DEF ReflectionSkipped
<1>7. CASE TakeGitLock(s)
  BY <1>7 DEF TakeGitLock
<1>8. CASE SoulAdded(s)
  BY <1>8 DEF SoulAdded
<1>9. CASE SoulCommitted(s)
  BY <1>9 DEF SoulCommitted
<1>10. CASE ReleaseSoulLock(s)
  BY <1>10 DEF ReleaseSoulLock
<1>. QED
  BY <1>1, <1>2, <1>3, <1>4, <1>5, <1>6, <1>7, <1>8, <1>9, <1>10
     DEF SessionStep, WriteFails, LockFails

LEMMA FaultFreeWriter ==
  ASSUME NoFaults, FaultFree, NEW w \in Writers, WriterStep(w)
  PROVE  KeptInv' /\ CommitInv' /\ UNCHANGED head
<1>1. /\ \A s \in Sessions : stage'[s] = stage[s]
      /\ \A a \in Agents : stage'[a] # "killed"
      /\ UNCHANGED <<soul, index, text, reflected>>
  BY AgentsDiffer DEF NoFaults, FaultFree, LockInv, TypeOK, KeptInv, WriterStep,
     KnowledgeWritten, WriterTakesGitLock, KnowledgeAdded, AddFails,
     KnowledgeCommitted, WriterReplaced, Goes, files, Agents
<1>2. UNCHANGED head
  <2>1. CASE KnowledgeCommitted(w)
    <3>1. \A s \in Sessions : stage[s] # "committing"
      BY <2>1, AgentsDiffer
         DEF KnowledgeCommitted, Goes, FaultFree, LockInv, StageHolds, Agents
    <3>. QED
      BY <2>1, <3>1 DEF KnowledgeCommitted, NoFaults, FaultFree, CommitInv
  <2>. QED
    BY <2>1 DEF WriterStep, KnowledgeWritten, WriterTakesGitLock,
       KnowledgeAdded, AddFails, KnowledgeCommitted, WriterReplaced, files
<1>. QED
  BY <1>1, <1>2 DEF FaultFree, KeptInv, CommitInv, Rewriting

LEMMA FaultFreeStep ==
  ASSUME NoFaults
  PROVE  FaultFree /\ [Next]_vars => FaultFree'
<1> SUFFICES ASSUME FaultFree, [Next]_vars PROVE FaultFree'
  OBVIOUS
<1>1. LockInv'
  BY LockStep DEF FaultFree
<1>2. CASE UNCHANGED vars
  BY <1>1, <1>2 DEF vars, FaultFree, KeptInv, CommitInv, Rewriting
<1>3. ASSUME NEW a \in Agents, Killed(a) \/ OrphanEnds(a) PROVE FALSE
  BY <1>3 DEF NoFaults, FaultFree, KeptInv, Killed, OrphanEnds
<1>. QED
  BY <1>1, <1>2, <1>3, FaultFreeSession, FaultFreeWriter DEF Next, FaultFree

LEMMA FaultFreeHolds ==
  ASSUME NoFaults
  PROVE  Spec => []FaultFree
<1>1. FaultFree /\ [Next]_vars => FaultFree'
  BY FaultFreeStep
<1>. QED
  BY <1>1, FaultFreeInit, PTL DEF Spec

\* Without faults no reflection that was written is lost.
THEOREM ReflectionsKept ==
  ASSUME NoFaults
  PROVE  Spec => []NoReflectionLost
<1>1. FaultFree => NoReflectionLost
  BY DEF FaultFree, KeptInv, NoReflectionLost, Rewriting
<1>. QED
  BY <1>1, FaultFreeHolds, PTL

\* Without faults git has what SOUL.md says whenever the lock is free.
THEOREM HeadKeepsUp ==
  ASSUME NoFaults
  PROVE  Spec => []HeadIsSoul
<1>1. ASSUME FaultFree, soulLock = Nobody PROVE head = soul
  <2>1. \A s \in Sessions : stage[s] \notin HoldingSoul
    BY <1>1, NobodyIsNone DEF FaultFree, LockInv, StageHolds, Agents
  <2>. QED
    BY <1>1, <2>1 DEF FaultFree, KeptInv, CommitInv, Rewriting, HoldingSoul
<1>2. FaultFree => HeadIsSoul
  BY <1>1 DEF HeadIsSoul
<1>. QED
  BY <1>2, FaultFreeHolds, PTL

\* Each step is a reflection, a commit or a stutter of the abstract specification.
LEMMA StepMaps ==
  ASSUME NoFaults, FaultFree, [Next]_vars,
         SoulAsSeen = reflected, (SoulAsSeen = reflected)'
  PROVE  [Promise!Next]_<<SoulAsSeen, head>>
<1>1. SoulAsSeen = reflected /\ SoulAsSeen' = reflected'
  OBVIOUS
<1>2. CASE UNCHANGED <<reflected, head>>
  BY <1>1, <1>2
<1>3. ASSUME NEW s \in Sessions, WriteSoul(s) PROVE Promise!Reflect(s)
  <2>1. stage[s] = "writing" /\ UNCHANGED head /\ reflected' = reflected \cup {s}
    BY <1>3 DEF WriteSoul, Goes
  <2>2. \A x \in Sessions : stage[x] \notin {"gitWait", "adding", "committing"}
    BY <2>1, NobodyIsNone DEF FaultFree, LockInv, StageHolds, HoldingSoul
  <2>3. head = reflected /\ s \notin reflected
    BY <2>1, <2>2 DEF FaultFree, CommitInv, KeptInv, Unreflected
  <2>. QED
    BY <1>1, <2>1, <2>3 DEF Promise!Reflect
<1>4. ASSUME NEW s \in Sessions, SoulCommitted(s) PROVE Promise!Commit
  <2>1. head' = index /\ index = reflected /\ UNCHANGED reflected
    BY <1>4 DEF SoulCommitted, Goes, NoFaults, FaultFree, CommitInv
  <2>. QED
    BY <1>1, <2>1 DEF Promise!Commit
<1>5. ASSUME NEW s \in Sessions, SessionStep(s), ~WriteSoul(s), ~SoulCommitted(s)
      PROVE  UNCHANGED <<reflected, head>>
  BY <1>5 DEF SessionStep, SessionStarts, LoopEnds, TakeSoulLock, ModelAnswers,
     ReflectionSkipped, WriteFails, LockFails, TakeGitLock, SoulAdded,
     ReleaseSoulLock, files
<1>6. ASSUME NEW w \in Writers, WriterStep(w) PROVE UNCHANGED <<reflected, head>>
  BY <1>6, FaultFreeWriter
     DEF WriterStep, KnowledgeWritten, WriterTakesGitLock, KnowledgeAdded,
     AddFails, KnowledgeCommitted, WriterReplaced
<1>7. ASSUME NEW a \in Agents, Killed(a) \/ OrphanEnds(a) PROVE FALSE
  BY <1>7 DEF NoFaults, FaultFree, KeptInv, Killed, OrphanEnds
<1>8. CASE UNCHANGED vars
  BY <1>2, <1>8 DEF vars
<1>. QED
  BY <1>2, <1>3, <1>4, <1>5, <1>6, <1>7, <1>8 DEF Next, Promise!Next

\* The protocol of locks, truncations and commits implements the autobiography.
THEOREM KeepsAutobiography ==
  ASSUME NoFaults
  PROVE  Spec => IsAutobiography
<1>1. Init => Promise!Init
  BY AgentsDiffer DEF Init, Promise!Init, SoulAsSeen, Rewriting, Agents
<1>2. FaultFree /\ [Next]_vars /\ SoulAsSeen = reflected /\ (SoulAsSeen = reflected)'
        => [Promise!Next]_<<SoulAsSeen, head>>
  BY StepMaps
<1>. QED
  BY <1>1, <1>2, SeenIsReflected, FaultFreeHolds, PTL
     DEF Spec, IsAutobiography, Promise!Spec
=============================================================================
