-------------------------- MODULE Phylactd_proofs --------------------------
(***************************************************************************)
(* What holds of the session daemon for every number of sessions, requests *)
(* and restarts.                                                           *)
(***************************************************************************)
EXTENDS Phylactd, FiniteSetTheorems, TLAPS

\* Nothing points at a session that has no runner.
RunnerKnown ==
    /\ \A s \in Sessions : IsTracked(s) \/ s \in pidFile => proc[s] # "none"
    /\ \A c \in Creators : creator[c].pc = "spawned" =>
           creator[c].sid \in Sessions /\ proc[creator[c].sid] # "none"
    /\ \A d \in Deleters : deleter[d].pc # "idle" =>
           deleter[d].sid \in Sessions /\ proc[deleter[d].sid] # "none"

\* What is about to be written off is dead already.
WrittenOffIsDead ==
    /\ probed # NoSession => proc[probed] \in Dead
    /\ \A d \in Deleters :
           deleter[d].pc = "confirming" => proc[deleter[d].sid] \in Dead

\* Exit code 0 means that the done entry was written.
CleanExitIsLogged == \A s \in Sessions : exit[s] = "ok" => s \in doneLog

\* The inductive invariant.  EndedIsDead is not inductive alone: the second
\* section of DELETE, and the reading of the log after the probe, write a status
\* without looking at the process again.
IInv ==
    /\ TypeOK
    /\ RunnerKnown
    /\ WrittenOffIsDead
    /\ CleanExitIsLogged
    /\ EndedIsDead
    /\ VerdictMatchesLog

---------------------------------------------------------------------------
(* Typing. *)

LEMMA TypeInit == Init => TypeOK
  BY MaxRestartsNat DEF Init, ProcInit, TypeOK, ProcTypeOK, IdleRequest, Absent,
     Entry, Statuses, Summaries, Live, Dead

\* The steps of a runner keep the types of what it owns.
LEMMA RunnerTyping ==
  ASSUME TypeOK, NEW s \in Sessions, RunnerStep(s)
  PROVE  TypeOK'
<1> USE DEF TypeOK, ProcTypeOK, Live, Dead, daemonVars
<1>1. UNCHANGED daemonVars
  BY DEF RunnerStep
<1>2. CASE WritePid(s)
  BY <1>1, <1>2 DEF WritePid
<1>3. CASE LogDone(s)
  BY <1>1, <1>3 DEF LogDone
<1>4. CASE SessionFails(s)
  BY <1>1, <1>4 DEF SessionFails
<1>5. CASE RemovePid(s)
  BY <1>1, <1>5 DEF RemovePid
<1>6. CASE RunnerExits(s, IsChild(s))
  BY <1>1, <1>6 DEF RunnerExits, AfterEnd
<1>7. CASE RunnerDies(s, IsChild(s))
  BY <1>1, <1>7 DEF RunnerDies, AfterEnd
<1>8. CASE PidRecycled(s)
  BY <1>1, <1>8 DEF PidRecycled
<1>. QED
  BY <1>2, <1>3, <1>4, <1>5, <1>6, <1>7, <1>8 DEF RunnerStep

LEMMA CreateTyping ==
  ASSUME TypeOK, NEW c \in Creators, CreateStep(c)
  PROVE  TypeOK'
<1> USE DEF TypeOK, ProcTypeOK, Live, Dead, procVars, Entry, Statuses, Summaries
<1>1. CASE CreateCheck(c)
  BY <1>1 DEF CreateCheck
<1>2. ASSUME NEW s \in Sessions, CreateSpawn(c, s) PROVE TypeOK'
  BY <1>2 DEF CreateSpawn, Spawn
<1>3. CASE CreateFails(c)
  BY <1>3 DEF CreateFails, IdleRequest
<1>4. CASE CreateInsert(c)
  BY <1>4 DEF CreateInsert, IdleRequest
<1>. QED
  BY <1>1, <1>2, <1>3, <1>4 DEF CreateStep

LEMMA DeleteTyping ==
  ASSUME TypeOK, NEW d \in Deleters, DeleteStep(d)
  PROVE  TypeOK'
<1> USE DEF TypeOK, ProcTypeOK, Live, Dead, procVars, Entry, Statuses, Summaries
<1>1. ASSUME NEW s \in Sessions, DeleteSignal(d, s) PROVE TypeOK'
  BY <1>1 DEF DeleteSignal, KilledAndCollected
<1>2. CASE DeleteKill(d)
  BY <1>2 DEF DeleteKill, KilledAndCollected
<1>3. CASE DeleteAbandoned(d)
  BY <1>3 DEF DeleteAbandoned, IdleRequest
<1>4. CASE DeleteConfirm(d)
  <2>1. table' \in [Sessions -> Entry]
    BY <1>4 DEF DeleteConfirm, Closed
  <2>. QED
    BY <1>4, <2>1 DEF DeleteConfirm, IdleRequest
<1>. QED
  BY <1>1, <1>2, <1>3, <1>4 DEF DeleteStep

LEMMA ReapTyping ==
  ASSUME TypeOK, ReapRecord \/ \E s \in Sessions : ReapProbe(s)
  PROVE  TypeOK'
<1> USE DEF TypeOK, ProcTypeOK, Live, Dead, procVars, Entry, Statuses, Summaries
<1>1. ASSUME NEW s \in Sessions, ReapProbe(s) PROVE TypeOK'
  BY <1>1 DEF ReapProbe, Collected
<1>2. CASE ReapRecord
  BY <1>2 DEF ReapRecord, Closed, Verdict, LogSummary
<1>. QED
  BY <1>1, <1>2

\* Whatever is killed with the daemon, its own memory is gone.
LEMMA DownTyping ==
  ASSUME TypeOK, NEW killed, DaemonGoesDown(killed)
  PROVE  TypeOK'
<1> USE DEF TypeOK, ProcTypeOK, Live, Dead, Entry, Statuses, Summaries
<1>1. restarts' \in 0..MaxRestarts
  BY MaxRestartsNat DEF DaemonGoesDown
<1>2. proc' \in [Sessions -> {"none"} \cup Live \cup Dead]
      /\ exit' \in [Sessions -> {"none", "ok", "err"}]
  BY DEF DaemonGoesDown, Collected, KilledAndCollected
<1>. QED
  BY <1>1, <1>2 DEF DaemonGoesDown, Absent, IdleRequest

LEMMA LifeTyping ==
  ASSUME TypeOK, LifeStep
  PROVE  TypeOK'
<1> USE DEF TypeOK, ProcTypeOK, Live, Dead, procVars, Entry, Statuses, Summaries
<1>1. CASE DaemonCrashes \/ MachineStops
  BY <1>1, DownTyping DEF DaemonCrashes, MachineStops
<1>2. CASE DaemonStarts
  BY <1>2 DEF DaemonStarts
<1>3. ASSUME NEW s \in Sessions, RecoverProbe(s) PROVE TypeOK'
  <2>1. table' \in [Sessions -> Entry] /\ probed' \in Sessions \cup {NoSession}
    <3>1. CASE UNCHANGED <<table, probed>>
      BY <3>1
    <3>2. CASE /\ UNCHANGED probed
               /\ table' = [table EXCEPT ![s] = [status |-> "running",
                               child |-> FALSE, summary |-> "none"]]
      BY <3>2
    <3>3. CASE UNCHANGED table /\ probed' = s
      BY <3>3
    <3>. QED
      BY <1>3, <3>1, <3>2, <3>3 DEF RecoverProbe
  <2>. QED
    BY <1>3, <2>1 DEF RecoverProbe
<1>4. CASE RecoverRecord
  BY <1>4 DEF RecoverRecord, LogSummary
<1>5. CASE RecoverEnds
  BY <1>5 DEF RecoverEnds
<1>. QED
  BY <1>1, <1>2, <1>3, <1>4, <1>5 DEF LifeStep

LEMMA TypeStep == TypeOK /\ [Next]_vars => TypeOK'
<1> SUFFICES ASSUME TypeOK, [Next]_vars PROVE TypeOK'
  OBVIOUS
<1>1. CASE UNCHANGED vars
  BY <1>1 DEF vars, TypeOK, ProcTypeOK
<1>2. CASE Next
  BY <1>2, RunnerTyping, CreateTyping, DeleteTyping, ReapTyping, LifeTyping
     DEF Next
<1>. QED
  BY <1>1, <1>2

\* Every variable keeps its type, however many sessions and requests there are.
THEOREM TypeCorrect == Spec => []TypeOK
  BY TypeInit, TypeStep, PTL DEF Spec

---------------------------------------------------------------------------
(* Verdicts. *)

\* A process that ended stays ended, and its log no longer grows.
DeadForGood ==
    \A s \in Sessions :
        /\ proc[s] # "none" => proc'[s] # "none"
        /\ proc[s] \in Dead => proc'[s] \in Dead
        /\ s \in doneLog => s \in doneLog'
        /\ proc[s] \in Dead /\ s \in doneLog' => s \in doneLog

LEMMA RunnerDeadForGood ==
  ASSUME TypeOK, NEW s \in Sessions, RunnerStep(s)
  PROVE  DeadForGood
  BY DEF TypeOK, ProcTypeOK, Live, Dead, DeadForGood, RunnerStep, WritePid,
     LogDone, SessionFails, RemovePid, RunnerExits, RunnerDies, PidRecycled,
     AfterEnd, IsLive

LEMMA InvInit == Init => IInv
  BY TypeInit DEF Init, ProcInit, IInv, RunnerKnown, WrittenOffIsDead,
     CleanExitIsLogged, EndedIsDead, VerdictMatchesLog, IdleRequest, Absent,
     Status, IsTracked, Ended

\* The parts of the invariant that speak of the daemon's memory and of dead
\* processes survive any step that leaves that memory alone.
LEMMA MemoryKept ==
  ASSUME IInv, DeadForGood, UNCHANGED <<table, creator, deleter, probed>>,
         \A s \in Sessions : s \in pidFile' => proc'[s] # "none"
  PROVE  (RunnerKnown /\ WrittenOffIsDead /\ EndedIsDead /\ VerdictMatchesLog)'
<1> USE DEF IInv, TypeOK, DeadForGood, Status, Ended
<1>1. RunnerKnown'
  BY DEF RunnerKnown, IsTracked
<1>2. WrittenOffIsDead'
  <2>1. probed' # NoSession => proc'[probed'] \in Dead
    BY DEF WrittenOffIsDead
  <2>2. ASSUME NEW d \in Deleters, deleter[d].pc = "confirming"
        PROVE  proc'[deleter[d].sid] \in Dead
    BY <2>2 DEF WrittenOffIsDead, RunnerKnown
  <2>. QED
    BY <2>1, <2>2 DEF WrittenOffIsDead
<1>3. EndedIsDead'
  BY DEF EndedIsDead
<1>4. VerdictMatchesLog'
  BY DEF VerdictMatchesLog, EndedIsDead
<1>. QED
  BY <1>1, <1>2, <1>3, <1>4

LEMMA RunnerInv ==
  ASSUME IInv, NEW s \in Sessions, RunnerStep(s)
  PROVE  IInv'
<1>1. TypeOK' /\ DeadForGood
  BY RunnerTyping, RunnerDeadForGood DEF IInv
<1>2. \A x \in Sessions : x \in pidFile' => x \in pidFile \/ proc'[x] # "none"
  BY DEF IInv, TypeOK, ProcTypeOK, RunnerStep, WritePid, LogDone, SessionFails,
     RemovePid, RunnerExits, RunnerDies, PidRecycled
<1>3. \A x \in Sessions : x \in pidFile' => proc'[x] # "none"
  BY <1>1, <1>2 DEF IInv, RunnerKnown, DeadForGood
<1>4. CleanExitIsLogged'
  BY DEF IInv, TypeOK, ProcTypeOK, CleanExitIsLogged, RunnerStep, WritePid,
     LogDone, SessionFails, RemovePid, RunnerExits, RunnerDies, PidRecycled
<1>5. UNCHANGED <<table, creator, deleter, probed>>
  BY DEF RunnerStep, daemonVars
<1>. QED
  BY <1>1, <1>3, <1>4, <1>5, MemoryKept DEF IInv

LEMMA CreateInv ==
  ASSUME IInv, NEW c \in Creators, CreateStep(c)
  PROVE  IInv'
<1> USE DEF IInv, TypeOK, ProcTypeOK, Dead, procVars, RunnerKnown, IsTracked,
        Status, WrittenOffIsDead, CleanExitIsLogged, EndedIsDead, Ended,
        VerdictMatchesLog, IdleRequest
<1>1. TypeOK'
  BY CreateTyping
<1>2. CASE CreateCheck(c)
  BY <1>1, <1>2 DEF CreateCheck
<1>3. ASSUME NEW s \in Sessions, CreateSpawn(c, s) PROVE IInv'
  BY <1>1, <1>3 DEF CreateSpawn, Spawn
<1>4. CASE CreateFails(c)
  BY <1>1, <1>4 DEF CreateFails
<1>5. CASE CreateInsert(c)
  BY <1>1, <1>5 DEF CreateInsert
<1>. QED
  BY <1>2, <1>3, <1>4, <1>5 DEF CreateStep

LEMMA DeleteInv ==
  ASSUME IInv, NEW d \in Deleters, DeleteStep(d)
  PROVE  IInv'
<1> USE DEF IInv, TypeOK, ProcTypeOK, Live, Dead, procVars, RunnerKnown,
        IsTracked, Status, WrittenOffIsDead, CleanExitIsLogged, EndedIsDead,
        Ended, VerdictMatchesLog, IdleRequest, IsLive
<1>1. TypeOK'
  BY DeleteTyping
<1>2. ASSUME NEW s \in Sessions, DeleteSignal(d, s) PROVE IInv'
  BY <1>1, <1>2 DEF DeleteSignal, KilledAndCollected
<1>3. CASE DeleteKill(d)
  BY <1>1, <1>3 DEF DeleteKill, KilledAndCollected
<1>4. CASE DeleteAbandoned(d)
  BY <1>1, <1>4 DEF DeleteAbandoned
<1>5. CASE DeleteConfirm(d)
  BY <1>1, <1>5 DEF DeleteConfirm, Closed
<1>. QED
  BY <1>2, <1>3, <1>4, <1>5 DEF DeleteStep

LEMMA ReapInv ==
  ASSUME IInv, ReapRecord \/ \E s \in Sessions : ReapProbe(s)
  PROVE  IInv'
<1> USE DEF IInv, TypeOK, ProcTypeOK, Live, Dead, procVars, RunnerKnown,
        IsTracked, Status, WrittenOffIsDead, CleanExitIsLogged, EndedIsDead,
        Ended, VerdictMatchesLog
<1>1. TypeOK'
  BY ReapTyping
<1>2. ASSUME NEW s \in Sessions, ReapProbe(s) PROVE IInv'
  BY <1>1, <1>2 DEF ReapProbe, Collected, FoundDead, PidAnswers
<1>3. CASE ReapRecord
  BY <1>1, <1>3 DEF ReapRecord, Closed, Verdict, LogSummary
<1>. QED
  BY <1>2, <1>3

LEMMA LifeInv ==
  ASSUME IInv, LifeStep
  PROVE  IInv'
<1> USE DEF IInv, TypeOK, ProcTypeOK, Live, Dead, procVars, RunnerKnown,
        IsTracked, Status, WrittenOffIsDead, CleanExitIsLogged, EndedIsDead,
        Ended, VerdictMatchesLog
<1>1. TypeOK'
  BY LifeTyping
<1>2. ASSUME NEW killed, DaemonGoesDown(killed) PROVE IInv'
  BY <1>1, <1>2 DEF DaemonGoesDown, Collected, KilledAndCollected, Absent,
     IdleRequest, IsLive
<1>3. CASE DaemonStarts
  BY <1>1, <1>3 DEF DaemonStarts
<1>4. ASSUME NEW s \in Sessions, RecoverProbe(s) PROVE IInv'
  BY <1>1, <1>4 DEF RecoverProbe, PidAnswers
<1>5. CASE RecoverRecord
  BY <1>1, <1>5 DEF RecoverRecord, LogSummary
<1>6. CASE RecoverEnds
  BY <1>1, <1>6 DEF RecoverEnds
<1>. QED
  BY <1>2, <1>3, <1>4, <1>5, <1>6 DEF LifeStep, DaemonCrashes, MachineStops

LEMMA InvStep == IInv /\ [Next]_vars => IInv'
<1> SUFFICES ASSUME IInv, [Next]_vars PROVE IInv'
  OBVIOUS
<1>1. CASE UNCHANGED vars
  BY <1>1 DEF vars, IInv, TypeOK, ProcTypeOK, RunnerKnown, IsTracked, Status,
     WrittenOffIsDead, CleanExitIsLogged, EndedIsDead, VerdictMatchesLog
<1>2. CASE Next
  BY <1>2, RunnerInv, CreateInv, DeleteInv, ReapInv, LifeInv DEF Next
<1>. QED
  BY <1>1, <1>2

LEMMA Invariance == Spec => []IInv
  BY InvInit, InvStep, PTL DEF Spec

\* No session is shown as ended while its runner lives.
THEOREM EndedAreDead == Spec => []EndedIsDead
  BY Invariance, PTL DEF IInv

\* The status of a session agrees with its log.
THEOREM VerdictsMatchLog == Spec => []VerdictMatchesLog
  BY Invariance, PTL DEF IInv

---------------------------------------------------------------------------
(* The admission bound.  A request inserts at most the one session it was   *)
(* admitted for, so the sum of the two counts grows only at the check, where *)
(* the sessions number less than MaxConcurrent and the requests no more than *)
(* there are.                                                               *)

LEMMA CountsFinite ==
  /\ IsFiniteSet(Owned) /\ IsFiniteSet(InFlight) /\ IsFiniteSet(Running)
  /\ Cardinality(Owned) \in Nat /\ Cardinality(InFlight) \in Nat
  /\ Cardinality(Creators) \in Nat
  /\ Cardinality(Owned) <= Cardinality(Running)
  /\ Cardinality(InFlight) <= Cardinality(Creators)
<1>1. Owned \subseteq Running /\ Running \subseteq Sessions
      /\ InFlight \subseteq Creators
  BY DEF Owned, Running, InFlight
<1>2. IsFiniteSet(Running) /\ IsFiniteSet(InFlight)
  BY <1>1, SessionsFinite, CreatorsFinite, FS_Subset
<1>. QED
  BY <1>1, <1>2, CreatorsFinite, FS_Subset, FS_CardinalityType

\* Neither set gains a member: the bound stays.
LEMMA CountsShrink ==
  ASSUME AdmissionBound, Owned' \subseteq Owned, InFlight' \subseteq InFlight
  PROVE  AdmissionBound'
<1>1. /\ Cardinality(Owned') <= Cardinality(Owned)
      /\ Cardinality(InFlight') <= Cardinality(InFlight)
  BY CountsFinite, FS_Subset
<1>2. Cardinality(Owned') \in Nat /\ Cardinality(InFlight') \in Nat
  BY <1>1, CountsFinite, FS_Subset, FS_CardinalityType
<1>. QED
  BY <1>1, <1>2, CountsFinite, MaxConcurrentPositive DEF AdmissionBound

LEMMA CheckKeepsBound ==
  ASSUME TypeOK, AdmissionBound, NEW c \in Creators, CreateCheck(c)
  PROVE  AdmissionBound'
<1>1. Owned' = Owned
  BY DEF CreateCheck, Owned, Running, Status
<1>2. Cardinality(Owned) <= MaxConcurrent - 1
  BY CountsFinite, FS_CardinalityType, MaxConcurrentPositive DEF CreateCheck
<1>3. /\ Cardinality(InFlight') <= Cardinality(Creators)
      /\ Cardinality(InFlight') \in Nat
  <2>1. InFlight' \subseteq Creators
    BY DEF InFlight
  <2>. QED
    BY <2>1, CreatorsFinite, FS_Subset, FS_CardinalityType
<1>. QED
  BY <1>1, <1>2, <1>3, CountsFinite, MaxConcurrentPositive
     DEF AdmissionBound

\* The entry is inserted and the request is over: the sum stays.
LEMMA InsertKeepsBound ==
  ASSUME TypeOK, AdmissionBound, NEW c \in Creators, CreateInsert(c)
  PROVE  AdmissionBound'
<1> DEFINE sid == creator[c].sid
<1>1. Owned' \subseteq Owned \cup {sid}
  <2>1. \A s \in Sessions \ {sid} : table'[s] = table[s]
    BY DEF TypeOK, CreateInsert
  <2>2. ASSUME NEW s \in Owned', s # sid PROVE s \in Owned
    <3>1. s \in Sessions /\ table'[s].status = "running" /\ table'[s].child
      BY <2>2 DEF Owned, Running, Status
    <3>2. table'[s] = table[s]
      BY <2>1, <2>2, <3>1
    <3>. QED
      BY <3>1, <3>2 DEF Owned, Running, Status
  <2>. QED
    BY <2>2
<1>2. InFlight' = InFlight \ {c} /\ c \in InFlight
  BY DEF TypeOK, CreateInsert, InFlight, IdleRequest
<1>3. /\ Cardinality(Owned') <= Cardinality(Owned) + 1
      /\ Cardinality(Owned') \in Nat
  <2> HIDE DEF sid
  <2>1. /\ IsFiniteSet(Owned \cup {sid})
        /\ Cardinality(Owned \cup {sid}) <= Cardinality(Owned) + 1
    <3>1. /\ IsFiniteSet(Owned \cup {sid})
          /\ Cardinality(Owned \cup {sid}) = IF sid \in Owned
                                              THEN Cardinality(Owned)
                                              ELSE Cardinality(Owned) + 1
      BY CountsFinite, FS_AddElement
    <3>. QED
      BY <3>1, CountsFinite
  <2>2. IsFiniteSet(Owned') /\ Cardinality(Owned') <= Cardinality(Owned \cup {sid})
    BY <1>1, <2>1, FS_Subset
  <2>3. Cardinality(Owned \cup {sid}) \in Nat /\ Cardinality(Owned') \in Nat
    BY <2>1, <2>2, FS_CardinalityType
  <2>. QED
    BY <2>1, <2>2, <2>3, CountsFinite
<1>4. Cardinality(InFlight') = Cardinality(InFlight) - 1
      /\ Cardinality(InFlight') \in Nat
  BY <1>2, CountsFinite, FS_RemoveElement, FS_CardinalityType
<1>. QED
  BY <1>3, <1>4, CountsFinite, MaxConcurrentPositive DEF AdmissionBound

LEMMA BoundStep == TypeOK /\ AdmissionBound /\ [Next]_vars => AdmissionBound'
<1> SUFFICES ASSUME TypeOK, AdmissionBound, [Next]_vars PROVE AdmissionBound'
  OBVIOUS
<1> USE DEF TypeOK, Owned, Running, Status, InFlight, IdleRequest
<1>1. CASE UNCHANGED <<table, creator>>
  BY <1>1, CountsShrink
<1>2. ASSUME NEW s \in Sessions, RunnerStep(s) \/ ReapProbe(s) PROVE AdmissionBound'
  BY <1>1, <1>2 DEF RunnerStep, ReapProbe, daemonVars
<1>3. ASSUME NEW c \in Creators, CreateStep(c) PROVE AdmissionBound'
  <2>1. ASSUME NEW s \in Sessions, CreateSpawn(c, s) PROVE AdmissionBound'
    BY <2>1, CountsShrink DEF CreateSpawn
  <2>2. CASE CreateFails(c)
    BY <2>2, CountsShrink DEF CreateFails
  <2>. QED
    BY <1>3, <2>1, <2>2, CheckKeepsBound, InsertKeepsBound DEF CreateStep
<1>4. ASSUME NEW d \in Deleters, DeleteStep(d) PROVE AdmissionBound'
  <2>1. CASE DeleteConfirm(d)
    BY <2>1, CountsShrink DEF DeleteConfirm, Closed
  <2>. QED
    BY <1>1, <1>4, <2>1 DEF DeleteStep, DeleteSignal, DeleteKill, DeleteAbandoned
<1>5. CASE ReapRecord
  BY <1>5, CountsShrink DEF ReapRecord, Closed, Verdict
<1>6. CASE LifeStep
  <2>1. ASSUME NEW killed, DaemonGoesDown(killed) PROVE AdmissionBound'
    BY <2>1, CountsShrink DEF DaemonGoesDown, Absent
  <2>2. CASE DaemonStarts \/ RecoverEnds
    BY <1>1, <2>2 DEF DaemonStarts, RecoverEnds
  <2>3. ASSUME NEW s \in Sessions, RecoverProbe(s) PROVE AdmissionBound'
    BY <2>3, CountsShrink DEF RecoverProbe
  <2>4. CASE RecoverRecord
    BY <2>4, CountsShrink DEF RecoverRecord
  <2>. QED
    BY <1>6, <2>1, <2>2, <2>3, <2>4 DEF LifeStep, DaemonCrashes, MachineStops
<1>7. CASE UNCHANGED vars
  BY <1>1, <1>7 DEF vars
<1>. QED
  BY <1>2, <1>3, <1>4, <1>5, <1>6, <1>7 DEF Next

LEMMA BoundInit == Init => AdmissionBound
<1> SUFFICES ASSUME Init PROVE AdmissionBound
  OBVIOUS
<1>1. Owned = {} /\ InFlight = {}
  BY DEF Init, Owned, Running, Status, Absent, InFlight, IdleRequest
<1>. QED
  BY <1>1, FS_EmptySet, CountsFinite, MaxConcurrentPositive
     DEF AdmissionBound

\* Overlapping requests overshoot the limit by at most one session each beyond
\* the first; one request at a time keeps it.
THEOREM AdmissionBounded == Spec => []AdmissionBound
  BY BoundInit, BoundStep, TypeCorrect, PTL DEF Spec

---------------------------------------------------------------------------
(* Who may rewrite an ended session.                                        *)

\* An entry is inserted only for a session that has none, and the session whose
\* log is about to be read is still open: running under the reaper, without an
\* entry during recovery.  The mutex, held in between, is what keeps it so.
StillOpen ==
    /\ \A c \in Creators :
          creator[c].pc = "spawned" =>
             /\ daemon = "up" /\ ~IsTracked(creator[c].sid)
             /\ \A b \in Creators : creator[b].pc = "spawned" /\ b # c =>
                    creator[b].sid # creator[c].sid
    /\ \A d \in Deleters :
          deleter[d].pc # "idle" => daemon = "up" /\ IsTracked(deleter[d].sid)
    /\ \A s \in Sessions : table[s].summary = "killed" => Status(s) = "done"
    /\ daemon = "down" => probed = NoSession
    /\ daemon = "recovering" =>
          /\ \A s \in scan : ~IsTracked(s)
          /\ probed # NoSession => ~IsTracked(probed) /\ probed \notin scan
    /\ daemon = "up" /\ probed # NoSession => Status(probed) = "running"
    /\ daemon = "down" => \A s \in Sessions : ~IsTracked(s)

LEMMA OpenStep ==
  ASSUME IInv, StillOpen, [Next]_vars
  PROVE  StillOpen'
<1> USE DEF IInv, TypeOK, StillOpen, IsTracked, Status, IdleRequest
<1>1. CASE UNCHANGED vars
  BY <1>1 DEF vars
<1>2. ASSUME NEW s \in Sessions, RunnerStep(s) PROVE StillOpen'
  BY <1>2 DEF RunnerStep, daemonVars
<1>3. ASSUME NEW s \in Sessions, ReapProbe(s) PROVE StillOpen'
  BY <1>3, NoSessionIsNone DEF ReapProbe, Serving, MutexFree
<1>4. ASSUME NEW c \in Creators, CreateCheck(c) PROVE StillOpen'
  BY <1>4 DEF CreateCheck
<1>5. ASSUME NEW c \in Creators, NEW s \in Sessions, CreateSpawn(c, s)
      PROVE  StillOpen'
  <2>1. proc[s] = "none" /\ ~IsTracked(s)
    BY <1>5 DEF CreateSpawn, Spawn, RunnerKnown
  <2>2. \A b \in Creators : creator[b].pc = "spawned" => creator[b].sid # s
    BY <2>1 DEF RunnerKnown
  <2>. QED
    BY <1>5, <2>1, <2>2 DEF CreateSpawn, Serving
<1>6. ASSUME NEW c \in Creators, CreateFails(c) PROVE StillOpen'
  BY <1>6 DEF CreateFails
<1>7. ASSUME NEW c \in Creators, CreateInsert(c) PROVE StillOpen'
  BY <1>7 DEF CreateInsert, Serving, MutexFree
<1>8. ASSUME NEW d \in Deleters, DeleteConfirm(d) PROVE StillOpen'
  <2>1. \A s \in Sessions :
           \/ table'[s] = table[s]
           \/ s = deleter[d].sid /\ table'[s].status = "done"
    BY <1>8 DEF DeleteConfirm, Closed
  <2>2. \A s \in Sessions :
           /\ IsTracked(s) <=> IsTracked(s)'
           /\ table'[s].summary = "killed" => Status(s)' = "done"
    <3>1. IsTracked(deleter[d].sid)
      BY <1>8 DEF DeleteConfirm
    <3>. QED
      BY <2>1, <3>1
  <2>3. UNCHANGED <<creator, daemon, probed, scan>> /\ daemon = "up"
        /\ probed = NoSession
    BY <1>8 DEF DeleteConfirm, Serving, MutexFree
  <2>4. \A e \in Deleters : deleter'[e].pc # "idle" =>
           deleter'[e] = deleter[e] /\ deleter[e].sid \in Sessions
    BY <1>8 DEF DeleteConfirm, RunnerKnown
  <2>5. \A c \in Creators : creator[c].pc = "spawned" => creator[c].sid \in Sessions
    BY DEF RunnerKnown
  <2>. QED
    BY <2>2, <2>3, <2>4, <2>5
<1>9. ASSUME NEW d \in Deleters, DeleteStep(d), ~DeleteConfirm(d)
      PROVE  StillOpen'
  <2>1. ASSUME NEW s \in Sessions, DeleteSignal(d, s) PROVE StillOpen'
    BY <2>1 DEF DeleteSignal, Serving
  <2>2. CASE DeleteKill(d)
    BY <2>2 DEF DeleteKill
  <2>3. CASE DeleteAbandoned(d)
    BY <2>3 DEF DeleteAbandoned
  <2>. QED
    BY <1>9, <2>1, <2>2, <2>3 DEF DeleteStep
<1>10. CASE ReapRecord
  BY <1>10 DEF ReapRecord, Closed, Verdict, LogSummary, Serving
<1>11. ASSUME NEW killed, DaemonGoesDown(killed) PROVE StillOpen'
  BY <1>11 DEF DaemonGoesDown, Absent
<1>12. CASE DaemonStarts
  BY <1>12 DEF DaemonStarts
<1>13. ASSUME NEW s \in Sessions, RecoverProbe(s) PROVE StillOpen'
  BY <1>13, NoSessionIsNone DEF RecoverProbe, MutexFree
<1>14. CASE RecoverRecord
  BY <1>14 DEF RecoverRecord, LogSummary
<1>15. CASE RecoverEnds
  BY <1>15 DEF RecoverEnds, MutexFree
<1>. QED
  BY <1>1, <1>2, <1>3, <1>4, <1>5, <1>6, <1>7, <1>8, <1>9, <1>10, <1>11, <1>12,
     <1>13, <1>14, <1>15
     DEF Next, CreateStep, DeleteStep, LifeStep, DaemonCrashes, MachineStops

LEMMA OpenInit == Init => StillOpen
  BY DEF Init, StillOpen, IsTracked, Status, IdleRequest, Absent

\* The step OnlyDeleteRewrites allows for one session.
Rewrite(s) ==
    Status(s) \in Ended /\ table'[s] # table[s] /\ daemon' # "down" =>
        /\ table[s].summary # "killed"
        /\ table'[s].status = "done" /\ table'[s].summary = "killed"

LEMMA RewriteStep ==
  ASSUME IInv, StillOpen, [Next]_vars, NEW s \in Sessions
  PROVE  Rewrite(s)
<1> USE DEF IInv, TypeOK, StillOpen, IsTracked, Status, Ended, Rewrite
<1>1. CASE UNCHANGED table
  BY <1>1
<1>2. ASSUME NEW x \in Sessions, RunnerStep(x) \/ ReapProbe(x) PROVE Rewrite(s)
  BY <1>1, <1>2 DEF RunnerStep, daemonVars, ReapProbe
<1>3. ASSUME NEW c \in Creators, CreateStep(c) PROVE Rewrite(s)
  <2>1. CASE CreateInsert(c)
    BY <2>1 DEF CreateInsert
  <2>. QED
    BY <1>1, <1>3, <2>1 DEF CreateStep, CreateCheck, CreateSpawn, CreateFails
<1>4. ASSUME NEW d \in Deleters, DeleteStep(d) PROVE Rewrite(s)
  <2>1. CASE DeleteConfirm(d)
    BY <2>1 DEF DeleteConfirm, Closed, Entry
  <2>. QED
    BY <1>1, <1>4, <2>1 DEF DeleteStep, DeleteSignal, DeleteKill, DeleteAbandoned
<1>5. CASE ReapRecord
  BY <1>5 DEF ReapRecord, Closed, Serving
<1>6. ASSUME NEW killed, DaemonGoesDown(killed) PROVE Rewrite(s)
  BY <1>6 DEF DaemonGoesDown
<1>7. CASE DaemonStarts \/ RecoverEnds
  BY <1>1, <1>7 DEF DaemonStarts, RecoverEnds
<1>8. ASSUME NEW x \in Sessions, RecoverProbe(x) PROVE Rewrite(s)
  BY <1>8 DEF RecoverProbe
<1>9. CASE RecoverRecord
  BY <1>9 DEF RecoverRecord
<1>10. CASE UNCHANGED vars
  BY <1>1, <1>10 DEF vars
<1>. QED
  BY <1>2, <1>3, <1>4, <1>5, <1>6, <1>7, <1>8, <1>9, <1>10
     DEF Next, LifeStep, DaemonCrashes, MachineStops

\* Only a DELETE already under way rewrites the entry of an ended session.
THEOREM OnlyDeleteRewritesHolds == Spec => OnlyDeleteRewrites
<1>1. IInv /\ StillOpen /\ [Next]_vars => (\A s \in Sessions : Rewrite(s))
  BY RewriteStep
<1>2. IInv /\ StillOpen /\ [Next]_vars => StillOpen'
  BY OpenStep
<1>3. (\A s \in Sessions : Rewrite(s)) =>
      [\A s \in Sessions :
          /\ Status(s) \in Ended
          /\ table'[s] # table[s]
          /\ daemon' # "down"
          => /\ table[s].summary # "killed"
             /\ table'[s].status = "done" /\ table'[s].summary = "killed"]_vars
  BY DEF Rewrite
<1>. QED
  BY <1>1, <1>2, <1>3, OpenInit, Invariance, PTL DEF Spec, OnlyDeleteRewrites

---------------------------------------------------------------------------
(* No runner is forgotten.                                                  *)

Spawning(s) == \E c \in Creators : creator[c] = [pc |-> "spawned", sid |-> s]

\* Until the daemon goes down for the first time, a runner is with the request that made
\* it until it is in the table; and before the daemon serves there is none.
NoneForgotten ==
    restarts = 0 =>
       /\ \A s \in Sessions : IsLive(s) => IsTracked(s) \/ Spawning(s)
       /\ daemon # "up" => \A s \in Sessions : proc[s] = "none"

LEMMA ForgottenInit == Init => NoneForgotten
  BY DEF Init, ProcInit, NoneForgotten, IsLive, Live

\* It is enough that no process appears and that neither the table nor a request lets go.
LEMMA HoldsOn ==
  ASSUME NoneForgotten,
         restarts' = 0 => restarts = 0 /\ (daemon' # "up" => daemon # "up"),
         \A s \in Sessions : /\ IsLive(s)' => IsLive(s)
                             /\ proc[s] = "none" => proc'[s] = "none"
                             /\ IsTracked(s) => IsTracked(s)'
                             /\ Spawning(s) => Spawning(s)' \/ IsTracked(s)'
  PROVE  NoneForgotten'
  BY DEF NoneForgotten

LEMMA ForgottenStep ==
  ASSUME IInv, NoneForgotten, [Next]_vars
  PROVE  NoneForgotten'
<1> USE DEF IInv
<1>1. CASE UNCHANGED vars
  BY <1>1, HoldsOn DEF vars, IsLive, IsTracked, Status, Spawning
<1>2. ASSUME NEW s \in Sessions, RunnerStep(s) PROVE NoneForgotten'
  <2>1. UNCHANGED daemonVars
    BY <1>2 DEF RunnerStep
  <2>2. \A x \in Sessions : /\ proc'[x] \in Live => proc[x] \in Live
                            /\ proc[x] = "none" => proc'[x] = "none"
    <3>1. CASE WritePid(s) \/ LogDone(s) \/ SessionFails(s) \/ RemovePid(s) \/ PidRecycled(s)
      BY <3>1 DEF WritePid, LogDone, SessionFails, RemovePid, PidRecycled, TypeOK, ProcTypeOK, Live
    <3>2. CASE RunnerExits(s, IsChild(s)) \/ RunnerDies(s, IsChild(s))
      BY <3>2 DEF RunnerExits, RunnerDies, AfterEnd, IsLive, TypeOK, ProcTypeOK, Live
    <3>. QED
      BY <1>2, <3>1, <3>2 DEF RunnerStep
  <2>. QED
    BY <2>1, <2>2, HoldsOn DEF daemonVars, IsLive, IsTracked, Status, Spawning
<1>3. ASSUME NEW s \in Sessions, ReapProbe(s) PROVE NoneForgotten'
  BY <1>3, HoldsOn DEF ReapProbe, Collected, Live, IsLive, IsTracked, Status, Spawning
<1>4. ASSUME NEW c \in Creators, CreateCheck(c) \/ CreateFails(c) PROVE NoneForgotten'
  <2>1. \A b \in Creators : creator[b].pc = "spawned" => creator'[b] = creator[b]
    BY <1>4 DEF CreateCheck, CreateFails, TypeOK
  <2>. QED
    BY <1>4, <2>1, HoldsOn DEF CreateCheck, CreateFails, procVars, IsLive, IsTracked, Status, Spawning
<1>5. ASSUME NEW c \in Creators, NEW s \in Sessions, CreateSpawn(c, s) PROVE NoneForgotten'
  <2>1. /\ creator' = [creator EXCEPT ![c] = [pc |-> "spawned", sid |-> s]]
        /\ creator[c].pc = "admitted" /\ proc' = [proc EXCEPT ![s] = "booting"]
        /\ daemon = "up" /\ UNCHANGED <<daemon, table, restarts>>
    BY <1>5 DEF CreateSpawn, Spawn, Serving
  <2>2. \A x \in Sessions : Spawning(x) => Spawning(x)'
    BY <2>1 DEF Spawning
  <2>3. Spawning(s)'
    BY <2>1 DEF Spawning, TypeOK
  <2>4. \A x \in Sessions \ {s} : proc'[x] = proc[x]
    BY <2>1 DEF TypeOK, ProcTypeOK
  <2>. QED
    BY <2>1, <2>2, <2>3, <2>4 DEF NoneForgotten, IsLive, IsTracked, Status
<1>6. ASSUME NEW c \in Creators, CreateInsert(c) PROVE NoneForgotten'
  <2>1. creator[c].sid \in Sessions
    BY <1>6 DEF CreateInsert, RunnerKnown
  <2>2. \A x \in Sessions : /\ IsTracked(x) => IsTracked(x)'
                            /\ x = creator[c].sid => IsTracked(x)'
    BY <1>6, <2>1 DEF CreateInsert, IsTracked, Status, TypeOK
  <2>3. \A x \in Sessions : Spawning(x) => Spawning(x)' \/ x = creator[c].sid
    <3>1. \A b \in Creators \ {c} : creator'[b] = creator[b]
      BY <1>6 DEF CreateInsert, TypeOK
    <3>. QED
      BY <3>1 DEF Spawning
  <2>. QED
    BY <1>6, <2>2, <2>3, HoldsOn DEF CreateInsert, procVars, IsLive
<1>7. ASSUME NEW d \in Deleters, DeleteStep(d) PROVE NoneForgotten'
  <2>1. /\ UNCHANGED <<daemon, creator, restarts>>
        /\ \A x \in Sessions : proc'[x] = proc[x] \/ (proc[x] # "none" /\ proc'[x] = "gone")
    BY <1>7 DEF DeleteStep, DeleteSignal, DeleteKill, DeleteAbandoned, DeleteConfirm,
                procVars, KilledAndCollected
  <2>2. \A x \in Sessions : IsTracked(x) => IsTracked(x)'
    <3>1. CASE DeleteConfirm(d)
      BY <3>1 DEF DeleteConfirm, Closed, IsTracked, Status, TypeOK
    <3>2. CASE UNCHANGED table
      BY <3>2 DEF IsTracked, Status
    <3>. QED
      BY <1>7, <3>1, <3>2 DEF DeleteStep, DeleteSignal, DeleteKill, DeleteAbandoned
  <2>. QED
    BY <2>1, <2>2, HoldsOn DEF IsLive, Live, Spawning
<1>8. CASE ReapRecord
  <2>1. \A x \in Sessions : IsTracked(x) => IsTracked(x)'
    BY <1>8 DEF ReapRecord, Verdict, Closed, IsTracked, Status, TypeOK
  <2>. QED
    BY <1>8, <2>1, HoldsOn DEF ReapRecord, procVars, IsLive, Spawning
<1>9. ASSUME NEW killed, DaemonGoesDown(killed) PROVE NoneForgotten'
  BY <1>9, MaxRestartsNat DEF DaemonGoesDown, NoneForgotten, TypeOK
<1>10. CASE DaemonStarts \/ RecoverEnds
  BY <1>10 DEF DaemonStarts, RecoverEnds, procVars, NoneForgotten, IsLive, IsTracked, Status,
                Spawning, Live
<1>11. ASSUME NEW s \in Sessions, RecoverProbe(s) PROVE NoneForgotten'
  <2>1. \A x \in Sessions : IsTracked(x) => IsTracked(x)'
    BY <1>11 DEF RecoverProbe, IsTracked, Status, TypeOK
  <2>. QED
    BY <1>11, <2>1, HoldsOn DEF RecoverProbe, procVars, IsLive, Spawning
<1>12. CASE RecoverRecord
  <2>1. \A x \in Sessions : IsTracked(x) => IsTracked(x)'
    BY <1>12 DEF RecoverRecord, IsTracked, Status, TypeOK
  <2>. QED
    BY <1>12, <2>1, HoldsOn DEF RecoverRecord, procVars, IsLive, Spawning
<1>. QED
  BY <1>1, <1>2, <1>3, <1>4, <1>5, <1>6, <1>7, <1>8, <1>9, <1>10, <1>11, <1>12
     DEF Next, CreateStep, LifeStep, DaemonCrashes, MachineStops

\* While a daemon has not gone down, however many requests come and however they overlap
\* with the reaper: a runner that lives is in the table, or its request is about to put
\* it there.
THEOREM NoRunnerIsForgotten == Spec => []RunnersTracked
<1>1. TypeOK /\ NoneForgotten => RunnersTracked
  BY DEF NoneForgotten, RunnersTracked, IsChild, Spawning
<1>. QED
  BY <1>1, ForgottenInit, ForgottenStep, Invariance, PTL DEF Spec, IInv
=============================================================================
