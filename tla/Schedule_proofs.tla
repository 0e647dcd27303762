--------------------------- MODULE Schedule_proofs ---------------------------
(***************************************************************************)
(* What is proved of Schedule for any number of entries, tools and faults: *)
(* the types, the books the agenda keeps, and the three bounds.            *)
(***************************************************************************)
EXTENDS Schedule, FiniteSetTheorems, TLAPS

Outside == {"down", "awake", "pruned", "resting"}

\* What is known of an entry from where it is.  An entry can be fired again only
\* while it is in schedule/ or in the batch, and it pays for each further time
\* with a fault; the one fired and not yet removed has still to pay.
Books ==
    /\ files \subseteq scheduled
    /\ batch \subseteq scheduled
    /\ \A e \in Entries : fired[e] > 0 => e \in scheduled
    /\ \A t \in Writing : tool[t].entry \notin scheduled
    /\ \A t, u \in Writing : tool[t].entry = tool[u].entry => t = u
    /\ current # NoEntry => current \notin batch /\ fired[current] > 0
    /\ \A e \in Entries : fired[e] <= 1 + lapses
    /\ \A e \in files \cup batch : e # current => fired[e] <= lapses
    /\ sched \in Outside => batch = {}
    /\ scheduled \subseteq files \cup Fired \cup cancelled \cup corrupt

IInv == TypeOK /\ Books

LEMMA Constants ==
    /\ MaxConcurrent \in Nat \ {0} /\ MaxScheduled \in Nat \ {0}
    /\ MaxTime \in Nat /\ MaxLapses \in Nat
  BY LimitsPositive, BoundsNat

LEMMA InitIInv == Init => IInv
  BY Constants DEF Init, IInv, TypeOK, Books, IdleTool, Times, Launches, Writing, Fired, Outside

\* The steps of phyl-tool-self.
LEMMA ToolKeepsIInv ==
    ASSUME IInv, NEW t \in Tools, ToolStep(t)
    PROVE  IInv'
  <1> USE Constants, NoEntryIsNone DEF IInv
  <1>1. ASSUME NEW call \in {"spawn_session", "sleep_until"}, NEW e \in Entries,
               NEW when \in Times, CountEntries(t, call, e, when)
        PROVE  IInv'
    <2>1. TypeOK'
      BY <1>1 DEF CountEntries, TypeOK, loop, sessions, Launches
    <2>2. Books'
      BY <1>1 DEF CountEntries, TypeOK, Books, loop, sessions, Writing, BeingWritten, IdleTool, Fired
    <2> QED BY <2>1, <2>2
  <1>2. ASSUME WriteEntry(t)
        PROVE  IInv'
    <2>1. TypeOK'
      BY <1>2 DEF WriteEntry, TypeOK, loop, sessions, Launches, Writing, IdleTool
    <2>2. Books'
      BY <1>2 DEF WriteEntry, TypeOK, Books, loop, sessions, Writing, IdleTool, Fired
    <2> QED BY <2>1, <2>2
  <1>3. ASSUME WriteFails(t)
        PROVE  IInv'
    <2>1. TypeOK'
      BY <1>3 DEF WriteFails, TypeOK, agenda, loop, sessions, Launches, Writing, IdleTool
    <2>2. Books'
      BY <1>3 DEF WriteFails, TypeOK, Books, agenda, loop, sessions, Writing, IdleTool, Fired
    <2> QED BY <2>1, <2>2
  <1>4. ASSUME NEW e \in Entries, CancelScheduled(t, e)
        PROVE  IInv'
    <2>1. TypeOK'
      BY <1>4 DEF CancelScheduled, TypeOK, loop, sessions, Launches
    <2>2. Books'
      BY <1>4 DEF CancelScheduled, TypeOK, Books, loop, sessions, Writing, Fired
    <2> QED BY <2>1, <2>2
  <1> QED BY <1>1, <1>2, <1>3, <1>4 DEF ToolStep

\* The steps of phyl-sched.
LEMMA SchedKeepsIInv ==
    ASSUME IInv, SchedStep \/ SchedStops
    PROVE  IInv'
  <1> USE Constants, NoEntryIsNone DEF IInv
  <1>1. ASSUME SchedStarts
        PROVE  IInv'
    <2>1. TypeOK'
      BY <1>1 DEF SchedStarts, TypeOK, Launches, agenda, sessions
    <2>2. Books'
      BY <1>1 DEF SchedStarts, TypeOK, Books, Outside, Writing, Fired, agenda, sessions
    <2> QED BY <2>1, <2>2
  <1>2. ASSUME Wakes
        PROVE  IInv'
    <2>1. TypeOK'
      BY <1>2 DEF Wakes, TypeOK, Launches, agenda, sessions
    <2>2. Books'
      BY <1>2 DEF Wakes, TypeOK, Books, Outside, Writing, Fired, agenda, sessions
    <2> QED BY <2>1, <2>2
  <1>3. ASSUME NEW S \in SUBSET inFlight, Prunes(S)
        PROVE  IInv'
    <2>1. TypeOK'
      BY <1>3 DEF Prunes, TypeOK, Launches, agenda, sessions
    <2>2. Books'
      BY <1>3 DEF Prunes, TypeOK, Books, Outside, Writing, Fired, agenda, sessions
    <2> QED BY <2>1, <2>2
  <1>4. ASSUME Scan
        PROVE  IInv'
    <2>1. TypeOK'
      BY <1>4 DEF Scan, TypeOK, Launches, sessions, Batch, Due
    <2>2. Books'
      BY <1>4 DEF Scan, TypeOK, Books, Outside, Writing, Fired, sessions, Batch, Due
    <2> QED BY <2>1, <2>2
  <1>5. ASSUME NEW e \in Entries, CreateSession(e)
        PROVE  IInv'
    <2>1. fired[e] <= lapses
      BY <1>5 DEF CreateSession, Earliest, TypeOK, Books
    <2>2. Launch(e) \in Launches
      BY <2>1 DEF Launch, Launches, TypeOK
    <2>3. TypeOK'
      BY <1>5, <2>1, <2>2 DEF CreateSession, TypeOK, agenda, Earliest
    <2>4. Books'
      BY <1>5, <2>1 DEF CreateSession, TypeOK, Books, Outside, Writing, Fired, agenda, Launch, Earliest
    <2> QED BY <2>3, <2>4
  <1>6. ASSUME NEW e \in Entries, CreateFails(e)
        PROVE  IInv'
    <2>1. TypeOK'
      BY <1>6 DEF CreateFails, TypeOK, Launches, agenda, sessions, Earliest, AfterFiring
    <2>2. Books'
      BY <1>6 DEF CreateFails, TypeOK, Books, Outside, Writing, Fired, agenda, sessions, Earliest, AfterFiring
    <2> QED BY <2>1, <2>2
  <1>7. ASSUME NEW e \in Entries, CreateUnanswered(e)
        PROVE  IInv'
    <2>1. fired[e] <= lapses
      BY <1>7 DEF CreateUnanswered, Earliest, TypeOK, Books
    <2>2. Launch(e) \in Launches
      BY <2>1 DEF Launch, Launches, TypeOK
    <2>3. TypeOK'
      BY <1>7, <2>1, <2>2 DEF CreateUnanswered, TypeOK, agenda, Earliest, AfterFiring, Lapse
    <2>4. Books'
      BY <1>7, <2>1 DEF CreateUnanswered, TypeOK, Books, Outside, Writing, Fired, agenda, Launch, Earliest, AfterFiring, Lapse
    <2> QED BY <2>3, <2>4
  <1>8. ASSUME RemoveFired
        PROVE  IInv'
    <2>1. TypeOK'
      BY <1>8 DEF RemoveFired, TypeOK, Launches, sessions, FileHandled
    <2>2. Books'
      BY <1>8 DEF RemoveFired, TypeOK, Books, Outside, Writing, Fired, sessions, FileHandled
    <2> QED BY <2>1, <2>2
  <1>9. ASSUME RemoveFails
        PROVE  IInv'
    <2>1. TypeOK'
      BY <1>9 DEF RemoveFails, TypeOK, Launches, sessions, FileHandled, Lapse
    <2>2. Books'
      BY <1>9 DEF RemoveFails, TypeOK, Books, Outside, Writing, Fired, sessions, FileHandled, Lapse
    <2> QED BY <2>1, <2>2
  <1>10. ASSUME SchedStops
        PROVE  IInv'
    <2>1. TypeOK'
      BY <1>10 DEF SchedStops, TypeOK, Launches, agenda, sessions, Lapse
    <2>2. Books'
      BY <1>10 DEF SchedStops, TypeOK, Books, Outside, Writing, Fired, agenda, sessions, Lapse
    <2> QED BY <2>1, <2>2
  <1>11. PruneCompleted \/ PruneFails \/ PruneUnreachable => \E S \in SUBSET inFlight : Prunes(S)
    BY DEF PruneCompleted, PruneFails, PruneUnreachable
  <1> QED
    BY <1>1, <1>2, <1>3, <1>4, <1>5, <1>6, <1>7, <1>8, <1>9, <1>10, <1>11 DEF SchedStep

\* The steps around them.
LEMMA OthersKeepIInv ==
    ASSUME IInv,
           \/ Tick \/ DaemonDown \/ DaemonUp \/ DaemonFills \/ DaemonDrains \/ UNCHANGED vars
           \/ \E x \in running : SessionEnds(x)
           \/ \E e \in Entries : FileDamaged(e)
    PROVE  IInv'
  <1> USE Constants DEF IInv, agenda, loop, sessions
  <1>1. ASSUME Tick
        PROVE  IInv'
    <2>1. TypeOK'
      BY <1>1 DEF Tick, TypeOK, Times
    <2>2. Books'
      BY <1>1 DEF Tick, TypeOK, Books, Outside, Writing, Fired, Times
    <2> QED BY <2>1, <2>2
  <1>2. ASSUME DaemonDown
        PROVE  IInv'
    <2>1. TypeOK'
      BY <1>2 DEF DaemonDown, TypeOK, Lapse
    <2>2. Books'
      BY <1>2 DEF DaemonDown, TypeOK, Books, Outside, Writing, Fired, Lapse
    <2> QED BY <2>1, <2>2
  <1>3. ASSUME DaemonUp \/ DaemonFills \/ DaemonDrains
        PROVE  IInv'
    <2>1. TypeOK'
      BY <1>3 DEF DaemonUp, DaemonFills, DaemonDrains, TypeOK
    <2>2. Books'
      BY <1>3 DEF DaemonUp, DaemonFills, DaemonDrains, TypeOK, Books, Outside, Writing, Fired
    <2> QED BY <2>1, <2>2
  <1>4. ASSUME UNCHANGED vars
        PROVE  IInv'
    <2>1. TypeOK'
      BY <1>4 DEF vars, TypeOK, Lapse
    <2>2. Books'
      BY <1>4 DEF vars, TypeOK, Books, Outside, Writing, Fired, Lapse
    <2> QED BY <2>1, <2>2
  <1>5. ASSUME NEW x \in running, SessionEnds(x)
        PROVE  IInv'
    <2>1. TypeOK'
      BY <1>5 DEF SessionEnds, TypeOK, Launches
    <2>2. Books'
      BY <1>5 DEF SessionEnds, TypeOK, Books, Outside, Writing, Fired, Launches
    <2> QED BY <2>1, <2>2
  <1>6. ASSUME NEW e \in Entries, FileDamaged(e)
        PROVE  IInv'
    <2>1. TypeOK'
      BY <1>6 DEF FileDamaged, TypeOK, Lapse
    <2>2. Books'
      BY <1>6 DEF FileDamaged, TypeOK, Books, Outside, Writing, Fired, Lapse
    <2> QED BY <2>1, <2>2
  <1> QED BY <1>1, <1>2, <1>3, <1>4, <1>5, <1>6

LEMMA StepKeepsIInv == IInv /\ [Next]_vars => IInv'
  BY ToolKeepsIInv, SchedKeepsIInv, OthersKeepIInv DEF Next

LEMMA BooksKept == Spec => []IInv
  BY InitIInv, StepKeepsIInv, PTL DEF Spec

\* The variables keep their types, and no entry is fired more than MaxLapses + 1
\* times (handle_spawn_session, scan_and_fire).
THEOREM AgendaTypeCorrect == Spec => []TypeOK
  BY BooksKept, PTL DEF IInv

\* What write_schedule_entry has promised is on the agenda until it is a session, or
\* cancelled, or spoiled.
THEOREM NothingIsDropped == Spec => []NothingDropped
  <1>1. IInv => NothingDropped
    BY DEF IInv, Books, NothingDropped
  <1> QED BY <1>1, BooksKept, PTL

\* scan_and_fire makes an entry into a second session only after a fault.
THEOREM RefiresBounded == Spec => []RefireBound
  <1>1. IInv => RefireBound
    BY DEF IInv, Books, RefireBound
  <1> QED BY <1>1, BooksKept, PTL

---------------------------------------------------------------------------
(* Counting. *)

LEMMA CountsFinite ==
    ASSUME TypeOK
    PROVE  /\ \A S \in SUBSET Entries : IsFiniteSet(S) /\ Cardinality(S) \in Nat
           /\ \A S \in SUBSET Launches : IsFiniteSet(S) /\ Cardinality(S) \in Nat
           /\ \A S \in SUBSET Tools : IsFiniteSet(S) /\ Cardinality(S) \in Nat
                                      /\ Cardinality(S) <= Cardinality(Tools)
           /\ Cardinality(Tools) \in Nat
  <1>1. IsFiniteSet(Launches)
    <2>1. IsFiniteSet(1..(MaxLapses + 1))
      BY FS_Interval, Constants
    <2> QED BY <2>1, EntriesFinite, FS_Product DEF Launches
  <1> QED BY <1>1, EntriesFinite, ToolsFinite, FS_Subset, FS_CardinalityType

\* A tool counts before it writes: an entry being written was admitted by a count
\* below the limit.
LEMMA ScheduleBoundInit == Init => ScheduleBound
  <1> SUFFICES ASSUME Init PROVE ScheduleBound
    OBVIOUS
  <1>1. files = {} /\ Writing = {}
    BY DEF Init, Writing, IdleTool
  <1>2. Cardinality({}) = 0
    BY FS_EmptySet
  <1>3. Cardinality(Tools) \in Nat
    BY ToolsFinite, FS_CardinalityType
  <1> QED BY <1>1, <1>2, <1>3, Constants DEF ScheduleBound

LEMMA ScheduleBoundStep ==
    ASSUME IInv, IInv', ScheduleBound, [Next]_vars
    PROVE  ScheduleBound'
  <1> USE DEF IInv
  <1>1. /\ Cardinality(files) \in Nat /\ Cardinality(files') \in Nat
        /\ Cardinality(Writing) \in Nat /\ Cardinality(Writing') \in Nat
        /\ Cardinality(Writing') <= Cardinality(Tools) /\ Cardinality(Tools) \in Nat
    <2>1. Writing \subseteq Tools /\ Writing' \subseteq Tools
      BY DEF Writing
    <2> QED BY <2>1, CountsFinite DEF TypeOK
  <1>2. ASSUME files' \subseteq files, Writing' \subseteq Writing
        PROVE  ScheduleBound'
    <2>1. IsFiniteSet(files) /\ IsFiniteSet(Writing)
      BY CountsFinite DEF TypeOK, Writing
    <2>2. Cardinality(files') <= Cardinality(files) /\ Cardinality(Writing') <= Cardinality(Writing)
      BY <1>2, <2>1, FS_Subset
    <2> QED BY <2>2, <1>1, Constants DEF ScheduleBound
  <1>3. ASSUME NEW t \in Tools, NEW call \in {"spawn_session", "sleep_until"}, NEW e \in Entries,
               NEW when \in Times, CountEntries(t, call, e, when)
        PROVE  ScheduleBound'
    <2>1. files' = files /\ Cardinality(files) <= MaxScheduled - 1
      BY <1>3, <1>1, Constants DEF CountEntries
    <2> QED BY <2>1, <1>1, Constants DEF ScheduleBound
  <1>4. ASSUME NEW t \in Tools, WriteEntry(t)
        PROVE  ScheduleBound'
    <2>1. files' = files \cup {tool[t].entry} /\ t \in Writing /\ Writing' = Writing \ {t}
      BY <1>4 DEF WriteEntry, Writing, TypeOK, IdleTool
    <2>2. Cardinality(Writing') = Cardinality(Writing) - 1
      BY <2>1, CountsFinite, FS_RemoveElement DEF Writing
    <2>3. Cardinality(files') <= Cardinality(files) + 1
      <3>1. IsFiniteSet(files)
        BY CountsFinite DEF TypeOK
      <3>2. Cardinality(files \cup {tool[t].entry})
              = IF tool[t].entry \in files THEN Cardinality(files) ELSE Cardinality(files) + 1
        BY <3>1, FS_AddElement
      <3> QED BY <3>2, <2>1, <1>1
    <2> QED BY <2>2, <2>3, <1>1, Constants DEF ScheduleBound
  <1>5. CASE \E t \in Tools : WriteFails(t) \/ \E e \in Entries : CancelScheduled(t, e)
    <2>1. files' \subseteq files /\ Writing' \subseteq Writing
      BY <1>5 DEF WriteFails, CancelScheduled, Writing, TypeOK, IdleTool, agenda
    <2> QED BY <2>1, <1>2
  <1>6. CASE SchedStep \/ SchedStops
    <2>1. files' \subseteq files /\ tool' = tool
      BY <1>6 DEF SchedStep, SchedStops, SchedStarts, Wakes, PruneCompleted, PruneFails,
         PruneUnreachable, Prunes, Scan, CreateSession, CreateFails, CreateUnanswered,
         FileHandled, RemoveFired, RemoveFails, agenda
    <2> QED BY <2>1, <1>2 DEF Writing
  <1>7. CASE \/ Tick \/ DaemonDown \/ DaemonUp \/ DaemonFills \/ DaemonDrains \/ UNCHANGED vars
             \/ \E x \in running : SessionEnds(x)
             \/ \E e \in Entries : FileDamaged(e)
    <2>1. files' = files /\ tool' = tool
      BY <1>7 DEF Tick, DaemonDown, DaemonUp, DaemonFills, DaemonDrains, vars, SessionEnds,
         FileDamaged, agenda
    <2> QED BY <2>1, <1>2 DEF Writing
  <1> QED BY <1>3, <1>4, <1>5, <1>6, <1>7 DEF Next, ToolStep

\* write_schedule_entry overshoots MAX_SCHEDULED by at most one entry for each tool
\* beyond the first.
THEOREM ScheduleBounded == Spec => []ScheduleBound
  <1>1. IInv /\ IInv' /\ ScheduleBound /\ [Next]_vars => ScheduleBound'
    BY ScheduleBoundStep
  <1> QED BY <1>1, ScheduleBoundInit, BooksKept, PTL DEF Spec

---------------------------------------------------------------------------
(* The limit on sessions that run at the same time. *)

Forgotten == running \ inFlight

\* How many sessions that many faults pay for.
PaidFor(n) == MaxConcurrent * n

\* What phyl-sched has forgotten is paid for by the faults so far; while it has all
\* forgotten, or may forget all at any time, so is all that runs.
HerdBooks ==
    /\ Cardinality(inFlight) + Cardinality(batch) <= MaxConcurrent
    /\ Cardinality(Forgotten) <= PaidFor(lapses)
    /\ "down" \in {daemon, sched} => Cardinality(running) <= PaidFor(lapses)

LEMMA HerdCounts ==
    ASSUME IInv
    PROVE  /\ IsFiniteSet(running) /\ IsFiniteSet(inFlight) /\ IsFiniteSet(batch)
           /\ IsFiniteSet(Forgotten)
           /\ Cardinality(running) \in Nat /\ Cardinality(inFlight) \in Nat
           /\ Cardinality(batch) \in Nat /\ Cardinality(Forgotten) \in Nat
           /\ Cardinality(running) <= Cardinality(Forgotten) + Cardinality(inFlight)
           /\ PaidFor(lapses) \in Nat
           /\ PaidFor(lapses + 1) = PaidFor(lapses) + MaxConcurrent
  <1>1. /\ Forgotten \subseteq Launches
        /\ running \subseteq Forgotten \cup inFlight
    BY DEF IInv, TypeOK, Forgotten
  <1>2. /\ IsFiniteSet(running) /\ IsFiniteSet(inFlight) /\ IsFiniteSet(batch)
        /\ IsFiniteSet(Forgotten)
        /\ Cardinality(running) \in Nat /\ Cardinality(inFlight) \in Nat
        /\ Cardinality(batch) \in Nat /\ Cardinality(Forgotten) \in Nat
    BY <1>1, CountsFinite DEF IInv, TypeOK
  <1>3. Cardinality(Forgotten \cup inFlight)
            = Cardinality(Forgotten) + Cardinality(inFlight) - Cardinality(Forgotten \cap inFlight)
    BY <1>2, FS_Union
  <1>4. Cardinality(Forgotten \cap inFlight) = 0
    <2>1. Forgotten \cap inFlight = {}
      BY DEF Forgotten
    <2> QED BY <2>1, FS_EmptySet
  <1>5. Cardinality(running) <= Cardinality(Forgotten \cup inFlight)
    BY <1>1, <1>2, FS_Union, FS_Subset
  <1>6. PaidFor(lapses) \in Nat
        /\ PaidFor(lapses + 1) = PaidFor(lapses) + MaxConcurrent
    <2>1. \A m, l \in Nat : m * l \in Nat /\ m * (l + 1) = m * l + m
      OBVIOUS
    <2>2. lapses \in Nat
      BY Constants DEF IInv, TypeOK
    <2> QED BY <2>1, <2>2, Constants DEF PaidFor
  <1>7. Cardinality(running) <= Cardinality(Forgotten) + Cardinality(inFlight)
    BY <1>2, <1>3, <1>4, <1>5
  <1> QED BY <1>2, <1>6, <1>7

\* A step that starts no session and remembers what still runs.
LEMMA QuietStep ==
    ASSUME IInv, IInv', HerdBooks,
           running' \subseteq running, Forgotten' \subseteq Forgotten,
           inFlight' \subseteq inFlight, batch' \subseteq batch,
           lapses' \in {lapses, lapses + 1},
           "down" \in {daemon', sched'} =>
               "down" \in {daemon, sched} \/ lapses' = lapses + 1
    PROVE  HerdBooks'
  <1>1. /\ Cardinality(running') <= Cardinality(running)
        /\ Cardinality(Forgotten') <= Cardinality(Forgotten)
        /\ Cardinality(inFlight') <= Cardinality(inFlight)
        /\ Cardinality(batch') <= Cardinality(batch)
    BY HerdCounts, FS_Subset
  <1>2. /\ Cardinality(running') \in Nat /\ Cardinality(Forgotten') \in Nat
        /\ Cardinality(inFlight') \in Nat /\ Cardinality(batch') \in Nat
    BY HerdCounts, FS_Subset, FS_CardinalityType
  <1>3. PaidFor(lapses') \in {PaidFor(lapses), PaidFor(lapses) + MaxConcurrent}
    BY HerdCounts
  <1> QED BY <1>1, <1>2, <1>3, HerdCounts, Constants DEF HerdBooks

LEMMA HerdInit == Init => HerdBooks
  <1> SUFFICES ASSUME Init PROVE HerdBooks
    OBVIOUS
  <1>1. inFlight = {} /\ batch = {} /\ running = {} /\ Forgotten = {} /\ lapses = 0
    BY DEF Init, Forgotten
  <1>2. Cardinality({}) = 0 /\ PaidFor(0) = 0
    BY FS_EmptySet, Constants DEF PaidFor
  <1> QED BY <1>1, <1>2, Constants DEF HerdBooks

LEMMA HerdStep ==
    ASSUME IInv, IInv', HerdBooks, [Next]_vars
    PROVE  HerdBooks'
  <1> USE DEF IInv
  <1>1. CASE \/ Tick \/ DaemonDown \/ DaemonUp \/ DaemonFills \/ DaemonDrains \/ UNCHANGED vars
             \/ \E x \in running : SessionEnds(x)
             \/ \E e \in Entries : FileDamaged(e)
             \/ \E t \in Tools : ToolStep(t)
    <2>1. /\ running' \subseteq running /\ inFlight' = inFlight /\ batch' = batch
          /\ lapses' \in {lapses, lapses + 1} /\ sched' = sched
          /\ daemon' = "down" => daemon = "down" \/ lapses' = lapses + 1
      BY <1>1 DEF Tick, DaemonDown, DaemonUp, DaemonFills, DaemonDrains, vars, SessionEnds,
         FileDamaged, ToolStep, CountEntries, WriteEntry, WriteFails, CancelScheduled, loop, sessions, Lapse
    <2> QED BY <2>1, QuietStep DEF Forgotten
  <1>2. CASE \/ Wakes \/ PruneCompleted \/ PruneFails \/ RemoveFired \/ RemoveFails
             \/ SchedStops \/ \E e \in Entries : CreateFails(e)
    <2>1. /\ running' = running /\ inFlight' \in {inFlight, inFlight \cap running}
          /\ batch' \subseteq batch /\ lapses' \in {lapses, lapses + 1} /\ daemon' = daemon
          /\ sched' = "down" => lapses' = lapses + 1
      BY <1>2 DEF Wakes, PruneCompleted, PruneFails, Prunes, RemoveFired, RemoveFails,
         FileHandled, SchedStops, CreateFails, AfterFiring, sessions, Lapse
    <2> QED BY <2>1, QuietStep DEF Forgotten
  \* All is forgotten at once, and has been paid for.
  <1>3. CASE SchedStarts \/ PruneUnreachable
    <2>1. /\ "down" \in {daemon, sched}
          /\ running' = running /\ inFlight' = {} /\ batch' = batch /\ lapses' = lapses
      BY <1>3 DEF SchedStarts, PruneUnreachable, Prunes, sessions
    <2>2. Forgotten' = running
      BY <2>1 DEF Forgotten
    <2>3. Cardinality(inFlight') = 0
      BY <2>1, FS_EmptySet
    <2>4. Cardinality(running) <= PaidFor(lapses)
      BY <2>1 DEF HerdBooks
    <2>5. Cardinality(batch') <= MaxConcurrent
      BY <2>1, HerdCounts, Constants DEF HerdBooks
    <2>6. Cardinality(batch') \in Nat
      BY <2>1, HerdCounts
    <2> QED BY <2>1, <2>2, <2>3, <2>4, <2>5, <2>6, Constants DEF HerdBooks
  <1>4. CASE Scan
    <2>1. /\ running' = running /\ inFlight' = inFlight /\ lapses' = lapses /\ daemon' = daemon
          /\ sched # "down" /\ sched' # "down"
          /\ Cardinality(batch') <= Slots
      BY <1>4 DEF Scan, Batch, sessions
    <2>2. Forgotten' = Forgotten
      BY <2>1 DEF Forgotten
    <2>3. Cardinality(batch') \in Nat
      BY CountsFinite DEF TypeOK
    <2> QED BY <2>1, <2>2, <2>3, HerdCounts, Constants DEF HerdBooks, Slots
  <1>5. ASSUME NEW e \in Entries, CreateSession(e)
        PROVE  HerdBooks'
    <2>1. /\ e \in batch /\ batch' = batch \ {e}
          /\ inFlight' = inFlight \cup {Launch(e)} /\ Forgotten' \subseteq Forgotten
          /\ lapses' = lapses /\ "down" \notin {daemon', sched'}
      BY <1>5 DEF CreateSession, Earliest, Forgotten
    <2>2. Cardinality(batch') = Cardinality(batch) - 1
      BY <2>1, HerdCounts, FS_RemoveElement
    <2>3. /\ Cardinality(inFlight') \in Nat
          /\ Cardinality(inFlight') <= Cardinality(inFlight) + 1
      <3>1. /\ IsFiniteSet(inFlight \cup {Launch(e)})
            /\ Cardinality(inFlight \cup {Launch(e)})
                 = IF Launch(e) \in inFlight THEN Cardinality(inFlight)
                                            ELSE Cardinality(inFlight) + 1
        BY HerdCounts, FS_AddElement
      <3> QED BY <3>1, <2>1, HerdCounts
    <2>4. Cardinality(Forgotten') \in Nat /\ Cardinality(Forgotten') <= Cardinality(Forgotten)
      BY <2>1, HerdCounts, FS_Subset, FS_CardinalityType
    <2> QED BY <2>1, <2>2, <2>3, <2>4, HerdCounts, Constants DEF HerdBooks
  <1>6. ASSUME NEW e \in Entries, CreateUnanswered(e)
        PROVE  HerdBooks'
    <2>1. /\ inFlight' = inFlight /\ batch' \subseteq batch /\ lapses' = lapses + 1
          /\ Forgotten' \subseteq Forgotten \cup {Launch(e)}
          /\ "down" \notin {daemon', sched'}
      BY <1>6 DEF CreateUnanswered, Forgotten, AfterFiring, Lapse
    <2>2. Cardinality(batch') \in Nat /\ Cardinality(batch') <= Cardinality(batch)
      BY <2>1, HerdCounts, FS_Subset, FS_CardinalityType
    <2>3. /\ IsFiniteSet(Forgotten \cup {Launch(e)})
          /\ Cardinality(Forgotten \cup {Launch(e)}) <= Cardinality(Forgotten) + 1
      <3>1. /\ IsFiniteSet(Forgotten \cup {Launch(e)})
            /\ Cardinality(Forgotten \cup {Launch(e)})
                 = IF Launch(e) \in Forgotten THEN Cardinality(Forgotten)
                                             ELSE Cardinality(Forgotten) + 1
        BY HerdCounts, FS_AddElement
      <3> QED BY <3>1, HerdCounts
    <2>4. /\ Cardinality(Forgotten') \in Nat
          /\ Cardinality(Forgotten') <= Cardinality(Forgotten \cup {Launch(e)})
          /\ Cardinality(Forgotten \cup {Launch(e)}) \in Nat
      BY <2>1, <2>3, FS_Subset, FS_CardinalityType
    <2>5. PaidFor(lapses') = PaidFor(lapses) + MaxConcurrent
      BY <2>1, HerdCounts
    <2> QED BY <2>1, <2>2, <2>3, <2>4, <2>5, HerdCounts, Constants DEF HerdBooks
  <1> QED BY <1>1, <1>2, <1>3, <1>4, <1>5, <1>6 DEF Next, SchedStep

\* phyl-sched counts at most MAX_CONCURRENT sessions of its own, and each fault adds
\* at most as many to those that run.
THEOREM HerdBounded == Spec => []HerdBound
  <1>1. IInv /\ HerdBooks => HerdBound
    <2> SUFFICES ASSUME IInv, HerdBooks PROVE HerdBound
      OBVIOUS
    <2>1. MaxConcurrent * (1 + lapses) = PaidFor(lapses + 1)
      BY Constants DEF PaidFor, IInv, TypeOK
    <2> QED BY <2>1, HerdCounts, Constants DEF HerdBooks, HerdBound
  <1>2. IInv /\ IInv' /\ HerdBooks /\ [Next]_vars => HerdBooks'
    BY HerdStep
  <1> QED BY <1>1, <1>2, HerdInit, BooksKept, PTL DEF Spec
=============================================================================
