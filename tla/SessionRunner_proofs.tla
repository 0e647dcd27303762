------------------------ MODULE SessionRunner_proofs ------------------------
(***************************************************************************)
(* One runner, for any tools and any number of calls, answers and events:  *)
(* calls stay with their results, the log is the transcript of what the    *)
(* model sees, events are heard in order, and its life is the one that the *)
(* daemon's RunnerProcess has.  And what the adapters make of its history: *)
(* requests that have all of it, in the shape that the APIs ask for.       *)
(***************************************************************************)
EXTENDS ModelAdapters, Selections_proofs

---------------------------------------------------------------------------
(* The inductive invariant. *)

Answered(i) ==
    \A k \in DOMAIN history[i][3] :
        i + k \in DOMAIN history /\ history[i + k] = <<"tool", history[i][2], k>>

Unopened == pc \in {"booting", "setup"} => history = <<>> /\ log = <<>>

\* The calls of the last message are under way.
Awaited == pc \in {"dispatch", "calling", "awaiting"}

CallsAnswered ==
    pc \in Loop =>
        \A i \in DOMAIN history :
            history[i][1] = "assistant" => Answered(i) \/ (Awaited /\ i = Len(history))

LastCalls ==
    Awaited => history # <<>> /\ Last(history) \in {"assistant"} \X (1..MaxTurns) \X Batches

\* No call is answered twice, and those that go to no server tool are answered at once.
ResultsSoFar ==
    pc \in {"calling", "awaiting"} =>
        /\ results \in Seq(DOMAIN Calls)
        /\ \A i, j \in DOMAIN results : results[i] = results[j] => i = j
        /\ \A i \in DOMAIN Calls : Calls[i] \notin ServerTools => i \in Range(results)

OneUnderWay == pc = "awaiting" => wire[2] \in Unsent

\* From `First` on, the history is the end of the log.
First == IF history[2] = Summary THEN 3 ELSE 2
Follows(n) ==
    /\ Len(history) - (First - 1) = Len(log) - n
    /\ \A i \in First..Len(history) : history[i] = log[i - (First - 1) + n]
Transcribed ==
    pc \in Loop =>
        /\ Len(history) >= 2
        /\ history[1] = System
        /\ \E n \in 1..Len(log) : Follows(n)

\* How many events have been read.
Read == Len(sent) - Len(fifo)
EventsRead ==
    /\ Read >= 0
    /\ \A k \in DOMAIN fifo : fifo[k] = Read + k
    /\ \A i \in Told : log[i][2] \in 1..Read
    /\ \A e \in 1..Read : IsText(e) => Heard(e) \/ LostBehindBad(e)

LogsDone == \E i \in DOMAIN log : log[i] = Done
Endings ==
    /\ LogsDone => pc \in {"closing", "logged", "cleaned", "exited", "killed"}
    /\ pc \in {"closing", "logged"} => LogsDone
    /\ pc \in {"cleaned", "exited"} => code = IF LogsDone THEN "ok" ELSE "err"
    /\ pc = "booting" => ~ pidFile

CallsInv == Unopened /\ CallsAnswered /\ LastCalls /\ ResultsSoFar /\ OneUnderWay
EventsInv == EventsInOrder /\ EventsRead

---------------------------------------------------------------------------
(* Messages. *)

LEMMA BoundsAreNat == MaxCalls \in Nat /\ MaxTurns \in Nat /\ MaxEvents \in Nat
  BY BoundsNat

\* What one answer may call is a sequence of at most MaxCalls calls.
LEMMA BatchIsSequence ==
    ASSUME NEW b \in Batches
    PROVE  b \in Seq(Tools) /\ Len(b) \in 0..MaxCalls /\ DOMAIN b = 1..Len(b)
<1>1. PICK n \in 0..MaxCalls : b \in [1..n -> Tools]
  BY DEF Batches
<1>2. n \in Nat
  BY BoundsAreNat
<1>3. b \in Seq(Tools)
  BY <1>1, <1>2, SeqDef
<1>4. Len(b) = n
  BY <1>1, <1>2, <1>3, LenProperties
<1>5. QED
  BY <1>1, <1>3, <1>4

\* The first component tells the kind of a message.
LEMMA MessageKinds ==
    ASSUME NEW m \in Messages
    PROVE  /\ m[1] \in {"system", "user", "summary", "assistant", "tool"}
           /\ m[1] = "user" /\ m # Prompt => m \in {"user"} \X (1..MaxEvents)
           /\ m[1] = "assistant" => m \in {"assistant"} \X (1..MaxTurns) \X Batches
           /\ m[1] = "tool" => m \in {"tool"} \X (1..MaxTurns) \X (1..MaxCalls)
  BY DEF Messages, System, Prompt, Summary

LEMMA SpecialEntries ==
    /\ System \in Messages /\ Prompt \in Messages /\ Summary \in Messages
    /\ Error[1] = "error" /\ Done[1] = "done"
    /\ System[1] = "system" /\ Prompt[1] = "user" /\ Summary[1] = "summary"
  BY DEF Messages, System, Prompt, Summary, Error, Done

\* Said to the history and the log, messages are at the end of both.
LEMMA SaidIsAppended ==
    ASSUME TypeOK, NEW ms \in Seq(Messages), Says(ms)
    PROVE  /\ history' \in Seq(Messages) /\ log' \in Seq(Messages \cup {Error, Done})
           /\ Len(history) \in Nat /\ Len(log) \in Nat /\ Len(ms) \in Nat
           /\ Len(history') = Len(history) + Len(ms) /\ Len(log') = Len(log) + Len(ms)
           /\ \A i \in 1..Len(history) : history'[i] = history[i]
           /\ \A i \in 1..Len(log) : log'[i] = log[i]
           /\ \A i \in 1..Len(ms) :
                 history'[Len(history) + i] = ms[i] /\ log'[Len(log) + i] = ms[i]
<1> DEFINE L == Messages \cup {Error, Done}
<1>1. history \in Seq(Messages) /\ log \in Seq(L) /\ ms \in Seq(L)
  <2>1. Messages \subseteq L
    OBVIOUS
  <2>2. QED
    BY <2>1, SeqMonotonic DEF TypeOK
<1>2. history' = history \o ms /\ log' = log \o ms
  BY DEF Says
<1> HIDE DEF L
<1>3. Len(history) \in Nat /\ Len(log) \in Nat /\ Len(ms) \in Nat
  BY <1>1, LenProperties
<1>4. /\ history' \in Seq(Messages) /\ Len(history') = Len(history) + Len(ms)
      /\ \A i \in 1..Len(history) + Len(ms) :
            history'[i] = IF i <= Len(history) THEN history[i] ELSE ms[i - Len(history)]
  BY <1>1, <1>2, ConcatProperties
<1>5. /\ log' \in Seq(L) /\ Len(log') = Len(log) + Len(ms)
      /\ \A i \in 1..Len(log) + Len(ms) :
            log'[i] = IF i <= Len(log) THEN log[i] ELSE ms[i - Len(log)]
  BY <1>1, <1>2, ConcatProperties
<1>6. \A i \in 1..Len(history) : history'[i] = history[i]
  BY <1>3, <1>4
<1>7. \A i \in 1..Len(log) : log'[i] = log[i]
  BY <1>3, <1>5
<1>8. \A i \in 1..Len(ms) : history'[Len(history) + i] = ms[i]
  BY <1>3, <1>4
<1>9. \A i \in 1..Len(ms) : log'[Len(log) + i] = ms[i]
  BY <1>3, <1>5
<1>10. QED
  BY <1>3, <1>4, <1>5, <1>6, <1>7, <1>8, <1>9 DEF L

---------------------------------------------------------------------------
(* Steps. *)

\* Nothing is said, and the loop neither begins nor are calls made or done with.
Silent ==
    /\ UNCHANGED talk
    /\ pc' \in Loop => pc \in Loop /\ (Awaited' <=> Awaited)

Talks ==
    Setup \/ TimesOut \/ ModelAnswers \/ AppendResults \/ QuietReads \/ Compress \/ LogDone

\* Only seven kinds of steps say anything.
LEMMA SilentSteps ==
    ASSUME TypeOK, [Next]_vars
    PROVE  Silent \/ Talks
<1> USE DEF Silent, Awaited, talk, marks, Goes, Loop
<1>1. CASE UNCHANGED vars
  BY <1>1 DEF vars
<1>2. CASE RunnerStep
  BY <1>2 DEF RunnerStep, LoopStep, Talks, WritePid, ModelFails, DispatchOneshots, CallServer,
     ReadResponse, QuietEnds, NextTurn, Finalize, ToolsExited, Fails, Cleanup, Exit
<1>3. CASE ToolStep
  BY <1>3 DEF ToolStep, ToolServes, ToolExits, PlanAnswers
<1>4. CASE TimePasses
  BY <1>4 DEF TimePasses
<1>5. CASE Killed
  BY <1>5 DEF Killed
<1>6. CASE \E kind \in Lines : Inject(kind)
  BY <1>6 DEF Inject
<1>7. QED
  BY <1>1, <1>2, <1>3, <1>4, <1>5, <1>6 DEF Next

\* Positions of the calls, in order.
LEMMA PositionsInOrder ==
    ASSUME Calls \in Batches, NEW S
    PROVE  /\ Positions(S) \in Seq(DOMAIN Calls)
           /\ Len(Positions(S)) \in Nat
           /\ DOMAIN Positions(S) = 1..Len(Positions(S))
           /\ \A k \in DOMAIN Positions(S) :
                 Positions(S)[k] \in DOMAIN Calls /\ Calls[Positions(S)[k]] \in S
           /\ \A k, l \in DOMAIN Positions(S) : Positions(S)[k] = Positions(S)[l] => k = l
           /\ \A i \in DOMAIN Calls :
                 Calls[i] \in S => \E k \in DOMAIN Positions(S) : Positions(S)[k] = i
<1> DEFINE P == {i \in DOMAIN Calls : Calls[i] \in S}
<1>1. Len(Calls) \in Nat /\ DOMAIN Calls = 1..Len(Calls)
  BY BatchIsSequence
<1>2. P \subseteq DOMAIN Calls /\ P \subseteq Nat
  BY <1>1
<1>3. IsFiniteSet(P)
  BY <1>1, <1>2, UpTo, FS_Subset
<1>4. Positions(S) = Ordered(P)
  BY DEF Positions
<1>5. \A i : i \in P <=> i \in DOMAIN Calls /\ Calls[i] \in S
  OBVIOUS
<1> DEFINE o == Ordered(P)
<1> HIDE DEF P
<1>6. /\ o \in Seq(P) /\ Len(o) \in Nat /\ DOMAIN o = 1..Len(o)
      /\ \A k \in 1..Len(o) : o[k] \in P
      /\ \A k, l \in 1..Len(o) : k < l => o[k] < o[l]
      /\ \A i \in P : \E k \in 1..Len(o) : o[k] = i
  BY <1>2, <1>3, OrderedIsSequence
<1>7. o \in Seq(DOMAIN Calls)
  BY <1>2, <1>6, SeqMonotonic
<1> HIDE DEF o
<1>8. ASSUME NEW k \in DOMAIN o, NEW l \in DOMAIN o, o[k] = o[l]
      PROVE  k = l
  <2>1. k \in Nat /\ l \in Nat /\ o[k] \in Nat
    BY <1>2, <1>6
  <2>2. ~ (k < l) /\ ~ (l < k)
    BY <1>6, <1>8, <2>1
  <2>3. QED
    BY <2>1, <2>2
<1>9. QED
  BY <1>4, <1>5, <1>6, <1>7, <1>8 DEF o

\* The events that a reader of the FIFO makes into messages.
LEMMA TextsInOrder ==
    ASSUME TypeOK, NEW f \in Seq(DOMAIN sent)
    PROVE  \E at :
              /\ at \in Seq(1..Len(f))
              /\ Len(at) \in Nat
              /\ \A k, l \in 1..Len(at) : k < l => at[k] < at[l]
              /\ \A k \in 1..Len(at) : at[k] \in 1..Len(f) /\ IsText(f[at[k]])
              /\ \A i \in 1..Len(f) :
                    IsText(f[i]) => \E k \in 1..Len(at) : at[k] = i
              /\ Texts(f) \in Seq(DOMAIN sent)
              /\ Len(Texts(f)) = Len(at)
              /\ \A k \in 1..Len(at) : Texts(f)[k] = f[at[k]]
<1> DEFINE T == {e \in DOMAIN sent : IsText(e)}
           D == DOMAIN sent
<1>1. f \in Seq(D)
  OBVIOUS
<1>2. Texts(f) = Select(f, T)
  BY DEF Texts
<1>3. \A e \in D : e \in T <=> IsText(e)
  OBVIOUS
<1> HIDE DEF T, D
<1>0. PICK at : Takes(at, D, f, T)
  BY <1>1, SelectsInOrder
<1>4. /\ at \in Seq(1..Len(f))
      /\ Len(at) \in Nat
      /\ \A k, l \in 1..Len(at) : k < l => at[k] < at[l]
      /\ \A k \in 1..Len(at) : at[k] \in 1..Len(f) /\ f[at[k]] \in T
      /\ \A i \in 1..Len(f) : f[i] \in T => \E k \in 1..Len(at) : at[k] = i
      /\ Select(f, T) \in Seq(D \cap T)
      /\ Len(Select(f, T)) = Len(at)
      /\ \A k \in 1..Len(at) : Select(f, T)[k] = f[at[k]]
  BY <1>0 DEF Takes
<1>5. \A i \in 1..Len(f) : f[i] \in D
  BY <1>1, ElementOfSeq
<1>6. Select(f, T) \in Seq(D)
  <2>1. D \cap T \subseteq D
    OBVIOUS
  <2>2. QED
    BY <1>4, <2>1, SeqMonotonic
<1>7. /\ \A k \in 1..Len(at) : at[k] \in 1..Len(f) /\ IsText(f[at[k]])
      /\ \A i \in 1..Len(f) : IsText(f[i]) => \E k \in 1..Len(at) : at[k] = i
  BY <1>3, <1>4, <1>5
<1>8. /\ Texts(f) \in Seq(DOMAIN sent)
      /\ Len(Texts(f)) = Len(at)
      /\ \A k \in 1..Len(at) : Texts(f)[k] = f[at[k]]
  BY <1>2, <1>4, <1>6 DEF D
<1>9. QED
  BY <1>4, <1>7, <1>8

\* What is read of the FIFO is its beginning, up to a line that is no UTF-8.
LEMMA ReadableIsPrefix ==
    ASSUME TypeOK
    PROVE  /\ Readable \in Seq(DOMAIN sent) /\ Len(Readable) \in 0..Len(fifo)
           /\ Len(fifo) \in Nat
           /\ \A k \in 1..Len(Readable) : Readable[k] = fifo[k]
           /\ Len(Readable) < Len(fifo) => sent[fifo[Len(Readable) + 1]] = "bad"
<1>1. fifo \in Seq(DOMAIN sent) /\ Len(fifo) \in Nat /\ DOMAIN fifo = 1..Len(fifo)
  BY LenProperties DEF TypeOK
<1>2. CASE Unreadable = {}
  BY <1>1, <1>2 DEF Readable
<1>3. CASE Unreadable # {}
  <2>1. Unreadable \subseteq Nat
    BY <1>1 DEF Unreadable
  <2>2. Min(Unreadable) \in Unreadable
    BY <1>3, <2>1, LeastNumber DEF Min
  <2> DEFINE b == Min(Unreadable)
  <2>3. b \in 1..Len(fifo) /\ sent[fifo[b]] = "bad"
    BY <1>1, <2>2 DEF Unreadable
  <2>4. Readable = SubSeq(fifo, 1, b - 1)
    BY <1>3 DEF Readable
  <2> HIDE DEF b
  <2>5. /\ Readable \in Seq(DOMAIN sent) /\ Len(Readable) = b - 1
        /\ \A k \in 1..(b - 1) : Readable[k] = fifo[k]
    BY <1>1, <2>3, <2>4, SubSeqProperties
  <2>6. QED
    BY <1>1, <2>3, <2>5
<1>4. QED
  BY <1>2, <1>3

\* What the FIFO has taken is a sequence that is not longer than its bound.
LEMMA SentIsSequence ==
    ASSUME NEW s
    PROVE  s \in BoundedSeq(Written \cup {"torn"}, MaxEvents)
             <=> s \in Seq(Written \cup {"torn"}) /\ Len(s) <= MaxEvents
<1> DEFINE K == Written \cup {"torn"}
<1>1. MaxEvents \in Nat
  BY BoundsAreNat
<1>2. BoundedSeq(K, MaxEvents) = UNION {[1..m -> K] : m \in 0..MaxEvents}
  BY DEF BoundedSeq, SeqOf
<1> HIDE DEF K
<1>3. ASSUME s \in BoundedSeq(K, MaxEvents)
      PROVE  s \in Seq(K) /\ Len(s) <= MaxEvents
  <2>1. PICK m \in 0..MaxEvents : s \in [1..m -> K]
    BY <1>2, <1>3
  <2>2. m \in Nat /\ m <= MaxEvents
    BY <1>1
  <2>3. s \in Seq(K)
    BY <2>1, <2>2, SeqDef
  <2>4. Len(s) = m
    BY <2>1, <2>2, <2>3, LenProperties
  <2>5. QED
    BY <2>2, <2>3, <2>4
<1>4. ASSUME s \in Seq(K), Len(s) <= MaxEvents
      PROVE  s \in BoundedSeq(K, MaxEvents)
  <2>1. Len(s) \in 0..MaxEvents /\ s \in [1..Len(s) -> K]
    BY <1>1, <1>4, LenProperties
  <2>2. QED
    BY <1>2, <2>1
<1>5. QED
  BY <1>3, <1>4 DEF K

\* After the reading, the FIFO has what was behind the lines read, and only the first line of
\* that may have lost its front.
LEMMA Drained ==
    ASSUME TypeOK, DrainFifo
    PROVE  \E c \in Len(Readable)..Len(fifo) :
              /\ fifo' \in Seq(DOMAIN sent)
              /\ Len(fifo') = Len(fifo) - c /\ DOMAIN (fifo') = 1..(Len(fifo) - c)
              /\ \A k \in 1..(Len(fifo) - c) : fifo'[k] = fifo[c + k]
              /\ sent' \in Seq(Written \cup {"torn"}) /\ Len(sent') = Len(sent)
              /\ DOMAIN (sent') = DOMAIN sent
              /\ \A e \in DOMAIN sent :
                    sent'[e] = sent[e] \/ (c < Len(fifo) /\ e = fifo[c + 1])
<1> DEFINE K == Written \cup {"torn"}
           D == DOMAIN sent
<1>1. sent \in Seq(K) /\ Len(sent) \in Nat /\ D = 1..Len(sent)
  BY SentIsSequence, LenProperties DEF TypeOK
<1>2. /\ fifo \in Seq(D) /\ Len(fifo) \in Nat /\ DOMAIN fifo = 1..Len(fifo)
      /\ Len(Readable) \in 0..Len(fifo)
  BY ReadableIsPrefix, LenProperties DEF TypeOK
<1>3. CASE Unreadable = {}
  <2>1. Readable = fifo /\ fifo' = <<>> /\ sent' = sent
    BY <1>3 DEF DrainFifo, Readable
  <2>2. fifo' \in Seq(D) /\ Len(fifo') = 0 /\ DOMAIN (fifo') = 1..0
    BY <2>1
  <2> HIDE DEF K, D
  <2>3. QED
    BY <1>1, <1>2, <2>1, <2>2 DEF K, D
<1>4. CASE Unreadable # {}
  <2>1. Min(Unreadable) \in Unreadable
    <3>1. Unreadable \subseteq Nat
      BY <1>2 DEF Unreadable
    <3>2. QED
      BY <1>4, <3>1, LeastNumber DEF Min
  <2> DEFINE b == Min(Unreadable)
  <2>2. b \in 1..Len(fifo)
    BY <1>2, <2>1 DEF Unreadable
  <2>3. Readable = SubSeq(fifo, 1, b - 1)
    BY <1>4 DEF Readable
  <2>4. PICK c \in b..Len(fifo) : fifo' = SubSeq(fifo, c + 1, Len(fifo))
    BY <1>4 DEF DrainFifo
  <2>5. sent' = sent \/ (fifo' # <<>> /\ \E rest \in Leftovers(sent[Head(fifo')]) :
                             sent' = [sent EXCEPT ![Head(fifo')] = rest])
    BY <1>4 DEF DrainFifo
  <2> HIDE DEF b
  <2>6. Len(Readable) = b - 1
    BY <1>2, <2>2, <2>3, SubSeqProperties
  <2>7. /\ fifo' \in Seq(D) /\ Len(fifo') = Len(fifo) - c
        /\ \A k \in 1..(Len(fifo) - c) : fifo'[k] = fifo[c + k]
    <3>1. c \in Nat /\ c + 1 \in 1..(Len(fifo) + 1)
      BY <1>2, <2>2
    <3>2. /\ fifo' \in Seq(D)
          /\ Len(fifo') = IF c + 1 <= Len(fifo) THEN Len(fifo) - (c + 1) + 1 ELSE 0
          /\ \A k \in 1..(Len(fifo) - (c + 1) + 1) : fifo'[k] = fifo[(c + 1) + k - 1]
      BY <1>2, <2>4, <3>1, SubSeqProperties
    <3>3. Len(fifo) - (c + 1) + 1 = Len(fifo) - c
          /\ (~ (c + 1 <= Len(fifo)) => Len(fifo) - c = 0)
      <4> DEFINE f == Len(fifo)
      <4>1. f \in Nat /\ c \in Nat /\ c + 1 \in 1..(f + 1)
        BY <1>2, <3>1
      <4> HIDE DEF f
      <4>2. f - (c + 1) + 1 = f - c /\ (~ (c + 1 <= f) => f - c = 0)
        BY <4>1
      <4>3. QED
        BY <4>2 DEF f
    <3>4. Len(fifo') = Len(fifo) - c
      <4>1. CASE c + 1 <= Len(fifo)
        BY <4>1, <3>2, <3>3
      <4>2. CASE ~ (c + 1 <= Len(fifo))
        BY <4>2, <3>2, <3>3
      <4>3. QED
        BY <4>1, <4>2
    <3>5. ASSUME NEW k \in 1..(Len(fifo) - c)
          PROVE  fifo'[k] = fifo[c + k]
      <4>1. (c + 1) + k - 1 = c + k
        BY <1>2, <3>1
      <4>2. fifo'[k] = fifo[(c + 1) + k - 1]
        BY <3>2, <3>3
      <4>3. QED
        BY <4>1, <4>2
    <3>6. QED
      BY <3>2, <3>4, <3>5
  <2>8. DOMAIN (fifo') = 1..(Len(fifo) - c)
    BY <2>7, LenProperties
  <2>9. c \in Len(Readable)..Len(fifo)
    BY <1>2, <2>2, <2>6
  <2>10. CASE sent' = sent
    BY <1>1, <2>7, <2>8, <2>9, <2>10
  <2>11. CASE fifo' # <<>> /\ \E rest \in Leftovers(sent[Head(fifo')]) :
                                 sent' = [sent EXCEPT ![Head(fifo')] = rest]
    <3>1. PICK rest \in Leftovers(sent[Head(fifo')]) : sent' = [sent EXCEPT ![Head(fifo')] = rest]
      BY <2>11
    <3>2. Len(fifo') > 0 /\ Head(fifo') = fifo'[1]
      BY <2>7, <2>11, EmptySeq
    <3>3. c < Len(fifo) /\ Head(fifo') = fifo[c + 1] /\ c + 1 \in 1..Len(fifo)
      BY <1>2, <2>2, <2>7, <3>2
    <3>4. Head(fifo') \in D
      BY <1>2, <3>3, ElementOfSeq
    <3>5. rest \in K
      <4>1. sent[Head(fifo')] \in K
        BY <1>1, <3>4, ElementOfSeq
      <4>2. QED
        BY <4>1, <3>1 DEF Leftovers, Written
    <3>6. sent' \in Seq(K) /\ Len(sent') = Len(sent) /\ DOMAIN (sent') = D
          /\ \A e \in D : e # Head(fifo') => sent'[e] = sent[e]
      <4>1. sent' \in Seq(K) /\ Len(sent') = Len(sent)
        BY <1>1, <3>1, <3>4, <3>5, ExceptSeq
      <4>2. QED
        BY <3>1, <4>1
    <3> HIDE DEF K, D
    <3>7. QED
      BY <2>7, <2>8, <2>9, <3>3, <3>6 DEF K, D
  <2>12. QED
    BY <2>5, <2>10, <2>11
<1>5. QED
  BY <1>3, <1>4

\* The last message while its calls are under way.
LEMMA LastMessage ==
    ASSUME LastCalls, Awaited
    PROVE  /\ history # <<>>
           /\ Turn \in 1..MaxTurns /\ Calls \in Batches
           /\ Last(history) = <<"assistant", Turn, Calls>>
           /\ DOMAIN Calls = 1..Len(Calls) /\ Len(Calls) \in 0..MaxCalls
<1>1. /\ history # <<>>
      /\ Last(history) \in {"assistant"} \X (1..MaxTurns) \X Batches
  BY DEF LastCalls
<1>2. Turn = Last(history)[2] /\ Calls = Last(history)[3]
  BY DEF Turn, Calls
<1> DEFINE m == Last(history)
<1>3. m = <<"assistant", m[2], m[3]>> /\ m[2] \in 1..MaxTurns /\ m[3] \in Batches
  BY <1>1
<1>4. QED
  BY <1>1, <1>2, <1>3, BatchIsSequence

\* When nothing is left to be sent, every call has one result, and sorting puts them in
\* the order of the calls.
LEMMA ResultsSorted ==
    ASSUME TypeOK, LastCalls, ResultsSoFar, pc = "calling", Unsent = {}
    PROVE  /\ DOMAIN results = 1..Len(Calls)
           /\ \A k \in 1..Len(Calls) : Sorted(results)[k] = k
<1> DEFINE n == Len(Calls)
<1>1. n \in Nat /\ DOMAIN Calls = 1..n
  BY LastMessage DEF Awaited
<1>2. /\ results \in Seq(DOMAIN Calls)
      /\ \A i, j \in DOMAIN results : results[i] = results[j] => i = j
      /\ \A i \in DOMAIN Calls : Calls[i] \notin ServerTools => i \in Range(results)
  BY DEF ResultsSoFar
<1> HIDE DEF n
<1>3. results \in Seq(1..n)
  BY <1>1, <1>2
<1>4. DOMAIN results = 1..Len(results)
  BY <1>3, LenProperties
<1>5. ASSUME NEW k \in 1..n
      PROVE  \E i \in 1..Len(results) : results[i] = k
  <2>1. k \in Range(results)
    BY <1>1, <1>2 DEF Unsent
  <2>2. QED
    BY <2>1, <1>4 DEF Range
<1>6. \A i, j \in 1..Len(results) : results[i] = results[j] => i = j
  BY <1>2, <1>4
<1>7. Sorted(results) = [k \in 1..n |-> k]
  BY <1>1, <1>3, <1>5, <1>6, PermutationSorted
<1>8. DOMAIN Sorted(results) = DOMAIN results
  BY DEF Sorted
<1>9. QED
  BY <1>7, <1>8 DEF n

\* What is said when all results are there.
ToolResults == [i \in DOMAIN results |-> <<"tool", Turn, Sorted(results)[i]>>]

LEMMA ToolResultsInOrder ==
    ASSUME TypeOK, LastCalls, ResultsSoFar, pc = "calling", Unsent = {}
    PROVE  /\ ToolResults \in Seq(Messages)
           /\ Len(ToolResults) = Len(Calls)
           /\ \A k \in 1..Len(Calls) : ToolResults[k] = <<"tool", Turn, k>>
<1>1. Turn \in 1..MaxTurns /\ Len(Calls) \in 0..MaxCalls
  BY LastMessage DEF Awaited
<1>2. Len(Calls) \in Nat /\ 1..Len(Calls) \subseteq 1..MaxCalls
  BY <1>1, BoundsAreNat
<1>3. /\ DOMAIN results = 1..Len(Calls)
      /\ \A k \in 1..Len(Calls) : Sorted(results)[k] = k
  BY ResultsSorted
<1>4. ToolResults = [k \in 1..Len(Calls) |-> <<"tool", Turn, k>>]
  BY <1>3 DEF ToolResults
<1>5. \A k \in 1..Len(Calls) : <<"tool", Turn, k>> \in Messages
  BY <1>1, <1>2 DEF Messages
<1>6. ToolResults \in [1..Len(Calls) -> Messages]
  BY <1>4, <1>5
<1>7. ToolResults \in Seq(Messages)
  BY <1>2, <1>6, SeqDef
<1>8. Len(ToolResults) = Len(Calls)
  BY <1>2, <1>6, <1>7, LenProperties
<1>9. QED
  BY <1>4, <1>7, <1>8

---------------------------------------------------------------------------
(* Type correctness. *)

LEMMA NoticesAreMessages ==
    ASSUME TypeOK
    PROVE  UserMessages(Texts(Readable)) \in Seq(Messages)
<1>1. Texts(Readable) \in Seq(DOMAIN sent)
  BY TextsInOrder, ReadableIsPrefix
<1>2. sent \in Seq(Written \cup {"torn"}) /\ Len(sent) <= MaxEvents
  BY SentIsSequence DEF TypeOK
<1>3. DOMAIN sent = 1..Len(sent) /\ Len(sent) \in Nat
  BY <1>2, LenProperties
<1>4. Len(Texts(Readable)) \in Nat /\ DOMAIN Texts(Readable) = 1..Len(Texts(Readable))
  BY <1>1, LenProperties
<1>5. \A k \in 1..Len(Texts(Readable)) : Texts(Readable)[k] \in 1..MaxEvents
  <2>1. \A k \in 1..Len(Texts(Readable)) : Texts(Readable)[k] \in 1..Len(sent)
    BY <1>1, <1>3, ElementOfSeq
  <2>2. 1..Len(sent) \subseteq 1..MaxEvents
    BY <1>2, <1>3, BoundsAreNat
  <2>3. QED
    BY <2>1, <2>2
<1>6. \A k \in 1..Len(Texts(Readable)) : <<"user", Texts(Readable)[k]>> \in Messages
  BY <1>5 DEF Messages
<1>7. UserMessages(Texts(Readable)) \in [1..Len(Texts(Readable)) -> Messages]
  BY <1>4, <1>6 DEF UserMessages
<1>8. QED
  BY <1>4, <1>7, SeqDef

LEMMA CountOfAnswers ==
    ASSUME TypeOK
    PROVE  AnswersSoFar \in Nat
<1> DEFINE A == {i \in DOMAIN log : log[i][1] = "assistant"}
<1>1. DOMAIN log = 1..Len(log) /\ Len(log) \in Nat
  BY LenProperties DEF TypeOK
<1>2. A \subseteq 1..Len(log)
  BY <1>1
<1>3. AnswersSoFar = Cardinality(A)
  BY DEF AnswersSoFar
<1> HIDE DEF A
<1>4. QED
  BY <1>1, <1>2, <1>3, UpTo, FS_Subset, FS_CardinalityType

LEMMA AnswerIsMessage ==
    ASSUME TypeOK, AnswersSoFar < MaxTurns, NEW calls \in Batches
    PROVE  <<<<"assistant", AnswersSoFar + 1, calls>>>> \in Seq(Messages)
<1>1. AnswersSoFar + 1 \in 1..MaxTurns
  BY CountOfAnswers, BoundsAreNat
<1>2. <<"assistant", AnswersSoFar + 1, calls>> \in Messages
  BY <1>1 DEF Messages
<1>3. QED
  BY <1>2

LEMMA OpeningIsMessages == <<System, Prompt>> \in Seq(Messages)
<1>1. QED
  BY SpecialEntries

\* The history after a compression: the last part of what it was, behind the summary.
LEMMA Compressed ==
    ASSUME TypeOK, Compress
    PROVE  /\ history' \in Seq(Messages) /\ log' = log
           /\ Len(history) \in Nat /\ Len(history) > 4
           /\ \E d \in 3..Len(history) :
                 /\ Len(history') = Len(history) - d + 2
                 /\ history'[1] = System /\ history'[2] = Summary
                 /\ \A i \in 3..Len(history') : history'[i] = history[i + d - 2]
<1> DEFINE rest == Tail(history)
           n == Len(rest)
           count == (n * 2) \div 3
           kept == SubSeq(rest, count + 1, n)
<1>1. n > 3 /\ history' = <<System, Summary>> \o kept /\ log' = log
  BY DEF Compress
<1>2. history \in Seq(Messages) /\ Len(history) \in Nat
  BY LenProperties DEF TypeOK
<1>3. history # <<>>
  <2>1. CASE history = <<>>
    <3>1. rest = <<>>
      BY <2>1
    <3>2. n = 0
      BY <3>1
    <3>3. QED
      BY <3>2, <1>1
  <2>2. QED
    BY <2>1
<1>4. /\ rest \in Seq(Messages) /\ n = Len(history) - 1
      /\ \A i \in 1..n : rest[i] = history[i + 1]
  BY <1>2, <1>3, HeadTailProperties
<1>5. n \in Nat
  BY <1>4, LenProperties
<1> HIDE DEF n
<1>6. count \in Nat /\ count >= 2 /\ count < n
  BY <1>1, <1>5
<1> HIDE DEF rest, count
<1>7. /\ kept \in Seq(Messages) /\ Len(kept) = n - count
      /\ \A i \in 1..(n - count) : kept[i] = rest[count + i]
  <2>1. \A i \in (count + 1)..n : rest[i] \in Messages
    <3>1. (count + 1)..n \subseteq 1..n
      BY <1>5, <1>6
    <3>2. QED
      BY <1>4, <3>1, ElementOfSeq DEF n
  <2>2. /\ kept \in Seq(Messages)
        /\ Len(kept) = IF count + 1 <= n THEN n - (count + 1) + 1 ELSE 0
        /\ \A i \in 1..(n - (count + 1) + 1) : kept[i] = rest[count + 1 + i - 1]
    <3>1. count + 1 \in Int /\ n \in Int
      BY <1>5, <1>6
    <3>2. QED
      BY <2>1, <3>1, SubSeqProperties
  <2> HIDE DEF kept
  <2>3. n - (count + 1) + 1 = n - count /\ count + 1 <= n
    BY <1>5, <1>6
  <2>4. \A i \in 1..(n - count) : count + 1 + i - 1 = count + i
    BY <1>5, <1>6
  <2>5. QED
    BY <2>2, <2>3, <2>4
<1> HIDE DEF kept
<1>8. <<System, Summary>> \in Seq(Messages) /\ Len(<<System, Summary>>) = 2
  BY SpecialEntries
<1> DEFINE h == history'
           d == count + 1
<1>9. /\ h \in Seq(Messages) /\ Len(h) = 2 + (n - count)
      /\ \A i \in 1..2 + (n - count) :
            h[i] = IF i <= 2 THEN <<System, Summary>>[i] ELSE kept[i - 2]
  BY <1>1, <1>7, <1>8, ConcatProperties
<1> HIDE DEF h
<1>10. h[1] = System /\ h[2] = Summary
  BY <1>5, <1>6, <1>9
<1>11. ASSUME NEW i \in 3..Len(h)
       PROVE  h[i] = history[i + d - 2]
  <2>1. i - 2 \in 1..(n - count) /\ i \in 1..2 + (n - count) /\ ~ (i <= 2)
    BY <1>5, <1>6, <1>9
  <2>2. h[i] = rest[count + (i - 2)]
    BY <2>1, <1>7, <1>9
  <2>3. count + (i - 2) \in 1..n /\ count + (i - 2) + 1 = i + d - 2
    BY <2>1, <1>5, <1>6
  <2>4. QED
    BY <2>2, <2>3, <1>4
<1>12. /\ d \in 3..Len(history) /\ Len(h) = Len(history) - d + 2
       /\ Len(history) > 4
  BY <1>1, <1>2, <1>4, <1>5, <1>6, <1>9
<1> HIDE DEF d
<1>13. QED
  BY <1>1, <1>2, <1>9, <1>10, <1>11, <1>12 DEF h

\* Every step keeps every variable in its type.
LEMMA TypeStep ==
    ASSUME TypeOK, CallsInv, [Next]_vars
    PROVE  TypeOK'
<1> DEFINE L == Messages \cup {Error, Done}
           Wires == {Quiet} \cup ({"request"} \X (1..MaxCalls))
                            \cup ({"response"} \X (1..MaxCalls) \X BOOLEAN)
           Pcs == {"booting", "setup"} \cup Loop \cup Finish \cup Over
           TalkOK == history \in Seq(Messages) /\ log \in Seq(L)
           Rest == /\ pc \in Pcs
                   /\ sent \in BoundedSeq(Written \cup {"torn"}, MaxEvents)
                   /\ fifo \in Seq(DOMAIN sent)
                   /\ results \in Seq(1..MaxCalls)
                   /\ wire \in Wires
                   /\ tool \in {"none", "serving", "asking", "exited"}
                   /\ signalled \in BOOLEAN /\ expired \in BOOLEAN /\ pidFile \in BOOLEAN
                   /\ code \in {"none", "ok", "err"}
<1>1. TypeOK <=> TalkOK /\ Rest
  BY DEF TypeOK
<1>2. TypeOK' <=> TalkOK' /\ Rest'
  BY DEF TypeOK
<1>3. CallsAnswered /\ LastCalls /\ ResultsSoFar /\ OneUnderWay
  BY DEF CallsInv
<1>4. Error \in L /\ Done \in L /\ <<>> \in Seq(1..MaxCalls) /\ Quiet \in Wires
  OBVIOUS
<1>5. fifo \in Seq(DOMAIN sent) /\ <<>> \in Seq(DOMAIN sent)
  BY DEF TypeOK
<1>6. \A ms \in Seq(Messages) : Says(ms) => TalkOK'
  BY SaidIsAppended
<1>7. \A x \in L : log' = Append(log, x) /\ UNCHANGED history => TalkOK'
  <2>1. history \in Seq(Messages) /\ log \in Seq(L)
    BY <1>1
  <2> HIDE DEF L
  <2>2. QED
    BY <2>1, AppendProperties
<1>8. UNCHANGED talk => TalkOK'
  BY <1>1 DEF talk
<1> HIDE DEF TalkOK, L
<1> USE DEF Goes, marks, channels
<1>11. CASE UNCHANGED vars
  BY <1>1, <1>2, <1>8, <1>11 DEF vars, talk
<1>12. CASE WritePid
  BY <1>1, <1>2, <1>8, <1>12 DEF WritePid
<1>13. CASE Setup
  <2>1. TalkOK'
    BY <1>13, <1>6, OpeningIsMessages DEF Setup
  <2>2. QED
    BY <1>1, <1>2, <2>1, <1>13 DEF Setup, StartServerTools, Loop
<1>14. CASE TimesOut
  BY <1>1, <1>2, <1>4, <1>7, <1>14 DEF TimesOut, Finish
<1>15. CASE ModelAnswers
  <2>1. PICK calls \in Batches :
          /\ Says(<<<<"assistant", AnswersSoFar + 1, calls>>>>)
          /\ pc' = IF calls = <<>> THEN "quiet" ELSE "dispatch"
    BY <1>15 DEF ModelAnswers
  <2>2. TalkOK'
    BY <2>1, <1>6, <1>15, AnswerIsMessage DEF ModelAnswers
  <2>3. QED
    BY <1>1, <1>2, <2>1, <2>2, <1>15 DEF ModelAnswers, Loop
<1>16. CASE ModelFails
  BY <1>1, <1>2, <1>8, <1>16 DEF ModelFails, Over
<1>17. CASE DispatchOneshots
  <2>1. Calls \in Batches /\ DOMAIN Calls = 1..Len(Calls) /\ Len(Calls) \in 0..MaxCalls
    BY <1>3, <1>17, LastMessage DEF Awaited, DispatchOneshots
  <2>2. DOMAIN Calls \subseteq 1..MaxCalls
    BY <2>1, BoundsAreNat
  <2> HIDE DEF Wires, Pcs
  <2>3. Positions({"nosuch"}) \in Seq(DOMAIN Calls) /\ Positions({"read"}) \in Seq(DOMAIN Calls)
    BY <2>1, PositionsInOrder
  <2>4. results' \in Seq(DOMAIN Calls)
    BY <2>3, <1>17, ConcatProperties DEF DispatchOneshots, OneshotResults
  <2>5. results' \in Seq(1..MaxCalls)
    BY <2>2, <2>4, SeqMonotonic
  <2>6. QED
    BY <1>1, <1>2, <1>8, <1>17, <2>5 DEF DispatchOneshots, Loop, Pcs
<1>18. CASE CallServer
  <2>1. DOMAIN Calls = 1..Len(Calls) /\ Len(Calls) \in 0..MaxCalls
    BY <1>3, <1>18, LastMessage DEF Awaited, CallServer
  <2>2. Unsent \subseteq 1..MaxCalls /\ Unsent \subseteq Nat /\ Unsent # {}
    BY <2>1, <1>18, BoundsAreNat DEF Unsent, CallServer
  <2>3. Min(Unsent) \in Unsent
    BY <2>2, LeastNumber DEF Min
  <2>4. Request(Min(Unsent)) \in Wires
    BY <2>2, <2>3 DEF Request
  <2>5. QED
    BY <1>1, <1>2, <1>8, <1>18, <2>4 DEF CallServer, Loop, Over
<1>19. CASE ReadResponse
  <2>2. wire[2] \in 1..MaxCalls /\ wire[3] \in BOOLEAN
    BY <1>1, <1>19 DEF ReadResponse, Quiet
  <2>3. results' \in Seq(1..MaxCalls)
    BY <1>1, <2>2, <1>19, AppendProperties DEF ReadResponse
  <2>4. signalled' \in BOOLEAN
    BY <1>1, <2>2, <1>19 DEF ReadResponse
  <2>5. QED
    BY <1>1, <1>2, <1>4, <1>8, <1>19, <2>3, <2>4 DEF ReadResponse, Loop
<1>20. CASE AppendResults
  <2>1. ToolResults \in Seq(Messages)
    BY <1>3, <1>20, ToolResultsInOrder DEF AppendResults
  <2>2. Says(ToolResults)
    BY <1>20 DEF AppendResults, ToolResults
  <2>3. TalkOK'
    BY <2>1, <2>2, <1>6
  <2>4. QED
    BY <1>1, <1>2, <1>4, <2>3, <1>20 DEF AppendResults, Loop, Finish
<1>21. CASE QuietReads
  <2>1. TalkOK'
    BY <1>6, <1>8, <1>21, NoticesAreMessages DEF QuietReads
  <2>2. /\ fifo' \in Seq(DOMAIN sent) /\ DOMAIN (sent') = DOMAIN sent
        /\ sent' \in Seq(Written \cup {"torn"}) /\ Len(sent') = Len(sent)
    BY <1>21, Drained DEF QuietReads
  <2>3. sent' \in BoundedSeq(Written \cup {"torn"}, MaxEvents)
    <3>1. Len(sent) <= MaxEvents
      BY <1>1, SentIsSequence
    <3>2. QED
      BY <2>2, <3>1, SentIsSequence
  <2>4. pc' \in Pcs /\ UNCHANGED <<wire, tool, results, marks>>
    BY <1>21 DEF QuietReads, Loop, Finish
  <2>5. fifo' \in Seq(DOMAIN (sent'))
    BY <2>2
  <2> HIDE DEF Wires, Pcs
  <2>6. QED
    BY <1>1, <1>2, <2>1, <2>3, <2>4, <2>5
<1>22. CASE QuietEnds
  BY <1>1, <1>2, <1>8, <1>22 DEF QuietEnds, Finish
<1>23. CASE NextTurn
  BY <1>1, <1>2, <1>8, <1>23 DEF NextTurn, Loop
<1>24. CASE Compress
  <2>1. TalkOK'
    BY <1>1, <1>24, Compressed DEF TalkOK
  <2>2. QED
    BY <1>1, <1>2, <2>1, <1>24 DEF Compress, Loop
<1>25. CASE Finalize
  BY <1>1, <1>2, <1>8, <1>25 DEF Finalize, Finish
<1>26. CASE LogDone
  BY <1>1, <1>2, <1>4, <1>7, <1>26 DEF LogDone, Finish
<1>27. CASE ToolsExited
  BY <1>1, <1>2, <1>8, <1>27 DEF ToolsExited, Finish
<1>28. CASE Fails
  BY <1>1, <1>2, <1>8, <1>28 DEF Fails, Over
<1>29. CASE Cleanup
  <2>1. code' \in {"none", "ok", "err"} /\ pc' \in Pcs
    BY <1>29 DEF Cleanup, Over
  <2> HIDE DEF Wires, Pcs
  <2>2. QED
    BY <1>1, <1>2, <1>8, <1>29, <2>1 DEF Cleanup
<1>30. CASE Exit
  BY <1>1, <1>2, <1>8, <1>30 DEF Exit, Over
<1>31. CASE ToolServes
  <2>1. wire[2] \in 1..MaxCalls
    <3>1. wire[2] \in Unsent /\ Awaited
      BY <1>3, <1>31 DEF ToolServes, OneUnderWay, Awaited
    <3>2. DOMAIN Calls = 1..Len(Calls) /\ Len(Calls) \in 0..MaxCalls
      BY <1>3, <3>1, LastMessage
    <3>3. QED
      BY <3>1, <3>2, BoundsAreNat DEF Unsent
  <2>2. Response(wire[2], TRUE) \in Wires
    BY <2>1 DEF Response
  <2> HIDE DEF Wires, Pcs
  <2>3. QED
    BY <1>1, <1>2, <1>8, <1>31, <2>2 DEF ToolServes
<1>37. CASE PlanAnswers
  <2>1. wire[2] \in 1..MaxCalls
    <3>1. wire[2] \in Unsent /\ Awaited
      BY <1>3, <1>37 DEF PlanAnswers, OneUnderWay, Awaited
    <3>2. DOMAIN Calls = 1..Len(Calls) /\ Len(Calls) \in 0..MaxCalls
      BY <1>3, <3>1, LastMessage
    <3>3. QED
      BY <3>1, <3>2, BoundsAreNat DEF Unsent
  <2>2. \A end \in BOOLEAN : Response(wire[2], end) \in Wires
    BY <2>1 DEF Response
  <2> HIDE DEF Wires, Pcs
  <2>3. QED
    BY <1>1, <1>2, <1>8, <1>37, <2>2 DEF PlanAnswers
<1>32. CASE ToolExits
  BY <1>1, <1>2, <1>8, <1>32 DEF ToolExits
<1>33. CASE TimePasses
  BY <1>1, <1>2, <1>8, <1>33 DEF TimePasses
<1>34. CASE Killed
  BY <1>1, <1>2, <1>8, <1>34 DEF Killed, Over
<1>35. CASE \E kind \in Lines : Inject(kind)
  <2>1. PICK kind \in Lines : WriteToFifo(kind)
    BY <1>35 DEF Inject
  <2>2. /\ sent' = Append(sent, kind) /\ fifo' = Append(fifo, Len(sent) + 1)
        /\ Len(sent) < MaxEvents
    BY <2>1 DEF WriteToFifo
  <2>3. UNCHANGED <<pc, talk, wire, tool, results, marks>>
    BY <1>35 DEF Inject
  <2> DEFINE K == Written \cup {"torn"}
  <2>4. sent \in Seq(K) /\ kind \in K
    BY <1>1, SentIsSequence, LinesKnown
  <2> HIDE DEF K
  <2>5. Len(sent) \in Nat /\ DOMAIN sent = 1..Len(sent)
    BY <2>4, LenProperties
  <2>6. sent' \in Seq(K) /\ Len(sent') = Len(sent) + 1
    BY <2>2, <2>4, AppendProperties
  <2>7. DOMAIN (sent') = 1..(Len(sent) + 1)
    BY <2>6, LenProperties
  <2>8. sent' \in BoundedSeq(Written \cup {"torn"}, MaxEvents)
    <3>1. Len(sent') <= MaxEvents
      BY <2>2, <2>5, <2>6, BoundsAreNat
    <3>2. QED
      BY <3>1, <2>6, SentIsSequence DEF K
  <2>9. fifo' \in Seq(DOMAIN (sent'))
    <3>1. DOMAIN sent \subseteq DOMAIN (sent') /\ Len(sent) + 1 \in DOMAIN (sent')
      BY <2>5, <2>7
    <3>2. fifo \in Seq(DOMAIN (sent'))
      BY <3>1, <1>5, SeqMonotonic
    <3>3. QED
      BY <3>1, <3>2, <2>2, AppendProperties
  <2> HIDE DEF Wires, Pcs
  <2>10. QED
    BY <1>1, <1>2, <1>8, <2>3, <2>8, <2>9
<1>36. QED
  BY <1>11, <1>12, <1>13, <1>14, <1>15, <1>16, <1>17, <1>18, <1>19, <1>20, <1>21, <1>22,
     <1>23, <1>24, <1>25, <1>26, <1>27, <1>28, <1>29, <1>30, <1>31, <1>32, <1>33, <1>34,
     <1>35, <1>37 DEF Next, RunnerStep, LoopStep, ToolStep

---------------------------------------------------------------------------
(* Calls and their results. *)

LEMMA UnopenedStep ==
    ASSUME Unopened, [Next]_vars
    PROVE  Unopened'
<1> USE DEF Unopened, Goes, talk
<1>1. CASE RunnerStep
  BY <1>1 DEF RunnerStep, LoopStep, WritePid, Setup, TimesOut, ModelAnswers, ModelFails,
     DispatchOneshots, CallServer, ReadResponse, AppendResults, QuietReads, QuietEnds,
     NextTurn, Compress, Finalize, LogDone, ToolsExited, Fails, Cleanup, Exit
<1>2. CASE ToolStep
  BY <1>2 DEF ToolStep, ToolServes, ToolExits, PlanAnswers
<1>3. CASE TimePasses
  BY <1>3 DEF TimePasses
<1>4. CASE Killed
  BY <1>4 DEF Killed
<1>5. CASE \E kind \in Lines : Inject(kind)
  BY <1>5 DEF Inject
<1>6. CASE UNCHANGED vars
  BY <1>6 DEF vars
<1>7. QED
  BY <1>1, <1>2, <1>3, <1>4, <1>5, <1>6 DEF Next

\* The session is opened with two messages of no calls.
LEMMA Opened ==
    ASSUME TypeOK, Unopened, Setup
    PROVE  /\ history' = <<System, Prompt>> /\ log' = <<System, Prompt>>
           /\ pc' = "loop" /\ UNCHANGED <<sent, fifo>>
<1>1. history = <<>> /\ log = <<>>
  BY DEF Unopened, Setup, Goes
<1>2. history' = <<>> \o <<System, Prompt>> /\ log' = <<>> \o <<System, Prompt>>
  BY <1>1 DEF Setup, Says
<1>3. <<>> \o <<System, Prompt>> = <<System, Prompt>>
  BY OpeningIsMessages, ConcatEmptySeq
<1>4. QED
  BY <1>2, <1>3 DEF Setup, Goes

\* An answered message stays answered when more is said.
LEMMA AnsweredStays ==
    ASSUME TypeOK, NEW ms \in Seq(Messages), Says(ms),
           NEW i \in 1..Len(history), Answered(i)
    PROVE  Answered(i)'
<1>1. /\ Len(history) \in Nat /\ Len(ms) \in Nat
      /\ history \in Seq(Messages) /\ history' \in Seq(Messages)
      /\ Len(history') = Len(history) + Len(ms)
      /\ \A j \in 1..Len(history) : history'[j] = history[j]
  BY SaidIsAppended DEF TypeOK
<1>2. DOMAIN history = 1..Len(history) /\ DOMAIN (history') = 1..Len(history')
  BY <1>1, LenProperties
<1>3. \A j \in DOMAIN history : j \in DOMAIN (history')
  BY <1>1, <1>2
<1>4. history'[i] = history[i]
  BY <1>1
<1>5. ASSUME NEW k \in DOMAIN history'[i][3]
      PROVE  i + k \in DOMAIN (history') /\ history'[i + k] = <<"tool", history'[i][2], k>>
  <2>1. i + k \in DOMAIN history /\ history[i + k] = <<"tool", history[i][2], k>>
    BY <1>4 DEF Answered
  <2>2. history'[i + k] = history[i + k]
    BY <2>1, <1>1, <1>2
  <2>3. QED
    BY <2>1, <2>2, <1>3, <1>4
<1>6. QED
  BY <1>5 DEF Answered

\* Saying what is no answer of the model keeps all answered.
LEMMA AllAnsweredStays ==
    ASSUME TypeOK, NEW ms \in Seq(Messages), Says(ms),
           \A i \in 1..Len(history) : history[i][1] = "assistant" => Answered(i),
           \A i \in 1..Len(ms) : ms[i][1] # "assistant"
    PROVE  \A i \in DOMAIN (history') : history'[i][1] = "assistant" => Answered(i)'
<1>1. /\ Len(history) \in Nat /\ Len(ms) \in Nat
      /\ history' \in Seq(Messages)
      /\ Len(history') = Len(history) + Len(ms)
      /\ \A j \in 1..Len(history) : history'[j] = history[j]
      /\ \A j \in 1..Len(ms) : history'[Len(history) + j] = ms[j]
  BY SaidIsAppended
<1>2. DOMAIN (history') = 1..(Len(history) + Len(ms))
  BY <1>1, LenProperties
<1>3. ASSUME NEW i \in 1..(Len(history) + Len(ms)), history'[i][1] = "assistant"
      PROVE  Answered(i)'
  <2>1. CASE i \in 1..Len(history)
    BY <2>1, <1>1, <1>3, AnsweredStays
  <2>2. CASE i \notin 1..Len(history)
    <3>1. i - Len(history) \in 1..Len(ms) /\ i = Len(history) + (i - Len(history))
      BY <2>2, <1>1
    <3>2. history'[i] = ms[i - Len(history)]
      BY <3>1, <1>1
    <3>3. QED
      BY <3>1, <3>2, <1>3
  <2>3. QED
    BY <2>1, <2>2
<1>4. QED
  BY <1>2, <1>3

LEMMA CallsAnsweredStep ==
    ASSUME TypeOK, CallsInv, [Next]_vars
    PROVE  CallsAnswered'
<1> DEFINE AllAnswered ==
             \A i \in DOMAIN history : history[i][1] = "assistant" => Answered(i)
<1>1. /\ Unopened /\ CallsAnswered /\ LastCalls /\ ResultsSoFar
      /\ history \in Seq(Messages) /\ Len(history) \in Nat
      /\ DOMAIN history = 1..Len(history)
  BY LenProperties DEF CallsInv, TypeOK
<1>2. pc \in Loop /\ ~ Awaited => AllAnswered
  BY <1>1 DEF CallsAnswered
<1>3. AllAnswered' => CallsAnswered'
  BY DEF CallsAnswered
<1> USE DEF Goes, Awaited, Loop
<1>4. CASE Silent
  BY <1>1, <1>4 DEF Silent, talk, CallsAnswered, Answered
<1>5. CASE Setup
  <2>1. history' = <<System, Prompt>>
    BY <1>1, <1>5, Opened
  <2>2. \A i \in DOMAIN (history') : history'[i][1] # "assistant"
    BY <2>1, SpecialEntries
  <2>3. QED
    BY <2>2 DEF CallsAnswered
<1>6. CASE TimesOut
  BY <1>6 DEF TimesOut, CallsAnswered
<1>7. CASE ModelAnswers
  <2>0. AllAnswered
    BY <1>2, <1>7 DEF ModelAnswers
  <2>1. PICK calls \in Batches :
          /\ Says(<<<<"assistant", AnswersSoFar + 1, calls>>>>)
          /\ pc' = IF calls = <<>> THEN "quiet" ELSE "dispatch"
    BY <1>7 DEF ModelAnswers
  <2> DEFINE m == <<"assistant", AnswersSoFar + 1, calls>>
             ms == <<m>>
  <2>2. ms \in Seq(Messages) /\ Len(ms) = 1 /\ ms[1] = m
    BY <1>7, AnswerIsMessage DEF ModelAnswers
  <2>3. m[3] = calls
    OBVIOUS
  <2> HIDE DEF m
  <2>4. /\ history' \in Seq(Messages) /\ Len(history') = Len(history) + 1
        /\ \A i \in 1..Len(history) : history'[i] = history[i]
        /\ history'[Len(history) + 1] = m
    <3>1. Says(ms)
      BY <2>1 DEF m
    <3> HIDE DEF ms
    <3>2. /\ history' \in Seq(Messages) /\ Len(history') = Len(history) + Len(ms)
          /\ \A i \in 1..Len(history) : history'[i] = history[i]
          /\ \A i \in 1..Len(ms) : history'[Len(history) + i] = ms[i]
      BY <2>2, <3>1, SaidIsAppended
    <3>3. 1 \in 1..Len(ms)
      BY <2>2
    <3>4. QED
      BY <2>2, <3>2, <3>3
  <2>5. DOMAIN (history') = 1..(Len(history) + 1)
    BY <2>4, <1>1, LenProperties
  <2>6. ASSUME NEW i \in 1..Len(history), history'[i][1] = "assistant"
        PROVE  Answered(i)'
    <3>1. Answered(i)
      BY <2>0, <2>4, <2>6, <1>1
    <3>2. Says(ms)
      BY <2>1 DEF m
    <3> HIDE DEF ms
    <3>3. QED
      BY <3>1, <3>2, <2>2, AnsweredStays
  <2>7. CASE calls = <<>>
    <3>2. ASSUME NEW i \in DOMAIN (history'), history'[i][1] = "assistant"
          PROVE  Answered(i)'
      <4>1. i \in 1..Len(history) \/ i = Len(history')
        BY <2>4, <2>5, <1>1
      <4>2. CASE i = Len(history')
        <5>1. \A k \in DOMAIN history'[i][3] : FALSE
          BY <2>3, <2>4, <2>7, <4>2
        <5>2. QED
          BY <5>1 DEF Answered
      <4>3. QED
        BY <4>1, <4>2, <2>6, <3>2
    <3>3. QED
      BY <3>2, <1>3
  <2>8. CASE calls # <<>>
    <3>1. Awaited'
      BY <2>1, <2>8
    <3>2. \A i \in DOMAIN (history') : i \in 1..Len(history) \/ i = Len(history')
      BY <2>4, <2>5, <1>1
    <3>3. QED
      BY <2>6, <3>1, <3>2 DEF CallsAnswered
  <2>9. QED
    BY <2>7, <2>8
<1>8. CASE AppendResults
  <2> DEFINE ms == ToolResults
             n == Len(history)
  <2>1. ms \in Seq(Messages) /\ Len(ms) = Len(Calls)
        /\ \A k \in 1..Len(Calls) : ms[k] = <<"tool", Turn, k>>
    BY <1>1, <1>8, ToolResultsInOrder DEF AppendResults
  <2>2. Says(ms)
    BY <1>8 DEF AppendResults, ToolResults
  <2>3. /\ history # <<>> /\ Last(history) = <<"assistant", Turn, Calls>>
        /\ DOMAIN Calls = 1..Len(Calls) /\ Len(Calls) \in Nat
    BY <1>1, <1>8, LastMessage, BoundsAreNat DEF AppendResults
  <2>4. n \in 1..Len(history) /\ history[n] = <<"assistant", Turn, Calls>>
    BY <2>3, <1>1, EmptySeq DEF Last
  <2> HIDE DEF ms
  <2>5. /\ history' \in Seq(Messages) /\ Len(history') = n + Len(Calls)
        /\ \A i \in 1..n : history'[i] = history[i]
        /\ \A k \in 1..Len(Calls) : history'[n + k] = <<"tool", Turn, k>>
    BY <2>1, <2>2, SaidIsAppended
  <2>6. DOMAIN (history') = 1..(n + Len(Calls))
    BY <2>3, <2>5, <1>1, LenProperties
  <2>7. \A k \in DOMAIN history'[n][3] :
           n + k \in DOMAIN (history') /\ history'[n + k] = <<"tool", history'[n][2], k>>
    <3>1. history'[n][3] = Calls /\ history'[n][2] = Turn
      BY <2>4, <2>5
    <3>2. \A k \in 1..Len(Calls) : n + k \in 1..(n + Len(Calls))
      BY <2>3, <1>1
    <3>3. QED
      BY <3>1, <3>2, <2>3, <2>5, <2>6
  <2>8. ASSUME NEW i \in 1..n, history'[i][1] = "assistant"
        PROVE  Answered(i)'
    <3>1. CASE i = n
      BY <3>1, <2>7 DEF Answered
    <3>2. CASE i # n
      <4>1. Answered(i)
        BY <3>2, <2>5, <2>8, <1>1, <1>8 DEF CallsAnswered, AppendResults
      <4>2. QED
        BY <4>1, <2>1, <2>2, AnsweredStays
    <3>3. QED
      BY <3>1, <3>2
  <2>9. ASSUME NEW i \in DOMAIN (history'), i \notin 1..n
        PROVE  history'[i][1] = "tool"
    <3>1. i - n \in 1..Len(Calls) /\ i = n + (i - n)
      BY <2>3, <2>6, <2>9, <1>1
    <3>2. history'[i] = <<"tool", Turn, i - n>>
      BY <3>1, <2>5
    <3>3. QED
      BY <3>2
  <2>10. AllAnswered'
    BY <2>8, <2>9
  <2>11. QED
    BY <2>10, <1>3
<1>9. CASE QuietReads
  <2>0. AllAnswered
    BY <1>2, <1>9 DEF QuietReads
  <2>1. CASE UNCHANGED talk
    BY <2>0, <2>1, <1>3 DEF talk, Answered
  <2>2. CASE Says(UserMessages(Texts(Readable)))
    <3> DEFINE ms == UserMessages(Texts(Readable))
    <3>1. ms \in Seq(Messages)
      BY NoticesAreMessages
    <3>2. \A i \in 1..Len(ms) : ms[i][1] # "assistant"
      <4>1. DOMAIN ms = 1..Len(ms)
        BY <3>1, LenProperties
      <4>2. QED
        BY <4>1 DEF UserMessages
    <3> HIDE DEF ms
    <3>3. \A i \in DOMAIN (history') : history'[i][1] = "assistant" => Answered(i)'
      <4>1. Says(ms)
        BY <2>2 DEF ms
      <4>2. \A i \in 1..Len(history) : history[i][1] = "assistant" => Answered(i)
        BY <2>0, <1>1
      <4>3. QED
        BY <3>1, <3>2, <4>1, <4>2, AllAnsweredStays
    <3>4. QED
      BY <3>3, <1>3
  <2>3. QED
    BY <1>9, <2>1, <2>2 DEF QuietReads
<1>10. CASE Compress
  <2>0. AllAnswered
    BY <1>2, <1>10 DEF Compress
  <2>1. PICK d \in 3..Len(history) :
          /\ Len(history') = Len(history) - d + 2
          /\ history'[1] = System /\ history'[2] = Summary
          /\ \A i \in 3..Len(history') : history'[i] = history[i + d - 2]
    BY <1>10, Compressed
  <2>2. history' \in Seq(Messages)
    BY <1>10, Compressed
  <2>3. Len(history') \in Nat /\ DOMAIN (history') = 1..Len(history')
    BY <2>2, LenProperties
  <2>4. ASSUME NEW i \in DOMAIN (history'), history'[i][1] = "assistant"
        PROVE  Answered(i)'
    <3>1. i # 1 /\ i # 2
      BY <2>1, <2>4, SpecialEntries
    <3>2. i \in 3..Len(history')
      BY <2>3, <3>1
    <3>3. history'[i] = history[i + d - 2]
      BY <2>1, <3>2
    <3>4. i + d - 2 \in DOMAIN history
      BY <2>1, <3>2, <1>1
    <3> DEFINE j == i + d - 2
    <3>5. Answered(j)
      BY <2>0, <2>4, <3>3, <3>4
    <3>6. ASSUME NEW k \in DOMAIN history'[i][3]
          PROVE  i + k \in DOMAIN (history')
                 /\ history'[i + k] = <<"tool", history'[i][2], k>>
      <4>1. j + k \in DOMAIN history /\ history[j + k] = <<"tool", history[j][2], k>>
        BY <3>3, <3>5 DEF Answered
      <4>2. k \in Nat \ {0}
        <5>1. history'[i] \in {"assistant"} \X (1..MaxTurns) \X Batches
          BY <2>2, <2>3, <2>4, ElementOfSeq, MessageKinds
        <5>2. history'[i][3] \in Batches
          BY <5>1
        <5>3. DOMAIN history'[i][3] = 1..Len(history'[i][3])
          BY <5>2, BatchIsSequence
        <5>4. QED
          BY <5>3
      <4>3. i + k \in 3..Len(history') /\ (i + k) + d - 2 = j + k
        <5> DEFINE n == Len(history)
                   l == Len(history')
        <5>1. /\ n \in Nat /\ l \in Nat /\ d \in 3..n /\ i \in 3..l
              /\ l = n - d + 2 /\ k \in Nat \ {0} /\ i + d - 2 + k \in 1..n
          BY <2>1, <2>3, <3>2, <4>1, <4>2, <1>1
        <5> HIDE DEF n, l
        <5>2. i + k \in 3..l /\ (i + k) + d - 2 = (i + d - 2) + k
          BY <5>1
        <5>3. QED
          BY <5>2 DEF l
      <4>4. history'[i + k] = history[j + k]
        BY <4>3, <2>1
      <4>5. i + k \in DOMAIN (history')
        BY <4>3, <2>3
      <4>6. QED
        BY <4>1, <4>4, <4>5, <3>3
    <3>7. QED
      BY <3>6 DEF Answered
  <2>5. QED
    BY <2>4, <1>3
<1>11. CASE LogDone
  BY <1>11 DEF LogDone, CallsAnswered
<1>12. QED
  BY <1>4, <1>5, <1>6, <1>7, <1>8, <1>9, <1>10, <1>11, SilentSteps DEF Talks

LEMMA LastCallsStep ==
    ASSUME TypeOK, CallsInv, [Next]_vars
    PROVE  LastCalls'
<1> USE DEF Goes, Awaited, Loop
<1>1. CASE Silent
  BY <1>1 DEF Silent, talk, LastCalls, CallsInv
<1>2. CASE ModelAnswers
  <2>1. PICK calls \in Batches :
          /\ Says(<<<<"assistant", AnswersSoFar + 1, calls>>>>)
          /\ pc' = IF calls = <<>> THEN "quiet" ELSE "dispatch"
    BY <1>2 DEF ModelAnswers
  <2> DEFINE m == <<"assistant", AnswersSoFar + 1, calls>>
             ms == <<m>>
  <2>2. ms \in Seq(Messages) /\ Len(ms) = 1 /\ ms[1] = m
    BY <1>2, AnswerIsMessage DEF ModelAnswers
  <2>3. m \in {"assistant"} \X (1..MaxTurns) \X Batches
    <3>1. AnswersSoFar + 1 \in 1..MaxTurns
      BY <1>2, CountOfAnswers, BoundsAreNat DEF ModelAnswers
    <3>2. QED
      BY <3>1
  <2>4. Says(ms)
    BY <2>1
  <2> HIDE DEF m, ms
  <2>5. /\ history' \in Seq(Messages) /\ Len(history) \in Nat
        /\ Len(history') = Len(history) + Len(ms)
        /\ \A i \in 1..Len(ms) : history'[Len(history) + i] = ms[i]
    BY <2>2, <2>4, SaidIsAppended
  <2>6. Len(history') = Len(history) + 1 /\ history'[Len(history) + 1] = m
    BY <2>2, <2>5
  <2>7. history' # <<>>
    BY <2>5, <2>6, EmptySeq
  <2>8. QED
    BY <2>3, <2>6, <2>7 DEF LastCalls, Last
<1>3. CASE Setup \/ TimesOut \/ AppendResults \/ QuietReads \/ Compress \/ LogDone
  BY <1>3 DEF LastCalls, Setup, TimesOut, AppendResults, QuietReads, Compress, LogDone
<1>4. QED
  BY <1>1, <1>2, <1>3, SilentSteps DEF Talks

\* While calls are made, the history rests, and results come in two ways.
LEMMA WhileCalling ==
    ASSUME [Next]_vars, pc' \in {"calling", "awaiting"}
    PROVE  /\ UNCHANGED history
           /\ \/ UNCHANGED results /\ pc \in {"calling", "awaiting"}
              \/ DispatchOneshots \/ ReadResponse
<1> USE DEF Goes, talk, marks
<1>1. CASE UNCHANGED vars
  BY <1>1 DEF vars
<1>2. CASE RunnerStep
  BY <1>2 DEF RunnerStep, LoopStep, WritePid, Setup, TimesOut, ModelAnswers, ModelFails,
     DispatchOneshots, CallServer, ReadResponse, AppendResults, QuietReads, QuietEnds,
     NextTurn, Compress, Finalize, LogDone, ToolsExited, Fails, Cleanup, Exit
<1>3. CASE ToolStep
  BY <1>3 DEF ToolStep, ToolServes, ToolExits, PlanAnswers
<1>4. CASE TimePasses
  BY <1>4 DEF TimePasses
<1>5. CASE Killed
  BY <1>5 DEF Killed
<1>6. CASE \E kind \in Lines : Inject(kind)
  BY <1>6 DEF Inject
<1>7. QED
  BY <1>1, <1>2, <1>3, <1>4, <1>5, <1>6 DEF Next

\* What DispatchOneshots answers: the calls of no tool and those of one-shot tools.
LEMMA DispatchedAtOnce ==
    ASSUME TypeOK, LastCalls, DispatchOneshots
    PROVE  /\ results' \in Seq(DOMAIN Calls)
           /\ \A i, j \in DOMAIN (results') : results'[i] = results'[j] => i = j
           /\ \A i \in DOMAIN Calls : Calls[i] \notin ServerTools => i \in Range(results')
<1> DEFINE D == DOMAIN Calls
           p == Positions({"nosuch"})
           q == Positions({"read"})
           r == results'
<1>1. Calls \in Batches
  BY LastMessage DEF Awaited, DispatchOneshots, Goes
<1>2. /\ p \in Seq(D) /\ Len(p) \in Nat /\ DOMAIN p = 1..Len(p)
      /\ \A k \in DOMAIN p : p[k] \in D /\ Calls[p[k]] \in {"nosuch"}
      /\ \A k, l \in DOMAIN p : p[k] = p[l] => k = l
      /\ \A i \in D : Calls[i] \in {"nosuch"} => \E k \in DOMAIN p : p[k] = i
  BY <1>1, PositionsInOrder
<1>3. /\ q \in Seq(D) /\ Len(q) \in Nat /\ DOMAIN q = 1..Len(q)
      /\ \A k \in DOMAIN q : q[k] \in D /\ Calls[q[k]] \in {"read"}
      /\ \A k, l \in DOMAIN q : q[k] = q[l] => k = l
      /\ \A i \in D : Calls[i] \in {"read"} => \E k \in DOMAIN q : q[k] = i
  BY <1>1, PositionsInOrder
<1>4. r = p \o q
  BY DEF DispatchOneshots, OneshotResults
<1> HIDE DEF p, q, r
<1>5. /\ r \in Seq(D) /\ Len(r) = Len(p) + Len(q)
      /\ \A i \in 1..Len(p) + Len(q) :
            r[i] = IF i <= Len(p) THEN p[i] ELSE q[i - Len(p)]
  BY <1>2, <1>3, <1>4, ConcatProperties
<1>6. DOMAIN r = 1..(Len(p) + Len(q))
  BY <1>5, LenProperties
<1>7. \A k \in 1..Len(p) : k \in DOMAIN r /\ r[k] = p[k]
  BY <1>2, <1>3, <1>5, <1>6
<1>8. ASSUME NEW k \in 1..Len(q)
      PROVE  Len(p) + k \in DOMAIN r /\ r[Len(p) + k] = q[k]
  <2>1. /\ Len(p) + k \in 1..Len(p) + Len(q) /\ ~ (Len(p) + k <= Len(p))
        /\ (Len(p) + k) - Len(p) = k
    BY <1>2, <1>3
  <2>2. r[Len(p) + k] = q[(Len(p) + k) - Len(p)]
    BY <2>1, <1>5
  <2>3. QED
    BY <2>1, <2>2, <1>6
<1>9. \A i \in DOMAIN r :
         \/ i \in 1..Len(p) /\ r[i] = p[i] /\ Calls[r[i]] = "nosuch"
         \/ i - Len(p) \in 1..Len(q) /\ r[i] = q[i - Len(p)] /\ Calls[r[i]] = "read"
  <2>1. \A i \in DOMAIN r : i \in 1..Len(p) \/ (~ (i <= Len(p)) /\ i - Len(p) \in 1..Len(q))
    BY <1>2, <1>3, <1>6
  <2>2. QED
    BY <2>1, <1>2, <1>3, <1>5, <1>6
<1>10. ASSUME NEW i \in DOMAIN r, NEW j \in DOMAIN r, r[i] = r[j]
       PROVE  i = j
  <2>1. CASE Calls[r[i]] = "nosuch"
    <3>1. i \in 1..Len(p) /\ j \in 1..Len(p) /\ p[i] = p[j]
      BY <2>1, <1>9, <1>10
    <3>2. QED
      BY <3>1, <1>2
  <2>2. CASE Calls[r[i]] # "nosuch"
    <3>1. /\ i - Len(p) \in 1..Len(q) /\ j - Len(p) \in 1..Len(q)
          /\ q[i - Len(p)] = q[j - Len(p)]
      BY <2>2, <1>9, <1>10
    <3>2. i - Len(p) = j - Len(p)
      BY <3>1, <1>3
    <3>3. QED
      BY <3>2, <1>2, <1>6
  <2>3. QED
    BY <2>1, <2>2
<1>11. ASSUME NEW i \in D, Calls[i] \notin ServerTools
       PROVE  i \in Range(r)
  <2>1. Calls[i] \in Tools
    BY <1>1, BatchIsSequence, ElementOfSeq
  <2>2. Calls[i] = "nosuch" \/ Calls[i] = "read"
    BY <2>1, <1>11, ToolsKnown
  <2>3. \E k \in DOMAIN r : r[k] = i
    BY <2>2, <1>2, <1>3, <1>7, <1>8
  <2>4. QED
    BY <2>3 DEF Range
<1>12. QED
  BY <1>5, <1>10, <1>11 DEF r

LEMMA ResultsSoFarStep ==
    ASSUME TypeOK, CallsInv, [Next]_vars
    PROVE  ResultsSoFar'
<1> SUFFICES ASSUME pc' \in {"calling", "awaiting"}
             PROVE  /\ results' \in Seq(DOMAIN Calls)
                    /\ \A i, j \in DOMAIN (results') : results'[i] = results'[j] => i = j
                    /\ \A i \in DOMAIN Calls :
                          Calls[i] \notin ServerTools => i \in Range(results')
  BY WhileCalling DEF ResultsSoFar, Calls
<1>1. LastCalls /\ ResultsSoFar /\ OneUnderWay
  BY DEF CallsInv
<1>2. CASE UNCHANGED results /\ pc \in {"calling", "awaiting"}
  BY <1>1, <1>2 DEF ResultsSoFar
<1>3. CASE DispatchOneshots
  BY <1>1, <1>3, DispatchedAtOnce
<1>4. CASE ReadResponse
  <2> DEFINE w == wire[2]
             D == DOMAIN Calls
  <2>1. /\ results \in Seq(D)
        /\ \A i, j \in DOMAIN results : results[i] = results[j] => i = j
        /\ \A i \in D : Calls[i] \notin ServerTools => i \in Range(results)
    BY <1>1, <1>4 DEF ReadResponse, Goes, ResultsSoFar
  <2>2. w \in D /\ w \notin Range(results)
    BY <1>1, <1>4 DEF ReadResponse, Goes, OneUnderWay, Unsent
  <2>3. results' = Append(results, w)
    BY <1>4 DEF ReadResponse
  <2> HIDE DEF w, D
  <2>4. /\ results' \in Seq(D) /\ Len(results') = Len(results) + 1
        /\ \A i \in 1..Len(results) : results'[i] = results[i]
        /\ results'[Len(results) + 1] = w
    BY <2>1, <2>2, <2>3, AppendProperties
  <2>5. /\ DOMAIN results = 1..Len(results) /\ Len(results) \in Nat
        /\ DOMAIN (results') = 1..(Len(results) + 1)
    BY <2>1, <2>4, LenProperties
  <2>6. \A i \in DOMAIN results : results[i] # w
    BY <2>2 DEF Range
  <2>7. \A i \in DOMAIN (results') : i \in DOMAIN results \/ i = Len(results) + 1
    BY <2>5
  <2>8. \A i, j \in DOMAIN (results') : results'[i] = results'[j] => i = j
    BY <2>1, <2>4, <2>5, <2>6, <2>7
  <2>9. \A i \in DOMAIN results : i \in DOMAIN (results') /\ results'[i] = results[i]
    BY <2>4, <2>5
  <2>10. Range(results) \subseteq Range(results')
    BY <2>9 DEF Range
  <2>11. QED
    BY <2>1, <2>4, <2>8, <2>10 DEF D
<1>5. QED
  BY <1>2, <1>3, <1>4, WhileCalling

LEMMA OneUnderWayStep ==
    ASSUME TypeOK, CallsInv, [Next]_vars
    PROVE  OneUnderWay'
<1> SUFFICES ASSUME pc' = "awaiting"
             PROVE  wire'[2] \in Unsent'
  BY DEF OneUnderWay
<1>1. LastCalls /\ OneUnderWay
  BY DEF CallsInv
<1> USE DEF Goes, talk, marks, channels
<1>2. UNCHANGED <<history, results>>
  BY WhileCalling DEF DispatchOneshots, ReadResponse
<1>3. Unsent' = Unsent
  BY <1>2 DEF Unsent, Calls, Last
<1>4. CASE CallServer
  <2>1. DOMAIN Calls = 1..Len(Calls) /\ Unsent # {}
    BY <1>1, <1>4, LastMessage DEF Awaited, CallServer
  <2>2. Unsent \subseteq Nat
    BY <2>1 DEF Unsent
  <2>3. Min(Unsent) \in Unsent
    BY <2>1, <2>2, LeastNumber DEF Min
  <2>4. wire'[2] = Min(Unsent)
    BY <1>4 DEF CallServer, Request
  <2>5. QED
    BY <2>3, <2>4, <1>3
<1>5. CASE ~ CallServer
  <2>1. pc = "awaiting" /\ wire'[2] = wire[2]
    <3>1. CASE RunnerStep
      BY <3>1, <1>5 DEF RunnerStep, LoopStep, WritePid, Setup, TimesOut, ModelAnswers, ModelFails,
         DispatchOneshots, ReadResponse, AppendResults, QuietReads, QuietEnds,
         NextTurn, Compress, Finalize, LogDone, ToolsExited, Fails, Cleanup, Exit
    <3>2. CASE ToolServes \/ PlanAnswers
      <4>1. wire' = wire \/ \E end \in BOOLEAN : wire' = <<"response", wire[2], end>>
        BY <3>2 DEF ToolServes, PlanAnswers, Response
      <4>2. pc = "awaiting"
        BY <3>2 DEF ToolServes, PlanAnswers
      <4>3. wire'[2] = wire[2]
        BY <4>1
      <4>4. QED
        BY <4>2, <4>3
    <3>3. CASE ToolExits \/ TimePasses \/ Killed \/ UNCHANGED vars
      BY <3>3 DEF ToolExits, TimePasses, Killed, vars
    <3>4. CASE \E kind \in Lines : Inject(kind)
      BY <3>4 DEF Inject
    <3>5. QED
      BY <3>1, <3>2, <3>3, <3>4 DEF Next, ToolStep
  <2>2. QED
    BY <2>1, <1>1, <1>3 DEF OneUnderWay
<1>6. QED
  BY <1>4, <1>5

LEMMA CallsStep ==
    ASSUME TypeOK, CallsInv, [Next]_vars
    PROVE  CallsInv'
  BY UnopenedStep, CallsAnsweredStep, LastCallsStep, ResultsSoFarStep, OneUnderWayStep
     DEF CallsInv

---------------------------------------------------------------------------
(* The log and the history. *)

\* What is said is at the end of both.
LEMMA FollowsSaid ==
    ASSUME TypeOK, NEW ms \in Seq(Messages), Says(ms), Len(history) >= 2,
           history[1] = System, NEW n \in 1..Len(log), Follows(n)
    PROVE  Transcribed'
<1> DEFINE l == Len(history)
           m == Len(log)
           a == Len(ms)
           f == First
<1>1. /\ l \in Nat /\ m \in Nat /\ a \in Nat
      /\ Len(history') = l + a /\ Len(log') = m + a
      /\ \A i \in 1..l : history'[i] = history[i]
      /\ \A i \in 1..m : log'[i] = log[i]
      /\ \A i \in 1..a : history'[l + i] = ms[i] /\ log'[m + i] = ms[i]
  BY SaidIsAppended
<1>2. history'[1] = System /\ history'[2] = history[2]
  <2>1. 1 \in 1..l /\ 2 \in 1..l
    BY <1>1
  <2> HIDE DEF l
  <2>2. QED
    BY <2>1, <1>1
<1>3. First' = f /\ f \in {2, 3}
  BY <1>2 DEF First
<1>4. l - (f - 1) = m - n /\ \A i \in f..l : history[i] = log[i - (f - 1) + n]
  BY DEF Follows
<1>5. n \in Nat /\ n >= 1 /\ n <= m
  BY <1>1
<1> HIDE DEF l, m, a, f
<1>6. ASSUME NEW i \in f..(l + a)
      PROVE  history'[i] = log'[i - (f - 1) + n]
  <2>1. CASE i <= l
    <3>1. i \in 1..l /\ i \in f..l /\ i - (f - 1) + n \in 1..m
      BY <2>1, <1>1, <1>3, <1>4, <1>5
    <3>2. QED
      BY <3>1, <1>1, <1>4
  <2>2. CASE ~ (i <= l)
    <3>1. i - l \in 1..a /\ l + (i - l) = i /\ m + (i - l) = i - (f - 1) + n
      BY <2>2, <1>1, <1>3, <1>4, <1>5
    <3>2. history'[l + (i - l)] = ms[i - l] /\ log'[m + (i - l)] = ms[i - l]
      BY <3>1, <1>1
    <3>3. QED
      BY <3>1, <3>2
  <2>3. QED
    BY <2>1, <2>2
<1>7. Len(history') - (First' - 1) = Len(log') - n
  BY <1>1, <1>3, <1>4, <1>5
<1>8. Follows(n)'
  BY <1>1, <1>3, <1>6, <1>7 DEF Follows
<1>9. n \in 1..Len(log') /\ Len(history') >= 2
  BY <1>1, <1>5 DEF l
<1>10. QED
  BY <1>2, <1>8, <1>9 DEF Transcribed

\* After a compression the history begins later in the log.
LEMMA FollowsCompressed ==
    ASSUME TypeOK, Compress, NEW n \in 1..Len(log), Follows(n)
    PROVE  Transcribed'
<1> DEFINE l == Len(history)
           m == Len(log)
           f == First
<1>1. PICK d \in 3..l :
        /\ Len(history') = l - d + 2
        /\ history'[1] = System /\ history'[2] = Summary
        /\ \A i \in 3..Len(history') : history'[i] = history[i + d - 2]
  BY Compressed
<1>2. log' = log /\ l \in Nat
  BY Compressed
<1>3. m \in Nat
  BY LenProperties DEF TypeOK
<1>4. First' = 3 /\ f \in {2, 3}
  BY <1>1 DEF First
<1>5. l - (f - 1) = m - n /\ \A i \in f..l : history[i] = log[i - (f - 1) + n]
  BY DEF Follows
<1> HIDE DEF l, m, f
<1>6. m - (l - d) \in 1..m /\ n \in Nat
  BY <1>1, <1>2, <1>3, <1>4, <1>5 DEF m
<1>7. PICK p \in 1..m : p = m - (l - d)
  BY <1>6
<1>8. ASSUME NEW i \in 3..Len(history')
      PROVE  history'[i] = log[i - 2 + p]
  <2>1. i + d - 2 \in f..l /\ (i + d - 2) - (f - 1) + n = i - 2 + p
    BY <1>1, <1>2, <1>3, <1>4, <1>5, <1>6, <1>7
  <2>2. history[i + d - 2] = log[(i + d - 2) - (f - 1) + n]
    BY <2>1, <1>5
  <2>3. QED
    BY <1>1, <2>1, <2>2
<1>9. Len(history') - 2 = m - p /\ Len(history') >= 2
  BY <1>1, <1>2, <1>3, <1>7
<1>10. Follows(p)'
  <2>1. Len(history') - (First' - 1) = Len(log') - p
    BY <1>2, <1>4, <1>9 DEF m
  <2>2. \A i \in First'..Len(history') : history'[i] = log'[i - (First' - 1) + p]
    BY <1>2, <1>4, <1>8
  <2>3. QED
    BY <2>1, <2>2 DEF Follows
<1>11. p \in 1..Len(log')
  BY <1>2 DEF m
<1>12. QED
  BY <1>1, <1>9, <1>10, <1>11 DEF Transcribed

LEMMA TranscribedStep ==
    ASSUME TypeOK, CallsInv, Transcribed, [Next]_vars
    PROVE  Transcribed'
<1> USE DEF Goes, Loop
<1>0. \A ms \in Seq(Messages) : Says(ms) /\ pc \in Loop => Transcribed'
  <2> SUFFICES ASSUME NEW ms \in Seq(Messages), Says(ms), pc \in Loop
               PROVE  Transcribed'
    OBVIOUS
  <2>1. /\ Len(history) >= 2 /\ history[1] = System
        /\ \E n \in 1..Len(log) : Follows(n)
    BY DEF Transcribed
  <2>2. QED
    BY <2>1, FollowsSaid
<1>1. CASE Silent
  BY <1>1 DEF Silent, talk, Transcribed, Follows, First
<1>2. CASE Setup
  <2>1. history' = <<System, Prompt>> /\ log' = <<System, Prompt>>
    BY <1>2, Opened DEF CallsInv
  <2>2. First' = 2
    BY <2>1 DEF First, Summary, Prompt
  <2>3. Len(history') = 2 /\ Len(log') = 2 /\ history'[2] = Prompt /\ log'[2] = Prompt
        /\ history'[1] = System
    BY <2>1
  <2>4. Follows(1)'
    <3>1. Len(history') - (First' - 1) = Len(log') - 1
      BY <2>2, <2>3
    <3>2. \A i \in First'..Len(history') : history'[i] = log'[i - (First' - 1) + 1]
      BY <2>2, <2>3
    <3>3. QED
      BY <3>1, <3>2 DEF Follows
  <2>5. QED
    BY <2>3, <2>4 DEF Transcribed
<1>3. CASE ModelAnswers
  BY <1>3, <1>0, AnswerIsMessage DEF ModelAnswers
<1>4. CASE AppendResults
  <2>1. Says(ToolResults) /\ ToolResults \in Seq(Messages)
    BY <1>4, ToolResultsInOrder DEF AppendResults, ToolResults, CallsInv
  <2>2. QED
    BY <2>1, <1>0, <1>4 DEF AppendResults
<1>5. CASE QuietReads
  <2>1. CASE UNCHANGED talk
    BY <2>1, <1>5 DEF QuietReads, talk, Transcribed, Follows, First
  <2>2. CASE Says(UserMessages(Texts(Readable)))
    BY <2>2, <1>0, <1>5, NoticesAreMessages DEF QuietReads
  <2>3. QED
    BY <2>1, <2>2, <1>5 DEF QuietReads
<1>6. CASE Compress
  <2>1. \E n \in 1..Len(log) : Follows(n)
    BY <1>6 DEF Compress, Transcribed
  <2>2. QED
    BY <2>1, <1>6, FollowsCompressed
<1>7. CASE TimesOut \/ LogDone
  BY <1>7 DEF TimesOut, LogDone, Transcribed
<1>8. QED
  BY <1>1, <1>2, <1>3, <1>4, <1>5, <1>6, <1>7, SilentSteps DEF Talks

---------------------------------------------------------------------------
(* Events. *)

\* The order of the events heard, and that all up to the last one read are heard or lost,
\* give EventsInOrder.
LEMMA HeardInOrder ==
    ASSUME EventsRead, fifo \in Seq(DOMAIN sent), Len(sent) \in Nat,
           \A i, j \in Told : i < j => log[i][2] < log[j][2],
           \A i \in Told : IsText(log[i][2])
    PROVE  EventsInv
<1>1. Len(fifo) \in Nat
  BY LenProperties
<1>2. Read \in Nat
  BY <1>1 DEF EventsRead, Read
<1>3. ASSUME NEW i \in Told, NEW e \in 1..(log[i][2] - 1), IsText(e)
      PROVE  Heard(e) \/ LostBehindBad(e)
  <2>1. log[i][2] \in 1..Read
    BY DEF EventsRead
  <2>2. e \in 1..Read
    BY <2>1, <1>2
  <2>3. QED
    BY <2>2, <1>3 DEF EventsRead
<1>4. QED
  BY <1>3 DEF EventsInv, EventsInOrder

\* The counts of events, and where those that are not read stand.
LEMMA EventsCounted ==
    ASSUME TypeOK, EventsInv
    PROVE  /\ sent \in Seq(Written \cup {"torn"})
           /\ Len(sent) \in Nat /\ DOMAIN sent = 1..Len(sent)
           /\ fifo \in Seq(DOMAIN sent)
           /\ Len(fifo) \in Nat /\ DOMAIN fifo = 1..Len(fifo)
           /\ Read \in Nat /\ Len(sent) = Read + Len(fifo)
           /\ \A k \in 1..Len(fifo) : fifo[k] = Read + k
<1>1. /\ sent \in Seq(Written \cup {"torn"})
      /\ Len(sent) \in Nat /\ DOMAIN sent = 1..Len(sent)
      /\ fifo \in Seq(DOMAIN sent)
      /\ Len(fifo) \in Nat /\ DOMAIN fifo = 1..Len(fifo)
  BY SentIsSequence, LenProperties DEF TypeOK
<1>2. Read >= 0 /\ Read = Len(sent) - Len(fifo)
  BY DEF EventsInv, EventsRead, Read
<1>3. Read \in Nat /\ Len(sent) = Read + Len(fifo)
  BY <1>1, <1>2
<1>4. \A k \in 1..Len(fifo) : fifo[k] = Read + k
  BY <1>1 DEF EventsInv, EventsRead
<1>5. QED
  BY <1>1, <1>3, <1>4

\* What was heard or lost stays so when only later events are heard.
LEMMA HeardStays ==
    ASSUME Read \in Nat, \A e \in 1..Read : sent'[e] = sent[e],
           \A i \in Told : i \in Told' /\ log'[i] = log[i],
           \A i \in Told' : i \in Told \/ log'[i][2] \notin 1..Read
    PROVE  \A e \in 1..Read :
              /\ IsText(e)' <=> IsText(e)
              /\ Heard(e)' <=> Heard(e)
              /\ LostBehindBad(e) => LostBehindBad(e)'
<1>1. ASSUME NEW e \in 1..Read
      PROVE  /\ IsText(e)' <=> IsText(e)
             /\ Heard(e)' <=> Heard(e)
  BY DEF IsText, Heard
<1>2. ASSUME NEW e \in 1..Read, LostBehindBad(e)
      PROVE  LostBehindBad(e)'
  <2>1. PICK b \in 1..e : sent[b] = "bad" /\ \A x \in b..e : ~ Heard(x)
    BY <1>2 DEF LostBehindBad
  <2>2. b \in 1..Read /\ \A x \in b..e : x \in 1..Read
    OBVIOUS
  <2>3. sent'[b] = "bad" /\ \A x \in b..e : ~ Heard(x)'
    BY <1>1, <2>1, <2>2
  <2>4. QED
    BY <2>3 DEF LostBehindBad
<1>3. QED
  BY <1>1, <1>2

\* Nothing heard, and nothing changed among what was read: the events are as they were.
LEMMA EventsKept ==
    ASSUME EventsInv, Read \in Nat, Read' = Read,
           Told' = Told, \A i \in Told : log'[i] = log[i],
           \A e \in 1..Read : sent'[e] = sent[e],
           \A k \in DOMAIN (fifo') : fifo'[k] = Read + k
    PROVE  EventsInv'
<1>1. /\ \A i \in Told : log[i][2] \in 1..Read /\ IsText(log[i][2])
      /\ \A i, j \in Told : i < j => log[i][2] < log[j][2]
      /\ \A e \in 1..Read : IsText(e) => Heard(e) \/ LostBehindBad(e)
  BY DEF EventsInv, EventsInOrder, EventsRead
<1>2. \A e \in 1..Read :
         /\ IsText(e)' <=> IsText(e)
         /\ Heard(e)' <=> Heard(e)
         /\ LostBehindBad(e) => LostBehindBad(e)'
  BY HeardStays
<1>3. \A e \in 1..Read : IsText(e)' => Heard(e)' \/ LostBehindBad(e)'
  BY <1>1, <1>2
<1>4. EventsRead'
  BY <1>1, <1>3 DEF EventsInv, EventsRead
<1>5. ASSUME NEW i \in Told'
      PROVE  log'[i] = log[i] /\ log[i][2] \in 1..Read /\ IsText(log[i][2])'
  <2>1. log'[i] = log[i] /\ log[i][2] \in 1..Read /\ IsText(log[i][2])
    BY <1>1
  <2>2. sent'[log[i][2]] = sent[log[i][2]]
    BY <2>1
  <2>3. QED
    BY <2>1, <2>2 DEF IsText
<1>6. \A i \in Told' : IsText(log[i][2])'
  <2>1. \A i \in Told' : sent'[log'[i][2]] \in {"text", "torn"}
    BY <1>5 DEF IsText
  <2>2. QED
    BY <2>1 DEF IsText
<1>7. \A i, j \in Told' : i < j => log'[i][2] < log'[j][2]
  BY <1>1
<1>8. ASSUME NEW i \in Told', NEW e \in 1..(log'[i][2] - 1)
      PROVE  IsText(e)' => Heard(e)' \/ LostBehindBad(e)'
  <2>1. log'[i][2] \in 1..Read
    BY <1>5
  <2>2. e \in 1..Read
    BY <2>1
  <2>3. QED
    BY <2>2, <1>3
<1>9. EventsInOrder'
  BY <1>6, <1>7, <1>8 DEF EventsInOrder
<1>10. QED
  BY <1>4, <1>9 DEF EventsInv

\* Said or logged, what is no event leaves the events as they are.
LEMMA NothingHeard ==
    ASSUME TypeOK, EventsInv, UNCHANGED <<sent, fifo>>,
           NEW a \in Nat, Len(log') = Len(log) + a,
           log' \in Seq(Messages \cup {Error, Done}),
           \A i \in 1..Len(log) : log'[i] = log[i],
           \A i \in 1..a :
              log'[Len(log) + i][1] # "user" \/ log'[Len(log) + i] = Prompt
    PROVE  EventsInv'
<1>1. /\ DOMAIN log = 1..Len(log) /\ Len(log) \in Nat
      /\ DOMAIN (log') = 1..Len(log')
  BY LenProperties DEF TypeOK
<1>2. ASSUME NEW i
      PROVE  i \in Told' <=> i \in Told
  <2>1. CASE i \in 1..Len(log)
    <3>1. i \in 1..Len(log') /\ log'[i] = log[i]
      BY <2>1, <1>1
    <3>2. QED
      BY <2>1, <3>1, <1>1 DEF Told
  <2>2. CASE i \in 1..Len(log') /\ i \notin 1..Len(log)
    <3>1. i - Len(log) \in 1..a /\ Len(log) + (i - Len(log)) = i
      BY <2>2, <1>1
    <3>2. log'[i][1] # "user" \/ log'[i] = Prompt
      BY <3>1
    <3>3. QED
      BY <2>2, <3>2, <1>1 DEF Told
  <2>3. CASE i \notin 1..Len(log') /\ i \notin 1..Len(log)
    BY <2>3, <1>1 DEF Told
  <2>4. QED
    BY <2>1, <2>2, <2>3
<1>3. Told' = Told
  BY <1>2
<1>4. \A i \in Told : log'[i] = log[i]
  BY <1>1 DEF Told
<1>5. Read' = Read
  BY DEF Read
<1>6. Read \in Nat /\ \A k \in DOMAIN (fifo') : fifo'[k] = Read + k
  BY EventsCounted
<1>7. QED
  BY <1>3, <1>4, <1>5, <1>6, EventsKept

\* A new event is behind those not read.
LEMMA EventIsLast ==
    ASSUME TypeOK, EventsInv, NEW kind \in Lines, Inject(kind)
    PROVE  EventsInv'
<1> DEFINE K == Written \cup {"torn"}
<1>1. /\ sent \in Seq(K) /\ Len(sent) \in Nat /\ DOMAIN sent = 1..Len(sent)
      /\ fifo \in Seq(DOMAIN sent) /\ Len(fifo) \in Nat /\ DOMAIN fifo = 1..Len(fifo)
      /\ Read \in Nat /\ Len(sent) = Read + Len(fifo)
      /\ \A k \in 1..Len(fifo) : fifo[k] = Read + k
  BY EventsCounted
<1>2. kind \in K /\ log' = log
  <2>1. kind \in K
    BY LinesKnown
  <2>2. log' = log
    BY DEF Inject, talk
  <2>3. QED
    BY <2>1, <2>2
<1>3. sent' = Append(sent, kind) /\ fifo' = Append(fifo, Len(sent) + 1)
  BY DEF Inject, WriteToFifo
<1> HIDE DEF K
<1>4. Told' = Told /\ \A i \in Told : log'[i] = log[i]
  BY <1>2 DEF Told
<1>5. /\ Len(sent') = Len(sent) + 1
      /\ \A e \in 1..Len(sent) : sent'[e] = sent[e]
  <2>1. sent \in Seq(K) /\ kind \in K /\ sent' = Append(sent, kind)
    BY <1>1, <1>2, <1>3
  <2>2. QED
    BY <2>1, AppendProperties
<1> DEFINE E == 1..(Len(sent) + 1)
<1>6. fifo \in Seq(E) /\ Len(sent) + 1 \in E
  <2>1. DOMAIN sent \subseteq E
    BY <1>1
  <2>2. QED
    BY <2>1, <1>1, SeqMonotonic
<1> HIDE DEF E
<1>7. /\ fifo' \in Seq(E) /\ Len(fifo') = Len(fifo) + 1
      /\ \A k \in 1..Len(fifo) : fifo'[k] = fifo[k]
      /\ fifo'[Len(fifo) + 1] = Len(sent) + 1
  BY <1>3, <1>6, AppendProperties
<1>8. DOMAIN (fifo') = 1..(Len(fifo) + 1)
  BY <1>7, LenProperties
<1>9. Read' = Read
  BY <1>1, <1>5, <1>7 DEF Read
<1>10. \A e \in 1..Read : sent'[e] = sent[e]
  BY <1>1, <1>5
<1>11. \A k \in DOMAIN (fifo') : fifo'[k] = Read + k
  <2>1. \A k \in DOMAIN (fifo') : k \in 1..Len(fifo) \/ k = Len(fifo) + 1
    BY <1>1, <1>8
  <2>2. Read + (Len(fifo) + 1) = Len(sent) + 1
    BY <1>1
  <2>3. \A k \in 1..Len(fifo) : fifo'[k] = Read + k
    BY <1>1, <1>7
  <2>4. fifo'[Len(fifo) + 1] = Read + (Len(fifo) + 1)
    BY <1>7, <2>2
  <2>5. QED
    BY <2>1, <2>3, <2>4
<1>12. QED
  BY <1>1, <1>4, <1>9, <1>10, <1>11, EventsKept

\* What a reader adds to the log: the texts of what it can read, which may be none.
LEMMA EventsLogged ==
    ASSUME TypeOK, QuietReads,
           NEW at, Len(at) \in Nat, Len(Texts(Readable)) = Len(at),
           Texts(Readable) \in Seq(DOMAIN sent),
           \A k \in 1..Len(at) : Texts(Readable)[k] = Readable[at[k]]
    PROVE  /\ log' \in Seq(Messages \cup {Error, Done}) /\ Len(log) \in Nat
           /\ Len(log') = Len(log) + Len(at)
           /\ \A i \in 1..Len(log) : log'[i] = log[i]
           /\ \A k \in 1..Len(at) : log'[Len(log) + k] = <<"user", Readable[at[k]]>>
<1> DEFINE t == Texts(Readable)
           ms == UserMessages(t)
<1>1. CASE t = <<>>
  <2>1. log' = log /\ Len(at) = 0
    BY <1>1 DEF QuietReads, talk
  <2>2. log \in Seq(Messages \cup {Error, Done}) /\ Len(log) \in Nat
    BY LenProperties DEF TypeOK
  <2>3. QED
    BY <2>1, <2>2
<1>2. CASE t # <<>>
  <2>1. Says(ms) /\ ms \in Seq(Messages)
    BY <1>2, NoticesAreMessages DEF QuietReads
  <2>2. DOMAIN t = 1..Len(at)
    BY LenProperties
  <2>3. ms = [k \in 1..Len(at) |-> <<"user", t[k]>>]
    BY <2>2 DEF UserMessages
  <2>4. DOMAIN ms = 1..Len(at)
    BY <2>3
  <2>5. Len(ms) = Len(at)
    BY <2>1, <2>4, LenProperties
  <2> HIDE DEF ms
  <2>6. /\ log' \in Seq(Messages \cup {Error, Done}) /\ Len(log) \in Nat
        /\ Len(log') = Len(log) + Len(ms)
        /\ \A i \in 1..Len(log) : log'[i] = log[i]
        /\ \A k \in 1..Len(ms) : log'[Len(log) + k] = ms[k]
    BY <2>1, SaidIsAppended
  <2>7. \A k \in 1..Len(at) : ms[k] = <<"user", Readable[at[k]]>>
    BY <2>3
  <2>8. QED
    BY <2>5, <2>6, <2>7
<1>3. QED
  BY <1>1, <1>2

\* A reader hears the texts up to the first line that is no UTF-8, and loses what it took of
\* the rest.
LEMMA EventsHeard ==
    ASSUME TypeOK, EventsInv, QuietReads
    PROVE  EventsInv'
<1>1. /\ Readable \in Seq(DOMAIN sent) /\ Len(Readable) \in 0..Len(fifo)
      /\ \A k \in 1..Len(Readable) : Readable[k] = fifo[k]
      /\ Len(Readable) < Len(fifo) => sent[fifo[Len(Readable) + 1]] = "bad"
  BY ReadableIsPrefix
<1>2. PICK at :
        /\ at \in Seq(1..Len(Readable))
        /\ Len(at) \in Nat
        /\ \A k, l \in 1..Len(at) : k < l => at[k] < at[l]
        /\ \A k \in 1..Len(at) : at[k] \in 1..Len(Readable) /\ IsText(Readable[at[k]])
        /\ \A i \in 1..Len(Readable) :
              IsText(Readable[i]) => \E k \in 1..Len(at) : at[k] = i
        /\ Texts(Readable) \in Seq(DOMAIN sent)
        /\ Len(Texts(Readable)) = Len(at)
        /\ \A k \in 1..Len(at) : Texts(Readable)[k] = Readable[at[k]]
  BY <1>1, TextsInOrder
<1>3. PICK c \in Len(Readable)..Len(fifo) :
        /\ Len(fifo') = Len(fifo) - c /\ DOMAIN (fifo') = 1..(Len(fifo) - c)
        /\ \A k \in 1..(Len(fifo) - c) : fifo'[k] = fifo[c + k]
        /\ Len(sent') = Len(sent)
        /\ \A e \in DOMAIN sent : sent'[e] = sent[e] \/ (c < Len(fifo) /\ e = fifo[c + 1])
  BY Drained DEF QuietReads
<1> DEFINE n == Len(log)
           a == Len(at)
           m == Len(Readable)
           f == Len(fifo)
           r == Read
<1>4. /\ log' \in Seq(Messages \cup {Error, Done}) /\ n \in Nat
      /\ Len(log') = n + a
      /\ \A i \in 1..n : log'[i] = log[i]
      /\ \A k \in 1..a : log'[n + k] = <<"user", Readable[at[k]]>>
  BY <1>2, EventsLogged
<1>5. DOMAIN (log') = 1..(n + a) /\ DOMAIN log = 1..n
  BY <1>4, LenProperties DEF TypeOK
<1>6. /\ Len(sent) = r + f /\ DOMAIN sent = 1..(r + f)
      /\ r \in Nat /\ f \in Nat /\ m \in 0..f /\ a \in Nat /\ c \in m..f
      /\ \A k \in 1..f : fifo[k] = r + k
  BY <1>1, <1>2, <1>3, EventsCounted
<1>7. /\ \A i \in Told : log[i][2] \in 1..r /\ IsText(log[i][2])
      /\ \A i, j \in Told : i < j => log[i][2] < log[j][2]
      /\ \A e \in 1..r : IsText(e) => Heard(e) \/ LostBehindBad(e)
  BY DEF EventsInv, EventsRead, EventsInOrder
<1>8. Read' = r + c
  <2>1. Read' = Len(sent') - Len(fifo')
    BY DEF Read
  <2>2. QED
    BY <2>1, <1>3, <1>6
<1>9. \A e \in 1..(r + c) : e \in DOMAIN sent /\ sent'[e] = sent[e]
  <2>1. \A e \in 1..(r + c) : e \in 1..(r + f) /\ e # r + (c + 1)
    BY <1>6
  <2>2. c < f => fifo[c + 1] = r + (c + 1)
    BY <1>6
  <2>3. QED
    BY <2>1, <2>2, <1>3, <1>6
<1>10. m < f => sent[r + (m + 1)] = "bad"
  <2>1. m < f => m + 1 \in 1..f
    BY <1>6
  <2>2. QED
    BY <2>1, <1>1, <1>6
<1>11. \A k \in 1..m : Readable[k] = r + k
  BY <1>1, <1>6
<1> HIDE DEF n, a, m, f, r
<1>12. \A k \in 1..a : log'[n + k] = <<"user", r + at[k]>> /\ IsText(r + at[k])
                       /\ at[k] \in 1..m
  BY <1>2, <1>4, <1>11 DEF a, m
<1>13. \A i \in Told : i \in 1..n /\ i \in Told' /\ log'[i] = log[i]
  <2>1. \A i \in 1..n : i \in 1..(n + a)
    BY <1>4, <1>6
  <2>2. QED
    BY <2>1, <1>4, <1>5 DEF Told
<1>14. ASSUME NEW k \in 1..a
       PROVE  n + k \in Told' /\ log'[n + k][2] = r + at[k]
  <2>1. n + k \in 1..(n + a)
    BY <1>4, <1>6
  <2>2. log'[n + k] = <<"user", r + at[k]>> /\ r + at[k] > 0
    BY <1>6, <1>12
  <2>3. log'[n + k] # Prompt /\ log'[n + k][1] = "user"
    BY <2>2 DEF Prompt
  <2>4. n + k \in Told'
    BY <2>1, <2>3, <1>5 DEF Told
  <2>5. log'[n + k][2] = r + at[k]
    BY <2>2
  <2>6. QED
    BY <2>4, <2>5
<1>15. ASSUME NEW i \in Told'
       PROVE  i \in Told \/ \E k \in 1..a : i = n + k
  <2>1. i \in 1..(n + a)
    BY <1>5 DEF Told
  <2>2. CASE i \in 1..n
    BY <2>2, <1>4, <1>5 DEF Told
  <2>3. CASE i \notin 1..n
    <3>1. i - n \in 1..a /\ i = n + (i - n)
      BY <2>1, <2>3, <1>4, <1>6
    <3>2. QED
      BY <3>1
  <2>4. QED
    BY <2>2, <2>3
<1>16. ASSUME NEW i \in Told'
       PROVE  /\ log'[i][2] \in 1..(r + m) /\ IsText(log'[i][2])
              /\ i \in Told \/ log'[i][2] \notin 1..r
  <2>1. CASE i \in Told
    <3>1. log'[i][2] \in 1..r /\ IsText(log'[i][2])
      BY <2>1, <1>7, <1>13
    <3>2. QED
      BY <2>1, <3>1, <1>6
  <2>2. CASE \E k \in 1..a : i = n + k
    <3>1. PICK k \in 1..a : i = n + k
      BY <2>2
    <3>2. log'[i][2] = r + at[k] /\ at[k] \in 1..m /\ IsText(r + at[k])
      BY <3>1, <1>12, <1>14
    <3>3. QED
      BY <3>2, <1>6
  <2>3. QED
    BY <2>1, <2>2, <1>15
<1>17. ASSUME NEW i \in Told', NEW j \in Told', i < j
       PROVE  log'[i][2] < log'[j][2]
  <2>1. CASE i \in Told /\ j \in Told
    BY <2>1, <1>7, <1>13, <1>17
  <2>2. CASE i \in Told /\ \E k \in 1..a : j = n + k
    <3>1. PICK k \in 1..a : j = n + k
      BY <2>2
    <3>2. log'[j][2] = r + at[k] /\ at[k] \in 1..m
      BY <3>1, <1>12, <1>14
    <3>3. log'[i][2] \in 1..r
      BY <2>2, <1>7, <1>13
    <3>4. \A x \in 1..r, y \in 1..m : x < r + y
      BY <1>6
    <3>5. QED
      BY <3>2, <3>3, <3>4
  <2>3. CASE (\E k \in 1..a : i = n + k) /\ \E l \in 1..a : j = n + l
    <3>1. PICK k \in 1..a : i = n + k
      BY <2>3
    <3>2. PICK l \in 1..a : j = n + l
      BY <2>3
    <3>3. log'[i][2] = r + at[k] /\ log'[j][2] = r + at[l]
      BY <3>1, <3>2, <1>14
    <3>4. k < l
      BY <3>1, <3>2, <1>4, <1>6, <1>17
    <3>5. at[k] < at[l] /\ at[k] \in 1..m /\ at[l] \in 1..m
      BY <3>4, <1>2, <1>12 DEF a
    <3>6. \A x, y \in 1..m : x < y => r + x < r + y
      BY <1>6
    <3>7. QED
      BY <3>3, <3>5, <3>6
  <2>4. CASE (\E k \in 1..a : i = n + k) /\ j \in Told
    <3>1. j \in 1..n /\ ~ (i \in 1..n) /\ ~ (i < j)
      BY <2>4, <1>4, <1>6, <1>13
    <3>2. QED
      BY <3>1, <1>17
  <2>5. QED
    BY <2>1, <2>2, <2>3, <2>4, <1>15
<1>18. \A e \in 1..r :
          /\ IsText(e)' <=> IsText(e)
          /\ Heard(e)' <=> Heard(e)
          /\ LostBehindBad(e) => LostBehindBad(e)'
  <2>1. Read \in Nat
    BY <1>6 DEF r
  <2>2. \A e \in 1..Read : sent'[e] = sent[e]
    <3>1. \A e \in 1..r : e \in 1..(r + c)
      BY <1>6
    <3>2. QED
      BY <3>1, <1>9 DEF r
  <2>3. \A i \in Told' : i \in Told \/ log'[i][2] \notin 1..Read
    BY <1>16 DEF r
  <2>4. \A i \in Told : i \in Told' /\ log'[i] = log[i]
    BY <1>13
  <2>5. QED
    BY <2>1, <2>2, <2>3, <2>4, HeardStays DEF r
<1>19. ASSUME NEW e \in 1..(r + c), IsText(e)'
       PROVE  Heard(e)' \/ LostBehindBad(e)'
  <2>1. CASE e \in 1..r
    BY <2>1, <1>7, <1>18, <1>19
  <2>2. CASE e \notin 1..r /\ e \in 1..(r + m)
    <3>1. e - r \in 1..m /\ r + (e - r) = e
      BY <2>2, <1>6
    <3>2. Readable[e - r] = e
      BY <3>1, <1>11
    <3>3. IsText(e)
      BY <1>9, <1>19 DEF IsText
    <3>4. PICK k \in 1..a : at[k] = e - r
      BY <3>1, <3>2, <3>3, <1>2 DEF a, m
    <3>5. n + k \in Told' /\ log'[n + k][2] = e
      BY <3>1, <3>4, <1>14
    <3>6. QED
      BY <3>5 DEF Heard
  <2>3. CASE e \notin 1..(r + m)
    <3> DEFINE b == r + (m + 1)
    <3>1. b \in 1..e /\ b \in 1..(r + c) /\ m < f
      BY <2>3, <1>6
    <3>2. sent'[b] = "bad"
      BY <3>1, <1>9, <1>10
    <3>3. ASSUME NEW x \in b..e, Heard(x)'
          PROVE  FALSE
      <4>1. PICK i \in Told' : log'[i][2] = x
        BY <3>3 DEF Heard
      <4>2. x \in 1..(r + m)
        BY <4>1, <1>16
      <4>3. QED
        BY <4>2, <1>6
    <3> HIDE DEF b
    <3>4. QED
      BY <3>1, <3>2, <3>3 DEF LostBehindBad
  <2>4. QED
    BY <2>1, <2>2, <2>3
<1>20. EventsRead'
  <2>1. ASSUME NEW k \in DOMAIN (fifo')
        PROVE  fifo'[k] = Read' + k
    <3>1. k \in 1..(f - c) /\ c + k \in 1..f
      BY <1>3, <1>6 DEF f
    <3>2. fifo'[k] = r + (c + k)
      BY <3>1, <1>3, <1>6 DEF f
    <3>3. QED
      BY <3>1, <3>2, <1>6, <1>8
  <2>2. Read' >= 0
    BY <1>6, <1>8
  <2>3. \A i \in Told' : log'[i][2] \in 1..Read'
    <3>1. \A x \in 1..(r + m) : x \in 1..(r + c)
      BY <1>6
    <3>2. QED
      BY <3>1, <1>8, <1>16
  <2>4. \A e \in 1..Read' : IsText(e)' => Heard(e)' \/ LostBehindBad(e)'
    BY <1>8, <1>19
  <2>5. QED
    BY <2>1, <2>2, <2>3, <2>4 DEF EventsRead
<1>21. EventsInOrder'
  <2>1. \A i \in Told' : IsText(log[i][2])'
    <3>1. ASSUME NEW i \in Told'
          PROVE  sent'[log'[i][2]] \in {"text", "torn"}
      <4>1. log'[i][2] \in 1..(r + m) /\ IsText(log'[i][2])
        BY <1>16
      <4>2. log'[i][2] \in 1..(r + c)
        BY <4>1, <1>6
      <4>3. QED
        BY <4>1, <4>2, <1>9 DEF IsText
    <3>2. QED
      BY <3>1 DEF IsText
  <2>2. ASSUME NEW i \in Told', NEW e \in 1..(log'[i][2] - 1)
        PROVE  IsText(e)' => Heard(e)' \/ LostBehindBad(e)'
    <3>1. log'[i][2] \in 1..(r + m)
      BY <1>16
    <3>2. e \in 1..(r + c)
      BY <3>1, <1>6
    <3>3. QED
      BY <3>2, <1>19
  <2>3. QED
    BY <2>1, <2>2, <1>17 DEF EventsInOrder
<1>22. QED
  BY <1>20, <1>21 DEF EventsInv

LEMMA EventsStep ==
    ASSUME TypeOK, CallsInv, EventsInv, [Next]_vars
    PROVE  EventsInv'
<1> USE DEF Goes, talk, marks, channels
<1>1. CASE \E kind \in Lines : Inject(kind)
  BY <1>1, EventIsLast
<1>2. CASE QuietReads
  BY <1>2, EventsHeard
<1>3. UNCHANGED <<log, sent, fifo>> => EventsInv'
  BY DEF EventsInv, EventsInOrder, EventsRead, Told, Read, IsText, Heard, LostBehindBad
<1>4. ASSUME NEW ms \in Seq(Messages), Says(ms), UNCHANGED <<sent, fifo>>,
             \A i \in 1..Len(ms) : ms[i][1] # "user" \/ ms[i] = Prompt
      PROVE  EventsInv'
  <2>1. /\ log' \in Seq(Messages \cup {Error, Done}) /\ Len(ms) \in Nat
        /\ Len(log') = Len(log) + Len(ms)
        /\ \A i \in 1..Len(log) : log'[i] = log[i]
        /\ \A i \in 1..Len(ms) : log'[Len(log) + i] = ms[i]
    BY <1>4, SaidIsAppended
  <2>2. QED
    BY <2>1, <1>4, NothingHeard
<1>5. ASSUME NEW x \in {Error, Done}, log' = Append(log, x), UNCHANGED <<sent, fifo>>
      PROVE  EventsInv'
  <2> DEFINE L == Messages \cup {Error, Done}
  <2>1. log \in Seq(L) /\ x \in L
    BY DEF TypeOK
  <2>2. x[1] # "user"
    BY SpecialEntries
  <2> HIDE DEF L
  <2>3. /\ log' \in Seq(L) /\ Len(log') = Len(log) + 1
        /\ \A i \in 1..Len(log) : log'[i] = log[i]
        /\ log'[Len(log) + 1] = x
    BY <2>1, <1>5, AppendProperties
  <2>4. \A i \in 1..1 : log'[Len(log) + i][1] # "user"
    BY <2>2, <2>3
  <2>5. QED
    BY <2>3, <2>4, <1>5, NothingHeard DEF L
<1>6. CASE Setup
  <2>1. \A i \in 1..Len(<<System, Prompt>>) :
           <<System, Prompt>>[i][1] # "user" \/ <<System, Prompt>>[i] = Prompt
    BY SpecialEntries
  <2>2. QED
    BY <2>1, <1>4, <1>6, OpeningIsMessages DEF Setup
<1>7. CASE ModelAnswers
  <2>1. PICK calls \in Batches : Says(<<<<"assistant", AnswersSoFar + 1, calls>>>>)
    BY <1>7 DEF ModelAnswers
  <2> DEFINE ms == <<<<"assistant", AnswersSoFar + 1, calls>>>>
  <2>2. ms \in Seq(Messages)
    BY <1>7, AnswerIsMessage DEF ModelAnswers
  <2>3. \A i \in 1..Len(ms) : ms[i][1] # "user"
    OBVIOUS
  <2> HIDE DEF ms
  <2>4. Says(ms) /\ UNCHANGED <<sent, fifo>>
    BY <2>1, <1>7 DEF ms, ModelAnswers
  <2>5. QED
    BY <2>2, <2>3, <2>4, <1>4
<1>8. CASE AppendResults
  <2>1. ToolResults \in Seq(Messages) /\ Says(ToolResults) /\ UNCHANGED <<sent, fifo>>
    BY <1>8, ToolResultsInOrder DEF AppendResults, ToolResults, CallsInv
  <2>2. DOMAIN ToolResults = 1..Len(ToolResults)
    BY <2>1, LenProperties
  <2>3. \A i \in 1..Len(ToolResults) : ToolResults[i][1] # "user"
    BY <2>2 DEF ToolResults
  <2>4. QED
    BY <2>1, <2>3, <1>4
<1>9. CASE TimesOut \/ LogDone
  BY <1>5, <1>9 DEF TimesOut, LogDone
<1>10. CASE UNCHANGED vars
  BY <1>3, <1>10 DEF vars
<1>11. CASE ToolStep \/ TimePasses \/ Killed
  BY <1>3, <1>11 DEF ToolStep, ToolServes, ToolExits, PlanAnswers, TimePasses, Killed
<1>12. CASE WritePid \/ ModelFails \/ DispatchOneshots \/ CallServer \/ ReadResponse
            \/ QuietEnds \/ NextTurn \/ Compress \/ Finalize \/ ToolsExited \/ Fails
            \/ Cleanup \/ Exit
  BY <1>3, <1>12 DEF WritePid, ModelFails, DispatchOneshots, CallServer, ReadResponse,
     QuietEnds, NextTurn, Compress, Finalize, ToolsExited, Fails, Cleanup, Exit
<1>13. QED
  BY <1>1, <1>2, <1>6, <1>7, <1>8, <1>9, <1>10, <1>11, <1>12 DEF Next, RunnerStep, LoopStep

---------------------------------------------------------------------------
(* How a runner ends. *)

\* The done entry is logged by one step, and by no other.
LEMMA OneLogsDone ==
    ASSUME TypeOK, CallsInv, [Next]_vars
    PROVE  LogsDone' <=> LogsDone \/ LogDone
<1> DEFINE L == Messages \cup {Error, Done}
<1>1. log \in Seq(L) /\ Len(log) \in Nat /\ DOMAIN log = 1..Len(log)
  BY LenProperties DEF TypeOK
<1>2. Done \notin Messages /\ Error # Done
  <2>1. \A m \in Messages : m[1] # "done"
    BY MessageKinds
  <2>2. QED
    BY <2>1, SpecialEntries
<1>3. ASSUME NEW ms \in Seq(Messages), Says(ms)
      PROVE  LogsDone' <=> LogsDone
  <2>1. /\ log' \in Seq(L) /\ Len(ms) \in Nat
        /\ Len(log') = Len(log) + Len(ms)
        /\ \A i \in 1..Len(log) : log'[i] = log[i]
        /\ \A i \in 1..Len(ms) : log'[Len(log) + i] = ms[i]
    BY <1>3, SaidIsAppended
  <2>2. DOMAIN (log') = 1..(Len(log) + Len(ms))
    BY <2>1, LenProperties
  <2>3. \A i \in 1..Len(ms) : ms[i] # Done
    BY <1>2, ElementOfSeq
  <2>4. ASSUME NEW i \in 1..(Len(log) + Len(ms)), log'[i] = Done
        PROVE  i \in 1..Len(log)
    <3>1. CASE i \notin 1..Len(log)
      <4>1. i - Len(log) \in 1..Len(ms) /\ Len(log) + (i - Len(log)) = i
        BY <3>1, <1>1, <2>1
      <4>2. log'[i] = ms[i - Len(log)]
        BY <4>1, <2>1
      <4>3. QED
        BY <4>1, <4>2, <2>3, <2>4
    <3>2. QED
      BY <3>1
  <2>5. \A i \in 1..Len(log) : i \in 1..(Len(log) + Len(ms))
    BY <1>1, <2>1
  <2>6. QED
    BY <2>1, <2>2, <2>4, <2>5, <1>1 DEF LogsDone
<1>4. ASSUME NEW x \in L, log' = Append(log, x)
      PROVE  LogsDone' <=> LogsDone \/ x = Done
  <2> HIDE DEF L
  <2>1. /\ log' \in Seq(L) /\ Len(log') = Len(log) + 1
        /\ \A i \in 1..Len(log) : log'[i] = log[i]
        /\ log'[Len(log) + 1] = x
    BY <1>1, <1>4, AppendProperties
  <2>2. DOMAIN (log') = 1..(Len(log) + 1)
    BY <2>1, LenProperties
  <2>3. \A i \in 1..(Len(log) + 1) : i \in 1..Len(log) \/ i = Len(log) + 1
    BY <1>1
  <2>4. /\ Len(log) + 1 \in 1..(Len(log) + 1)
        /\ \A i \in 1..Len(log) : i \in 1..(Len(log) + 1)
    BY <1>1
  <2>5. QED
    BY <1>1, <2>1, <2>2, <2>3, <2>4 DEF LogsDone
<1>5. UNCHANGED log => (LogsDone' <=> LogsDone)
  BY DEF LogsDone
<1>6. LogDone => pc = "reflected" /\ pc' = "closing"
  BY DEF LogDone, Goes
<1>7. CASE LogDone
  BY <1>4, <1>7 DEF LogDone
<1>8. CASE ~ LogDone
  <2>1. CASE Silent
    BY <2>1, <1>5, <1>8 DEF Silent, talk
  <2>2. CASE Setup
    BY <2>2, <1>3, <1>8, OpeningIsMessages DEF Setup
  <2>3. CASE TimesOut
    BY <2>3, <1>2, <1>4, <1>8 DEF TimesOut
  <2>4. CASE ModelAnswers
    BY <2>4, <1>3, <1>8, AnswerIsMessage DEF ModelAnswers
  <2>5. CASE AppendResults
    BY <2>5, <1>3, <1>8, ToolResultsInOrder DEF AppendResults, ToolResults, CallsInv
  <2>6. CASE QuietReads
    BY <2>6, <1>3, <1>5, <1>8, NoticesAreMessages DEF QuietReads, talk
  <2>7. CASE Compress
    BY <2>7, <1>5, <1>8 DEF Compress
  <2>8. QED
    BY <2>1, <2>2, <2>3, <2>4, <2>5, <2>6, <2>7, <1>8, SilentSteps DEF Talks
<1>9. QED
  BY <1>7, <1>8

LEMMA EndingsStep ==
    ASSUME TypeOK, CallsInv, Endings, [Next]_vars
    PROVE  Endings'
<1> USE DEF Goes, talk, marks, channels, Endings
<1>1. LogsDone' <=> LogsDone \/ LogDone
  BY OneLogsDone
<1>2. CASE UNCHANGED vars
  <2>1. ~ LogDone
    BY <1>2 DEF vars, LogDone
  <2>2. QED
    BY <2>1, <1>1, <1>2 DEF vars
<1>3. CASE RunnerStep
  BY <1>1, <1>3 DEF RunnerStep, LoopStep, WritePid, Setup, TimesOut, ModelAnswers, ModelFails,
     DispatchOneshots, CallServer, ReadResponse, AppendResults, QuietReads, QuietEnds,
     NextTurn, Compress, Finalize, LogDone, ToolsExited, Fails, Cleanup, Exit
<1>4. CASE ToolStep
  <2>1. UNCHANGED <<pc, code, pidFile>>
    BY <1>4 DEF ToolStep, ToolServes, ToolExits, PlanAnswers
  <2>2. ~ LogDone
    BY <2>1 DEF LogDone
  <2>3. QED
    BY <1>1, <2>1, <2>2
<1>5. CASE TimePasses
  BY <1>1, <1>5 DEF TimePasses, LogDone
<1>6. CASE Killed
  BY <1>1, <1>6 DEF Killed, LogDone
<1>7. CASE \E kind \in Lines : Inject(kind)
  BY <1>1, <1>7 DEF Inject, LogDone
<1>8. QED
  BY <1>2, <1>3, <1>4, <1>5, <1>6, <1>7 DEF Next

---------------------------------------------------------------------------
(* The form of the history. *)

\* The result h[i] has only results between its call and itself, or between the summary
\* that its call has gone into and itself.
Behind(h, i) ==
    \/ \E p \in 3..(i - 1) :
          /\ h[p][1] = "assistant" /\ h[p][2] = h[i][2]
          /\ \A j \in (p + 1)..i : h[j][1] = "tool"
    \/ h[2] = Summary /\ \A j \in 3..i : h[j][1] = "tool"

Placed(h, i) ==
    /\ h[i][1] \in {"user", "assistant", "tool"}
    /\ h[i][1] = "assistant" => h[i - 1][1] # "assistant"
    /\ h[i][1] = "tool" => Behind(h, i)

Formed(h) ==
    /\ Len(h) >= 2 /\ h[1] = System /\ h[2] \in {Prompt, Summary}
    /\ \A i \in 3..Len(h) : Placed(h, i)

\* No answer follows another, and every result has its place.
Asked ==
    /\ pc \in Loop => Formed(history)
    /\ pc \in {"loop", "turned"} => history[Len(history)][1] # "assistant"
    /\ Awaited => Calls # <<>>

\* The place of a message is a matter of what comes before it.
LEMMA PlacedStays ==
    ASSUME NEW h, NEW g, NEW i \in Nat, i >= 3, \A j \in 1..i : g[j] = h[j], Placed(h, i)
    PROVE  Placed(g, i)
<1>1. g[i] = h[i] /\ g[i - 1] = h[i - 1] /\ g[2] = h[2]
  <2>1. i \in 1..i /\ i - 1 \in 1..i /\ 2 \in 1..i
    OBVIOUS
  <2>2. QED
    BY <2>1
<1>2. Behind(h, i) => Behind(g, i)
  <2>1. ASSUME NEW p \in 3..(i - 1), h[p][1] = "assistant", h[p][2] = h[i][2],
               \A j \in (p + 1)..i : h[j][1] = "tool"
        PROVE  Behind(g, i)
    <3>1. p \in 1..i /\ \A j \in (p + 1)..i : j \in 1..i
      OBVIOUS
    <3>2. g[p] = h[p] /\ \A j \in (p + 1)..i : g[j] = h[j]
      BY <3>1
    <3>3. QED
      BY <2>1, <3>2, <1>1 DEF Behind
  <2>2. ASSUME h[2] = Summary, \A j \in 3..i : h[j][1] = "tool"
        PROVE  Behind(g, i)
    <3>1. \A j \in 3..i : j \in 1..i
      OBVIOUS
    <3>2. \A j \in 3..i : g[j] = h[j]
      BY <3>1
    <3>3. QED
      BY <2>2, <3>2, <1>1 DEF Behind
  <2>3. QED
    BY <2>1, <2>2 DEF Behind
<1>3. QED
  BY <1>1, <1>2 DEF Placed

\* A history keeps its form when what is said has its place.
LEMMA FormedSaid ==
    ASSUME TypeOK, NEW ms \in Seq(Messages), Says(ms), Formed(history),
           \A k \in 1..Len(ms) : Placed(history', Len(history) + k)
    PROVE  Formed(history')
<1> DEFINE n == Len(history)
           l == Len(ms)
           g == history'
<1>1. /\ n \in Nat /\ l \in Nat /\ Len(g) = n + l
      /\ \A i \in 1..n : g[i] = history[i]
  BY SaidIsAppended
<1>2. n >= 2 /\ history[1] = System /\ history[2] \in {Prompt, Summary}
      /\ \A i \in 3..n : Placed(history, i)
  BY DEF Formed
<1>3. \A k \in 1..l : Placed(g, n + k)
  OBVIOUS
<1> HIDE DEF n, l, g
<1>4. ASSUME NEW i \in 3..(n + l)
      PROVE  Placed(g, i)
  <2>1. CASE i <= n
    <3>1. i \in 3..n /\ i \in Nat /\ i >= 3 /\ \A j \in 1..i : j \in 1..n
      BY <2>1, <1>1
    <3>2. Placed(history, i)
      BY <3>1, <1>2
    <3>3. \A j \in 1..i : g[j] = history[j]
      BY <3>1, <1>1
    <3>4. QED
      BY <3>1, <3>2, <3>3, PlacedStays
  <2>2. CASE ~ (i <= n)
    <3>1. i - n \in 1..l /\ n + (i - n) = i
      BY <2>2, <1>1
    <3>2. Placed(g, n + (i - n))
      BY <3>1, <1>3
    <3>3. QED
      BY <3>1, <3>2
  <2>3. QED
    BY <2>1, <2>2
<1>5. g[1] = System /\ g[2] \in {Prompt, Summary} /\ Len(g) >= 2
  <2>1. 1 \in 1..n /\ 2 \in 1..n /\ n + l >= 2
    BY <1>1, <1>2
  <2>2. QED
    BY <2>1, <1>1, <1>2
<1>6. Formed(g)
  BY <1>1, <1>4, <1>5 DEF Formed
<1>7. QED
  BY <1>6 DEF g

\* Without a word the loop comes to the next call of the model from its last turn only.
LEMMA TurnsInSilence ==
    ASSUME [Next]_vars, ~ Talks, pc' \in {"loop", "turned"}
    PROVE  pc \in {"loop", "turned"}
<1> USE DEF Talks, Goes
<1>1. CASE UNCHANGED vars
  BY <1>1 DEF vars
<1>2. CASE RunnerStep
  BY <1>2 DEF RunnerStep, LoopStep, WritePid, ModelFails, DispatchOneshots, CallServer, ReadResponse,
     QuietEnds, NextTurn, Finalize, ToolsExited, Fails, Cleanup, Exit
<1>3. CASE ToolStep \/ TimePasses \/ Killed \/ (\E kind \in Lines : Inject(kind))
  BY <1>3 DEF ToolStep, ToolServes, ToolExits, PlanAnswers, TimePasses, Killed, Inject
<1>4. QED
  BY <1>1, <1>2, <1>3 DEF Next

\* Every step keeps the form of the history: an answer is only appended behind something
\* else, results only behind their call, and a compression cuts off the front.
LEMMA AskedStep ==
    ASSUME TypeOK, CallsInv, Asked, [Next]_vars
    PROVE  Asked'
<1> DEFINE n == Len(history)
<1>1. /\ Unopened /\ LastCalls /\ ResultsSoFar
      /\ history \in Seq(Messages) /\ n \in Nat /\ DOMAIN history = 1..n
  BY LenProperties DEF CallsInv, TypeOK
<1>2. pc \in Loop => Formed(history) /\ n >= 2
  BY DEF Asked, Formed
<1>3. ASSUME pc' \notin Loop
      PROVE  Asked'
  BY <1>3 DEF Asked, Loop, Awaited
<1>5. CASE Setup
  <2>1. history' = <<System, Prompt>> /\ pc' = "loop"
    BY <1>1, <1>5, Opened
  <2>2. Len(history') = 2 /\ history'[1] = System /\ history'[2] = Prompt
    BY <2>1
  <2>3. \A i \in 3..Len(history') : FALSE
    BY <2>2
  <2>4. history'[Len(history')][1] # "assistant"
    BY <2>2, SpecialEntries
  <2>5. QED
    BY <2>1, <2>2, <2>3, <2>4 DEF Asked, Formed, Awaited
<1>6. CASE ModelAnswers
  <2>1. PICK calls \in Batches :
          /\ Says(<<<<"assistant", AnswersSoFar + 1, calls>>>>)
          /\ pc' = IF calls = <<>> THEN "quiet" ELSE "dispatch"
    BY <1>6 DEF ModelAnswers
  <2> DEFINE m == <<"assistant", AnswersSoFar + 1, calls>>
             ms == <<m>>
  <2>2. ms \in Seq(Messages) /\ Len(ms) = 1 /\ ms[1] = m
    BY <1>6, AnswerIsMessage DEF ModelAnswers
  <2>3. m[1] = "assistant" /\ m[3] = calls
    OBVIOUS
  <2>4. Says(ms)
    BY <2>1
  <2> HIDE DEF m, ms
  <2>5. /\ history' \in Seq(Messages) /\ Len(history') = n + Len(ms)
        /\ \A i \in 1..n : history'[i] = history[i]
        /\ \A i \in 1..Len(ms) : history'[n + i] = ms[i]
    BY <2>2, <2>4, SaidIsAppended
  <2>6. Len(history') = n + 1 /\ history'[n + 1] = m
    BY <2>2, <2>5
  <2>7. pc = "loop" /\ Formed(history) /\ n >= 2 /\ history[n][1] # "assistant"
    BY <1>2, <1>6 DEF ModelAnswers, Loop, Asked
  <2>8. Placed(history', n + 1)
    <3>1. (n + 1) - 1 = n /\ n \in 1..n
      BY <1>1, <2>7
    <3>2. history'[(n + 1) - 1] = history[n]
      BY <3>1, <2>5
    <3>3. QED
      BY <3>2, <2>3, <2>6, <2>7 DEF Placed
  <2>9. Formed(history')
    <3>1. \A k \in 1..Len(ms) : Placed(history', n + k)
      BY <2>2, <2>8
    <3>2. QED
      BY <3>1, <2>2, <2>4, <2>7, FormedSaid
  <2>10. Awaited' => Calls' # <<>>
    <3>1. Calls' = calls
      BY <2>3, <2>6 DEF Calls, Last
    <3>2. Awaited' => calls # <<>>
      BY <2>1 DEF Awaited
    <3>3. QED
      BY <3>1, <3>2
  <2>11. pc' \notin {"loop", "turned"}
    BY <2>1
  <2>12. QED
    BY <2>9, <2>10, <2>11 DEF Asked
<1>7. CASE AppendResults
  <2> DEFINE ms == ToolResults
             l == Len(Calls)
  <2>1. ms \in Seq(Messages) /\ Len(ms) = l
        /\ \A k \in 1..l : ms[k] = <<"tool", Turn, k>>
    BY <1>1, <1>7, ToolResultsInOrder DEF AppendResults
  <2>2. Says(ms)
    BY <1>7 DEF AppendResults, ToolResults
  <2>3. pc = "calling" /\ pc' \in {"finalizing", "turned"} /\ Awaited /\ Formed(history) /\ n >= 2
    BY <1>2, <1>7 DEF AppendResults, Awaited, Loop
  <2>4. /\ Last(history) = <<"assistant", Turn, Calls>>
        /\ l \in Nat /\ Calls # <<>> /\ Calls \in Seq(Tools)
    BY <1>1, <2>3, LastMessage, BatchIsSequence DEF Asked
  <2>5. l > 0
    <3>1. l # 0
      BY <2>4, EmptySeq
    <3>2. QED
      BY <3>1, <2>4
  <2>6. history[n] = <<"assistant", Turn, Calls>>
    BY <2>4 DEF Last
  <2> HIDE DEF ms, l
  <2>7. /\ Len(history') = n + l
        /\ \A i \in 1..n : history'[i] = history[i]
        /\ \A k \in 1..l : history'[n + k] = <<"tool", Turn, k>>
    BY <2>1, <2>2, SaidIsAppended
  <2>8. history'[n] = <<"assistant", Turn, Calls>>
    BY <2>3, <2>6, <2>7, <1>1
  <2>9. n >= 3
    <3>1. history[2][1] # "assistant"
      BY <2>3, SpecialEntries DEF Formed
    <3>2. n # 2
      BY <3>1, <2>6
    <3>3. QED
      BY <3>2, <2>3, <1>1
  <2>10. ASSUME NEW k \in 1..l
         PROVE  Placed(history', n + k)
    <3>1. history'[n + k] = <<"tool", Turn, k>>
      BY <2>7
    <3>2. \A j \in (n + 1)..(n + k) : history'[j][1] = "tool"
      <4>1. ASSUME NEW j \in (n + 1)..(n + k)
            PROVE  history'[j][1] = "tool"
        <5>1. j - n \in 1..l /\ n + (j - n) = j
          BY <2>4, <1>1 DEF l
        <5>2. history'[n + (j - n)] = <<"tool", Turn, j - n>>
          BY <5>1, <2>7
        <5>3. QED
          BY <5>1, <5>2
      <4>2. QED
        BY <4>1
    <3>3. n \in 3..((n + k) - 1)
      BY <2>9, <1>1
    <3>4. history'[n][1] = "assistant" /\ history'[n][2] = history'[n + k][2]
      BY <2>8, <3>1
    <3>5. Behind(history', n + k)
      BY <3>2, <3>3, <3>4 DEF Behind
    <3>6. QED
      BY <3>1, <3>5 DEF Placed
  <2>11. Formed(history')
    BY <2>1, <2>2, <2>3, <2>10, FormedSaid
  <2>12. history'[Len(history')][1] # "assistant"
    <3>1. l \in 1..l
      BY <2>4, <2>5 DEF l
    <3>2. QED
      BY <3>1, <2>7
  <2>13. QED
    BY <2>3, <2>11, <2>12 DEF Asked, Awaited
<1>8. CASE QuietReads
  <2>1. CASE UNCHANGED talk /\ pc' = "finalizing"
    BY <2>1, <1>3 DEF Loop
  <2>2. CASE Says(UserMessages(Texts(Readable))) /\ Texts(Readable) # <<>>
    <3> DEFINE ms == UserMessages(Texts(Readable))
    <3>1. ms \in Seq(Messages) /\ Len(ms) \in Nat
      BY NoticesAreMessages, LenProperties
    <3>2. \A i \in 1..Len(ms) : ms[i][1] = "user"
      <4>1. DOMAIN ms = 1..Len(ms)
        BY <3>1, LenProperties
      <4>2. QED
        BY <4>1 DEF UserMessages
    <3>3. Len(ms) > 0
      <4>1. Texts(Readable) \in Seq(DOMAIN sent)
        BY TextsInOrder, ReadableIsPrefix
      <4>2. Len(Texts(Readable)) # 0 /\ DOMAIN Texts(Readable) = 1..Len(Texts(Readable))
            /\ Len(Texts(Readable)) \in Nat
        BY <2>2, <4>1, EmptySeq, LenProperties
      <4>3. DOMAIN ms = DOMAIN Texts(Readable)
        BY DEF UserMessages
      <4>4. 1 \in DOMAIN ms
        BY <4>2, <4>3
      <4>5. DOMAIN ms = 1..Len(ms)
        BY <3>1, LenProperties
      <4> HIDE DEF ms
      <4>6. QED
        BY <4>4, <4>5, <3>1
    <3>4. Says(ms)
      BY <2>2
    <3> HIDE DEF ms
    <3>5. /\ Len(history') = n + Len(ms)
          /\ \A k \in 1..Len(ms) : history'[n + k] = ms[k]
      BY <3>1, <3>4, SaidIsAppended
    <3>6. \A k \in 1..Len(ms) : Placed(history', n + k)
      BY <3>2, <3>5 DEF Placed
    <3>7. Formed(history)
      BY <1>2, <1>8 DEF QuietReads, Loop
    <3>8. Formed(history')
      BY <3>1, <3>4, <3>6, <3>7, FormedSaid
    <3>9. history'[Len(history')][1] # "assistant"
      <4>1. Len(ms) \in 1..Len(ms)
        BY <3>1, <3>3
      <4>2. QED
        BY <4>1, <3>2, <3>5
    <3>10. ~ Awaited'
      BY <2>2, <1>8 DEF QuietReads, Awaited
    <3>11. QED
      BY <3>8, <3>9, <3>10 DEF Asked
  <2>3. QED
    BY <1>8, <2>1, <2>2 DEF QuietReads
<1>9. CASE Compress
  <2>0. Formed(history) /\ history[n][1] # "assistant" /\ pc' = "loop"
    BY <1>2, <1>9 DEF Compress, Goes, Loop, Asked
  <2>1. PICK d \in 3..n :
          /\ Len(history') = n - d + 2
          /\ history'[1] = System /\ history'[2] = Summary
          /\ \A i \in 3..Len(history') : history'[i] = history[i + d - 2]
    BY <1>9, Compressed
  <2>2. n > 4 /\ d \in Nat
    BY <1>9, Compressed
  <2> DEFINE g == history'
             l == Len(history')
  <2>3. /\ l = n - d + 2 /\ g[2] = Summary
        /\ \A i \in 3..l : g[i] = history[i + d - 2]
    BY <2>1
  <2> HIDE DEF n, l, g
  <2>4. /\ n \in Nat /\ l \in Nat /\ d \in 3..n /\ n > 4
    BY <1>1, <2>1, <2>2, <2>3
  <2>5. \A i \in 3..n : Placed(history, i)
    BY <2>0 DEF Formed, n
  <2>6. ASSUME NEW i \in 3..l
        PROVE  Placed(g, i)
    <3> DEFINE q == i + d - 2
    <3>1. q \in 3..n /\ q \in Nat /\ g[i] = history[q]
      BY <2>3, <2>4
    <3>2. Placed(history, q)
      BY <3>1, <2>5
    <3>3. g[i][1] \in {"user", "assistant", "tool"}
      BY <3>1, <3>2 DEF Placed
    <3>4. ASSUME g[i][1] = "assistant"
          PROVE  g[i - 1][1] # "assistant"
      <4>1. CASE i = 3
        <5>1. g[i - 1] = Summary
          BY <4>1, <2>3
        <5>2. QED
          BY <5>1, SpecialEntries
      <4>2. CASE i # 3
        <5>1. i - 1 \in 3..l /\ (i - 1) + d - 2 = q - 1
          BY <4>2, <2>4
        <5>2. g[i - 1] = history[q - 1]
          BY <5>1, <2>3
        <5>3. history[q - 1][1] # "assistant"
          BY <3>1, <3>2, <3>4 DEF Placed
        <5>4. QED
          BY <5>2, <5>3
      <4>3. QED
        BY <4>1, <4>2
    <3>5. ASSUME g[i][1] = "tool"
          PROVE  Behind(g, i)
      <4>1. Behind(history, q)
        BY <3>1, <3>2, <3>5 DEF Placed
      <4>2. \A j \in 3..i : j \in 3..l /\ g[j] = history[j + d - 2]
        <5>1. \A j \in 3..i : j \in 3..l
          BY <2>4
        <5>2. QED
          BY <5>1, <2>3
      <4>3. ASSUME NEW a \in Nat, a < d + 1, \A j \in (a + 1)..q : history[j][1] = "tool"
            PROVE  Behind(g, i)
        <5>1. \A j \in 3..i : j + d - 2 \in (a + 1)..q
          BY <4>3, <2>4
        <5>2. \A j \in 3..i : g[j][1] = "tool"
          BY <5>1, <4>2, <4>3
        <5>3. QED
          BY <5>2, <2>3 DEF Behind
      <4>4. CASE history[2] = Summary /\ \A j \in 3..q : history[j][1] = "tool"
        <5>1. \A j \in (2 + 1)..q : history[j][1] = "tool"
          BY <4>4
        <5>2. 2 \in Nat /\ 2 < d + 1
          BY <2>4
        <5>3. QED
          BY <5>1, <5>2, <4>3
      <4>5. ASSUME NEW p \in 3..(q - 1), history[p][1] = "assistant", history[p][2] = history[q][2],
                   \A j \in (p + 1)..q : history[j][1] = "tool"
            PROVE  Behind(g, i)
        <5>1. p \in Nat
          BY <3>1
        <5>2. CASE p < d + 1
          BY <5>1, <5>2, <4>3, <4>5
        <5>3. CASE ~ (p < d + 1)
          <6> DEFINE r == p - d + 2
          <6>1. r \in 3..(i - 1) /\ r + d - 2 = p /\ r \in 3..i /\ i \in 3..i
            BY <5>1, <5>3, <3>1, <2>4
          <6>2. \A j \in (r + 1)..i : j \in 3..i /\ j + d - 2 \in (p + 1)..q
            BY <6>1, <2>4, <5>1
          <6> HIDE DEF r, q
          <6>3. g[r] = history[p] /\ g[i] = history[q]
            BY <6>1, <4>2, <3>1
          <6>4. \A j \in (r + 1)..i : g[j][1] = "tool"
            BY <6>2, <4>2, <4>5
          <6>5. g[r][1] = "assistant" /\ g[r][2] = g[i][2]
            BY <6>3, <4>5
          <6>6. QED
            BY <6>1, <6>4, <6>5 DEF Behind
        <5>4. QED
          BY <5>2, <5>3
      <4>6. QED
        BY <4>1, <4>4, <4>5 DEF Behind
    <3>6. QED
      BY <3>3, <3>4, <3>5 DEF Placed
  <2>7. Formed(g)
    <3>1. l >= 2
      BY <2>3, <2>4
    <3>2. QED
      BY <3>1, <2>1, <2>6 DEF Formed, g, l
  <2>8. g[l][1] # "assistant"
    <3>1. CASE l = 2
      BY <3>1, <2>3, SpecialEntries
    <3>2. CASE l # 2
      <4>1. l \in 3..l /\ l + d - 2 = n
        BY <3>2, <2>3, <2>4
      <4>2. g[l] = history[n]
        BY <4>1, <2>3
      <4>3. QED
        BY <4>2, <2>0 DEF n
    <3>3. QED
      BY <3>1, <3>2
  <2>9. QED
    BY <2>0, <2>7, <2>8 DEF Asked, Awaited, g, l
<1>10. CASE TimesOut \/ LogDone
  BY <1>3, <1>10 DEF TimesOut, LogDone, Goes, Loop
<1>11. CASE Silent /\ ~ Talks
  <2>1. CASE pc' \in Loop
    <3>1. pc \in Loop /\ (Awaited' <=> Awaited) /\ history' = history
      BY <1>11, <2>1 DEF Silent, talk
    <3>2. pc' \in {"loop", "turned"} => pc \in {"loop", "turned"}
      BY <1>11, TurnsInSilence
    <3>3. QED
      BY <3>1, <3>2 DEF Asked, Calls
  <2>2. QED
    BY <2>1, <1>3
<1>12. QED
  BY <1>5, <1>6, <1>7, <1>8, <1>9, <1>10, <1>11, SilentSteps DEF Talks

---------------------------------------------------------------------------
(* The invariant, and what it shows. *)

IInv == TypeOK /\ CallsInv /\ Transcribed /\ EventsInv /\ Endings /\ Asked

\* The invariant holds at the start, and every step keeps it.
LEMMA InitIInv == Init => IInv
<1> SUFFICES ASSUME Init
             PROVE  IInv
  OBVIOUS
<1> USE DEF Init
<1>1. TypeOK
  <2>1. <<>> \in Seq(Written \cup {"torn"}) /\ Len(<<>>) <= MaxEvents
    BY BoundsAreNat
  <2>2. sent \in BoundedSeq(Written \cup {"torn"}, MaxEvents)
    BY <2>1, SentIsSequence
  <2> DEFINE L == Messages \cup {Error, Done}
             Wires == {Quiet} \cup ({"request"} \X (1..MaxCalls))
                              \cup ({"response"} \X (1..MaxCalls) \X BOOLEAN)
  <2>3. Quiet \in Wires
    OBVIOUS
  <2> HIDE DEF L, Wires
  <2>4. history \in Seq(Messages) /\ log \in Seq(L) /\ fifo \in Seq(DOMAIN sent)
        /\ results \in Seq(1..MaxCalls)
    OBVIOUS
  <2>5. wire \in Wires
    BY <2>3
  <2>6. QED
    BY <2>2, <2>4, <2>5 DEF TypeOK, L, Wires
<1>2. CallsInv
  BY DEF CallsInv, Unopened, CallsAnswered, LastCalls, ResultsSoFar, OneUnderWay, Awaited,
     Loop
<1>3. Transcribed
  BY DEF Transcribed, Loop
<1>4. Told = {} /\ Read = 0
  BY DEF Told, Read
<1>5. EventsInv
  BY <1>4 DEF EventsInv, EventsInOrder, EventsRead
<1>6. Endings
  BY DEF Endings, LogsDone
<1>7. Asked
  BY DEF Asked, Awaited, Loop
<1>8. QED
  BY <1>1, <1>2, <1>3, <1>5, <1>6, <1>7 DEF IInv

LEMMA NextIInv == IInv /\ [Next]_vars => IInv'
  BY TypeStep, CallsStep, TranscribedStep, EventsStep, EndingsStep, AskedStep DEF IInv

\* The inductive invariant of the runner: between a call and its result there are only the
\* results of the calls before it, the history follows the log, what has been read of the
\* FIFO is in the log, and the done entry is there exactly after a success.
THEOREM RunnerInvariant == Spec => []IInv
  BY InitIInv, NextIInv, PTL DEF Spec

\* Every variable keeps its type: the messages are those of MaxTurns answers of at most
\* MaxCalls calls, and what is on the wire is one of these calls.
THEOREM RunnerTypes == Spec => []TypeOK
<1>1. IInv => TypeOK
  BY DEF IInv
<1>2. QED
  BY <1>1, RunnerInvariant, PTL

\* For any mix of tools, any answers and any compressions: the model is never called
\* with a call that has not all its results behind it, in order.
THEOREM CallsHaveTheirResults == Spec => []AnsweredInOrder
<1>1. IInv => AnsweredInOrder
  BY DEF IInv, CallsInv, CallsAnswered, Answered, Awaited, Loop, AnsweredInOrder
<1>2. QED
  BY <1>1, RunnerInvariant, PTL

\* What the model is shown is the end of log.jsonl, before and after a compression.
THEOREM LogIsTheTranscript == Spec => []LogIsTranscript
<1>1. ASSUME IInv, pc = "loop"
      PROVE  \E n \in 1..Len(log) :
                SubSeq(history, First, Len(history)) = SubSeq(log, n + 1, Len(log))
  <2>1. /\ history \in Seq(Messages) /\ log \in Seq(Messages \cup {Error, Done})
        /\ Len(history) \in Nat /\ Len(log) \in Nat
    BY <1>1, LenProperties DEF IInv, TypeOK
  <2>2. Len(history) >= 2 /\ \E n \in 1..Len(log) : Follows(n)
    BY <1>1 DEF IInv, Transcribed, Loop
  <2>3. PICK n \in 1..Len(log) : Follows(n)
    BY <2>2
  <2> DEFINE f == First
             l == Len(history)
             m == Len(log)
             h == SubSeq(history, f, l)
             g == SubSeq(log, n + 1, m)
             size == l - (f - 1)
  <2>4. f \in {2, 3}
    BY DEF First
  <2>5. size = m - n /\ \A i \in f..l : history[i] = log[i - (f - 1) + n]
    BY <2>3 DEF Follows
  <2>6. l \in Nat /\ m \in Nat /\ n \in Nat /\ n <= m /\ l >= 2 /\ size \in Nat
    BY <2>1, <2>2, <2>4, <2>5
  <2> HIDE DEF f, l, m
  <2>7. h = [i \in 1..size |-> history[f + i - 1]]
    BY <2>4, <2>6
  <2>8. g = [i \in 1..size |-> log[n + i]]
    BY <2>5, <2>6
  <2>9. ASSUME NEW i \in 1..size
        PROVE  history[f + i - 1] = log[n + i]
    <3>1. f + i - 1 \in f..l /\ (f + i - 1) - (f - 1) + n = n + i
      BY <2>4, <2>6
    <3>2. QED
      BY <3>1, <2>5
  <2>10. h = g
    BY <2>7, <2>8, <2>9
  <2>11. QED
    BY <2>10 DEF f, l, m
<1>2. IInv => LogIsTranscript
  BY <1>1 DEF LogIsTranscript, First
<1>3. QED
  BY <1>2, RunnerInvariant, PTL

\* Whatever is written to the FIFO and whenever it is read, the log has texts in the order
\* they were sent in and none twice; none is left out before one that was heard, but behind
\* a line that is no UTF-8 and was read together with it.
THEOREM EventsAreHeardInOrder == Spec => []EventsInOrder
<1>1. IInv => EventsInOrder
  BY DEF IInv, EventsInv
<1>2. QED
  BY <1>1, RunnerInvariant, PTL

---------------------------------------------------------------------------
(* The refinement of RunnerProcess. *)

LEMMA RunnerProcessStep ==
    ASSUME TypeOK, CallsInv, Endings, [Next]_vars
    PROVE  LifeStep \/ UNCHANGED Life!procVars
<1> DEFINE proc == [s \in {"self"} |-> Phase]
           exit == [s \in {"self"} |-> Status]
           file == IF pidFile THEN {"self"} ELSE {}
           done == IF Done \in Range(log) THEN {"self"} ELSE {}
<1>1. /\ pc = "booting" => Phase = "booting"
      /\ pc \in {"failed", "cleaned"} => Phase = pc
      /\ pc \in {"closing", "logged"} => Phase = "logged"
      /\ pc \in {"exited", "killed"} => Phase = "zombie"
      /\ pc \notin {"booting", "failed", "cleaned", "closing", "logged", "exited", "killed"}
           => Phase = "working"
      /\ pc = "exited" => Status = code
      /\ pc = "killed" => Status = "err"
      /\ pc \notin {"exited", "killed"} => Status = "none"
  BY DEF Phase, Status
<1>2. /\ pc' = "booting" => Phase' = "booting"
      /\ pc' \in {"failed", "cleaned"} => Phase' = pc'
      /\ pc' \in {"closing", "logged"} => Phase' = "logged"
      /\ pc' \in {"exited", "killed"} => Phase' = "zombie"
      /\ pc' \notin {"booting", "failed", "cleaned", "closing", "logged", "exited", "killed"}
           => Phase' = "working"
      /\ pc' = "exited" => Status' = code'
      /\ pc' = "killed" => Status' = "err"
      /\ pc' \notin {"exited", "killed"} => Status' = "none"
  BY DEF Phase, Status
<1>3. /\ done = IF LogsDone THEN {"self"} ELSE {}
      /\ done' = IF LogsDone \/ LogDone THEN {"self"} ELSE {}
  BY OneLogsDone DEF Range, LogsDone
<1> USE DEF Goes, talk, marks, channels, Endings
<1>4. CASE WritePid
  <2>1. Phase = "booting" /\ Phase' = "working" /\ Status = "none" /\ Status' = "none"
    BY <1>1, <1>2, <1>4 DEF WritePid
  <2>2. file = {} /\ file' \in {{"self"}, {}} /\ done' = done
    BY <1>1, <1>3, <1>4 DEF WritePid, LogDone
  <2>3. Life!WritePid("self")
    BY <2>1, <2>2 DEF Life!WritePid
  <2>4. QED
    BY <2>3 DEF LifeStep
<1>5. CASE LogDone
  <2>1. /\ Phase = "working" /\ Phase' = "logged" /\ Status' = Status /\ file' = file
        /\ done' = {"self"}
    BY <1>1, <1>2, <1>3, <1>5 DEF LogDone
  <2>2. Life!LogDone("self")
    BY <2>1 DEF Life!LogDone
  <2>3. QED
    BY <2>2 DEF LifeStep
<1>6. CASE Cleanup
  <2>1. Phase \in {"logged", "failed"} /\ Phase' = "cleaned" /\ Status' = Status
    BY <1>1, <1>2, <1>6 DEF Cleanup
  <2>2. file' = {} /\ done' = done
    BY <1>3, <1>6 DEF Cleanup, LogDone
  <2>3. Life!RemovePid("self")
    BY <2>1, <2>2 DEF Life!RemovePid
  <2>4. QED
    BY <2>3 DEF LifeStep
<1>7. CASE Exit
  <2>1. Phase = "cleaned" /\ Phase' = "zombie" /\ file' = file /\ done' = done
    BY <1>1, <1>2, <1>3, <1>7 DEF Exit, LogDone
  <2>2. Status' = IF "self" \in done THEN "ok" ELSE "err"
    BY <1>2, <1>3, <1>7 DEF Exit, LogDone
  <2>3. Life!RunnerExits("self", TRUE)
    BY <2>1, <2>2 DEF Life!RunnerExits, Life!AfterEnd
  <2>4. QED
    BY <2>3 DEF LifeStep
<1>8. CASE Killed
  <2>1. Phase' = "zombie" /\ Status' = "err" /\ file' = file /\ done' = done
    BY <1>2, <1>3, <1>8 DEF Killed, LogDone
  <2>2. Phase \in {"booting", "working", "logged", "failed", "cleaned"}
    BY <1>1, <1>8 DEF Killed
  <2>3. Life!RunnerDies("self", TRUE)
    BY <2>1, <2>2 DEF Life!RunnerDies, Life!AfterEnd, Life!IsLive, Life!Live
  <2>4. QED
    BY <2>3 DEF LifeStep
<1> DEFINE Rests == UNCHANGED Life!procVars
           Works == {"setup", "finalizing", "reflected"} \cup Loop
<1>9. ASSUME ~ LogDone, pidFile' = pidFile, Phase' = Phase, Status' = Status
      PROVE  Rests
  <2>1. file' = file /\ done' = done
    BY <1>3, <1>9
  <2>2. QED
    BY <2>1, <1>9 DEF Life!procVars
<1>10. ASSUME ~ LogDone, pidFile' = pidFile, pc \in Works, pc' = "failed"
       PROVE  Life!SessionFails("self")
  <2>1. file' = file /\ done' = done
    BY <1>3, <1>10
  <2>2. Phase = "working" /\ Phase' = "failed" /\ Status' = Status
    BY <1>1, <1>2, <1>10 DEF Loop
  <2>3. QED
    BY <2>1, <2>2 DEF Life!SessionFails
<1>11. ASSUME ~ LogDone, pidFile' = pidFile, pc \in Works, pc' \in Works
       PROVE  Rests
  <2>1. Phase = "working" /\ Phase' = "working" /\ Status' = Status
    BY <1>1, <1>2, <1>11 DEF Loop
  <2>2. QED
    BY <2>1, <1>9, <1>11
<1> HIDE DEF Rests
<1>12. CASE ToolsExited
  <2>1. ~ LogDone /\ pidFile' = pidFile /\ Phase' = Phase /\ Status' = Status
    BY <1>1, <1>2, <1>12 DEF ToolsExited, LogDone
  <2>2. QED
    BY <2>1, <1>9 DEF Rests
<1>13. CASE ModelFails \/ Fails \/ CallServer
  <2>1. /\ ~ LogDone /\ pidFile' = pidFile /\ pc \in Works
        /\ pc' = "failed" \/ pc' \in Works
    BY <1>13 DEF ModelFails, Fails, CallServer, LogDone, Loop
  <2>2. QED
    BY <2>1, <1>10, <1>11 DEF Rests, LifeStep
<1>14. CASE Setup \/ TimesOut \/ ModelAnswers \/ DispatchOneshots \/ ReadResponse
            \/ AppendResults \/ QuietReads \/ QuietEnds \/ NextTurn \/ Compress \/ Finalize
  <2>1. ~ LogDone /\ pidFile' = pidFile /\ pc \in Works /\ pc' \in Works
    BY <1>14 DEF Setup, TimesOut, ModelAnswers, DispatchOneshots, ReadResponse,
       AppendResults, QuietReads, QuietEnds, NextTurn, Compress, Finalize, LogDone, Loop
  <2>2. QED
    BY <2>1, <1>11 DEF Rests
<1>15. CASE ToolStep \/ TimePasses \/ (\E kind \in Lines : Inject(kind))
            \/ UNCHANGED vars
  <2>1. UNCHANGED <<pc, pidFile, code>>
    BY <1>15 DEF ToolStep, ToolServes, ToolExits, PlanAnswers, TimePasses, Inject, vars
  <2>2. ~ LogDone /\ Phase' = Phase /\ Status' = Status
    BY <2>1 DEF LogDone, Phase, Status
  <2>3. QED
    BY <2>1, <2>2, <1>9 DEF Rests
<1>16. QED
  BY <1>4, <1>5, <1>6, <1>7, <1>8, <1>12, <1>13, <1>14, <1>15 DEF Next, RunnerStep, LoopStep

\* The runner is what the daemon's model of it says, for any session: the pid file, the
\* done entry and the exit status come in its order on every path, failures and kills
\* included.
THEOREM RunnerIsRunnerProcess == Spec => IsRunnerProcess
<1>1. IInv /\ [Next]_vars => [LifeStep]_(Life!procVars)
  BY RunnerProcessStep DEF IInv
<1>2. QED
  BY <1>1, RunnerInvariant, PTL DEF Spec, IsRunnerProcess

---------------------------------------------------------------------------
(* The parts of messages. *)

AllParts ==
    {Said(t) : t \in 1..MaxTurns}
        \cup {Use(t, k) : t \in 1..MaxTurns, k \in 1..MaxCalls}
        \cup {Result(t, k) : t \in 1..MaxTurns, k \in 1..MaxCalls}
        \cup Messages

\* Texts, calls and results are told apart by their tags.
LEMMA KindsOfParts ==
    /\ \A t : Said(t)[1] = "said"
    /\ \A t, k : Use(t, k)[1] = "use" /\ Use(t, k)[2] = t /\ Use(t, k)[3] = k
    /\ \A t, k : Result(t, k)[1] = "result"
    /\ \A m \in Messages : m[1] \notin {"said", "use", "result"}
<1>1. \A m \in Messages : m[1] \notin {"said", "use", "result"}
  BY MessageKinds
<1>2. QED
  BY <1>1 DEF Said, Use, Result

AnswerParts(m, s) ==
    /\ s \in Seq(AllParts)
    /\ Len(m[3]) \in Nat
    /\ Len(s) = Len(m[3]) + 1
    /\ s[1] = Said(m[2])
    /\ \A k \in 1..Len(m[3]) : s[k + 1] = Use(m[2], k)

\* An answer is a text and then its calls.
LEMMA PartsOfAnswer ==
    ASSUME NEW m \in Messages, m[1] = "assistant"
    PROVE  AnswerParts(m, Parts(m))
<1> DEFINE t == m[2]
           calls == m[3]
           n == Len(calls)
           uses == [k \in DOMAIN calls |-> Use(t, k)]
           said == <<Said(t)>>
<1>1. m \in {"assistant"} \X (1..MaxTurns) \X Batches
  BY MessageKinds
<1>2. t \in 1..MaxTurns /\ calls \in Batches
  BY <1>1
<1>3. n \in Nat /\ n \in 0..MaxCalls /\ DOMAIN calls = 1..n
  BY <1>2, BatchIsSequence, BoundsAreNat
<1>4. Parts(m) = said \o uses
  BY DEF Parts
<1> HIDE DEF n, t, calls
<1>5. uses = [k \in 1..n |-> Use(t, k)]
  BY <1>3
<1>6. \A k \in 1..n : Use(t, k) \in AllParts
  <2>1. \A k \in 1..n : k \in 1..MaxCalls
    BY <1>3, BoundsAreNat
  <2>2. QED
    BY <2>1, <1>2 DEF AllParts
<1>7. uses \in Seq(AllParts) /\ Len(uses) = n
  <2>1. uses \in [1..n -> AllParts]
    BY <1>5, <1>6
  <2>2. QED
    BY <2>1, <1>3, SeqDef, LenProperties
<1>8. Said(t) \in AllParts
  BY <1>2 DEF AllParts
<1>9. said \in Seq(AllParts) /\ Len(said) = 1 /\ said[1] = Said(t)
  BY <1>8
<1>10. \A k \in 1..n : uses[k] = Use(t, k)
  BY <1>5
<1> HIDE DEF uses, said
<1>11. /\ Parts(m) \in Seq(AllParts) /\ Len(Parts(m)) = 1 + n
       /\ \A i \in 1..1 + n : Parts(m)[i] = IF i <= 1 THEN said[i] ELSE uses[i - 1]
  <2> DEFINE c == said \o uses
  <2>1. /\ c \in Seq(AllParts) /\ Len(c) = Len(said) + Len(uses)
        /\ \A i \in 1..Len(said) + Len(uses) :
              c[i] = IF i <= Len(said) THEN said[i] ELSE uses[i - Len(said)]
    BY <1>7, <1>9, ConcatProperties
  <2> HIDE DEF c
  <2>2. /\ c \in Seq(AllParts) /\ Len(c) = 1 + n
        /\ \A i \in 1..1 + n : c[i] = IF i <= 1 THEN said[i] ELSE uses[i - 1]
    BY <2>1, <1>7, <1>9
  <2>3. QED
    BY <2>2, <1>4 DEF c
<1>12. Parts(m)[1] = Said(t)
  BY <1>3, <1>9, <1>11
<1>13. \A k \in 1..n : Parts(m)[k + 1] = Use(t, k)
  <2>1. \A k \in 1..n : k + 1 \in 1..1 + n /\ ~ (k + 1 <= 1) /\ (k + 1) - 1 = k
    BY <1>3
  <2>2. QED
    BY <2>1, <1>10, <1>11
<1>14. QED
  BY <1>3, <1>11, <1>12, <1>13 DEF AnswerParts, n, t, calls

OnePart(m, s) ==
    /\ s \in Seq(AllParts)
    /\ Len(s) = 1
    /\ s[1][1] # "use"
    /\ m[1] = "tool" => s[1] = Result(m[2], m[3])
    /\ Content(m) = s

\* Any other message is one part, and no call.
LEMMA PartsOfOther ==
    ASSUME NEW m \in Messages, m[1] # "assistant"
    PROVE  OnePart(m, Parts(m))
<1>1. CASE m[1] = "tool"
  <2>1. m \in {"tool"} \X (1..MaxTurns) \X (1..MaxCalls)
    BY <1>1, MessageKinds
  <2>2. Parts(m) = <<Result(m[2], m[3])>>
    BY <1>1 DEF Parts
  <2>3. Result(m[2], m[3]) \in AllParts /\ Result(m[2], m[3])[1] # "use"
    BY <2>1 DEF AllParts, Result
  <2>4. Content(m) = Parts(m)
    BY <2>2 DEF Content
  <2>5. QED
    BY <2>2, <2>3, <2>4 DEF OnePart
<1>2. CASE m[1] # "tool"
  <2>1. Parts(m) = <<m>>
    BY <1>2 DEF Parts
  <2>2. m \in AllParts /\ m[1] # "use"
    BY KindsOfParts DEF AllParts
  <2>3. Content(m) = Parts(m)
    BY <2>1 DEF Content
  <2>4. QED
    BY <1>2, <2>1, <2>2, <2>3 DEF OnePart
<1>3. QED
  BY <1>1, <1>2

\* Of any message, parts come of it.
LEMMA PartsAreParts ==
    ASSUME NEW m \in Messages
    PROVE  Parts(m) \in Seq(AllParts)
  BY PartsOfAnswer, PartsOfOther DEF AnswerParts, OnePart

\* What PartsOf and Blocks join.
PartLists(c) == [i \in DOMAIN c |-> Parts(c[i])]
BlockLists(M) == [j \in DOMAIN M |-> M[j].blocks]

ShownMessages == [role : {"user", "assistant"}, blocks : Seq(AllParts)]

\* One list of parts for each message of a history.
LEMMA PartListsAreLists ==
    ASSUME NEW c \in Seq(Messages)
    PROVE  /\ PartLists(c) \in Seq(Seq(AllParts)) /\ Len(PartLists(c)) = Len(c)
           /\ \A i \in 1..Len(c) : PartLists(c)[i] = Parts(c[i])
<1>1. Len(c) \in Nat /\ DOMAIN c = 1..Len(c) /\ \A i \in 1..Len(c) : c[i] \in Messages
  BY LenProperties, ElementOfSeq
<1>2. PartLists(c) = [i \in 1..Len(c) |-> Parts(c[i])]
  BY <1>1 DEF PartLists
<1>3. PartLists(c) \in [1..Len(c) -> Seq(AllParts)]
  BY <1>1, <1>2, PartsAreParts
<1>4. PartLists(c) \in Seq(Seq(AllParts)) /\ Len(PartLists(c)) = Len(c)
  BY <1>1, <1>3, SeqDef, LenProperties
<1>5. QED
  BY <1>2, <1>4

\* One list of blocks for each message of a request.
LEMMA BlockListsAreLists ==
    ASSUME NEW M \in Seq(ShownMessages)
    PROVE  /\ BlockLists(M) \in Seq(Seq(AllParts)) /\ Len(BlockLists(M)) = Len(M)
           /\ \A i \in 1..Len(M) : BlockLists(M)[i] = M[i].blocks
<1>1. Len(M) \in Nat /\ DOMAIN M = 1..Len(M) /\ \A i \in 1..Len(M) : M[i] \in ShownMessages
  BY LenProperties, ElementOfSeq
<1>2. BlockLists(M) = [i \in 1..Len(M) |-> M[i].blocks]
  BY <1>1 DEF BlockLists
<1>3. BlockLists(M) \in [1..Len(M) -> Seq(AllParts)]
  BY <1>1, <1>2 DEF ShownMessages
<1>4. BlockLists(M) \in Seq(Seq(AllParts)) /\ Len(BlockLists(M)) = Len(M)
  BY <1>1, <1>3, SeqDef, LenProperties
<1>5. QED
  BY <1>2, <1>4

---------------------------------------------------------------------------
(* The request of phyl-model-anthropic. *)

IsOpening(m) == m[1] \notin {"assistant", "tool"}

\* What the model is shown: no answer follows another or is the last, and the results of
\* an answer's calls come right behind it.
Shaped(c) ==
    /\ c \in Seq(Messages)
    /\ Len(c) >= 1
    /\ IsOpening(c[1])
    /\ \A i \in 2..Len(c) : c[i][1] = "assistant" => c[i - 1][1] # "assistant"
    /\ c[Len(c)][1] # "assistant"
    /\ \A i \in 1..Len(c) :
          c[i][1] = "assistant" =>
              \A k \in 1..Len(c[i][3]) :
                  i + k <= Len(c) /\ c[i + k] = <<"tool", c[i][2], k>>

NoUse(b) == \A k \in 1..Len(b) : b[k][1] # "use"

\* Message j of the request has the answer c[p], and message j + 1 as many of its results
\* as there are among c[1], ..., c[i].
Shows(c, i, M, j, p) ==
    /\ c[p][1] = "assistant"
    /\ M[j].blocks = Parts(c[p])
    /\ j = Len(M) => p = i
    /\ \A k \in 1..Len(c[p][3]) :
          p + k <= i => /\ j < Len(M)
                        /\ k <= Len(M[j + 1].blocks)
                        /\ M[j + 1].blocks[k] = Result(c[p][2], k)
    /\ j < Len(M) /\ i <= p + Len(c[p][3])
          => Len(M) = j + 1 /\ Len(M[j + 1].blocks) = i - p

Turns(c, i, M) ==
    /\ i = 0 => M = <<>>
    /\ i > 0 => Len(M) > 0 /\ M[Len(M)].role = AnthropicRole(c[i])

\* The request after the first i messages.
Merging(c, i, M) ==
    /\ M \in Seq(ShownMessages)
    /\ Turns(c, i, M)
    /\ Alternates(M)
    /\ \A j \in 1..Len(M) : M[j].role = "user" => NoUse(M[j].blocks)
    /\ \A j \in 1..Len(M) :
          M[j].role = "assistant" => \E p \in 1..i : Shows(c, i, M, j, p)

Pushed(M, role, s) == Append(M, [role |-> role, blocks |-> s])
Extended(M, s) == [M EXCEPT ![Len(M)].blocks = @ \o s]

PushGives(M, role, s, N) ==
    /\ N \in Seq(ShownMessages)
    /\ Len(M) \in Nat
    /\ Len(N) = Len(M) + 1
    /\ \A j \in 1..Len(M) : N[j] = M[j]
    /\ N[Len(M) + 1].role = role
    /\ N[Len(M) + 1].blocks = s
    /\ Blocks(N) = Blocks(M) \o s

LEMMA BlocksAreJoined ==
    ASSUME NEW M
    PROVE  Blocks(M) = Joined(BlockLists(M))
  BY DEF Blocks, BlockLists

\* The two ways of merge_or_push: a new message at the end of the request, ...
LEMMA PushedAtTheEnd ==
    ASSUME NEW M \in Seq(ShownMessages), NEW role \in {"user", "assistant"},
           NEW s \in Seq(AllParts)
    PROVE  PushGives(M, role, s, Pushed(M, role, s))
<1> DEFINE x == [role |-> role, blocks |-> s]
           N == Pushed(M, role, s)
<1>1. x \in ShownMessages /\ x.role = role /\ x.blocks = s
  BY DEF ShownMessages
<1>2. N = Append(M, x)
  BY DEF Pushed
<1> HIDE DEF x, N
<1>3. /\ N \in Seq(ShownMessages) /\ Len(M) \in Nat /\ Len(N) = Len(M) + 1
      /\ \A j \in 1..Len(M) : N[j] = M[j]
      /\ N[Len(M) + 1] = x
  BY <1>1, <1>2, AppendProperties, LenProperties
<1>4. Blocks(N) = Blocks(M) \o s
  <2> DEFINE b == BlockLists(M)
             d == BlockLists(N)
  <2>1. /\ b \in Seq(Seq(AllParts)) /\ Len(b) = Len(M)
        /\ \A i \in 1..Len(M) : b[i] = M[i].blocks
    BY BlockListsAreLists
  <2>2. /\ d \in Seq(Seq(AllParts)) /\ Len(d) = Len(N)
        /\ \A i \in 1..Len(N) : d[i] = N[i].blocks
    BY <1>3, BlockListsAreLists
  <2> HIDE DEF b, d
  <2>3. \A i \in 1..Len(b) : d[i] = b[i]
    <3>1. \A i \in 1..Len(M) : i \in 1..Len(N)
      BY <1>3
    <3>2. QED
      BY <3>1, <2>1, <2>2, <1>3
  <2>4. Len(d) = Len(b) + 1
    BY <2>1, <2>2, <1>3
  <2>5. Joined(d) = Joined(b) \o d[Len(d)]
    BY <2>1, <2>2, <2>3, <2>4, JoinedOneMore
  <2>6. d[Len(d)] = s
    <3>1. Len(M) + 1 \in 1..Len(N)
      BY <1>3
    <3>2. QED
      BY <3>1, <2>2, <1>1, <1>3
  <2>7. QED
    BY <2>5, <2>6, BlocksAreJoined DEF b, d
<1>5. QED
  BY <1>1, <1>3, <1>4 DEF PushGives, N

ExtendGives(M, s, N) ==
    /\ N \in Seq(ShownMessages)
    /\ Len(M) \in Nat
    /\ Len(N) = Len(M)
    /\ \A j \in 1..(Len(M) - 1) : N[j] = M[j]
    /\ \A j \in 1..Len(M) : N[j].role = M[j].role
    /\ N[Len(M)].blocks = M[Len(M)].blocks \o s
    /\ Blocks(N) = Blocks(M) \o s

\* ... or more blocks in its last message; each puts them behind all blocks so far.
LEMMA ExtendedAtTheEnd ==
    ASSUME NEW M \in Seq(ShownMessages), Len(M) > 0, NEW s \in Seq(AllParts)
    PROVE  ExtendGives(M, s, Extended(M, s))
<1> DEFINE n == Len(M)
           N == Extended(M, s)
           x == [M[n] EXCEPT !.blocks = @ \o s]
<1>1. n \in Nat /\ DOMAIN M = 1..n /\ n \in 1..n /\ \A j \in 1..n : M[j] \in ShownMessages
  BY LenProperties, ElementOfSeq
<1>2. N = [j \in 1..n |-> IF j = n THEN x ELSE M[j]]
  BY <1>1 DEF Extended
<1>3. M[n].role \in {"user", "assistant"} /\ M[n].blocks \in Seq(AllParts)
  BY <1>1 DEF ShownMessages
<1>4. M[n].blocks \o s \in Seq(AllParts)
  BY <1>3, ConcatProperties
<1>5. x \in ShownMessages /\ x.role = M[n].role /\ x.blocks = M[n].blocks \o s
  BY <1>1, <1>4 DEF ShownMessages
<1> HIDE DEF x, N, n
<1>6. N \in Seq(ShownMessages) /\ Len(N) = n
  <2>1. N \in [1..n -> ShownMessages]
    BY <1>1, <1>2, <1>5
  <2>2. QED
    BY <1>1, <2>1, SeqDef, LenProperties
<1>7. /\ \A j \in 1..(n - 1) : N[j] = M[j]
      /\ \A j \in 1..n : N[j].role = M[j].role
      /\ N[n] = x
  <2>1. \A j \in 1..(n - 1) : j \in 1..n /\ j # n
    BY <1>1
  <2>2. QED
    BY <2>1, <1>1, <1>2, <1>5
<1>8. Blocks(N) = Blocks(M) \o s
  <2> DEFINE b == BlockLists(M)
             d == BlockLists(N)
  <2>1. /\ b \in Seq(Seq(AllParts)) /\ Len(b) = n
        /\ \A i \in 1..n : b[i] = M[i].blocks
    BY BlockListsAreLists DEF n
  <2>2. /\ d \in Seq(Seq(AllParts)) /\ Len(d) = n
        /\ \A i \in 1..n : d[i] = N[i].blocks
    BY <1>6, BlockListsAreLists
  <2> HIDE DEF b, d
  <2>3. \A i \in 1..(Len(b) - 1) : d[i] = b[i]
    <3>1. \A i \in 1..(n - 1) : i \in 1..n
      BY <1>1
    <3>2. QED
      BY <3>1, <2>1, <2>2, <1>7
  <2>4. Len(d) = Len(b) /\ Len(b) > 0
    BY <2>1, <2>2, <1>1
  <2>5. d[Len(b)] = b[Len(b)] \o s
    BY <2>1, <2>2, <1>1, <1>5, <1>7
  <2>6. Joined(d) = Joined(b) \o s
    BY <2>1, <2>2, <2>3, <2>4, <2>5, JoinedLonger
  <2>7. QED
    BY <2>6, BlocksAreJoined DEF b, d
<1>9. QED
  BY <1>1, <1>5, <1>6, <1>7, <1>8 DEF ExtendGives, N, n

\* Which of the two it is depends on the role of the last message.
LEMMA MergedOrPushed ==
    ASSUME NEW M \in Seq(ShownMessages), NEW role, NEW s
    PROVE  /\ Len(M) = 0 \/ M[Len(M)].role # role => MergeOrPush(M, role, s) = Pushed(M, role, s)
           /\ Len(M) > 0 /\ M[Len(M)].role = role => MergeOrPush(M, role, s) = Extended(M, s)
<1>1. (M # <<>> <=> Len(M) > 0) /\ (M # <<>> <=> Len(M) # 0) /\ Last(M) = M[Len(M)]
  BY EmptySeq, LenProperties DEF Last
<1>2. CASE M # <<>> /\ Last(M).role = role
  BY <1>1, <1>2 DEF MergeOrPush, Extended
<1>3. CASE ~ (M # <<>> /\ Last(M).role = role)
  BY <1>1, <1>3 DEF MergeOrPush, Pushed
<1>4. QED
  BY <1>2, <1>3

\* Roles alternate: after a push.
LEMMA AlternatesPushed ==
    ASSUME NEW M \in Seq(ShownMessages), Alternates(M),
           NEW role \in {"user", "assistant"}, NEW s, NEW N, PushGives(M, role, s, N),
           Len(M) = 0 => role = "user",
           Len(M) > 0 => M[Len(M)].role # role
    PROVE  Alternates(N)
<1> DEFINE n == Len(M)
           Of(i) == IF i % 2 = 1 THEN "user" ELSE "assistant"
<1>1. /\ n \in Nat /\ DOMAIN M = 1..n /\ DOMAIN N = 1..(n + 1)
      /\ \A j \in 1..n : N[j] = M[j]
      /\ N[n + 1].role = role
  BY LenProperties DEF PushGives
<1>2. \A j \in 1..n : M[j].role = Of(j)
  BY <1>1 DEF Alternates
<1> HIDE DEF n
<1>3. role = Of(n + 1)
  <2>1. CASE n = 0
    BY <2>1 DEF n
  <2>2. CASE n > 0
    <3>1. n \in 1..n
      BY <1>1, <2>2
    <3>2. M[n].role = Of(n) /\ M[n].role # role
      BY <1>2, <2>2, <3>1 DEF n
    <3>3. Of(n) = "user" <=> Of(n + 1) = "assistant"
      BY <1>1
    <3>4. Of(n) \in {"user", "assistant"} /\ Of(n + 1) \in {"user", "assistant"}
      OBVIOUS
    <3> HIDE DEF Of
    <3>5. QED
      BY <3>2, <3>3, <3>4
  <2>3. QED
    BY <1>1, <2>1, <2>2
<1>4. \A j \in 1..(n + 1) : j \in 1..n \/ j = n + 1
  BY <1>1
<1>5. \A j \in 1..(n + 1) : N[j].role = Of(j)
  <2> HIDE DEF Of
  <2>1. QED
    BY <1>1, <1>2, <1>3, <1>4
<1>6. QED
  BY <1>1, <1>5 DEF Alternates

\* Roles alternate: after more blocks in the last message.
LEMMA AlternatesExtended ==
    ASSUME NEW M \in Seq(ShownMessages), Alternates(M), NEW s, NEW N, ExtendGives(M, s, N)
    PROVE  Alternates(N)
<1>1. /\ Len(M) \in Nat /\ DOMAIN M = 1..Len(M) /\ DOMAIN N = 1..Len(M)
      /\ \A j \in 1..Len(M) : N[j].role = M[j].role
  BY LenProperties DEF ExtendGives
<1>2. QED
  BY <1>1 DEF Alternates

\* What has been said of an answer some messages ago.
LEMMA ShownStays ==
    ASSUME NEW c, Shaped(c), NEW i \in 0..(Len(c) - 1), NEW M, NEW N,
           NEW j \in Nat, NEW p \in 1..i, Shows(c, i, M, j, p),
           Len(M) \in Nat, Len(N) \in Nat,
           j < Len(M), Len(M) <= Len(N), N[j] = M[j], N[j + 1] = M[j + 1],
           ~ (i + 1 <= p + Len(c[p][3]))
    PROVE  Shows(c, i + 1, N, j, p)
<1> DEFINE l == Len(c[p][3])
<1>1. l \in Nat
  <2>1. p \in 1..Len(c) /\ c \in Seq(Messages)
    BY LenProperties DEF Shaped
  <2>2. c[p] \in Messages /\ c[p][1] = "assistant"
    BY <2>1, ElementOfSeq DEF Shows
  <2>3. QED
    BY <2>2, PartsOfAnswer DEF AnswerParts
<1>2. /\ c[p][1] = "assistant" /\ M[j].blocks = Parts(c[p])
      /\ \A k \in 1..l : p + k <= i => /\ j < Len(M)
                                       /\ k <= Len(M[j + 1].blocks)
                                       /\ M[j + 1].blocks[k] = Result(c[p][2], k)
  BY DEF Shows
<1> HIDE DEF l
<1>3. ~ (i + 1 <= p + l) /\ i \in Nat /\ p \in Nat
  BY DEF l
<1>4. \A k \in 1..l : p + k <= i
  BY <1>1, <1>3
<1>5. /\ \A k \in 1..l : p + k <= i + 1 => /\ j < Len(N)
                                           /\ k <= Len(N[j + 1].blocks)
                                           /\ N[j + 1].blocks[k] = Result(c[p][2], k)
      /\ N[j].blocks = Parts(c[p]) /\ j # Len(N)
  BY <1>2, <1>4
<1>6. QED
  BY <1>2, <1>3, <1>5 DEF Shows, l

ResultsBehind(c, p) ==
    /\ Len(c[p][3]) \in Nat
    /\ \A k \in 1..Len(c[p][3]) : p + k <= Len(c) /\ c[p + k] = <<"tool", c[p][2], k>>
    /\ AnswerParts(c[p], Parts(c[p]))

\* An answer of the conversation has all its results behind it, in order.
LEMMA ResultsAreBehind ==
    ASSUME NEW c, Shaped(c), NEW p \in 1..Len(c), c[p][1] = "assistant"
    PROVE  ResultsBehind(c, p)
<1>1. c[p] \in Messages
  BY ElementOfSeq DEF Shaped
<1>2. AnswerParts(c[p], Parts(c[p]))
  BY <1>1, PartsOfAnswer
<1>3. \A k \in 1..Len(c[p][3]) : p + k <= Len(c) /\ c[p + k] = <<"tool", c[p][2], k>>
  BY DEF Shaped
<1>4. QED
  BY <1>2, <1>3 DEF ResultsBehind, AnswerParts

\* A message that is no result of the answer c[p] comes after all of them.
LEMMA NotAmongResults ==
    ASSUME NEW c, Shaped(c), NEW i \in 0..(Len(c) - 1), NEW p \in 1..i,
           c[p][1] = "assistant", c[i + 1][1] # "tool"
    PROVE  ~ (i + 1 <= p + Len(c[p][3]))
<1> DEFINE l == Len(c[p][3])
<1>1. Len(c) \in Nat
  BY LenProperties DEF Shaped
<1>2. p \in 1..Len(c)
  BY <1>1
<1>3. l \in Nat /\ \A k \in 1..l : c[p + k] = <<"tool", c[p][2], k>>
  BY <1>2, ResultsAreBehind DEF ResultsBehind
<1> HIDE DEF l
<1>4. ASSUME i + 1 <= p + l
      PROVE  FALSE
  <2> DEFINE k == i + 1 - p
  <2>1. k \in 1..l /\ p + k = i + 1
    BY <1>1, <1>3, <1>4
  <2> HIDE DEF k
  <2>2. c[i + 1] = <<"tool", c[p][2], k>>
    BY <2>1, <1>3
  <2>3. QED
    BY <2>2
<1>5. QED
  BY <1>4 DEF l

\* An answer is pushed, since what precedes it is none.
LEMMA MergeAnswer ==
    ASSUME NEW c, Shaped(c), NEW i \in 0..(Len(c) - 1), NEW M, Merging(c, i, M),
           c[i + 1][1] = "assistant", NEW N,
           PushGives(M, "assistant", Parts(c[i + 1]), N)
    PROVE  Merging(c, i + 1, N)
<1> DEFINE n == Len(M)
           s == Parts(c[i + 1])
<1>1. /\ Len(c) \in Nat /\ i \in Nat /\ i + 1 \in 1..Len(c)
      /\ c \in Seq(Messages) /\ IsOpening(c[1])
  BY LenProperties DEF Shaped
<1>2. i > 0 /\ c[i][1] # "assistant"
  <2>1. i + 1 # 1
    BY <1>1 DEF IsOpening
  <2>2. i + 1 \in 2..Len(c) /\ (i + 1) - 1 = i
    BY <1>1, <2>1
  <2>3. c[i][1] # "assistant"
    BY <2>2 DEF Shaped
  <2>4. QED
    BY <1>1, <2>1, <2>3
<1>3. /\ M \in Seq(ShownMessages) /\ n > 0 /\ M[n].role = "user" /\ Alternates(M)
      /\ \A j \in 1..n : M[j].role = "user" => NoUse(M[j].blocks)
      /\ \A j \in 1..n : M[j].role = "assistant" => \E p \in 1..i : Shows(c, i, M, j, p)
  BY <1>2 DEF Merging, Turns, AnthropicRole
<1>4. /\ N \in Seq(ShownMessages) /\ n \in Nat /\ Len(N) = n + 1
      /\ \A j \in 1..n : N[j] = M[j]
      /\ N[n + 1].role = "assistant" /\ N[n + 1].blocks = s
  BY DEF PushGives
<1>5. Alternates(N)
  BY <1>3, AlternatesPushed
<1>6. Turns(c, i + 1, N)
  BY <1>1, <1>4 DEF Turns, AnthropicRole
<1>7. \A j \in 1..(n + 1) : j \in 1..n \/ j = n + 1
  BY <1>4
<1> HIDE DEF n, s
<1>8. \A j \in 1..(n + 1) : N[j].role = "user" => NoUse(N[j].blocks)
  BY <1>3, <1>4, <1>7
<1>9. ASSUME NEW j \in 1..n, M[j].role = "assistant"
      PROVE  \E p \in 1..(i + 1) : Shows(c, i + 1, N, j, p)
  <2>1. PICK p \in 1..i : Shows(c, i, M, j, p)
    BY <1>3, <1>9
  <2>2. j < n /\ j + 1 \in 1..n /\ j \in Nat
    BY <1>3, <1>4, <1>9
  <2>3. c[p][1] = "assistant"
    BY <2>1 DEF Shows
  <2>4. ~ (i + 1 <= p + Len(c[p][3]))
    BY <2>3, NotAmongResults
  <2>5. N[j] = M[j] /\ N[j + 1] = M[j + 1] /\ n <= Len(N) /\ Len(N) \in Nat /\ n = Len(M)
    BY <2>2, <1>4 DEF n
  <2>6. Shows(c, i + 1, N, j, p)
    BY <2>1, <2>2, <2>4, <2>5, <1>4, ShownStays
  <2>7. p \in 1..(i + 1)
    BY <1>1
  <2>8. QED
    BY <2>6, <2>7
<1>10. Shows(c, i + 1, N, n + 1, i + 1)
  <2>1. Len(c[i + 1][3]) \in Nat
    BY <1>1, ResultsAreBehind DEF ResultsBehind
  <2>2. \A k \in 1..Len(c[i + 1][3]) : ~ (i + 1 + k <= i + 1)
    BY <1>1, <2>1
  <2>3. ~ (n + 1 < Len(N))
    BY <1>4
  <2>4. QED
    BY <1>4, <2>2, <2>3 DEF Shows, s
<1>11. \A j \in 1..(n + 1) :
          N[j].role = "assistant" => \E p \in 1..(i + 1) : Shows(c, i + 1, N, j, p)
  <2>1. i + 1 \in 1..(i + 1)
    BY <1>1
  <2>2. QED
    BY <2>1, <1>4, <1>7, <1>9, <1>10
<1>12. QED
  BY <1>4, <1>5, <1>6, <1>8, <1>11 DEF Merging

\* Where roles alternate, the neighbour of an answer is a message of the user.
LEMMA AlternatesNext ==
    ASSUME NEW M \in Seq(ShownMessages), Alternates(M), NEW j \in 1..(Len(M) - 1)
    PROVE  M[j].role = "assistant" <=> M[j + 1].role = "user"
<1> DEFINE Of(i) == IF i % 2 = 1 THEN "user" ELSE "assistant"
<1>1. /\ DOMAIN M = 1..Len(M) /\ Len(M) \in Nat
      /\ j \in 1..Len(M) /\ j + 1 \in 1..Len(M) /\ j \in Nat
  BY LenProperties
<1>2. M[j].role = Of(j) /\ M[j + 1].role = Of(j + 1)
  BY <1>1 DEF Alternates
<1>3. Of(j) = "assistant" <=> Of(j + 1) = "user"
  BY <1>1
<1>4. QED
  BY <1>2, <1>3

\* What follows an answer is pushed; if the answer has calls, it is the first result.
LEMMA MergeNew ==
    ASSUME NEW c, Shaped(c), NEW i \in 0..(Len(c) - 1), NEW M, Merging(c, i, M),
           c[i + 1][1] # "assistant",
           Len(M) = 0 \/ M[Len(M)].role # "user",
           NEW N, PushGives(M, "user", Parts(c[i + 1]), N)
    PROVE  Merging(c, i + 1, N)
<1> DEFINE n == Len(M)
           m == c[i + 1]
           s == Parts(m)
<1>1. /\ Len(c) \in Nat /\ i \in Nat /\ i + 1 \in 1..Len(c) /\ c \in Seq(Messages)
      /\ i <= Len(c) /\ i + 1 <= Len(c)
  BY LenProperties DEF Shaped
<1>2. /\ M \in Seq(ShownMessages) /\ Alternates(M)
      /\ \A j \in 1..n : M[j].role = "user" => NoUse(M[j].blocks)
      /\ \A j \in 1..n : M[j].role = "assistant" => \E p \in 1..i : Shows(c, i, M, j, p)
      /\ i = 0 => n = 0
      /\ i > 0 => n > 0 /\ M[n].role = AnthropicRole(c[i])
  BY DEF Merging, Turns
<1>3. /\ N \in Seq(ShownMessages) /\ n \in Nat /\ Len(N) = n + 1
      /\ \A j \in 1..n : N[j] = M[j]
      /\ N[n + 1].role = "user" /\ N[n + 1].blocks = s
  BY DEF PushGives
<1>4. OnePart(m, s)
  <2>1. m \in Messages
    BY <1>1, ElementOfSeq
  <2>2. QED
    BY <2>1, PartsOfOther
<1>5. Alternates(N)
  BY <1>2, AlternatesPushed
<1>6. Turns(c, i + 1, N)
  BY <1>1, <1>3 DEF Turns, AnthropicRole
<1>7. n > 0 => i > 0 /\ M[n].role = "assistant" /\ c[i][1] = "assistant"
  <2>1. AnthropicRole(c[i]) # "user" => c[i][1] = "assistant"
    BY DEF AnthropicRole
  <2>2. AnthropicRole(c[i]) # "user" => AnthropicRole(c[i]) = "assistant"
    BY DEF AnthropicRole
  <2>3. QED
    BY <2>1, <2>2, <1>1, <1>2
<1>8. \A j \in 1..(n + 1) : j \in 1..n \/ j = n + 1
  BY <1>3
<1>9. NoUse(s)
  BY <1>4 DEF OnePart, NoUse
<1>10. n = Len(M) /\ m = c[i + 1]
  OBVIOUS
<1> HIDE DEF n, m, s
<1>11. \A j \in 1..(n + 1) : N[j].role = "user" => NoUse(N[j].blocks)
  BY <1>2, <1>3, <1>8, <1>9
<1>12. ASSUME NEW j \in 1..n, M[j].role = "assistant"
       PROVE  \E p \in 1..(i + 1) : Shows(c, i + 1, N, j, p)
  <2>1. PICK p \in 1..i : Shows(c, i, M, j, p)
    BY <1>2, <1>12
  <2>2. /\ c[p][1] = "assistant" /\ p \in 1..Len(c) /\ p \in 1..(i + 1)
        /\ M[j].blocks = Parts(c[p])
    BY <2>1, <1>1 DEF Shows
  <2> DEFINE l == Len(c[p][3])
  <2>3. l \in Nat /\ \A k \in 1..l : c[p + k] = <<"tool", c[p][2], k>>
    BY <2>2, ResultsAreBehind DEF ResultsBehind
  <2>4. CASE j = n
    <3>1. p = i /\ N[j].blocks = Parts(c[p])
      BY <2>1, <2>2, <2>4, <1>3, <1>10 DEF Shows
    <3> HIDE DEF l
    <3>2. j # Len(N) /\ j < Len(N) /\ Len(N) = j + 1
      BY <2>4, <1>3
    <3>3. N[j + 1].blocks = s /\ Len(s) = 1
      BY <2>4, <1>3, <1>4 DEF OnePart
    <3>4. ASSUME NEW k \in 1..l, p + k <= i + 1
          PROVE  j < Len(N) /\ k <= Len(N[j + 1].blocks)
                 /\ N[j + 1].blocks[k] = Result(c[p][2], k)
      <4>1. k = 1 /\ p + k = i + 1
        BY <3>1, <3>4, <2>3, <1>1
      <4>2. m = <<"tool", c[p][2], k>>
        BY <4>1, <2>3, <1>10
      <4>3. s[1] = Result(c[p][2], k)
        BY <4>2, <1>4 DEF OnePart
      <4>4. QED
        BY <4>1, <4>3, <3>2, <3>3
    <3>5. i + 1 - p = 1
      BY <3>1, <1>1
    <3>6. Shows(c, i + 1, N, j, p)
      BY <2>2, <3>1, <3>2, <3>3, <3>4, <3>5 DEF Shows, l
    <3>7. QED
      BY <2>2, <3>6
  <2>5. CASE j # n
    <3>1. j \in 1..(Len(M) - 1) /\ j + 1 \in 1..n /\ j \in Nat /\ j < n
      BY <2>5, <1>3, <1>10
    <3>2. M[j + 1].role = "user"
      BY <3>1, <1>2, <1>12, AlternatesNext
    <3>3. n # j + 1
      BY <3>1, <3>2, <1>7
    <3>4. ~ (i <= p + l)
      <4>1. j < Len(M) /\ i <= p + l => Len(M) = j + 1
        BY <2>1 DEF Shows
      <4>2. QED
        BY <4>1, <3>1, <3>3, <1>10
    <3> HIDE DEF l
    <3>5. ~ (i + 1 <= p + l)
      BY <3>4, <2>3, <1>1
    <3>6. N[j] = M[j] /\ N[j + 1] = M[j + 1] /\ Len(M) <= Len(N) /\ Len(N) \in Nat
          /\ Len(M) \in Nat /\ j < Len(M)
      BY <3>1, <1>3, <1>10
    <3>7. Shows(c, i + 1, N, j, p)
      BY <2>1, <3>1, <3>5, <3>6, ShownStays DEF l
    <3>8. QED
      BY <2>2, <3>7
  <2>6. QED
    BY <2>4, <2>5
<1>13. \A j \in 1..(n + 1) :
          N[j].role = "assistant" => \E p \in 1..(i + 1) : Shows(c, i + 1, N, j, p)
  BY <1>3, <1>8, <1>12
<1>14. QED
  BY <1>3, <1>5, <1>6, <1>11, <1>13 DEF Merging

\* Anything else goes behind what the last message has, the next result among them.
LEMMA MergeMore ==
    ASSUME NEW c, Shaped(c), NEW i \in 0..(Len(c) - 1), NEW M, Merging(c, i, M),
           c[i + 1][1] # "assistant",
           Len(M) > 0, M[Len(M)].role = "user",
           NEW N, ExtendGives(M, Parts(c[i + 1]), N)
    PROVE  Merging(c, i + 1, N)
<1> DEFINE n == Len(M)
           m == c[i + 1]
           s == Parts(m)
           b == M[n].blocks
           d == N[n].blocks
<1>1. /\ Len(c) \in Nat /\ i \in Nat /\ i + 1 \in 1..Len(c) /\ c \in Seq(Messages)
      /\ i <= Len(c) /\ i + 1 <= Len(c)
  BY LenProperties DEF Shaped
<1>2. /\ M \in Seq(ShownMessages) /\ Alternates(M)
      /\ \A j \in 1..n : M[j].role = "user" => NoUse(M[j].blocks)
      /\ \A j \in 1..n : M[j].role = "assistant" => \E p \in 1..i : Shows(c, i, M, j, p)
  BY DEF Merging
<1>3. /\ N \in Seq(ShownMessages) /\ n \in Nat /\ Len(N) = n
      /\ \A j \in 1..(n - 1) : N[j] = M[j]
      /\ \A j \in 1..n : N[j].role = M[j].role
      /\ d = b \o s
  BY DEF ExtendGives
<1>4. OnePart(m, s)
  <2>1. m \in Messages
    BY <1>1, ElementOfSeq
  <2>2. QED
    BY <2>1, PartsOfOther
<1>5. Alternates(N)
  BY <1>2, AlternatesExtended
<1>6. Turns(c, i + 1, N)
  BY <1>1, <1>3 DEF Turns, AnthropicRole
<1>7. n > 0 /\ n \in 1..n /\ M[n].role = "user" /\ NoUse(b)
  BY <1>2, <1>3
<1>8. b \in Seq(AllParts)
  <2>1. M[n] \in ShownMessages
    BY <1>2, <1>7, ElementOfSeq
  <2>2. QED
    BY <2>1 DEF ShownMessages
<1>9. n = Len(M) /\ m = c[i + 1] /\ b = M[n].blocks /\ d = N[n].blocks
  OBVIOUS
<1> HIDE DEF n, m, s, b, d
<1>10. /\ Len(b) \in Nat /\ Len(d) = Len(b) + 1
       /\ \A k \in 1..Len(b) : d[k] = b[k]
       /\ d[Len(b) + 1] = s[1]
  <2>1. s \in Seq(AllParts) /\ Len(s) = 1
    BY <1>4 DEF OnePart
  <2>2. /\ Len(d) = Len(b) + Len(s)
        /\ \A k \in 1..Len(b) + Len(s) : d[k] = IF k <= Len(b) THEN b[k] ELSE s[k - Len(b)]
    <3> DEFINE u == b \o s
    <3>1. /\ Len(u) = Len(b) + Len(s)
          /\ \A k \in 1..Len(b) + Len(s) : u[k] = IF k <= Len(b) THEN b[k] ELSE s[k - Len(b)]
      BY <2>1, <1>8, ConcatProperties
    <3>2. d = u
      BY <1>3
    <3> HIDE DEF u
    <3>3. QED
      BY <3>1, <3>2
  <2>3. Len(b) \in Nat
    BY <1>8, LenProperties
  <2>4. \A k \in 1..Len(b) : k \in 1..Len(b) + 1 /\ k <= Len(b)
    BY <2>3
  <2>5. Len(b) + 1 \in 1..Len(b) + 1 /\ ~ (Len(b) + 1 <= Len(b)) /\ (Len(b) + 1) - Len(b) = 1
    BY <2>3
  <2>6. QED
    BY <2>1, <2>2, <2>3, <2>4, <2>5
<1>11. NoUse(d)
  <2>1. s[1][1] # "use"
    BY <1>4 DEF OnePart
  <2>2. \A k \in 1..(Len(b) + 1) : k \in 1..Len(b) \/ k = Len(b) + 1
    BY <1>10
  <2>3. QED
    BY <2>1, <2>2, <1>7, <1>10 DEF NoUse
<1>12. \A j \in 1..n : N[j].role = "user" => NoUse(N[j].blocks)
  <2>1. \A j \in 1..n : j \in 1..(n - 1) \/ j = n
    BY <1>3
  <2>2. QED
    BY <2>1, <1>2, <1>3, <1>9, <1>11
<1>13. ASSUME NEW j \in 1..n, M[j].role = "assistant"
       PROVE  \E p \in 1..(i + 1) : Shows(c, i + 1, N, j, p)
  <2>1. PICK p \in 1..i : Shows(c, i, M, j, p)
    BY <1>2, <1>13
  <2>2. /\ c[p][1] = "assistant" /\ p \in 1..Len(c) /\ p \in 1..(i + 1) /\ p \in Nat
        /\ M[j].blocks = Parts(c[p])
    BY <2>1, <1>1 DEF Shows
  <2> DEFINE l == Len(c[p][3])
  <2>3. l \in Nat /\ \A k \in 1..l : c[p + k] = <<"tool", c[p][2], k>>
    BY <2>2, ResultsAreBehind DEF ResultsBehind
  <2>4. j # n
    BY <1>7, <1>13
  <2>5. j \in 1..(n - 1) /\ j < n /\ j + 1 \in 1..n /\ N[j] = M[j] /\ j \in Nat
    BY <2>4, <1>3
  <2>6. /\ \A k \in 1..l : p + k <= i => /\ k <= Len(M[j + 1].blocks)
                                        /\ M[j + 1].blocks[k] = Result(c[p][2], k)
        /\ i <= p + l => n = j + 1 /\ Len(M[j + 1].blocks) = i - p
    BY <2>1, <2>5, <1>9 DEF Shows
  <2>7. CASE j + 1 = n
    <3> HIDE DEF l
    <3>1. M[j + 1].blocks = b /\ N[j + 1].blocks = d
      BY <2>7, <1>9
    <3>2. ASSUME NEW k \in 1..l, p + k <= i + 1
          PROVE  k <= Len(d) /\ d[k] = Result(c[p][2], k)
      <4>1. CASE p + k <= i
        <5>1. k <= Len(b) /\ b[k] = Result(c[p][2], k)
          BY <4>1, <2>6, <3>1
        <5>2. k \in 1..Len(b) /\ k <= Len(b) + 1
          BY <5>1, <1>10, <2>3
        <5>3. QED
          BY <5>1, <5>2, <1>10
      <4>2. CASE ~ (p + k <= i)
        <5>1. p + k = i + 1 /\ i <= p + l /\ k = (i - p) + 1
          BY <4>2, <3>2, <2>2, <2>3, <1>1
        <5>2. Len(b) = i - p
          BY <5>1, <2>6, <3>1
        <5>3. k = Len(b) + 1
          BY <5>1, <5>2
        <5>4. m = <<"tool", c[p][2], k>>
          BY <5>1, <2>3, <1>9
        <5>5. s[1] = Result(c[p][2], k)
          BY <5>4, <1>4 DEF OnePart
        <5>6. k <= Len(d)
          BY <5>3, <1>10, <2>3
        <5>7. QED
          BY <5>3, <5>5, <5>6, <1>10
      <4>3. QED
        BY <4>1, <4>2
    <3>3. i + 1 <= p + l => Len(d) = (i + 1) - p
      <4>1. i + 1 <= p + l => i <= p + l
        BY <1>1, <2>2, <2>3
      <4>2. i + 1 <= p + l => Len(b) = i - p
        BY <4>1, <2>6, <3>1
      <4>3. (i - p) + 1 = (i + 1) - p
        BY <1>1, <2>2
      <4>4. QED
        BY <4>2, <4>3, <1>10
    <3>4. N[j].blocks = Parts(c[p]) /\ j # Len(N) /\ j < Len(N) /\ Len(N) = j + 1
      BY <2>2, <2>5, <2>7, <1>3
    <3>5. Shows(c, i + 1, N, j, p)
      BY <2>2, <3>1, <3>2, <3>3, <3>4 DEF Shows, l
    <3>6. QED
      BY <2>2, <3>5
  <2>8. CASE j + 1 # n
    <3>1. ~ (i <= p + l)
      BY <2>6, <2>8
    <3> HIDE DEF l
    <3>2. ~ (i + 1 <= p + l)
      BY <3>1, <2>2, <2>3, <1>1
    <3>3. j + 1 \in 1..(n - 1)
      BY <2>5, <2>8, <1>3
    <3>4. N[j] = M[j] /\ N[j + 1] = M[j + 1] /\ Len(M) <= Len(N) /\ Len(N) \in Nat
          /\ Len(M) \in Nat /\ j < Len(M)
      BY <2>5, <3>3, <1>3, <1>9
    <3>5. Shows(c, i + 1, N, j, p)
      BY <2>1, <2>5, <3>2, <3>4, ShownStays DEF l
    <3>6. QED
      BY <2>2, <3>5
  <2>9. QED
    BY <2>7, <2>8
<1>14. \A j \in 1..n : N[j].role = "assistant" => \E p \in 1..(i + 1) : Shows(c, i + 1, N, j, p)
  BY <1>3, <1>13
<1>15. QED
  BY <1>3, <1>5, <1>6, <1>12, <1>14 DEF Merging

\* F[n] is the request after the first n messages.
Merges(F, c) ==
    /\ DOMAIN F = 0..Len(c)
    /\ F[0] = <<>>
    /\ \A n \in 1..Len(c) : F[n] = MergeOrPush(F[n - 1], AnthropicRole(c[n]), Parts(c[n]))

\* Merged(c) is reached message by message: the recursion of its definition has a solution.
LEMMA MergedMerges ==
    ASSUME NEW A, NEW c \in Seq(A)
    PROVE  \E F : Merges(F, c) /\ Merged(c) = F[Len(c)]
<1> DEFINE N == Len(c)
           Step(f) == [n \in 0..N |-> IF n = 0 THEN <<>>
                                      ELSE MergeOrPush(f[n - 1], AnthropicRole(c[n]), Parts(c[n]))]
           F == CHOOSE f : f = Step(f)
           Good(f, m) == /\ DOMAIN f = 0..m
                         /\ f[0] = <<>>
                         /\ \A n \in 1..m :
                               f[n] = MergeOrPush(f[n - 1], AnthropicRole(c[n]), Parts(c[n]))
           Bad == {m \in 0..N : \A f : ~ Good(f, m)}
<1>1. N \in Nat
  BY LenProperties
<1> HIDE DEF N
<1>2. Bad = {}
  <2>1. SUFFICES ASSUME Bad # {}
                 PROVE  FALSE
    OBVIOUS
  <2>2. Bad \subseteq Nat
    <3>1. 0..N \subseteq Nat
      BY <1>1
    <3> HIDE DEF Good
    <3>2. QED
      BY <3>1
  <2> HIDE DEF Bad
  <2>3. PICK m \in Bad : \A i \in Bad : m <= i
    BY <2>1, <2>2, LeastNumber
  <2>4. m \in 0..N /\ \A f : ~ Good(f, m)
    BY <2>3 DEF Bad
  <2>5. m # 0
    <3> DEFINE f == [n \in 0..0 |-> <<>>]
    <3>1. Good(f, 0)
      OBVIOUS
    <3> HIDE DEF f, Good
    <3>2. QED
      BY <3>1, <2>4
  <2>6. m - 1 \in 0..N /\ m - 1 \notin Bad
    <3>1. m - 1 \in 0..N /\ m - 1 < m /\ m - 1 \in Nat /\ m \in Nat
      BY <2>4, <2>5, <1>1
    <3>2. ~ (m <= m - 1)
      BY <3>1
    <3>3. QED
      BY <3>1, <3>2, <2>3
  <2>7. PICK g : Good(g, m - 1)
    <3> HIDE DEF Good
    <3>1. QED
      BY <2>6 DEF Bad
  <2> DEFINE x == MergeOrPush(g[m - 1], AnthropicRole(c[m]), Parts(c[m]))
             f == [n \in 0..m |-> IF n = m THEN x ELSE g[n]]
  <2>8. Good(f, m)
    <3>1. m \in Nat /\ m > 0 /\ m - 1 \in Nat
      BY <2>4, <2>5, <1>1
    <3>2. ASSUME NEW n \in 1..m
          PROVE  f[n] = MergeOrPush(f[n - 1], AnthropicRole(c[n]), Parts(c[n]))
      <4>1. n - 1 \in 0..m /\ n \in 0..m /\ n - 1 # m
        BY <3>1
      <4>2. f[n - 1] = g[n - 1]
        BY <4>1
      <4>3. CASE n = m
        <5>1. f[n] = x
          BY <4>1, <4>3
        <5> HIDE DEF f
        <5>2. QED
          BY <4>2, <4>3, <5>1
      <4>4. CASE n # m
        <5>1. n \in 1..(m - 1)
          BY <3>1, <4>4
        <5>2. f[n] = g[n]
          BY <4>1, <4>4
        <5> HIDE DEF f, x
        <5>3. QED
          BY <5>1, <5>2, <4>2, <2>7
      <4>5. QED
        BY <4>3, <4>4
    <3>3. f[0] = <<>>
      BY <3>1, <2>7
    <3>4. DOMAIN f = 0..m
      OBVIOUS
    <3> HIDE DEF f
    <3>5. QED
      BY <3>2, <3>3, <3>4
  <2> HIDE DEF f, Good
  <2>9. QED
    BY <2>8, <2>4
<1>3. \E f : Good(f, N)
  <2> HIDE DEF Good
  <2>1. N \in 0..N
    BY <1>1
  <2>2. QED
    BY <2>1, <1>2
<1>4. \E f : f = Step(f)
  <2>1. PICK g : Good(g, N)
    BY <1>3
  <2> DEFINE f == [n \in 0..N |-> g[n]]
  <2>2. Good(f, N)
    <3>1. \A n \in 1..N : n \in 0..N /\ n - 1 \in 0..N
      BY <1>1
    <3>2. 0 \in 0..N
      BY <1>1
    <3>3. QED
      BY <3>1, <3>2, <2>1
  <2>3. \A n \in 0..N :
           f[n] = IF n = 0 THEN <<>>
                  ELSE MergeOrPush(f[n - 1], AnthropicRole(c[n]), Parts(c[n]))
    <3>1. \A n \in 0..N : n # 0 => n \in 1..N
      BY <1>1
    <3> HIDE DEF f
    <3>2. QED
      BY <3>1, <2>2
  <2>4. f = [n \in 0..N |-> f[n]]
    OBVIOUS
  <2> HIDE DEF f
  <2>5. f = Step(f)
    BY <2>3, <2>4
  <2> HIDE DEF Step
  <2>6. QED
    BY <2>5
<1>5. F = Step(F)
  <2> HIDE DEF Step
  <2>1. QED
    BY <1>4
<1>6. Merged(c) = F[N]
  BY DEF Merged, N
<1> HIDE DEF F
<1>7. /\ DOMAIN F = 0..N
      /\ \A n \in 0..N : F[n] = IF n = 0 THEN <<>>
                                ELSE MergeOrPush(F[n - 1], AnthropicRole(c[n]), Parts(c[n]))
  <2> DEFINE S == Step(F)
  <2>1. /\ DOMAIN S = 0..N
        /\ \A n \in 0..N : S[n] = IF n = 0 THEN <<>>
                                  ELSE MergeOrPush(F[n - 1], AnthropicRole(c[n]), Parts(c[n]))
    OBVIOUS
  <2>2. F = S
    BY <1>5
  <2> HIDE DEF S, Step
  <2>3. QED
    BY <2>1, <2>2
<1>8. Merges(F, c)
  <2>1. \A n \in 1..N : n \in 0..N /\ n # 0
    BY <1>1
  <2>2. 0 \in 0..N
    BY <1>1
  <2>3. QED
    BY <1>7, <2>1, <2>2 DEF Merges, N
<1>9. QED
  BY <1>6, <1>8 DEF N

\* One more message.
LEMMA MergeOne ==
    ASSUME NEW c, Shaped(c), NEW i \in 0..(Len(c) - 1), NEW M, Merging(c, i, M), NEW N,
           N = MergeOrPush(M, AnthropicRole(c[i + 1]), Parts(c[i + 1]))
    PROVE  Merging(c, i + 1, N) /\ Blocks(N) = Blocks(M) \o Parts(c[i + 1])
<1> DEFINE s == Parts(c[i + 1])
           r == AnthropicRole(c[i + 1])
<1>1. c \in Seq(Messages) /\ i + 1 \in 1..Len(c) /\ Len(c) \in Nat
  BY LenProperties DEF Shaped
<1>2. s \in Seq(AllParts)
  <2>1. c[i + 1] \in Messages
    BY <1>1, ElementOfSeq
  <2>2. QED
    BY <2>1, PartsAreParts
<1>3. M \in Seq(ShownMessages) /\ Turns(c, i, M)
  BY DEF Merging
<1>4. r = (IF c[i + 1][1] = "assistant" THEN "assistant" ELSE "user") /\ r \in {"user", "assistant"}
  BY DEF AnthropicRole
<1>5. N = MergeOrPush(M, r, s)
  OBVIOUS
<1> HIDE DEF s, r
<1>6. CASE Len(M) = 0 \/ M[Len(M)].role # r
  <2>1. N = Pushed(M, r, s)
    BY <1>3, <1>5, <1>6, MergedOrPushed
  <2>2. PushGives(M, r, s, N)
    BY <2>1, <1>2, <1>3, <1>4, PushedAtTheEnd
  <2>3. Blocks(N) = Blocks(M) \o s
    BY <2>2 DEF PushGives
  <2>4. Merging(c, i + 1, N)
    <3>1. CASE c[i + 1][1] = "assistant"
      <4>1. PushGives(M, "assistant", Parts(c[i + 1]), N)
        BY <3>1, <2>2, <1>4 DEF s
      <4>2. QED
        BY <3>1, <4>1, MergeAnswer
    <3>2. CASE c[i + 1][1] # "assistant"
      <4>1. PushGives(M, "user", Parts(c[i + 1]), N)
        BY <3>2, <2>2, <1>4 DEF s
      <4>2. Len(M) = 0 \/ M[Len(M)].role # "user"
        BY <3>2, <1>4, <1>6
      <4>3. QED
        BY <3>2, <4>1, <4>2, MergeNew
    <3>3. QED
      BY <3>1, <3>2
  <2>5. QED
    BY <2>3, <2>4 DEF s
<1>7. CASE ~ (Len(M) = 0 \/ M[Len(M)].role # r)
  <2>1. Len(M) > 0 /\ M[Len(M)].role = r
    BY <1>3, <1>7, LenProperties
  <2>2. N = Extended(M, s)
    BY <2>1, <1>3, <1>5, MergedOrPushed
  <2>3. ExtendGives(M, s, N)
    BY <2>1, <2>2, <1>2, <1>3, ExtendedAtTheEnd
  <2>4. Blocks(N) = Blocks(M) \o s
    BY <2>3 DEF ExtendGives
  <2>5. c[i + 1][1] # "assistant"
    <3>1. SUFFICES ASSUME c[i + 1][1] = "assistant"
                   PROVE  FALSE
      OBVIOUS
    <3>2. i + 1 # 1
      BY <3>1 DEF Shaped, IsOpening
    <3>3. i + 1 \in 2..Len(c) /\ (i + 1) - 1 = i /\ i > 0
      BY <3>2, <1>1
    <3>4. c[i][1] # "assistant"
      BY <3>1, <3>3 DEF Shaped
    <3>5. M[Len(M)].role = "user"
      BY <3>3, <3>4, <1>3 DEF Turns, AnthropicRole
    <3>6. QED
      BY <3>1, <3>5, <2>1, <1>4
  <2>6. M[Len(M)].role = "user"
    BY <2>1, <2>5, <1>4
  <2>7. Merging(c, i + 1, N)
    <3>1. ExtendGives(M, Parts(c[i + 1]), N)
      BY <2>3 DEF s
    <3>2. QED
      BY <3>1, <2>1, <2>5, <2>6, MergeMore
  <2>8. QED
    BY <2>4, <2>7 DEF s
<1>8. QED
  BY <1>6, <1>7

\* The whole request, by way of the first message at which it would go wrong.
LEMMA MergedInOrder ==
    ASSUME NEW c, Shaped(c)
    PROVE  Merging(c, Len(c), Merged(c)) /\ Blocks(Merged(c)) = PartsOf(c)
<1> DEFINE n == Len(c)
           ps == PartLists(c)
<1>1. c \in Seq(Messages) /\ n \in Nat
  BY LenProperties DEF Shaped
<1>2. PICK F : Merges(F, c) /\ Merged(c) = F[n]
  BY <1>1, MergedMerges
<1>3. /\ ps \in Seq(Seq(AllParts)) /\ Len(ps) = n /\ \A i \in 1..n : ps[i] = Parts(c[i])
  BY <1>1, PartListsAreLists
<1>4. PICK J : Accumulates(J, ps) /\ Joined(ps) = J[n]
  BY <1>3, JoinedAccumulates
<1>5. PartsOf(c) = J[n]
  BY <1>4 DEF PartsOf, PartLists
<1> HIDE DEF n, ps
<1>6. /\ F[0] = <<>>
      /\ \A i \in 1..n : F[i] = MergeOrPush(F[i - 1], AnthropicRole(c[i]), Parts(c[i]))
  BY <1>2 DEF Merges, n
<1>7. J[0] = <<>> /\ \A i \in 1..n : J[i] = J[i - 1] \o Parts(c[i])
  BY <1>3, <1>4 DEF Accumulates
<1> DEFINE Right(i) == Merging(c, i, F[i]) /\ Blocks(F[i]) = J[i]
           Bad == {i \in 0..n : ~ Right(i)}
<1>8. Right(0)
  <2> DEFINE e == F[0]
  <2>1. e = <<>> /\ e \in Seq(ShownMessages) /\ Len(e) = 0 /\ DOMAIN e = 1..0
    BY <1>6
  <2> HIDE DEF e
  <2>2. Alternates(e) /\ Turns(c, 0, e)
    BY <2>1 DEF Alternates, Turns
  <2>3. \A j \in 1..Len(e) : FALSE
    BY <2>1
  <2>4. Merging(c, 0, e)
    BY <2>1, <2>2, <2>3 DEF Merging
  <2>5. Blocks(e) = <<>>
    <3> DEFINE b == BlockLists(e)
    <3>1. b \in Seq(Seq(AllParts)) /\ Len(b) = 0
      BY <2>1, BlockListsAreLists
    <3> HIDE DEF b
    <3>2. Joined(b) = <<>>
      BY <3>1, JoinedNone
    <3>3. QED
      BY <3>2, BlocksAreJoined DEF b
  <2>6. QED
    BY <2>4, <2>5, <1>7 DEF e
<1>9. ASSUME NEW i \in 0..(n - 1), Right(i)
      PROVE  Right(i + 1)
  <2>1. i + 1 \in 1..n /\ (i + 1) - 1 = i /\ i \in 0..(Len(c) - 1)
    BY <1>1 DEF n
  <2>2. F[i + 1] = MergeOrPush(F[i], AnthropicRole(c[i + 1]), Parts(c[i + 1]))
    BY <2>1, <1>6
  <2>3. J[i + 1] = J[i] \o Parts(c[i + 1])
    BY <2>1, <1>7
  <2>4. Merging(c, i + 1, F[i + 1]) /\ Blocks(F[i + 1]) = Blocks(F[i]) \o Parts(c[i + 1])
    BY <2>1, <2>2, <1>9, MergeOne
  <2>5. QED
    BY <2>3, <2>4, <1>9
<1> HIDE DEF Right
<1>10. Bad = {}
  <2>1. SUFFICES ASSUME Bad # {}
                 PROVE  FALSE
    OBVIOUS
  <2>2. Bad \subseteq Nat
    BY <1>1
  <2>3. PICK m \in Bad : \A i \in Bad : m <= i
    <3> HIDE DEF Bad
    <3>1. QED
      BY <2>1, <2>2, LeastNumber
  <2>4. m \in 0..n /\ m # 0
    BY <2>3, <1>8
  <2>5. m - 1 \in 0..(n - 1) /\ m - 1 \in 0..n /\ ~ (m <= m - 1) /\ (m - 1) + 1 = m
    BY <2>4, <1>1
  <2>6. Right(m - 1)
    BY <2>3, <2>5
  <2>7. Right((m - 1) + 1)
    BY <2>5, <2>6, <1>9
  <2>8. QED
    BY <2>3, <2>5, <2>7
<1>11. Right(n)
  <2>1. n \in 0..n
    BY <1>1
  <2>2. QED
    BY <2>1, <1>10
<1>12. QED
  BY <1>11, <1>2, <1>5 DEF Right, n

---------------------------------------------------------------------------
(* Calls and results in a request. *)

LEMMA NothingUsed ==
    ASSUME NEW b \in Seq(AllParts), NoUse(b)
    PROVE  Uses(b) = {}
<1>1. DOMAIN b = 1..Len(b)
  BY LenProperties
<1>2. \A p \in Range(b) : p[1] # "use"
  BY <1>1 DEF NoUse, Range
<1>3. QED
  BY <1>2 DEF Uses

\* The calls of one answer differ.
LEMMA CardinalityOfUses ==
    ASSUME NEW t, NEW l \in Nat
    PROVE  Cardinality({Use(t, k) : k \in 1..l}) = l
<1> DEFINE S == {Use(t, k) : k \in 1..l}
           f == [k \in 1..l |-> Use(t, k)]
<1>1. \A k \in 1..l : f[k] = Use(t, k) /\ Use(t, k) \in S /\ Use(t, k)[3] = k
  BY KindsOfParts
<1>2. f \in [1..l -> S]
  BY <1>1
<1>3. \A x \in S : \E k \in 1..l : f[k] = x
  BY <1>1
<1>4. \A j, k \in 1..l : f[j] = f[k] => j = k
  BY <1>1
<1> HIDE DEF f, S
<1>5. f \in Bijection(1..l, S)
  BY <1>2, <1>3, <1>4 DEF Bijection, Injection, Surjection, IsInjective
<1>6. Cardinality(S) = Cardinality(1..l)
  BY <1>5, UpTo, FS_Bijection DEF ExistsBijection
<1>7. QED
  BY <1>6, UpTo DEF S

\* The calls of an answer, as many as it makes.
LEMMA UsesOfAnswer ==
    ASSUME NEW m \in Messages, m[1] = "assistant"
    PROVE  /\ Uses(Parts(m)) = {Use(m[2], k) : k \in 1..Len(m[3])}
           /\ Cardinality(Uses(Parts(m))) = Len(m[3])
           /\ Answering(Uses(Parts(m))) = {Result(m[2], k) : k \in 1..Len(m[3])}
<1> DEFINE s == Parts(m)
           t == m[2]
           l == Len(m[3])
           S == {Use(t, k) : k \in 1..l}
<1>1. /\ s \in Seq(AllParts) /\ l \in Nat /\ Len(s) = l + 1
      /\ s[1] = Said(t) /\ \A k \in 1..l : s[k + 1] = Use(t, k)
  BY PartsOfAnswer DEF AnswerParts
<1> HIDE DEF s, t, l
<1>2. DOMAIN s = 1..(l + 1)
  BY <1>1, LenProperties
<1>3. ASSUME NEW x \in Uses(s)
      PROVE  x \in S
  <2>1. PICK i \in 1..(l + 1) : x = s[i]
    BY <1>2 DEF Uses, Range
  <2>2. x[1] = "use"
    BY DEF Uses
  <2>3. i # 1
    BY <2>1, <2>2, <1>1, KindsOfParts
  <2>4. i - 1 \in 1..l /\ (i - 1) + 1 = i
    BY <2>3, <1>1
  <2>5. x = Use(t, i - 1)
    BY <2>1, <2>4, <1>1
  <2>6. QED
    BY <2>4, <2>5
<1>4. ASSUME NEW k \in 1..l
      PROVE  Use(t, k) \in Uses(s)
  <2>1. k + 1 \in DOMAIN s /\ s[k + 1] = Use(t, k)
    BY <1>1, <1>2
  <2>2. Use(t, k) \in Range(s)
    BY <2>1 DEF Range
  <2>3. QED
    BY <2>2, KindsOfParts DEF Uses
<1>5. Uses(s) = S
  BY <1>3, <1>4
<1>6. Cardinality(S) = l
  BY <1>1, CardinalityOfUses
<1>7. Answering(S) = {Result(t, k) : k \in 1..l}
  <2>1. \A k \in 1..l : Use(t, k)[2] = t /\ Use(t, k)[3] = k
    BY KindsOfParts
  <2>2. Answering(S) = {Result(p[2], p[3]) : p \in S}
    BY DEF Answering
  <2>3. \A x \in {Result(p[2], p[3]) : p \in S} : \E k \in 1..l : x = Result(t, k)
    BY <2>1
  <2>4. \A k \in 1..l : Result(t, k) \in {Result(p[2], p[3]) : p \in S}
    <3>1. ASSUME NEW k \in 1..l
          PROVE  \E p \in S : Result(t, k) = Result(p[2], p[3])
      <4>1. Use(t, k) \in S
        OBVIOUS
      <4>2. Result(t, k) = Result(Use(t, k)[2], Use(t, k)[3])
        BY <2>1
      <4> HIDE DEF S
      <4>3. QED
        BY <4>1, <4>2
    <3>2. QED
      BY <3>1
  <2>5. QED
    BY <2>2, <2>3, <2>4
<1>8. QED
  BY <1>5, <1>6, <1>7 DEF s, t, l

\* In phyl-model-anthropic's request, results come next to their calls.
LEMMA MergedAnswersNext ==
    ASSUME NEW c, Shaped(c), NEW M, Merging(c, Len(c), M)
    PROVE  AnsweredNext(M)
<1> DEFINE n == Len(c)
<1>1. /\ c \in Seq(Messages) /\ n \in Nat /\ c[n][1] # "assistant"
      /\ M \in Seq(ShownMessages) /\ DOMAIN M = 1..Len(M) /\ Len(M) \in Nat
      /\ \A j \in 1..Len(M) : M[j].role = "user" => NoUse(M[j].blocks)
      /\ \A j \in 1..Len(M) : M[j].role = "assistant" => \E p \in 1..n : Shows(c, n, M, j, p)
  BY LenProperties DEF Shaped, Merging
<1> HIDE DEF n
<1>2. ASSUME NEW j \in 1..Len(M), Uses(M[j].blocks) # {}
      PROVE  /\ j < Len(M)
             /\ Range(SubSeq(M[j + 1].blocks, 1, Cardinality(Uses(M[j].blocks))))
                  = Answering(Uses(M[j].blocks))
  <2>1. M[j] \in ShownMessages
    BY <1>1, ElementOfSeq
  <2>2. M[j].role \in {"user", "assistant"} /\ M[j].blocks \in Seq(AllParts)
    BY <2>1 DEF ShownMessages
  <2>3. M[j].role = "assistant"
    BY <2>2, <1>1, <1>2, NothingUsed
  <2>4. PICK p \in 1..n : Shows(c, n, M, j, p)
    BY <2>3, <1>1
  <2> DEFINE m == c[p]
             t == m[2]
             l == Len(m[3])
  <2>5. /\ m[1] = "assistant" /\ M[j].blocks = Parts(m)
        /\ j = Len(M) => p = n
        /\ \A k \in 1..l : p + k <= n => /\ j < Len(M)
                                        /\ k <= Len(M[j + 1].blocks)
                                        /\ M[j + 1].blocks[k] = Result(t, k)
    BY <2>4 DEF Shows
  <2>6. j # Len(M)
    BY <2>5, <1>1
  <2>7. j < Len(M) /\ j + 1 \in 1..Len(M)
    <3>1. Len(M) \in Nat
      BY <1>1
    <3>2. QED
      BY <2>6, <3>1
  <2>8. m \in Messages
    BY <1>1, ElementOfSeq DEF n
  <2>9. l \in Nat /\ \A k \in 1..l : p + k <= n
    BY <2>5, ResultsAreBehind DEF ResultsBehind, n
  <2>10. /\ Uses(M[j].blocks) = {Use(t, k) : k \in 1..l}
         /\ Cardinality(Uses(M[j].blocks)) = l
         /\ Answering(Uses(M[j].blocks)) = {Result(t, k) : k \in 1..l}
    BY <2>5, <2>8, UsesOfAnswer
  <2> DEFINE b == M[j + 1].blocks
             d == SubSeq(b, 1, l)
  <2>11. b \in Seq(AllParts)
    <3>1. M[j + 1] \in ShownMessages
      BY <2>7, <1>1, ElementOfSeq
    <3>2. QED
      BY <3>1 DEF ShownMessages
  <2>12. \A k \in 1..l : k <= Len(b) /\ b[k] = Result(t, k)
    BY <2>5, <2>9
  <2> HIDE DEF b, l, t
  <2>13. d = [k \in 1..l |-> b[k]]
    <3>1. \A k \in 1..l : 1 + k - 1 = k
      BY <2>9
    <3>2. d = [k \in 1..(l - 1 + 1) |-> b[1 + k - 1]]
      BY <2>9
    <3>3. l - 1 + 1 = l
      BY <2>9
    <3>4. QED
      BY <3>1, <3>2, <3>3
  <2>14. Range(d) = {Result(t, k) : k \in 1..l}
    <3>1. DOMAIN d = 1..l /\ \A k \in 1..l : d[k] = Result(t, k)
      BY <2>12, <2>13
    <3> HIDE DEF d
    <3>2. QED
      BY <3>1 DEF Range
  <2>15. QED
    BY <2>7, <2>10, <2>14 DEF b
<1>3. QED
  BY <1>1, <1>2 DEF AnsweredNext

Listed(M, c) ==
    /\ DOMAIN M = 1..Len(c)
    /\ \A i \in 1..Len(c) : M[i].blocks = Parts(c[i])

\* Where every message is shown by one of its own, the results come right after the calls.
LEMMA ListedToolsFollow ==
    ASSUME NEW c, Shaped(c), NEW M, Listed(M, c), Len(M) = Len(c)
    PROVE  ToolsFollow(M)
<1> DEFINE n == Len(c)
<1>1. /\ c \in Seq(Messages) /\ n \in Nat /\ DOMAIN M = 1..n
      /\ \A i \in 1..n : M[i].blocks = Parts(c[i]) /\ c[i] \in Messages
  BY LenProperties, ElementOfSeq DEF Shaped, Listed
<1> HIDE DEF n
<1>2. ASSUME NEW i \in 1..n
      PROVE  /\ i + Cardinality(Uses(M[i].blocks)) <= n
             /\ UNION {Results(M[i + k].blocks) : k \in 1..Cardinality(Uses(M[i].blocks))}
                  = Answering(Uses(M[i].blocks))
  <2> DEFINE m == c[i]
             l == Len(m[3])
             t == m[2]
  <2>1. m \in Messages /\ M[i].blocks = Parts(m)
    BY <1>1
  <2>2. CASE m[1] = "assistant"
    <3>1. /\ Cardinality(Uses(M[i].blocks)) = l
          /\ Answering(Uses(M[i].blocks)) = {Result(t, k) : k \in 1..l}
      BY <2>1, <2>2, UsesOfAnswer
    <3>2. l \in Nat /\ \A k \in 1..l : i + k <= n /\ c[i + k] = <<"tool", t, k>>
      BY <2>2, ResultsAreBehind DEF ResultsBehind, n
    <3> HIDE DEF l, t
    <3>3. i + l <= n
      <4>1. CASE l = 0
        BY <4>1, <1>1
      <4>2. CASE l # 0
        <5>1. l \in 1..l
          BY <3>2, <4>2
        <5>2. QED
          BY <5>1, <3>2
      <4>3. QED
        BY <4>1, <4>2
    <3>4. ASSUME NEW k \in 1..l
          PROVE  Results(M[i + k].blocks) = {Result(t, k)}
      <4>0. i + k <= n /\ c[i + k] = <<"tool", t, k>>
        BY <3>2
      <4>1. i + k \in 1..n /\ c[i + k] = <<"tool", t, k>>
        <5>1. i \in Nat /\ i >= 1 /\ k \in Nat /\ n \in Nat
          BY <3>2, <1>1
        <5>2. i + k \in 1..n
          BY <4>0, <5>1
        <5>3. QED
          BY <4>0, <5>2
      <4>2. M[i + k].blocks = Parts(c[i + k]) /\ c[i + k] \in Messages
        BY <4>1, <1>1
      <4> DEFINE s == Parts(c[i + k])
                 r == c[i + k]
      <4>3. r[1] = "tool" /\ r[2] = t /\ r[3] = k /\ r \in Messages
        BY <4>1, <4>2
      <4>4. OnePart(r, s)
        BY <4>3, PartsOfOther
      <4>5. s \in Seq(AllParts) /\ Len(s) = 1 /\ s[1] = Result(t, k)
        BY <4>3, <4>4 DEF OnePart
      <4> HIDE DEF s, r
      <4>6. DOMAIN s = 1..1
        BY <4>5, LenProperties
      <4>7. Range(s) = {Result(t, k)}
        BY <4>5, <4>6 DEF Range
      <4>8. Results(s) = {Result(t, k)}
        BY <4>7, KindsOfParts DEF Results
      <4>9. QED
        BY <4>2, <4>8 DEF s
    <3>5. UNION {Results(M[i + k].blocks) : k \in 1..l} = {Result(t, k) : k \in 1..l}
      <4> DEFINE R(k) == Results(M[i + k].blocks)
      <4>1. \A k \in 1..l : R(k) = {Result(t, k)}
        BY <3>4
      <4> HIDE DEF R
      <4>2. UNION {R(k) : k \in 1..l} = {Result(t, k) : k \in 1..l}
        BY <4>1
      <4>3. QED
        BY <4>2 DEF R
    <3>6. QED
      BY <3>1, <3>3, <3>5 DEF l, t
  <2>3. CASE m[1] # "assistant"
    <3>1. OnePart(m, Parts(m))
      BY <2>1, <2>3, PartsOfOther
    <3>2. Parts(m) \in Seq(AllParts) /\ NoUse(Parts(m))
      BY <3>1 DEF OnePart, NoUse
    <3>3. Uses(M[i].blocks) = {}
      BY <2>1, <3>2, NothingUsed
    <3>4. Cardinality(Uses(M[i].blocks)) = 0
      BY <3>3, FS_EmptySet
    <3>5. Answering(Uses(M[i].blocks)) = {}
      BY <3>3 DEF Answering
    <3>6. {Results(M[i + k].blocks) : k \in 1..0} = {}
      OBVIOUS
    <3>7. QED
      BY <3>4, <3>5, <3>6, <1>1
  <2>4. QED
    BY <2>2, <2>3
<1>3. QED
  BY <1>1, <1>2 DEF ToolsFollow, n

\* So they show everything, in order.
LEMMA ListedIsWhole ==
    ASSUME NEW c \in Seq(Messages), NEW M, Listed(M, c)
    PROVE  Blocks(M) = PartsOf(c)
<1>1. DOMAIN c = 1..Len(c)
  BY LenProperties
<1>2. [j \in DOMAIN M |-> M[j].blocks] = [i \in DOMAIN c |-> Parts(c[i])]
  BY <1>1 DEF Listed
<1>3. QED
  BY <1>2 DEF Blocks, PartsOf

\* The last message is one part, so that phyl-model-claude's prompt loses nothing of it.
LEMMA PromptIsWhole ==
    ASSUME NEW c, Shaped(c)
    PROVE  PartsOf(c) = IF Len(c) = 1 THEN Content(c[1]) ELSE PartsOf(Front(c)) \o Content(Last(c))
<1> DEFINE n == Len(c)
           f == Front(c)
           b == PartLists(f)
           d == PartLists(c)
<1>1. /\ c \in Seq(Messages) /\ n \in Nat /\ n >= 1 /\ n \in 1..n /\ c[n][1] # "assistant"
      /\ c[n] \in Messages
  BY LenProperties, ElementOfSeq DEF Shaped
<1>2. Last(c) = c[n] /\ f = SubSeq(c, 1, n - 1)
  BY DEF Last, Front
<1> HIDE DEF n, f
<1>3. f \in Seq(Messages) /\ Len(f) = n - 1 /\ \A i \in 1..(n - 1) : f[i] = c[i]
  <2>1. f = [i \in 1..(n - 1) |-> c[i]]
    <3>1. f = [i \in 1..((n - 1) - 1 + 1) |-> c[1 + i - 1]]
      BY <1>1, <1>2
    <3>2. (n - 1) - 1 + 1 = n - 1 /\ \A i \in 1..(n - 1) : 1 + i - 1 = i
      BY <1>1
    <3>3. QED
      BY <3>1, <3>2
  <2>2. \A i \in 1..(n - 1) : c[i] \in Messages
    <3>1. 1..(n - 1) \subseteq 1..n
      BY <1>1
    <3>2. QED
      BY <3>1, <1>1, ElementOfSeq DEF n
  <2>3. f \in [1..(n - 1) -> Messages] /\ n - 1 \in Nat
    BY <2>1, <2>2, <1>1
  <2>4. QED
    BY <2>1, <2>3, SeqDef, LenProperties
<1>4. /\ d \in Seq(Seq(AllParts)) /\ Len(d) = n /\ \A i \in 1..n : d[i] = Parts(c[i])
  BY <1>1, PartListsAreLists DEF n
<1>5. /\ b \in Seq(Seq(AllParts)) /\ Len(b) = n - 1 /\ \A i \in 1..(n - 1) : b[i] = Parts(f[i])
  BY <1>3, PartListsAreLists
<1>6. PartsOf(c) = Joined(d) /\ PartsOf(f) = Joined(b)
  BY DEF PartsOf, PartLists
<1>7. OnePart(c[n], Parts(c[n]))
  BY <1>1, PartsOfOther
<1>8. Content(c[n]) = d[n] /\ d[n] \in Seq(AllParts)
  BY <1>1, <1>4, <1>7 DEF OnePart
<1> HIDE DEF b, d
<1>9. Joined(d) = Joined(b) \o d[n]
  <2>1. \A i \in 1..Len(b) : d[i] = b[i]
    <3>1. \A i \in 1..(n - 1) : i \in 1..n
      BY <1>1
    <3>2. QED
      BY <3>1, <1>3, <1>4, <1>5
  <2>2. Len(d) = Len(b) + 1
    BY <1>1, <1>4, <1>5
  <2>3. QED
    BY <2>1, <2>2, <1>4, <1>5, JoinedOneMore
<1>10. CASE n = 1
  <2>0. Len(b) = 0
    BY <1>5, <1>10
  <2>1. Joined(b) = <<>>
    BY <2>0, <1>5, JoinedNone
  <2>2. Joined(d) = <<>> \o d[n]
    BY <2>1, <1>9
  <2>3. <<>> \o d[n] = d[n]
    BY <1>8, ConcatEmptySeq
  <2>4. QED
    BY <2>2, <2>3, <1>6, <1>8, <1>10 DEF n
<1>11. CASE n # 1
  BY <1>2, <1>6, <1>8, <1>9, <1>11 DEF n, f
<1>12. QED
  BY <1>10, <1>11

---------------------------------------------------------------------------
(* What the adapters make of such a history. *)

SeparatedAt(h, c) ==
    /\ SystemOf(h) \o Conversation(h) = h
    /\ Conversation(h) = c
    /\ c \in Seq(Messages)
    /\ Len(c) = Len(h) - 1
    /\ \A i \in 1..Len(c) : c[i] = h[i + 1]

\* The system prompt comes first, and the conversation is the rest.
LEMMA Separated ==
    ASSUME NEW h \in Seq(Messages), Formed(h)
    PROVE  SeparatedAt(h, Conversation(h))
<1> DEFINE n == Len(h)
           sys == SystemOf(h)
           c == Conversation(h)
<1>1. n \in Nat /\ n >= 2 /\ DOMAIN h = 1..n /\ h[1] = System /\ \A i \in 1..n : h[i] \in Messages
  BY LenProperties, ElementOfSeq DEF Formed
<1>2. \A i \in 2..n : h[i] # System
  <2>1. h[2] # System
    BY SpecialEntries DEF Formed
  <2>2. \A i \in 3..n : h[i] # System
    BY SpecialEntries DEF Formed, Placed
  <2>3. \A i \in 2..n : i = 2 \/ i \in 3..n
    BY <1>1
  <2>4. QED
    BY <2>1, <2>2, <2>3
<1>3. \A i \in 1..n : i = 1 \/ i \in 2..n
  BY <1>1
<1> HIDE DEF n
<1>4. sys = [k \in 1..1 |-> h[0 + k]]
  <2>1. \A i \in 1..n : h[i] \in {System} <=> i \in (0 + 1)..(0 + 1)
    BY <1>1, <1>2, <1>3
  <2>2. 0 + 1 <= Len(h)
    BY <1>1 DEF n
  <2>3. InPlaces(h, {System}, 0, 1)
    BY <2>1, <2>2 DEF InPlaces, n
  <2>4. 0 \in Nat /\ 1 \in Nat
    OBVIOUS
  <2>5. SelectsPlaces(h, {System}, 0, 1)
    BY <2>3, <2>4, SelectInterval
  <2>6. QED
    BY <2>5 DEF SystemOf, SelectsPlaces
<1>5. c = [k \in 1..(n - 1) |-> h[1 + k]]
  <2> DEFINE T == Range(h) \ {System}
  <2>1. \A i \in 1..n : h[i] \in Range(h)
    BY <1>1 DEF Range
  <2>2. \A i \in 1..n : h[i] \in T <=> i \in (1 + 1)..(1 + (n - 1))
    <3>1. 1 + (n - 1) = n /\ 1 + 1 = 2 /\ ~ (1 \in 2..n)
      BY <1>1
    <3>2. QED
      BY <3>1, <2>1, <1>1, <1>2, <1>3
  <2> HIDE DEF T
  <2>3. 1 + (n - 1) <= Len(h) /\ 1 \in Nat /\ n - 1 \in Nat
    BY <1>1 DEF n
  <2>4. InPlaces(h, T, 1, n - 1)
    BY <2>2, <2>3 DEF InPlaces, n
  <2>5. SelectsPlaces(h, T, 1, n - 1)
    BY <2>3, <2>4, SelectInterval
  <2>6. QED
    BY <2>5 DEF Conversation, T, SelectsPlaces
<1> HIDE DEF sys, c
<1>6. c \in Seq(Messages) /\ Len(c) = n - 1 /\ \A k \in 1..(n - 1) : c[k] = h[k + 1]
  <2>1. \A k \in 1..(n - 1) : 1 + k \in 1..n /\ 1 + k = k + 1
    BY <1>1
  <2>2. c \in [1..(n - 1) -> Messages] /\ n - 1 \in Nat
    BY <2>1, <1>1, <1>5
  <2>3. c \in Seq(Messages) /\ Len(c) = n - 1
    BY <2>2, SeqDef, LenProperties
  <2>4. QED
    BY <2>1, <2>3, <1>5
<1>7. sys \in Seq(Messages) /\ Len(sys) = 1 /\ sys[1] = h[1]
  <2>1. [k \in 1..1 |-> h[0 + k]] = <<h[1]>>
    OBVIOUS
  <2>2. sys = <<h[1]>> /\ h[1] \in Messages
    BY <2>1, <1>1, <1>4, SpecialEntries
  <2>3. QED
    BY <2>2
<1>8. sys \o c = h
  <2> DEFINE g == sys \o c
  <2>1. /\ g \in Seq(Messages) /\ Len(g) = Len(sys) + Len(c)
        /\ \A i \in 1..Len(sys) + Len(c) :
              g[i] = IF i <= Len(sys) THEN sys[i] ELSE c[i - Len(sys)]
    <3>1. sys \in Seq(Messages) /\ c \in Seq(Messages)
      BY <1>6, <1>7
    <3>2. QED
      BY <3>1, ConcatProperties
  <2> HIDE DEF g
  <2>2. Len(g) = n
    BY <2>1, <1>1, <1>6, <1>7
  <2>3. ASSUME NEW i \in 1..n
        PROVE  g[i] = h[i]
    <3>1. g[i] = IF i <= 1 THEN sys[i] ELSE c[i - 1]
      BY <2>1, <1>1, <1>6, <1>7
    <3>2. CASE i = 1
      BY <3>1, <3>2, <1>7
    <3>3. CASE i # 1
      <4>1. i - 1 \in 1..(n - 1) /\ (i - 1) + 1 = i /\ ~ (i <= 1)
        BY <3>3, <1>1
      <4>2. c[i - 1] = h[(i - 1) + 1]
        BY <4>1, <1>6
      <4>3. QED
        BY <3>1, <4>1, <4>2
    <3>4. QED
      BY <3>2, <3>3
  <2>4. g = h
    BY <2>1, <2>2, <2>3, SeqEqual DEF n
  <2>5. QED
    BY <2>4 DEF g
<1>9. QED
  BY <1>6, <1>8 DEF SeparatedAt, n, sys, c

\* The conversation of a session that calls the model.
LEMMA ConversationIsShaped ==
    ASSUME TypeOK, Asked, pc = "loop", AnsweredInOrder
    PROVE  Shaped(Conversation(history))
<1> DEFINE h == history
           c == Conversation(h)
           n == Len(h)
<1>1. h \in Seq(Messages) /\ n \in Nat /\ DOMAIN h = 1..n
  BY LenProperties DEF TypeOK
<1>2. Formed(h) /\ h[n][1] # "assistant"
  BY DEF Asked, Loop
<1>3. n >= 2 /\ h[2] \in {Prompt, Summary} /\ \A i \in 3..n : Placed(h, i)
  BY <1>2 DEF Formed
<1>4. SeparatedAt(h, c)
  BY <1>1, <1>2, Separated
<1>5. \A i \in 1..n :
         h[i][1] = "assistant" =>
             \A k \in DOMAIN h[i][3] : i + k \in 1..n /\ h[i + k] = <<"tool", h[i][2], k>>
  BY <1>1 DEF AnsweredInOrder
<1> HIDE DEF h, c, n
<1>6. /\ c \in Seq(Messages) /\ Len(c) = n - 1
      /\ \A i \in 1..(n - 1) : c[i] = h[i + 1]
  BY <1>4 DEF SeparatedAt, n
<1>7. IsOpening(c[1])
  <2>1. 1 \in 1..(n - 1)
    BY <1>1, <1>3
  <2>2. c[1] = h[2]
    BY <2>1, <1>6
  <2>3. QED
    BY <2>2, <1>3, SpecialEntries DEF IsOpening
<1>8. ASSUME NEW i \in 2..(n - 1), c[i][1] = "assistant"
      PROVE  c[i - 1][1] # "assistant"
  <2>1. i \in 1..(n - 1) /\ i - 1 \in 1..(n - 1) /\ i + 1 \in 3..n /\ (i - 1) + 1 = i
        /\ (i + 1) - 1 = i
    BY <1>1
  <2>2. c[i] = h[i + 1] /\ c[i - 1] = h[i]
    BY <2>1, <1>6
  <2>3. h[(i + 1) - 1][1] # "assistant"
    BY <2>1, <2>2, <1>3, <1>8 DEF Placed
  <2>4. QED
    BY <2>1, <2>2, <2>3
<1>9. c[Len(c)][1] # "assistant"
  <2>1. n - 1 \in 1..(n - 1) /\ (n - 1) + 1 = n
    BY <1>1, <1>3
  <2>2. c[n - 1] = h[n]
    BY <2>1, <1>6
  <2>3. QED
    BY <2>2, <1>2, <1>6
<1>10. ASSUME NEW i \in 1..(n - 1), c[i][1] = "assistant", NEW k \in 1..Len(c[i][3])
       PROVE  i + k <= n - 1 /\ c[i + k] = <<"tool", c[i][2], k>>
  <2>1. c[i] = h[i + 1] /\ i + 1 \in 1..n
    BY <1>1, <1>6
  <2>2. c[i] \in Messages
    BY <1>6, ElementOfSeq
  <2>3. c[i][3] \in Batches
    <3>1. c[i] \in {"assistant"} \X (1..MaxTurns) \X Batches
      BY <2>2, <1>10, MessageKinds
    <3>2. QED
      BY <3>1
  <2>4. DOMAIN c[i][3] = 1..Len(c[i][3]) /\ Len(c[i][3]) \in Nat
    BY <2>3, BatchIsSequence, LenProperties
  <2>5. k \in DOMAIN h[i + 1][3]
    BY <2>1, <2>4
  <2>6. (i + 1) + k \in 1..n /\ h[(i + 1) + k] = <<"tool", h[i + 1][2], k>>
    BY <2>1, <2>5, <1>5, <1>10
  <2>7. i + k \in 1..(n - 1) /\ (i + k) + 1 = (i + 1) + k
    <3>1. k \in Nat /\ k >= 1 /\ i \in Nat /\ i >= 1
      BY <2>4, <1>1
    <3>2. QED
      BY <3>1, <2>6, <1>1
  <2>8. c[i + k] = h[(i + 1) + k]
    <3>1. c[i + k] = h[(i + k) + 1]
      BY <2>7, <1>6
    <3>2. QED
      BY <3>1, <2>7
  <2>9. i + k <= n - 1
    BY <2>7, <1>1
  <2>10. QED
    BY <2>1, <2>6, <2>8, <2>9
<1>11. Len(c) >= 1
  BY <1>1, <1>3, <1>6
<1>12. Shaped(c)
  BY <1>6, <1>7, <1>8, <1>9, <1>10, <1>11 DEF Shaped
<1>13. QED
  BY <1>12 DEF c, h

\* A request to an OpenAI API has one chat message for each message.
LEMMA ChatMessagesAreListed ==
    ASSUME NEW h, NEW c \in Seq(Messages), Conversation(h) = c
    PROVE  /\ Listed(NativeMessages(h), c) /\ Len(NativeMessages(h)) = Len(c)
           /\ Listed(XmlMessages(h), c)
<1>1. DOMAIN c = 1..Len(c) /\ Len(c) \in Nat
  BY LenProperties
<1>2. NativeMessages(h) = [i \in 1..Len(c) |-> ChatMessage(c[i], NativeRole(c[i]))]
  BY <1>1 DEF NativeMessages
<1>3. XmlMessages(h) = [i \in 1..Len(c) |-> ChatMessage(c[i], XmlRole(c[i]))]
  BY <1>1 DEF XmlMessages
<1>4. Listed(NativeMessages(h), c) /\ Listed(XmlMessages(h), c)
  BY <1>2, <1>3 DEF Listed, ChatMessage
<1>5. Len(NativeMessages(h)) = Len(c)
  BY <1>1, <1>2
<1>6. QED
  BY <1>4, <1>5

\* A result in a formed history has its call before it or stands behind the summary.
LEMMA OrphansAreInPlace ==
    ASSUME TypeOK, Formed(history)
    PROVE  OrphansFollowSummary
<1> DEFINE h == history
<1>1. h \in Seq(Messages) /\ DOMAIN h = 1..Len(h) /\ Len(h) \in Nat
  BY LenProperties DEF TypeOK
<1>2. h[1] = System /\ h[2] \in {Prompt, Summary} /\ \A i \in 3..Len(h) : Placed(h, i)
  BY DEF Formed
<1> HIDE DEF h
<1>3. ASSUME NEW i \in 1..Len(h), h[i][1] = "tool",
             \A j \in 1..Len(h) : h[j][1] = "assistant" => h[j][2] # h[i][2]
      PROVE  \E s \in 1..(i - 1) : h[s] = Summary /\ \A j \in (s + 1)..i : h[j][1] = "tool"
  <2>1. i # 1 /\ i # 2
    BY <1>2, <1>3, SpecialEntries
  <2>2. i \in 3..Len(h)
    BY <2>1, <1>1
  <2>3. Behind(h, i)
    BY <2>2, <1>2, <1>3 DEF Placed
  <2>4. ~ \E p \in 3..(i - 1) : h[p][1] = "assistant" /\ h[p][2] = h[i][2]
    <3>1. \A p \in 3..(i - 1) : p \in 1..Len(h)
      BY <2>2, <1>1
    <3>2. QED
      BY <3>1, <1>3
  <2>5. h[2] = Summary /\ \A j \in 3..i : h[j][1] = "tool"
    BY <2>3, <2>4 DEF Behind
  <2>6. 2 \in 1..(i - 1) /\ 2 + 1 = 3
    BY <2>2, <1>1
  <2>7. \A j \in (2 + 1)..i : h[j][1] = "tool"
    BY <2>5
  <2>8. QED
    BY <2>5, <2>6, <2>7
<1>4. QED
  BY <1>1, <1>3 DEF OrphansFollowSummary, h

\* Whatever the model calls, says and is told, and however often the history is compressed:
\* each request has the form its API asks for.
THEOREM RequestsKeepCallsPaired == Spec => []CallsStayPaired
<1>1. ASSUME IInv, pc = "loop"
      PROVE  /\ Alternates(AnthropicMessages(history))
             /\ AnsweredNext(AnthropicMessages(history))
             /\ ToolsFollow(NativeMessages(history))
             /\ OrphansFollowSummary
  <2>1. TypeOK /\ Asked /\ AnsweredInOrder /\ Formed(history) /\ history \in Seq(Messages)
    BY <1>1 DEF IInv, CallsInv, CallsAnswered, Answered, Awaited, Loop, AnsweredInOrder,
       Asked, TypeOK
  <2> DEFINE c == Conversation(history)
  <2>2. Shaped(c)
    BY <1>1, <2>1, ConversationIsShaped
  <2>3. c \in Seq(Messages)
    BY <2>2 DEF Shaped
  <2>4. Conversation(history) = c
    OBVIOUS
  <2>5. AnthropicMessages(history) = Merged(c)
    BY DEF AnthropicMessages
  <2> HIDE DEF c
  <2>6. Merging(c, Len(c), Merged(c))
    BY <2>2, MergedInOrder
  <2>7. Alternates(Merged(c)) /\ AnsweredNext(Merged(c))
    BY <2>2, <2>6, MergedAnswersNext DEF Merging
  <2>8. ToolsFollow(NativeMessages(history))
    BY <2>2, <2>3, <2>4, ChatMessagesAreListed, ListedToolsFollow
  <2>9. OrphansFollowSummary
    BY <2>1, OrphansAreInPlace
  <2>10. QED
    BY <2>5, <2>7, <2>8, <2>9
<1>2. IInv => CallsStayPaired
  BY <1>1 DEF CallsStayPaired
<1>3. QED
  BY <1>2, RunnerInvariant, PTL

\* Each adapter shows the model the whole history it has been given, in its order.
THEOREM RequestsForgetNothing == Spec => []NothingForgotten
<1>1. ASSUME IInv, pc = "loop"
      PROVE  /\ SystemOf(history) \o Conversation(history) = history
             /\ Blocks(AnthropicMessages(history)) = PartsOf(Conversation(history))
             /\ Blocks(NativeMessages(history)) = PartsOf(Conversation(history))
             /\ Blocks(XmlMessages(history)) = PartsOf(Conversation(history))
             /\ ClaudePrompt(history) = PartsOf(Conversation(history))
  <2>1. TypeOK /\ Asked /\ AnsweredInOrder /\ Formed(history) /\ history \in Seq(Messages)
    BY <1>1 DEF IInv, CallsInv, CallsAnswered, Answered, Awaited, Loop, AnsweredInOrder,
       Asked, TypeOK
  <2> DEFINE c == Conversation(history)
  <2>2. Shaped(c)
    BY <1>1, <2>1, ConversationIsShaped
  <2>3. c \in Seq(Messages)
    BY <2>2 DEF Shaped
  <2>4. Conversation(history) = c
    OBVIOUS
  <2>5. AnthropicMessages(history) = Merged(c)
    BY DEF AnthropicMessages
  <2>6. ClaudePrompt(history) = IF Len(c) = 1 THEN Content(c[1])
                                ELSE PartsOf(Front(c)) \o Content(Last(c))
    BY DEF ClaudePrompt
  <2>7. SystemOf(history) \o c = history
    BY <2>1, Separated DEF SeparatedAt
  <2> HIDE DEF c
  <2>8. Blocks(Merged(c)) = PartsOf(c)
    BY <2>2, MergedInOrder
  <2>9. Blocks(NativeMessages(history)) = PartsOf(c) /\ Blocks(XmlMessages(history)) = PartsOf(c)
    BY <2>3, <2>4, ChatMessagesAreListed, ListedIsWhole
  <2>10. ClaudePrompt(history) = PartsOf(c)
    BY <2>2, <2>6, PromptIsWhole
  <2>11. QED
    BY <2>4, <2>5, <2>7, <2>8, <2>9, <2>10
<1>2. IInv => NothingForgotten
  BY <1>1 DEF NothingForgotten
<1>3. QED
  BY <1>2, RunnerInvariant, PTL
=============================================================================
