---------------------------- MODULE Psyche_proofs ----------------------------
(***************************************************************************)
(* What is proved of Psyche, for any number of concerns, sessions,         *)
(* commitments and faults: what can come of the steps that other sessions  *)
(* take between the reading of a row and its update is bounded, no broken  *)
(* commitment is forgotten, and decay is fair.                             *)
(***************************************************************************)
EXTENDS Psyche, SequenceTheorems, FiniteSetTheorems, TLAPS

States == {"none", "open", "committed", "closed"}
Entry == [of: Concerns, state: {"pending", "fulfilled", "broken"},
          by: Slots \cup {NoConcern}, reports: Nat]

Row == [state: States, low: BOOLEAN, touched: Nat, flagged: BOOLEAN]

RowsOK ==
    /\ concern \in [Concerns -> Row]
    /\ ledger \in Seq(Entry)
    /\ reopened \in [Concerns -> Nat]

SessionsOK ==
    /\ lastNumber \in Nat /\ faults \in Nat
    /\ pc \in [Slots -> {"gone", "ready"} \cup InCall \cup InPass]
    /\ alive \in [Slots -> BOOLEAN]
    /\ number \in [Slots -> Nat]
    /\ call \in [Slots -> [on: Concerns \cup {NoConcern}, commitment: Nat]]
    /\ pass \in [Slots -> [todo: SUBSET Concerns, seen: SUBSET Concerns, asked: 0..2, upTo: Nat,
                           pending: SUBSET Nat, broken: SUBSET Nat, late: BOOLEAN]]

\* A call is about a concern or a commitment that is there.
CallsOK ==
    \A s \in Slots :
        /\ pc[s] \in InCall \ {"reporting"} => call[s].on \in Concerns
        /\ pc[s] = "reporting" => call[s].commitment \in Commitments

Typing == RowsOK /\ SessionsOK /\ CallsOK

StepOf(s) == Registers(s) \/ RegistersNot(s) \/ Dies(s) \/ Calls(s) \/ Passes(s)

LEMMA LedgerFacts ==
    ASSUME RowsOK
    PROVE  /\ Len(ledger) \in Nat /\ Commitments = 1..Len(ledger)
           /\ \A m \in Commitments : ledger[m] \in Entry
  <1>1. ledger \in Seq(Entry)
    BY DEF RowsOK
  <1>2. Len(ledger) \in Nat /\ ledger \in [1..Len(ledger) -> Entry] /\ DOMAIN ledger = 1..Len(ledger)
    BY <1>1, LenProperties
  <1> QED BY <1>2 DEF Commitments

\* Nothing is ever taken out of the ledger.
LEMMA LedgerGrows ==
    ASSUME RowsOK, NEW e \in Entry, ledger' = Append(ledger, e)
    PROVE  /\ ledger' \in Seq(Entry)
           /\ Commitments' = Commitments \cup {Len(ledger) + 1} /\ Len(ledger) + 1 \notin Commitments
           /\ ledger'[Len(ledger) + 1] = e
           /\ \A m \in Commitments : ledger'[m] = ledger[m]
  <1>1. ledger \in Seq(Entry)
    BY DEF RowsOK
  <1>2. /\ ledger' \in Seq(Entry) /\ Len(ledger') = Len(ledger) + 1
        /\ ledger'[Len(ledger) + 1] = e /\ \A m \in 1..Len(ledger) : ledger'[m] = ledger[m]
    BY <1>1, AppendProperties
  <1>3. Commitments' = 1..(Len(ledger) + 1)
    BY <1>2, LenProperties DEF Commitments
  <1> QED BY <1>2, <1>3, LedgerFacts

\* What a report changes.
LEMMA ReportFacts ==
    ASSUME Typing, NEW s \in Slots, ReportCommitment(s)
    PROVE  LET m == call[s].commitment IN
           /\ m \in Commitments /\ ledger' \in Seq(Entry) /\ Commitments' = Commitments
           /\ ledger'[m].state \in {"fulfilled", "broken"} /\ ledger'[m].by = s
           /\ ledger'[m].of = ledger[m].of /\ ledger'[m].reports = ledger[m].reports + 1
           /\ \A k \in Commitments \ {m} : ledger'[k] = ledger[k]
           /\ excused' = IF ledger'[m].state = "broken" /\ ~alive[s] THEN excused \cup {m}
                         ELSE excused \ {m}
  <1> DEFINE m == call[s].commitment
  <1>1. m \in Commitments
    BY DEF ReportCommitment, Typing, CallsOK
  <1>2. PICK verdict \in {"fulfilled", "broken"} :
           /\ ledger' = [ledger EXCEPT ![m].state = verdict, ![m].by = s, ![m].reports = @ + 1]
           /\ excused' = IF verdict = "broken" /\ ~alive[s] THEN excused \cup {m}
                         ELSE excused \ {m}
    BY DEF ReportCommitment
  <1> DEFINE e == [ledger[m] EXCEPT !.state = verdict, !.by = s, !.reports = @ + 1]
  <1>3. ledger[m] \in Entry
    BY <1>1, LedgerFacts DEF Typing
  <1>4. /\ e \in Entry /\ e.state = verdict /\ e.by = s
        /\ e.of = ledger[m].of /\ e.reports = ledger[m].reports + 1
    <2>1. ledger[m].reports + 1 \in Nat
      BY <1>3 DEF Entry
    <2> QED BY <1>3, <2>1 DEF Entry
  <1>5. ledger' = [ledger EXCEPT ![m] = e]
    <2>1. ledger \in [1..Len(ledger) -> Entry] /\ m \in 1..Len(ledger)
      BY <1>1, LenProperties, LedgerFacts DEF Typing, RowsOK
    <2> QED BY <1>2, <2>1
  <1>6. m \in 1..Len(ledger)
    BY <1>1, LedgerFacts DEF Typing
  <1>7. /\ ledger' \in Seq(Entry) /\ Len(ledger') = Len(ledger)
        /\ \A k \in 1..Len(ledger) : ledger'[k] = IF k = m THEN e ELSE ledger[k]
    <2> HIDE DEF e, m
    <2> QED BY <1>4, <1>5, <1>6, ExceptSeq DEF Typing, RowsOK
  <1>8. Commitments' = Commitments
    <2>1. DOMAIN ledger' = 1..Len(ledger')
      BY <1>7, LenProperties
    <2> QED BY <1>7, <2>1, LedgerFacts DEF Commitments, Typing
  <1> HIDE DEF e
  <1> QED BY <1>1, <1>2, <1>4, <1>6, <1>7, <1>8, LedgerFacts DEF Typing

-----------------------------------------------------------------------------
(* Types. *)

LEMMA TypingInit == Init => Typing
  BY EmptySeq DEF Init, Typing, RowsOK, SessionsOK, CallsOK, Absent, NoCall, NoPass, States, Row, Entry,
       InCall

\* An update of some columns of a row leaves a row.
LEMMA RowKept ==
    ASSUME RowsOK, NEW c \in Concerns, NEW low \in BOOLEAN, NEW n \in Nat
    PROVE  /\ [concern EXCEPT ![c].low = low] \in [Concerns -> Row]
           /\ [concern EXCEPT ![c].low = low, ![c].touched = n] \in [Concerns -> Row]
           /\ [concern EXCEPT ![c].flagged = TRUE] \in [Concerns -> Row]
  <1>1. concern \in [Concerns -> Row] /\ concern[c] \in Row
    BY DEF RowsOK
  <1>2. \A r \in Row : [concern EXCEPT ![c] = r] \in [Concerns -> Row]
    BY <1>1
  <1>3. /\ [concern[c] EXCEPT !.low = low] \in Row
        /\ [concern[c] EXCEPT !.flagged = TRUE] \in Row
    BY <1>1 DEF Row
  <1>4. [concern[c] EXCEPT !.low = low, !.touched = n] \in Row
    BY <1>1 DEF Row
  <1>5. /\ [concern EXCEPT ![c].low = low] = [concern EXCEPT ![c] = [concern[c] EXCEPT !.low = low]]
        /\ [concern EXCEPT ![c].low = low, ![c].touched = n]
              = [concern EXCEPT ![c] = [concern[c] EXCEPT !.low = low, !.touched = n]]
        /\ [concern EXCEPT ![c].flagged = TRUE]
              = [concern EXCEPT ![c] = [concern[c] EXCEPT !.flagged = TRUE]]
    BY <1>1
  <1> QED BY <1>2, <1>3, <1>4, <1>5

\* Which rows change, and how.
LEMMA RowsStep ==
    ASSUME Typing, NEW s \in Slots, StepOf(s)
    PROVE  RowsOK'
  <1> USE DEF Typing
  <1>1. CASE Registers(s) \/ RegistersNot(s) \/ Dies(s)
    BY <1>1 DEF Registers, RegistersNot, Dies, rows, histories, RowsOK
  <1>2. CASE UNCHANGED <<rows, reopened>>
    BY <1>2 DEF rows, RowsOK
  <1>3. ASSUME NEW c \in Concerns, OpenConcern(s, c)
        PROVE  RowsOK'
    BY <1>3 DEF OpenConcern, histories, RowsOK, SessionsOK, States, Row
  <1>4. CASE Touch(s) \/ Close(s) \/ MoveConcern(s)
    <2>1. call[s].on \in Concerns
      BY <1>4 DEF Touch, Close, MoveConcern, CallsOK, InCall
    <2>2. PICK c \in Concerns : c = call[s].on
      BY <2>1
    <2>3. CASE Touch(s)
      <3>1. PICK low \in BOOLEAN :
               concern' = [concern EXCEPT ![c].low = low, ![c].touched = number[s]]
        BY <2>2, <2>3 DEF Touch
      <3>2. concern' \in [Concerns -> Row]
        BY <3>1, RowKept DEF RowsOK, SessionsOK
      <3> QED BY <2>3, <3>2 DEF Touch, histories, RowsOK
    <2>4. CASE Close(s)
      <3>1. concern' = [concern EXCEPT ![c].state = "closed"]
        BY <2>2, <2>4 DEF Close
      <3>2. concern' \in [Concerns -> Row]
        BY <3>1 DEF RowsOK, Row, States
      <3> QED BY <2>4, <3>2 DEF Close, histories, RowsOK
    <2>5. CASE MoveConcern(s)
      <3>1. /\ concern' = [concern EXCEPT ![c].state = "committed"]
            /\ reopened' = [reopened EXCEPT ![c] = IF Closed(c) THEN reopened[c] + 1 ELSE reopened[c]]
        BY <2>2, <2>5 DEF MoveConcern
      <3>2. concern' \in [Concerns -> Row]
        BY <3>1 DEF RowsOK, Row, States
      <3>3. reopened' \in [Concerns -> Nat]
        BY <3>1 DEF RowsOK
      <3> QED BY <2>5, <3>2, <3>3 DEF MoveConcern, RowsOK
    <2> QED BY <1>4, <2>3, <2>4, <2>5
  <1>5. CASE InsertCommitment(s)
    <2> DEFINE e == [of |-> call[s].on, state |-> "pending", by |-> NoConcern, reports |-> 0]
    <2>1. e \in Entry /\ ledger' = Append(ledger, e)
      BY <1>5 DEF InsertCommitment, CallsOK, InCall, Entry
    <2>2. UNCHANGED <<concern, reopened>>
      BY <1>5 DEF InsertCommitment, histories
    <2> HIDE DEF e
    <2> QED BY <2>1, <2>2, LedgerGrows DEF RowsOK
  <1>6. CASE ReportCommitment(s)
    BY <1>6, ReportFacts DEF ReportCommitment, RowsOK
  <1>7. ASSUME NEW c \in Concerns, Decay(s, c) \/ Flag(s, c)
        PROVE  RowsOK'
    <2>1. CASE Decay(s, c)
      <3>1. PICK low \in BOOLEAN : concern' = [concern EXCEPT ![c].low = low]
        BY <2>1 DEF Decay
      <3> QED BY <2>1, <3>1, RowKept DEF Decay, PassGoes, RowsOK
    <2>2. CASE Flag(s, c)
      <3>1. concern' = [concern EXCEPT ![c].flagged = TRUE]
        BY <2>2 DEF Flag
      <3> QED BY <2>2, <3>1, RowKept DEF Flag, PassGoes, RowsOK
    <2> QED BY <1>7, <2>1, <2>2
  <1> QED
    <2>1. CASE Calls(s)
      BY <2>1, <1>2, <1>3, <1>4, <1>5, <1>6
      DEF Calls, ReadToTouch, ReadToClose, ReadToCommit, ReadToReport, Begins, CallFails, CallIsCut,
          histories
    <2>2. CASE Passes(s)
      BY <2>2, <1>2, <1>7
      DEF Passes, StartPass, ReadToFlag, BeginBriefing, Ask, WriteBriefing, PassFails, PassGoes
    <2> QED BY <1>1, <2>1, <2>2 DEF StepOf

\* What the subconscious keeps while a pass is under way.
PassRow == [todo: SUBSET Concerns, seen: SUBSET Concerns, asked: 0..2, upTo: Nat,
            pending: SUBSET Nat, broken: SUBSET Nat, late: BOOLEAN]

\* What a call that returns does to its session.
LEMMA ReturnFacts ==
    ASSUME Typing, NEW s \in Slots, Returns(s), faults' \in Nat
    PROVE  SessionsOK' /\ pc'[s] \in {"ready", "gone"}
           /\ \A t \in Slots \ {s} : pc'[t] = pc[t] /\ call'[t] = call[t]
  <1> USE DEF Typing, SessionsOK
  <1>1. pc' \in [Slots -> {"gone", "ready"} \cup InCall \cup InPass]
    BY DEF Returns
  <1>2. number' \in [Slots -> Nat]
    BY DEF Returns
  <1>3. call' \in [Slots -> [on: Concerns \cup {NoConcern}, commitment: Nat]]
    BY DEF Returns, NoCall
  <1>4. UNCHANGED <<lastNumber, alive, pass>>
    BY DEF Returns
  <1> QED BY <1>1, <1>2, <1>3, <1>4 DEF Returns

\* What a step of a pass does to its session.
LEMMA PassStep ==
    ASSUME Typing, NEW s \in Slots, Passes(s)
    PROVE  SessionsOK' /\ call' = call /\ pc'[s] \in {"gone"} \cup InPass
           /\ \A t \in Slots \ {s} : pc'[t] = pc[t]
  <1> USE DEF Typing, SessionsOK
  <1>1. pass \in [Slots -> PassRow] /\ pass[s] \in PassRow
    BY DEF PassRow
  <1>2. NoPass \in PassRow
    BY DEF NoPass, PassRow
  <1>3. \A r \in PassRow : [pass EXCEPT ![s] = r] \in [Slots -> PassRow]
    BY <1>1
  <1>4. ASSUME pass' \in [Slots -> PassRow], own' = own,
               NEW from \in InPass \cup {"ready"}, NEW to \in {"gone"} \cup InPass, PassGoes(s, from, to)
        PROVE  SessionsOK' /\ call' = call /\ pc'[s] \in {"gone"} \cup InPass
               /\ \A t \in Slots \ {s} : pc'[t] = pc[t]
    BY <1>4 DEF PassGoes, own, PassRow
  <1>5. CASE StartPass(s)
    <2> DEFINE stale == {c \in Concerns : Active(c) /\ concern[c].touched < number[s]}
               low == {c \in stale : concern[c].low}
    <2>1. pass' = [pass EXCEPT ![s] = [NoPass EXCEPT !.todo = stale, !.seen = low]]
      BY <1>5 DEF StartPass
    <2>2. stale \in SUBSET Concerns /\ low \in SUBSET Concerns
      OBVIOUS
    <2>3. [NoPass EXCEPT !.todo = stale, !.seen = low] \in PassRow
      <3> HIDE DEF stale, low
      <3> QED BY <1>2, <2>2 DEF PassRow
    <2> HIDE DEF stale, low
    <2>4. pass' \in [Slots -> PassRow] /\ own' = own /\ PassGoes(s, "ready", "decaying")
      BY <1>3, <1>5, <2>1, <2>3 DEF StartPass, own
    <2> QED BY <1>4, <2>4 DEF InPass
  <1>6. ASSUME NEW c \in Concerns, Decay(s, c) \/ Flag(s, c)
        PROVE  /\ pass' \in [Slots -> PassRow] /\ own' = own
               /\ PassGoes(s, "decaying", "decaying") \/ PassGoes(s, "flagging", "flagging")
    <2>1. pass' = [pass EXCEPT ![s].todo = @ \ {c}]
      BY <1>6 DEF Decay, Flag
    <2>2. [pass[s] EXCEPT !.todo = pass[s].todo \ {c}] \in PassRow
      BY <1>1 DEF PassRow
    <2>3. pass' = [pass EXCEPT ![s] = [pass[s] EXCEPT !.todo = pass[s].todo \ {c}]]
      BY <1>1, <2>1
    <2> QED BY <1>3, <1>6, <2>2, <2>3 DEF Decay, Flag, own
  <1>7. CASE ReadToFlag(s)
    <2> DEFINE low == {c \in Concerns : Active(c) /\ concern[c].low /\ ~concern[c].flagged}
    <2>1. pass' = [pass EXCEPT ![s] = [pass[s] EXCEPT !.todo = low, !.seen = {}]]
      <3>1. pass' = [pass EXCEPT ![s].todo = low, ![s].seen = {}]
        BY <1>7 DEF ReadToFlag
      <3> HIDE DEF low
      <3> QED BY <1>1, <3>1
    <2>2. low \in SUBSET Concerns
      OBVIOUS
    <2>3. [pass[s] EXCEPT !.todo = low, !.seen = {}] \in PassRow
      <3> HIDE DEF low
      <3> QED BY <1>1, <2>2 DEF PassRow
    <2> HIDE DEF low
    <2>4. pass' \in [Slots -> PassRow] /\ own' = own /\ PassGoes(s, "decaying", "flagging")
      BY <1>3, <1>7, <2>1, <2>3 DEF ReadToFlag, own
    <2> QED BY <1>4, <2>4 DEF InPass
  <1>8. CASE BeginBriefing(s)
    <2>1. pass' = [pass EXCEPT ![s] = [pass[s] EXCEPT !.upTo = Len(ledger)]]
      BY <1>1, <1>8 DEF BeginBriefing
    <2>2. [pass[s] EXCEPT !.upTo = Len(ledger)] \in PassRow
      BY <1>1, LedgerFacts DEF PassRow
    <2>3. pass' \in [Slots -> PassRow] /\ own' = own /\ PassGoes(s, "flagging", "asking")
      BY <1>3, <1>8, <2>1, <2>2 DEF BeginBriefing, own
    <2> QED BY <1>4, <2>3 DEF InPass
  <1>9. CASE Ask(s)
    <2>1. PICK n \in 0..2, pending \in SUBSET Nat, broken \in SUBSET Nat :
             pass' = [pass EXCEPT ![s].asked = n, ![s].pending = pending, ![s].broken = broken]
      <3>1. pass[s].asked \in 0..2 /\ pass[s].pending \in SUBSET Nat /\ pass[s].broken \in SUBSET Nat
        BY <1>1 DEF PassRow
      <3>2. pass[s].asked + 1 \in 0..2
        BY <1>9, <3>1 DEF Ask
      <3>3. \A state : QueryCommitments(state) \in SUBSET Nat
        BY LedgerFacts DEF QueryCommitments, InState
      <3> DEFINE state == AskOrder[pass[s].asked + 1]
                 found == QueryCommitments(state)
      <3>4. pass' = [pass EXCEPT ![s].asked = @ + 1,
                                 ![s].pending = IF state = "pending" THEN found ELSE @,
                                 ![s].broken = IF state = "broken" THEN found ELSE @]
        BY <1>9 DEF Ask
      <3>5. found \in SUBSET Nat
        BY <3>3
      <3> HIDE DEF state, found
      <3> DEFINE pending == IF state = "pending" THEN found ELSE pass[s].pending
                 broken == IF state = "broken" THEN found ELSE pass[s].broken
      <3>6. pending \in SUBSET Nat /\ broken \in SUBSET Nat
        BY <3>1, <3>5
      <3>7. pass' = [pass EXCEPT ![s].asked = pass[s].asked + 1, ![s].pending = pending, ![s].broken = broken]
        BY <1>1, <3>4
      <3> QED BY <3>2, <3>6, <3>7
    <2>2. pass' = [pass EXCEPT ![s] = [pass[s] EXCEPT !.asked = n, !.pending = pending, !.broken = broken]]
      BY <1>1, <2>1
    <2>3. [pass[s] EXCEPT !.asked = n, !.pending = pending, !.broken = broken] \in PassRow
      BY <1>1 DEF PassRow
    <2>4. pass' \in [Slots -> PassRow]
      BY <1>3, <2>2, <2>3
    <2>5. own' = own /\ PassGoes(s, "asking", "asking")
      BY <1>9 DEF Ask
    <2> QED BY <1>4, <2>4, <2>5 DEF InPass
  <1>10. CASE WriteBriefing(s)
    <2>1. \A t \in Slots : \E late \in BOOLEAN : 
             [pass[t] EXCEPT !.late = @ \/ pass[t].asked > 0] = [pass[t] EXCEPT !.late = late]
      <3> TAKE t \in Slots
      <3>1. (pass[t].late \/ pass[t].asked > 0) \in BOOLEAN
        OBVIOUS
      <3> QED BY <3>1
    <2>2. \A t \in Slots : \A late \in BOOLEAN : [pass[t] EXCEPT !.late = late] \in PassRow
      BY <1>1 DEF PassRow
    <2>3. pass' \in [Slots -> PassRow]
      BY <1>2, <1>10, <2>1, <2>2 DEF WriteBriefing
    <2> QED BY <1>10, <2>3 DEF WriteBriefing, PassGoes, Ends, PassRow
  <1>11. CASE PassFails(s)
    <2>1. pass' \in [Slots -> PassRow]
      BY <1>2, <1>3, <1>11 DEF PassFails
    <2> QED BY <1>11, <2>1 DEF PassFails, Ends, PassRow, Fault
  <1> QED BY <1>4, <1>5, <1>6, <1>7, <1>8, <1>9, <1>10, <1>11 DEF Passes, InPass

\* Who is at what, after any step of another session.
LEMMA CallStep ==
    ASSUME Typing, NEW s \in Slots, Calls(s)
    PROVE  /\ SessionsOK' /\ pass' = pass /\ alive' = alive /\ pc'[s] \in {"gone", "ready"} \cup InCall
           /\ \A t \in Slots \ {s} : pc'[t] = pc[t] /\ call'[t] = call[t] /\ number'[t] = number[t]
           /\ pc'[s] \in InCall \ {"reporting"} => call'[s].on \in Concerns
           /\ pc'[s] = "reporting" => call'[s].commitment \in Commitments
  <1> USE DEF Typing, SessionsOK
  <1>1. ASSUME Returns(s), faults' \in Nat
        PROVE  /\ SessionsOK' /\ pass' = pass /\ alive' = alive /\ pc'[s] \in {"gone", "ready"}
               /\ \A t \in Slots \ {s} : pc'[t] = pc[t] /\ call'[t] = call[t] /\ number'[t] = number[t]
    BY <1>1, ReturnFacts DEF Returns
  <1>2. ASSUME NEW to \in InCall, NEW a \in [on: Concerns \cup {NoConcern}, commitment: Nat],
               Begins(s, to, a)
        PROVE  /\ SessionsOK' /\ pass' = pass /\ alive' = alive /\ pc'[s] = to /\ call'[s] = a
               /\ \A t \in Slots \ {s} : pc'[t] = pc[t] /\ call'[t] = call[t] /\ number'[t] = number[t]
    BY <1>2 DEF Begins, own, histories
  <1>3. ASSUME NEW c \in Concerns
        PROVE  About(c) \in [on: Concerns \cup {NoConcern}, commitment: Nat] /\ About(c).on = c
    BY DEF About, NoCall
  <1>4. ASSUME NEW m \in Commitments
        PROVE  LET a == [NoCall EXCEPT !.commitment = m]
               IN  a \in [on: Concerns \cup {NoConcern}, commitment: Nat] /\ a.commitment = m
    BY LedgerFacts DEF NoCall
  <1>5. ASSUME NEW c \in Concerns, OpenConcern(s, c)
        PROVE  /\ SessionsOK' /\ pass' = pass /\ alive' = alive /\ pc'[s] = "ready"
               /\ \A t \in Slots \ {s} : pc'[t] = pc[t] /\ call'[t] = call[t] /\ number'[t] = number[t]
    BY <1>5 DEF OpenConcern, own, histories
  <1>6. ASSUME NEW c \in Concerns, ReadToTouch(s, c) \/ ReadToClose(s, c) \/ ReadToCommit(s, c)
        PROVE  /\ SessionsOK' /\ pass' = pass /\ alive' = alive
               /\ pc'[s] \in InCall \ {"reporting"} /\ call'[s].on \in Concerns
               /\ \A t \in Slots \ {s} : pc'[t] = pc[t] /\ call'[t] = call[t] /\ number'[t] = number[t]
    <2>1. PICK to \in InCall \ {"reporting"} : Begins(s, to, About(c))
      BY <1>6 DEF ReadToTouch, ReadToClose, ReadToCommit, InCall
    <2> QED BY <1>2, <1>3, <2>1
  <1>7. ASSUME NEW m \in Commitments, ReadToReport(s, m)
        PROVE  /\ SessionsOK' /\ pass' = pass /\ alive' = alive
               /\ pc'[s] = "reporting" /\ call'[s].commitment \in Commitments
               /\ \A t \in Slots \ {s} : pc'[t] = pc[t] /\ call'[t] = call[t] /\ number'[t] = number[t]
    <2>1. Begins(s, "reporting", [NoCall EXCEPT !.commitment = m])
      BY <1>7 DEF ReadToReport
    <2> QED BY <1>2, <1>4, <2>1 DEF InCall
  <1>8. CASE InsertCommitment(s)
    <2>1. call[s].on \in Concerns
      BY <1>8 DEF InsertCommitment, CallsOK, InCall
    <2> QED BY <1>8, <2>1 DEF InsertCommitment, own, histories, InCall
  <1>9. CASE Touch(s) \/ Close(s) \/ MoveConcern(s) \/ ReportCommitment(s) \/ CallIsCut(s)
    <2>1. Returns(s) /\ faults' = faults
      BY <1>9 DEF Touch, Close, MoveConcern, ReportCommitment, CallIsCut, histories
    <2> QED BY <1>1, <2>1 DEF InCall
  <1>10. CASE CallFails(s)
    BY <1>1, <1>10 DEF CallFails, Fault, InCall
  <1> QED BY <1>5, <1>6, <1>7, <1>8, <1>9, <1>10 DEF Calls, InCall

LEMMA LedgerKept ==
    ASSUME Typing, NEW s \in Slots, StepOf(s)
    PROVE  \/ ledger' = ledger
           \/ InsertCommitment(s)
           \/ ReportCommitment(s)
  BY DEF StepOf, Registers, RegistersNot, Dies, Calls, Passes, rows, histories, OpenConcern, ReadToTouch,
         ReadToClose, ReadToCommit, ReadToReport, Begins, Touch, Close, MoveConcern, CallFails,
         CallIsCut, StartPass, Decay, Flag, ReadToFlag, BeginBriefing, Ask, WriteBriefing, PassFails

\* Commitments are never taken away.
LEMMA CommitmentsKept ==
    ASSUME Typing, NEW s \in Slots, StepOf(s)
    PROVE  Commitments \subseteq Commitments'
  <1>1. CASE InsertCommitment(s)
    <2> DEFINE e == [of |-> call[s].on, state |-> "pending", by |-> NoConcern, reports |-> 0]
    <2>1. e \in Entry /\ ledger' = Append(ledger, e)
      BY <1>1 DEF InsertCommitment, CallsOK, InCall, Entry, Typing
    <2> HIDE DEF e
    <2> QED BY <2>1, LedgerGrows DEF Typing
  <1>2. CASE ReportCommitment(s)
    BY <1>2, ReportFacts
  <1> QED BY <1>1, <1>2, LedgerKept DEF Commitments

THEOREM TypingHolds == Spec => []Typing
  <1>1. Typing /\ [Next]_vars => Typing'
    <2> SUFFICES ASSUME Typing, [Next]_vars PROVE Typing'
      OBVIOUS
    <2>1. CASE UNCHANGED vars
      BY <2>1 DEF vars, rows, own, histories, Typing, RowsOK, SessionsOK, CallsOK, Commitments
    <2>2. ASSUME NEW s \in Slots, StepOf(s)
          PROVE  Typing'
      <3>1. RowsOK' /\ Commitments \subseteq Commitments'
        BY <2>2, RowsStep, CommitmentsKept
      <3>2. CASE Registers(s) \/ RegistersNot(s) \/ Dies(s)
        <4>5. \/ pc' = [pc EXCEPT ![s] = "ready"] \/ pc' = pc
              \/ pc' = [pc EXCEPT ![s] = "gone"]
          <5>1. CASE Registers(s) \/ RegistersNot(s)
            BY <5>1 DEF Registers, RegistersNot
          <5>2. CASE Dies(s)
            <6>1. pc' = [pc EXCEPT ![s] = IF pc[s] = "ready" THEN "gone" ELSE pc[s]]
              BY <5>2 DEF Dies
            <6>2. pc \in [Slots -> {"gone", "ready"} \cup InCall \cup InPass]
              BY DEF Typing, SessionsOK
            <6> QED BY <6>1, <6>2
          <5> QED BY <3>2, <5>1, <5>2
        <4>1. /\ lastNumber' \in Nat /\ faults' \in Nat /\ UNCHANGED <<call, pass>>
              /\ pc' \in [Slots -> {"gone", "ready"} \cup InCall \cup InPass]
          <5>1. /\ lastNumber \in Nat /\ faults \in Nat
                /\ pc \in [Slots -> {"gone", "ready"} \cup InCall \cup InPass]
            BY DEF Typing, SessionsOK
          <5>2. /\ lastNumber' \in {lastNumber, lastNumber + 1} /\ faults' \in {faults, faults + 1}
                /\ UNCHANGED <<call, pass>>
            BY <3>2 DEF Registers, RegistersNot, Dies, Fault, histories
          <5> QED BY <4>5, <5>1, <5>2
        <4>4. number' \in [Slots -> Nat]
          <5>1. number \in [Slots -> Nat] /\ lastNumber + 1 \in Nat
            BY DEF Typing, SessionsOK
          <5>2. \E x \in Nat : number' = [number EXCEPT ![s] = x] \/ number' = number
            BY <3>2, <5>1 DEF Registers, RegistersNot, Dies
          <5> QED BY <5>1, <5>2
        <4>3. alive' \in [Slots -> BOOLEAN]
          <5>1. alive \in [Slots -> BOOLEAN]
            BY DEF Typing, SessionsOK
          <5>2. alive' = [alive EXCEPT ![s] = TRUE] \/ alive' = [alive EXCEPT ![s] = FALSE]
            BY <3>2 DEF Registers, RegistersNot, Dies
          <5> QED BY <5>1, <5>2
        <4>2. call' = call /\ \A t \in Slots : pc'[t] \in InCall => pc[t] = pc'[t]
          <5>1. pc \in [Slots -> {"gone", "ready"} \cup InCall \cup InPass]
            BY DEF Typing, SessionsOK
          <5>2. call' = call
            BY <3>2 DEF Registers, RegistersNot, Dies
          <5> QED BY <4>5, <5>1, <5>2 DEF InCall
        <4> QED BY <3>1, <4>1, <4>2, <4>3, <4>4 DEF Typing, SessionsOK, CallsOK, InCall
      <3>3. CASE Calls(s)
        BY <3>1, <3>3, CallStep DEF Typing, CallsOK
      <3>4. CASE Passes(s)
        BY <3>1, <3>4, PassStep DEF Typing, CallsOK, InCall, InPass
      <3> QED BY <2>2, <3>2, <3>3, <3>4 DEF StepOf
    <2> QED BY <2>1, <2>2 DEF Next, StepOf
  <1> QED BY <1>1, TypingInit, PTL DEF Spec

\* A step leaves every other session where it is; at most it makes its pass late.
LEMMA OthersKept ==
    ASSUME Typing, NEW s \in Slots, StepOf(s), NEW t \in Slots \ {s}
    PROVE  /\ pc'[t] = pc[t] /\ number'[t] = number[t] /\ alive'[t] = alive[t] /\ call'[t] = call[t]
           /\ pass'[t] = pass[t] \/ WriteBriefing(s)
           /\ pass'[t].todo = pass[t].todo /\ pass'[t].asked = pass[t].asked
           /\ pass'[t].upTo = pass[t].upTo
           /\ pass'[t].pending = pass[t].pending /\ pass'[t].broken = pass[t].broken
  <1> USE DEF Typing, SessionsOK
  <1>1. CASE Registers(s) \/ RegistersNot(s) \/ Dies(s)
    BY <1>1 DEF Registers, RegistersNot, Dies
  <1>2. CASE Calls(s)
    BY <1>2, CallStep
  <1>3. CASE Passes(s)
    <2>1. pc'[t] = pc[t] /\ call'[t] = call[t]
      BY <1>3, PassStep
    <2>2. number'[t] = number[t] /\ alive'[t] = alive[t]
      BY <1>3 DEF Passes, StartPass, Decay, Flag, ReadToFlag, BeginBriefing, Ask, WriteBriefing,
                  PassFails, Ends, own
    <2>3. CASE WriteBriefing(s)
      <3>1. pass'[t] = [pass[t] EXCEPT !.late = @ \/ pass[t].asked > 0]
        BY <2>3 DEF WriteBriefing
      <3> QED BY <2>1, <2>2, <2>3, <3>1
    <2>4. CASE ~WriteBriefing(s)
      <3>1. pass'[t] = pass[t]
        BY <1>3, <2>4 DEF Passes, StartPass, Decay, Flag, ReadToFlag, BeginBriefing, Ask, PassFails
      <3> QED BY <2>1, <2>2, <3>1
    <2> QED BY <2>3, <2>4
  <1> QED BY <1>1, <1>2, <1>3 DEF StepOf

\* Which step changes a row, and in what.
LEMMA RowChanges ==
    ASSUME Typing, NEW s \in Slots, StepOf(s), NEW c \in Concerns
    PROVE  /\ \/ concern'[c] = concern[c]
              \/ OpenConcern(s, c) /\ concern[c].state = "none" /\ concern'[c].state = "open"
              \/ Touch(s) /\ concern'[c].state = concern[c].state
                         /\ concern'[c].flagged = concern[c].flagged
              \/ Close(s) /\ c = call[s].on /\ concern'[c].state = "closed"
              \/ MoveConcern(s) /\ c = call[s].on /\ concern'[c].state = "committed"
                               /\ concern'[c].flagged = concern[c].flagged
                               /\ concern'[c].low = concern[c].low
              \/ Decay(s, c) /\ concern'[c].state = concern[c].state
                             /\ concern'[c].flagged = concern[c].flagged
              \/ Flag(s, c) /\ concern'[c].flagged /\ concern'[c].state = concern[c].state
           /\ concern'[c].touched \in {concern[c].touched, number[s]}
  <1>1. concern \in [Concerns -> Row] /\ concern[c] \in Row
    BY DEF Typing, RowsOK
  <1>2. CASE \E d \in Concerns : OpenConcern(s, d)
    <2>1. PICK d \in Concerns : OpenConcern(s, d)
      BY <1>2
    <2>2. PICK low \in BOOLEAN :
             concern' = [concern EXCEPT ![d] = [state |-> "open", low |-> low,
                                                touched |-> number[s], flagged |-> FALSE]]
      BY <2>1 DEF OpenConcern
    <2> QED BY <1>1, <2>1, <2>2 DEF OpenConcern
  <1>3. CASE Touch(s)
    <2>1. PICK low \in BOOLEAN :
             concern' = [concern EXCEPT ![call[s].on].low = low, ![call[s].on].touched = number[s]]
      BY <1>3 DEF Touch
    <2> QED BY <1>1, <1>3, <2>1 DEF Row
  <1>4. CASE Close(s)
    BY <1>1, <1>4 DEF Close, Row
  <1>5. CASE MoveConcern(s)
    BY <1>1, <1>5 DEF MoveConcern, Row
  <1>6. CASE \E d \in Concerns : Decay(s, d)
    <2>1. PICK d \in Concerns : Decay(s, d)
      BY <1>6
    <2>2. PICK low \in BOOLEAN : concern' = [concern EXCEPT ![d].low = low]
      BY <2>1 DEF Decay
    <2> QED BY <1>1, <2>1, <2>2 DEF Row
  <1>7. CASE \E d \in Concerns : Flag(s, d)
    <2>1. PICK d \in Concerns : Flag(s, d)
      BY <1>7
    <2>2. concern' = [concern EXCEPT ![d].flagged = TRUE]
      BY <2>1 DEF Flag
    <2> QED BY <1>1, <2>1, <2>2 DEF Row
  <1>8. \/ concern' = concern
        \/ \E d \in Concerns : OpenConcern(s, d) \/ Decay(s, d) \/ Flag(s, d)
        \/ Touch(s) \/ Close(s) \/ MoveConcern(s)
    BY DEF StepOf, Registers, RegistersNot, Dies, Calls, Passes, rows, histories, ReadToTouch,
           ReadToClose, ReadToCommit, ReadToReport, Begins, InsertCommitment, ReportCommitment,
           CallFails, CallIsCut, StartPass, ReadToFlag, BeginBriefing, Ask, WriteBriefing, PassFails
  <1> QED BY <1>2, <1>3, <1>4, <1>5, <1>6, <1>7, <1>8

-----------------------------------------------------------------------------
(* Decay. *)

\* Sessions that run have numbers of their own, or none, and a pass decays what another
\* session, or none, has touched last.
NumberBooks ==
    /\ \A s \in Slots : number[s] <= lastNumber
    /\ \A s, t \in Slots : s # t /\ number[s] # 0 => number[s] # number[t]
    /\ \A s \in Slots : pc[s] = "decaying" =>
          \A c \in pass[s].todo : number[s] # 0 /\ concern[c].touched # number[s]

LEMMA NumberBooksStep ==
    ASSUME Typing, Typing', NumberBooks, NEW s \in Slots, StepOf(s)
    PROVE  NumberBooks'
  <1>1. \/ number'[s] \in {0, number[s]} /\ lastNumber' = lastNumber
        \/ number'[s] = lastNumber + 1 /\ lastNumber' = lastNumber + 1 /\ Registers(s)
    BY DEF StepOf, Typing, SessionsOK, Registers, RegistersNot, Dies, Calls, Returns, Passes, PassGoes,
           OpenConcern, ReadToTouch, ReadToClose, ReadToCommit, ReadToReport, Begins, Touch, Close,
           InsertCommitment, MoveConcern, ReportCommitment, CallFails, CallIsCut, own, StartPass,
           Decay, Flag, ReadToFlag, BeginBriefing, Ask, WriteBriefing, PassFails, Ends
  <1>2. number \in [Slots -> Nat] /\ lastNumber \in Nat /\ number'[s] \in Nat
    BY DEF Typing, SessionsOK
  <1>3. \A t \in Slots \ {s} : pc'[t] = pc[t] /\ number'[t] = number[t] /\ pass'[t].todo = pass[t].todo
    BY OthersKept
  <1>4. /\ \A t \in Slots : number'[t] <= lastNumber'
        /\ \A t, u \in Slots : t # u /\ number'[t] # 0 => number'[t] # number'[u]
    BY <1>1, <1>2, <1>3 DEF NumberBooks
  <1>5. ASSUME NEW t \in Slots, pc'[t] = "decaying", NEW c \in pass'[t].todo
        PROVE  number'[t] # 0 /\ concern'[c].touched # number'[t]
    <2>1. pass \in [Slots -> PassRow] /\ pass' \in [Slots -> PassRow] /\ concern \in [Concerns -> Row]
      BY DEF Typing, SessionsOK, RowsOK, PassRow
    <2>2. c \in Concerns
      BY <2>1 DEF PassRow
    <2>3. CASE t # s
      <3>1. number[t] # 0 /\ concern[c].touched # number[t] /\ number'[t] = number[t]
        BY <1>3, <1>5, <2>3 DEF NumberBooks
      <3>2. number[t] # number[s]
        BY <2>3, <3>1 DEF NumberBooks
      <3>3. concern'[c].touched \in {concern[c].touched, number[s]}
        BY <2>2, RowChanges
      <3> QED BY <3>1, <3>2, <3>3
    <2>4. CASE t = s
      <3>1. CASE StartPass(s)
        <4>1. c \in {d \in Concerns : Active(d) /\ concern[d].touched < number[s]}
          BY <1>5, <2>1, <2>4, <3>1 DEF StartPass, NoPass
        <4>2. concern[c].touched \in Nat /\ concern[c].touched < number[s]
              /\ concern' = concern /\ number' = number
          BY <2>1, <2>2, <3>1, <4>1 DEF StartPass, Row, rows, own
        <4> QED BY <1>2, <2>4, <4>2
      <3>2. CASE \E d \in Concerns : Decay(s, d)
        <4>1. PICK d \in Concerns : Decay(s, d)
          BY <3>2
        <4>2. pc[s] = "decaying" /\ c \in pass[s].todo
          BY <1>5, <2>1, <2>4, <4>1 DEF Decay, PassGoes
        <4>3. concern'[c].touched = concern[c].touched /\ number' = number
          BY <2>1, <2>2, <4>1 DEF Decay, own, Row
        <4> QED BY <2>4, <4>2, <4>3 DEF NumberBooks
      <3>3. CASE Dies(s)
        <4>1. pc[s] = "decaying" /\ pass' = pass /\ concern' = concern /\ number'[s] = number[s]
          BY <1>2, <1>5, <2>4, <3>3 DEF Dies, rows, Typing, SessionsOK
        <4> QED BY <1>5, <2>4, <4>1 DEF NumberBooks
      <3>4. StartPass(s) \/ (\E d \in Concerns : Decay(s, d)) \/ Dies(s)
        <4>1. CASE Calls(s)
          BY <1>5, <2>4, <4>1, CallStep DEF InCall
        <4>2. CASE Registers(s) \/ RegistersNot(s)
          BY <1>5, <2>4, <4>2 DEF Registers, RegistersNot, Typing, SessionsOK
        <4>3. CASE Passes(s)
          BY <1>5, <2>4, <4>3 DEF Passes, PassGoes, Flag, ReadToFlag, BeginBriefing, Ask,
                                  WriteBriefing, PassFails, Typing, SessionsOK
        <4> QED BY <4>1, <4>2, <4>3 DEF StepOf
      <3> QED BY <3>1, <3>2, <3>3, <3>4
    <2> QED BY <2>3, <2>4
  <1> QED BY <1>4, <1>5 DEF NumberBooks

\* The pass of a session never decays what its session has just touched.
THEOREM OwnIsSpared == Spec => []SparesOwn
  <1>1. Init => NumberBooks
    BY DEF Init, NumberBooks
  <1>2. Typing /\ Typing' /\ NumberBooks /\ [Next]_vars => NumberBooks'
    <2> SUFFICES ASSUME Typing, Typing', NumberBooks, [Next]_vars PROVE NumberBooks'
      OBVIOUS
    <2>1. CASE UNCHANGED vars
      BY <2>1 DEF vars, rows, own, histories, NumberBooks
    <2> QED BY <2>1, NumberBooksStep DEF Next, StepOf
  <1>3. NumberBooks => SparesOwn
    BY DEF NumberBooks, SparesOwn
  <1> QED BY <1>1, <1>2, <1>3, TypingHolds, PTL DEF Spec

\* A session that can act runs, and without a fault so does one in a call.
AliveBooks ==
    \A s \in Slots :
        /\ pc[s] = "ready" => alive[s]
        /\ faults = 0 /\ pc[s] \in InCall => alive[s]

\* What a step that ends a session or a call leaves.
LEMMA WhereTo ==
    ASSUME Typing, AliveBooks, NEW s \in Slots, StepOf(s)
    PROVE  /\ faults' \in Nat /\ faults' >= faults
           /\ pc'[s] = "ready" => alive'[s]
           /\ pc'[s] \in InCall => alive'[s] \/ ~alive[s] \/ faults' = faults + 1
           /\ pc'[s] \in InCall => pc[s] \in InCall \cup {"ready"}
           /\ pc[s] \in InCall =>
                 \/ pc'[s] \in InCall
                 \/ alive'[s] /\ pc'[s] = "ready"
                 \/ ~alive'[s] /\ pc'[s] = "gone"
           /\ ~Dies(s) /\ ~WriteBriefing(s) /\ ~PassFails(s) /\ alive[s] => alive'[s]
  <1> USE DEF Typing, SessionsOK
  <1>1. CASE Registers(s) \/ RegistersNot(s) \/ Dies(s)
    <2>1. CASE Registers(s)
      BY <1>1, <2>1 DEF Registers, histories, InCall
    <2>2. CASE RegistersNot(s)
      BY <1>1, <2>2 DEF RegistersNot, Fault, InCall
    <2>3. CASE Dies(s)
      <3>1. faults' = faults + 1 /\ pc'[s] = (IF pc[s] = "ready" THEN "gone" ELSE pc[s]) /\ ~alive'[s]
        BY <2>3 DEF Dies, Fault
      <3> QED BY <2>3, <3>1 DEF InCall
    <2> QED BY <1>1, <2>1, <2>2, <2>3
  <1>2. ASSUME Returns(s), pc[s] \in InCall, faults' = faults \/ faults' = faults + 1
        PROVE  /\ pc'[s] \in {"ready", "gone"} /\ alive' = alive
               /\ pc'[s] = "ready" <=> alive'[s]
    BY <1>2 DEF Returns
  <1>3. CASE Touch(s) \/ Close(s) \/ MoveConcern(s) \/ ReportCommitment(s) \/ CallIsCut(s) \/ CallFails(s)
    <2>1. Returns(s) /\ pc[s] \in InCall /\ (faults' = faults \/ faults' = faults + 1)
      BY <1>3 DEF Touch, Close, MoveConcern, ReportCommitment, CallIsCut, CallFails, Fault, histories, InCall
    <2> QED BY <1>2, <2>1 DEF InCall
  <1>4. ASSUME NEW to, NEW a, to \in InCall, Begins(s, to, a)
        PROVE  pc[s] = "ready" /\ pc'[s] = to /\ alive' = alive /\ faults' = faults
    BY <1>4 DEF Begins, own, histories
  <1>5. CASE (\E c \in Concerns : ReadToTouch(s, c) \/ ReadToClose(s, c) \/ ReadToCommit(s, c))
             \/ (\E m \in Commitments : ReadToReport(s, m))
    <2>1. \E to \in InCall : \E a : Begins(s, to, a)
      BY <1>5 DEF ReadToTouch, ReadToClose, ReadToCommit, ReadToReport, InCall
    <2> QED BY <1>4, <2>1 DEF AliveBooks, InCall
  <1>6. CASE (\E c \in Concerns : OpenConcern(s, c)) \/ InsertCommitment(s)
    BY <1>6 DEF OpenConcern, InsertCommitment, own, histories, AliveBooks, InCall
  <1>7. CASE Passes(s)
    <2>1. pc'[s] \in {"gone"} \cup InPass /\ pc[s] \notin InCall
      BY <1>7, PassStep DEF Passes, StartPass, Decay, Flag, ReadToFlag, BeginBriefing, Ask,
           WriteBriefing, PassFails, PassGoes, InCall, InPass
    <2>2. faults' = faults \/ faults' = faults + 1
      BY <1>7 DEF Passes, StartPass, Decay, Flag, ReadToFlag, BeginBriefing, Ask, WriteBriefing,
           PassFails, PassGoes, Fault
    <2>3. WriteBriefing(s) \/ PassFails(s) \/ alive' = alive
      BY <1>7 DEF Passes, StartPass, Decay, Flag, ReadToFlag, BeginBriefing, Ask, own
    <2> QED BY <2>1, <2>2, <2>3 DEF InCall, InPass
  <1> QED BY <1>1, <1>3, <1>5, <1>6, <1>7 DEF StepOf, Calls

LEMMA AliveBooksStep ==
    ASSUME Typing, AliveBooks, NEW s \in Slots, StepOf(s)
    PROVE  AliveBooks'
  <1>1. ASSUME NEW t \in Slots \ {s}
        PROVE  /\ pc'[t] = "ready" => alive'[t]
               /\ faults' = 0 /\ pc'[t] \in InCall => alive'[t]
    <2>1. pc'[t] = pc[t] /\ alive'[t] = alive[t]
      BY OthersKept
    <2>2. faults' = 0 => faults = 0
      BY WhereTo DEF Typing, SessionsOK
    <2> QED BY <2>1, <2>2 DEF AliveBooks
  <1>2. pc'[s] = "ready" => alive'[s]
    BY WhereTo
  <1>3. ASSUME faults' = 0, pc'[s] \in InCall
        PROVE  alive'[s]
    <2>1. faults = 0 /\ faults' # faults + 1
      BY <1>3, WhereTo DEF Typing, SessionsOK
    <2>2. alive[s]
      BY <1>3, <2>1, WhereTo DEF AliveBooks
    <2> QED BY <1>3, <2>1, <2>2, WhereTo
  <1> QED BY <1>1, <1>2, <1>3 DEF AliveBooks

\* Who still flags, after a step without a fault.
LEMMA FlagsOn ==
    ASSUME Typing, Typing', AliveBooks, NEW s \in Slots, StepOf(s), faults' = 0,
           NEW t \in Slots, NEW c \in Concerns, StillFlags(t, c)
    PROVE  \/ StillFlags(t, c)'
           \/ t = s /\ Flag(s, c)
           \/ t = s /\ ReadToFlag(s) /\ ~(Active(c) /\ concern[c].low /\ ~concern[c].flagged)
  <1> USE DEF Typing, SessionsOK
  <1>1. CASE t # s
    BY <1>1, OthersKept DEF StillFlags
  <1>2. CASE t = s
    <2>1. ~RegistersNot(s) /\ ~Dies(s) /\ ~CallFails(s) /\ ~PassFails(s) /\ faults = 0
      <3>1. faults = 0
        BY WhereTo
      <3> QED BY <3>1 DEF RegistersNot, Dies, CallFails, PassFails, Fault
    <2>2. CASE Registers(s)
      BY <1>2, <2>2 DEF Registers, StillFlags
    <2>3. CASE Calls(s)
      <3>1. pc[s] \in {"ready"} \cup InCall
        BY <2>3 DEF Calls, OpenConcern, ReadToTouch, ReadToClose, ReadToCommit, ReadToReport, Begins,
             Touch, Close, InsertCommitment, MoveConcern, ReportCommitment, CallFails, CallIsCut, InCall
      <3>2. alive[s] /\ alive' = alive
        BY <2>1, <2>3, <3>1, CallStep DEF AliveBooks
      <3>3. pc'[s] \in {"gone", "ready"} \cup InCall
        BY <2>3, CallStep
      <3>4. pc'[s] # "gone"
        <4>1. pc[s] = "ready" => pc'[s] # "gone"
          BY <2>3 DEF Calls, OpenConcern, ReadToTouch, ReadToClose, ReadToCommit, ReadToReport, Begins,
               Touch, Close, InsertCommitment, MoveConcern, ReportCommitment, CallFails, CallIsCut, InCall
        <4> QED BY <3>1, <3>2, <3>3, <4>1, WhereTo DEF InCall
      <3> QED BY <1>2, <3>3, <3>4 DEF StillFlags
    <2>4. CASE StartPass(s) \/ \E d \in Concerns : Decay(s, d)
      BY <1>2, <2>4 DEF StartPass, Decay, PassGoes, StillFlags
    <2>5. CASE ReadToFlag(s)
      <3>1. pc'[s] = "flagging"
            /\ pass'[s].todo = {d \in Concerns : Active(d) /\ concern[d].low /\ ~concern[d].flagged}
        <4> DEFINE low == {d \in Concerns : Active(d) /\ concern[d].low /\ ~concern[d].flagged}
        <4>1. s \in DOMAIN pc /\ s \in DOMAIN pass /\ DOMAIN pass[s] = DOMAIN NoPass
          BY DEF NoPass
        <4> HIDE DEF Typing, SessionsOK
        <4>2. pc' = [pc EXCEPT ![s] = "flagging"]
              /\ pass' = [pass EXCEPT ![s].todo = low, ![s].seen = {}]
          BY <2>5 DEF ReadToFlag, PassGoes
        <4>3. {"todo", "seen"} \subseteq DOMAIN pass[s]
          BY <4>1 DEF NoPass
        <4> HIDE DEF low
        <4>4. pc'[s] = "flagging" /\ pass'[s].todo = low
          BY <4>1, <4>2, <4>3
        <4> QED BY <4>4 DEF low
      <3> QED BY <1>2, <2>5, <3>1 DEF StillFlags
    <2>6. CASE \E d \in Concerns : Flag(s, d)
      <3>1. PICK d \in Concerns : Flag(s, d)
        BY <2>6
      <3>2. pc[s] = "flagging" /\ pc'[s] = "flagging" /\ pass'[s].todo = pass[s].todo \ {d}
        BY <3>1 DEF Flag, PassGoes
      <3> QED BY <1>2, <3>1, <3>2 DEF StillFlags, InCall
    <2>7. ~BeginBriefing(s) /\ ~Ask(s) /\ ~WriteBriefing(s)
      BY <1>2 DEF BeginBriefing, Ask, WriteBriefing, PassGoes, StillFlags, InCall
    <2> QED BY <2>1, <2>2, <2>3, <2>4, <2>5, <2>6, <2>7 DEF StepOf, Passes
  <1> QED BY <1>1, <1>2

LEMMA LowIsFlaggedStep ==
    ASSUME Typing, Typing', AliveBooks, LowIsFlagged, NEW s \in Slots, StepOf(s)
    PROVE  LowIsFlagged'
  <1> SUFFICES ASSUME faults' = 0, NEW c \in Concerns, Active(c)', concern'[c].low, ~concern'[c].flagged
               PROVE  \E t \in Slots : StillFlags(t, c)'
    BY DEF LowIsFlagged
  <1>1. faults = 0
    BY WhereTo DEF Typing, SessionsOK
  <1>2. pc \in [Slots -> {"gone", "ready"} \cup InCall \cup InPass]
    BY DEF Typing, SessionsOK
  <1>3. CASE Active(c) /\ concern[c].low /\ ~concern[c].flagged
    <2>1. PICK t \in Slots : StillFlags(t, c)
      BY <1>1, <1>3 DEF LowIsFlagged
    <2>2. ~Flag(s, c)
      <3>1. concern \in [Concerns -> Row]
        BY DEF Typing, RowsOK
      <3> QED BY <3>1 DEF Flag, Row
    <2> QED BY <1>3, <2>1, <2>2, FlagsOn
  <1>4. CASE OpenConcern(s, c)
    BY <1>2, <1>4 DEF OpenConcern, StillFlags
  <1>5. CASE Touch(s) \/ MoveConcern(s)
    <2>1. pc[s] \in InCall /\ alive[s] /\ Returns(s)
      BY <1>1, <1>5 DEF Touch, MoveConcern, InCall, AliveBooks
    <2>2. pc'[s] = "ready"
      BY <1>2, <2>1 DEF Returns
    <2> QED BY <2>2 DEF StillFlags
  <1>6. CASE Decay(s, c)
    BY <1>2, <1>6 DEF Decay, PassGoes, StillFlags
  <1>7. concern'[c] = concern[c] => Active(c) /\ concern[c].low /\ ~concern[c].flagged
    BY DEF Active
  <1>8. ~Close(s) \/ concern'[c].state # "closed"
    BY DEF Active
  <1> QED BY <1>3, <1>4, <1>5, <1>6, <1>7, <1>8, RowChanges

\* What fades is flagged or still will be, and what a session has just touched does not fade
\* in its own pass.
THEOREM FlagsFollow == Spec => []FlagsFollowSalience
  <1>1. Init => AliveBooks /\ LowIsFlagged
    BY DEF Init, AliveBooks, LowIsFlagged, Active, Absent, InCall
  <1>2. Typing /\ Typing' /\ AliveBooks /\ LowIsFlagged /\ [Next]_vars => (AliveBooks /\ LowIsFlagged)'
    <2> SUFFICES ASSUME Typing, Typing', AliveBooks, LowIsFlagged, [Next]_vars
                 PROVE  (AliveBooks /\ LowIsFlagged)'
      OBVIOUS
    <2>1. CASE UNCHANGED vars
      BY <2>1 DEF vars, rows, own, histories, AliveBooks, LowIsFlagged, Active, StillFlags
    <2> QED BY <2>1, AliveBooksStep, LowIsFlaggedStep DEF Next, StepOf
  <1>3. LowIsFlagged /\ SparesOwn => FlagsFollowSalience
    BY DEF FlagsFollowSalience
  <1> QED BY <1>1, <1>2, <1>3, TypingHolds, OwnIsSpared, PTL DEF Spec

-----------------------------------------------------------------------------
(* Briefings. *)

\* A commitment stays, and only a report changes what is known of it.
LEMMA LedgerSteps ==
    ASSUME Typing, NEW s \in Slots, StepOf(s), NEW m \in Commitments
    PROVE  /\ m \in Commitments'
           /\ \/ ledger'[m] = ledger[m]
              \/ ReportCommitment(s) /\ m = call[s].commitment /\ ledger'[m].state # "pending"
  <1>1. CASE InsertCommitment(s)
    <2> DEFINE e == [of |-> call[s].on, state |-> "pending", by |-> NoConcern, reports |-> 0]
    <2>1. e \in Entry /\ ledger' = Append(ledger, e)
      BY <1>1 DEF InsertCommitment, CallsOK, InCall, Entry, Typing
    <2> HIDE DEF e
    <2> QED BY <2>1, LedgerGrows DEF Typing
  <1>2. CASE ReportCommitment(s)
    BY <1>2, ReportFacts
  <1> QED BY <1>1, <1>2, LedgerKept DEF Commitments

\* The ledger is read to its end, and what the first query did not list was reported on.
AskBooks ==
    /\ \A s \in Slots : pc[s] # "asking" => pass[s].asked = 0
    /\ \A s \in Slots : pc[s] = "asking" =>
          /\ pass[s].upTo <= Len(ledger)
          /\ pass[s].asked = 1 =>
                \A m \in 1..pass[s].upTo : m \in pass[s].pending \/ ledger[m].state # "pending"

\* What a query of the briefing finds.
LEMMA AskFacts ==
    ASSUME Typing, NEW s \in Slots, Ask(s)
    PROVE  /\ pc[s] = "asking" /\ pc' = pc /\ UNCHANGED <<ledger, excused>> /\ own' = own
           /\ pass'[s].asked = pass[s].asked + 1 /\ pass'[s].upTo = pass[s].upTo
           /\ pass'[s].late = pass[s].late
           /\ \/ pass[s].asked = 0 /\ pass'[s].pending = InState("pending")
              \/ /\ pass[s].asked = 1 /\ pass'[s].pending = pass[s].pending
                 /\ pass'[s].broken = InState("broken")
  <1>1. pass \in [Slots -> PassRow] /\ pass[s].asked \in {0, 1} /\ pc \in [Slots -> {"gone", "ready"} \cup InCall \cup InPass]
    BY DEF Typing, SessionsOK, PassRow, Ask
  <1>2. pc[s] = "asking" /\ pc' = pc /\ UNCHANGED <<ledger, excused>> /\ own' = own
    BY <1>1 DEF Ask, PassGoes, rows
  <1>3. CASE pass[s].asked = 0
    <2>1. AskOrder[pass[s].asked + 1] = "pending"
      BY <1>3 DEF AskOrder
    <2>2. pass' = [pass EXCEPT ![s].asked = @ + 1, ![s].pending = InState("pending"), ![s].broken = @]
      BY <2>1 DEF Ask, QueryCommitments
    <2> QED BY <1>1, <1>2, <1>3, <2>2 DEF PassRow
  <1>4. CASE pass[s].asked = 1
    <2>1. AskOrder[pass[s].asked + 1] = "broken"
      BY <1>4 DEF AskOrder
    <2>2. pass' = [pass EXCEPT ![s].asked = @ + 1, ![s].pending = @, ![s].broken = InState("broken")]
      BY <2>1 DEF Ask, QueryCommitments
    <2> QED BY <1>1, <1>2, <1>4, <2>2 DEF PassRow
  <1> QED BY <1>1, <1>3, <1>4

\* Who is asking after a step was asking before, or begins.
LEMMA Asking ==
    ASSUME Typing, NEW s \in Slots, StepOf(s), pc'[s] = "asking"
    PROVE  \/ BeginBriefing(s)
           \/ Ask(s)
           \/ Dies(s) /\ pc[s] = "asking" /\ pass' = pass /\ ledger' = ledger
  <1> USE DEF Typing, SessionsOK
  <1>1. CASE Calls(s)
    BY <1>1, CallStep DEF InCall
  <1>2. CASE Registers(s) \/ RegistersNot(s) \/ Dies(s)
    BY <1>2 DEF Registers, RegistersNot, Dies, rows
  <1>3. CASE Passes(s)
    BY <1>3 DEF Passes, PassGoes, StartPass, Decay, Flag, ReadToFlag, WriteBriefing, PassFails
  <1> QED BY <1>1, <1>2, <1>3 DEF StepOf

LEMMA AskBooksStep ==
    ASSUME Typing, Typing', AskBooks, NEW s \in Slots, StepOf(s)
    PROVE  AskBooks'
  <1>1. Len(ledger) \in Nat /\ Len(ledger') \in Nat /\ Commitments = 1..Len(ledger) /\ Commitments' = 1..Len(ledger')
    <2>1. RowsOK /\ RowsOK'
      BY DEF Typing
    <2>2. ledger \in Seq(Entry) /\ ledger' \in Seq(Entry)
      BY <2>1 DEF RowsOK
    <2> QED BY <2>2, LenProperties DEF Commitments
  <1>2. Len(ledger) <= Len(ledger')
    BY <1>1, CommitmentsKept
  <1>3. \A m \in 1..Len(ledger) : ledger[m].state # "pending" => ledger'[m].state # "pending"
    BY <1>1, LedgerSteps
  <1>4. \A t \in Slots : pass[t].upTo \in Nat /\ pass'[t].upTo \in Nat
    BY DEF Typing, SessionsOK
  <1>5. ASSUME NEW t \in Slots, pc'[t] = "asking", pc[t] = "asking", pass'[t].upTo = pass[t].upTo,
               pass'[t].asked = pass[t].asked, pass'[t].pending = pass[t].pending
        PROVE  /\ pass'[t].upTo <= Len(ledger')
               /\ pass'[t].asked = 1 =>
                     \A m \in 1..pass'[t].upTo : m \in pass'[t].pending \/ ledger'[m].state # "pending"
    <2>1. pass[t].upTo <= Len(ledger)
      BY <1>5 DEF AskBooks
    <2>2. \A m \in 1..pass[t].upTo : m \in 1..Len(ledger)
      BY <1>1, <1>4, <2>1
    <2> QED BY <1>1, <1>2, <1>3, <1>4, <1>5, <2>1, <2>2 DEF AskBooks
  <1>6. ASSUME NEW t \in Slots \ {s}, pc'[t] = "asking"
        PROVE  /\ pass'[t].upTo <= Len(ledger')
               /\ pass'[t].asked = 1 =>
                     \A m \in 1..pass'[t].upTo : m \in pass'[t].pending \/ ledger'[m].state # "pending"
    BY <1>5, <1>6, OthersKept
  <1>7. ASSUME pc'[s] = "asking"
        PROVE  /\ pass'[s].upTo <= Len(ledger')
               /\ pass'[s].asked = 1 =>
                     \A m \in 1..pass'[s].upTo : m \in pass'[s].pending \/ ledger'[m].state # "pending"
    <2>1. CASE BeginBriefing(s)
      <3>1. /\ pass'[s].upTo = Len(ledger) /\ pass'[s].asked = pass[s].asked
            /\ pc[s] = "flagging"
        BY <2>1 DEF BeginBriefing, PassGoes, Typing, SessionsOK
      <3>2. pass[s].asked # 1
        BY <3>1 DEF AskBooks
      <3> QED BY <1>1, <1>2, <3>1, <3>2
    <2>2. CASE Ask(s)
      <3>1. /\ pc[s] = "asking" /\ ledger' = ledger /\ pass'[s].upTo = pass[s].upTo
            /\ pass'[s].asked = pass[s].asked + 1
            /\ pass[s].asked = 1 \/ pass'[s].pending = InState("pending")
        BY <2>2, AskFacts
      <3>2. pass'[s].upTo <= Len(ledger')
        BY <3>1 DEF AskBooks
      <3>3. ASSUME pass'[s].asked = 1, NEW m \in 1..pass'[s].upTo
            PROVE  m \in pass'[s].pending \/ ledger'[m].state # "pending"
        <4>1. m \in Commitments /\ pass[s].asked # 1
          BY <1>1, <1>4, <3>1, <3>2, <3>3
        <4> QED BY <3>1, <4>1 DEF InState
      <3> QED BY <3>2, <3>3
    <2>3. CASE pc[s] = "asking" /\ pass' = pass
      BY <1>5, <1>7, <2>3
    <2> QED BY <1>7, <2>1, <2>2, <2>3, Asking
  <1>8. ASSUME NEW t \in Slots, pc'[t] # "asking"
        PROVE  pass'[t].asked = 0
    <2>1. CASE t # s
      BY <1>8, <2>1, OthersKept DEF AskBooks
    <2>2. CASE t = s
      <3> USE DEF Typing, SessionsOK
      <3>1. CASE Calls(s)
        <4>1. pass' = pass /\ pc[s] # "asking"
          BY <3>1, CallStep DEF Calls, OpenConcern, ReadToTouch, ReadToClose, ReadToCommit, ReadToReport,
               Begins, Touch, Close, InsertCommitment, MoveConcern, ReportCommitment, CallFails,
               CallIsCut, InCall
        <4> QED BY <2>2, <4>1 DEF AskBooks
      <3>2. CASE Registers(s) \/ RegistersNot(s) \/ Dies(s)
        <4>1. pass' = pass /\ pc[s] # "asking"
          BY <1>8, <2>2, <3>2 DEF Registers, RegistersNot, Dies
        <4> QED BY <2>2, <4>1 DEF AskBooks
      <3>3. CASE StartPass(s) \/ WriteBriefing(s) \/ PassFails(s)
        <4>1. StartPass(s) => pass'[s].asked = 0
          <5> SUFFICES ASSUME StartPass(s) PROVE pass'[s].asked = 0
            OBVIOUS
          <5> DEFINE stale == {c \in Concerns : Active(c) /\ concern[c].touched < number[s]}
                     low == {c \in stale : concern[c].low}
          <5>1. pass' = [pass EXCEPT ![s] = [NoPass EXCEPT !.todo = stale, !.seen = low]]
            BY DEF StartPass
          <5> HIDE DEF stale, low
          <5> QED BY <5>1 DEF NoPass
        <4>2. WriteBriefing(s) => pass'[s].asked = 0
          BY DEF WriteBriefing, NoPass
        <4>3. PassFails(s) => pass'[s].asked = 0
          <5>1. PassFails(s) => pass' = [pass EXCEPT ![s] = NoPass]
            BY DEF PassFails
          <5> QED BY <5>1 DEF NoPass
        <4> QED BY <2>2, <3>3, <4>1, <4>2, <4>3
      <3>4. CASE (\E c \in Concerns : Decay(s, c) \/ Flag(s, c)) \/ ReadToFlag(s)
        <4>1. pass'[s].asked = pass[s].asked /\ pc[s] # "asking"
          BY <3>4 DEF Decay, Flag, ReadToFlag, PassGoes
        <4> QED BY <2>2, <4>1 DEF AskBooks
      <3>5. ~BeginBriefing(s) /\ ~Ask(s)
        BY <1>8, <2>2 DEF BeginBriefing, Ask, PassGoes
      <3> QED BY <3>1, <3>2, <3>3, <3>4, <3>5 DEF StepOf, Passes
    <2> QED BY <2>1, <2>2
  <1> QED BY <1>6, <1>7, <1>8 DEF AskBooks

LEMMA AskBooksHold == Spec => []AskBooks
  <1>1. Init => AskBooks
    BY DEF Init, AskBooks, NoPass
  <1>2. Typing /\ Typing' /\ AskBooks /\ [Next]_vars => AskBooks'
    <2> SUFFICES ASSUME Typing, Typing', AskBooks, [Next]_vars PROVE AskBooks'
      OBVIOUS
    <2>1. CASE UNCHANGED vars
      BY <2>1 DEF vars, rows, own, histories, AskBooks
    <2> QED BY <2>1, AskBooksStep DEF Next, StepOf
  <1> QED BY <1>1, <1>2, TypingHolds, PTL DEF Spec

\* No commitment falls between the two queries of a briefing.
THEOREM NothingIsUnlisted == Spec => NothingUnlisted
  <1> DEFINE Listed ==
               \A s \in Slots :
                  (pass[s].asked < 2 /\ pass'[s].asked = 2) =>
                      \A m \in 1..pass[s].upTo :
                          ledger[m].state = "fulfilled" \/ m \in pass'[s].pending \cup pass'[s].broken
  <1>1. Typing /\ Typing' /\ AskBooks /\ AskBooks' /\ [Next]_vars => [Listed]_vars
    <2> SUFFICES ASSUME Typing, Typing', AskBooks, AskBooks', Next,
                        NEW t \in Slots, pass[t].asked < 2, pass'[t].asked = 2, NEW m \in 1..pass[t].upTo
                 PROVE  ledger[m].state = "fulfilled" \/ m \in pass'[t].pending \cup pass'[t].broken
      OBVIOUS
    <2>1. PICK s \in Slots : StepOf(s)
      BY DEF Next, StepOf
    <2>2. t = s
      BY <2>1, OthersKept
    <2>3. pc'[s] = "asking"
      BY <2>2 DEF AskBooks
    <2>4. Ask(s)
      <3>1. BeginBriefing(s) => pass'[s].asked = pass[s].asked
        BY DEF BeginBriefing, Typing, SessionsOK
      <3> QED BY <2>1, <2>2, <2>3, <3>1, Asking
    <2>5. pass[s].asked = 1 /\ pass'[s].pending = pass[s].pending /\ pass'[s].broken = InState("broken")
      BY <2>2, <2>4, AskFacts
    <2>6. m \in Commitments
      <3>1. pc[s] = "asking" /\ pass[s].upTo \in Nat
        BY <2>4, AskFacts DEF Typing, SessionsOK
      <3>2. pass[s].upTo <= Len(ledger)
        BY <3>1 DEF AskBooks
      <3> QED BY <2>2, <3>1, <3>2, LedgerFacts DEF Typing
    <2>7. ledger[m].state \in {"pending", "fulfilled", "broken"}
      BY <2>6, LedgerFacts DEF Typing, Entry
    <2>8. m \in pass[s].pending \/ ledger[m].state # "pending"
      <3>1. pc[s] = "asking"
        BY <2>4, AskFacts
      <3> QED BY <2>2, <2>5, <3>1 DEF AskBooks
    <2> QED BY <2>2, <2>5, <2>6, <2>7, <2>8 DEF InState
  <1> QED BY <1>1, TypingHolds, AskBooksHold, PTL DEF Spec, NothingUnlisted

\* A report of a broken commitment is in the briefing that is about to be written, or will
\* be in the one of the session that made it.
ReportBooks ==
    \A m \in InState("broken") :
        /\ ledger[m].by \in Slots
        /\ \A s \in Slots :
              pc[s] = "asking" /\ pass[s].asked = 2 /\ ~pass[s].late =>
                 \/ m \in pass[s].broken \cup excused
                 \/ ledger[m].by # s /\ StillAsks(ledger[m].by)

\* Who still asks, after a step.
LEMMA AsksOn ==
    ASSUME Typing, Typing', AliveBooks, NEW s \in Slots, StepOf(s),
           NEW t \in Slots, StillAsks(t), ~Dies(s), ~PassFails(s)
    PROVE  StillAsks(t)' \/ (t = s /\ WriteBriefing(s))
  <1> USE DEF Typing, SessionsOK
  <1>1. CASE t # s
    BY <1>1, OthersKept DEF StillAsks
  <1>2. CASE t = s /\ ~WriteBriefing(s)
    <2>1. CASE pc[s] \in InPass
      <3>1. pc'[s] \in InPass
        <4>1. Passes(s)
          BY <2>1 DEF StepOf, Registers, RegistersNot, Calls, OpenConcern, ReadToTouch, ReadToClose,
               ReadToCommit, ReadToReport, Begins, Touch, Close, InsertCommitment, MoveConcern,
               ReportCommitment, CallFails, CallIsCut, InCall, InPass
        <4> QED BY <1>2, <4>1 DEF Passes, PassGoes, StartPass, Decay, Flag, ReadToFlag,
                  BeginBriefing, Ask, InPass
      <3> QED BY <1>2, <3>1 DEF StillAsks
    <2>2. CASE pc[s] \in {"ready"} \cup InCall /\ alive[s]
      <3>1. alive'[s]
        BY <1>2, <2>2, WhereTo
      <3>2. pc'[s] \in {"ready"} \cup InCall \cup InPass
        <4>1. CASE pc[s] \in InCall
          BY <3>1, <4>1, WhereTo
        <4>2. CASE pc[s] = "ready"
          BY <4>2 DEF StepOf, Registers, RegistersNot, Calls, OpenConcern, ReadToTouch, ReadToClose,
               ReadToCommit, ReadToReport, Begins, Touch, Close, InsertCommitment, MoveConcern,
               ReportCommitment, CallFails, CallIsCut, InCall, InPass, Passes, PassGoes, StartPass,
               Decay, Flag, ReadToFlag, BeginBriefing, Ask, WriteBriefing, PassFails
        <4> QED BY <2>2, <4>1, <4>2
      <3> QED BY <1>2, <3>1, <3>2 DEF StillAsks
    <2> QED BY <1>2, <2>1, <2>2 DEF StillAsks
  <1> QED BY <1>1, <1>2

LEMMA ReportBooksStep ==
    ASSUME Typing, Typing', AliveBooks, AskBooks, ReportBooks, BrokenPersist, NEW s \in Slots, StepOf(s)
    PROVE  ReportBooks' /\ BrokenPersist'
  <1>1. pc \in [Slots -> {"gone", "ready"} \cup InCall \cup InPass]
        /\ pass \in [Slots -> PassRow] /\ pass' \in [Slots -> PassRow]
    BY DEF Typing, SessionsOK, PassRow
  <1>2. CASE ReportCommitment(s)
    <2> DEFINE k == call[s].commitment
    <2>1. /\ k \in Commitments /\ Commitments' = Commitments
          /\ ledger'[k].state \in {"fulfilled", "broken"} /\ ledger'[k].by = s
          /\ \A m \in Commitments \ {k} : ledger'[m] = ledger[m]
          /\ excused' = IF ledger'[k].state = "broken" /\ ~alive[s] THEN excused \cup {k}
                        ELSE excused \ {k}
      BY <1>2, ReportFacts
    <2>2. briefing' = briefing /\ pass' = pass /\ alive' = alive
      BY <1>2, CallStep DEF Calls, ReportCommitment, Returns
    <2>3. pc'[s] \in {"ready", "gone"} /\ (alive[s] => pc'[s] = "ready")
      BY <1>1, <1>2 DEF ReportCommitment, Returns
    <2>4. ~Dies(s) /\ ~PassFails(s) /\ ~WriteBriefing(s)
      BY <1>2, <1>1 DEF ReportCommitment, Dies, PassFails, WriteBriefing, PassGoes, InPass, Returns
    <2>5. \A t \in Slots : StillAsks(t) => StillAsks(t)'
      BY <2>4, AsksOn
    <2>6. alive[s] => StillAsks(s)'
      BY <2>2, <2>3 DEF StillAsks
    <2>7. \A t \in Slots : pc'[t] = "asking" => t # s /\ pc[t] = "asking"
      BY <2>3, OthersKept
    <2>8. ASSUME NEW m \in InState("broken")', m # k
          PROVE  m \in InState("broken") /\ ledger'[m] = ledger[m]
                 /\ (m \in excused => m \in excused')
      BY <2>1, <2>8 DEF InState
    <2>9. k \in InState("broken")' => k \in excused' \/ alive[s]
      BY <2>1 DEF InState
    <2> HIDE DEF k
    <2>10. BrokenPersist'
      <3> SUFFICES ASSUME NEW m \in InState("broken")'
                   PROVE  m \in briefing' \cup excused' \/ StillAsks(ledger[m].by)'
        BY DEF BrokenPersist
      <3>1. CASE m = k
        BY <2>1, <2>6, <2>9, <3>1
      <3>2. CASE m # k
        <4>1. m \in briefing \cup excused \/ StillAsks(ledger[m].by)
          BY <2>8, <3>2 DEF BrokenPersist
        <4>2. ledger[m].by \in Slots
          BY <2>8, <3>2 DEF ReportBooks
        <4> QED BY <2>2, <2>5, <2>8, <3>2, <4>1, <4>2
      <3> QED BY <3>1, <3>2
    <2>11. ReportBooks'
      <3> SUFFICES ASSUME NEW m \in InState("broken")'
                   PROVE  /\ ledger'[m].by \in Slots
                          /\ \A t \in Slots :
                                pc'[t] = "asking" /\ pass'[t].asked = 2 /\ ~pass'[t].late =>
                                   \/ m \in pass'[t].broken \cup excused'
                                   \/ ledger'[m].by # t /\ StillAsks(ledger[m].by)'
        BY DEF ReportBooks
      <3>1. CASE m = k
        BY <2>1, <2>6, <2>7, <2>9, <3>1
      <3>2. CASE m # k
        <4>1. ledger[m].by \in Slots
          BY <2>8, <3>2 DEF ReportBooks
        <4>2. ASSUME NEW t \in Slots, pc'[t] = "asking", pass'[t].asked = 2, ~pass'[t].late
              PROVE  \/ m \in pass'[t].broken \cup excused'
                     \/ ledger'[m].by # t /\ StillAsks(ledger[m].by)'
          <5>1. \/ m \in pass[t].broken \cup excused
                \/ ledger[m].by # t /\ StillAsks(ledger[m].by)
            BY <2>2, <2>7, <2>8, <3>2, <4>2 DEF ReportBooks
          <5> QED BY <2>2, <2>5, <2>8, <3>2, <4>1, <5>1
        <4> QED BY <2>8, <3>2, <4>1, <4>2
      <3> QED BY <3>1, <3>2
    <2> QED BY <2>10, <2>11
  <1>3. CASE Dies(s) \/ PassFails(s)
    <2>1. ledger' = ledger /\ excused' = excused \cup InState("broken")
      BY <1>3 DEF Dies, PassFails, rows
    <2> QED BY <2>1 DEF InState, Commitments, BrokenPersist, ReportBooks
  <1>4. CASE WriteBriefing(s)
    <2>1. /\ ledger' = ledger /\ briefing' = pass[s].broken /\ pc[s] = "asking" /\ pass[s].asked = 2
          /\ excused' = IF pass[s].late THEN excused \cup InState("broken") ELSE excused \ pass[s].broken
          /\ pc'[s] = "gone"
      BY <1>1, <1>4 DEF WriteBriefing, PassGoes, rows
    <2>2. InState("broken")' = InState("broken")
      BY <2>1 DEF InState, Commitments
    <2>3. ~Dies(s) /\ ~PassFails(s)
      <3>1. faults' = faults /\ faults \in Nat
        BY <1>4 DEF WriteBriefing, PassGoes, Typing, SessionsOK, RowsOK, CallsOK
      <3> QED BY <3>1 DEF Dies, PassFails, Fault
    <2>4. BrokenPersist'
      <3> SUFFICES ASSUME NEW m \in InState("broken")
                   PROVE  m \in briefing' \cup excused' \/ StillAsks(ledger[m].by)'
        BY <2>1, <2>2 DEF BrokenPersist
      <3>1. CASE pass[s].late
        BY <2>1, <3>1
      <3>2. CASE ~pass[s].late
        <4>1. /\ ledger[m].by \in Slots
              /\ m \in pass[s].broken \cup excused \/ (ledger[m].by # s /\ StillAsks(ledger[m].by))
          BY <2>1, <3>2 DEF ReportBooks
        <4>2. StillAsks(ledger[m].by) /\ ledger[m].by # s => StillAsks(ledger[m].by)'
          <5>1. \A t \in Slots : StillAsks(t) /\ t # s => StillAsks(t)'
            BY <2>3, AsksOn
          <5> QED BY <2>1, <4>1, <5>1
        <4> QED BY <2>1, <3>2, <4>1, <4>2
      <3> QED BY <3>1, <3>2
    <2>5. ASSUME NEW t \in Slots, pc'[t] = "asking", pass'[t].asked = 2
          PROVE  pass'[t].late
      <3>1. t # s /\ pass[t].asked = 2
        BY <2>1, <2>5, OthersKept
      <3>2. pass'[t] = [pass[t] EXCEPT !.late = @ \/ pass[t].asked > 0]
        BY <1>4, <3>1 DEF WriteBriefing
      <3>3. pass[t] \in PassRow
        BY <1>1
      <3>4. pass'[t].late = (pass[t].late \/ pass[t].asked > 0)
        BY <3>2, <3>3 DEF PassRow
      <3>5. pass[t].asked > 0
        BY <3>1
      <3>6. (pass[t].late \/ pass[t].asked > 0) = TRUE
        BY <3>5, Zenon
      <3>7. pass'[t].late = TRUE
        BY <3>4, <3>6, Zenon
      <3> QED BY <3>7
    <2> QED BY <2>1, <2>2, <2>4, <2>5 DEF ReportBooks
  <1>5. CASE ~ReportCommitment(s) /\ ~Dies(s) /\ ~PassFails(s) /\ ~WriteBriefing(s)
    <2>1. briefing' = briefing /\ excused' = excused
      BY <1>5 DEF StepOf, Registers, RegistersNot, Calls, Passes, Returns, histories, OpenConcern,
           ReadToTouch, ReadToClose, ReadToCommit, ReadToReport, Begins, Touch, Close, InsertCommitment,
           MoveConcern, CallFails, CallIsCut, StartPass, Decay, Flag, ReadToFlag, BeginBriefing, Ask
    <2>2. ASSUME NEW m \in InState("broken")'
          PROVE  m \in InState("broken") /\ ledger'[m] = ledger[m]
      <3>1. CASE InsertCommitment(s)
        <4> DEFINE e == [of |-> call[s].on, state |-> "pending", by |-> NoConcern, reports |-> 0]
        <4>1. e \in Entry /\ ledger' = Append(ledger, e) /\ e.state = "pending"
          BY <3>1 DEF InsertCommitment, CallsOK, InCall, Entry, Typing
        <4> HIDE DEF e
        <4> QED BY <2>2, <4>1, LedgerGrows DEF Typing, InState
      <3>2. CASE ledger' = ledger
        BY <2>2, <3>2 DEF InState, Commitments
      <3> QED BY <1>5, <3>1, <3>2, LedgerKept
    <2>3. \A t \in Slots : StillAsks(t) => StillAsks(t)'
      BY <1>5, AsksOn
    <2>4. BrokenPersist'
      <3> SUFFICES ASSUME NEW m \in InState("broken")'
                   PROVE  m \in briefing' \cup excused' \/ StillAsks(ledger[m].by)'
        BY DEF BrokenPersist
      <3>1. m \in InState("broken") /\ ledger'[m] = ledger[m]
        BY <2>2
      <3>2. ledger[m].by \in Slots /\ (m \in briefing \cup excused \/ StillAsks(ledger[m].by))
        BY <3>1 DEF ReportBooks, BrokenPersist
      <3>3. StillAsks(ledger[m].by) => StillAsks(ledger[m].by)'
        BY <2>3, <3>1, <3>2
      <3> QED BY <2>1, <3>2, <3>3
    <2>5. ReportBooks'
      <3> SUFFICES ASSUME NEW m \in InState("broken")'
                   PROVE  /\ ledger'[m].by \in Slots
                          /\ \A t \in Slots :
                                pc'[t] = "asking" /\ pass'[t].asked = 2 /\ ~pass'[t].late =>
                                   \/ m \in pass'[t].broken \cup excused'
                                   \/ ledger'[m].by # t /\ StillAsks(ledger[m].by)'
        BY DEF ReportBooks
      <3>1. m \in InState("broken") /\ ledger'[m] = ledger[m]
        BY <2>2
      <3>2. ledger[m].by \in Slots
        BY <3>1 DEF ReportBooks
      <3>3. StillAsks(ledger[m].by) => StillAsks(ledger[m].by)'
        BY <2>3, <3>1, <3>2
      <3>4. ASSUME NEW t \in Slots, pc'[t] = "asking", pass'[t].asked = 2, ~pass'[t].late,
                   pc[t] = "asking", pass'[t] = pass[t]
            PROVE  \/ m \in pass'[t].broken \cup excused'
                   \/ ledger'[m].by # t /\ StillAsks(ledger[m].by)'
        <4>1. \/ m \in pass[t].broken \cup excused
              \/ ledger[m].by # t /\ StillAsks(ledger[m].by)
          BY <3>1, <3>4 DEF ReportBooks
        <4> QED BY <2>1, <3>1, <3>3, <3>4, <4>1
      <3>5. ASSUME NEW t \in Slots, t # s, pc'[t] = "asking"
            PROVE  pc[t] = "asking" /\ pass'[t] = pass[t]
        BY <1>5, <3>5, OthersKept
      <3>6. ASSUME pc'[s] = "asking", pass'[s].asked = 2
            PROVE  m \in pass'[s].broken
        <4>1. ~BeginBriefing(s)
          <5>1. BeginBriefing(s) => pass'[s].asked = pass[s].asked /\ pc[s] # "asking"
            BY <1>1 DEF BeginBriefing, PassGoes, Typing, SessionsOK
          <5> QED BY <3>6, <5>1 DEF AskBooks
        <4>2. Ask(s)
          BY <1>5, <3>6, <4>1, Asking
        <4>3. pass[s].asked = 1 /\ pass'[s].broken = InState("broken")
          BY <3>6, <4>2, AskFacts
        <4> QED BY <3>1, <4>3
      <3> QED BY <3>1, <3>2, <3>4, <3>5, <3>6
    <2> QED BY <2>4, <2>5
  <1> QED BY <1>2, <1>3, <1>4, <1>5

\* A broken commitment stays in the briefings until it is reported otherwise.
THEOREM BrokenOnesPersist == Spec => []BrokenPersist
  <1> DEFINE Books == AliveBooks /\ ReportBooks /\ BrokenPersist
  <1>1. Init => Books
    BY DEF Init, AliveBooks, ReportBooks, BrokenPersist, InState, Commitments, InCall
  <1>2. Typing /\ Typing' /\ AskBooks /\ Books /\ [Next]_vars => Books'
    <2> SUFFICES ASSUME Typing, Typing', AskBooks, Books, [Next]_vars PROVE Books'
      OBVIOUS
    <2>1. CASE UNCHANGED vars
      BY <2>1 DEF vars, rows, own, histories, AliveBooks, ReportBooks, BrokenPersist, InState,
                  Commitments, StillAsks
    <2>2. ASSUME NEW s \in Slots, StepOf(s) PROVE Books'
      BY <2>2, AliveBooksStep, ReportBooksStep
    <2> QED BY <2>1, <2>2 DEF Next, StepOf
  <1>3. Books => BrokenPersist
    OBVIOUS
  <1> HIDE DEF Books
  <1> QED BY <1>1, <1>2, <1>3, TypingHolds, AskBooksHold, PTL DEF Spec

-----------------------------------------------------------------------------
(* What stale reads can lead to. *)

One(claim) == IF claim THEN 1 ELSE 0

\* The sessions whose calls will still commit to a concern: their commitment is not made yet
\* (by a tool that may have outlived its runner), or it is and the concern is not moved yet.
Making(c) == {s \in Slots : pc[s] = "committing" /\ call[s].on = c}
DeadMaking(c) == {s \in Making(c) : ~alive[s]}
Moving(c) == {s \in Slots : pc[s] = "moving" /\ call[s].on = c}
LiveMoving(c) == {s \in Moving(c) : alive[s]}
Reporting(m) == {s \in Slots : pc[s] = "reporting" /\ call[s].commitment = m}

\* Sets of slots are counted.
LEMMA SlotCount ==
    ASSUME NEW X, X \subseteq Slots
    PROVE  /\ IsFiniteSet(X) /\ Cardinality(X) \in Nat /\ Cardinality(Slots) \in Nat
           /\ Cardinality(Slots) > 0
           /\ Cardinality(X) <= Cardinality(Slots)
           /\ \A s \in Slots : s \notin X => Cardinality(X) <= Cardinality(Slots) - 1
  <1>1. IsFiniteSet(X) /\ Cardinality(X) <= Cardinality(Slots) /\ Cardinality(X) \in Nat
        /\ Cardinality(Slots) \in Nat /\ Cardinality(Slots) # 0
    BY SlotsFinite, FS_Subset, FS_CardinalityType, FS_EmptySet
  <1>2. ASSUME NEW s \in Slots, s \notin X
        PROVE  Cardinality(X) <= Cardinality(Slots) - 1
    <2>1. IsFiniteSet(Slots \ {s}) /\ Cardinality(Slots \ {s}) = Cardinality(Slots) - 1
      BY SlotsFinite, FS_RemoveElement
    <2>2. X \subseteq Slots \ {s}
      BY <1>2
    <2> QED BY <2>1, <2>2, FS_Subset
  <1> QED BY <1>1, <1>2

\* What one session more or less does to a count.
LEMMA CountStep ==
    ASSUME NEW X, NEW Y, X \subseteq Slots, Y \subseteq Slots, NEW s \in Slots, X \ {s} = Y \ {s}
    PROVE  Cardinality(Y) + One(s \in X) = Cardinality(X) + One(s \in Y)
  <1>1. IsFiniteSet(X) /\ IsFiniteSet(Y) /\ Cardinality(X) \in Nat /\ Cardinality(Y) \in Nat
    BY SlotCount
  <1>2. CASE s \in X /\ s \notin Y
    <2>1. Y = X \ {s}
      BY <1>2
    <2>2. Cardinality(Y) = Cardinality(X) - 1
      BY <1>1, <1>2, <2>1, FS_RemoveElement
    <2> QED BY <1>1, <1>2, <2>2 DEF One
  <1>3. CASE s \notin X /\ s \in Y
    <2>1. X = Y \ {s}
      BY <1>3
    <2>2. Cardinality(X) = Cardinality(Y) - 1
      BY <1>1, <1>3, <2>1, FS_RemoveElement
    <2> QED BY <1>1, <1>3, <2>2 DEF One
  <1>4. CASE (s \in X) = (s \in Y)
    <2>1. X = Y
      BY <1>4
    <2> QED BY <1>1, <2>1 DEF One
  <1> QED BY <1>2, <1>3, <1>4

\* A concern that is committed or closed was reopened at most once for each session that no
\* longer is at a commitment of it, and the one that moved it first did not reopen it.
ReopenBooks ==
    \A c \in Concerns :
        /\ concern[c].state \in {"none", "open"} => reopened[c] = 0
        /\ concern[c].state \in {"committed", "closed"} =>
              reopened[c] + Cardinality(Making(c) \cup Moving(c)) <= Cardinality(Slots) - 1

\* Who is at a commitment of a concern.
LEMMA CommittersStep ==
    ASSUME Typing, NEW s \in Slots, StepOf(s), NEW c \in Concerns
    PROVE  /\ (Making(c) \cup Moving(c))' \subseteq Slots
           /\ (Making(c) \cup Moving(c)) \subseteq Slots
           /\ \/ (Making(c) \cup Moving(c))' \subseteq Making(c) \cup Moving(c)
              \/ ReadToCommit(s, c)
           /\ Close(s) \/ MoveConcern(s) => s \notin (Making(c) \cup Moving(c))'
  <1> USE DEF Typing, SessionsOK
  <1>1. \A t \in Slots \ {s} : pc'[t] = pc[t] /\ call'[t] = call[t]
    BY OthersKept
  <1>2. ASSUME s \in (Making(c) \cup Moving(c))', s \notin Making(c) \cup Moving(c)
        PROVE  ReadToCommit(s, c)
    <2>1. pc'[s] \in {"committing", "moving"} /\ call'[s].on = c
      BY <1>2 DEF Making, Moving
    <2>2. Calls(s)
      <3>1. CASE Passes(s)
        BY <2>1, <3>1, PassStep DEF InPass
      <3>2. CASE Registers(s) \/ RegistersNot(s) \/ Dies(s)
        BY <1>2, <2>1, <3>2 DEF Registers, RegistersNot, Dies, Making, Moving
      <3> QED BY <3>1, <3>2 DEF StepOf
    <2>3. CASE InsertCommitment(s)
      BY <1>2, <2>1, <2>3 DEF InsertCommitment, Making, Moving
    <2>4. CASE \E d \in Concerns : ReadToCommit(s, d)
      <3>1. PICK d \in Concerns : ReadToCommit(s, d)
        BY <2>4
      <3>2. call'[s] = About(d)
        BY <3>1 DEF ReadToCommit, Begins
      <3>3. d = c
        BY <2>1, <3>2 DEF About, NoCall
      <3> QED BY <3>1, <3>3
    <2> QED BY <2>1, <2>2, <2>3, <2>4 DEF Calls, OpenConcern, ReadToTouch, ReadToClose, ReadToReport,
          Begins, Returns, Touch, Close, MoveConcern, ReportCommitment, CallFails, CallIsCut,
          Making, Moving
  <1>3. (Making(c) \cup Moving(c))' \ {s} \subseteq Making(c) \cup Moving(c)
    BY <1>1 DEF Making, Moving
  <1>4. Close(s) \/ MoveConcern(s) => s \notin (Making(c) \cup Moving(c))'
    BY DEF Close, MoveConcern, Returns, Making, Moving
  <1> QED BY <1>2, <1>3, <1>4 DEF Making, Moving

LEMMA ReopenBooksStep ==
    ASSUME Typing, Typing', ReopenBooks, NEW s \in Slots, StepOf(s)
    PROVE  ReopenBooks'
  <1> SUFFICES ASSUME NEW c \in Concerns
               PROVE  /\ concern'[c].state \in {"none", "open"} => reopened'[c] = 0
                      /\ concern'[c].state \in {"committed", "closed"} =>
                            reopened'[c] + Cardinality((Making(c) \cup Moving(c))') <= Cardinality(Slots) - 1
    BY DEF ReopenBooks
  <1> DEFINE At == Making(c) \cup Moving(c)
             Later == (Making(c) \cup Moving(c))'
  <1>1. At \subseteq Slots /\ Later \subseteq Slots
    BY CommittersStep
  <1>2. concern[c].state \in States /\ reopened[c] \in Nat /\ reopened'[c] \in Nat
    BY DEF Typing, RowsOK, Row
  <1>3. /\ Cardinality(At) \in Nat /\ Cardinality(Later) \in Nat /\ Cardinality(Slots) \in Nat
        /\ IsFiniteSet(At) /\ Cardinality(Later) <= Cardinality(Slots)
        /\ Later \subseteq At => Cardinality(Later) <= Cardinality(At)
        /\ s \notin Later => Cardinality(Later) <= Cardinality(Slots) - 1
    BY <1>1, SlotCount, FS_Subset
  <1>4. /\ concern[c].state \in {"none", "open"} => reopened[c] = 0
        /\ concern[c].state \in {"committed", "closed"} =>
              reopened[c] + Cardinality(At) <= Cardinality(Slots) - 1
    BY DEF ReopenBooks
  <1>5. reopened'[c] = reopened[c] \/ (MoveConcern(s) /\ call[s].on = c)
    <2>1. CASE MoveConcern(s)
      <3>1. reopened' = [reopened EXCEPT ![call[s].on] =
                            IF Closed(call[s].on) THEN reopened[call[s].on] + 1 ELSE reopened[call[s].on]]
        BY <2>1 DEF MoveConcern
      <3>2. reopened \in [Concerns -> Nat]
        BY DEF Typing, RowsOK
      <3> QED BY <2>1, <3>1, <3>2
    <2>2. CASE ~MoveConcern(s)
      BY <2>2 DEF StepOf, Registers, RegistersNot, Dies, Calls, Passes, PassGoes, histories, OpenConcern,
         ReadToTouch, ReadToClose, ReadToCommit, ReadToReport, Begins, Touch, Close, InsertCommitment,
         ReportCommitment, CallFails, CallIsCut, StartPass, Decay, Flag, ReadToFlag, BeginBriefing,
         Ask, WriteBriefing, PassFails
    <2> QED BY <2>1, <2>2
  <1>6. CASE MoveConcern(s) /\ call[s].on = c
    <2>1. /\ concern'[c].state = "committed"
          /\ reopened'[c] = IF concern[c].state = "closed" THEN reopened[c] + 1 ELSE reopened[c]
      BY <1>6 DEF MoveConcern, Closed, Typing, RowsOK, Row
    <2>2. s \in At /\ s \notin Later
      <3>1. s \in Moving(c)
        BY <1>6 DEF MoveConcern, Moving
      <3>2. s \notin Later
        BY <1>6, CommittersStep
      <3> QED BY <3>1, <3>2
    <2>3. Later \subseteq At
      <3>1. ~ReadToCommit(s, c)
        BY <1>6 DEF MoveConcern, ReadToCommit, Begins
      <3> QED BY <3>1, CommittersStep
    <2>4. Cardinality(Later) <= Cardinality(At) - 1
      <3>1. Later \subseteq At \ {s}
        BY <2>2, <2>3
      <3>2. IsFiniteSet(At \ {s}) /\ Cardinality(At \ {s}) = Cardinality(At) - 1
        BY <1>3, <2>2, FS_RemoveElement
      <3> QED BY <3>1, <3>2, FS_Subset
    <2> QED BY <1>2, <1>3, <1>4, <2>1, <2>2, <2>4 DEF States
  <1>7. CASE Close(s) /\ c = call[s].on /\ ~MoveConcern(s)
    <2>1. concern'[c].state = "closed"
      BY <1>7 DEF Close, Typing, RowsOK, Row
    <2>2. s \notin Later
      BY <1>7, CommittersStep
    <2>3. Later \subseteq At
      <3>1. ~ReadToCommit(s, c)
        BY <1>7 DEF Close, ReadToCommit, Begins
      <3> QED BY <3>1, CommittersStep
    <2> QED BY <1>2, <1>3, <1>4, <1>5, <1>7, <2>1, <2>2, <2>3 DEF States
  <1>8. CASE OpenConcern(s, c) /\ ~MoveConcern(s)
    <2>1. concern[c].state = "none" /\ concern'[c].state = "open"
      BY <1>8 DEF OpenConcern, Typing, RowsOK
    <2> QED BY <1>4, <1>5, <1>8, <2>1
  <1>9. CASE concern'[c].state = concern[c].state /\ ~(MoveConcern(s) /\ call[s].on = c)
    <2>1. CASE Later \subseteq At
      <3> QED BY <1>2, <1>3, <1>4, <1>5, <1>9, <2>1
    <2>2. CASE ReadToCommit(s, c)
      <3>1. concern[c].state = "open"
        BY <2>2 DEF ReadToCommit
      <3> QED BY <1>4, <1>5, <1>9, <3>1
    <2> QED BY <2>1, <2>2, CommittersStep
  <1>10. MoveConcern(s) => ~OpenConcern(s, c) /\ ~Close(s)
    BY DEF MoveConcern, OpenConcern, Close
  <1> HIDE DEF At
  <1> QED BY <1>6, <1>7, <1>8, <1>9, <1>10, RowChanges

\* A report that stands was made by one of the sessions that found the commitment pending.
CountBooks ==
    \A m \in Commitments :
        /\ ledger[m].state = "pending" => ledger[m].reports = 0
        /\ ledger[m].reports + Cardinality(Reporting(m)) <= Cardinality(Slots)

LEMMA CountBooksStep ==
    ASSUME Typing, Typing', CountBooks, NEW s \in Slots, StepOf(s)
    PROVE  CountBooks'
  <1> SUFFICES ASSUME NEW m \in Commitments'
               PROVE  /\ ledger'[m].state = "pending" => ledger'[m].reports = 0
                      /\ ledger'[m].reports + Cardinality(Reporting(m)') <= Cardinality(Slots)
    BY DEF CountBooks
  <1>1. Reporting(m) \subseteq Slots /\ Reporting(m)' \subseteq Slots
    BY DEF Reporting
  <1>2. /\ Cardinality(Reporting(m)) \in Nat /\ Cardinality(Reporting(m)') \in Nat
        /\ Cardinality(Slots) \in Nat /\ Cardinality(Reporting(m)') <= Cardinality(Slots)
    BY <1>1, SlotCount
  <1>3. Reporting(m) \ {s} = Reporting(m)' \ {s}
    BY OthersKept DEF Reporting
  <1>4. Cardinality(Reporting(m)') + One(s \in Reporting(m))
          = Cardinality(Reporting(m)) + One(s \in Reporting(m)')
    BY <1>1, <1>3, CountStep
  <1>5. CASE m \notin Commitments
    <2> DEFINE e == [of |-> call[s].on, state |-> "pending", by |-> NoConcern, reports |-> 0]
    <2>1. InsertCommitment(s)
      <3>1. ledger' # ledger /\ ~ReportCommitment(s)
        BY <1>5, ReportFacts DEF Commitments
      <3> QED BY <3>1, LedgerKept
    <2>2. e \in Entry /\ ledger' = Append(ledger, e) /\ e.reports = 0
      BY <2>1 DEF InsertCommitment, CallsOK, InCall, Entry, Typing
    <2>3. ledger'[m].reports = 0
      <3> HIDE DEF e
      <3> QED BY <1>5, <2>2, LedgerGrows DEF Typing
    <2> QED BY <1>2, <2>3
  <1>6. CASE m \in Commitments
    <2>1. ledger[m] \in Entry /\ ledger[m].reports \in Nat
      BY <1>6, LedgerFacts DEF Typing, Entry
    <2>2. /\ ledger[m].state = "pending" => ledger[m].reports = 0
          /\ ledger[m].reports + Cardinality(Reporting(m)) <= Cardinality(Slots)
      BY <1>6 DEF CountBooks
    <2>3. CASE ReportCommitment(s) /\ m = call[s].commitment
      <3>1. ledger'[m].reports = ledger[m].reports + 1 /\ ledger'[m].state \in {"fulfilled", "broken"}
        BY <2>3, ReportFacts
      <3>2. s \in Reporting(m)
        BY <2>3 DEF ReportCommitment, Reporting
      <3>3. s \notin Reporting(m)'
        BY <2>3 DEF ReportCommitment, Returns, Reporting, Typing, SessionsOK
      <3>4. Cardinality(Reporting(m)') + 1 = Cardinality(Reporting(m))
        BY <1>2, <1>4, <3>2, <3>3 DEF One
      <3> QED BY <1>2, <2>1, <2>2, <3>1, <3>4
    <2>4. CASE ledger'[m] = ledger[m]
      <3>1. CASE s \in Reporting(m)' => s \in Reporting(m)
        <4>1. Cardinality(Reporting(m)') <= Cardinality(Reporting(m))
          BY <1>2, <1>4, <3>1 DEF One
        <4> QED BY <1>2, <2>1, <2>2, <2>4, <4>1
      <3>2. CASE s \in Reporting(m)' /\ s \notin Reporting(m)
        <4>1. Calls(s)
          <5>1. pc'[s] = "reporting" /\ call'[s].commitment = m
            BY <3>2 DEF Reporting
          <5>2. ~Passes(s)
            BY <5>1, PassStep DEF InPass
          <5>3. ~Registers(s) /\ ~RegistersNot(s) /\ ~Dies(s)
            BY <3>2, <5>1 DEF Registers, RegistersNot, Dies, Reporting, Typing, SessionsOK
          <5> QED BY <5>2, <5>3 DEF StepOf
        <4>2. PICK k \in Commitments : ReadToReport(s, k)
          <5>1. ~InsertCommitment(s) /\ ~OpenConcern(s, call[s].on)
            BY <3>2 DEF InsertCommitment, OpenConcern, Reporting, Typing, SessionsOK
          <5>2. \A c \in Concerns : ~OpenConcern(s, c) /\ ~ReadToTouch(s, c) /\ ~ReadToClose(s, c)
                                    /\ ~ReadToCommit(s, c)
            BY <3>2 DEF OpenConcern, ReadToTouch, ReadToClose, ReadToCommit, Begins, Reporting,
                        Typing, SessionsOK
          <5>3. ~Returns(s)
            BY <3>2 DEF Returns, Reporting, Typing, SessionsOK
          <5> QED BY <4>1, <5>1, <5>2, <5>3 DEF Calls, Touch, Close, MoveConcern, ReportCommitment,
                                                CallFails, CallIsCut
        <4>3. k = m
          <5>1. call'[s] = [NoCall EXCEPT !.commitment = k]
            BY <4>2 DEF ReadToReport, Begins, Typing, SessionsOK
          <5> QED BY <3>2, <5>1 DEF Reporting, NoCall
        <4>4. ledger[m].reports = 0
          BY <2>2, <4>2, <4>3 DEF ReadToReport
        <4> QED BY <1>2, <2>4, <4>4
      <3> QED BY <3>1, <3>2
    <2>5. ledger'[m] = ledger[m] \/ (ReportCommitment(s) /\ m = call[s].commitment)
      BY <1>6, LedgerSteps
    <2> QED BY <2>3, <2>4, <2>5
  <1> QED BY <1>5, <1>6

\* While a concern is open, every commitment of it was made by a session that is about to move
\* it or by one that failed, and a dead session that is still to make one counts as failed.
\* Later, only the sessions that found it open can still make one.
MadeBooks ==
    \A c \in Concerns :
        /\ concern[c].state = "none" => CommitmentsOf(c) = {} /\ Making(c) = {}
        /\ concern[c].state = "open" =>
              Cardinality(CommitmentsOf(c)) + Cardinality(DeadMaking(c))
                <= Cardinality(LiveMoving(c)) + faults
        /\ Cardinality(CommitmentsOf(c)) + Cardinality(Making(c)) <= Cardinality(Slots) + faults

\* Commitments are counted.
LEMMA CommitmentsCount ==
    ASSUME Typing, NEW c
    PROVE  IsFiniteSet(CommitmentsOf(c)) /\ Cardinality(CommitmentsOf(c)) \in Nat
  <1>1. CommitmentsOf(c) \subseteq 1..Len(ledger) /\ Len(ledger) \in Nat
    BY LedgerFacts DEF CommitmentsOf, Typing
  <1>2. IsFiniteSet(1..Len(ledger))
    BY <1>1, FS_Interval
  <1> QED BY <1>1, <1>2, FS_Subset, FS_CardinalityType

\* Only one step makes a commitment.
LEMMA CommitmentsStep ==
    ASSUME Typing, NEW s \in Slots, StepOf(s), NEW c \in Concerns
    PROVE  IF InsertCommitment(s) /\ call[s].on = c
           THEN Cardinality(CommitmentsOf(c)') = Cardinality(CommitmentsOf(c)) + 1
           ELSE CommitmentsOf(c)' = CommitmentsOf(c)
  <1>1. CASE InsertCommitment(s)
    <2> DEFINE e == [of |-> call[s].on, state |-> "pending", by |-> NoConcern, reports |-> 0]
    <2>1. e \in Entry /\ ledger' = Append(ledger, e) /\ e.of = call[s].on
      BY <1>1 DEF InsertCommitment, CallsOK, InCall, Entry, Typing
    <2> HIDE DEF e
    <2>2. /\ Commitments' = Commitments \cup {Len(ledger) + 1} /\ Len(ledger) + 1 \notin Commitments
          /\ ledger'[Len(ledger) + 1].of = call[s].on
          /\ \A m \in Commitments : ledger'[m] = ledger[m]
      BY <2>1, LedgerGrows DEF Typing
    <2>3. CASE call[s].on = c
      <3>1. CommitmentsOf(c)' = CommitmentsOf(c) \cup {Len(ledger) + 1}
            /\ Len(ledger) + 1 \notin CommitmentsOf(c)
        BY <2>2, <2>3 DEF CommitmentsOf
      <3> QED BY <1>1, <2>3, <3>1, CommitmentsCount, FS_AddElement
    <2>4. CASE call[s].on # c
      BY <2>2, <2>4 DEF CommitmentsOf
    <2> QED BY <2>3, <2>4
  <1>2. CASE ReportCommitment(s)
    <2>1. Commitments' = Commitments /\ \A m \in Commitments : ledger'[m].of = ledger[m].of
      BY <1>2, ReportFacts
    <2>2. ~InsertCommitment(s)
      BY <1>2 DEF ReportCommitment, InsertCommitment
    <2> QED BY <2>1, <2>2 DEF CommitmentsOf
  <1>3. CASE ledger' = ledger /\ ~InsertCommitment(s)
    BY <1>3 DEF CommitmentsOf, Commitments
  <1> QED BY <1>1, <1>2, <1>3, LedgerKept

\* While a concern is open, no more can be made of it than its sessions and the faults allow.
LEMMA OpenBound ==
    ASSUME NEW making, NEW dead, NEW moving, making \subseteq Slots, dead \subseteq making,
           moving \subseteq Slots, making \cap moving = {}, NEW n \in Nat, NEW f \in Nat,
           n + Cardinality(dead) <= Cardinality(moving) + f
    PROVE  n + Cardinality(making) <= Cardinality(Slots) + f
  <1> DEFINE living == making \ dead
  <1>1. making \cap dead = dead /\ living \cap moving = {} /\ living \subseteq Slots /\ dead \subseteq Slots
    OBVIOUS
  <1>2. /\ IsFiniteSet(making) /\ IsFiniteSet(dead) /\ IsFiniteSet(moving) /\ IsFiniteSet(living)
        /\ Cardinality(living) \in Nat /\ Cardinality(moving) \in Nat
        /\ Cardinality(making) \in Nat /\ Cardinality(dead) \in Nat /\ Cardinality(Slots) \in Nat
    BY <1>1, SlotCount
  <1>3. Cardinality(living) = Cardinality(making) - Cardinality(dead)
    BY <1>1, <1>2, FS_Difference
  <1>4. Cardinality(living) + Cardinality(moving) <= Cardinality(Slots)
    <2>1. Cardinality(living \cup moving) <= Cardinality(Slots)
      BY <1>1, SlotCount
    <2>2. Cardinality(living \cup moving)
            = Cardinality(living) + Cardinality(moving) - Cardinality(living \cap moving)
      BY <1>2, FS_Union
    <2>3. Cardinality(living \cap moving) = 0
      BY <1>1, FS_EmptySet
    <2> HIDE DEF living
    <2> QED BY <1>2, <2>1, <2>2, <2>3
  <1> HIDE DEF living
  <1> QED BY <1>2, <1>3, <1>4

\* Who is at a commitment of a concern, before and after a step.
LEMMA AtStep ==
    ASSUME Typing, Typing', AliveBooks, NEW s \in Slots, StepOf(s), NEW c \in Concerns
    PROVE  /\ Making(c) \ {s} = Making(c)' \ {s}
           /\ DeadMaking(c) \ {s} = DeadMaking(c)' \ {s}
           /\ LiveMoving(c) \ {s} = LiveMoving(c)' \ {s}
           /\ s \in Making(c)' => s \in Making(c) \/ ReadToCommit(s, c)
           /\ s \in DeadMaking(c)' => s \in DeadMaking(c) \/ (s \in Making(c) /\ faults' = faults + 1)
           /\ s \in LiveMoving(c) =>
                 s \in LiveMoving(c)' \/ faults' = faults + 1 \/ (MoveConcern(s) /\ call[s].on = c)
           /\ InsertCommitment(s) /\ call[s].on = c =>
                 /\ s \in Making(c) /\ s \notin Making(c)' /\ faults' = faults
                 /\ s \in DeadMaking(c) \/ s \in LiveMoving(c)'
                 /\ s \notin LiveMoving(c)
  <1> USE DEF Typing, SessionsOK
  <1>1. \A t \in Slots \ {s} : pc'[t] = pc[t] /\ call'[t] = call[t] /\ alive'[t] = alive[t]
    BY OthersKept
  <1>2. /\ Making(c) \ {s} = Making(c)' \ {s}
        /\ DeadMaking(c) \ {s} = DeadMaking(c)' \ {s}
        /\ LiveMoving(c) \ {s} = LiveMoving(c)' \ {s}
    BY <1>1 DEF Making, DeadMaking, Moving, LiveMoving
  <1>3. CASE InsertCommitment(s)
    <2>1. /\ pc[s] = "committing" /\ pc'[s] = "moving" /\ call' = call /\ alive' = alive
          /\ faults' = faults
      BY <1>3 DEF InsertCommitment, own, histories
    <2>2. ~MoveConcern(s) /\ ~ReadToCommit(s, c)
      BY <2>1 DEF MoveConcern, ReadToCommit, Begins
    <2> QED BY <1>2, <2>1, <2>2 DEF Making, DeadMaking, Moving, LiveMoving
  <1>4. ASSUME ~InsertCommitment(s)
        PROVE  /\ s \in Making(c)' => s \in Making(c) \/ ReadToCommit(s, c)
               /\ s \in DeadMaking(c)' => s \in DeadMaking(c) \/ (s \in Making(c) /\ faults' = faults + 1)
               /\ s \in LiveMoving(c) =>
                     s \in LiveMoving(c)' \/ faults' = faults + 1 \/ (MoveConcern(s) /\ call[s].on = c)
    <2>1. CASE Dies(s)
      <3>1. call' = call /\ faults' = faults + 1 /\ (pc'[s] \in InCall => pc'[s] = pc[s])
        BY <2>1 DEF Dies, Fault, InCall
      <3> QED BY <3>1 DEF Making, DeadMaking, Moving, LiveMoving, InCall
    <2>2. CASE Registers(s) \/ RegistersNot(s)
      BY <2>2 DEF Registers, RegistersNot, Making, DeadMaking, Moving, LiveMoving
    <2>3. CASE Passes(s)
      <3>1. pc'[s] \in {"gone"} \cup InPass /\ pc[s] \in {"ready"} \cup InPass
        BY <2>3, PassStep DEF Passes, StartPass, Decay, Flag, ReadToFlag, BeginBriefing, Ask,
           WriteBriefing, PassFails, PassGoes, InPass
      <3> QED BY <3>1 DEF Making, DeadMaking, Moving, LiveMoving, InPass
    <2>4. CASE Calls(s)
      <3>1. ASSUME Returns(s), faults' = faults + 1 \/ pc[s] # "moving" \/ ~alive[s] \/ MoveConcern(s)
            PROVE  /\ s \notin Making(c)' /\ s \notin DeadMaking(c)'
                   /\ s \in LiveMoving(c) => faults' = faults + 1 \/ (MoveConcern(s) /\ call[s].on = c)
        BY <3>1 DEF Returns, Making, DeadMaking, Moving, LiveMoving
      <3>2. CASE Touch(s) \/ Close(s) \/ MoveConcern(s) \/ ReportCommitment(s) \/ CallFails(s) \/ CallIsCut(s)
        <4>1. Returns(s) /\ (faults' = faults + 1 \/ pc[s] # "moving" \/ ~alive[s] \/ MoveConcern(s))
          BY <3>2 DEF Touch, Close, MoveConcern, ReportCommitment, CallFails, CallIsCut, Fault
        <4> QED BY <3>1, <4>1
      <3>3. CASE \E d \in Concerns : ReadToCommit(s, d)
        <4>1. PICK d \in Concerns : ReadToCommit(s, d)
          BY <3>3
        <4>2. pc[s] = "ready" /\ pc'[s] = "committing" /\ call'[s].on = d /\ alive'[s]
          BY <4>1 DEF ReadToCommit, Begins, About, NoCall, own, AliveBooks
        <4> QED BY <4>1, <4>2 DEF Making, DeadMaking, Moving, LiveMoving
      <3>4. CASE (\E d \in Concerns : OpenConcern(s, d) \/ ReadToTouch(s, d) \/ ReadToClose(s, d))
                 \/ \E m \in Commitments : ReadToReport(s, m)
        <4>1. pc[s] = "ready" /\ pc'[s] \notin {"committing", "moving"}
          BY <3>4 DEF OpenConcern, ReadToTouch, ReadToClose, ReadToReport, Begins
        <4> QED BY <4>1 DEF Making, DeadMaking, Moving, LiveMoving
      <3> QED BY <1>4, <2>4, <3>2, <3>3, <3>4 DEF Calls
    <2> QED BY <2>1, <2>2, <2>3, <2>4 DEF StepOf
  <1> QED BY <1>2, <1>3, <1>4

LEMMA MadeBooksStep ==
    ASSUME Typing, Typing', AliveBooks, MadeBooks, NEW s \in Slots, StepOf(s)
    PROVE  MadeBooks'
  <1> SUFFICES ASSUME NEW c \in Concerns
               PROVE  /\ concern'[c].state = "none" => CommitmentsOf(c)' = {} /\ Making(c)' = {}
                      /\ concern'[c].state = "open" =>
                            Cardinality(CommitmentsOf(c)') + Cardinality(DeadMaking(c)')
                              <= Cardinality(LiveMoving(c)') + faults'
                      /\ Cardinality(CommitmentsOf(c)') + Cardinality(Making(c)') <= Cardinality(Slots) + faults'
    BY DEF MadeBooks
  <1>1. PICK n \in Nat, made \in Nat, d \in Nat, v \in Nat :
           /\ n = Cardinality(CommitmentsOf(c)) /\ made = Cardinality(Making(c))
           /\ d = Cardinality(DeadMaking(c)) /\ v = Cardinality(LiveMoving(c))
    <2>1. Making(c) \subseteq Slots /\ DeadMaking(c) \subseteq Slots /\ LiveMoving(c) \subseteq Slots
      BY DEF Making, DeadMaking, Moving, LiveMoving
    <2> QED BY <2>1, SlotCount, CommitmentsCount
  <1>2. PICK n1 \in Nat, made1 \in Nat, d1 \in Nat, v1 \in Nat :
           /\ n1 = Cardinality(CommitmentsOf(c)') /\ made1 = Cardinality(Making(c)')
           /\ d1 = Cardinality(DeadMaking(c)') /\ v1 = Cardinality(LiveMoving(c)')
    <2>1. Making(c)' \subseteq Slots /\ DeadMaking(c)' \subseteq Slots /\ LiveMoving(c)' \subseteq Slots
      BY DEF Making, DeadMaking, Moving, LiveMoving
    <2>2. Cardinality(CommitmentsOf(c)') \in Nat
      BY CommitmentsStep, CommitmentsCount
    <2> QED BY <2>1, <2>2, SlotCount
  <1>3. faults \in Nat /\ faults' \in Nat /\ faults' >= faults
    BY WhereTo DEF Typing, SessionsOK
  <1>4. /\ made1 + One(s \in Making(c)) = made + One(s \in Making(c)')
        /\ d1 + One(s \in DeadMaking(c)) = d + One(s \in DeadMaking(c)')
        /\ v1 + One(s \in LiveMoving(c)) = v + One(s \in LiveMoving(c)')
    <2>1. /\ Making(c) \subseteq Slots /\ DeadMaking(c) \subseteq Slots /\ LiveMoving(c) \subseteq Slots
          /\ Making(c)' \subseteq Slots /\ DeadMaking(c)' \subseteq Slots /\ LiveMoving(c)' \subseteq Slots
      BY DEF Making, DeadMaking, Moving, LiveMoving
    <2> QED BY <1>1, <1>2, <2>1, AtStep, CountStep
  <1>5. /\ concern[c].state = "open" => n + d <= v + faults
        /\ n + made <= Cardinality(Slots) + faults
    BY <1>1 DEF MadeBooks
  <1>6. Cardinality(Slots) \in Nat
    BY SlotCount
  <1>7. n1 = IF InsertCommitment(s) /\ call[s].on = c THEN n + 1 ELSE n
    BY <1>1, <1>2, CommitmentsStep
  <1>8. ASSUME concern'[c].state = "none"
        PROVE  CommitmentsOf(c)' = {} /\ Making(c)' = {}
    <2>1. concern[c].state = "none"
      BY <1>8, RowChanges
    <2>2. CommitmentsOf(c) = {} /\ Making(c) = {}
      BY <2>1 DEF MadeBooks
    <2>3. ~ReadToCommit(s, c) /\ s \notin Making(c)'
      BY <2>1, <2>2, AtStep DEF ReadToCommit
    <2>4. Making(c)' = {}
      BY <2>2, <2>3, AtStep
    <2>5. ~(InsertCommitment(s) /\ call[s].on = c)
      BY <2>2, AtStep
    <2> QED BY <2>2, <2>4, <2>5, CommitmentsStep
  <1>9. ASSUME concern'[c].state = "open"
        PROVE  n1 + d1 <= v1 + faults'
    <2>1. CASE concern[c].state = "open"
      <3>1. n + d <= v + faults
        BY <1>5, <2>1
      <3>2. CASE InsertCommitment(s) /\ call[s].on = c
        <4>1. /\ faults' = faults /\ s \notin DeadMaking(c)'
              /\ s \in DeadMaking(c) \/ s \in LiveMoving(c)'
              /\ s \notin LiveMoving(c)
          BY <3>2, AtStep DEF DeadMaking
        <4> QED BY <1>3, <1>4, <1>7, <3>1, <3>2, <4>1 DEF One
      <3>3. CASE ~(InsertCommitment(s) /\ call[s].on = c)
        <4>1. ~(MoveConcern(s) /\ call[s].on = c)
          <5>1. MoveConcern(s) /\ call[s].on = c => concern'[c].state = "committed"
            BY DEF MoveConcern, Typing, RowsOK, Row
          <5> QED BY <1>9, <5>1
        <4>2. /\ s \in DeadMaking(c)' => s \in DeadMaking(c) \/ (s \in Making(c) /\ faults' = faults + 1)
              /\ s \in LiveMoving(c) => s \in LiveMoving(c)' \/ faults' = faults + 1
              /\ s \in Making(c) => s \notin LiveMoving(c)
          BY <4>1, AtStep DEF Making, Moving, LiveMoving
        <4>3. n1 = n
          BY <1>7, <3>3
        <4>4. CASE s \in DeadMaking(c)' /\ s \notin DeadMaking(c)
          <5>1. s \notin LiveMoving(c) /\ faults' = faults + 1
            BY <4>2, <4>4
          <5>2. d1 = d + 1 /\ v1 >= v
            BY <1>4, <4>4, <5>1 DEF One
          <5> QED BY <1>3, <3>1, <4>3, <5>1, <5>2
        <4>5. CASE s \in LiveMoving(c) /\ s \notin LiveMoving(c)'
          <5>1. faults' = faults + 1 /\ (s \in DeadMaking(c)' => s \in DeadMaking(c))
            BY <4>2, <4>5
          <5>2. d1 <= d /\ v1 = v - 1
            BY <1>4, <4>5, <5>1 DEF One
          <5> QED BY <1>3, <3>1, <4>3, <5>1, <5>2
        <4>6. CASE /\ s \in DeadMaking(c)' => s \in DeadMaking(c)
                   /\ s \in LiveMoving(c) => s \in LiveMoving(c)'
          <5>1. d1 <= d /\ v1 >= v
            BY <1>4, <4>6 DEF One
          <5> QED BY <1>1, <1>2, <1>3, <3>1, <4>3, <5>1
        <4> QED BY <4>4, <4>5, <4>6
      <3> QED BY <3>2, <3>3
    <2>2. CASE concern[c].state # "open"
      <3>1. OpenConcern(s, c) /\ concern[c].state = "none"
        BY <1>9, <2>2, RowChanges
      <3>2. CommitmentsOf(c) = {} /\ Making(c) = {}
        BY <3>1 DEF MadeBooks
      <3>3. n = 0 /\ d = 0
        <4>1. DeadMaking(c) = {}
          BY <3>2 DEF DeadMaking
        <4> QED BY <1>1, <3>2, <4>1, FS_EmptySet
      <3>4. s \notin DeadMaking(c)' /\ ~InsertCommitment(s)
        BY <3>1, <3>2, AtStep DEF InsertCommitment, OpenConcern, DeadMaking
      <3>5. n1 = 0 /\ d1 = 0
        BY <1>4, <1>7, <3>3, <3>4 DEF One
      <3> QED BY <1>2, <1>3, <3>5
    <2> QED BY <2>1, <2>2
  <1>10. n1 + made1 <= Cardinality(Slots) + faults'
    <2>1. CASE ReadToCommit(s, c)
      <3>1. concern[c].state = "open" /\ concern' = concern
        BY <2>1 DEF ReadToCommit, Begins, rows
      <3>2. n1 + d1 <= v1 + faults'
        BY <1>9, <3>1
      <3>3. /\ Making(c)' \subseteq Slots /\ DeadMaking(c)' \subseteq Making(c)'
            /\ LiveMoving(c)' \subseteq Slots /\ Making(c)' \cap LiveMoving(c)' = {}
        BY DEF Making, DeadMaking, Moving, LiveMoving
      <3> QED BY <1>2, <1>3, <3>2, <3>3, OpenBound
    <2>2. CASE ~ReadToCommit(s, c)
      <3>1. s \in Making(c)' => s \in Making(c)
        BY <2>2, AtStep
      <3>2. InsertCommitment(s) /\ call[s].on = c => s \in Making(c) /\ s \notin Making(c)'
        BY AtStep
      <3> QED BY <1>3, <1>4, <1>5, <1>6, <1>7, <3>1, <3>2 DEF One
    <2> QED BY <2>1, <2>2
  <1> QED BY <1>2, <1>8, <1>9, <1>10

\* What comes of deciding on a row that others change meanwhile is bounded by the sessions
\* that run at once.
THEOREM StaleIsBounded == Spec => []StaleBound
  <1> DEFINE Books == AliveBooks /\ ReopenBooks /\ MadeBooks /\ CountBooks
  <1>1. Init => Books
    <2> SUFFICES ASSUME Init PROVE Books
      OBVIOUS
    <2>1. Commitments = {}
      BY EmptySeq DEF Init, Commitments
    <2>2. \A c : CommitmentsOf(c) = {} /\ Making(c) = {}
      BY <2>1 DEF Init, CommitmentsOf, Making
    <2>3. Cardinality({}) = 0 /\ Cardinality(Slots) \in Nat /\ faults = 0
      BY FS_EmptySet, SlotCount DEF Init
    <2>4. MadeBooks
      <3>1. \A c \in Concerns : concern[c].state = "none"
        BY DEF Init, Absent
      <3> QED BY <2>2, <2>3, <3>1 DEF MadeBooks
    <2> QED BY <2>1, <2>4 DEF Init, AliveBooks, ReopenBooks, CountBooks, Absent, InCall
  <1>2. Typing /\ Typing' /\ Books /\ [Next]_vars => Books'
    <2> SUFFICES ASSUME Typing, Typing', Books, [Next]_vars PROVE Books'
      OBVIOUS
    <2>1. CASE UNCHANGED vars
      <3>1. UNCHANGED <<concern, ledger, pc, alive, call, reopened, faults>>
        BY <2>1 DEF vars, rows, own, histories
      <3>2. /\ Commitments' = Commitments
            /\ \A c \in Concerns :
                  /\ CommitmentsOf(c)' = CommitmentsOf(c) /\ Making(c)' = Making(c)
                  /\ DeadMaking(c)' = DeadMaking(c)
                  /\ Moving(c)' = Moving(c) /\ LiveMoving(c)' = LiveMoving(c)
            /\ \A m : Reporting(m)' = Reporting(m)
        BY <3>1 DEF Making, DeadMaking, Moving, LiveMoving, Reporting, CommitmentsOf, Commitments
      <3> QED BY <3>1, <3>2 DEF AliveBooks, ReopenBooks, MadeBooks, CountBooks
    <2>2. ASSUME NEW s \in Slots, StepOf(s) PROVE Books'
      BY <2>2, AliveBooksStep, ReopenBooksStep, MadeBooksStep, CountBooksStep
    <2> QED BY <2>1, <2>2 DEF Next, StepOf
  <1>3. Typing /\ Books => StaleBound
    <2> SUFFICES ASSUME Typing, Books PROVE StaleBound
      OBVIOUS
    <2>1. Cardinality(Slots) \in Nat /\ Cardinality(Slots) > 0 /\ faults \in Nat
      BY SlotCount DEF Typing, SessionsOK
    <2>2. ASSUME NEW c \in Concerns
          PROVE  /\ reopened[c] <= Cardinality(Slots) - 1
                 /\ Cardinality(CommitmentsOf(c)) <= Cardinality(Slots) + faults
      <3>1. Making(c) \subseteq Slots /\ Making(c) \cup Moving(c) \subseteq Slots
        BY DEF Making, Moving
      <3>2. Cardinality(Making(c)) \in Nat /\ Cardinality(Making(c) \cup Moving(c)) \in Nat
        BY <3>1, SlotCount
      <3>3. Cardinality(CommitmentsOf(c)) \in Nat /\ reopened[c] \in Nat /\ concern[c].state \in States
        BY CommitmentsCount DEF Typing, RowsOK, Row
      <3>4. reopened[c] <= Cardinality(Slots) - 1
        BY <2>1, <3>2, <3>3 DEF ReopenBooks, States
      <3>5. Cardinality(CommitmentsOf(c)) <= Cardinality(Slots) + faults
        BY <2>1, <3>2, <3>3 DEF MadeBooks
      <3> QED BY <3>4, <3>5
    <2>3. ASSUME NEW m \in Commitments
          PROVE  ledger[m].reports <= Cardinality(Slots)
      <3>1. ledger[m].reports \in Nat
        BY LedgerFacts DEF Typing, Entry
      <3>2. Cardinality(Reporting(m)) \in Nat
        BY SlotCount DEF Reporting
      <3> QED BY <2>1, <3>1, <3>2 DEF CountBooks
    <2> QED BY <2>2, <2>3 DEF StaleBound
  <1> HIDE DEF Books
  <1> QED BY <1>1, <1>2, <1>3, TypingHolds, PTL DEF Spec

-----------------------------------------------------------------------------
(* Ranges. *)

\* No number is above the last one, no bound is passed, and whatever names commitments names
\* such as are there.
RangeBooks ==
    /\ lastNumber <= MaxSessions /\ faults <= MaxFaults
    /\ \A c \in Concerns : concern[c].touched <= lastNumber
    /\ \A s \in Slots : number[s] <= lastNumber
    /\ briefing \subseteq Commitments /\ excused \subseteq Commitments
    /\ \A s \in Slots :
          /\ call[s].commitment \in Commitments \cup {0}
          /\ pass[s].upTo \in Commitments \cup {0}
          /\ pass[s].pending \subseteq Commitments /\ pass[s].broken \subseteq Commitments

\* What a step does to the numbers and bounds.
LEMMA BoundsStep ==
    ASSUME Typing, Typing', RangeBooks, NEW s \in Slots, StepOf(s)
    PROVE  /\ lastNumber' <= MaxSessions /\ faults' <= MaxFaults
           /\ \A c \in Concerns : concern'[c].touched <= lastNumber'
           /\ \A t \in Slots : number'[t] <= lastNumber'
  <1>1. /\ lastNumber \in Nat /\ faults \in Nat /\ MaxSessions \in Nat /\ MaxFaults \in Nat
        /\ number \in [Slots -> Nat] /\ number'[s] \in Nat
        /\ \A c \in Concerns : concern[c].touched \in Nat /\ concern'[c].touched \in Nat
    BY PsycheBoundsNat DEF Typing, SessionsOK, RowsOK, Row
  <1>2. \/ number'[s] \in {0, number[s]} /\ lastNumber' = lastNumber
        \/ number'[s] = lastNumber + 1 /\ lastNumber' = lastNumber + 1 /\ Registers(s)
    BY DEF StepOf, Typing, SessionsOK, Registers, RegistersNot, Dies, Calls, Returns, Passes, PassGoes,
           OpenConcern, ReadToTouch, ReadToClose, ReadToCommit, ReadToReport, Begins, Touch, Close,
           InsertCommitment, MoveConcern, ReportCommitment, CallFails, CallIsCut, own, StartPass,
           Decay, Flag, ReadToFlag, BeginBriefing, Ask, WriteBriefing, PassFails, Ends
  <1>3. lastNumber' <= MaxSessions
    BY <1>1, <1>2 DEF RangeBooks, Registers
  <1>4. faults' = faults \/ (faults < MaxFaults /\ faults' = faults + 1)
    BY DEF StepOf, Registers, RegistersNot, Dies, Calls, Passes, PassGoes, histories,
           OpenConcern, ReadToTouch, ReadToClose, ReadToCommit, ReadToReport, Begins, Touch, Close,
           InsertCommitment, MoveConcern, ReportCommitment, CallFails, CallIsCut, StartPass,
           Decay, Flag, ReadToFlag, BeginBriefing, Ask, WriteBriefing, PassFails, Fault
  <1>5. \A t \in Slots : number'[t] <= lastNumber'
    BY <1>1, <1>2, OthersKept DEF RangeBooks
  <1>6. ASSUME NEW c \in Concerns
        PROVE  concern'[c].touched <= lastNumber'
    <2>1. concern'[c].touched \in {concern[c].touched, number[s]}
      BY RowChanges
    <2> QED BY <1>1, <1>2, <2>1 DEF RangeBooks
  <1> QED BY <1>1, <1>3, <1>4, <1>5, <1>6 DEF RangeBooks

\* What a step does to what names commitments.
LEMMA NamesStep ==
    ASSUME Typing, Typing', RangeBooks, NEW s \in Slots, StepOf(s)
    PROVE  /\ briefing' \subseteq Commitments' /\ excused' \subseteq Commitments'
           /\ \A t \in Slots :
                 /\ call'[t].commitment \in Commitments' \cup {0}
                 /\ pass'[t].upTo \in Commitments' \cup {0}
                 /\ pass'[t].pending \subseteq Commitments' /\ pass'[t].broken \subseteq Commitments'
  <1> USE DEF Typing, SessionsOK
  <1>1. Commitments \subseteq Commitments'
    BY CommitmentsKept
  <1>2. \A x : InState(x) \subseteq Commitments
    BY DEF InState
  <1>3. /\ briefing \subseteq Commitments /\ excused \subseteq Commitments
        /\ \A t \in Slots :
              /\ call[t].commitment \in Commitments \cup {0}
              /\ pass[t].upTo \in Commitments \cup {0}
              /\ pass[t].pending \subseteq Commitments /\ pass[t].broken \subseteq Commitments
    BY DEF RangeBooks
  <1>4. briefing' = briefing \/ briefing' = {} \/ briefing' = pass[s].broken
    BY DEF StepOf, Registers, RegistersNot, Dies, Calls, Passes, Returns,
           OpenConcern, ReadToTouch, ReadToClose, ReadToCommit, ReadToReport, Begins, Touch, Close,
           InsertCommitment, MoveConcern, ReportCommitment, CallFails, CallIsCut, StartPass,
           Decay, Flag, ReadToFlag, BeginBriefing, Ask, WriteBriefing, PassFails
  <1>5. excused' \subseteq Commitments
    <2>1. CASE ReportCommitment(s)
      <3>1. call[s].commitment \in Commitments
        BY <2>1, ReportFacts
      <3>2. excused' \subseteq excused \cup {call[s].commitment}
        <4>1. \/ excused' = excused \cup {call[s].commitment}
              \/ excused' = excused \ {call[s].commitment}
          BY <2>1 DEF ReportCommitment
        <4> QED BY <4>1
      <3> QED BY <1>3, <3>1, <3>2
    <2>2. CASE ~ReportCommitment(s)
      <3>1. excused' \subseteq excused \cup InState("broken")
        BY <2>2 DEF StepOf, Registers, RegistersNot, Dies, Calls, Passes, histories,
           OpenConcern, ReadToTouch, ReadToClose, ReadToCommit, ReadToReport, Begins, Touch, Close,
           InsertCommitment, MoveConcern, CallFails, CallIsCut, StartPass,
           Decay, Flag, ReadToFlag, BeginBriefing, Ask, WriteBriefing, PassFails
      <3> QED BY <1>2, <1>3, <3>1
    <2> QED BY <2>1, <2>2
  <1>6. ASSUME NEW t \in Slots, t # s
        PROVE  /\ call'[t] = call[t] /\ pass'[t].upTo = pass[t].upTo
               /\ pass'[t].pending = pass[t].pending /\ pass'[t].broken = pass[t].broken
    BY <1>6, OthersKept
  <1>7. call'[s].commitment \in Commitments \cup {0}
    <2>1. CASE \E m \in Commitments : ReadToReport(s, m)
      <3>1. PICK m \in Commitments : call'[s] = [NoCall EXCEPT !.commitment = m]
        BY <2>1 DEF ReadToReport, Begins
      <3> QED BY <3>1 DEF NoCall
    <2>2. CASE \E c \in Concerns : ReadToTouch(s, c) \/ ReadToClose(s, c) \/ ReadToCommit(s, c)
      <3>1. PICK c \in Concerns : call'[s] = About(c)
        BY <2>2 DEF ReadToTouch, ReadToClose, ReadToCommit, Begins
      <3> QED BY <3>1 DEF About, NoCall
    <2>3. CASE Touch(s) \/ Close(s) \/ MoveConcern(s) \/ ReportCommitment(s) \/ CallFails(s) \/ CallIsCut(s)
      <3>1. call'[s] = NoCall
        BY <2>3 DEF Touch, Close, MoveConcern, ReportCommitment, CallFails, CallIsCut, Returns
      <3> QED BY <3>1 DEF NoCall
    <2>4. CASE \/ Registers(s) \/ RegistersNot(s) \/ Dies(s) \/ Passes(s) \/ InsertCommitment(s)
               \/ \E c \in Concerns : OpenConcern(s, c)
      <3>1. call' = call
        BY <2>4, PassStep DEF Registers, RegistersNot, Dies, InsertCommitment, OpenConcern
      <3> QED BY <1>3, <3>1
    <2> QED BY <2>1, <2>2, <2>3, <2>4 DEF StepOf, Calls
  <1>8. /\ pass'[s].upTo \in Commitments \cup {0}
        /\ pass'[s].pending \subseteq Commitments /\ pass'[s].broken \subseteq Commitments
    <2>1. CASE Registers(s) \/ RegistersNot(s) \/ Dies(s) \/ Calls(s)
      <3>1. pass' = pass
        BY <2>1, CallStep DEF Registers, RegistersNot, Dies
      <3> QED BY <1>3, <3>1
    <2>2. CASE (\E c \in Concerns : Decay(s, c) \/ Flag(s, c)) \/ ReadToFlag(s)
      <3>1. /\ pass'[s].upTo = pass[s].upTo
            /\ pass'[s].pending = pass[s].pending /\ pass'[s].broken = pass[s].broken
        BY <2>2 DEF Decay, Flag, ReadToFlag
      <3> QED BY <1>3, <3>1
    <2>3. CASE StartPass(s)
      <3> DEFINE stale == {c \in Concerns : Active(c) /\ concern[c].touched < number[s]}
                 low == {c \in stale : concern[c].low}
      <3>1. pass' = [pass EXCEPT ![s] = [NoPass EXCEPT !.todo = stale, !.seen = low]]
        BY <2>3 DEF StartPass
      <3> HIDE DEF stale, low
      <3> QED BY <3>1 DEF NoPass
    <2>4. CASE WriteBriefing(s) \/ PassFails(s)
      <3>1. WriteBriefing(s) => pass'[s] = NoPass
        BY DEF WriteBriefing
      <3>2. PassFails(s) => pass'[s] = NoPass
        <4>1. PassFails(s) => pass' = [pass EXCEPT ![s] = NoPass]
          BY DEF PassFails
        <4> QED BY <4>1
      <3> QED BY <2>4, <3>1, <3>2 DEF NoPass
    <2>5. CASE BeginBriefing(s)
      <3>1. /\ pass'[s].upTo = Len(ledger)
            /\ pass'[s].pending = pass[s].pending /\ pass'[s].broken = pass[s].broken
        BY <2>5 DEF BeginBriefing
      <3>2. Len(ledger) \in Commitments \cup {0}
        BY LedgerFacts
      <3> QED BY <1>3, <3>1, <3>2
    <2>6. CASE Ask(s)
      <3>1. pass'[s].upTo = pass[s].upTo
        BY <2>6, AskFacts
      <3>2. pass'[s].pending \in {pass[s].pending, InState("pending")}
        BY <2>6, AskFacts
      <3>3. pass'[s].broken \in {pass[s].broken, InState("broken")}
        <4>1. CASE pass[s].asked = 0
          <5>1. AskOrder[pass[s].asked + 1] = "pending"
            BY <4>1 DEF AskOrder
          <5>2. pass' = [pass EXCEPT ![s].asked = @ + 1, ![s].pending = InState("pending"), ![s].broken = @]
            BY <2>6, <5>1 DEF Ask, QueryCommitments
          <5> QED BY <5>2
        <4>2. CASE pass[s].asked # 0
          BY <2>6, <4>2, AskFacts
        <4> QED BY <4>1, <4>2
      <3> QED BY <1>2, <1>3, <3>1, <3>2, <3>3
    <2> QED BY <2>1, <2>2, <2>3, <2>4, <2>5, <2>6 DEF StepOf, Passes
  <1>9. briefing' \subseteq Commitments
    BY <1>3, <1>4
  <1>10. ASSUME NEW t \in Slots
         PROVE  /\ call'[t].commitment \in Commitments \cup {0}
                /\ pass'[t].upTo \in Commitments \cup {0}
                /\ pass'[t].pending \subseteq Commitments /\ pass'[t].broken \subseteq Commitments
    BY <1>3, <1>6, <1>7, <1>8
  <1> QED BY <1>1, <1>5, <1>9, <1>10

\* The types of every variable.
THEOREM PsycheTypeCorrect == Spec => []TypeOK
  <1>1. Init => RangeBooks
    BY PsycheBoundsNat, EmptySeq DEF Init, RangeBooks, Absent, NoCall, NoPass
  <1>2. Typing /\ Typing' /\ RangeBooks /\ [Next]_vars => RangeBooks'
    <2> SUFFICES ASSUME Typing, Typing', RangeBooks, [Next]_vars PROVE RangeBooks'
      OBVIOUS
    <2>1. CASE UNCHANGED vars
      BY <2>1 DEF vars, rows, own, histories, RangeBooks, Commitments
    <2>2. ASSUME NEW s \in Slots, StepOf(s) PROVE RangeBooks'
      BY <2>2, BoundsStep, NamesStep DEF RangeBooks
    <2> QED BY <2>1, <2>2 DEF Next, StepOf
  <1>3. Typing /\ RangeBooks => TypeOK
    <2> SUFFICES ASSUME Typing, RangeBooks PROVE TypeOK
      OBVIOUS
    <2> USE DEF Typing, RowsOK, SessionsOK, RangeBooks
    <2>1. concern \in [Concerns -> [state: {"none", "open", "committed", "closed"},
                                    low: BOOLEAN, touched: 0..lastNumber, flagged: BOOLEAN]]
      <3>1. \A c \in Concerns : concern[c] \in [state: {"none", "open", "committed", "closed"},
                                    low: BOOLEAN, touched: 0..lastNumber, flagged: BOOLEAN]
        <4> TAKE c \in Concerns
        <4>1. concern[c] \in Row /\ concern[c].touched \in 0..lastNumber
          BY DEF Row
        <4> QED BY <4>1 DEF Row, States
      <3> QED BY <3>1
    <2>2. call \in [Slots -> [on: Concerns \cup {NoConcern}, commitment: Commitments \cup {0}]]
      OBVIOUS
    <2>3. pass \in [Slots -> [todo: SUBSET Concerns, seen: SUBSET Concerns, asked: 0..2,
                              upTo: Commitments \cup {0}, pending: SUBSET Commitments,
                              broken: SUBSET Commitments, late: BOOLEAN]]
      <3>1. \A s \in Slots : pass[s] \in [todo: SUBSET Concerns, seen: SUBSET Concerns, asked: 0..2,
                              upTo: Commitments \cup {0}, pending: SUBSET Commitments,
                              broken: SUBSET Commitments, late: BOOLEAN]
        OBVIOUS
      <3> QED BY <3>1
    <2>4. lastNumber \in 0..MaxSessions /\ faults \in 0..MaxFaults /\ number \in [Slots -> 0..lastNumber]
      BY PsycheBoundsNat
    <2> QED BY <2>1, <2>2, <2>3, <2>4 DEF TypeOK, Entry
  <1> QED BY <1>1, <1>2, <1>3, TypingHolds, PTL DEF Spec
=============================================================================
