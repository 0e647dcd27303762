---------------------------- MODULE Intake_proofs ----------------------------
(***************************************************************************)
(* What is proved of Intake, for any number of events, handlers, changes   *)
(* and lapses: no source loses an event unnoticed, and none makes more of  *)
(* it than it should.                                                      *)
(***************************************************************************)
EXTENDS Intake, FiniteSetTheorems, TLAPS

One(claim) == IF claim THEN 1 ELSE 0

-----------------------------------------------------------------------------
(* Requests. *)

\* A request is answered: the session is there, or it is given up.
LEMMA Answered ==
    ASSUME RequestsTypeOK, NEW e \in Events, Created(e) \/ NotCreated(e)
    PROVE  /\ made' \in [Events -> Nat] /\ givenUp' \subseteq Events /\ lapses' = lapses
           /\ givenUp \subseteq givenUp'
           /\ \A d \in Events : made[d] <= made'[d] /\ made'[d] <= made[d] + One(d = e)
           /\ made'[e] > 0 \/ e \in givenUp'
           /\ Created(e) => made'[e] > 0
  BY DEF RequestsTypeOK, Created, NotCreated, One

\* Requests are cut off: all are given up, and any of them may have come through.
LEMMA AllGivenUp ==
    ASSUME RequestsTypeOK, NEW requests, IsFiniteSet(DOMAIN requests), CutOff(requests),
           \A r \in DOMAIN requests : requests[r] \in Events
    PROVE  /\ made' \in [Events -> Nat] /\ givenUp' \subseteq Events
           /\ givenUp \subseteq givenUp'
           /\ \A r \in DOMAIN requests : requests[r] \in givenUp'
           /\ \A d \in Events :
                 /\ made[d] <= made'[d]
                 /\ made'[d] <= made[d] + Cardinality({r \in DOMAIN requests : requests[r] = d})
  <1>1. givenUp' = givenUp \cup {requests[r] : r \in DOMAIN requests}
    BY DEF CutOff
  <1>2. PICK through \in SUBSET DOMAIN requests :
            made' = [e \in Events |-> made[e] + Cardinality({r \in through : requests[r] = e})]
    BY DEF CutOff
  <1>3. ASSUME NEW d \in Events
        PROVE  /\ made'[d] \in Nat /\ made[d] <= made'[d]
               /\ made'[d] <= made[d] + Cardinality({r \in DOMAIN requests : requests[r] = d})
    <2> DEFINE Came == {r \in through : requests[r] = d}
               Asked == {r \in DOMAIN requests : requests[r] = d}
    <2>1. Came \subseteq Asked /\ Asked \subseteq DOMAIN requests
      OBVIOUS
    <2>2. IsFiniteSet(Asked) /\ IsFiniteSet(Came)
      BY <2>1, FS_Subset
    <2>3. /\ Cardinality(Came) \in Nat /\ Cardinality(Asked) \in Nat
          /\ Cardinality(Came) <= Cardinality(Asked)
      BY <2>1, <2>2, FS_Subset, FS_CardinalityType
    <2>4. made'[d] = made[d] + Cardinality(Came) /\ made[d] \in Nat
      BY <1>2 DEF RequestsTypeOK
    <2> QED BY <2>3, <2>4
  <1>4. made' \in [Events -> Nat]
    BY <1>2, <1>3
  <1>5. givenUp' \subseteq Events
    BY <1>1 DEF RequestsTypeOK
  <1> QED BY <1>1, <1>3, <1>4, <1>5

\* The window.
LEMMA WindowTyping ==
    ASSUME window \in 0..Limit, Passes \/ Limited \/ WindowSlides \/ window' = 0 \/ UNCHANGED window
    PROVE  window' \in 0..Limit
  BY LimitPositive DEF Passes, Limited, WindowSlides

-----------------------------------------------------------------------------
(* Webhooks. *)

InFlight(e) == {h \in CreatingHandlers : handler[h].event = e}

\* What is known of an event: a session is there or being made, or its request was given up.
HookKnows(e) == made[e] > 0 \/ e \in Creating \/ e \in givenUp

\* Every id in the cache is known; an id that is not may still cost one session, as may each
\* request under way.
HookBooks ==
    /\ \A e \in acked \cup hookSeen : HookKnows(e)
    /\ \A e \in Events :
          made[e] + Cardinality(InFlight(e)) + One(e \notin hookSeen) <= 1 + lapses

HookInv == RequestsTypeOK /\ HookTypeOK /\ HookBooks

\* The requests for one event are finitely many.
LEMMA InFlightFinite ==
    ASSUME NEW e
    PROVE  IsFiniteSet(InFlight(e)) /\ Cardinality(InFlight(e)) \in Nat
  <1>1. InFlight(e) \subseteq Handlers
    BY DEF InFlight, CreatingHandlers
  <1> QED BY <1>1, HandlersFinite, FS_Subset, FS_CardinalityType

\* A step of a handler that is not creating, before and after, does not count.
LEMMA QuietHandler ==
    ASSUME HookTypeOK, NEW h \in Handlers, handler[h].pc # "creating", handler'[h].pc # "creating",
           \A g \in Handlers \ {h} : handler'[g] = handler[g]
    PROVE  /\ CreatingHandlers' = CreatingHandlers /\ Creating' = Creating
           /\ \A e : InFlight(e)' = InFlight(e)
  <1>1. CreatingHandlers' = CreatingHandlers /\ h \notin CreatingHandlers
    BY DEF CreatingHandlers
  <1>2. \A g \in CreatingHandlers : g \in Handlers \ {h} /\ handler'[g] = handler[g]
    BY <1>1 DEF CreatingHandlers
  <1> QED BY <1>1, <1>2 DEF Creating, InFlight

\* The three steps of a delivery up to the request.
LEMMA HookArrives ==
    ASSUME HookInv, NEW h \in Handlers, (\E e \in Events : HookReceives(h, e)) \/ HookLimits(h)
    PROVE  HookInv'
  <1> USE DEF HookInv
  <1>1. handler[h].pc \in {"idle", "received"}
    BY DEF HookReceives, HookLimits, IdleHandler
  <1>2. /\ handler'[h].pc \in {"idle", "received", "passed"}
        /\ \A g \in Handlers \ {h} : handler'[g] = handler[g]
    BY DEF HookReceives, HookLimits, HookGoes, HookAnswers, IdleHandler, HookTypeOK
  <1>3. HookTypeOK'
    BY DEF HookReceives, HookLimits, HookGoes, HookAnswers, IdleHandler, HookTypeOK
  <1>4. UNCHANGED <<made, givenUp, lapses, hookSeen, acked>>
    BY DEF HookReceives, HookLimits, requestVars
  <1>5. window' \in 0..Limit
    BY WindowTyping DEF RequestsTypeOK, HookReceives, HookLimits, requestVars
  <1>6. RequestsTypeOK'
    BY <1>4, <1>5 DEF RequestsTypeOK
  <1>7. Creating' = Creating /\ \A e : InFlight(e)' = InFlight(e)
    BY <1>1, <1>2, QuietHandler
  <1>8. HookBooks'
    BY <1>4, <1>7 DEF HookBooks, HookKnows
  <1> QED BY <1>3, <1>6, <1>8

LEMMA HookDedupKeeps ==
    ASSUME HookInv, NEW h \in Handlers, HookDedups(h)
    PROVE  HookInv'
  <1> USE DEF HookInv
  <1>1. PICK e \in Events : handler[h].pc = "passed" /\ handler[h].event = e
    BY DEF HookDedups, HookTypeOK
  <1>2. UNCHANGED <<made, givenUp, lapses, window>>
    BY DEF HookDedups, requestVars
  <1>3. RequestsTypeOK'
    BY <1>2 DEF RequestsTypeOK
  <1>4. CASE e \in hookSeen
    <2>1. /\ acked' = acked \cup {e} /\ hookSeen' = hookSeen
          /\ handler' = [handler EXCEPT ![h] = IdleHandler]
      BY <1>1, <1>4 DEF HookDedups, HookAnswers
    <2>2. HookTypeOK'
      BY <1>1, <2>1 DEF HookTypeOK, IdleHandler
    <2>3. Creating' = Creating /\ \A d : InFlight(d)' = InFlight(d)
      <3>1. handler'[h].pc = "idle" /\ \A g \in Handlers \ {h} : handler'[g] = handler[g]
        BY <2>1 DEF IdleHandler, HookTypeOK
      <3> QED BY <1>1, <3>1, QuietHandler
    <2>4. HookBooks'
      BY <1>2, <1>4, <2>1, <2>3 DEF HookBooks, HookKnows
    <2> QED BY <1>3, <2>2, <2>4
  <1>5. CASE e \notin hookSeen
    <2>1. /\ acked' = acked /\ hookSeen' = hookSeen \cup {e}
          /\ handler' = [handler EXCEPT ![h].pc = "creating"]
      BY <1>1, <1>5 DEF HookDedups, HookGoes
    <2>2. HookTypeOK'
      BY <1>1, <2>1 DEF HookTypeOK
    <2>3. /\ handler'[h].pc = "creating" /\ handler'[h].event = e
          /\ \A g \in Handlers \ {h} : handler'[g] = handler[g]
      BY <1>1, <2>1 DEF HookTypeOK
    <2>4. CreatingHandlers' = CreatingHandlers \cup {h} /\ h \notin CreatingHandlers
      BY <1>1, <2>3 DEF CreatingHandlers
    <2>5. Creating' = Creating \cup {e}
      BY <2>3, <2>4 DEF Creating, CreatingHandlers
    <2>6. InFlight(e)' = InFlight(e) \cup {h} /\ h \notin InFlight(e)
      BY <2>3, <2>4 DEF InFlight, CreatingHandlers
    <2>7. \A d \in Events \ {e} : InFlight(d)' = InFlight(d)
      BY <2>3, <2>4 DEF InFlight, CreatingHandlers
    <2>8. Cardinality(InFlight(e)') = Cardinality(InFlight(e)) + 1
      BY <2>6, InFlightFinite, FS_AddElement
    <2>9. ASSUME NEW d \in Events
          PROVE  made[d] + Cardinality(InFlight(d)') + One(d \notin hookSeen') <= 1 + lapses
      <3>1. CASE d = e
        <4>1. One(d \notin hookSeen) = 1 /\ One(d \notin hookSeen') = 0
          BY <1>5, <2>1, <3>1 DEF One
        <4>2. made[d] + Cardinality(InFlight(d)) + One(d \notin hookSeen) <= 1 + lapses
          BY DEF HookBooks
        <4>3. made[d] \in Nat /\ lapses \in Nat
          BY DEF RequestsTypeOK
        <4>4. Cardinality(InFlight(d)') = Cardinality(InFlight(d)) + 1
          BY <2>8, <3>1
        <4> QED BY <4>1, <4>2, <4>3, <4>4, InFlightFinite
      <3>2. CASE d # e
        <4>1. (d \notin hookSeen') = (d \notin hookSeen)
          BY <2>1, <3>2
        <4> QED BY <2>7, <3>2, <4>1 DEF HookBooks
      <3> QED BY <3>1, <3>2
    <2>10. \A d \in acked' \cup hookSeen' : HookKnows(d)'
      BY <1>2, <2>1, <2>5 DEF HookBooks, HookKnows
    <2>11. HookBooks'
      BY <1>2, <2>9, <2>10 DEF HookBooks
    <2> QED BY <1>3, <2>2, <2>11
  <1> QED BY <1>4, <1>5

\* The request is answered, and the event has its session or is given up.
LEMMA HookCreatesKeeps ==
    ASSUME HookInv, NEW h \in Handlers, HookCreates(h)
    PROVE  HookInv'
  <1> USE DEF HookInv
  <1> DEFINE e == handler[h].event
  <1>1. handler[h].pc = "creating" /\ e \in Events
    BY DEF HookCreates, HookTypeOK
  <1>2. Created(e) \/ NotCreated(e)
    BY DEF HookCreates
  <1>3. /\ made' \in [Events -> Nat] /\ givenUp' \subseteq Events /\ lapses' = lapses
        /\ givenUp \subseteq givenUp'
        /\ \A d \in Events : made[d] <= made'[d] /\ made'[d] <= made[d] + One(d = e)
        /\ made'[e] > 0 \/ e \in givenUp'
    BY <1>1, <1>2, Answered
  <1>4. window' = window /\ hookSeen' = hookSeen /\ acked' \subseteq acked \cup {e}
    BY DEF HookCreates
  <1>5. handler' = [handler EXCEPT ![h] = IdleHandler]
    BY DEF HookCreates, HookAnswers
  <1>6. handler'[h].pc = "idle" /\ \A g \in Handlers \ {h} : handler'[g] = handler[g]
    BY <1>5 DEF IdleHandler, HookTypeOK
  <1>7. CreatingHandlers' = CreatingHandlers \ {h} /\ h \in CreatingHandlers
    BY <1>1, <1>6 DEF CreatingHandlers
  <1>8. Creating \subseteq Creating' \cup {e}
    BY <1>6, <1>7 DEF Creating, CreatingHandlers
  <1>9. \A d \in acked' \cup hookSeen' : HookKnows(d)'
    BY <1>3, <1>4, <1>8 DEF HookBooks, HookKnows, HookTypeOK, RequestsTypeOK
  <1>10. ASSUME NEW d \in Events
         PROVE  made'[d] + Cardinality(InFlight(d)') + One(d \notin hookSeen') <= 1 + lapses'
    <2>1. made[d] \in Nat /\ made'[d] \in Nat /\ lapses \in Nat /\ One(d \notin hookSeen) \in 0..1
      BY <1>3 DEF RequestsTypeOK, One
    <2>2. made[d] + Cardinality(InFlight(d)) + One(d \notin hookSeen) <= 1 + lapses
      BY DEF HookBooks
    <2>3. CASE d = e
      <3>1. InFlight(d)' = InFlight(d) \ {h} /\ h \in InFlight(d)
        BY <1>6, <1>7, <2>3 DEF InFlight, CreatingHandlers
      <3>2. Cardinality(InFlight(d)') = Cardinality(InFlight(d)) - 1
        BY <3>1, InFlightFinite, FS_RemoveElement
      <3>3. made'[d] <= made[d] + 1
        BY <1>3, <2>3 DEF One
      <3> QED BY <1>3, <1>4, <2>1, <2>2, <3>2, <3>3, InFlightFinite
    <2>4. CASE d # e
      <3>1. InFlight(d)' = InFlight(d)
        BY <1>6, <1>7, <2>4 DEF InFlight, CreatingHandlers
      <3>2. made'[d] = made[d]
        BY <1>3, <2>1, <2>4 DEF One
      <3> QED BY <1>3, <1>4, <2>2, <3>1, <3>2
    <2> QED BY <2>3, <2>4
  <1>11. HookBooks'
    BY <1>9, <1>10 DEF HookBooks
  <1>12. HookTypeOK'
    BY <1>1, <1>4, <1>5 DEF HookTypeOK, IdleHandler
  <1>13. RequestsTypeOK'
    BY <1>3, <1>4 DEF RequestsTypeOK
  <1> QED BY <1>11, <1>12, <1>13

\* What is forgotten costs a lapse.
LEMMA HookLapses ==
    ASSUME HookInv, (\E e \in Events : HookForgets(e)) \/ HookRestarts
    PROVE  HookInv'
  <1> USE DEF HookInv
  <1>1. lapses \in Nat /\ lapses' = lapses + 1 /\ lapses' \in 0..MaxLapses
    BY EventBoundsNat DEF HookForgets, HookRestarts, Lapse, RequestsTypeOK
  <1>2. ASSUME NEW e \in Events, HookForgets(e)
        PROVE  HookInv'
    <2>1. UNCHANGED <<made, givenUp, window, handler, acked>> /\ hookSeen' = hookSeen \ {e}
      BY <1>2 DEF HookForgets
    <2>2. RequestsTypeOK' /\ HookTypeOK'
      BY <1>1, <2>1 DEF RequestsTypeOK, HookTypeOK
    <2>3. Creating' = Creating /\ \A d : InFlight(d)' = InFlight(d)
      BY <2>1 DEF Creating, CreatingHandlers, InFlight
    <2>4. ASSUME NEW d \in Events
          PROVE  made[d] + Cardinality(InFlight(d)) + One(d \notin hookSeen') <= 1 + lapses'
      <3>1. made[d] + Cardinality(InFlight(d)) + One(d \notin hookSeen) <= 1 + lapses
        BY DEF HookBooks
      <3>2. One(d \notin hookSeen) \in 0..1 /\ One(d \notin hookSeen') \in 0..1 /\ made[d] \in Nat
        BY DEF One, RequestsTypeOK
      <3> QED BY <1>1, <3>1, <3>2, InFlightFinite
    <2>5. HookBooks'
      BY <2>1, <2>3, <2>4 DEF HookBooks, HookKnows
    <2> QED BY <2>2, <2>5
  <1>3. CASE HookRestarts
    <2> DEFINE cut == [h \in CreatingHandlers |-> handler[h].event]
    <2>1. /\ handler' = [h \in Handlers |-> IdleHandler] /\ CutOff(cut)
          /\ hookSeen' = {} /\ window' = 0 /\ acked' = acked
      BY <1>3 DEF HookRestarts
    <2>2. CreatingHandlers \subseteq Handlers /\ \A h \in CreatingHandlers : handler[h].event \in Events
      BY DEF CreatingHandlers, HookTypeOK
    <2>3. IsFiniteSet(DOMAIN cut) /\ \A r \in DOMAIN cut : cut[r] \in Events
      BY <2>2, HandlersFinite, FS_Subset
    <2>4. /\ made' \in [Events -> Nat] /\ givenUp' \subseteq Events /\ givenUp \subseteq givenUp'
          /\ \A r \in DOMAIN cut : cut[r] \in givenUp'
          /\ \A d \in Events :
                /\ made[d] <= made'[d]
                /\ made'[d] <= made[d] + Cardinality({r \in DOMAIN cut : cut[r] = d})
      BY <2>1, <2>3, AllGivenUp
    <2>5. \A d : {r \in DOMAIN cut : cut[r] = d} = InFlight(d)
      BY DEF InFlight
    <2>6. Creating \subseteq givenUp'
      BY <2>4 DEF Creating
    <2>7. \A d : InFlight(d)' = {}
      BY <2>1 DEF InFlight, CreatingHandlers, IdleHandler
    <2>8. ASSUME NEW d \in acked'
          PROVE  HookKnows(d)'
      <3>1. d \in Events /\ HookKnows(d)
        BY <2>1 DEF HookTypeOK, HookBooks
      <3>2. CASE made[d] > 0
        <4>1. made[d] \in Nat /\ made'[d] \in Nat /\ made[d] <= made'[d]
          BY <2>4, <3>1 DEF RequestsTypeOK
        <4>2. made'[d] > 0
          BY <3>2, <4>1
        <4> QED BY <4>2 DEF HookKnows
      <3>3. CASE d \in Creating \cup givenUp
        BY <2>4, <2>6, <3>3 DEF HookKnows
      <3> QED BY <3>1, <3>2, <3>3 DEF HookKnows
    <2>9. ASSUME NEW d \in Events
          PROVE  made'[d] + Cardinality(InFlight(d)') + One(d \notin hookSeen') <= 1 + lapses'
      <3>1. made[d] + Cardinality(InFlight(d)) + One(d \notin hookSeen) <= 1 + lapses
        BY DEF HookBooks
      <3>2. One(d \notin hookSeen) \in 0..1 /\ One(d \notin hookSeen') \in 0..1
        BY DEF One
      <3>3. made[d] \in Nat /\ made'[d] \in Nat /\ made'[d] <= made[d] + Cardinality(InFlight(d))
        BY <2>4, <2>5 DEF RequestsTypeOK
      <3>4. Cardinality(InFlight(d)') = 0
        BY <2>7, FS_EmptySet
      <3> QED BY <1>1, <3>1, <3>2, <3>3, <3>4, InFlightFinite
    <2>10. HookBooks'
      BY <2>1, <2>8, <2>9 DEF HookBooks
    <2>11. HookTypeOK'
      BY <2>1 DEF HookTypeOK, IdleHandler
    <2>12. RequestsTypeOK'
      BY <1>1, <2>1, <2>4, LimitPositive DEF RequestsTypeOK
    <2> QED BY <2>10, <2>11, <2>12
  <1> QED BY <1>2, <1>3

LEMMA HookStep ==
    ASSUME HookInv, HookNext
    PROVE  HookInv'
  <1>1. CASE WindowSlides /\ UNCHANGED hookVars
    <2>1. UNCHANGED <<made, givenUp, lapses, handler, hookSeen, acked>> /\ window' \in 0..Limit
      BY <1>1, WindowTyping DEF WindowSlides, hookVars, HookInv, RequestsTypeOK
    <2> QED BY <2>1 DEF HookInv, RequestsTypeOK, HookTypeOK, HookBooks, HookKnows, Creating,
                        CreatingHandlers, InFlight
  <1> QED BY <1>1, HookArrives, HookDedupKeeps, HookCreatesKeeps, HookLapses DEF HookNext

-----------------------------------------------------------------------------
(* Event streams. *)

SseKnows(e) ==
    \/ made[e] > 0
    \/ conn = "creating" /\ e = Handled
    \/ e \in givenUp \cup limited \cup overlooked

\* What is behind the cursor or in the cache is known, and the ids to resume from are
\* behind the cursor.
SseBooks ==
    /\ lastEventId < cursor /\ lastId < cursor
    /\ conn = "creating" => cursor > 1
    /\ \A e \in sseSeen \cup (1..(cursor - 1)) : SseKnows(e)
    /\ \A e \in Events :
          made[e] + One(conn = "creating" /\ e = Handled) + One(e \notin sseSeen) <= 1 + lapses

SseInv == RequestsTypeOK /\ SseTypeOK /\ SseBooks

LEMMA SseConnection ==
    ASSUME SseInv, SseConnects \/ SseEnds \/ SseBreaks \/ Emits
    PROVE  SseInv'
  <1> USE EventBoundsNat DEF SseInv
  <1>1. UNCHANGED <<made, givenUp, lapses, window, sseSeen, limited>>
    BY DEF SseConnects, SseEnds, SseBreaks, Emits, requestVars, memory
  <1>2. RequestsTypeOK'
    BY <1>1 DEF RequestsTypeOK
  <1>3. SseTypeOK'
    <2>1. cursor..emitted \subseteq Events
      BY DEF SseTypeOK, Events
    <2>2. CASE SseConnects
      BY <2>1, <2>2 DEF SseConnects, SseGoes, SseTypeOK
    <2>3. CASE SseEnds \/ SseBreaks
      BY <2>3 DEF SseEnds, SseBreaks, SseGoes, SseTypeOK, memory
    <2>4. CASE Emits
      BY <2>4 DEF Emits, SseTypeOK, memory
    <2> QED BY <2>2, <2>3, <2>4
  <1>4. (conn' # "creating" /\ conn # "creating") \/ UNCHANGED <<conn, cursor>>
    BY DEF SseConnects, SseEnds, SseBreaks, Emits, SseGoes
  <1>5. lastEventId' < cursor' /\ lastId' < cursor'
    BY DEF SseConnects, SseEnds, SseBreaks, Emits, SseTypeOK, SseBooks, memory
  <1>6. overlooked \subseteq overlooked' /\ 1..(cursor' - 1) \subseteq 1..(cursor - 1) \cup overlooked'
    BY DEF SseConnects, SseEnds, SseBreaks, Emits, SseTypeOK, SseBooks, memory
  <1>7. \A e \in sseSeen' \cup (1..(cursor' - 1)) : SseKnows(e)'
    BY <1>1, <1>4, <1>6 DEF SseBooks, SseKnows, Handled
  <1>8. \A e \in Events : One(conn = "creating" /\ e = Handled)' = One(conn = "creating" /\ e = Handled)
    BY <1>4 DEF One, Handled
  <1>9. \A e \in Events :
           made'[e] + One(conn = "creating" /\ e = Handled)' + One(e \notin sseSeen') <= 1 + lapses'
    BY <1>1, <1>8 DEF SseBooks
  <1>10. conn' = "creating" => cursor' > 1
    BY <1>4 DEF SseBooks
  <1>11. SseBooks'
    BY <1>5, <1>7, <1>9, <1>10 DEF SseBooks
  <1> QED BY <1>2, <1>3, <1>11

\* The next event is handled, dropped or known.
LEMMA SseReads ==
    ASSUME SseInv, SseTakes \/ SseOverflows
    PROVE  SseInv'
  <1> USE EventBoundsNat DEF SseInv
  <1>1. /\ UNCHANGED <<made, givenUp, lapses, emitted, lastEventId>>
        /\ conn = "open" /\ cursor \in 1..emitted /\ cursor' = cursor + 1
        /\ cursor \in Events
    BY DEF SseTakes, SseOverflows, requestVars, SseTypeOK, Events
  <1>2. window' \in 0..Limit
    BY WindowTyping DEF SseTakes, SseOverflows, requestVars, RequestsTypeOK
  <1>3. RequestsTypeOK'
    BY <1>1, <1>2 DEF RequestsTypeOK
  <1>4. SseTypeOK'
    <2>1. conn' \in {"none", "open", "creating"} /\ lastId' \in 0..emitted
      BY <1>1 DEF SseTakes, SseOverflows, SseTypeOK
    <2>2. sseSeen' \subseteq Events /\ limited' \subseteq Events /\ overlooked' \subseteq Events
      BY <1>1 DEF SseTakes, SseOverflows, SseTypeOK
    <2>3. cursor' \in 1..(emitted + 1)
      BY <1>1 DEF SseTypeOK
    <2> QED BY <1>1, <2>1, <2>2, <2>3 DEF SseTypeOK
  <1>5. lastEventId' < cursor' /\ lastId' < cursor'
    BY <1>1 DEF SseTakes, SseOverflows, SseTypeOK, SseBooks
  <1>6. Handled' = cursor
    BY <1>1 DEF Handled, SseTypeOK
  <1>7. CASE SseOverflows
    <2>1. conn' = conn /\ sseSeen' = sseSeen /\ limited' = limited /\ overlooked' = overlooked \cup {cursor}
      BY <1>7 DEF SseOverflows
    <2>2. \A e \in sseSeen' \cup (1..(cursor' - 1)) : SseKnows(e)'
      BY <1>1, <2>1 DEF SseBooks, SseKnows, SseTypeOK
    <2>3. \A e \in Events :
             made'[e] + One(conn = "creating" /\ e = Handled)' + One(e \notin sseSeen') <= 1 + lapses'
      BY <1>1, <2>1 DEF SseBooks, One
    <2> QED BY <1>1, <1>3, <1>4, <1>5, <2>1, <2>2, <2>3 DEF SseBooks
  <1>8. CASE SseTakes
    <2>1. sseSeen' = sseSeen \cup {cursor} /\ overlooked' = overlooked /\ limited \subseteq limited'
      BY <1>8 DEF SseTakes
    <2>2. ASSUME NEW e \in Events, e = cursor
          PROVE  SseKnows(e)'
      <3>1. CASE cursor \in sseSeen
        <4>1. SseKnows(e) /\ conn # "creating"
          BY <1>1, <2>2, <3>1 DEF SseBooks
        <4> QED BY <1>1, <2>1, <4>1 DEF SseKnows
      <3>2. CASE limited' = limited \cup {cursor}
        BY <2>2, <3>2 DEF SseKnows
      <3>3. CASE conn' = "creating"
        BY <1>6, <2>2, <3>3 DEF SseKnows
      <3> QED BY <1>8, <3>1, <3>2, <3>3 DEF SseTakes
    <2>3. ASSUME NEW e \in sseSeen' \cup (1..(cursor' - 1))
          PROVE  SseKnows(e)'
      <3>1. CASE e = cursor
        BY <1>1, <2>2, <3>1
      <3>2. CASE e # cursor
        <4>1. e \in sseSeen \cup (1..(cursor - 1))
          BY <1>1, <2>1, <3>2 DEF SseTypeOK
        <4>2. SseKnows(e) /\ conn # "creating"
          BY <1>1, <4>1 DEF SseBooks
        <4> QED BY <1>1, <2>1, <4>2, <1>8 DEF SseKnows, SseTakes
      <3> QED BY <3>1, <3>2
    <2>4. ASSUME NEW e \in Events
          PROVE  made'[e] + One(conn = "creating" /\ e = Handled)' + One(e \notin sseSeen') <= 1 + lapses'
      <3>1. made[e] + One(conn = "creating" /\ e = Handled) + One(e \notin sseSeen) <= 1 + lapses
        BY DEF SseBooks
      <3>2. made[e] \in Nat /\ lapses \in Nat
        BY DEF RequestsTypeOK
      <3>3. CASE e = cursor /\ cursor \notin sseSeen
        BY <1>1, <2>1, <3>1, <3>2, <3>3 DEF One
      <3>4. CASE e # cursor \/ cursor \in sseSeen
        BY <1>1, <1>6, <1>8, <2>1, <3>1, <3>2, <3>4 DEF One, SseTakes
      <3> QED BY <3>3, <3>4
    <2>5. conn' = "creating" => cursor' > 1
      BY <1>1 DEF SseTypeOK
    <2>6. SseBooks'
      BY <1>5, <2>3, <2>4, <2>5 DEF SseBooks
    <2> QED BY <1>3, <1>4, <2>6
  <1> QED BY <1>7, <1>8

LEMMA SseCreatesKeeps ==
    ASSUME SseInv, SseCreates
    PROVE  SseInv'
  <1> USE EventBoundsNat DEF SseInv
  <1>1. /\ conn = "creating" /\ conn' = "open" /\ Handled \in Events
        /\ UNCHANGED <<window, emitted, cursor, lastId, lastEventId, sseSeen, limited, overlooked>>
    BY DEF SseCreates, SseGoes, memory, SseBooks, SseTypeOK, Handled, Events
  <1>2. /\ made' \in [Events -> Nat] /\ givenUp' \subseteq Events /\ lapses' = lapses
        /\ givenUp \subseteq givenUp'
        /\ \A d \in Events : made[d] <= made'[d] /\ made'[d] <= made[d] + One(d = Handled)
        /\ made'[Handled] > 0 \/ Handled \in givenUp'
    BY <1>1, Answered DEF SseCreates
  <1>3. RequestsTypeOK' /\ SseTypeOK'
    BY <1>1, <1>2 DEF RequestsTypeOK, SseTypeOK
  <1>4. ASSUME NEW e \in sseSeen \cup (1..(cursor - 1))
        PROVE  SseKnows(e)'
    <2>1. e \in Events /\ SseKnows(e)
      BY DEF SseBooks, SseTypeOK, Events
    <2>2. made[e] \in Nat /\ made'[e] \in Nat /\ made[e] <= made'[e]
      BY <1>2, <2>1 DEF RequestsTypeOK
    <2>3. CASE made[e] > 0
      <3>1. made'[e] > 0
        BY <2>2, <2>3
      <3> QED BY <3>1 DEF SseKnows
    <2>4. CASE e = Handled
      BY <1>2, <2>4 DEF SseKnows
    <2>5. CASE e \in givenUp \cup limited \cup overlooked
      BY <1>1, <1>2, <2>5 DEF SseKnows
    <2> QED BY <2>1, <2>3, <2>4, <2>5 DEF SseKnows
  <1>5. ASSUME NEW e \in Events
        PROVE  made'[e] + One(conn = "creating" /\ e = Handled)' + One(e \notin sseSeen') <= 1 + lapses'
    <2>1. made[e] + One(conn = "creating" /\ e = Handled) + One(e \notin sseSeen) <= 1 + lapses
      BY DEF SseBooks
    <2>2. made[e] \in Nat /\ made'[e] \in Nat /\ made'[e] <= made[e] + One(e = Handled) /\ lapses \in Nat
      BY <1>2 DEF RequestsTypeOK
    <2> QED BY <1>1, <1>2, <2>1, <2>2 DEF One
  <1>6. SseBooks'
    BY <1>1, <1>4, <1>5 DEF SseBooks
  <1> QED BY <1>3, <1>6

LEMMA SseLapses ==
    ASSUME SseInv, (\E e \in Events : SseForgets(e)) \/ SseRestarts
    PROVE  SseInv'
  <1> USE EventBoundsNat DEF SseInv
  <1>1. lapses \in Nat /\ lapses' = lapses + 1 /\ lapses' \in 0..MaxLapses
    BY DEF SseForgets, SseRestarts, Lapse, RequestsTypeOK
  <1>2. ASSUME NEW d \in Events, SseForgets(d)
        PROVE  SseInv'
    <2>1. /\ UNCHANGED <<made, givenUp, window, emitted, conn, cursor, lastEventId, lastId, limited, overlooked>>
          /\ sseSeen' = sseSeen \ {d}
      BY <1>2 DEF SseForgets
    <2>2. RequestsTypeOK' /\ SseTypeOK'
      BY <1>1, <2>1 DEF RequestsTypeOK, SseTypeOK
    <2>3. ASSUME NEW e \in Events
          PROVE  made[e] + One(conn = "creating" /\ e = Handled) + One(e \notin sseSeen') <= 1 + lapses'
      <3>1. made[e] + One(conn = "creating" /\ e = Handled) + One(e \notin sseSeen) <= 1 + lapses
        BY DEF SseBooks
      <3>2. made[e] \in Nat
        BY DEF RequestsTypeOK
      <3> QED BY <1>1, <3>1, <3>2 DEF One
    <2>4. SseBooks'
      BY <2>1, <2>3 DEF SseBooks, SseKnows, Handled
    <2> QED BY <2>2, <2>4
  <1>3. CASE SseRestarts
    <2> DEFINE cut == [c \in {conn} \cap {"creating"} |-> Handled]
    <2>1. /\ CutOff(cut) /\ conn' = "none" /\ lastEventId' = 0 /\ lastId' = 0 /\ sseSeen' = {}
          /\ window' = 0 /\ UNCHANGED <<emitted, cursor, limited, overlooked>>
      BY <1>3 DEF SseRestarts
    <2>2. IsFiniteSet(DOMAIN cut) /\ \A c \in DOMAIN cut : cut[c] \in Events
      <3>1. DOMAIN cut \subseteq {"creating"} /\ IsFiniteSet({"creating"})
        BY FS_Singleton
      <3>2. conn = "creating" => Handled \in Events
        BY DEF SseBooks, SseTypeOK, Handled, Events
      <3> QED BY <3>1, <3>2, FS_Subset
    <2>3. /\ made' \in [Events -> Nat] /\ givenUp' \subseteq Events /\ givenUp \subseteq givenUp'
          /\ \A c \in DOMAIN cut : cut[c] \in givenUp'
          /\ \A e \in Events :
                /\ made[e] <= made'[e]
                /\ made'[e] <= made[e] + Cardinality({c \in DOMAIN cut : cut[c] = e})
      BY <2>1, <2>2, AllGivenUp
    <2>4. RequestsTypeOK' /\ SseTypeOK'
      BY <1>1, <2>1, <2>3, LimitPositive DEF RequestsTypeOK, SseTypeOK
    <2>5. ASSUME NEW e \in 1..(cursor - 1)
          PROVE  SseKnows(e)'
      <3>1. e \in Events /\ SseKnows(e)
        BY DEF SseBooks, SseTypeOK, Events
      <3>2. CASE made[e] > 0
        <4>1. made[e] \in Nat /\ made'[e] \in Nat /\ made[e] <= made'[e]
          BY <2>3, <3>1 DEF RequestsTypeOK
        <4>2. made'[e] > 0
          BY <3>2, <4>1
        <4> QED BY <4>2 DEF SseKnows
      <3>3. CASE conn = "creating" /\ e = Handled
        <4>1. e \in givenUp'
          BY <2>3, <3>3
        <4> QED BY <4>1 DEF SseKnows
      <3>4. CASE e \in givenUp \cup limited \cup overlooked
        BY <2>1, <2>3, <3>4 DEF SseKnows
      <3> QED BY <3>1, <3>2, <3>3, <3>4 DEF SseKnows
    <2>6. ASSUME NEW e \in Events
          PROVE  made'[e] + One(conn = "creating" /\ e = Handled)' + One(e \notin sseSeen') <= 1 + lapses'
      <3>1. made[e] + One(conn = "creating" /\ e = Handled) + One(e \notin sseSeen) <= 1 + lapses
        BY DEF SseBooks
      <3>2. Cardinality({c \in DOMAIN cut : cut[c] = e}) = One(conn = "creating" /\ e = Handled)
        <4>1. CASE conn = "creating" /\ e = Handled
          <5>1. {c \in DOMAIN cut : cut[c] = e} = {"creating"}
            BY <4>1
          <5> QED BY <4>1, <5>1, FS_Singleton DEF One
        <4>2. CASE ~(conn = "creating" /\ e = Handled)
          <5>1. {c \in DOMAIN cut : cut[c] = e} = {}
            BY <4>2
          <5> QED BY <4>2, <5>1, FS_EmptySet DEF One
        <4> QED BY <4>1, <4>2
      <3>3. made[e] \in Nat /\ made'[e] \in Nat /\ made'[e] <= made[e] + One(conn = "creating" /\ e = Handled)
        BY <2>3, <3>2 DEF RequestsTypeOK
      <3>4. One(conn = "creating" /\ e = Handled)' = 0 /\ One(e \notin sseSeen') = 1
        BY <2>1 DEF One
      <3>5. One(conn = "creating" /\ e = Handled) \in Nat /\ One(e \notin sseSeen) \in Nat
        BY DEF One
      <3> QED BY <1>1, <3>1, <3>3, <3>4, <3>5
    <2>7. SseBooks'
      BY <2>1, <2>5, <2>6 DEF SseBooks, SseTypeOK
    <2> QED BY <2>4, <2>7
  <1> QED BY <1>2, <1>3

LEMMA SseStep ==
    ASSUME SseInv, SseNext
    PROVE  SseInv'
  <1>1. CASE WindowSlides /\ UNCHANGED sseVars
    <2>1. /\ UNCHANGED <<made, givenUp, lapses, emitted, conn, cursor, lastEventId, lastId,
                         sseSeen, limited, overlooked>>
          /\ window' \in 0..Limit
      BY <1>1, WindowTyping DEF WindowSlides, sseVars, SseInv, RequestsTypeOK
    <2> QED BY <2>1 DEF SseInv, RequestsTypeOK, SseTypeOK, SseBooks, SseKnows, Handled
  <1> QED BY <1>1, SseConnection, SseReads, SseCreatesKeeps, SseLapses DEF SseNext

-----------------------------------------------------------------------------
(* File watches. *)

\* Each change makes no more than one session: it is in the channel, in the debounce map,
\* about to fire, or has been decided on.
WatchBooks ==
    /\ NoChangeIsLost
    /\ \A f \in Events :
          made[f] + notified[f] + One(debouncing[f] # "no") + One(f \in firing) <= changes[f]

WatchInv == RequestsTypeOK /\ WatchTypeOK /\ WatchBooks

\* Up to the files that have settled.
LEMMA WatchWaits ==
    ASSUME WatchInv, NEW f \in Events, FileChanges(f) \/ WatchReceives(f) \/ Settles(f)
    PROVE  WatchInv'
  <1> USE MaxChangesNat DEF WatchInv
  <1>1. UNCHANGED <<made, givenUp, lapses, window, firing, told>>
    BY DEF FileChanges, WatchReceives, Settles, requestVars
  <1>2. RequestsTypeOK'
    BY <1>1 DEF RequestsTypeOK
  <1>3. WatchTypeOK'
    <2>1. notified[f] <= changes[f]
      <3>1. made[f] + notified[f] + One(debouncing[f] # "no") + One(f \in firing) <= changes[f]
        BY DEF WatchBooks
      <3> QED BY <3>1 DEF RequestsTypeOK, WatchTypeOK, One
    <2>2. CASE FileChanges(f)
      BY <2>1, <2>2 DEF FileChanges, WatchTypeOK
    <2>3. CASE WatchReceives(f) \/ Settles(f)
      BY <2>3 DEF WatchReceives, Settles, WatchTypeOK
    <2> QED BY <2>2, <2>3
  <1>4. NoChangeIsLost'
    BY DEF FileChanges, WatchReceives, Settles, WatchTypeOK, WatchBooks, NoChangeIsLost
  <1>5. ASSUME NEW e \in Events
        PROVE  (made[e] + notified[e] + One(debouncing[e] # "no") + One(e \in firing) <= changes[e])'
    <2>1. made[e] + notified[e] + One(debouncing[e] # "no") + One(e \in firing) <= changes[e]
      BY DEF WatchBooks
    <2>2. made[e] \in Nat /\ notified[e] \in Nat /\ changes[e] \in Nat /\ One(e \in firing) \in Nat
      BY DEF RequestsTypeOK, WatchTypeOK, One
    <2>3. made'[e] = made[e] /\ One(e \in firing)' = One(e \in firing)
      BY <1>1 DEF One
    <2>4. CASE FileChanges(f)
      BY <2>1, <2>2, <2>3, <2>4 DEF FileChanges, WatchTypeOK, One
    <2>5. CASE WatchReceives(f)
      BY <2>1, <2>2, <2>3, <2>5 DEF WatchReceives, WatchTypeOK, One
    <2>6. CASE Settles(f)
      BY <2>1, <2>2, <2>3, <2>6 DEF Settles, WatchTypeOK, One
    <2> QED BY <2>4, <2>5, <2>6
  <1>6. WatchBooks'
    BY <1>4, <1>5 DEF WatchBooks
  <1> QED BY <1>2, <1>3, <1>6

LEMMA WatchCollectsKeeps ==
    ASSUME WatchInv, WatchCollects
    PROVE  WatchInv'
  <1> USE DEF WatchInv
  <1>1. /\ UNCHANGED <<made, givenUp, lapses, window, changes, notified, told>>
        /\ firing = {} /\ firing' = SettledFiles
        /\ debouncing' = [f \in Events |-> IF f \in SettledFiles THEN "no" ELSE debouncing[f]]
    BY DEF WatchCollects, requestVars
  <1>2. RequestsTypeOK' /\ WatchTypeOK'
    BY <1>1 DEF RequestsTypeOK, WatchTypeOK, SettledFiles
  <1>3. ASSUME NEW f \in Events
        PROVE  /\ debouncing'[f] # "no" \/ f \in firing' <=> debouncing[f] # "no"
               /\ One(debouncing[f] # "no")' + One(f \in firing)' = One(debouncing[f] # "no")
    BY <1>1 DEF SettledFiles, One
  <1>4. \A f \in Events : made[f] \in Nat /\ notified[f] \in Nat
    BY DEF RequestsTypeOK, WatchTypeOK
  <1>5. NoChangeIsLost'
    BY <1>1, <1>3 DEF WatchBooks, NoChangeIsLost
  <1>6. ASSUME NEW f \in Events
        PROVE  made'[f] + notified'[f] + One(debouncing[f] # "no")' + One(f \in firing)' <= changes'[f]
    <2>1. made[f] + notified[f] + One(debouncing[f] # "no") + One(f \in firing) <= changes[f]
      BY DEF WatchBooks
    <2>2. One(f \in firing) = 0 /\ One(debouncing[f] # "no") \in Nat
      BY <1>1 DEF One
    <2>3. One(debouncing[f] # "no")' \in Nat /\ One(f \in firing)' \in Nat
      BY DEF One
    <2> QED BY <1>1, <1>3, <1>4, <2>1, <2>2, <2>3
  <1>7. WatchBooks'
    BY <1>5, <1>6 DEF WatchBooks
  <1> QED BY <1>2, <1>7

\* All changes that were received become one session, or none.
LEMMA WatchFiresKeeps ==
    ASSUME WatchInv, NEW f \in Events, WatchFires(f)
    PROVE  WatchInv'
  <1> USE MaxChangesNat DEF WatchInv
  <1>1. /\ f \in firing /\ firing' = firing \ {f}
        /\ told' = [told EXCEPT ![f] = changes[f] - notified[f]]
        /\ UNCHANGED <<changes, notified, debouncing>>
    BY DEF WatchFires
  <1>2. /\ made' \in [Events -> Nat] /\ givenUp' \subseteq Events /\ lapses' = lapses
        /\ \A d \in Events : made'[d] <= made[d] + One(d = f)
    <2>1. CASE Created(f) \/ NotCreated(f)
      BY <2>1, Answered
    <2>2. CASE UNCHANGED <<made, givenUp, lapses>>
      BY <2>2 DEF RequestsTypeOK, One
    <2> QED BY <2>1, <2>2 DEF WatchFires
  <1>3. RequestsTypeOK'
    <2>1. window' \in 0..Limit
      BY WindowTyping DEF WatchFires, RequestsTypeOK
    <2> QED BY <1>2, <2>1 DEF RequestsTypeOK
  <1>4. ASSUME NEW e \in Events
        PROVE  (made[e] + notified[e] + One(debouncing[e] # "no") + One(e \in firing) <= changes[e])'
    <2>1. made[e] + notified[e] + One(debouncing[e] # "no") + One(e \in firing) <= changes[e]
      BY DEF WatchBooks
    <2>2. made[e] \in Nat /\ notified[e] \in Nat /\ changes[e] \in Nat /\ made'[e] \in Nat
      BY <1>2 DEF RequestsTypeOK, WatchTypeOK
    <2>3. One(debouncing[e] # "no")' = One(debouncing[e] # "no") /\ One(debouncing[e] # "no") \in Nat
      BY <1>1 DEF One
    <2>4. One(e \in firing)' + One(e = f) = One(e \in firing) /\ One(e \in firing)' \in Nat /\ One(e = f) \in Nat
      BY <1>1 DEF One
    <2> QED BY <1>1, <1>2, <2>1, <2>2, <2>3, <2>4
  <1>5. changes[f] - notified[f] \in 0..MaxChanges
    <2>1. made[f] + notified[f] + One(debouncing[f] # "no") + One(f \in firing) <= changes[f]
      BY DEF WatchBooks
    <2> QED BY <2>1 DEF RequestsTypeOK, WatchTypeOK, One
  <1>6. WatchTypeOK'
    BY <1>1, <1>5 DEF WatchTypeOK
  <1>7. NoChangeIsLost'
    BY <1>1, <1>5 DEF WatchBooks, NoChangeIsLost, WatchTypeOK
  <1>8. WatchBooks'
    BY <1>4, <1>7 DEF WatchBooks
  <1> QED BY <1>3, <1>6, <1>8

LEMMA WatchRestartsKeeps ==
    ASSUME WatchInv, WatchRestarts
    PROVE  WatchInv'
  <1> USE MaxChangesNat DEF WatchInv
  <1>1. PICK request \in {{}} \cup {{f} : f \in firing} : CutOff([f \in request |-> f])
    BY DEF WatchRestarts
  <1> DEFINE cut == [f \in request |-> f]
  <1>2. /\ notified' = [f \in Events |-> 0] /\ debouncing' = [f \in Events |-> "no"]
        /\ firing' = {} /\ told' = changes /\ window' = 0 /\ changes' = changes
        /\ lapses' \in 0..MaxLapses
    BY EventBoundsNat DEF WatchRestarts, Lapse, RequestsTypeOK
  <1>3. IsFiniteSet(DOMAIN cut) /\ request \subseteq firing /\ \A f \in DOMAIN cut : cut[f] \in Events
    <2>1. request = {} \/ \E f \in firing : request = {f}
      OBVIOUS
    <2>2. IsFiniteSet(request)
      BY <2>1, FS_EmptySet, FS_Singleton
    <2>3. DOMAIN cut = request
      OBVIOUS
    <2>4. request \subseteq firing /\ firing \subseteq Events
      BY <2>1 DEF WatchTypeOK
    <2> QED BY <2>2, <2>3, <2>4
  <1>4. /\ made' \in [Events -> Nat] /\ givenUp' \subseteq Events
        /\ \A d \in Events : made'[d] <= made[d] + Cardinality({f \in DOMAIN cut : cut[f] = d})
    BY <1>1, <1>3, AllGivenUp
  <1>5. ASSUME NEW e \in Events
        PROVE  made'[e] <= changes[e]
    <2>1. made[e] + notified[e] + One(debouncing[e] # "no") + One(e \in firing) <= changes[e]
      BY DEF WatchBooks
    <2>2. made[e] \in Nat /\ notified[e] \in Nat /\ changes[e] \in Nat /\ made'[e] \in Nat
      BY <1>4 DEF RequestsTypeOK, WatchTypeOK
    <2>3. One(debouncing[e] # "no") \in Nat /\ One(e \in firing) \in Nat
      BY DEF One
    <2>4. Cardinality({f \in DOMAIN cut : cut[f] = e}) <= One(e \in firing)
          /\ Cardinality({f \in DOMAIN cut : cut[f] = e}) \in Nat
      <3>1. CASE e \in request
        <4>1. {f \in DOMAIN cut : cut[f] = e} = {e} /\ e \in firing
          BY <1>3, <3>1
        <4>2. Cardinality({f \in DOMAIN cut : cut[f] = e}) = 1
          BY <4>1, FS_Singleton
        <4>3. One(e \in firing) = 1
          BY <4>1 DEF One
        <4> HIDE DEF cut
        <4> QED BY <4>2, <4>3
      <3>2. CASE e \notin request
        <4>1. {f \in DOMAIN cut : cut[f] = e} = {}
          BY <3>2
        <4>2. Cardinality({f \in DOMAIN cut : cut[f] = e}) = 0
          BY <4>1, FS_EmptySet
        <4> HIDE DEF cut
        <4> QED BY <2>3, <4>2
      <3> QED BY <3>1, <3>2
    <2>5. made'[e] <= made[e] + Cardinality({f \in DOMAIN cut : cut[f] = e})
      BY <1>4
    <2> HIDE DEF cut
    <2> QED BY <2>1, <2>2, <2>3, <2>4, <2>5
  <1>6. RequestsTypeOK' /\ WatchTypeOK'
    BY <1>2, <1>4, LimitPositive DEF RequestsTypeOK, WatchTypeOK
  <1>7. NoChangeIsLost'
    BY <1>2 DEF NoChangeIsLost, WatchTypeOK
  <1>8. ASSUME NEW e \in Events
        PROVE  (made[e] + notified[e] + One(debouncing[e] # "no") + One(e \in firing) <= changes[e])'
    BY <1>2, <1>4, <1>5 DEF One
  <1>9. WatchBooks'
    BY <1>7, <1>8 DEF WatchBooks
  <1> QED BY <1>6, <1>9

LEMMA WatchStep ==
    ASSUME WatchInv, WatchNext
    PROVE  WatchInv'
  <1>1. CASE WindowSlides /\ UNCHANGED watchVars
    <2>1. /\ UNCHANGED <<made, givenUp, lapses, changes, notified, debouncing, firing, told>>
          /\ window' \in 0..Limit
      BY <1>1, WindowTyping DEF WindowSlides, watchVars, WatchInv, RequestsTypeOK
    <2> QED BY <2>1 DEF WatchInv, RequestsTypeOK, WatchTypeOK, WatchBooks, NoChangeIsLost
  <1> QED BY <1>1, WatchWaits, WatchCollectsKeeps, WatchFiresKeeps, WatchRestartsKeeps DEF WatchNext

-----------------------------------------------------------------------------
(* Polls. *)

\* Whether event e may still become a session of the run that is under way, or of a later one.
MayBeMade(e) ==
    /\ last \in Events => last < e
    /\ pollPc = "writing" => polled # e

\* The file is never ahead of the run, and behind one that makes a session.
PollBooks ==
    /\ OldNewsWasNews
    /\ pollPc = "writing" => made[polled] > 0 \/ polled \in givenUp
    /\ last \in Events => last <= polled
    /\ pollPc \in {"creating", "writing"} /\ last \in Events => last < polled
    /\ polled <= output
    /\ \A e \in Events : made[e] + One(MayBeMade(e)) <= 1 + lapses

PollInv == RequestsTypeOK /\ PollTypeOK /\ PollBooks

LEMMA PollRunsKeeps ==
    ASSUME PollInv, OutputChanges \/ PollRuns
    PROVE  PollInv'
  <1> USE EventBoundsNat, NotOutputs DEF PollInv
  <1>1. UNCHANGED <<made, givenUp, lapses, window, last, baselines>>
    BY DEF OutputChanges, PollRuns, requestVars
  <1>2. RequestsTypeOK'
    BY <1>1 DEF RequestsTypeOK
  <1>3. PollTypeOK'
    <2>1. CASE OutputChanges
      BY <2>1 DEF OutputChanges, PollTypeOK, Events
    <2>2. CASE PollRuns
      BY <2>2 DEF PollRuns, PollCommand, PollGoes, PollTypeOK
    <2> QED BY <2>1, <2>2
  <1>4. OldNewsWasNews'
    BY <1>1 DEF OldNewsWasNews, PollBooks
  <1>5. polled <= polled' /\ polled' <= output'
    BY DEF OutputChanges, PollRuns, PollCommand, PollTypeOK, PollBooks, Events
  <1>6. last \in Events => last <= polled'
    <2>1. polled \in Int /\ polled' \in Int /\ \A e \in Events : e \in Int
      BY <1>3 DEF PollTypeOK, Events
    <2> QED BY <1>5, <2>1 DEF PollBooks
  <1>7. pollPc' \in {"creating", "writing"} /\ last \in Events => last < polled'
    <2>1. CASE OutputChanges
      BY <2>1 DEF OutputChanges, PollBooks
    <2>2. CASE PollRuns
      <3>1. SUFFICES ASSUME pollPc' \in {"creating", "writing"}, last \in Events
                     PROVE  last < polled'
        OBVIOUS
      <3>2. last # polled'
        BY <2>2, <3>1 DEF PollRuns, PollCommand, PollGoes, PollTypeOK
      <3>3. last \in Int /\ polled' \in Int
        BY <1>3, <3>1 DEF PollTypeOK, Events
      <3> QED BY <1>6, <3>1, <3>2, <3>3
    <2> QED BY <2>1, <2>2
  <1>8. (pollPc = "writing" \/ pollPc' = "writing") => UNCHANGED <<pollPc, polled>>
    BY DEF OutputChanges, PollRuns, PollGoes
  <1>9. \A e \in Events : MayBeMade(e)' = MayBeMade(e)
    BY <1>1, <1>8 DEF MayBeMade
  <1>10. \A e \in Events : (made[e] + One(MayBeMade(e)) <= 1 + lapses)'
    BY <1>1, <1>9 DEF PollBooks, One
  <1>11. pollPc' = "writing" => made'[polled'] > 0 \/ polled' \in givenUp'
    BY <1>1, <1>8 DEF PollBooks
  <1>12. PollBooks'
    BY <1>1, <1>4, <1>5, <1>6, <1>7, <1>10, <1>11 DEF PollBooks
  <1> QED BY <1>2, <1>3, <1>12

LEMMA PollCreatesKeeps ==
    ASSUME PollInv, PollCreates
    PROVE  PollInv'
  <1> USE EventBoundsNat, NotOutputs DEF PollInv
  <1>1. /\ pollPc = "creating" /\ pollPc' = "writing"
        /\ UNCHANGED <<window, output, polled, last, baselines>> /\ polled \in Events
    BY DEF PollCreates, PollGoes, PollTypeOK
  <1>2. /\ made' \in [Events -> Nat] /\ givenUp' \subseteq Events /\ lapses' = lapses
        /\ givenUp \subseteq givenUp'
        /\ \A d \in Events : made[d] <= made'[d] /\ made'[d] <= made[d] + One(d = polled)
        /\ made'[polled] > 0 \/ polled \in givenUp'
    BY <1>1, Answered DEF PollCreates, PollRequest
  <1>3. RequestsTypeOK' /\ PollTypeOK'
    BY <1>1, <1>2 DEF RequestsTypeOK, PollTypeOK
  <1>4. OldNewsWasNews'
    BY <1>1, <1>2 DEF PollBooks, OldNewsWasNews, RequestsTypeOK
  <1>5. ASSUME NEW e \in Events
        PROVE  made'[e] + One(MayBeMade(e)') <= 1 + lapses'
    <2>1. made[e] + One(MayBeMade(e)) <= 1 + lapses
      BY DEF PollBooks
    <2>2. made[e] \in Nat /\ made'[e] \in Nat /\ lapses \in Nat
      BY <1>2 DEF RequestsTypeOK
    <2>3. CASE e = polled
      <3>1. MayBeMade(e) /\ ~MayBeMade(e)'
        BY <1>1, <2>3 DEF MayBeMade, PollBooks
      <3> QED BY <1>2, <2>1, <2>2, <2>3, <3>1 DEF One
    <2>4. CASE e # polled
      <3>1. MayBeMade(e)' = MayBeMade(e)
        BY <1>1, <2>4 DEF MayBeMade
      <3> QED BY <1>2, <2>1, <2>2, <2>4, <3>1 DEF One
    <2> QED BY <2>3, <2>4
  <1>6. PollBooks'
    BY <1>1, <1>2, <1>4, <1>5 DEF PollBooks
  <1> QED BY <1>3, <1>6

LEMMA PollWritesKeeps ==
    ASSUME PollInv, PollWrites
    PROVE  PollInv'
  <1> USE EventBoundsNat, NotOutputs DEF PollInv
  <1>1. /\ pollPc \in {"baseline", "writing"} /\ pollPc' = "asleep" /\ last' = polled
        /\ UNCHANGED <<made, givenUp, lapses, window, output, polled>> /\ polled \in Events
        /\ baselines' = IF pollPc = "baseline" THEN baselines \cup {polled} ELSE baselines
    BY DEF PollWrites, PollGoes, PollTypeOK, requestVars
  <1>2. RequestsTypeOK' /\ PollTypeOK'
    BY <1>1 DEF RequestsTypeOK, PollTypeOK
  <1>3. OldNewsWasNews'
    BY <1>1 DEF PollBooks, OldNewsWasNews
  <1>4. \A e \in Events : MayBeMade(e)' => MayBeMade(e)
    BY <1>1 DEF MayBeMade, PollBooks, Events
  <1>5. ASSUME NEW e \in Events
        PROVE  made'[e] + One(MayBeMade(e)') <= 1 + lapses'
    <2>1. made[e] + One(MayBeMade(e)) <= 1 + lapses /\ made[e] \in Nat /\ lapses \in Nat
      BY DEF PollBooks, RequestsTypeOK
    <2> QED BY <1>1, <1>4, <2>1 DEF One
  <1>6. PollBooks'
    BY <1>1, <1>3, <1>5 DEF PollBooks, PollTypeOK, Events
  <1> QED BY <1>2, <1>6

\* A write fails, or phyl-poll dies: the run counts as not done.
LEMMA PollLapses ==
    ASSUME PollInv, PollWriteFails \/ PollDies
    PROVE  PollInv'
  <1> USE EventBoundsNat, NotOutputs DEF PollInv
  <1>1. /\ lapses \in Nat /\ lapses' = lapses + 1 /\ lapses' \in 0..MaxLapses
        /\ pollPc' = "asleep" /\ last' \in {last, Cut}
        /\ UNCHANGED <<window, output, polled, baselines>>
    BY DEF PollWriteFails, PollDies, PollGoes, Lapse, RequestsTypeOK
  <1>2. /\ made' \in [Events -> Nat] /\ givenUp' \subseteq Events /\ givenUp \subseteq givenUp'
        /\ \A e \in Events : /\ made[e] <= made'[e]
                              /\ made'[e] <= lapses'
    <2>1. \A e \in Events : /\ made[e] \in Nat /\ made[e] + One(MayBeMade(e)) <= 1 + lapses
                            /\ One(MayBeMade(e)) \in 0..1
      BY DEF PollBooks, RequestsTypeOK, One
    <2>2. CASE PollWriteFails
      <3>1. UNCHANGED <<made, givenUp>>
        BY <2>2 DEF PollWriteFails
      <3> QED BY <1>1, <2>1, <3>1 DEF One, RequestsTypeOK
    <2>3. CASE PollDies
      <3> DEFINE cut == [c \in {pollPc} \cap {"creating"} |-> polled]
      <3>1. CutOff(cut)
        BY <2>3 DEF PollDies
      <3>2. IsFiniteSet(DOMAIN cut) /\ \A c \in DOMAIN cut : cut[c] \in Events
        <4>1. DOMAIN cut \subseteq {"creating"} /\ IsFiniteSet({"creating"})
          BY FS_Singleton
        <4> QED BY <4>1, FS_Subset DEF PollTypeOK
      <3>3. /\ made' \in [Events -> Nat] /\ givenUp' \subseteq Events /\ givenUp \subseteq givenUp'
            /\ \A e \in Events :
                  /\ made[e] <= made'[e]
                  /\ made'[e] <= made[e] + Cardinality({c \in DOMAIN cut : cut[c] = e})
        BY <3>1, <3>2, AllGivenUp
      <3>4. ASSUME NEW e \in Events
            PROVE  made'[e] <= lapses'
        <4>1. CASE pollPc = "creating" /\ e = polled
          <5>1. {c \in DOMAIN cut : cut[c] = e} = {"creating"}
            BY <4>1
          <5>2. Cardinality({c \in DOMAIN cut : cut[c] = e}) = 1
            BY <5>1, FS_Singleton
          <5>3. MayBeMade(e)
            BY <4>1 DEF MayBeMade, PollBooks
          <5>4. One(MayBeMade(e)) = 1
            BY <5>3 DEF One
          <5>5. made[e] \in Nat /\ made'[e] \in Nat
                /\ made'[e] <= made[e] + Cardinality({c \in DOMAIN cut : cut[c] = e})
            BY <2>1, <3>3
          <5>6. made[e] + One(MayBeMade(e)) <= 1 + lapses /\ One(MayBeMade(e)) \in 0..1
            BY <2>1
          <5> HIDE DEF cut
          <5> QED BY <1>1, <5>2, <5>4, <5>5, <5>6
        <4>2. CASE ~(pollPc = "creating" /\ e = polled)
          <5>1. {c \in DOMAIN cut : cut[c] = e} = {}
            BY <4>2
          <5>2. Cardinality({c \in DOMAIN cut : cut[c] = e}) = 0
            BY <5>1, FS_EmptySet
          <5>5. made[e] \in Nat /\ made'[e] \in Nat
                /\ made'[e] <= made[e] + Cardinality({c \in DOMAIN cut : cut[c] = e})
            BY <2>1, <3>3
          <5>6. made[e] + One(MayBeMade(e)) <= 1 + lapses /\ One(MayBeMade(e)) \in 0..1
            BY <2>1
          <5> HIDE DEF cut
          <5> QED BY <1>1, <5>2, <5>5, <5>6
        <4> QED BY <4>1, <4>2
      <3> QED BY <3>3, <3>4
    <2> QED BY <2>2, <2>3
  <1>3. RequestsTypeOK'
    <2>1. window' \in 0..Limit
      BY <1>1 DEF RequestsTypeOK
    <2> QED BY <1>1, <1>2, <2>1 DEF RequestsTypeOK
  <1>4. PollTypeOK'
    BY <1>1 DEF PollTypeOK
  <1>5. OldNewsWasNews'
    <2>1. SUFFICES ASSUME last' \in Events
                   PROVE  last' \in baselines' \/ made'[last'] > 0 \/ last' \in givenUp'
      BY DEF OldNewsWasNews
    <2>2. last' = last /\ last \in Events
      BY <1>1, <2>1
    <2>3. last \in baselines \/ made[last] > 0 \/ last \in givenUp
      BY <2>2 DEF PollBooks, OldNewsWasNews
    <2>4. made[last] \in Nat /\ made'[last] \in Nat /\ made[last] <= made'[last]
      BY <1>2, <2>2 DEF RequestsTypeOK
    <2> QED BY <1>1, <1>2, <2>2, <2>3, <2>4
  <1>6. \A e \in Events : made'[e] + One(MayBeMade(e)') <= 1 + lapses'
    BY <1>1, <1>2 DEF One
  <1>7. PollBooks'
    BY <1>1, <1>5, <1>6 DEF PollBooks
  <1> QED BY <1>3, <1>4, <1>7

LEMMA PollStep ==
    ASSUME PollInv, PollNext
    PROVE  PollInv'
  BY PollRunsKeeps, PollCreatesKeeps, PollWritesKeeps, PollLapses DEF PollNext

-----------------------------------------------------------------------------
(* The sources together: of those that are not configured nothing happens. *)

IInv ==
    /\ TypeOK
    /\ NoChangeIsLost
    /\ IF source = "hook" THEN HookBooks ELSE acked = {}
    /\ IF source = "sse" THEN SseBooks ELSE cursor = 1
    /\ source = "watch" => WatchBooks
    /\ IF source = "poll" THEN PollBooks ELSE last = Missing

LEMMA InitIInv == Init => IInv
  <1> SUFFICES ASSUME Init
               PROVE  IInv
    OBVIOUS
  <1> USE EventBoundsNat, LimitPositive, MaxChangesNat, NotOutputs
      DEF Init, RequestsInit, HookInit, SseInit, WatchInit, PollInit
  <1>1. RequestsTypeOK
    BY DEF RequestsTypeOK
  <1>2. HookTypeOK /\ \A e : InFlight(e) = {}
    BY DEF HookTypeOK, IdleHandler, InFlight, CreatingHandlers
  <1>3. SseTypeOK /\ WatchTypeOK
    BY DEF SseTypeOK, WatchTypeOK
  <1>4. PollTypeOK
    BY DEF PollTypeOK, Events
  <1>5. HookBooks
    BY <1>2, FS_EmptySet DEF HookBooks, One
  <1>6. SseBooks
    BY DEF SseBooks, One
  <1>7. WatchBooks
    BY DEF WatchBooks, NoChangeIsLost, One
  <1>8. PollBooks
    BY DEF PollBooks, OldNewsWasNews, One
  <1> QED BY <1>1, <1>2, <1>3, <1>4, <1>5, <1>6, <1>7, <1>8 DEF IInv, TypeOK, WatchBooks

LEMMA StepIInv == IInv /\ [Next]_vars => IInv'
  <1> SUFFICES ASSUME IInv, [Next]_vars
               PROVE  IInv'
    OBVIOUS
  <1> USE DEF IInv, TypeOK
  <1>1. CASE Hook
    <2>1. HookInv'
      BY <1>1, HookStep DEF Hook, HookInv
    <2>2. UNCHANGED <<source, sseVars, watchVars, pollVars>> /\ source = "hook"
      BY <1>1 DEF Hook
    <2> QED BY <2>1, <2>2 DEF HookInv, sseVars, watchVars, pollVars, memory, SseTypeOK, WatchTypeOK,
                              PollTypeOK, NoChangeIsLost
  <1>2. CASE Sse
    <2>1. SseInv'
      BY <1>2, SseStep DEF Sse, SseInv
    <2>2. UNCHANGED <<source, hookVars, watchVars, pollVars>> /\ source = "sse"
      BY <1>2 DEF Sse
    <2> QED BY <2>1, <2>2 DEF SseInv, hookVars, watchVars, pollVars, HookTypeOK, WatchTypeOK,
                              PollTypeOK, NoChangeIsLost
  <1>3. CASE Watch
    <2>1. WatchInv'
      BY <1>3, WatchStep DEF Watch, WatchInv
    <2>2. UNCHANGED <<source, hookVars, sseVars, pollVars>> /\ source = "watch"
      BY <1>3 DEF Watch
    <2> QED BY <2>1, <2>2 DEF WatchInv, hookVars, sseVars, pollVars, HookTypeOK, SseTypeOK,
                              PollTypeOK, WatchBooks
  <1>4. CASE Polling
    <2>1. PollInv'
      BY <1>4, PollStep DEF Polling, PollInv
    <2>2. UNCHANGED <<source, hookVars, sseVars, watchVars>> /\ source = "poll"
      BY <1>4 DEF Polling
    <2> QED BY <2>1, <2>2 DEF PollInv, hookVars, sseVars, watchVars, HookTypeOK, SseTypeOK,
                              WatchTypeOK, NoChangeIsLost
  <1>5. CASE UNCHANGED vars
    <2> USE <1>5 DEF vars, requestVars, hookVars, sseVars, watchVars, pollVars
    <2>1. RequestsTypeOK' /\ HookTypeOK' /\ SseTypeOK' /\ WatchTypeOK' /\ PollTypeOK'
      BY DEF RequestsTypeOK, HookTypeOK, SseTypeOK, WatchTypeOK, PollTypeOK
    <2>2. HookBooks' = HookBooks
      BY DEF HookBooks, HookKnows, Creating, CreatingHandlers, InFlight
    <2>3. SseBooks' = SseBooks
      BY DEF SseBooks, SseKnows, Handled
    <2>4. WatchBooks' = WatchBooks /\ NoChangeIsLost' = NoChangeIsLost
      BY DEF WatchBooks, NoChangeIsLost
    <2>5. PollBooks' = PollBooks
      BY DEF PollBooks, OldNewsWasNews, MayBeMade
    <2> QED BY <2>1, <2>2, <2>3, <2>4, <2>5
  <1> QED BY <1>1, <1>2, <1>3, <1>4, <1>5 DEF Next

LEMMA IInvAlways == Spec => []IInv
  BY InitIInv, StepIInv, PTL DEF Spec

LEMMA OnePerBooks == IInv => OncePerEvent
  <1> SUFFICES ASSUME IInv, NEW e \in Events
               PROVE  made[e] <= IF source = "watch" THEN changes[e] ELSE 1 + lapses
    BY DEF OncePerEvent
  <1> USE DEF IInv, TypeOK
  <1>1. made[e] \in Nat /\ lapses \in Nat
    BY DEF RequestsTypeOK
  <1>2. CASE source = "hook"
    <2>1. made[e] + Cardinality(InFlight(e)) + One(e \notin hookSeen) <= 1 + lapses
      BY <1>2 DEF HookBooks
    <2> QED BY <1>1, <1>2, <2>1, InFlightFinite DEF One
  <1>3. CASE source = "sse"
    BY <1>1, <1>3 DEF SseBooks, One
  <1>4. CASE source = "watch"
    BY <1>1, <1>4 DEF WatchBooks, WatchTypeOK, One
  <1>5. CASE source = "poll"
    BY <1>1, <1>5 DEF PollBooks, One
  <1> QED BY <1>2, <1>3, <1>4, <1>5

\* However often an event is delivered, replayed or polled, by however many handlers at once.
THEOREM OneSessionPerEvent == Spec => []OncePerEvent
  BY IInvAlways, OnePerBooks, PTL

\* A sender that was told its delivery arrived can rely on a request for it.
THEOREM AckedAreMade == Spec => []AckedIsMade
  <1>1. IInv => AckedIsMade
    BY DEF IInv, HookBooks, HookKnows, AckedIsMade
  <1> QED BY <1>1, IInvAlways, PTL

\* Streams may end, break and be resumed in any order.
THEOREM StreamsAccountedFor == Spec => []StreamAccountedFor
  <1>1. IInv => StreamAccountedFor
    BY DEF IInv, TypeOK, SseTypeOK, SseBooks, SseKnows, StreamAccountedFor
  <1> QED BY <1>1, IInvAlways, PTL

\* However often files change while others are being handled.
THEOREM NoChangesAreLost == Spec => []NoChangeIsLost
  <1>1. IInv => NoChangeIsLost
    BY DEF IInv
  <1> QED BY <1>1, IInvAlways, PTL

\* Whatever becomes of the state file.
THEOREM OldNewsHasBeenNews == Spec => []OldNewsWasNews
  <1>1. IInv => OldNewsWasNews
    BY NotOutputs DEF IInv, PollBooks, OldNewsWasNews
  <1> QED BY <1>1, IInvAlways, PTL
=============================================================================
