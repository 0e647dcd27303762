----------------------------- MODULE SseListener -----------------------------
(***************************************************************************)
(* One SSE subscription of phyl-listen: a task that connects to an event   *)
(* stream, handles its events one after the other, and connects again when *)
(* the stream ends or breaks.                                              *)
(*                                                                         *)
(* The server numbers its events 1, 2, ... in their id field.  Asked with  *)
(* a Last-Event-ID it sends what came after it, asked without it sends     *)
(* what comes from now on.                                                 *)
(***************************************************************************)
EXTENDS SessionRequests

VARIABLES
    emitted,    \* how many events the server has had
    conn,       \* "none", "open", or "creating" while an event is being handled
    cursor,     \* the next event the server sends on this connection
    lastEventId,\* last_event_id of run_sse_listener, 0 if None
    lastId,     \* last_id of connect_and_stream, 0 if None
    sseSeen,    \* the ids in the DedupCache
    limited,    \* history: events dropped by the rate limiter
    overlooked  \* history: events too large to take, or not asked for by a request without an id

sseVars == <<emitted, conn, cursor, lastEventId, lastId, sseSeen, limited, overlooked>>
memory == <<lastEventId, sseSeen, limited, overlooked>>

Handled == cursor - 1

SseTypeOK ==
    /\ emitted \in 0..MaxEvents
    /\ conn \in {"none", "open", "creating"}
    /\ cursor \in 1..(emitted + 1)
    /\ lastEventId \in 0..emitted /\ lastId \in 0..emitted
    /\ sseSeen \subseteq Events
    /\ limited \subseteq Events /\ overlooked \subseteq Events

SseInit ==
    /\ emitted = 0
    /\ conn = "none"
    /\ cursor = 1 /\ lastEventId = 0 /\ lastId = 0
    /\ sseSeen = {} /\ limited = {} /\ overlooked = {}

SseGoes(from, to) == conn = from /\ conn' = to

Emits ==
    /\ emitted < MaxEvents
    /\ emitted' = emitted + 1
    /\ UNCHANGED <<requestVars, conn, cursor, lastId, memory>>

\* Whatever was handled on an earlier connection, ask for what comes from now on.
MutantConnectsAfresh ==
    /\ SseGoes("none", "open")
    /\ lastId' = 0
    /\ cursor' = emitted + 1
    /\ overlooked' = IF lastEventId = 0 THEN overlooked \cup (cursor..emitted) ELSE overlooked
    /\ UNCHANGED <<requestVars, emitted, lastEventId, sseSeen, limited>>

SseConnects ==
    /\ SseGoes("none", "open")
    /\ lastId' = 0
    /\ IF lastEventId = 0
       THEN cursor' = emitted + 1 /\ overlooked' = overlooked \cup (cursor..emitted)
       ELSE cursor' = lastEventId + 1 /\ UNCHANGED overlooked
    /\ UNCHANGED <<requestVars, emitted, lastEventId, sseSeen, limited>>

\* The next event: an id is remembered before its event is handled, and kept in the
\* cache before the rate limiter is asked.
SseTakes ==
    /\ conn = "open"
    /\ cursor <= emitted
    /\ cursor' = cursor + 1
    /\ lastId' = cursor
    /\ sseSeen' = sseSeen \cup {cursor}
    /\ \/ cursor \in sseSeen /\ UNCHANGED <<conn, limited, window>>
       \/ cursor \notin sseSeen /\ Limited /\ limited' = limited \cup {cursor} /\ UNCHANGED conn
       \/ cursor \notin sseSeen /\ Passes /\ conn' = "creating" /\ UNCHANGED limited
    /\ UNCHANGED <<made, givenUp, lapses, emitted, lastEventId, overlooked>>

\* An event with a line of more than 1 MB: the buffer is reset and the event dropped,
\* with its id.
SseOverflows ==
    /\ conn = "open"
    /\ cursor <= emitted
    /\ cursor' = cursor + 1
    /\ overlooked' = overlooked \cup {cursor}
    /\ UNCHANGED <<requestVars, emitted, conn, lastEventId, lastId, sseSeen, limited>>

SseCreates ==
    /\ SseGoes("creating", "open")
    /\ Created(Handled) \/ NotCreated(Handled)
    /\ UNCHANGED <<window, emitted, cursor, lastId, memory>>

\* The server closes the stream: Ok(last_id), which is None if no event came.
SseEnds ==
    /\ SseGoes("open", "none")
    /\ lastEventId' = lastId
    /\ UNCHANGED <<requestVars, emitted, cursor, lastId, sseSeen, limited, overlooked>>

\* The stream breaks, is silent for five minutes or cannot be had at all: Err, and
\* the ids of this connection are forgotten.
SseBreaks ==
    /\ SseGoes("open", "none")
    /\ UNCHANGED <<requestVars, emitted, cursor, lastId, memory>>

SseForgets(e) ==
    /\ Lapse
    /\ e \in sseSeen
    /\ sseSeen' = sseSeen \ {e}
    /\ UNCHANGED <<made, givenUp, window, emitted, conn, cursor, lastEventId, lastId,
                   limited, overlooked>>

SseRestarts ==
    /\ Lapse
    /\ conn' = "none"
    /\ CutOff([c \in {conn} \cap {"creating"} |-> Handled])
    /\ lastEventId' = 0 /\ lastId' = 0
    /\ sseSeen' = {}
    /\ window' = 0
    /\ UNCHANGED <<emitted, cursor, limited, overlooked>>

SseNext ==
    \/ Emits \/ SseConnects \/ SseTakes \/ SseOverflows \/ SseCreates
    \/ SseEnds \/ SseBreaks
    \/ \E e \in Events : SseForgets(e)
    \/ SseRestarts
    \/ WindowSlides /\ UNCHANGED sseVars

\* No event is passed over unnoticed: behind the cursor each one has its session or is
\* being made into one, was given up, was over the rate limit or the size limit, or came
\* while the subscription had no id to resume from.
StreamAccountedFor ==
    \A e \in 1..(cursor - 1) :
        \/ made[e] > 0
        \/ conn = "creating" /\ e = Handled
        \/ e \in givenUp \cup limited \cup overlooked
=============================================================================
