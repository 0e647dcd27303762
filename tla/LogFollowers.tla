----------------------------- MODULE LogFollowers -----------------------------
(***************************************************************************)
(* How a human follows a session: `phyl session` and `phyl log` read its   *)
(* log.jsonl themselves and ask the daemon whether it is over; `phyl watch`*)
(* and the Signal bridge read the daemon's /feed, which does the same for  *)
(* all sessions and passes on the entries that end one.                    *)
(*                                                                         *)
(* Nobody locks the log.  Each follower keeps an offset into it, and takes *)
(* the size of the file in one step and the entries in another.  One       *)
(* session and one follower: offsets are kept for each session and each    *)
(* connection apart.                                                       *)
(***************************************************************************)
EXTENDS Naturals, SequencesExt, Selections

CONSTANTS
    MaxEntries,     \* bound: log entries before the last
    MaxCrashes      \* bound: crashes of the daemon

ASSUME FollowerBoundsNat == {MaxEntries, MaxCrashes} \subseteq Nat

VARIABLES
    log,        \* log.jsonl, as entry types
    runner,     \* "running", "gone", or "replaced": another process has its pid by now
    daemon,     \* "up" or "down"
    status,     \* what its table says: "running", "ended" or "absent"
    crashes,
    follower,   \* the program: "session", "log", "watch" or "bridge"
    followPc,   \* its point of control; "returned" when it is through, "refused" if it fails
    reader,     \* of /feed: "idle", or "read" between the two steps
    offset,     \* position up to which entries have been read
    size,       \* the size of the file when it was last asked for
    stream,     \* entries of /feed that the follower has not taken yet, as positions
    seen,       \* the positions the human was shown, or could not be sent, in this order
    connections \* history: how often it connected

logVars == <<log, runner>>
tableVars == <<daemon, status, crashes>>
followVars == <<logVars, tableVars, follower, followPc, reader, offset, size, stream, seen,
                connections>>

Tails == follower \in {"session", "log"}

\* A tail starts with a session that was just created, or with one that runs; a feed with any.
FollowInit ==
    /\ log = <<>> /\ runner = "running"
    /\ daemon = "up" /\ status = "running" /\ crashes = 0
    /\ follower \in {"session", "log", "watch", "bridge"}
    /\ followPc = IF follower = "session" THEN "poll" ELSE "connect"
    /\ reader = "idle"
    /\ offset = 0 /\ size = 0
    /\ stream = <<>> /\ seen = <<>>
    /\ connections = IF follower = "session" THEN 1 ELSE 0

\* The operators named Mutant... are plausible bugs, each in the form of the
\* definition that follows it; no specification uses them.

Ending(p) == log[p] \in {"error", "done"}
Endings == {p \in DOMAIN log : Ending(p)}

FollowGoes(a, b) == followPc = a /\ followPc' = b

-----------------------------------------------------------------------------
(* The session and the daemon, as their own modules have them. *)

\* write_log: entries, the error of a timeout, and the entry that closes the log.
Logs ==
    /\ runner = "running"
    /\ \E type \in {"entry", "error", "done"} :
          /\ type = "entry" => Len(log) < MaxEntries
          /\ type # "done" => \A p \in DOMAIN log : ~Ending(p)
          /\ type = "done" => "done" \notin Range(log)
          /\ log' = Append(log, type)
    /\ UNCHANGED <<runner, tableVars, follower, followPc, reader, offset, size, stream, seen,
                   connections>>

\* With or without its last entries.
RunnerEnds ==
    /\ runner = "running"
    /\ runner' = "gone"
    /\ UNCHANGED <<log, tableVars, follower, followPc, reader, offset, size, stream, seen,
                   connections>>

\* With the runner the daemon that started it is gone: its pid is free for another process,
\* and again when that one ends.
PidRecycled ==
    /\ runner # "running" /\ crashes > 0
    /\ runner' = IF runner = "gone" THEN "replaced" ELSE "gone"
    /\ UNCHANGED <<log, tableVars, follower, followPc, reader, offset, size, stream, seen,
                   connections>>

\* The daemon waits for its children; of a runner that it found again it asks only whether
\* there is a process with its pid.
DaemonNotices ==
    /\ daemon = "up" /\ status = "running" /\ runner = "gone"
    /\ status' = "ended"
    /\ UNCHANGED <<logVars, daemon, crashes, follower, followPc, reader, offset, size, stream,
                   seen, connections>>

\* Streams end with it, and what was on its way is lost.
DaemonCrashes ==
    /\ daemon = "up" /\ crashes < MaxCrashes
    /\ daemon' = "down" /\ status' = "absent" /\ crashes' = crashes + 1
    /\ stream' = <<>> /\ reader' = "idle"
    /\ followPc' = IF followPc # "listen" THEN followPc
                   ELSE IF follower = "watch" THEN "returned" ELSE "connect"
    /\ UNCHANGED <<logVars, follower, offset, size, seen, connections>>

\* A session is found again by its pid file, which a runner writes some time after it was
\* started and removes when it ends, unless it is killed.
DaemonStarts ==
    /\ daemon = "down"
    /\ daemon' = "up"
    /\ status' \in {"absent", IF runner = "gone" THEN "ended" ELSE "running"}
    /\ UNCHANGED <<logVars, crashes, follower, followPc, reader, offset, size, stream, seen,
                   connections>>

-----------------------------------------------------------------------------
(* `phyl session` and `phyl log`. *)

Unread == [i \in 1..(Len(log) - offset) |-> offset + i]

\* `phyl log` asks first; a session that is over is dumped in one go.
LogCommand ==
    /\ follower = "log" /\ followPc = "connect"
    /\ connections' = 1
    /\ CASE daemon = "down" \/ status = "absent" -> followPc' = "refused" /\ UNCHANGED seen
         [] status = "ended" -> followPc' = "returned" /\ seen' = Unread
         [] OTHER -> followPc' = "poll" /\ UNCHANGED seen
    /\ UNCHANGED <<logVars, tableVars, follower, reader, offset, size, stream>>

TailSize ==
    /\ Tails /\ followPc = "poll"
    /\ size' = Len(log)
    /\ followPc' = IF size' > offset THEN "read" ELSE "ask"
    /\ UNCHANGED <<logVars, tableVars, follower, reader, offset, stream, seen, connections>>

\* It is read to its end, which may be beyond `size`; the offset is set to `size`.  `phyl log`
\* stops at the first entry that ends a session, `phyl session` reads the rest of the batch.
TailRead ==
    /\ followPc = "read"
    /\ LET ends == {p \in Endings : p > offset}
           shown == IF follower = "log" /\ ends # {}
                    THEN Select(Unread, {p \in DOMAIN log : \A e \in ends : p <= e})
                    ELSE Unread
       IN  /\ seen' = seen \o shown
           /\ followPc' = IF ends # {} THEN "returned" ELSE "ask"
           /\ offset' = IF follower = "log" /\ ends # {} THEN offset ELSE size
    /\ UNCHANGED <<logVars, tableVars, follower, reader, size, stream, connections>>

\* Only a session that is done counts as over.
MutantOver == daemon = "up" /\ status = "ended" /\ "done" \in Range(log)

\* No answer, or that there is no such session, counts as "still running".
Over == daemon = "up" /\ status = "ended"

TailAsks ==
    /\ followPc = "ask"
    /\ followPc' = IF Over THEN "drain" ELSE "poll"
    /\ UNCHANGED <<logVars, tableVars, follower, reader, offset, size, stream, seen,
                   connections>>

TailDrains ==
    /\ FollowGoes("drain", "returned")
    /\ seen' = seen \o Unread
    /\ UNCHANGED <<logVars, tableVars, follower, reader, offset, size, stream, connections>>

-----------------------------------------------------------------------------
(* handle_feed in the daemon. *)

FeedSize ==
    /\ followPc = "listen" /\ reader = "idle"
    /\ status # "absent" /\ offset < Len(log)
    /\ size' = Len(log)
    /\ reader' = "read"
    /\ UNCHANGED <<logVars, tableVars, follower, followPc, offset, stream, seen, connections>>

FeedRead ==
    /\ reader = "read"
    /\ reader' = "idle"
    /\ stream' = stream \o Select(Unread, Endings)
    /\ offset' = size
    /\ UNCHANGED <<logVars, tableVars, follower, followPc, size, seen, connections>>

-----------------------------------------------------------------------------
(* `phyl watch` and the bridge's feed_watcher. *)

\* The daemon goes on where it was.
MutantFeedConnects ==
    /\ ~Tails /\ daemon = "up" /\ FollowGoes("connect", "listen")
    /\ connections' = connections + 1
    /\ UNCHANGED <<logVars, tableVars, follower, reader, offset, size, stream, seen>>

\* The daemon reads every log of its table from the start for each connection.
FeedConnects ==
    /\ ~Tails /\ daemon = "up" /\ FollowGoes("connect", "listen")
    /\ connections' = connections + 1
    /\ offset' = 0
    /\ UNCHANGED <<logVars, tableVars, follower, reader, size, stream, seen>>

\* The bridge tries again after five seconds.
FeedRefused ==
    /\ follower = "watch" /\ daemon = "down" /\ FollowGoes("connect", "refused")
    /\ UNCHANGED <<logVars, tableVars, follower, reader, offset, size, stream, seen,
                   connections>>

\* One message at a time.  That signal-cli could not send it is noted on stderr.
FeedTakes ==
    /\ followPc = "listen" /\ stream # <<>>
    /\ seen' = Append(seen, Head(stream))
    /\ stream' = Tail(stream)
    /\ UNCHANGED <<logVars, tableVars, follower, followPc, reader, offset, size, connections>>

Following ==
    \/ LogCommand \/ TailSize \/ TailRead \/ TailAsks \/ TailDrains
    \/ FeedSize \/ FeedRead \/ FeedConnects \/ FeedRefused \/ FeedTakes

FollowNext ==
    \/ Following \/ Logs \/ RunnerEnds \/ PidRecycled
    \/ DaemonNotices \/ DaemonCrashes \/ DaemonStarts

-----------------------------------------------------------------------------
(* Properties. *)

Times(p) == Occurrences(seen, p) + Occurrences(stream, p)

\* Whatever the follower has read past, the human is shown, once or twice for each
\* connection: an entry written between the two steps of a round is read in the next one
\* as well.  A tail that returns has shown everything up to the entry that ends the session,
\* or, if there is none, everything that was ever written.
FollowersMissNothing ==
    /\ Tails \/ followPc = "listen" =>
          \A p \in 1..offset : Tails \/ Ending(p) => Times(p) > 0
    /\ \A p \in DOMAIN log : Times(p) <= 2 * connections
    /\ Tails /\ followPc = "returned" =>
          \E n \in 0..Len(log) :
              /\ Range(seen) = 1..n
              /\ n = Len(log) \/ Ending(n)

\* The table is at its end: it knows that the session is over.  Not so with a session that
\* goes on, a daemon that is down or was restarted and does not know the session again, and
\* one that takes another process for the runner: there a tail polls on for ever, unless
\* the log tells it, and a feed of a daemon without the session is silent.
Knows == daemon = "up" /\ status # "absent"

HeardAll == \A p \in Endings : p \in Range(seen)

\* A tail returns once the log has an entry that ends the session, whatever the daemon does,
\* and without one if from some time on the daemon knows the session, the runner is gone and
\* no other process passes for it.  A follower of a feed has in the end heard of every ending
\* there is, if from some time on the daemon knows the session.
FollowersCatchUp ==
    /\ (Tails /\ Endings # {}) ~> followPc \in {"returned", "refused"}
    /\ <>[](Knows /\ runner # "running" /\ ~(status = "running" /\ runner = "replaced"))
            => <>[](Tails => followPc \in {"returned", "refused"})
    /\ <>[]Knows
            => <>[](~Tails => HeardAll \/ followPc \in {"returned", "refused"})
=============================================================================
