---------------------------- MODULE SessionRunner ----------------------------
(***************************************************************************)
(* One phyl-run process from its start to its exit: the agentic loop with  *)
(* its history and its log.jsonl, the FIFO that the daemon and shells      *)
(* write events to while the loop runs, and the phyl-tool-session server   *)
(* at the other end of a pipe.                                             *)
(*                                                                         *)
(* A message is a tuple: <<"user", e>> is the e-th event (0 the prompt),   *)
(* <<"assistant", t, calls>> the t-th answer of the model with the names   *)
(* of the tools it calls, <<"tool", t, i>> the result of its i-th call.    *)
(* The log holds the same tuples.  An event is a line of the FIFO.         *)
(***************************************************************************)
EXTENDS Integers, SequencesExt, Selections

CONSTANTS
    Tools,          \* the names a model may call
    MaxCalls,       \* bound: calls in one answer
    MaxTurns,       \* bound: answers of the model
    MaxEvents,      \* bound: events written to the FIFO
    Lines,          \* the kinds of lines that are written to it
    Faults,         \* may the model, a server tool or an I/O operation fail?
    Kills           \* may the process be killed?

\* "read" is a one-shot tool, "nosuch" no tool at all; "plan" is served by
\* another server tool than the "ask" and the "done" of phyl-tool-session.
ServerTools == {"plan", "ask", "done"}
SessionTools == {"ask", "done"}

\* A text, or JSON with a content; other JSON, blanks, or what was read without its line end;
\* no UTF-8.  "torn" is a line whose front was lost and the rest is a text.
Written == {"text", "void", "bad"}

ASSUME LinesKnown == Lines \subseteq Written
ASSUME ToolsKnown == Tools \subseteq {"read", "nosuch"} \cup ServerTools
ASSUME BoundsNat == {MaxCalls, MaxTurns, MaxEvents} \subseteq Nat
ASSUME FaultsBoolean == {Faults, Kills} \subseteq BOOLEAN

VARIABLES
    pc,         \* where run_session and main are
    history,    \* the messages the model is shown
    log,        \* log.jsonl
    sent,       \* every event the FIFO has taken, by its kind
    fifo,       \* those not read yet, by number
    results,    \* the calls of the current turn answered so far, by position
    wire,       \* between the runner and a server tool: the call under way
    tool,       \* phyl-tool-session
    signalled,  \* a result carried end_session
    expired,    \* session_timeout has elapsed
    pidFile,    \* the session directory holds a pid file
    code        \* the exit code of main

vars == <<pc, history, log, sent, fifo, results, wire, tool, signalled, expired,
          pidFile, code>>
talk == <<history, log>>
channels == <<sent, fifo, wire, tool>>
marks == <<signalled, expired, pidFile, code>>

System == <<"system">>
Prompt == <<"user", 0>>
Summary == <<"summary">>
Error == <<"error">>
Done == <<"done">>

Quiet == <<"nothing">>                  \* nothing on the wire
Request(i) == <<"request", i>>
Response(i, end) == <<"response", i, end>>

Loop == {"loop", "dispatch", "calling", "awaiting", "quiet", "turned"}
Finish == {"finalizing", "reflected", "closing", "logged"}
Over == {"failed", "cleaned", "exited", "killed"}

\* A turn's calls are in the last message until its results are appended.
Turn == Last(history)[2]
Calls == Last(history)[3]
AnswersSoFar == Cardinality({i \in DOMAIN log : log[i][1] = "assistant"})
Batches == UNION {[1..n -> Tools] : n \in 0..MaxCalls}

\* The positions of the calls of S, in the model's order.
Positions(S) == Ordered({i \in DOMAIN Calls : Calls[i] \in S})
Unsent == {i \in DOMAIN Calls : Calls[i] \in ServerTools} \ Range(results)

IsText(e) == sent[e] \in {"text", "torn"}
Texts(events) == Select(events, {e \in DOMAIN sent : IsText(e)})
UserMessages(events) == [i \in DOMAIN events |-> <<"user", events[i]>>]

Messages ==
    {System, Prompt, Summary}
        \cup ({"user"} \X (1..MaxEvents))
        \cup ({"assistant"} \X (1..MaxTurns) \X Batches)
        \cup ({"tool"} \X (1..MaxTurns) \X (1..MaxCalls))

TypeOK ==
    /\ pc \in {"booting", "setup"} \cup Loop \cup Finish \cup Over
    /\ history \in Seq(Messages)
    /\ log \in Seq(Messages \cup {Error, Done})
    /\ sent \in BoundedSeq(Written \cup {"torn"}, MaxEvents)
    /\ fifo \in Seq(DOMAIN sent)
    /\ results \in Seq(1..MaxCalls)
    /\ wire \in {Quiet} \cup ({"request"} \X (1..MaxCalls))
                        \cup ({"response"} \X (1..MaxCalls) \X BOOLEAN)
    /\ tool \in {"none", "serving", "asking", "exited"}
    /\ signalled \in BOOLEAN /\ expired \in BOOLEAN /\ pidFile \in BOOLEAN
    /\ code \in {"none", "ok", "err"}

Init ==
    /\ pc = "booting"
    /\ history = <<>> /\ log = <<>>
    /\ sent = <<>> /\ fifo = <<>>
    /\ results = <<>> /\ wire = Quiet
    /\ tool = "none"
    /\ signalled = FALSE /\ expired = FALSE
    /\ pidFile = FALSE
    /\ code = "none"

\* The operators named Mutant... are plausible bugs, each in the form of the
\* definition that follows it; no specification uses them.

\* The runner has the FIFO open for reading; a writer finds no reader otherwise.
FifoOpen == pc \in Loop \cup {"finalizing", "reflected"}

\* stdin is kept until the runner has exited.
MutantStdinKept == pc \in {"exited", "killed"}

\* The write end of the tool's stdin is closed at the start of finalization, and
\* with run_session's return.
StdinClosed == pc \in (Finish \ {"finalizing"}) \cup Over

Goes(from, to) == pc = from /\ pc' = to

\* Append the messages to the history and, one by one, to the log.
Says(ms) == history' = history \o ms /\ log' = log \o ms

---------------------------------------------------------------------------
(* Start. *)

WritePid ==
    /\ Goes("booting", "setup")
    /\ pidFile' \in BOOLEAN              \* a failure is only reported
    /\ UNCHANGED <<talk, channels, results, signalled, expired, code>>

\* One process for each server tool; one that cannot be started ends the session.
StartServerTools == tool = "none" /\ tool' = "serving"

\* Config, tools, FIFO, log, in this order, and the first two log entries.
Setup ==
    /\ Goes("setup", "loop")
    /\ StartServerTools
    /\ Says(<<System, Prompt>>)
    /\ UNCHANGED <<sent, fifo, wire, results, marks>>

---------------------------------------------------------------------------
(* The loop. *)

TimePasses ==
    /\ pc \in Loop
    /\ expired' = TRUE
    /\ UNCHANGED <<pc, talk, channels, results, signalled, pidFile, code>>

\* The deadline is looked at here and nowhere else.
TimesOut ==
    /\ Goes("loop", "finalizing")
    /\ expired
    /\ log' = Append(log, Error)
    /\ UNCHANGED <<history, channels, results, marks>>

\* An error text that is not retried any more is an answer like any other.
ModelAnswers ==
    /\ pc = "loop" /\ ~expired
    /\ AnswersSoFar < MaxTurns
    /\ \E calls \in Batches :
          /\ Says(<<<<"assistant", AnswersSoFar + 1, calls>>>>)
          /\ pc' = IF calls = <<>> THEN "quiet" ELSE "dispatch"
    /\ UNCHANGED <<channels, results, marks>>

\* No process, no exit status 0, no JSON or no answer in 300 s, twice in a row.
ModelFails ==
    /\ Faults
    /\ Goes("loop", "failed")
    /\ ~expired
    /\ UNCHANGED <<talk, channels, results, marks>>

\* A one-shot tool cannot be started, exits with an error, prints no JSON or is killed
\* after 120 s: in each case there is an error in place of its answer.
OneshotResults == Positions({"read"})

\* Unknown tools are answered at once, one-shot tools run in parallel and are
\* joined in order.
DispatchOneshots ==
    /\ Goes("dispatch", "calling")
    /\ results' = Positions({"nosuch"}) \o OneshotResults
    /\ UNCHANGED <<talk, channels, marks>>

\* One call after the other.  A tool that has exited has left a broken pipe, and
\* that error ends the session.
CallServer ==
    /\ pc = "calling" /\ Unsent # {}
    /\ IF Calls[Min(Unsent)] \in SessionTools /\ tool = "exited"
       THEN pc' = "failed" /\ UNCHANGED wire
       ELSE pc' = "awaiting" /\ wire' = Request(Min(Unsent))
    /\ UNCHANGED <<talk, sent, fifo, tool, results, marks>>

\* A blocking read: no deadline applies.
ReadResponse ==
    /\ Goes("awaiting", "calling")
    /\ wire[1] = "response"
    /\ results' = Append(results, wire[2])
    /\ signalled' = (signalled \/ wire[3])
    /\ wire' = Quiet
    /\ UNCHANGED <<talk, sent, fifo, tool, expired, pidFile, code>>

MutantAppendUnsorted ==
    /\ pc = "calling" /\ Unsent = {}
    /\ Says([i \in DOMAIN results |-> <<"tool", Turn, results[i]>>])
    /\ pc' = IF signalled THEN "finalizing" ELSE "turned"
    /\ results' = <<>>
    /\ UNCHANGED <<channels, marks>>

\* The results, sorted back into the order of the calls.
AppendResults ==
    /\ pc = "calling" /\ Unsent = {}
    /\ Says([i \in DOMAIN results |-> <<"tool", Turn, Sorted(results)[i]>>])
    /\ pc' = IF signalled THEN "finalizing" ELSE "turned"
    /\ results' = <<>>
    /\ UNCHANGED <<channels, marks>>

\* lines() goes up to the first line that is no UTF-8, or to the end of what is there.
Unreadable == {k \in DOMAIN fifo : sent[fifo[k]] = "bad"}
Readable == IF Unreadable = {} THEN fifo ELSE SubSeq(fifo, 1, Min(Unreadable) - 1)

\* What may be left of a line, all of it or less, when its front was read and lost.
Leftovers(kind) == {kind, "torn", "void", "bad"}

\* The error of a line that is no UTF-8 ends the reading.  Lost with it is what BufReader
\* holds behind it, which may end within a line; what it did not take stays in the FIFO.
DrainFifo ==
    \/ Unreadable = {} /\ fifo' = <<>> /\ UNCHANGED sent
    \/ /\ Unreadable # {}
       /\ \E last \in Min(Unreadable)..Len(fifo) :
             fifo' = SubSeq(fifo, last + 1, Len(fifo))
       /\ \/ fifo' = <<>> /\ UNCHANGED sent
          \/ fifo' # <<>> /\ \E rest \in Leftovers(sent[Head(fifo')]) :
                                sent' = [sent EXCEPT ![Head(fifo')] = rest]

\* Of several lines only the last one is kept.
MutantReadsLastLine ==
    /\ pc = "quiet" /\ fifo # <<>>
    /\ IF Texts(Readable) = <<>>
       THEN pc' = "finalizing" /\ UNCHANGED talk
       ELSE pc' = "turned" /\ Says(UserMessages(<<Last(Texts(Readable))>>))
    /\ DrainFifo
    /\ UNCHANGED <<wire, tool, results, marks>>

MutantEventsNotLogged ==
    /\ pc = "quiet" /\ fifo # <<>>
    /\ IF Texts(Readable) = <<>>
       THEN pc' = "finalizing" /\ UNCHANGED talk
       ELSE /\ pc' = "turned"
            /\ history' = history \o UserMessages(Texts(Readable))
            /\ UNCHANGED log
    /\ DrainFifo
    /\ UNCHANGED <<wire, tool, results, marks>>

\* The model called no tool, and poll_fifo finds something within two seconds; what has
\* no text for the model is dropped, and the beginning of a line if it is the last.
QuietReads ==
    /\ pc = "quiet" /\ fifo # <<>>
    /\ IF Texts(Readable) = <<>>
       THEN pc' = "finalizing" /\ UNCHANGED talk
       ELSE pc' = "turned" /\ Says(UserMessages(Texts(Readable)))
    /\ DrainFifo
    /\ UNCHANGED <<wire, tool, results, marks>>

\* No event in two seconds: implicit done.
QuietEnds ==
    /\ Goes("quiet", "finalizing")
    /\ fifo = <<>>
    /\ UNCHANGED <<talk, channels, results, marks>>

\* The context is not full, or too short to be compressed.
NextTurn ==
    /\ Goes("turned", "loop")
    /\ UNCHANGED <<talk, channels, results, marks>>

\* The oldest two thirds, the system prompt apart, become one summary.
Compress ==
    /\ Goes("turned", "loop")
    /\ LET rest == Tail(history)
           count == (Len(rest) * 2) \div 3
       IN  /\ Len(rest) > 3
           /\ history' = <<System, Summary>> \o SubSeq(rest, count + 1, Len(rest))
    /\ UNCHANGED <<log, channels, results, marks>>

---------------------------------------------------------------------------
(* The end. *)

\* stdin closed, SOUL.md reflected on, the subconscious pass made.
Finalize ==
    /\ Goes("finalizing", "reflected")
    /\ UNCHANGED <<talk, channels, results, marks>>

LogDone ==
    /\ Goes("reflected", "closing")
    /\ log' = Append(log, Done)
    /\ UNCHANGED <<history, channels, results, marks>>

\* child.wait() on the server tools, without a deadline.
ToolsExited ==
    /\ Goes("closing", "logged")
    /\ tool = "exited"
    /\ UNCHANGED <<talk, channels, results, marks>>

\* Any other `?` of run_session: the model failed to summarize, a server tool died,
\* a file, the FIFO or a lock could not be opened or written.
Fails ==
    /\ Faults
    /\ pc \in {"setup", "loop", "calling", "awaiting", "quiet", "turned",
               "finalizing", "reflected"}
    /\ pc' = "failed"
    /\ UNCHANGED <<talk, channels, results, marks>>

MutantAlwaysOk ==
    /\ pc \in {"logged", "failed"}
    /\ pc' = "cleaned"
    /\ code' = "ok"
    /\ pidFile' = FALSE
    /\ UNCHANGED <<talk, channels, results, signalled, expired>>

Cleanup ==
    /\ pc \in {"logged", "failed"}
    /\ pc' = "cleaned"
    /\ code' = IF pc = "logged" THEN "ok" ELSE "err"
    /\ pidFile' = FALSE
    /\ UNCHANGED <<talk, channels, results, signalled, expired>>

Exit ==
    /\ Goes("cleaned", "exited")
    /\ UNCHANGED <<talk, channels, results, marks>>

Killed ==
    /\ Kills
    /\ pc \notin {"exited", "killed"}
    /\ pc' = "killed"
    /\ UNCHANGED <<talk, channels, results, marks>>

---------------------------------------------------------------------------
(* The other ends of the channels. *)

\* phyl-tool-session takes the request.  "done" answers and exits; "ask_human"
\* reads stdin again while it holds the lock of stdin, and never returns.
ToolServes ==
    /\ pc = "awaiting" /\ wire[1] = "request" /\ tool = "serving"
    /\ \/ Calls[wire[2]] = "done" /\ wire' = Response(wire[2], TRUE) /\ tool' = "exited"
       \/ Calls[wire[2]] = "ask" /\ tool' = "asking" /\ UNCHANGED wire
    /\ UNCHANGED <<pc, talk, sent, fifo, results, marks>>

\* Another server tool answers; sleep_until of phyl-tool-self ends the session.
PlanAnswers ==
    /\ pc = "awaiting" /\ wire[1] = "request" /\ Calls[wire[2]] = "plan"
    /\ \E end \in BOOLEAN : wire' = Response(wire[2], end)
    /\ UNCHANGED <<pc, talk, sent, fifo, tool, results, marks>>

\* End of file on stdin.
ToolExits ==
    /\ tool = "serving" /\ StdinClosed
    /\ tool' = "exited"
    /\ UNCHANGED <<pc, talk, sent, fifo, wire, results, marks>>

\* One write of at most PIPE_BUF bytes, which is not interleaved with another.
WriteToFifo(kind) ==
    /\ FifoOpen
    /\ Len(sent) < MaxEvents
    /\ sent' = Append(sent, kind)
    /\ fifo' = Append(fifo, Len(sent) + 1)

\* An event from the daemon (202 ACCEPTED), which is a text, or any line from a shell.  What
\* a shell writes without a line end is one line with the write behind it, unless it was read
\* before.
Inject(kind) ==
    /\ WriteToFifo(kind)
    /\ UNCHANGED <<pc, talk, wire, tool, results, marks>>

---------------------------------------------------------------------------
\* Between two looks at the deadline, but for what is waited for: each adapter has 300 s
\* and each one-shot tool 120 s.
LoopStep ==
    \/ TimesOut \/ ModelAnswers \/ ModelFails \/ DispatchOneshots \/ CallServer
    \/ ReadResponse \/ AppendResults \/ QuietReads \/ QuietEnds \/ NextTurn \/ Compress

RunnerStep ==
    \/ WritePid \/ Setup \/ LoopStep
    \/ Finalize \/ LogDone \/ ToolsExited \/ Fails \/ Cleanup \/ Exit

ToolStep == ToolServes \/ ToolExits \/ PlanAnswers

Next ==
    \/ RunnerStep \/ ToolStep \/ TimePasses \/ Killed
    \/ \E kind \in Lines : Inject(kind)

Spec == Init /\ [][Next]_vars

\* Processes run, time passes.  Nobody need write an event, or kill anything.  No deadline
\* bounds the answer of a server tool, its exit once its stdin is closed, or what the
\* finalization waits for: locks, git and phyl-psyche-sub.  phyl-tool-session answers
\* "done" and exits of its own accord; nothing is promised of the others.
Fairness ==
    /\ WF_vars(LoopStep) /\ WF_vars(LogDone) /\ WF_vars(Cleanup) /\ WF_vars(Exit)
    /\ WF_vars(ToolServes) /\ WF_vars(ToolExits) /\ WF_vars(TimePasses)

FairSpec == Spec /\ Fairness

---------------------------------------------------------------------------
(* Properties. *)

\* Whenever the model is called, every call still in the history is followed by
\* its results, all of them and in the order of the calls, whichever tools they
\* went to.
AnsweredInOrder ==
    pc = "loop" =>
        \A i \in DOMAIN history :
            history[i][1] = "assistant" =>
                \A k \in DOMAIN history[i][3] :
                    /\ i + k \in DOMAIN history
                    /\ history[i + k] = <<"tool", history[i][2], k>>

\* log.jsonl is what the model saw: but for the system prompt and the summary, the
\* history is the tail of the log.  docs/sessions.md: "This log is the source of truth."
LogIsTranscript ==
    pc = "loop" =>
        LET first == IF history[2] = Summary THEN 3 ELSE 2
        IN  \E n \in 1..Len(log) :
                SubSeq(history, first, Len(history)) = SubSeq(log, n + 1, Len(log))

\* Where the log has what the session was told; the prompt is not an event.
Told == {i \in DOMAIN log : log[i][1] = "user" /\ log[i] # Prompt}

Heard(e) == \E i \in Told : log[i][2] = e

\* A line that is no UTF-8 took e with it: nothing from there on was heard up to e.
LostBehindBad(e) ==
    \E b \in 1..e : sent[b] = "bad" /\ \A x \in b..e : ~Heard(x)

\* The session hears texts in the order they were sent and none twice, and misses none that
\* was sent before one it has heard, but for those that were read together with a line
\* that is no UTF-8 and stood behind it.
EventsInOrder ==
    /\ \A i, j \in Told : i < j => log[i][2] < log[j][2]
    /\ \A i \in Told : IsText(log[i][2])
    /\ \A i \in Told : \A e \in 1..(log[i][2] - 1) :
          IsText(e) => Heard(e) \/ LostBehindBad(e)

\* Where a session is held up by what has no deadline: a human who was asked, another server
\* tool that does not answer or exit, and what the finalization waits for.
HeldUp ==
    \/ /\ pc = "awaiting" /\ wire[1] = "request"
       /\ tool = "asking" \/ Calls[wire[2]] = "plan"
    \/ pc = "finalizing"
    \/ pc = "closing" /\ tool = "exited"

\* However the loop goes, a session past its deadline ends, unless it is held up for ever.
SessionEnds == <>[]HeldUp \/ (expired ~> pc \in {"exited", "killed"})

Phase ==
    CASE pc = "booting" -> "booting"
      [] pc \in {"failed", "cleaned"} -> pc
      [] pc \in {"closing", "logged"} -> "logged"
      [] pc \in {"exited", "killed"} -> "zombie"
      [] OTHER -> "working"

Status ==
    CASE pc = "exited" -> code
      [] pc = "killed" -> "err"
      [] OTHER -> "none"

\* To the daemon the whole of this is a RunnerProcess.
Life == INSTANCE RunnerProcess WITH
    Sessions <- {"self"},
    PidReuse <- FALSE,
    proc <- [s \in {"self"} |-> Phase],
    exit <- [s \in {"self"} |-> Status],
    pidFile <- IF pidFile THEN {"self"} ELSE {},
    doneLog <- IF Done \in Range(log) THEN {"self"} ELSE {},
    recycled <- {}

LifeStep ==
    \/ Life!WritePid("self") \/ Life!LogDone("self") \/ Life!SessionFails("self")
    \/ Life!RemovePid("self") \/ Life!RunnerExits("self", TRUE)
    \/ Life!RunnerDies("self", TRUE)

\* A runner does nothing the daemon's model of it does not: the pid file, the
\* done entry and the exit status come in that module's order, on every path.
IsRunnerProcess == [][LifeStep]_(Life!procVars)

---------------------------------------------------------------------------
(* What the documentation says and the code does not do. *)

\* docs/phyl-tool-session.md: "If no answer arrives within the configured timeout
\* [...] the tool returns an error" -- the question ends one way or the other.
AskReturns == (tool = "asking") ~> (tool # "asking")
=============================================================================
