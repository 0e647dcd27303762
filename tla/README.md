# phylactery: formal models

TLA+ models of phylactery, checked with TLC, and theorems about them, checked with TLAPS.
phylactery runs an agent as a set of Unix programs: a daemon that keeps sessions, a runner
process for each session, tools and model adapters behind pipes, and programs that start
sessions when something happens outside. Paths below are relative to `src/`.

1. [The system](#1-the-system) - inventory
2. [The plan](#2-the-plan) - modules, runs, theorems, order, what is left
3. [The models and the code](#3-the-models-and-the-code)
4. [The runs](#4-the-runs) - what each shows, bounds, fairness
5. [The proofs](#5-the-proofs)
6. [Where the code and its documents differ](#6-where-the-code-and-its-documents-differ)
7. [What is not modelled](#7-what-is-not-modelled)

To check a run: `tlc -config <cfg> <module>.tla`; to check the proofs: `tlapm <module>_proofs.tla`.
The mapping from definitions to source lines, the mutants and the hazards are in `PROJECT.json`.

## 1. The system

Processes share a directory (`$PHYLACTERY_HOME`), a Unix socket (the daemon's), a git
repository, an SQLite file, pid files, FIFOs and `flock`s. There is no shared memory between
programs; inside one there are threads, tokio tasks and mutexes.

```
 phyl-sched  phyl-poll  phyl-listen  phyl-bridge-signal  phyl (CLI)
      \          \          |            |      ^         /
       POST /sessions, POST /sessions/:id/events|  GET /feed
        \________ \________ v ___________v______|_______/
                         phylactd
                  spawn, waitpid, pid file, log.jsonl, FIFO
                            v
                         phyl-run  --> model adapter (one process per request)
                          |   |   --> one-shot tools (files, bash, web)
                          |   +-----> server tools over pipes (session, self, psyche, mcp)
                          +---------> SOUL.md under .soul.lock and .git.lock
                          +---------> phyl-psyche-sub over psyche.db
```

| component | state | operations | how it interacts | what is hard | what makes it correct |
|---|---|---|---|---|---|
| **phylactd** (`crates/phylactd`) | in memory: the session table with status, child handle and summary; on disk: what runners leave | `POST /sessions`, `DELETE`, events, reads, feed; reaper task; recovery at start | spawns runners; reads pid files, exit codes, logs; writes FIFOs | count and insert are two critical sections; DELETE is two, half a second apart; the table is lost when it goes down; pids are reused | no live session is shown as ended; a status never contradicts the log; every end is noticed; the limit is kept, or how far it is not |
| **phyl-run, the loop** (`crates/phyl-run`) | history, `log.jsonl`, FIFO, tool pipes, pid file | load, model call, dispatch, read events, compress, finalize | adapters, tools, FIFO, the daemon by pid file, exit code and log | three channels read by one thread; blocking reads below one deadline; two dozen `?` | calls and results stay together; the log is the history; events arrive once and in order; the session ends |
| **phyl-run, finalization** | `SOUL.md`, its git history, two lock files | re-read, model call, write, `git add`, `git commit` | other sessions, `phyl-tool-files` | nested locks over a model call and two git processes; children inherit locks; the write is not atomic | nobody reflects on a stale text; no reflection is lost; git is used by one process at a time |
| **phyl-tool-session** | who waits for a human | `ask_human`, `done` | a pipe to the runner | blocks on the pipe that brings its next request | a question returns |
| **phyl-tool-files** | knowledge files, the git index | read, write, search, commit | the git lock | the index is shared | see finalization |
| **phyl-tool-self** | the schedule directory | spawn, `sleep_until`, list, cancel | files read by `phyl-sched` | many tools, one directory, no lock | an entry is fired once; the cap is kept, or how far it is not |
| **phyl-sched** | sessions it believes to be in flight | scan: prune, take slots, fire, remove | daemon, directory | session made first, file removed after; slots are forgotten when the daemon is away | an entry is not dropped, seldom fired twice, fired in the end |
| **phyl-listen** (webhooks, event streams, file watches) | dedup caches, rate windows, last event id, pending files | receive, limit, deduplicate, create | the outside, the daemon | concurrent handlers; ids kept before the work is done; resuming after a break; debouncing | an event becomes a session once, or someone is told |
| **phyl-poll** | one `.last` file per rule | run, compare, create, keep | a command, the daemon | session made first, file written after; files cut off | a change becomes a session once, unless its request fails |
| **phyl-bridge-signal** | the batch it has fetched, pending questions | forward the feed, forward messages | feed, signal-cli | messages are taken off the server before they are sessions; reconnects replay the feed | a message of the owner is one session, in order; every ending reaches him |
| **phyl-tool-psyche** | concerns, commitments, escalations, knowledge in SQLite | open, touch, resolve, abandon, commit, report, ... | sessions that overlap share the file | each handler reads in one statement and writes in another | decisions on stale rows are bounded |
| **phyl-psyche-sub** | the briefing | decay, flag, assemble, keep | runs as sessions end, reads what others write | passes overlap, are late or missing | a broken commitment is asked about; a low concern is flagged; a session's own concerns are spared |
| **phyl-tool-mcp** | MCP server processes, ids, routing | start, list, pass calls on, close | runner, MCP servers | answers, notifications, requests and junk on one pipe; servers that fail to start | an answer belongs to its call and its server |
| **adapters** | none between calls | convert a history, ask, extract calls | runner, a service or the claude CLI | calls written as text among tags; errors that come back as text | the calls made are the calls written; a request keeps calls and results together |
| **bash, web** | a shell, a browser and its directory | run, fetch | runner, the command and what it leaves behind | two timeouts over one command; pipes that fill and are held open | output is whole, or an error |
| **phyl session, log, watch** | an offset into a log, or a connection | tail, follow the feed | log.jsonl, daemon | size and content are read in two steps; a restarted daemon may not know the session | nothing is missed, every end is heard |
| **the rest of `phyl`** | none | one request, printed | daemon | - | - |

`phyl-core` holds the shared types and the parsing of times.

## 2. The plan

The order follows the damage a defect would do: first the daemon's table (every other part goes
through it), then the runner's two halves, then what starts sessions, then what sessions remember.

### Modules

| # | module | models | composed of | state |
|---|---|---|---|---|
| 1 | `RunnerProcess` | what the operating system and the files show of a runner | - | done |
| 2 | `Phylactd` | table, create, delete, reaper, recovery | extends `RunnerProcess` | done, proved |
| 3 | `SoulReflection` | finalization under two locks, knowledge commits | implements `Autobiography` | done, proved |
| 4 | `Autobiography` | the abstract promise about `SOUL.md` | - | done |
| 5 | `SessionRunner` | the loop, its tools, FIFO, log, deadline | implements `RunnerProcess` for one session | done, proved |
| 6 | `Schedule` | the schedule directory: tools, scan loop, daemon | - | done, proved |
| 7 | `SessionRequests`, `Webhook`, `SseListener`, `FileWatch`, `Poll`, `Intake` | event sources | `Intake` composes the five | done, proved |
| 8 | `Psyche` | concerns, commitments, passes, briefings over SQLite | - | done, proved |
| 9 | `ModelAdapters` | the requests the adapters make of a history | extends `SessionRunner` | done, proved |
| 10 | `ModelCall`, `McpBridge`, `LogFollowers`, `SignalInbox`, `KnowledgeFiles`, `PsycheRecords`, `ChildCommands`, `Periphery` | what is around daemon and loop | `Periphery` composes the seven | done, proved |
| 11 | `Intake_proofs` | the five properties of the sources | extends `Intake` | done |
| 12 | `Psyche_proofs` | the five properties of Psyche, and its types | extends `Psyche` | done |
| 13 | `Periphery_proofs` | the seven safety properties of the periphery | extends `Periphery` | done |
| 14 | `Selections`, `Selections_proofs` | filters, sorts and counts in closed form, and what is true of them | used by `SessionRunner`, `ModelAdapters`, `LogFollowers`, `ModelCall` | done |
| 15 | `SessionRunner_proofs` | the loop's invariant, its three properties, and that it is a `RunnerProcess` | extends `ModelAdapters` | done |
| 16 | `SessionRunner_proofs`, second half | that the requests of `ModelAdapters` keep calls with results and forget nothing | | done |
| 17 | `Phylactd`, composed with `Schedule` | a schedule refined onto the daemon's creates, in place of its own abstract daemon | | later |

### Abstract specifications

- `Autobiography`: `SOUL.md` grows by one reflection at a time, each committed before the next.
  `SoulReflection` implements it when nothing fails (checked and proved).
- `RunnerProcess`: what the daemon may assume of a runner. `SessionRunner` implements it for one
  session (checked and proved): the daemon is checked against the same life a runner really leads.
- Still to state: a commitment's life (pending, then fulfilled or broken, once) as what `Psyche`
  would promise if every handler were one transaction.

### Conventions

- One critical section, system call, SQL statement or `await`-free stretch is one step. A handler
  that takes several is several actions, and every other process can step in between.
- Operators named `Mutant...` are plausible bugs in the form of the definition that follows them.
  No specification uses them; a property is only kept when such a bug violates it.
- Every unbounded quantity has a constant that bounds it in a guard (`MaxRestarts`, `MaxEvents`,
  `MaxLapses`, `MaxChanges`, `MaxTurns`, `MaxCalls`, `MaxTime`, `MaxSessions`, `MaxCommitments`,
  `MaxFaults`, `MaxTokens`, `MaxRequests`, `MaxNoise`, `MaxEntries`, `MaxCrashes`, `MaxMessages`,
  `MaxFailures`, `MaxChunks`), with the comment "bound" at its declaration.
- No module declares a RECURSIVE operator, so that each can be proved about. An iterator's `filter`
  or a `sort_by_key` of the code is a closed form of `Selections` (`Ordered`, `Select`, `Sorted`, and
  `Joined` for `extend` in a loop):
  positions are chosen by a condition and put in order by how many come before them.

## 3. The models and the code

**`RunnerProcess`.** For each session `proc` (never started, booting, working, ..., zombie, gone),
the exit status, whether its pid file and its `done` entry are there, and whether its pid has been
given to another process (`recycled`). `Spawn` is `spawn_session` of the daemon; the other actions
are the milestones of `phyl-run/src/main.rs` `main` and `run_session` that somebody else can see.
`PidAnswers` is `kill(pid, 0)`, which a zombie and a recycled pid satisfy too.

**`Phylactd`.** `table` is `DaemonState.sessions`. A create request is `CreateCheck` (the count
under the mutex), `CreateSpawn` or `CreateFails`, `CreateInsert` (the insert under the mutex); it
awaits nothing, so only the end of the daemon cuts it short. A delete is `DeleteSignal` (SIGTERM,
mutex released), `DeleteKill` (after 500 ms), `DeleteConfirm`; it sleeps in between, where a client
that hangs up makes the runtime drop it (`DeleteAbandoned`).
`ReapProbe` and `ReapRecord` are one iteration of the reaper's loop under the mutex: the probe
collects an exit status or signals a pid, the record reads the log and closes the entry; in between
runners go on. `DaemonCrashes` leaves the runners to init, `MachineStops` takes them along;
`DaemonStarts`, `RecoverProbe`, `RecoverRecord`, `RecoverEnds` are `recover_sessions`.

**`SessionRunner`.** `history` and `log` are sequences of messages, each a tag and what identifies it;
`fifo` is the event FIFO, `wire` the pair of pipes to a server tool, `results` what
`dispatch_tool_calls` has collected. The model's answer is any sequence of calls of any tools.
`ReadResponse` blocks, as `read_response` does; `ToolServes` never answers `ask_human`, because the
tool reads its stdin again while holding its lock; `PlanAnswers` is any other server tool, from which
nothing is promised. `Inject` is the daemon's event handler or a shell: a line of the kinds `Written`
(what is written without a line end is one line with the write behind it, unless it is read before,
and then it is lost, a line without a text, since the read finds nothing more). `QuietReads` is
`poll_fifo`: it takes the texts up to the first line that is no UTF-8 (`Readable`), whose error ends
the reading, and `DrainFifo` says what is gone with it: the lines that `BufReader` holds behind that
one, up to a place that may lie within a line, whose rest is then read as a line (`Leftovers`).
`Fails` is any `?` of `run_session`, `Killed` any signal.

**`SoulReflection`.** A text is the set of sessions it descends from: what a reflection must not
lose. `TakeSoulLock` includes the re-reading that follows it in the same function; `WriteSoul` is
the write that follows a truncation (`stage = "writing"` is the time in between). Children (the
adapter, git) inherit the open lock files, so a lock is free (`Unlocked`) only when neither its
holder nor a child holds it. `Killed` can happen at every point and leaves the child.
`KnowledgeWritten`...`KnowledgeCommitted` are `phyl-tool-files`, which commits whatever is staged.

**`Schedule`.** `files` are the entries in the directory, `tool` the tool processes in
`write_schedule_entry` (count, then write), `inFlight` what `phyl-sched` keeps, `running` what the
daemon has. `Scan` reads the due entries and takes as many as there are slots; `CreateSession`,
`CreateFails`, `CreateUnanswered` are the three outcomes of a request; `RemoveFired` or
`RemoveFails` follows. `Poison` are entries that can never be started, `Asking` those whose sessions
wait for a human, or for a server tool that never answers, and keep their slot. The daemon may also be
`full` with sessions of others, as `phylactd` refuses a create then.

**`SessionRequests`, `Intake` and its sources.** `made` counts the sessions an event was made into
in the daemon; `NotCreated` covers a refusal, a daemon that is down and an answer lost after the
session was made. `Webhook`: handlers take the limiter, then the cache, then make the request, as
`handle_webhook` does; only the first two share a mutex each. `SseListener`: the server
numbers events and resumes from the last id it is sent; a stream ends in order, breaks, or overflows
a line. `FileWatch`: notify's channel, the debounce map, the files that have settled. `Poll`: one
rule with its `.last` file, which a death can cut off. The sources share nothing at run time, so a
behaviour has one of them.

**`Psyche`.** `concern` and `ledger` are the tables, `briefing` the stored briefing, a slot a session
from registration to the end of its pass. Every handler is its SELECT and its UPDATE as two steps;
`CallIsCut` is a session killed in between, `CallFails` a statement that SQLite refuses (busy after
its timeout). The pass is decay row by row, flags, two queries for commitments, and the write. A
salience is low or it is not.

**`ModelAdapters`.** `AnthropicMessages`, `NativeMessages`, `XmlMessages` and `ClaudePrompt` are functions
of a history: the request that each adapter, and each mode of the OpenAI adapter, makes of it, message
by message (`Merged` is the loop of `build_request` around `merge_or_push`, as a recursive function of
how many messages it has taken). The module extends `SessionRunner`, and its properties
`CallsStayPaired` and `NothingForgotten` are about each adapter's request in every reachable history,
compressed ones included.

**`ModelCall`.** The way back. An answer is a sequence of tokens: tags, calls, texts, and a text that
begins with `Error:`. One round of `extract_tool_calls` or `strip_xml_blocks` is one step
(`ReadBlock`, `StripBlock`), and `Judge`, `Retries`, `AdapterFails` are `invoke_model_with_retry`. The
property does not search: `Blocks` says of a set of positions that blocks begin at these and nowhere
else, `CallsIn` and `OutsideOf` what is in them and around them, and `AsWritten` that calls and content
list just that, in order.

**`McpBridge`.** `ServerAnswers`, `ServerSpeaks` and `ServerDies` are the other side; the rest is
`run_serve` and `McpServer`. `waitId` is the id `call` waits for, `pipe` a server's unread output,
in which a line that is no UTF-8 (`Garbage`) fails the call as the end of the pipe does (`ReadFails`),
`routing` the index into `servers`, which has only those that could be started. The bridge reads a
server only while it waits for it.

**`LogFollowers`.** `Logs`, `RunnerEnds`, `PidRecycled` and the `Daemon...` actions are the session and
the daemon as their own modules have them: a restarted daemon takes a session for running as long as
its pid answers, and whoever got that pid answers for it. `TailSize`, `TailRead`, `TailAsks`, `TailDrains` are the loops of
`phyl session` and `phyl log`; `FeedSize` and `FeedRead` that of `handle_feed`; `FeedConnects`,
`FeedRefused`, `FeedTakes` are `phyl watch` and the bridge's `feed_watcher`.

**`SignalInbox`.** `Receives` is `signal_receive`, which empties the server's queue; `PostsPrompt` is
`process_inbound`; `BridgeDies` loses the batch. **`KnowledgeFiles`.** A text is the set of writers it
has text of, as in `SoulReflection`; `Truncates` and `WritesText` are the two halves of `fs::write`,
`TakesLock`, `GitAdds`, `GitCommits` are `auto_commit_knowledge`. **`PsycheRecords`.** The append to
`spawned` is a read and a write (`ReadList`, `WriteList`), `Resolve` writes the whole list.

**`ChildCommands`.** `written` and `taken` are what went into and came out of the two pipes; `thread`
is the reading thread of `wait_with_timeout`, which takes stdout, then stderr, then the status. `helper`
is a process that the command leaves behind, with the pipes. `RunnerTimesOut` and `TimesOut` are the
two timeouts, `step`, `unanswered` and `wire` the conversation with Firefox.

**`Periphery`** has one of the seven in each behaviour, since they share nothing but what each has its
own view of.

## 4. The runs

| run | result | states / depth / time | what it shows |
|---|---|---|---|
| `table` | pass | 167,464 / 33 / 30 s | With two creates, a delete, the reaper, two restarts and reused pids: an ended entry has no live runner (`EndedIsDead`); the status never contradicts the log (`VerdictMatchesLog`); the limit is overshot by at most the requests in flight less one (`AdmissionBound`); a live runner is in the table or in a request until a restart (`RunnersTracked`); an ended entry is rewritten only by a DELETE under way (`OnlyDeleteRewrites`); every end is noticed and every zombie collected, and a runner with a pid file is adopted after a restart, a recycled pid being the exception that the property states (`TableCatchesUp`) |
| `limit` | violation | 1 s | `WithinLimit`: two overlapping creates both pass `max_concurrent = 1` |
| `runner_loop` | pass | 1,252,237 / 33 / 116 s | Calls stay with their results, in order (`AnsweredInOrder`), also in what each adapter makes of the history (`CallsStayPaired`), and every message kept is in its request (`NothingForgotten`); the history is the tail of the log (`LogIsTranscript`); what the session hears of the FIFO is in order and without repeats, and nothing is missing before something heard, but what stood behind a line that is no UTF-8 and was read together with it (`EventsInOrder`); the session ends after its deadline unless it is held up for ever by one of the things that have none (`SessionEnds`: a human, the answer or the exit of another server tool, the finalization's locks and processes); it leads the life the daemon assumes (`IsRunnerProcess`) |
| `runner_ask` | violation | 1 s | `AskReturns`: `ask_human` never returns |
| `soul_locks` | pass | 33,669 / 25 / 21 s | Under every fault: a session reflects on the file as it is (`ReflectsOnCurrent`), git is used by one process at a time (`GitSerialized`), nobody waits for ever (`FinalizationEnds`) |
| `soul_kept` | pass | 752 / 31 / 1 s | Without faults: git is up to date when the lock is free (`HeadIsSoul`), and the protocol implements `Autobiography`, which loses no reflection (`IsAutobiography`) |
| `soul_error` | violation | 1 s | `NoReflectionLost`: an adapter's error text is written over `SOUL.md` |
| `agenda` | pass | 726,631 / 41 / 24 s | Entries are not dropped (`NothingDropped`), fired again only for a fault (`RefireBound`), and both caps are overshot by no more than stated (`ScheduleBound`, `HerdBound`) |
| `agenda_fires` | pass | 112,814 / 31 / 63 s | Every good entry is fired and every sleeper woken, if from some time on the daemon has room, and the sessions that never end together with the entries that can never start are fewer than the slots (`DueFires`) |
| `intake` | pass | 2.2 M / 50 / 52 s | An event becomes one session, one more for each lost cache or file (`OncePerEvent`); a sender's success answer can be relied on (`AckedIsMade`); a stream's events are accounted for (`StreamAccountedFor`); a change is told or under way (`NoChangeIsLost`); what a rule takes for old was news once (`OldNewsWasNews`) |
| `psyche` | pass | 2.5 M / 41 / 64 s | Decisions on stale rows are bounded by the sessions at once (`StaleBound`); a briefing lists every open commitment though its two queries are not one transaction (`NothingUnlisted`); broken commitments persist (`BrokenPersist`); a low concern is flagged, and a pass spares what its own session touched (`FlagsFollowSalience`) |
| `periphery` | pass | 1.3 M / 33 / 76 s | The calls made are those the model wrote, and the text around them stays, through every adapter and retry (`CallsAsWritten`); an MCP call is answered with its own answer, from the server that has the tool (`AnswersAreOwn`); whoever follows a log is shown all he has read past (`FollowersMissNothing`); a tail returns once the log has an ending, and without one if the daemon knows the session, the runner is gone and no other process passes for it, and a feed brings every ending while the daemon knows the session (`EndsAreHeard`); the owner's messages become a session each, in order, unless the bridge dies over them (`MessagesAccountedFor`); after overlapping writes the last commit has the file as it is (`CommittedIsLatest`); spawned concerns are listed, unless something disturbed it (`LinksHold`); a command's output is whole or an error (`OutputIsWhole`) |

### Bounds, and why they are enough

- `table`: 2 sessions, 2 creates, 1 delete, limit 1, 2 restarts, reused pids. Two creates are what an
  overlap needs; a limit of one is reached by the first session; two restarts let a daemon recover
  what a recovered daemon had. No symmetry, which liveness does not allow. A second delete multiplies
  the time by eight and met no new violation; the theorems hold for any number of deletes.
- `runner_loop`: answers of up to 2 calls out of 5 kinds of tool, an unknown one among them, 2 turns,
  4 lines in the FIFO, texts or no UTF-8. Two calls are enough to be collected out of order or to
  follow `done`. With two turns the history is long enough for `Compress`, which needs more than three
  messages beside the system prompt. Four lines are one that is heard, one that ends the reading, one
  that is lost or cut with it, and one behind; with three, nothing is heard behind what was lost.
  Lines without a text come about as what is left of a cut one. The constraint `EventsOrCalls` leaves
  out behaviours that have both more than 2 lines and an answer of 2 calls: what is called changes
  when the FIFO is read, not what a reading takes from it. `SessionEnds` is checked within it: a
  behaviour with at most 2 lines, or with single calls, lies in it as a whole.
- `soul_locks`: 2 sessions and 2 knowledge writers, so both locks are contended by both kinds;
  `soul_kept`: 3 sessions, so that a version has a predecessor and a successor.
- `agenda`: 3 entries for 2 slots, 2 tools with a cap of 1, times 0..2, 1 fault. `agenda_fires`: a
  good entry, a poisoned one and one whose sessions never end, for 3 slots; a fault can make a second
  such session, which leaves no room (`RoomLeft`).
- `intake`: 3 events with a limiter of 2, so that the limiter refuses (an assumption of `MCIntake`
  states it), 2 handlers, 2 losses of memory or file, 2 changes of each file.
- `psyche`: 2 sessions at a time (and a third under no number, when registration fails), 1 concern,
  3 commitments, 1 fault. The constraint `OneMatter` separates behaviours about salience from those
  about commitments, which share only the state of a concern.
- `periphery`: answers of 5 tokens (a block and something before and after it, or a block in a block;
  an assumption of `MCPeriphery` states it), 1 retry; 2 MCP servers with 2 tools they may share, 2
  requests, 1 line of noise; 3 log entries before the last, 2 crashes; 3 messages; 3 writers of one
  file; 2 sessions and 3 spawned concerns; pipes that hold 1 of 2 chunks, so that they fill.

`CHECK_DEADLOCK FALSE` stands where the system may rest: a runner that has exited or waits for a
human, and sources, sessions and peripheral programs whose bounds are used up. The
type invariant of a part stands in its module (`TypeOK`) or, for the periphery, with its proof
(`BridgeTypeOK`, `FollowTypeOK`, `CallTypes`, ...); `ModelAdapters` has no state of its own. It is
part of every inductive invariant that is proved; the properties that runs check are spent on what
could really be wrong.

### Fairness

- `Phylactd`: the tokio runtime runs the reaper and the handlers that have begun (WF on their
  steps), a service manager or the user starts the daemon again. Runners and clients owe nothing.
- `SessionRunner`: the loop and the clock go on (WF): adapters and one-shot tools have deadlines
  (300 s, 120 s). `phyl-tool-session` answers `done` and exits by itself. Nothing is assumed of the
  human, of another server tool's answer (`read_response` has no deadline) or exit (`child.wait()` has
  none), or of what the finalization waits for (two locks, git and `phyl-psyche-sub`, without a
  deadline); `SessionEnds` names these in `HeldUp`. That the finalization ends among sessions that run
  on is the question of `soul_locks`.
- `SoulReflection`: `flock` serves its waiters (SF on taking a lock); git ends, the adapter has
  `MODEL_TIMEOUT_SECS` (WF on the rest), orphans included.
- `Schedule`: clock, loop and restarts go on (WF). A daemon that is asked again and again
  answers some time (SF on pruning and on creating an entry that can be created); this is the one strong
  assumption of the module, and it is what "the daemon is not always down" means for a polling client.
  Sessions end, but for those in `Asking`, which `runner_ask` and the hanging tools of section 6
  show to be possible: `DueFires` asks for a slot beside them. That a daemon is full ends only when the
  sessions of others do, which nobody promises; `DueFires` is about those behaviours in which it does.
- `Periphery`: only `EndsAreHeard` needs any. A follower goes on and the reaper polls (WF). Nobody
  promises that the session ends, that a daemon is started again, or that it finds the runner's pid
  free: the property says from which state on the follower is through.

## 5. The proofs

All theorems hold for every value of the constants that satisfies the named assumptions in the
modules (finite sets of sessions, requests, entries and tools; positive limits; null values outside
the sets they stand beside), and for runs of any length. Nothing else is assumed.

**`Phylactd_proofs`.** `TypeCorrect` by cases on the actions. `EndedAreDead` and `VerdictsMatchLog`
share the inductive invariant

    IInv = TypeOK /\ RunnerKnown /\ WrittenOffIsDead /\ CleanExitIsLogged /\ EndedIsDead /\ VerdictMatchesLog

`EndedIsDead` alone is not inductive: the second section of DELETE, and the reading of the log after
a probe, write a status without looking at the process again. They are right only because what they
are about to write off is dead already (`WrittenOffIsDead`) and stays so (`DeadForGood`). Likewise an
exit status of 0 is evidence of a `done` entry only because runners write it first
(`CleanExitIsLogged`). `AdmissionBounded` counts: a check lets a request in only below the limit, so
at that moment at most the other requests are in flight beyond it; an insert moves one from the
requests to the table. `OnlyDeleteRewritesHolds` needs `StillOpen`: under the mutex, what was probed
cannot be closed by anyone else before it is recorded, and an inserted session has no entry yet.

**`SoulReflection_proofs`.** `LockInv` says who holds each lock: a process between taking and giving
back, or a child that has outlived it (`StageHolds`, `ChildHolds`). From it `AlwaysCurrent` and
`GitIsSerialized`, under every fault. Without faults (`~ModelErrors /\ ~Kills /\ ~IoFails`) the
invariant `FaultFree` adds `KeptInv` (the file is what was reflected) and `CommitInv` (git is behind
only while the writer commits); from it `ReflectionsKept`, `HeadKeepsUp` and `KeepsAutobiography`:
initial states map to initial states (`SoulAsSeen = reflected`), `WriteSoul`'s second half maps to
`Reflect`, the commit to `Commit`, every other step to a stutter (`StepMaps`).

**`Schedule_proofs`.** `Books` keeps, for each entry, where it is and what that says of how often it
was fired: an entry still on the agenda has paid for each firing with a fault; the one fired and not
yet removed has still to pay. From it `NothingIsDropped` and `RefiresBounded`. `ScheduleBounded`
counts as `AdmissionBounded` does. `HerdBounded` uses `HerdBooks`: sessions `phyl-sched` has
forgotten are paid for, `MaxConcurrent` for each fault.

`NoRunnerIsForgotten` (`RunnersTracked`) is about the time until the daemon first goes down: a runner
is with the request that made it until it is in the table (`NoneForgotten`), entries only change
their status, and before the daemon serves there is no runner.

**`Intake_proofs`.** Each source has books of its own, and all count the same way: the sessions made
of an event, the requests for it under way, and one more as long as its id is in no memory, are
together at most one more than the lapses of memory so far. The cache, checked and filled in one
critical section before the request is made, is what keeps this up with handlers that overlap.
`HookBooks` and `SseBooks` also say that whatever was acknowledged or passed over is made, being made
or given up (`AckedAreMade`, `StreamsAccountedFor`); `WatchBooks` counts changes in place of lapses and
holds each unanswered change at some stage (`NoChangesAreLost`); `PollBooks` orders the output seen,
the one asked for and the one remembered (`OldNewsHasBeenNews`). `OneSessionPerEvent` is the count of
whichever source runs.

**`Psyche_proofs`.** `Typing` (and from it, with the bounds, `TypeOK`). Then one invariant for each
question: `NumberBooks` - session numbers differ, and what is still to be decayed was not touched by
the session that decays (`OwnIsSpared`); `AliveBooks` - without faults a call has its session
(`FlagsFollow`); `AskBooks` - after the first query of a briefing, what was there is in its list or
no longer pending (`NothingIsUnlisted`); `ReportBooks` - what is broken is in every complete briefing,
excused, or reported by a session whose own pass is still to ask (`BrokenOnesPersist`);
`ReopenBooks`, `MadeBooks` and `CountBooks` - what has come of stale decisions, with the sessions that
have read and not yet written, is at most the sessions at once, and for commitments the faults besides
(`StaleIsBounded`). None of the bounds is inductive without the sessions in between: two may have read
the same row.

**`SessionRunner_proofs`.** The invariant has a part for each channel:

    IInv = TypeOK /\ CallsInv /\ Transcribed /\ EventsInv /\ Endings /\ Asked

`CallsInv`: in the history an answer has its results behind it, all and in the order of its calls
(`Answered`), or it is the last message and its calls are under way; what `dispatch_tool_calls` has
collected so far names no call twice, and all that go to no server tool are in it (`ResultsSoFar`), so
that when no call is unsent the sorted results are exactly one for each call, whatever their order.
`Transcribed`: history and log agree from some place on (`Follows`), which a compression moves and an
append keeps. `EventsInv`: events are read in the order of their numbers, and every text up to the last
one read is in the log or was lost behind a line that is no UTF-8 (`EventsRead`); `EventsInOrder` alone
does not say what the FIFO still has. What a reading leaves there is `Drained`, what it takes
`ReadableIsPrefix`; the step itself is `EventsHeard`, and whatever says nothing to the session or writes
behind what was read is `EventsKept`.
`Endings`: the `done` entry is there from `closing` on and decides the exit code. From it
`CallsHaveTheirResults`, `LogIsTheTranscript`, `EventsAreHeardInOrder`, and `RunnerIsRunnerProcess`:
every step of the loop is a step of `RunnerProcess` for its session, or none (`RunnerProcessStep`).

The sixth part, `Asked`, is for the adapters. `Formed` says where a message can stand in a history: the
system message first, then the prompt or the summary, no answer right behind an answer, and before a
result nothing but results down to its call, or down to the summary that its call has gone into. It
is about positions, so that a compression, which cuts off the front wherever the fraction falls, keeps
it (`AskedStep`); and when the model is called, the last message is no answer. What the adapters make
of such a history is then a matter of sequences. `Merging(c, i, M)` says of the request `M` after the
first `i` messages that roles alternate and that each answer is a message of its own, with as many of
its results at the front of the next one as have come yet. `MergeOne` carries that over one more
message, and `MergedInOrder` over all of them: if it failed anywhere, it would fail at a first message.
So `RequestsKeepCallsPaired` holds of the merged request and of the native one of OpenAI, where the
results have messages of their own (`ListedToolsFollow`). `RequestsForgetNothing` says that blocks, read
from the first message to the last, are the parts of the history in its order, merged or listed, and
that the one prompt of phyl-model-claude has the last message whole, since it is no answer
(`PromptIsWhole`). The hypothesis `Shaped` of these lemmas is what `ConversationIsShaped` derives from
the invariant.

**`Selections_proofs`.** What the closed forms give: `Ordered(S)` lists `S`, each number once and in
ascending order (`OrderedIsSequence`, by counting, as a finite set of numbers has a least one), `Select`
keeps order, and a sequence that has each of 1..n once is sorted into 1..n (`PermutationSorted`).
`Joined` is a recursive function; that it has the values its definition says (`JoinedAccumulates`), and
what follows from that (`JoinedOneMore`, `JoinedLonger`), is shown by looking at the least length at
which it would fail. That takes the place of induction, for which the library's theorems have an
operator as a parameter, which the provers cannot instantiate; `MergedMerges` does the same for
`Merged`.

**`Periphery_proofs`.** One part after the other, each with an invariant of its own.
- `AnswersAreAlwaysOwn`, for any number of servers and requests: `IdBooks` (a server holds only ids
  below the next), `WaitBooks` (what bears the awaited id is this request or its answer; ids are per
  server and only grow, so late answers to given-up requests never bear it), `RouteBooks` (a name leads
  to the last server that listed it, through an index into the servers that could be started),
  `AnswerBooks`.
- `LinksAlwaysHold`: `ListBooks` says that a list that was read has all that is in the row but for what
  is named as disturbed, `RecordBooks` counts those about to invalidate.
- `LatestIsCommitted`: without a mishap, whatever the index or the commit lacks, somebody is about to
  give it (`CommitBooks`), an empty file is being written (`TextBooks`), and a commit that finds
  nothing to do follows one that was told of (`ToldBooks`).
- `OutputsAreWhole`: the thread leaves a stream only when nobody can write to it any more
  (`PipeBooks`), and one call of Marionette at a time is unanswered (`CallBooks`), so the next answer is
  its own although the id is never compared.
- `MessagesAlwaysAccountedFor`: what was posted precedes what is in memory, and that what is at the
  server (`OrderBooks`), and nothing of the latter two has a session yet (`SessionBooks`).
- `NothingIsMissed`: a tail has shown the entries up to one that is not before its offset
  (`ShownUpTo`), the feed all that asks for attention below its offset (`FeedBooks`). That nothing is
  shown more than twice a connection is not inductive: `OftenBooks` adds that what is beyond the offset
  was read once less, and what is beyond the size of the round under way not yet in this connection. The
  second showing is the read to the end of the file that goes beyond the size that was asked before.
- `CallsAreAsWritten`: `Blocks` cannot be kept up while a text is read, because whether a block begins
  depends on what comes later. `BlocksUpTo` says it of the positions read, with every block found so far
  closed before the read position; the next `open` and the `close` behind it extend it (`BlocksGrow`),
  and where there is none, what is known is all (`BlocksEnd`). `ExtractBooks` and `StripBooks` use the
  same lemmas, once over the answer and once over the text that is left of it.

These theorems are about the specification of one part; `PartsImplemented` shows that every behaviour
of `Periphery` is a behaviour of each part, and `PeripheryHolds` has the seven properties for the
`Spec` that the run checks.

**Only model-checked.** The liveness properties (`TableCatchesUp`, `SessionEnds`, `FinalizationEnds`,
`DueFires`, `EndsAreHeard`), which are outside what the prover does: it has no rule for fairness and
ENABLED. Every invariant and every action property that a run checks is a theorem.

## 6. Where the code and its documents differ

Three disagreements have a run:

- `limit`: `max_concurrent` is not enforced on requests that overlap.
- `runner_ask`: `ask_human` never returns; there is no timeout and no way for an answer.

These were met while modelling and follow from the models or the code, without a run of their own:

*Sessions*
- An event the daemon accepted (202) may never be read: the runner looks at the FIFO only after an
  answer without calls (`crates/phyl-run/src/main.rs:383`), and an answer that calls `done`, or the
  deadline, ends the loop without another look (`docs/phyl.md:44`, "picks it up on its next loop
  iteration"; `docs/phyl-run.md:71`, "polls this FIFO alongside the model loop").
- A line of the FIFO that is no UTF-8 ends the reading, and the lines buffered behind it are lost,
  while later ones are heard (`crates/phyl-run/src/main.rs:1532`). The daemon writes UTF-8; a shell
  need not.
- A server tool that does not answer, or does not exit when its stdin is closed, keeps a session past
  its deadline (`crates/phyl-run/src/main.rs:1320,459`), and its slot of `phyl-sched` and of the
  daemon with it.
- After `done`, another call to a tool of `phyl-tool-session` in the same answer meets a broken pipe,
  and the session fails without a reflection (`docs/protocols.md:134`).
- `compress_history` cuts at a fixed fraction and can separate calls from their results; the history
  is well formed again only as far as `AnsweredInOrder` says (a call that is kept has its results).
  Results without their call may then come first (`OrphansFollowSummary`), which the APIs refuse: the
  request fails, is retried once with the same history, and the error text ends the session.
- What a DELETE decided is in memory only: the next daemon judges the session by its log
  (`crates/phylactd/src/main.rs:288`).
- A runner whose pid file is missing at a restart is lost (`docs/phylactd.md:67`); a recycled pid
  keeps a dead session running (`docs/sessions.md:61`); a killed session is crashed after a restart
  (`docs/sessions.md:9,63`). `TimedOut` is never assigned (`docs/sessions.md:64`).
- A kill between truncation and write leaves `SOUL.md` cut off (`docs/identity-files.md:67`). The
  locks are released git first, not soul first (`docs/phyl-run.md`). "Nothing to commit" is reported
  as an error (`docs/phyl-tool-files.md:49`). A knowledge file is written before the lock is taken
  (`docs/knowledge-base.md:38`).

*Model calls and tools*
- The OpenAI adapter leaves out a call whose arguments are no JSON, without a word; for the Anthropic
  adapter a block of an unknown kind makes the whole answer an error. An error that the claude CLI
  reports itself has no "Error:" before it and is taken for an answer, an answer that begins with
  "Error:" is asked for again. Prompts in text form label results with ids the calls never had.
- `bash` kills its shell on a timeout, not "the process group", as its comment says
  (`crates/phyl-tool-bash/src/main.rs:166`): what the shell started runs on. By default both timeouts
  are 120 s and the runner's begins first, so mostly the tool is killed and the shell runs on too
  (`docs/phyl-tool-bash.md:38`, "On timeout: process is killed, error returned"). A killed `web_fetch`
  leaves its browser and the browser's directory, and a directory that cannot be removed stays, without
  a word (`crates/phyl-tool-web/src/main.rs:286,432`). A command that leaves a process behind that holds
  its output times out and its output is lost; output that is no UTF-8 is given as empty.
- `phyl-tool-mcp`: a line that is no UTF-8 fails the call under way (`crates/phyl-tool-mcp/src/main.rs:262`),
  and its answer comes for nobody. A server's own request with the id that is waited for is taken for the answer; a
  server that waits for the answer to a request of its own waits for ever, and the bridge with it. A
  server that could not be initialised runs on. Closing is a kill, as the servers are looked at once,
  right after their stdin was closed. Diagnostics cut a line at a fixed byte, and panic within a
  character, as do the adapters'. `--call` (documented) does not exist.
- Each line of an MCP server that cannot be parsed is noted on the bridge's stderr, a pipe that the
  runner does not read: some hundreds of them block the bridge, and the session at its next call.

*Starting sessions*
- `phyl-sched` overshoots `MAX_CONCURRENT` after an outage of the daemon or a restart of its own
  (`crates/phyl-sched/src/main.rs:22`; `HerdBound` says by how much). A cancelled entry that is in
  the batch of a scan still fires. As many entries that can never start (a prompt with a NUL byte,
  or longer than an argument may be) as there are slots keep all others from firing: `DueFires`
  fails with `Poison` that large.
- `phyl-tool-self`'s cap on entries is overshot by tools of different sessions (`ScheduleBound`).
- `phyl-poll` takes over its new baseline although the daemon was unavailable; the change is not
  retried (`docs/phyl-poll.md`, "retry on next interval").
- `phyl-listen`: a delivery or event without an id bypasses the cache (`crates/phyl-listen/src/webhook.rs:152`)
  and becomes a session each time; the models give every event an id. The redelivery of a delivery that failed is answered as a duplicate and lost;
  duplicates use up the rate limit. A stream that breaks forgets the ids received since it was
  opened, and an empty connection forgets all (`docs/phyl-listen.md`, "Last-Event-ID sent on
  reconnect"). An event over the rate limit, or with a line over 1 MB, is dropped for good. A watched path
  that does not exist at the start is never watched.

*Talking to a human*
- No session ever logs a question, so the question path of the feed, the bridge and `phyl watch` is
  dead. The bridge ignores HTTP statuses: a refused session is reported as started.
- `phyl session` and `phyl log` poll for ever for a session that a restarted daemon does not know, or
  takes for running because another process has its runner's pid;
  an ending that was logged before a crash may never be on the feed after it. `phyl log` stops at the
  first error and does not show the `done` entry after it.
- What is left of a batch of Signal messages when the bridge dies is lost.

*Memory*
- A broken commitment is missing from the next briefing when its session was killed, when its pass
  failed, or when an older pass wrote later (`docs/plan-psyche-system.md:12`; `BrokenPersist` says so).
- Of overlapping writes of one knowledge file, one may be in no commit although its model is told
  "(auto-committed to git)" (`docs/knowledge-base.md:38`, "no lost updates"); with `auto_commit = false`
  it is told the same. Writing the same content again is reported as a failed commit, because git says
  "nothing to commit" on stdout and the code looks on stderr (`crates/phyl-tool-files/src/main.rs:397`).
- A fulfilled commitment leaves its concern committed, and it cannot be committed to again.
- `resolve_concern` replaces the list of spawned concerns. Escalations are never answered and stay in
  every briefing. A flag is not removed by a touch. Decay is applied by every pass to the value the
  pass before left, so it compounds.

## 7. What is not modelled

- The read-only handlers of the daemon and the read-only queries of `phyl-tool-psyche`.
- The queue of questions of the Signal bridge: no program logs a question, so it stays empty.
- `web_search` and `web_read` of `phyl-tool-web` (one HTTP request each), the conversion of HTML to
  Markdown, and the choice of a browser.
- Prompt assembly, briefing text, path validation, globs, filters, signatures, time parsing: pure
  functions of their input. Truncation of long texts is abstracted with the texts.
- `phyl start`, `phyl init`, `phyl setup`, `phyl config`: an installer, run once with a human watching.
- Lines that are cut while they are written: a log entry, an MCP message and an answer are whole or
  not there. UTF-8 is a property of a stream.
- Two daemons on one socket, clocks that jump, and disks that fail at every single write: only the
  failures named in the modules are modelled.
- Volumes: the size of a request, of a history in tokens, and of diagnostics on pipes nobody reads.
