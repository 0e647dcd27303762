------------------------------ MODULE McpBridge ------------------------------
(***************************************************************************)
(* phyl-tool-mcp --serve: a server tool of the runner that passes the      *)
(* calls on to MCP servers of other makers, over a pair of pipes each.     *)
(*                                                                         *)
(* A server may answer late or with an error, send notifications, lines    *)
(* that are no JSON and requests of its own, and die at any moment.  What  *)
(* it says is read only while the bridge waits for it, and the bridge      *)
(* waits for one server at a time.                                         *)
(***************************************************************************)
EXTENDS Integers, Sequences

CONSTANTS
    Configured,     \* how many [[mcp]] sections config.toml has
    Tools,          \* names as the model sees them, "<server>_<tool>"; two can be the same
    MaxRequests,    \* bound: requests of the runner
    MaxNoise        \* bound: lines of the servers that answer nothing

ASSUME BridgeBoundsNat == Configured > 0 /\ {Configured, MaxRequests, MaxNoise} \subseteq Nat

Configs == 1..Configured

VARIABLES
    bridgePc,   \* "start", "initialize", "list", "serve", "call", "closed" or "panicked"
    at,         \* the section whose server is being started
    servers,    \* the Vec of servers that could be started, as their sections
    routing,    \* tool_routing: the index in servers of each name, 0 for none
    nextId,     \* of each McpServer
    waitId,     \* the id that call() waits for
    asked,      \* the name in the request that is being served
    responses,  \* what the runner was answered, one entry for each request
    noise,      \* lines sent that answer nothing
    up,         \* the servers that run
    inbox,      \* what each has been asked and has not answered: <<id, request>>
    pipe,       \* each one's stdout, as far as it is not read
    listed      \* history: the names in the tools/list answers the bridge took

bridgeVars == <<bridgePc, at, servers, routing, nextId, waitId, asked, responses, noise,
                up, inbox, pipe, listed>>

\* A line with an id, which request it answers (0 if it is a request of the server's own,
\* -1 if it answers initialize or tools/list) and the names it lists.
Line(id, of, names) == [id |-> id, of |-> of, names |-> names]
Notice == Line(0, 0, {})
Junk == Line(-1, 0, {})     \* no JSON-RPC, or one with an id that is no number
Garbage == Line(-2, 0, {})  \* not UTF-8

BridgeInit ==
    /\ bridgePc = "start" /\ at = 1
    /\ servers = <<>>
    /\ routing = [t \in Tools |-> 0]
    /\ nextId = [c \in Configs |-> 1]
    /\ waitId = 0
    /\ asked = CHOOSE t \in Tools : TRUE
    /\ responses = <<>>
    /\ noise = 0
    /\ up = {}
    /\ inbox = [c \in Configs |-> {}]
    /\ pipe = [c \in Configs |-> <<>>]
    /\ listed = [c \in Configs |-> {}]

\* The operators named Mutant... are plausible bugs, each in the form of the
\* definition that follows it; no specification uses them.

-----------------------------------------------------------------------------
(* The servers, for as long as somebody may read them. *)

Runs(c) == c \in up /\ bridgePc \notin {"closed", "panicked"}

MayMakeNoise == noise < MaxNoise /\ noise' = noise + 1

\* Answers need not come in the order of the requests.
ServerAnswers(c) ==
    /\ Runs(c)
    /\ \E r \in inbox[c] :
          /\ inbox' = [inbox EXCEPT ![c] = @ \ {r}]
          /\ \E names \in IF r[2] = -1 THEN SUBSET Tools ELSE {{}} :
                pipe' = [pipe EXCEPT ![c] = Append(@, Line(r[1], r[2], names))]
    /\ UNCHANGED <<bridgePc, at, servers, routing, nextId, waitId, asked, responses, noise,
                   up, listed>>

\* Its own requests are numbered as it likes: ping, roots/list, sampling.
ServerSpeaks(c) ==
    /\ Runs(c) /\ MayMakeNoise
    /\ \E line \in {Notice, Junk, Garbage} \cup {Line(id, 0, {}) : id \in 1..nextId[c]} :
          pipe' = [pipe EXCEPT ![c] = Append(@, line)]
    /\ UNCHANGED <<bridgePc, at, servers, routing, nextId, waitId, asked, responses,
                   up, inbox, listed>>

\* What it has written stays in the pipe.
ServerDies(c) ==
    /\ Runs(c)
    /\ up' = up \ {c}
    /\ inbox' = [inbox EXCEPT ![c] = {}]
    /\ UNCHANGED <<bridgePc, at, servers, routing, nextId, waitId, asked, responses, noise,
                   pipe, listed>>

-----------------------------------------------------------------------------
(* McpServer::call, in its two halves. *)

\* Written to a server that runs; a write to one that is gone fails.
Asks(c, request, next) ==
    /\ c \in up
    /\ nextId' = [nextId EXCEPT ![c] = @ + 1]
    /\ waitId' = nextId[c]
    /\ inbox' = [inbox EXCEPT ![c] = @ \cup {<<nextId[c], request>>}]
    /\ bridgePc' = next

\* The server the bridge waits for.
Partner == IF bridgePc = "call" THEN servers[routing[asked]] ELSE at

Waits == bridgePc \in {"initialize", "list", "call"}

\* Whatever has an id is an answer.
MutantMatches(line) == line.id > 0

\* Only the id is compared: a request of the server's own can pass for the answer.
Matches(line) == line.id = waitId

HasLine == Waits /\ pipe[Partner] # <<>>
NextLine == Head(pipe[Partner])
TakesLine == pipe' = [pipe EXCEPT ![Partner] = Tail(@)]

\* read_line reads nothing, or what is no text: the call fails, and a line of its answer that
\* comes later is for nobody.
ReadFails ==
    \/ Waits /\ pipe[Partner] = <<>> /\ Partner \notin up /\ UNCHANGED pipe
    \/ HasLine /\ NextLine = Garbage /\ TakesLine

HasAnswer == HasLine /\ Matches(NextLine)

SkipLine ==
    /\ HasLine /\ ~Matches(NextLine) /\ NextLine # Garbage
    /\ TakesLine
    /\ UNCHANGED <<bridgePc, at, servers, routing, nextId, waitId, asked, responses, noise,
                   up, inbox, listed>>

\* The diagnostic prints 80 bytes of a line it cannot parse, and they may end within a
\* character.  The servers go with the bridge: their stdin is closed.
Panics ==
    /\ HasLine /\ NextLine = Junk
    /\ TakesLine
    /\ bridgePc' = "panicked"
    /\ UNCHANGED <<at, servers, routing, nextId, waitId, asked, responses, noise,
                   up, inbox, listed>>

-----------------------------------------------------------------------------
(* McpServer::start and run_serve up to its loop. *)

NextConfig ==
    /\ bridgePc' = IF at = Configured THEN "serve" ELSE "start"
    /\ at' = IF at = Configured THEN at ELSE at + 1

StartServer ==
    /\ bridgePc = "start"
    /\ \/ /\ up' = up \cup {at}
          /\ nextId' = [nextId EXCEPT ![at] = @ + 1]
          /\ waitId' = nextId[at]
          /\ inbox' = [inbox EXCEPT ![at] = {<<nextId[at], -1>>}]
          /\ bridgePc' = "initialize"
          /\ UNCHANGED at
       \/ NextConfig /\ UNCHANGED <<nextId, waitId, up, inbox>>  \* no such command
    /\ UNCHANGED <<servers, routing, asked, responses, noise, pipe, listed>>

\* Any answer will do, an error included; tools/list is asked next.
Initialized ==
    /\ bridgePc = "initialize"
    /\ HasAnswer /\ TakesLine
    /\ Asks(at, -1, "list")
    /\ UNCHANGED <<at, servers, routing, asked, responses, noise, up, listed>>

\* The server is not used, though it may still run.
StartFails ==
    /\ bridgePc = "initialize"
    /\ \/ ReadFails
       \/ at \notin up /\ HasAnswer /\ TakesLine
    /\ NextConfig
    /\ UNCHANGED <<servers, routing, nextId, waitId, asked, responses, noise, up, inbox,
                   listed>>

\* A name that two servers have goes to the later one.
Routed(names) == [t \in Tools |-> IF t \in names THEN Len(servers) + 1 ELSE routing[t]]

\* An error, or a request that passes for the answer, leaves the server without tools.
Listed ==
    /\ bridgePc = "list"
    /\ \/ ReadFails /\ UNCHANGED <<routing, listed>>
       \/ /\ HasAnswer /\ TakesLine
          /\ routing' = Routed(NextLine.names)
          /\ listed' = [listed EXCEPT ![at] = NextLine.names]
    /\ servers' = Append(servers, at)
    /\ NextConfig
    /\ UNCHANGED <<nextId, waitId, asked, responses, noise, up, inbox>>

-----------------------------------------------------------------------------
(* The loop of run_serve. *)

\* by is the server whose answer is passed on, of the request it is an answer to; 0 for an
\* error.
Responds(by, of) ==
    /\ responses' = Append(responses, [tool |-> asked, by |-> by, of |-> of])
    /\ bridgePc' = "serve"

HasRequest == bridgePc = "serve" /\ Len(responses) < MaxRequests /\ asked' \in Tools

Passes ==
    /\ HasRequest /\ routing[asked'] > 0
    /\ Asks(servers[routing[asked']], Len(responses) + 1, "call")
    /\ UNCHANGED <<at, servers, routing, responses, noise, up, pipe, listed>>

RefusesWith(ids) ==
    /\ nextId' = ids
    /\ responses' = Append(responses, [tool |-> asked', by |-> 0, of |-> 0])
    /\ UNCHANGED <<bridgePc, at, servers, routing, waitId, noise, up, inbox, pipe, listed>>

NoSuchTool == HasRequest /\ routing[asked'] = 0 /\ RefusesWith(nextId)

\* The server is gone, and the write fails.
WriteFails ==
    /\ HasRequest /\ routing[asked'] > 0
    /\ LET c == servers[routing[asked']]
       IN  c \notin up /\ RefusesWith([nextId EXCEPT ![c] = @ + 1])

\* A request of the server's own has no result, which is an error.
Answered ==
    /\ bridgePc = "call"
    /\ \/ ReadFails /\ Responds(0, 0)
       \/ /\ HasAnswer /\ TakesLine
          /\ Responds(IF NextLine.of = 0 THEN 0 ELSE Partner, NextLine.of)
    /\ UNCHANGED <<at, servers, routing, nextId, waitId, asked, noise, up, inbox, listed>>

\* stdin is closed: stdin of each server is closed, and what then still runs is killed.  One
\* that was started in vain is not among them.
BridgeCloses ==
    /\ bridgePc = "serve"
    /\ bridgePc' = "closed"
    /\ up' = up \ {servers[i] : i \in DOMAIN servers}
    /\ inbox' = [c \in Configs |-> IF c \in up' THEN inbox[c] ELSE {}]
    /\ UNCHANGED <<at, servers, routing, nextId, waitId, asked, responses, noise, pipe,
                   listed>>

BridgeNext ==
    \/ \E c \in Configs : ServerAnswers(c) \/ ServerSpeaks(c) \/ ServerDies(c)
    \/ SkipLine \/ Panics
    \/ StartServer \/ Initialized \/ StartFails \/ Listed
    \/ Passes \/ NoSuchTool \/ WriteFails \/ Answered \/ BridgeCloses

-----------------------------------------------------------------------------
(* Properties. *)

Latest(S) == CHOOSE c \in S : \A d \in S : d <= c

\* What a request is answered with is the answer to this very request, by the server that
\* listed the tool last: whichever servers failed to start, and however late, noisy or out
\* of order the others are.
AnswersAreOwn ==
    \A n \in DOMAIN responses :
        LET r == responses[n]
        IN  r.by # 0 => /\ r.of = n
                        /\ r.by = Latest({c \in Configs : r.tool \in listed[c]})
=============================================================================
