---------------------------- MODULE ModelAdapters ----------------------------
(***************************************************************************)
(* What the model is shown: the request that each adapter makes out of the *)
(* history of a SessionRunner.  An adapter is one process for each call of *)
(* the model and keeps no state; phyl-model-anthropic sends messages of    *)
(* blocks, phyl-model-openai chat messages with native tool calls or with  *)
(* calls and results as text ("xml"), phyl-model-claude one prompt.        *)
(*                                                                         *)
(* A message consists of parts, the smallest things a request can lose: a  *)
(* text, a call, a result.  How a part is written down is left out, and so *)
(* are the tool definitions, which are the same in every request.          *)
(***************************************************************************)
EXTENDS SessionRunner

Said(t) == <<"said", t>>
Use(t, k) == <<"use", t, k>>
Result(t, k) == <<"result", t, k>>

\* An answer says something or says nothing; in the second case its text is an empty one.
Parts(m) ==
    CASE m[1] = "assistant" -> <<Said(m[2])>> \o [k \in DOMAIN m[3] |-> Use(m[2], k)]
      [] m[1] = "tool" -> <<Result(m[2], m[3])>>
      [] OTHER -> <<m>>

\* The operators named Mutant... are plausible bugs, each in the form of the
\* definition that follows it; no specification uses them.

\* Every adapter puts the system messages first, and takes the others in their order.
SystemOf(h) == Select(h, {System})
Conversation(h) == Select(h, Range(h) \ {System})

PartsOf(h) == Joined([i \in DOMAIN h |-> Parts(h[i])])

---------------------------------------------------------------------------
(* phyl-model-anthropic: roles alternate, so neighbours of one role are merged. *)

\* A result is pushed as a message of its own.
MutantMergeOrPush(messages, role, blocks) ==
    IF /\ messages # <<>> /\ Last(messages).role = role
       /\ Head(blocks)[1] # "result"
    THEN [messages EXCEPT ![Len(messages)].blocks = @ \o blocks]
    ELSE Append(messages, [role |-> role, blocks |-> blocks])

MergeOrPush(messages, role, blocks) ==
    IF messages # <<>> /\ Last(messages).role = role
    THEN [messages EXCEPT ![Len(messages)].blocks = @ \o blocks]
    ELSE Append(messages, [role |-> role, blocks |-> blocks])

AnthropicRole(m) == IF m[1] = "assistant" THEN "assistant" ELSE "user"

Merged(c) ==
    LET upTo[n \in 0..Len(c)] ==
            IF n = 0 THEN <<>>
            ELSE MergeOrPush(upTo[n - 1], AnthropicRole(c[n]), Parts(c[n]))
    IN  upTo[Len(c)]

AnthropicMessages(h) == Merged(Conversation(h))

---------------------------------------------------------------------------
(* phyl-model-openai: one chat message for each message. *)

ChatMessage(m, role) == [role |-> role, blocks |-> Parts(m)]

NativeRole(m) == IF m[1] \in {"assistant", "tool"} THEN m[1] ELSE "user"
NativeMessages(h) ==
    LET c == Conversation(h) IN  [i \in DOMAIN c |-> ChatMessage(c[i], NativeRole(c[i]))]

\* A result becomes the text of a user message.
XmlRole(m) == IF m[1] = "assistant" THEN "assistant" ELSE "user"
XmlMessages(h) ==
    LET c == Conversation(h) IN  [i \in DOMAIN c |-> ChatMessage(c[i], XmlRole(c[i]))]

---------------------------------------------------------------------------
(* phyl-model-claude: everything but the last message between history tags, *)
(* then the bare content of the last one, which has no label and no calls.  *)

Content(m) == <<Head(Parts(m))>>

\* The current turn is what the user said last.
MutantClaudePrompt(h) ==
    LET c == Conversation(h)
        users == Select(c, {m \in Range(c) : m[1] \in {"user", "summary"}})
    IN  PartsOf(Select(c, Range(c) \ {Last(users)})) \o Content(Last(users))

ClaudePrompt(h) ==
    LET c == Conversation(h)
    IN  IF Len(c) = 1 THEN Content(c[1]) ELSE PartsOf(Front(c)) \o Content(Last(c))

---------------------------------------------------------------------------
(* Properties. *)

Uses(b) == {p \in Range(b) : p[1] = "use"}
Results(b) == {p \in Range(b) : p[1] = "result"}
Answering(uses) == {Result(p[2], p[3]) : p \in uses}

Blocks(messages) == Joined([i \in DOMAIN messages |-> messages[i].blocks])

\* What the Messages API asks of a conversation: user and assistant alternate and the user
\* begins, and the message after an answer with calls has their results before anything else.
Alternates(messages) ==
    \A i \in DOMAIN messages : messages[i].role = IF i % 2 = 1 THEN "user" ELSE "assistant"

AnsweredNext(messages) ==
    \A i \in DOMAIN messages :
        LET uses == Uses(messages[i].blocks)
        IN  uses # {} =>
                /\ i < Len(messages)
                /\ Range(SubSeq(messages[i + 1].blocks, 1, Cardinality(uses))) = Answering(uses)

\* What the Chat Completions API asks: the tool messages right after an answer are the
\* results of its calls.
ToolsFollow(messages) ==
    \A i \in DOMAIN messages :
        LET uses == Uses(messages[i].blocks)
        IN  /\ i + Cardinality(uses) <= Len(messages)
            /\ UNION {Results(messages[i + k].blocks) : k \in 1..Cardinality(uses)}
                   = Answering(uses)

\* A result without its call is found right behind the summary and nowhere else: the calls
\* have been compressed away, but not their results (crates/phyl-run/src/main.rs:1597).
OrphansFollowSummary ==
    \A i \in DOMAIN history :
        /\ history[i][1] = "tool"
        /\ \A j \in DOMAIN history : history[j][1] = "assistant" => history[j][2] # history[i][2]
        => \E s \in 1..(i - 1) :
               /\ history[s] = Summary
               /\ \A j \in (s + 1)..i : history[j][1] = "tool"

\* Whenever the model is called, the request has the shape that the APIs of Anthropic and
\* OpenAI ask for, whatever tools were called in what order, whatever was said in between
\* and however often the history was compressed; only a compression can leave results
\* without calls, and only at the front.
CallsStayPaired ==
    pc = "loop" =>
        /\ Alternates(AnthropicMessages(history))
        /\ AnsweredNext(AnthropicMessages(history))
        /\ ToolsFollow(NativeMessages(history))
        /\ OrphansFollowSummary

\* Whenever the model is called, each adapter shows it the whole history, in order, nothing
\* twice.  For phyl-model-claude it is because the last message is never an answer: its
\* calls would not be shown.
NothingForgotten ==
    pc = "loop" =>
        LET whole == PartsOf(Conversation(history))
        IN  /\ SystemOf(history) \o Conversation(history) = history
            /\ Blocks(AnthropicMessages(history)) = whole
            /\ Blocks(NativeMessages(history)) = whole
            /\ Blocks(XmlMessages(history)) = whole
            /\ ClaudePrompt(history) = whole
=============================================================================
