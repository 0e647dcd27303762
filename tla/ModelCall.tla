------------------------------ MODULE ModelCall ------------------------------
(***************************************************************************)
(* One call of the model: phyl-run starts an adapter, gives it the request *)
(* and judges what it prints; the adapter asks the service, and finds the  *)
(* tool calls in what that answers.  ModelAdapters has the requests; this  *)
(* is the way back.                                                        *)
(*                                                                         *)
(* An answer is a sequence of tokens, the smallest things the adapters     *)
(* tell apart: "open" and "close" stand for <tool_call> and </tool_call>,  *)
(* "ropen" and "rclose" for <tool_result> and its end, "call" for the JSON *)
(* of a call with a name and arguments, "error" for a text that begins     *)
(* with "Error:", "text" for any other, "junk" for a call with arguments   *)
(* that are no JSON.  Content and calls are given by positions in it.      *)
(***************************************************************************)
EXTENDS Integers, SequencesExt, Selections

CONSTANTS
    MaxTokens,      \* bound: tokens of an answer
    MaxRetries      \* MODEL_MAX_RETRIES

ASSUME CallBoundsNat == {MaxTokens, MaxRetries} \subseteq Nat

VARIABLES
    adapter,    \* the binary that is configured, and for openai its mode
    attempt,    \* of invoke_model_with_retry, from 0
    callPc,     \* "waiting" for the adapter, or where the adapter or the runner is
    answer,     \* the service's answer to the last attempt
    from,       \* where the unread part of it begins
    content,    \* the text of the response, by positions
    kept,       \* those of the content that strip_xml_blocks has decided to keep
    calls       \* the tool calls of the response, by positions

callVars == <<adapter, attempt, callPc, answer, from, content, kept, calls>>

TextTokens == {"text", "error", "open", "close", "call", "ropen", "rclose"}
NativeTokens == {"text", "error", "call", "junk"}
AnthropicTokens == {"text", "error", "call", "other"}

\* What a service can answer: text in which calls are written as text, or a text and a list.
Answers(a) ==
    LET native(tokens) == BoundedSeq(tokens, MaxTokens - 1)
    IN  CASE a = "anthropic" -> native(AnthropicTokens)
          [] a = "native" -> native(NativeTokens)
          [] OTHER -> BoundedSeq(TextTokens, MaxTokens)

CallTypeOK ==
    /\ adapter \in {"anthropic", "native", "xml", "claude"}
    /\ attempt \in 0..MaxRetries
    /\ callPc \in {"waiting", "reading", "stripping", "judging", "taken", "failed"}
    /\ answer \in Answers(adapter)
    /\ from \in 1..(MaxTokens + 1)
    /\ {Range(s) : s \in {content, kept, calls}} \subseteq SUBSET DOMAIN answer

CallInit ==
    /\ adapter \in {"anthropic", "native", "xml", "claude"}
    /\ attempt = 0
    /\ callPc = "waiting"
    /\ answer = <<>> /\ from = 1
    /\ content = <<>> /\ kept = <<>> /\ calls = <<>>

\* The operators named Mutant... are plausible bugs, each in the form of the
\* definition that follows it; no specification uses them.

CallGoes(a, b) == callPc = a /\ callPc' = b

-----------------------------------------------------------------------------
(* The service, and what run_model makes of it. *)

ServiceAnswers ==
    /\ CallGoes("waiting", "reading")
    /\ answer' \in Answers(adapter)
    /\ from' = 1
    /\ content' = <<>> /\ kept' = <<>> /\ calls' = <<>>
    /\ UNCHANGED <<adapter, attempt>>

AnswersWithText(token) ==
    /\ CallGoes("waiting", "judging")
    /\ answer' = <<token>> /\ from' = 2
    /\ content' = <<1>> /\ kept' = <<>> /\ calls' = <<>>
    /\ UNCHANGED <<adapter, attempt>>

\* No key, no connection, an error status, a body that is cut off, no choices: the adapter
\* answers with a text "Error: ..." and exits with 0.
ServiceFails == adapter # "claude" /\ AnswersWithText("error")

\* The claude CLI cannot be started, fails or prints no JSON.  An error that it reports
\* itself (is_error) goes through as it is worded.
CliFails == adapter = "claude" /\ \E token \in {"error", "text"} : AnswersWithText(token)

-----------------------------------------------------------------------------
(* Native answers are read as they come. *)

Those(tokens) == {i \in DOMAIN answer : answer[i] \in tokens}

\* openai: a call with arguments that do not parse is left out, without a word.
ReadNative ==
    /\ adapter = "native" /\ CallGoes("reading", "judging")
    /\ content' = Ordered(Those({"text", "error"}))
    /\ calls' = Ordered(Those({"call"}))
    /\ from' = Len(answer) + 1
    /\ UNCHANGED <<adapter, attempt, answer, kept>>

\* anthropic: a block of a kind it does not know makes the whole answer an error.
ReadAnthropic ==
    /\ adapter = "anthropic" /\ CallGoes("reading", "judging")
    /\ IF "other" \in Range(answer)
       THEN answer' = <<"error">> /\ content' = <<1>> /\ calls' = <<>> /\ from' = 2
       ELSE /\ content' = Ordered(Those({"text", "error"}))
            /\ calls' = Ordered(Those({"call"}))
            /\ from' = Len(answer) + 1
            /\ UNCHANGED answer
    /\ UNCHANGED <<adapter, attempt, kept>>

-----------------------------------------------------------------------------
(* extract_tool_calls: one round of the loop is one step. *)

Span(i, j) == [n \in 1..(j - i + 1) |-> i + n - 1]

\* str::find: the first position with the token, none if there is none.
Find(token, i) ==
    LET found == {j \in i..Len(answer) : answer[j] = token}
    IN  IF found = {} THEN 0 ELSE Min(found)

ReadsText == adapter \in {"xml", "claude"} /\ callPc = "reading"

\* The end is looked for from where the unread text begins.
MutantReadBlock ==
    /\ ReadsText
    /\ LET start == Find("open", from)
           end == Find("close", from)
       IN  /\ start > 0 /\ end > 0
           /\ content' = content \o Span(from, start - 1)
           /\ calls' = IF end = start + 2 /\ answer[start + 1] = "call"
                       THEN Append(calls, start + 1) ELSE calls
           /\ from' = end + 1
    /\ UNCHANGED <<adapter, attempt, callPc, answer, kept>>

\* A block with anything else than one call in it is dropped.
ReadBlock ==
    /\ ReadsText
    /\ LET start == Find("open", from)
           end == Find("close", start + 1)
       IN  /\ start > 0 /\ end > 0
           /\ content' = content \o Span(from, start - 1)
           /\ calls' = IF end = start + 2 /\ answer[start + 1] = "call"
                       THEN Append(calls, start + 1) ELSE calls
           /\ from' = end + 1
    /\ UNCHANGED <<adapter, attempt, callPc, answer, kept>>

\* No further block, or one that is not closed: the rest is content.
ReadRest ==
    /\ ReadsText
    /\ Find("open", from) > 0 => Find("close", Find("open", from) + 1) = 0
    /\ content' = content \o Span(from, Len(answer))
    /\ from' = Len(answer) + 1
    /\ callPc' = IF adapter = "claude" /\ calls # <<>> THEN "stripping" ELSE "judging"
    /\ UNCHANGED <<adapter, attempt, answer, kept, calls>>

\* strip_xml_blocks, on the content that is left; <tool_output> is like <tool_result>.
FindIn(s, token, i) ==
    LET found == {j \in i..Len(s) : answer[s[j]] = token}
    IN  IF found = {} THEN 0 ELSE Min(found)

StripBlock ==
    /\ callPc = "stripping"
    /\ LET start == FindIn(content, "ropen", 1)
           end == FindIn(content, "rclose", start + 1)
       IN  /\ start > 0 /\ end > 0
           /\ kept' = kept \o SubSeq(content, 1, start - 1)
           /\ content' = SubSeq(content, end + 1, Len(content))
    /\ UNCHANGED <<adapter, attempt, callPc, answer, from, calls>>

StripRest ==
    /\ CallGoes("stripping", "judging")
    /\ FindIn(content, "ropen", 1) > 0
          => FindIn(content, "rclose", FindIn(content, "ropen", 1) + 1) = 0
    /\ content' = kept \o content
    /\ kept' = <<>>
    /\ UNCHANGED <<adapter, attempt, answer, from, calls>>

-----------------------------------------------------------------------------
(* phyl-run: invoke_model_with_retry. *)

IsError == content # <<>> /\ answer[Head(content)] = "error"

Fresh == answer' = <<>> /\ from' = 1 /\ content' = <<>> /\ kept' = <<>> /\ calls' = <<>>

\* A new process, which knows nothing of the one before.
Retries ==
    /\ attempt < MaxRetries
    /\ attempt' = attempt + 1
    /\ callPc' = "waiting"
    /\ Fresh

Ends(how) ==
    /\ callPc' = how
    /\ UNCHANGED <<attempt, answer, from, content, kept, calls>>

\* It cannot be started, it fails or prints no JSON, or it takes more than 300 seconds and
\* is killed.  What it was about to answer is lost.
AdapterFails ==
    /\ callPc \in {"waiting", "reading", "stripping"}
    /\ Retries \/ (attempt = MaxRetries /\ Ends("failed"))
    /\ UNCHANGED adapter

Judge ==
    /\ callPc = "judging"
    /\ IF IsError /\ calls = <<>> /\ attempt < MaxRetries
       THEN Retries
       ELSE Ends("taken")
    /\ UNCHANGED adapter

CallNext ==
    \/ ServiceAnswers \/ ServiceFails \/ CliFails \/ ReadNative \/ ReadAnthropic
    \/ ReadBlock \/ ReadRest \/ StripBlock \/ StripRest
    \/ AdapterFails \/ Judge

-----------------------------------------------------------------------------
(* Properties. *)

\* s has the numbers of S, in their order.
Lists(s, S) == Range(s) = S /\ \A i, j \in DOMAIN s : i < j => s[i] < s[j]

\* Blocks, as a reader of the tokens a at the positions P sees them: the block that begins
\* at b ends with the next c.
EndsBefore(a, P, c, b, i) == \E e \in P : b < e /\ e < i /\ a[e] = c

\* All blocks begin at `begins`: with an o, outside of the blocks before it, and with a c
\* somewhere behind.
Blocks(a, P, begins, o, c) ==
    \A i \in P :
        i \in begins <=>
            /\ a[i] = o
            /\ \E e \in P : i < e /\ a[e] = c
            /\ \A b \in begins : b < i => EndsBefore(a, P, c, b, i)

OutsideOf(a, P, begins, c) ==
    {i \in P : \A b \in begins : b <= i => EndsBefore(a, P, c, b, i)}

CallsIn(a, begins) ==
    {i \in DOMAIN a :
        a[i] = "call" /\ i - 1 \in begins /\ i + 1 \in DOMAIN a /\ a[i + 1] = "close"}

AsWritten ==
    IF adapter \in {"anthropic", "native"}
    THEN Lists(calls, Those({"call"})) /\ Lists(content, Those({"text", "error"}))
    ELSE \E begins \in SUBSET DOMAIN answer :
            /\ Blocks(answer, DOMAIN answer, begins, "open", "close")
            /\ Lists(calls, CallsIn(answer, begins))
            /\ LET text == OutsideOf(answer, DOMAIN answer, begins, "close")
               IN  IF adapter = "claude" /\ calls # <<>>
                   THEN \E results \in SUBSET text :
                           /\ Blocks(answer, text, results, "ropen", "rclose")
                           /\ Lists(content, OutsideOf(answer, text, results, "rclose"))
                   ELSE Lists(content, text)

\* What the runner takes as the answer has every call the service wrote down correctly, in
\* order and no other, and every text around them; for phyl-model-claude without the
\* results it made up, which are stripped only together with a call.
CallsAsWritten == callPc = "taken" => AsWritten
=============================================================================
