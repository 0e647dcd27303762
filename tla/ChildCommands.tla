---------------------------- MODULE ChildCommands ----------------------------
(***************************************************************************)
(* A one-shot tool of the runner that runs a program of its own: `bash`    *)
(* runs a shell, `web_fetch` a Chromium that prints the page, or a Firefox *)
(* it talks to over a socket (Marionette).                                 *)
(*                                                                         *)
(* Two programs wait here, each with a timeout of its own: the runner for  *)
(* the tool, and the tool for the command.  The tool reads the command's   *)
(* stdout to its end, then its stderr, and then asks for its status.  The  *)
(* pipes hold little, and whatever the command has started holds them too. *)
(* There is no clock: a timeout may strike whenever somebody waits.        *)
(***************************************************************************)
EXTENDS Integers, Sequences

CONSTANTS
    PipeSize,       \* what a pipe holds
    MaxChunks       \* bound: what is written to each of stdout and stderr

ASSUME ChunksNat == {PipeSize, MaxChunks} \subseteq Nat

Streams == {"stdout", "stderr"}

VARIABLES
    tool,       \* "bash", "chromium" or "firefox"
    toolPc,     \* "start", "waiting", "cleaning" up, "told" or "killed"
    thread,     \* the one of wait_with_timeout: a stream, "status" or "through"
    command,    \* the shell or the browser: "none", "running", "exited" or "killed"
    success,    \* its exit status
    helper,     \* a process it has started and does not wait for: as command
    written, taken, \* chunks written to each stream, and those of them that were read
    binary,     \* the streams to which something was written that is no UTF-8
    profile,    \* the browser's directory in /tmp exists
    step,       \* of firefox_marionette_session: the id it waits for, 0 for the handshake
    unanswered, \* the ids Marionette has not answered
    wire,       \* its answers that were not read: <<id, whether it is no error>>
    pageOf,     \* the id of the answer that the page was taken from
    output,     \* what the tool has to tell: "nothing", "ok", "failed" or "timeout"
    heard       \* what the runner hears of it, or "killed" after its own timeout

commandVars == <<command, success, helper>>
pipeVars == <<thread, written, taken, binary>>
firefoxVars == <<step, unanswered, wire, pageOf>>
tellVars == <<output, heard>>
childVars == <<tool, toolPc, commandVars, pipeVars, profile, firefoxVars, tellVars>>

ChildInit ==
    /\ tool \in {"bash", "chromium", "firefox"}
    /\ toolPc = "start" /\ thread = "stdout"
    /\ command = "none" /\ success = FALSE /\ helper = "none"
    /\ written = [s \in Streams |-> 0] /\ taken = written /\ binary = {}
    /\ profile = FALSE
    /\ step = -1 /\ unanswered = <<>> /\ wire = <<>> /\ pageOf = 0
    /\ output = "nothing" /\ heard = "nothing"

\* The operators named Mutant... are plausible bugs, each in the form of the
\* definition that follows it; no specification uses them.

\* It has something to tell, and cleans up first.
Concludes(why) == toolPc' = "cleaning" /\ output' = why

-----------------------------------------------------------------------------
(* The command, and what it leaves behind. *)

\* What holds the ends of the pipes that are written to.
Holders == {p \in {command, helper} : p = "running"}

Piped == tool # "firefox" /\ Holders # {}

\* A full pipe holds up whoever writes to it.
Writes(s) ==
    /\ Piped /\ toolPc = "waiting"
    /\ written[s] < MaxChunks /\ written[s] - taken[s] < PipeSize
    /\ written' = [written EXCEPT ![s] = @ + 1]
    /\ binary' \in {binary, binary \cup {s}}
    /\ UNCHANGED <<tool, toolPc, commandVars, thread, taken, profile, firefoxVars, tellVars>>

Forks ==
    /\ tool # "firefox" /\ command = "running" /\ helper = "none"
    /\ helper' = "running"
    /\ UNCHANGED <<tool, toolPc, command, success, pipeVars, profile, firefoxVars, tellVars>>

\* Neither of them knows of a timeout, and either may run forever.
CommandEnds ==
    /\ \/ command = "running" /\ command' = "exited" /\ success' \in BOOLEAN /\ UNCHANGED helper
       \/ helper = "running" /\ helper' = "exited" /\ UNCHANGED <<command, success>>
    /\ UNCHANGED <<tool, toolPc, pipeVars, profile, firefoxVars, tellVars>>

-----------------------------------------------------------------------------
(* run_command and fetch_with_chromium, over the thread of wait_with_timeout. *)

\* Input that is not for this tool: it prints why and exits with 1.
Refuses ==
    /\ toolPc = "start"
    /\ toolPc' = "told" /\ output' = "failed"
    /\ UNCHANGED <<tool, commandVars, pipeVars, profile, firefoxVars, heard>>

\* Firefox's directory is made before it is started; Chromium makes its own.
Starts ==
    /\ toolPc = "start"
    /\ \/ /\ toolPc' = "waiting" /\ command' = "running"
          /\ profile' = (tool # "bash")
          /\ UNCHANGED output
       \/ Concludes("failed") /\ profile' = (tool = "firefox") /\ UNCHANGED command
    /\ UNCHANGED <<tool, success, helper, pipeVars, firefoxVars, heard>>

\* Whoever runs takes what is there.
Reads(s) ==
    /\ toolPc = "waiting" /\ tool # "firefox" /\ thread = s /\ taken[s] < written[s]
    /\ taken' = [taken EXCEPT ![s] = written[s]]
    /\ UNCHANGED <<tool, toolPc, commandVars, thread, written, binary, profile, firefoxVars,
                   tellVars>>

\* The end of the shell is the end of its output.
MutantEndOf(s) == taken[s] = written[s] /\ command # "running"

EndOf(s) == taken[s] = written[s] /\ Holders = {}

ReadsOn ==
    /\ toolPc = "waiting" /\ tool # "firefox"
    /\ \/ thread = "stdout" /\ EndOf("stdout") /\ thread' = "stderr"
       \/ thread = "stderr" /\ EndOf("stderr") /\ thread' = "status"
       \/ thread = "status" /\ command # "running" /\ thread' = "through"
    /\ UNCHANGED <<tool, toolPc, commandVars, written, taken, binary, profile, firefoxVars, tellVars>>

\* read_to_string gives nothing at all of bytes that are no UTF-8, and its error is ignored.
Gathered(s) == IF s \in binary THEN 0 ELSE taken[s]

\* The shell's status counts; Chromium's does not, only that it has printed something.
Gathers ==
    /\ toolPc = "waiting" /\ tool # "firefox" /\ thread = "through"
    /\ LET good == (tool = "bash" /\ success) \/ (tool = "chromium" /\ Gathered("stdout") > 0)
       IN  Concludes(IF good THEN "ok" ELSE "failed")
    /\ UNCHANGED <<tool, commandVars, pipeVars, profile, firefoxVars, heard>>

\* SIGKILL for one process: the helper is not killed, although the code's comment on it says so.
\* What was read so far is not passed on.
TimesOut ==
    /\ toolPc = "waiting" /\ tool # "firefox" /\ thread # "through"
    /\ command' = IF command = "running" THEN "killed" ELSE command
    /\ Concludes("timeout")
    /\ UNCHANGED <<tool, success, helper, pipeVars, profile, firefoxVars, heard>>

-----------------------------------------------------------------------------
(* firefox_marionette_session: the handshake, NewSession, Navigate, ExecuteScript, and *)
(* DeleteSession, which is 4, or 99 after Navigate has failed.                         *)

Talks == tool = "firefox" /\ toolPc = "waiting"

AsksFor(id) == step' = id /\ unanswered' = Append(unanswered, id)

\* It answers what it was asked, in this order, sooner or later.
MarionetteAnswers ==
    /\ command = "running" /\ unanswered # <<>>
    /\ unanswered' = Tail(unanswered)
    /\ \E ok \in BOOLEAN : wire' = Append(wire, <<Head(unanswered), ok>>)
    /\ UNCHANGED <<tool, toolPc, commandVars, pipeVars, profile, step, pageOf, tellVars>>

Connects ==
    /\ Talks /\ step = -1 /\ command = "running"
    /\ AsksFor(0)
    /\ UNCHANGED <<tool, toolPc, commandVars, pipeVars, profile, wire, pageOf, tellVars>>

\* marionette_call takes the next answer for its own: it does not compare the id.
CallReturns ==
    /\ Talks /\ step \in 0..3
    /\ wire # <<>> /\ Head(wire)[2]
    /\ wire' = Tail(wire)
    /\ AsksFor(step + 1)
    /\ pageOf' = IF step = 3 THEN Head(wire)[1] ELSE pageOf
    /\ UNCHANGED <<tool, toolPc, commandVars, pipeVars, profile, tellVars>>

CallBreaks ==
    /\ Talks /\ step \in -1..3
    /\ \/ wire # <<>> /\ ~Head(wire)[2] /\ wire' = Tail(wire)
       \/ UNCHANGED wire      \* a timeout, or the socket is closed

CallFails ==
    /\ CallBreaks
    /\ \/ step < 2 /\ Concludes("failed") /\ UNCHANGED <<step, unanswered>>
       \/ step = 2 /\ AsksFor(99) /\ UNCHANGED <<toolPc, output>>
       \/ step = 3 /\ AsksFor(4) /\ UNCHANGED <<toolPc, output>>
    /\ UNCHANGED <<tool, commandVars, pipeVars, profile, pageOf, heard>>

\* Whatever is answered, or nothing in time.  The page may have been empty.
SessionDeleted ==
    /\ Talks /\ step \in {4, 99}
    /\ wire' = IF wire = <<>> THEN wire ELSE Tail(wire)
    /\ \E result \in {"failed", IF pageOf = 0 THEN "failed" ELSE "ok"} : Concludes(result)
    /\ UNCHANGED <<tool, commandVars, pipeVars, profile, step, unanswered, pageOf, heard>>

-----------------------------------------------------------------------------
(* The way back: fetch_with_firefox kills its browser, and the directory goes. *)

\* What a killed Chromium has left running may still put files there.
CleansUp ==
    /\ toolPc = "cleaning" /\ toolPc' = "told"
    /\ command' = IF tool = "firefox" /\ command = "running" THEN "killed" ELSE command
    /\ profile' \in {FALSE, profile /\ helper = "running"}
    /\ UNCHANGED <<tool, success, helper, pipeVars, firefoxVars, tellVars>>

\* invoke_oneshot_tool: the tool's own pipes end with it, as the command has others.
RunnerHears ==
    /\ heard = "nothing" /\ toolPc = "told"
    /\ heard' = output
    /\ UNCHANGED <<tool, toolPc, commandVars, pipeVars, profile, firefoxVars, output>>

\* The runner's 120 seconds began before those of the tool: of the two timeouts of `bash` it
\* is mostly this one that strikes.  Only the tool is killed.
RunnerTimesOut ==
    /\ heard = "nothing"
    /\ heard' = "killed"
    /\ toolPc' = IF toolPc = "told" THEN toolPc ELSE "killed"
    /\ UNCHANGED <<tool, commandVars, pipeVars, profile, firefoxVars, output>>

ChildNext ==
    \/ \E s \in Streams : Writes(s) \/ Reads(s)
    \/ Forks \/ CommandEnds \/ Refuses \/ Starts \/ ReadsOn \/ Gathers \/ TimesOut
    \/ MarionetteAnswers \/ Connects \/ CallReturns \/ CallFails \/ SessionDeleted
    \/ CleansUp \/ RunnerHears \/ RunnerTimesOut

-----------------------------------------------------------------------------
(* Properties. *)

Whole == \A s \in Streams : s \notin binary => Gathered(s) = written[s]

\* What the model is given as a command's output, or as a page, is all of it: everything
\* that the command and its helpers ever wrote to a stream, if it is text, or the answer to
\* the question for the page after the page was reached, although the answers are not told
\* apart by their ids.  And unless the runner was tired of waiting, the command is over by
\* then, and the browser's directory is only left where a helper of it has outlived it.
OutputIsWhole ==
    /\ heard = "ok" =>
          IF tool = "firefox" THEN pageOf = 3
          ELSE Whole /\ Holders = {} /\ (tool = "bash" => success)
    /\ heard = "failed" /\ command = "exited" => Whole
    /\ heard \notin {"nothing", "killed"} =>
          command # "running" /\ (profile => helper # "none")
=============================================================================
