------------------------------ MODULE Periphery ------------------------------
(***************************************************************************)
(* What is around the daemon and the loop of a session: the way of a model *)
(* call through an adapter, the bridge to MCP servers, those who follow a  *)
(* session's log, the Signal bridge's inbox, the files of knowledge/, the  *)
(* rows of psyche.db that Psyche leaves out, and the programs that tools   *)
(* run.                                                                    *)
(*                                                                         *)
(* They run at the same time and share nothing but the daemon, the log and *)
(* the lock that each module has its own view of: a behaviour has one.     *)
(***************************************************************************)
EXTENDS ModelCall, McpBridge, LogFollowers, SignalInbox, KnowledgeFiles,
        PsycheRecords, ChildCommands

VARIABLE part       \* the part that runs

vars == <<part, callVars, bridgeVars, followVars, inboxVars, fileVars, recordVars, childVars>>

\* What does not run stands at one of its initial states.
Init ==
    /\ part \in {"call", "mcp", "log", "signal", "files", "records", "child"}
    /\ CallInit /\ (part # "call" => adapter = "xml")
    /\ FollowInit /\ (part # "log" => follower = "session")
    /\ ChildInit /\ (part # "child" => tool = "bash")
    /\ BridgeInit /\ InboxInit /\ FilesInit /\ RecordsInit

Call == part = "call" /\ CallNext
        /\ UNCHANGED <<part, bridgeVars, followVars, inboxVars, fileVars, recordVars, childVars>>
Mcp == part = "mcp" /\ BridgeNext
       /\ UNCHANGED <<part, callVars, followVars, inboxVars, fileVars, recordVars, childVars>>
Log == part = "log" /\ FollowNext
       /\ UNCHANGED <<part, callVars, bridgeVars, inboxVars, fileVars, recordVars, childVars>>
Signal == part = "signal" /\ InboxNext
          /\ UNCHANGED <<part, callVars, bridgeVars, followVars, fileVars, recordVars, childVars>>
Files == part = "files" /\ FilesNext
         /\ UNCHANGED <<part, callVars, bridgeVars, followVars, inboxVars, recordVars, childVars>>
Rows == part = "records" /\ RecordsNext
        /\ UNCHANGED <<part, callVars, bridgeVars, followVars, inboxVars, fileVars, childVars>>
Child == part = "child" /\ ChildNext
         /\ UNCHANGED <<part, callVars, bridgeVars, followVars, inboxVars, fileVars, recordVars>>

Next == Call \/ Mcp \/ Log \/ Signal \/ Files \/ Rows \/ Child

Spec == Init /\ [][Next]_vars

\* The followers are programs that run on, and the daemon's reaper looks every five seconds.
\* Nobody promises that a session ends or that a daemon is restarted.
FairSpec ==
    /\ Spec
    /\ WF_followVars(part = "log" /\ Following)
    /\ WF_followVars(part = "log" /\ DaemonNotices)

-----------------------------------------------------------------------------
(* A tail or a feed is there only where the log is followed. *)
EndsAreHeard == part = "log" => FollowersCatchUp
=============================================================================
