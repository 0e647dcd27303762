--------------------------- MODULE Periphery_proofs ---------------------------
(***************************************************************************)
(* What is proved of Periphery.  The parts are proved one by one, each by  *)
(* an inductive invariant of its own: the bridge to MCP servers, the rows  *)
(* of psyche.db, the files of knowledge/, the programs that tools run, the *)
(* Signal bridge's inbox, the followers of a log and the call of a model.  *)
(* The last section shows that a behaviour of the whole is one of each.    *)
(***************************************************************************)
EXTENDS Periphery, Selections_proofs

-----------------------------------------------------------------------------
(* McpBridge, for any number of servers, tools and requests, and however   *)
(* noisy the servers are: the answers passed on are answers to the         *)
(* requests they are passed on for.                                        *)

BridgeSpec == BridgeInit /\ [][BridgeNext]_bridgeVars

Lines == [id : Int, of : Int, names : SUBSET Tools]
Starting == {"start", "initialize", "list"}

BridgeTypeOK ==
    /\ bridgePc \in Starting \cup {"serve", "call", "closed", "panicked"}
    /\ at \in Configs
    /\ servers \in Seq(Configs)
    /\ routing \in [Tools -> Nat]
    /\ nextId \in [Configs -> Nat \ {0}]
    /\ waitId \in Nat
    /\ responses \in Seq([tool : Tools, by : Configs \cup {0}, of : Int])
    /\ inbox \in [Configs -> SUBSET (Nat \X Int)]
    /\ pipe \in [Configs -> Seq(Lines)]
    /\ listed \in [Configs -> SUBSET Tools]

\* Each server has been asked with ids below the next one, and answers with them.
IdBooks ==
    \A c \in Configs :
        /\ \A r \in inbox[c] : r[1] < nextId[c]
        /\ \A i \in 1..Len(pipe[c]) : pipe[c][i].of # 0 => pipe[c][i].id < nextId[c]

\* What bears the id that the bridge waits for is the request under way, or its answer.
WaitBooks ==
    bridgePc = "call" =>
        /\ asked \in Tools /\ routing[asked] > 0
        /\ LET c == servers[routing[asked]]
           IN  /\ \A r \in inbox[c] : r[1] = waitId => r[2] = Len(responses) + 1
               /\ \A i \in 1..Len(pipe[c]) :
                     pipe[c][i].id = waitId /\ pipe[c][i].of # 0 =>
                        pipe[c][i].of = Len(responses) + 1

\* A name is routed to the last of the servers that listed it; those to come have not.
RouteBooks ==
    /\ \A t \in Tools :
          /\ routing[t] <= Len(servers)
          /\ \A c \in Configs :
                t \in listed[c] => routing[t] > 0 /\ c <= servers[routing[t]]
          /\ routing[t] > 0 => t \in listed[servers[routing[t]]]
    /\ bridgePc \in Starting => \A c \in Configs : c >= at => listed[c] = {}

\* Nothing is answered before the servers are known, and then each request with its own.
AnswerBooks ==
    /\ bridgePc \in Starting => responses = <<>>
    /\ \A n \in 1..Len(responses) :
          LET r == responses[n]
          IN  r.by # 0 => r.of = n /\ routing[r.tool] > 0 /\ r.by = servers[routing[r.tool]]

BridgeIInv == BridgeTypeOK /\ IdBooks /\ WaitBooks /\ RouteBooks /\ AnswerBooks

LEMMA BridgeInitIInv == BridgeInit => BridgeIInv
  <1> SUFFICES ASSUME BridgeInit PROVE BridgeIInv
    OBVIOUS
  <1>1. 1 \in Configs
    BY BridgeBoundsNat DEF Configs
  <1>2. BridgeTypeOK
    BY <1>1 DEF BridgeInit, BridgeTypeOK, Starting
  <1> QED BY <1>2 DEF BridgeInit, BridgeIInv, IdBooks, WaitBooks, RouteBooks, AnswerBooks, Starting

\* The server that the bridge waits for is one of those configured.
LEMMA PartnerConfigured ==
    ASSUME BridgeTypeOK, WaitBooks, RouteBooks, Waits
    PROVE  Partner \in Configs
  <1>1. CASE bridgePc = "call"
    <2>1. routing[asked] \in 1..Len(servers)
      BY <1>1 DEF BridgeTypeOK, WaitBooks, RouteBooks
    <2> QED BY <1>1, <2>1, ElementOfSeq DEF BridgeTypeOK, Partner
  <1> QED BY <1>1 DEF BridgeTypeOK, Partner

\* Writing a line to a pipe, and taking one from it.
WritesLine(c, l) == pipe' = [pipe EXCEPT ![c] = Append(@, l)]

OnlyNew(c, l) ==
    /\ pipe' \in [Configs -> Seq(Lines)]
    /\ \A d \in Configs : \A i \in 1..Len(pipe'[d]) :
          \/ i \in 1..Len(pipe[d]) /\ pipe'[d][i] = pipe[d][i]
          \/ d = c /\ pipe'[d][i] = l

LEMMA PipeGrows ==
    ASSUME BridgeTypeOK, NEW c \in Configs, NEW l \in Lines, WritesLine(c, l)
    PROVE  OnlyNew(c, l)
  <1>1. pipe[c] \in Seq(Lines)
    BY DEF BridgeTypeOK
  <1>2. /\ Append(pipe[c], l) \in Seq(Lines) /\ Len(Append(pipe[c], l)) = Len(pipe[c]) + 1
        /\ \A i \in 1..Len(pipe[c]) : Append(pipe[c], l)[i] = pipe[c][i]
        /\ Append(pipe[c], l)[Len(pipe[c]) + 1] = l /\ Len(pipe[c]) \in Nat
    BY <1>1, AppendProperties
  <1>3. pipe'[c] = Append(pipe[c], l) /\ \A d \in Configs \ {c} : pipe'[d] = pipe[d]
    BY DEF BridgeTypeOK, WritesLine
  <1>4. pipe' \in [Configs -> Seq(Lines)]
    BY <1>2 DEF BridgeTypeOK, WritesLine
  <1>5. ASSUME NEW d \in Configs, NEW i \in 1..Len(pipe'[d])
        PROVE  \/ i \in 1..Len(pipe[d]) /\ pipe'[d][i] = pipe[d][i]
               \/ d = c /\ pipe'[d][i] = l
    <2>1. CASE d # c
      BY <1>3, <1>5, <2>1
    <2>2. CASE d = c
      <3>1. i \in 1..Len(pipe[c]) \/ i = Len(pipe[c]) + 1
        BY <1>2, <1>3, <1>5, <2>2
      <3> QED BY <1>2, <1>3, <2>2, <3>1
    <2> QED BY <2>1, <2>2
  <1> QED BY <1>4, <1>5 DEF OnlyNew

LEMMA PipeShrinks ==
    ASSUME BridgeTypeOK, WaitBooks, RouteBooks, HasLine, TakesLine
    PROVE  /\ Partner \in Configs /\ NextLine \in Lines /\ NextLine = pipe[Partner][1]
           /\ 1 \in 1..Len(pipe[Partner])
           /\ pipe' \in [Configs -> Seq(Lines)]
           /\ \A d \in Configs : \A i \in 1..Len(pipe'[d]) :
                 \E j \in 1..Len(pipe[d]) : pipe'[d][i] = pipe[d][j]
  <1>1. Partner \in Configs
    BY PartnerConfigured DEF HasLine
  <1>2. pipe[Partner] \in Seq(Lines) /\ pipe[Partner] # <<>>
    BY <1>1 DEF BridgeTypeOK, HasLine
  <1>3. /\ Tail(pipe[Partner]) \in Seq(Lines) /\ Head(pipe[Partner]) \in Lines
        /\ Len(Tail(pipe[Partner])) = Len(pipe[Partner]) - 1
        /\ \A i \in 1..Len(Tail(pipe[Partner])) : Tail(pipe[Partner])[i] = pipe[Partner][i + 1]
        /\ Len(pipe[Partner]) \in Nat \ {0} /\ Head(pipe[Partner]) = pipe[Partner][1]
    BY <1>2, HeadTailProperties, LenProperties, EmptySeq
  <1>4. pipe' \in [Configs -> Seq(Lines)]
    BY <1>1, <1>3 DEF BridgeTypeOK, TakesLine
  <1>5. ASSUME NEW d \in Configs, NEW i \in 1..Len(pipe'[d])
        PROVE  \E j \in 1..Len(pipe[d]) : pipe'[d][i] = pipe[d][j]
    <2>1. CASE d = Partner
      <3>1. pipe'[d] = Tail(pipe[d])
        BY <1>1, <2>1 DEF BridgeTypeOK, TakesLine
      <3>2. i + 1 \in 1..Len(pipe[d]) /\ pipe'[d][i] = pipe[d][i + 1]
        BY <1>3, <1>5, <2>1, <3>1
      <3> QED BY <3>2
    <2>2. CASE d # Partner
      BY <1>1, <1>5, <2>2 DEF BridgeTypeOK, TakesLine
    <2> QED BY <2>1, <2>2
  <1>6. NextLine \in Lines /\ NextLine = pipe[Partner][1] /\ 1 \in 1..Len(pipe[Partner])
    BY <1>3 DEF NextLine
  <1> QED BY <1>1, <1>4, <1>5, <1>6

\* What the bridge has read, decided and answered is unchanged, and ids are in order.
LEMMA PipesOnly ==
    ASSUME BridgeIInv,
           UNCHANGED <<at, servers, routing, nextId, waitId, asked, responses, listed>>,
           bridgePc' = bridgePc \/ bridgePc' = "panicked",
           inbox' \in [Configs -> SUBSET (Nat \X Int)], pipe' \in [Configs -> Seq(Lines)],
           \A c \in Configs : inbox'[c] \subseteq inbox[c],
           \A c \in Configs : \A i \in 1..Len(pipe'[c]) :
              \/ \E j \in 1..Len(pipe[c]) : pipe'[c][i] = pipe[c][j]
              \/ \E r \in inbox[c] : pipe'[c][i].id = r[1] /\ pipe'[c][i].of = r[2]
              \/ pipe'[c][i].of = 0
    PROVE  BridgeIInv'
  <1> USE DEF BridgeIInv
  <1>1. BridgeTypeOK'
    BY DEF BridgeTypeOK
  <1>2. IdBooks'
    <2> SUFFICES ASSUME NEW c \in Configs
                 PROVE  /\ \A r \in inbox'[c] : r[1] < nextId[c]
                        /\ \A i \in 1..Len(pipe'[c]) : pipe'[c][i].of # 0 => pipe'[c][i].id < nextId[c]
      BY DEF IdBooks
    <2> QED BY DEF IdBooks
  <1>3. WaitBooks'
    <2> SUFFICES ASSUME bridgePc = "call", bridgePc' = "call"
                 PROVE  WaitBooks'
      BY DEF WaitBooks
    <2> DEFINE c == servers[routing[asked]]
    <2>1. c \in Configs /\ asked \in Tools /\ routing[asked] > 0
      BY PartnerConfigured DEF WaitBooks, Partner, Waits
    <2> HIDE DEF c
    <2>2. \A r \in inbox[c] : r[1] = waitId => r[2] = Len(responses) + 1
      BY DEF WaitBooks, c
    <2>3. \A i \in 1..Len(pipe[c]) :
             pipe[c][i].id = waitId /\ pipe[c][i].of # 0 => pipe[c][i].of = Len(responses) + 1
      BY DEF WaitBooks, c
    <2>4. \A r \in inbox'[c] : r[1] = waitId => r[2] = Len(responses) + 1
      BY <2>1, <2>2
    <2>5. \A i \in 1..Len(pipe'[c]) :
             pipe'[c][i].id = waitId /\ pipe'[c][i].of # 0 => pipe'[c][i].of = Len(responses) + 1
      BY <2>1, <2>2, <2>3
    <2>6. c' = c
      BY DEF c
    <2> QED BY <2>1, <2>4, <2>5 DEF WaitBooks, c
  <1>4. RouteBooks' /\ AnswerBooks'
    BY DEF RouteBooks, AnswerBooks, Starting
  <1> QED BY <1>1, <1>2, <1>3, <1>4

\* What the servers do.
LEMMA ServersKeep ==
    ASSUME BridgeIInv, NEW c \in Configs, ServerAnswers(c) \/ ServerSpeaks(c) \/ ServerDies(c)
    PROVE  BridgeIInv'
  <1>0. BridgeTypeOK
    BY DEF BridgeIInv
  <1>1. CASE ServerAnswers(c)
    <2>1. PICK r \in inbox[c], names \in SUBSET Tools :
             /\ inbox' = [inbox EXCEPT ![c] = @ \ {r}]
             /\ pipe' = [pipe EXCEPT ![c] = Append(@, Line(r[1], r[2], names))]
      BY <1>1 DEF ServerAnswers
    <2>2. Line(r[1], r[2], names) \in Lines
      BY <1>0 DEF Line, Lines, BridgeTypeOK
    <2>3. inbox' \in [Configs -> SUBSET (Nat \X Int)] /\ \A d \in Configs : inbox'[d] \subseteq inbox[d]
      BY <1>0, <2>1 DEF BridgeTypeOK
    <2> DEFINE l == Line(r[1], r[2], names)
    <2>4. /\ l.id = r[1] /\ l.of = r[2] /\ l \in Lines
          /\ pipe' = [pipe EXCEPT ![c] = Append(@, l)]
      BY <2>1, <2>2 DEF Line
    <2> HIDE DEF l
    <2>8. l \in Lines /\ WritesLine(c, l)
      BY <2>4 DEF WritesLine
    <2>5. OnlyNew(c, l)
      BY <1>0, <2>8, PipeGrows
    <2>6. \A d \in Configs : \A i \in 1..Len(pipe'[d]) :
             \/ \E j \in 1..Len(pipe[d]) : pipe'[d][i] = pipe[d][j]
             \/ \E q \in inbox[d] : pipe'[d][i].id = q[1] /\ pipe'[d][i].of = q[2]
      <3> SUFFICES ASSUME NEW d \in Configs, NEW i \in 1..Len(pipe'[d])
                   PROVE  \/ \E j \in 1..Len(pipe[d]) : pipe'[d][i] = pipe[d][j]
                          \/ \E q \in inbox[d] : pipe'[d][i].id = q[1] /\ pipe'[d][i].of = q[2]
        OBVIOUS
      <3>1. CASE i \in 1..Len(pipe[d]) /\ pipe'[d][i] = pipe[d][i]
        BY <3>1
      <3>2. CASE d = c /\ pipe'[d][i] = l
        <4>1. r \in inbox[d] /\ pipe'[d][i].id = r[1] /\ pipe'[d][i].of = r[2]
          BY <2>4, <3>2
        <4> QED BY <4>1
      <3> QED BY <2>5, <3>1, <3>2 DEF OnlyNew
    <2>7. UNCHANGED <<bridgePc, at, servers, routing, nextId, waitId, asked, responses, listed>>
      BY <1>1 DEF ServerAnswers
    <2>9. pipe' \in [Configs -> Seq(Lines)]
      BY <2>5 DEF OnlyNew
    <2> QED BY <2>3, <2>6, <2>7, <2>9, PipesOnly
  <1>2. CASE ServerSpeaks(c)
    <2>1. PICK l \in Lines : l.of = 0 /\ pipe' = [pipe EXCEPT ![c] = Append(@, l)]
      <3>1. {Notice, Junk, Garbage} \cup {Line(id, 0, {}) : id \in 1..nextId[c]}
               \subseteq {l \in Lines : l.of = 0}
        BY <1>0 DEF Notice, Junk, Garbage, Line, Lines, BridgeTypeOK
      <3> QED BY <1>2, <3>1 DEF ServerSpeaks
    <2>2. WritesLine(c, l)
      BY <2>1 DEF WritesLine
    <2>3. OnlyNew(c, l)
      BY <1>0, <2>2, PipeGrows
    <2>4. \A d \in Configs : \A i \in 1..Len(pipe'[d]) :
             (\E j \in 1..Len(pipe[d]) : pipe'[d][i] = pipe[d][j]) \/ pipe'[d][i].of = 0
      BY <2>1, <2>3 DEF OnlyNew
    <2>5. UNCHANGED <<bridgePc, at, servers, routing, nextId, waitId, asked, responses, inbox, listed>>
      BY <1>2 DEF ServerSpeaks
    <2>6. inbox' \in [Configs -> SUBSET (Nat \X Int)] /\ \A d \in Configs : inbox'[d] \subseteq inbox[d]
      BY <1>0, <2>5 DEF BridgeTypeOK
    <2>7. pipe' \in [Configs -> Seq(Lines)]
      BY <2>3 DEF OnlyNew
    <2> QED BY <2>4, <2>5, <2>6, <2>7, PipesOnly
  <1>3. CASE ServerDies(c)
    <2>1. UNCHANGED <<bridgePc, at, servers, routing, nextId, waitId, asked, responses, pipe, listed>>
      BY <1>3 DEF ServerDies
    <2>2. inbox' \in [Configs -> SUBSET (Nat \X Int)] /\ \A d \in Configs : inbox'[d] \subseteq inbox[d]
      BY <1>0, <1>3 DEF ServerDies, BridgeTypeOK
    <2>3. pipe' \in [Configs -> Seq(Lines)]
      BY <1>0, <2>1 DEF BridgeTypeOK
    <2> QED BY <2>1, <2>2, <2>3, PipesOnly
  <1> QED BY <1>1, <1>2, <1>3

\* What the bridge reads and makes nothing of.
LEMMA ReadingKeeps ==
    ASSUME BridgeIInv, SkipLine \/ Panics
    PROVE  BridgeIInv'
  <1>1. /\ UNCHANGED <<at, servers, routing, nextId, waitId, asked, responses, inbox, listed>>
        /\ bridgePc' = bridgePc \/ bridgePc' = "panicked"
        /\ HasLine /\ TakesLine
    BY DEF SkipLine, Panics
  <1>2. /\ pipe' \in [Configs -> Seq(Lines)]
        /\ \A d \in Configs : \A i \in 1..Len(pipe'[d]) :
              \E j \in 1..Len(pipe[d]) : pipe'[d][i] = pipe[d][j]
    BY <1>1, PipeShrinks DEF BridgeIInv
  <1>3. inbox' \in [Configs -> SUBSET (Nat \X Int)] /\ \A d \in Configs : inbox'[d] \subseteq inbox[d]
    BY <1>1 DEF BridgeIInv, BridgeTypeOK
  <1> QED BY <1>1, <1>2, <1>3, PipesOnly

-----------------------------------------------------------------------------
(* Starting the servers. *)

\* Going on to the next server leaves those that are still to come without tools.
LEMMA ConfigKeeps ==
    ASSUME BridgeIInv, bridgePc \in Starting, NextConfig
    PROVE  /\ at' \in Configs /\ bridgePc' \in {"start", "serve"}
           /\ bridgePc' = "start" => at' = at + 1
  BY BridgeBoundsNat DEF BridgeIInv, BridgeTypeOK, NextConfig, Configs

LEMMA StartKeeps ==
    ASSUME BridgeIInv, StartServer \/ Initialized \/ StartFails
    PROVE  BridgeIInv'
  <1> USE DEF BridgeIInv
  <1>0. bridgePc \in Starting /\ at \in Configs /\ nextId[at] \in Nat \ {0}
    BY DEF StartServer, Initialized, StartFails, Starting, BridgeTypeOK
  <1>1. /\ UNCHANGED <<servers, routing, responses, listed>>
        /\ bridgePc' \in Starting \cup {"serve"} /\ at' \in Configs
        /\ bridgePc' \in Starting => at' >= at
    BY <1>0, ConfigKeeps DEF StartServer, Initialized, StartFails, Asks, Starting, Configs
  <1>2. /\ pipe' \in [Configs -> Seq(Lines)]
        /\ \A d \in Configs : \A i \in 1..Len(pipe'[d]) :
              \E j \in 1..Len(pipe[d]) : pipe'[d][i] = pipe[d][j]
    <2>1. CASE UNCHANGED pipe
      BY <2>1 DEF BridgeTypeOK
    <2>2. CASE HasLine /\ TakesLine
      BY <2>2, PipeShrinks
    <2> QED BY <2>1, <2>2 DEF StartServer, Initialized, StartFails, HasAnswer, ReadFails
  <1>3. \/ UNCHANGED <<nextId, waitId, inbox>>
        \/ /\ nextId' = [nextId EXCEPT ![at] = nextId[at] + 1] /\ waitId' = nextId[at]
           /\ \/ inbox' = [inbox EXCEPT ![at] = inbox[at] \cup {<<nextId[at], -1>>}]
              \/ inbox' = [inbox EXCEPT ![at] = {<<nextId[at], -1>>}]
    BY DEF StartServer, Initialized, StartFails, Asks
  <1>4. /\ nextId' \in [Configs -> Nat \ {0}] /\ waitId' \in Nat
        /\ inbox' \in [Configs -> SUBSET (Nat \X Int)]
        /\ \A d \in Configs : nextId'[d] >= nextId[d]
    <2>1. CASE UNCHANGED <<nextId, waitId, inbox>>
      BY <2>1 DEF BridgeTypeOK
    <2>2. CASE nextId' = [nextId EXCEPT ![at] = nextId[at] + 1] /\ waitId' = nextId[at]
      <3>1. /\ nextId' \in [Configs -> Nat \ {0}] /\ waitId' \in Nat
            /\ \A d \in Configs : nextId'[d] >= nextId[d]
        BY <1>0, <2>2 DEF BridgeTypeOK
      <3>2. <<nextId[at], -1>> \in Nat \X Int
        BY <1>0
      <3>3. inbox' \in [Configs -> SUBSET (Nat \X Int)]
        <4>1. inbox \in [Configs -> SUBSET (Nat \X Int)]
          BY DEF BridgeTypeOK
        <4>2. \E X \in SUBSET (Nat \X Int) : inbox' = [inbox EXCEPT ![at] = X] \/ inbox' = inbox
          <5>1. {<<nextId[at], -1>>} \in SUBSET (Nat \X Int)
            BY <3>2
          <5>2. inbox[at] \cup {<<nextId[at], -1>>} \in SUBSET (Nat \X Int)
            BY <1>0, <4>1, <5>1
          <5> QED BY <1>3, <5>1, <5>2
        <4> QED BY <4>1, <4>2
      <3> QED BY <3>1, <3>3
    <2> QED BY <1>3, <2>1, <2>2
  <1>5. BridgeTypeOK'
    BY <1>1, <1>2, <1>4 DEF BridgeTypeOK
  <1>6. \A d \in Configs : \A r \in inbox'[d] : r[1] < nextId'[d]
    <2> SUFFICES ASSUME NEW d \in Configs, NEW r \in inbox'[d]
                 PROVE  r[1] < nextId'[d]
      OBVIOUS
    <2>1. CASE r \in inbox[d]
      <3>1. r[1] < nextId[d] /\ r[1] \in Nat
        BY <2>1 DEF IdBooks, BridgeTypeOK
      <3>2. nextId[d] \in Nat /\ nextId'[d] \in Nat /\ nextId'[d] >= nextId[d]
        BY <1>4 DEF BridgeTypeOK
      <3> QED BY <3>1, <3>2
    <2>2. CASE r \notin inbox[d]
      <3>1. d = at /\ r = <<nextId[at], -1>> /\ nextId'[at] = nextId[at] + 1
        BY <1>0, <1>3, <2>2 DEF BridgeTypeOK
      <3> QED BY <1>0, <3>1
    <2> QED BY <2>1, <2>2
  <1>7. \A d \in Configs : \A i \in 1..Len(pipe'[d]) :
           pipe'[d][i].of # 0 => pipe'[d][i].id < nextId'[d]
    <2> SUFFICES ASSUME NEW d \in Configs, NEW i \in 1..Len(pipe'[d]), pipe'[d][i].of # 0
                 PROVE  pipe'[d][i].id < nextId'[d]
      OBVIOUS
    <2>1. PICK j \in 1..Len(pipe[d]) : pipe'[d][i] = pipe[d][j]
      BY <1>2
    <2>2. pipe[d][j] \in Lines
      BY ElementOfSeq DEF BridgeTypeOK
    <2>3. pipe[d][j].id < nextId[d] /\ pipe[d][j].id \in Int /\ nextId[d] \in Nat /\ nextId'[d] \in Nat
      BY <1>4, <2>1, <2>2 DEF IdBooks, BridgeTypeOK, Lines
    <2> QED BY <1>4, <2>1, <2>3
  <1>8. WaitBooks'
    BY <1>1 DEF WaitBooks, Starting
  <1>9. RouteBooks' /\ AnswerBooks'
    BY <1>0, <1>1 DEF RouteBooks, AnswerBooks, BridgeTypeOK, Starting, Configs
  <1> QED BY <1>5, <1>6, <1>7, <1>8, <1>9 DEF IdBooks

\* What a server has listed is routed to it, being the last.
LEMMA ListedKeeps ==
    ASSUME BridgeIInv, Listed
    PROVE  BridgeIInv'
  <1> USE DEF BridgeIInv
  <1>0. /\ bridgePc = "list" /\ at \in Configs /\ Len(servers) \in Nat
        /\ servers \in Seq(Configs) /\ NextConfig
        /\ UNCHANGED <<nextId, waitId, asked, responses, inbox>>
    BY DEF Listed, BridgeTypeOK
  <1>1. at' \in Configs /\ bridgePc' \in {"start", "serve"} /\ (bridgePc' = "start" => at' = at + 1)
    BY <1>0, ConfigKeeps DEF Starting
  <1>2. /\ servers' \in Seq(Configs) /\ Len(servers') = Len(servers) + 1
        /\ servers'[Len(servers) + 1] = at /\ \A i \in 1..Len(servers) : servers'[i] = servers[i]
    BY <1>0, AppendProperties DEF Listed
  <1>3. PICK names \in SUBSET Tools :
           /\ \A t \in Tools : routing'[t] = IF t \in names THEN Len(servers) + 1 ELSE routing[t]
           /\ routing' \in [Tools -> Nat] /\ listed' \in [Configs -> SUBSET Tools]
           /\ listed'[at] = names /\ \A c \in Configs \ {at} : listed'[c] = listed[c]
    <2>1. CASE UNCHANGED <<routing, listed>>
      <3>1. listed[at] = {}
        BY <1>0 DEF RouteBooks, Starting, Configs
      <3>2. {} \in SUBSET Tools /\ \A t \in Tools : routing'[t] = IF t \in {} THEN Len(servers) + 1 ELSE routing[t]
        BY <2>1
      <3> QED BY <2>1, <3>1, <3>2 DEF BridgeTypeOK
    <2>2. CASE /\ HasAnswer /\ TakesLine
               /\ routing' = Routed(NextLine.names)
               /\ listed' = [listed EXCEPT ![at] = NextLine.names]
      <3>1. NextLine.names \in SUBSET Tools
        BY <2>2, PipeShrinks DEF HasAnswer, Lines
      <3>2. \A t \in Tools : routing'[t] = IF t \in NextLine.names THEN Len(servers) + 1 ELSE routing[t]
        BY <2>2 DEF Routed
      <3>3. routing' \in [Tools -> Nat]
        BY <1>0, <2>2 DEF Routed, BridgeTypeOK
      <3>4. /\ listed' \in [Configs -> SUBSET Tools] /\ listed'[at] = NextLine.names
            /\ \A c \in Configs \ {at} : listed'[c] = listed[c]
        BY <1>0, <2>2, <3>1 DEF BridgeTypeOK
      <3> QED BY <3>1, <3>2, <3>3, <3>4
    <2> QED BY <2>1, <2>2 DEF Listed
  <1>4. /\ pipe' \in [Configs -> Seq(Lines)]
        /\ \A d \in Configs : \A i \in 1..Len(pipe'[d]) :
              \E j \in 1..Len(pipe[d]) : pipe'[d][i] = pipe[d][j]
    <2>1. CASE UNCHANGED pipe
      BY <2>1 DEF BridgeTypeOK
    <2>2. CASE HasLine /\ TakesLine
      BY <2>2, PipeShrinks
    <2> QED BY <2>1, <2>2 DEF Listed, HasAnswer, ReadFails
  <1>5. BridgeTypeOK'
    <2>1. /\ nextId' \in [Configs -> Nat \ {0}] /\ waitId' \in Nat
          /\ responses' \in Seq([tool : Tools, by : Configs \cup {0}, of : Int])
          /\ inbox' \in [Configs -> SUBSET (Nat \X Int)]
      BY <1>0 DEF BridgeTypeOK
    <2>2. bridgePc' \in Starting \cup {"serve", "call", "closed", "panicked"}
      BY <1>1 DEF Starting
    <2> HIDE DEF BridgeIInv
    <2> QED BY <1>1, <1>2, <1>3, <1>4, <2>1, <2>2 DEF BridgeTypeOK
  <1>6. IdBooks'
    <2>1. ASSUME NEW d \in Configs, NEW i \in 1..Len(pipe'[d]), pipe'[d][i].of # 0
          PROVE  pipe'[d][i].id < nextId[d]
      <3>1. PICK j \in 1..Len(pipe[d]) : pipe'[d][i] = pipe[d][j]
        BY <1>4
      <3>2. pipe[d][j].of # 0 => pipe[d][j].id < nextId[d]
        BY DEF IdBooks
      <3> QED BY <2>1, <3>1, <3>2
    <2>2. \A d \in Configs : \A r \in inbox[d] : r[1] < nextId[d]
      BY DEF IdBooks
    <2> QED BY <1>0, <2>1, <2>2 DEF IdBooks
  <1>7. WaitBooks' /\ AnswerBooks'
    <2>1. responses = <<>>
      BY <1>0 DEF AnswerBooks, Starting
    <2> QED BY <1>0, <1>1, <2>1 DEF WaitBooks, AnswerBooks
  <1>8. RouteBooks'
    <2>1. ASSUME NEW t \in Tools
          PROVE  /\ routing'[t] <= Len(servers')
                 /\ \A c \in Configs :
                       t \in listed'[c] => routing'[t] > 0 /\ c <= servers'[routing'[t]]
                 /\ routing'[t] > 0 => t \in listed'[servers'[routing'[t]]]
      <3>1. CASE t \in names
        <4>1. routing'[t] = Len(servers) + 1 /\ servers'[routing'[t]] = at
          BY <1>2, <1>3, <3>1
        <4>2. \A c \in Configs : t \in listed'[c] => c <= at
          BY <1>0, <1>3 DEF RouteBooks, Starting, Configs
        <4> QED BY <1>0, <1>2, <1>3, <3>1, <4>1, <4>2
      <3>2. CASE t \notin names
        <4>1. routing'[t] = routing[t] /\ routing[t] \in Nat /\ routing[t] <= Len(servers)
          BY <1>3, <3>2 DEF RouteBooks, BridgeTypeOK
        <4>2. routing[t] > 0 => servers'[routing[t]] = servers[routing[t]] /\ servers[routing[t]] \in Configs
          BY <1>0, <1>2, <4>1, ElementOfSeq
        <4>3. \A c \in Configs : t \in listed'[c] => c # at /\ t \in listed[c]
          BY <1>3, <3>2
        <4>4. routing[t] > 0 => servers[routing[t]] # at
          BY <1>0 DEF RouteBooks, Starting, Configs
        <4> QED BY <1>0, <1>2, <1>3, <4>1, <4>2, <4>3, <4>4 DEF RouteBooks
      <3> QED BY <3>1, <3>2
    <2>2. bridgePc' \in Starting => \A c \in Configs : c >= at' => listed'[c] = {}
      BY <1>0, <1>1, <1>3 DEF RouteBooks, Starting, Configs
    <2> QED BY <2>1, <2>2 DEF RouteBooks
  <1> QED BY <1>5, <1>6, <1>7, <1>8

-----------------------------------------------------------------------------
(* The requests of the runner. *)

\* The id of a request is new to the server that is asked.
LEMMA PassingKeeps ==
    ASSUME BridgeIInv, Passes
    PROVE  BridgeIInv'
  <1> DEFINE c == servers[routing[asked']]
             n == Len(responses) + 1
  <1>1. /\ BridgeTypeOK /\ IdBooks /\ RouteBooks /\ AnswerBooks
        /\ bridgePc = "serve" /\ bridgePc' = "call" /\ asked' \in Tools /\ routing[asked'] > 0
        /\ UNCHANGED <<at, servers, routing, responses, pipe, listed>>
        /\ nextId' = [nextId EXCEPT ![c] = nextId[c] + 1] /\ waitId' = nextId[c]
        /\ inbox' = [inbox EXCEPT ![c] = inbox[c] \cup {<<nextId[c], n>>}]
    BY DEF Passes, HasRequest, Asks, BridgeIInv
  <1>2. routing[asked'] \in 1..Len(servers) /\ servers \in Seq(Configs) /\ n \in Nat
    BY <1>1 DEF RouteBooks, BridgeTypeOK
  <1>3. c \in Configs
    BY <1>2, ElementOfSeq
  <1> HIDE DEF c, n
  <1>4. nextId[c] \in Nat \ {0} /\ inbox[c] \in SUBSET (Nat \X Int)
    BY <1>1, <1>3 DEF BridgeTypeOK
  <1>5. BridgeTypeOK'
    <2>1. nextId' \in [Configs -> Nat \ {0}] /\ waitId' \in Nat
      BY <1>1, <1>3, <1>4 DEF BridgeTypeOK
    <2>2. inbox' \in [Configs -> SUBSET (Nat \X Int)]
      <3>1. inbox[c] \cup {<<nextId[c], n>>} \in SUBSET (Nat \X Int)
        BY <1>2, <1>4
      <3> QED BY <1>1, <3>1 DEF BridgeTypeOK
    <2> QED BY <1>1, <2>1, <2>2 DEF BridgeTypeOK
  <1>6. \A i \in 1..Len(pipe[c]) : pipe[c][i].of # 0 => pipe[c][i].id < nextId[c]
    BY <1>1, <1>3 DEF IdBooks
  <1>7. \A r \in inbox[c] : r[1] < nextId[c]
    BY <1>1, <1>3 DEF IdBooks
  <1>8. ASSUME NEW i \in 1..Len(pipe[c]), pipe[c][i].of # 0
        PROVE  pipe[c][i].id \in Int /\ pipe[c][i].id # nextId[c] /\ pipe[c][i].id < nextId[c] + 1
    <2>1. pipe[c][i] \in Lines
      BY <1>1, <1>3, ElementOfSeq DEF BridgeTypeOK
    <2> QED BY <1>4, <1>6, <1>8, <2>1 DEF Lines
  <1>9. \A r \in inbox'[c] : (r \in inbox[c] /\ r[1] # nextId[c]) \/ r = <<nextId[c], n>>
    <2>1. \A r \in inbox[c] : r[1] \in Nat
      BY <1>4
    <2> QED BY <1>1, <1>3, <1>4, <1>7, <2>1 DEF BridgeTypeOK
  <1>10. IdBooks'
    <2> SUFFICES ASSUME NEW d \in Configs
                 PROVE  /\ \A r \in inbox'[d] : r[1] < nextId'[d]
                        /\ \A i \in 1..Len(pipe'[d]) : pipe'[d][i].of # 0 => pipe'[d][i].id < nextId'[d]
      BY DEF IdBooks
    <2>1. CASE d = c
      <3>1. nextId'[d] = nextId[c] + 1 /\ pipe'[d] = pipe[c]
        BY <1>1, <1>3, <2>1 DEF BridgeTypeOK
      <3>2. ASSUME NEW r \in inbox'[d]
            PROVE  r[1] < nextId[c] + 1
        <4>1. CASE r \in inbox[c]
          <5>1. r[1] \in Nat /\ r[1] < nextId[c]
            BY <1>4, <1>7, <4>1
          <5> QED BY <1>4, <5>1
        <4>2. CASE r = <<nextId[c], n>>
          BY <1>4, <4>2
        <4> QED BY <1>9, <2>1, <3>2, <4>1, <4>2
      <3> QED BY <1>8, <2>1, <3>1, <3>2
    <2>2. CASE d # c
      <3>1. nextId'[d] = nextId[d] /\ inbox'[d] = inbox[d] /\ pipe'[d] = pipe[d]
        BY <1>1, <2>2 DEF BridgeTypeOK
      <3> QED BY <1>1, <3>1 DEF IdBooks
    <2> QED BY <2>1, <2>2
  <1>11. WaitBooks'
    <2>1. \A r \in inbox'[c] : r[1] = waitId' => r[2] = n
      BY <1>1, <1>9
    <2>2. \A i \in 1..Len(pipe'[c]) : ~(pipe'[c][i].id = waitId' /\ pipe'[c][i].of # 0)
      BY <1>1, <1>8
    <2> QED BY <1>1, <2>1, <2>2 DEF WaitBooks, c, n
  <1>12. RouteBooks' /\ AnswerBooks'
    BY <1>1 DEF RouteBooks, AnswerBooks, Starting
  <1> QED BY <1>5, <1>10, <1>11, <1>12 DEF BridgeIInv

\* An answer is entered; it is the own one of the request, or an error.
LEMMA AnswerGrows ==
    ASSUME BridgeTypeOK, AnswerBooks, bridgePc \in {"serve", "call"}, bridgePc' = "serve",
           UNCHANGED <<servers, routing>>,
           NEW r \in [tool : Tools, by : Configs \cup {0}, of : Int],
           responses' = Append(responses, r),
           r.by # 0 => r.of = Len(responses) + 1 /\ routing[r.tool] > 0 /\ r.by = servers[routing[r.tool]]
    PROVE  /\ responses' \in Seq([tool : Tools, by : Configs \cup {0}, of : Int])
           /\ AnswerBooks'
  <1>1. /\ responses' \in Seq([tool : Tools, by : Configs \cup {0}, of : Int])
        /\ Len(responses') = Len(responses) + 1 /\ Len(responses) \in Nat
        /\ \A i \in 1..Len(responses) : responses'[i] = responses[i]
        /\ responses'[Len(responses) + 1] = r
    BY AppendProperties DEF BridgeTypeOK
  <1>2. ASSUME NEW n \in 1..Len(responses')
        PROVE  LET q == responses'[n]
               IN  q.by # 0 => q.of = n /\ routing[q.tool] > 0 /\ q.by = servers[routing[q.tool]]
    <2>1. CASE n \in 1..Len(responses)
      BY <1>1, <2>1 DEF AnswerBooks
    <2>2. CASE n = Len(responses) + 1
      BY <1>1, <2>2
    <2> QED BY <1>1, <1>2, <2>1, <2>2
  <1> QED BY <1>1, <1>2 DEF AnswerBooks, Starting

LEMMA RefusingKeeps ==
    ASSUME BridgeIInv, NoSuchTool \/ WriteFails
    PROVE  BridgeIInv'
  <1>1. /\ BridgeTypeOK /\ IdBooks /\ RouteBooks /\ AnswerBooks
        /\ bridgePc = "serve" /\ bridgePc' = "serve" /\ asked' \in Tools
        /\ UNCHANGED <<at, servers, routing, waitId, inbox, pipe, listed>>
        /\ responses' = Append(responses, [tool |-> asked', by |-> 0, of |-> 0])
    BY DEF NoSuchTool, WriteFails, RefusesWith, HasRequest, BridgeIInv
  <1>2. responses' \in Seq([tool : Tools, by : Configs \cup {0}, of : Int]) /\ AnswerBooks'
    <2> DEFINE r == [tool |-> asked', by |-> 0, of |-> 0]
    <2>1. r \in [tool : Tools, by : Configs \cup {0}, of : Int] /\ r.by = 0 /\ responses' = Append(responses, r)
      BY <1>1
    <2> HIDE DEF r
    <2> QED BY <1>1, <2>1, AnswerGrows
  <1>3. nextId' \in [Configs -> Nat \ {0}] /\ \A d \in Configs : nextId'[d] >= nextId[d]
    <2>1. \/ nextId' = nextId
          \/ \E d : nextId' = [nextId EXCEPT ![d] = @ + 1]
      BY DEF NoSuchTool, WriteFails, RefusesWith
    <2>2. nextId \in [Configs -> Nat \ {0}]
      BY <1>1 DEF BridgeTypeOK
    <2>3. CASE nextId' = nextId
      BY <2>2, <2>3
    <2>4. ASSUME NEW d, nextId' = [nextId EXCEPT ![d] = @ + 1]
          PROVE  nextId' \in [Configs -> Nat \ {0}] /\ \A e \in Configs : nextId'[e] >= nextId[e]
      <3>1. CASE d \in Configs
        BY <2>2, <2>4, <3>1
      <3>2. CASE d \notin Configs
        <4>1. nextId' = nextId
          BY <2>2, <2>4, <3>2
        <4> QED BY <2>3, <4>1
      <3> QED BY <3>1, <3>2
    <2> QED BY <2>1, <2>3, <2>4
  <1>4. BridgeTypeOK'
    BY <1>1, <1>2, <1>3 DEF BridgeTypeOK
  <1>5. IdBooks'
    <2> SUFFICES ASSUME NEW d \in Configs
                 PROVE  /\ \A r \in inbox[d] : r[1] < nextId'[d]
                        /\ \A i \in 1..Len(pipe[d]) : pipe[d][i].of # 0 => pipe[d][i].id < nextId'[d]
      BY <1>1 DEF IdBooks
    <2>1. nextId[d] \in Nat /\ nextId'[d] \in Nat /\ nextId'[d] >= nextId[d]
      BY <1>1, <1>3 DEF BridgeTypeOK
    <2>2. ASSUME NEW r \in inbox[d]
          PROVE  r[1] < nextId'[d]
      <3>1. r[1] \in Nat /\ r[1] < nextId[d]
        BY <1>1 DEF BridgeTypeOK, IdBooks
      <3> QED BY <2>1, <3>1
    <2>3. ASSUME NEW i \in 1..Len(pipe[d]), pipe[d][i].of # 0
          PROVE  pipe[d][i].id < nextId'[d]
      <3>1. pipe[d][i] \in Lines
        BY <1>1, ElementOfSeq DEF BridgeTypeOK
      <3>2. pipe[d][i].id \in Int /\ pipe[d][i].id < nextId[d]
        BY <1>1, <2>3, <3>1 DEF IdBooks, Lines
      <3> QED BY <2>1, <3>2
    <2> QED BY <2>2, <2>3
  <1>6. WaitBooks' /\ RouteBooks'
    BY <1>1 DEF WaitBooks, RouteBooks, Starting
  <1> QED BY <1>2, <1>4, <1>5, <1>6 DEF BridgeIInv

LEMMA AnsweringKeeps ==
    ASSUME BridgeIInv, Answered
    PROVE  BridgeIInv'
  <1>1. /\ BridgeTypeOK /\ IdBooks /\ WaitBooks /\ RouteBooks /\ AnswerBooks
        /\ bridgePc = "call" /\ bridgePc' = "serve" /\ asked \in Tools /\ routing[asked] > 0
        /\ UNCHANGED <<at, servers, routing, nextId, waitId, asked, inbox, listed>>
        /\ Partner = servers[routing[asked]]
    BY DEF Answered, Responds, BridgeIInv, WaitBooks, Partner
  <1>2. /\ pipe' \in [Configs -> Seq(Lines)]
        /\ \A d \in Configs : \A i \in 1..Len(pipe'[d]) :
              \E j \in 1..Len(pipe[d]) : pipe'[d][i] = pipe[d][j]
    <2>1. CASE UNCHANGED pipe
      BY <1>1, <2>1 DEF BridgeTypeOK
    <2>2. CASE HasLine /\ TakesLine
      BY <1>1, <2>2, PipeShrinks
    <2> QED BY <2>1, <2>2 DEF Answered, HasAnswer, ReadFails
  <1>3. PICK r \in [tool : Tools, by : Configs \cup {0}, of : Int] :
           /\ responses' = Append(responses, r) /\ r.tool = asked
           /\ r.by # 0 => r.of = Len(responses) + 1 /\ r.by = Partner
    <2>1. CASE Responds(0, 0)
      <3>1. [tool |-> asked, by |-> 0, of |-> 0] \in [tool : Tools, by : Configs \cup {0}, of : Int]
        BY <1>1
      <3> QED BY <2>1, <3>1 DEF Responds
    <2>2. CASE /\ HasAnswer /\ TakesLine
               /\ Responds(IF NextLine.of = 0 THEN 0 ELSE Partner, NextLine.of)
      <3>1. /\ Partner \in Configs /\ NextLine \in Lines /\ NextLine = pipe[Partner][1]
            /\ 1 \in 1..Len(pipe[Partner])
        BY <1>1, <2>2, PipeShrinks DEF HasAnswer
      <3>2. NextLine.of # 0 => NextLine.of = Len(responses) + 1
        BY <1>1, <2>2, <3>1 DEF HasAnswer, Matches, WaitBooks
      <3>3. NextLine.of \in Int
        BY <3>1 DEF Lines
      <3> DEFINE q == [tool |-> asked, by |-> IF NextLine.of = 0 THEN 0 ELSE Partner, of |-> NextLine.of]
      <3>4. q \in [tool : Tools, by : Configs \cup {0}, of : Int]
        BY <1>1, <3>1, <3>3
      <3>5. /\ responses' = Append(responses, q) /\ q.tool = asked
            /\ q.by # 0 => q.of = Len(responses) + 1 /\ q.by = Partner
        BY <2>2, <3>2 DEF Responds
      <3> QED BY <3>4, <3>5
    <2> QED BY <2>1, <2>2 DEF Answered
  <1>4. responses' \in Seq([tool : Tools, by : Configs \cup {0}, of : Int]) /\ AnswerBooks'
    BY <1>1, <1>3, AnswerGrows
  <1>5. BridgeTypeOK'
    BY <1>1, <1>2, <1>4 DEF BridgeTypeOK
  <1>6. IdBooks'
    <2>1. ASSUME NEW d \in Configs, NEW i \in 1..Len(pipe'[d]), pipe'[d][i].of # 0
          PROVE  pipe'[d][i].id < nextId[d]
      BY <1>1, <1>2, <2>1 DEF IdBooks
    <2>2. \A d \in Configs : \A w \in inbox[d] : w[1] < nextId[d]
      BY <1>1 DEF IdBooks
    <2> QED BY <1>1, <2>1, <2>2 DEF IdBooks
  <1>7. WaitBooks' /\ RouteBooks'
    BY <1>1 DEF WaitBooks, RouteBooks, Starting
  <1> QED BY <1>4, <1>5, <1>6, <1>7 DEF BridgeIInv

LEMMA ClosingKeeps ==
    ASSUME BridgeIInv, BridgeCloses
    PROVE  BridgeIInv'
  <1>1. /\ BridgeTypeOK /\ IdBooks /\ RouteBooks /\ AnswerBooks /\ bridgePc' = "closed"
        /\ UNCHANGED <<at, servers, routing, nextId, waitId, responses, pipe, listed>>
        /\ inbox' = [d \in Configs |-> IF d \in up' THEN inbox[d] ELSE {}]
    BY DEF BridgeCloses, BridgeIInv
  <1>2. BridgeTypeOK'
    BY <1>1 DEF BridgeTypeOK
  <1>3. IdBooks'
    BY <1>1 DEF IdBooks
  <1>4. WaitBooks' /\ RouteBooks' /\ AnswerBooks'
    BY <1>1 DEF WaitBooks, RouteBooks, AnswerBooks, Starting
  <1> QED BY <1>2, <1>3, <1>4 DEF BridgeIInv

LEMMA BridgeStepIInv == BridgeIInv /\ [BridgeNext]_bridgeVars => BridgeIInv'
  <1> SUFFICES ASSUME BridgeIInv, [BridgeNext]_bridgeVars
               PROVE  BridgeIInv'
    OBVIOUS
  <1>1. CASE UNCHANGED bridgeVars
    BY <1>1 DEF bridgeVars, BridgeIInv, BridgeTypeOK, IdBooks, WaitBooks, RouteBooks, AnswerBooks
  <1>2. CASE BridgeNext
    BY <1>2, ServersKeep, ReadingKeeps, StartKeeps, ListedKeeps, PassingKeeps, RefusingKeeps,
       AnsweringKeeps, ClosingKeeps DEF BridgeNext
  <1> QED BY <1>1, <1>2

LEMMA BridgeIInvImplies == BridgeIInv => AnswersAreOwn
  <1> SUFFICES ASSUME BridgeIInv, NEW n \in DOMAIN responses, responses[n].by # 0
               PROVE  /\ responses[n].of = n
                      /\ responses[n].by = Latest({c \in Configs : responses[n].tool \in listed[c]})
    BY DEF AnswersAreOwn
  <1> DEFINE r == responses[n]
             S == {c \in Configs : r.tool \in listed[c]}
  <1>1. n \in 1..Len(responses) /\ r \in [tool : Tools, by : Configs \cup {0}, of : Int]
    <2>1. responses \in Seq([tool : Tools, by : Configs \cup {0}, of : Int])
      BY DEF BridgeIInv, BridgeTypeOK
    <2>2. n \in 1..Len(responses)
      BY <2>1, LenProperties
    <2> QED BY <2>1, <2>2, ElementOfSeq
  <1>2. r.of = n /\ routing[r.tool] > 0 /\ r.by = servers[routing[r.tool]]
    BY <1>1 DEF BridgeIInv, AnswerBooks
  <1>3. r.tool \in Tools /\ r.by \in Configs
    BY <1>1
  <1>4. r.by \in S /\ \A c \in S : c <= r.by
    BY <1>2, <1>3 DEF BridgeIInv, RouteBooks
  <1> HIDE DEF r, S
  <1>5. \A c \in S : c \in Int
    BY BridgeBoundsNat DEF S, Configs
  <1>6. \A c \in S : (\A d \in S : d <= c) => c = r.by
    BY <1>4, <1>5
  <1>7. Latest(S) = r.by
    BY <1>4, <1>6 DEF Latest
  <1> QED BY <1>2, <1>7 DEF r, S

\* Whichever servers fail to start or die, and whatever they send, in whatever order: an
\* answer that is passed on is the answer to this request, by the last server that listed
\* the tool.
THEOREM AnswersAreAlwaysOwn == BridgeSpec => []AnswersAreOwn
  BY BridgeInitIInv, BridgeStepIInv, BridgeIInvImplies, PTL DEF BridgeSpec

-----------------------------------------------------------------------------
(* PsycheRecords, for any number of sessions, concerns and records: the    *)
(* links between concerns hold.                                            *)

RecordsSpec == RecordsInit /\ [][RecordsNext]_recordVars

RecordsTypeOK ==
    /\ closed \in BOOLEAN
    /\ spawned \subseteq Children /\ children \subseteq Children
    /\ record \in [Records -> {"none", "valid", "expired", "invalid"}]
    /\ tellPc \in [Tellers -> {"idle", "inserted", "appending", "resolving", "invalidating"}]
    /\ tell \in [Tellers -> [of : SUBSET (Children \cup Records), list : SUBSET Children]]
    /\ retrieved \in [Tellers -> SUBSET Records]
    /\ invalidations \in [Records -> Nat]

Spawning(s) == tellPc[s] \in {"inserted", "appending"}

\* A list that was read still has everything in it when it is written back, but for what is
\* known to be disturbed: of two that append at once, both are.
ListBooks ==
    /\ children \ (BeingSpawned \cup disturbed) \subseteq spawned
    /\ ~closed => spawned \subseteq children
    /\ \A s \in Tellers :
          /\ Spawning(s) => tell[s].of \subseteq children
          /\ tellPc[s] = "appending" =>
                /\ children \ (BeingSpawned \cup disturbed) \subseteq tell[s].list
                /\ ~closed => tell[s].list \subseteq children
    /\ \A s, t \in Tellers :
          tellPc[s] = "appending" /\ tellPc[t] = "appending" /\ s # t => tell[s].of \subseteq disturbed

\* The sessions that are about to invalidate a record.
InvalidatorsOf(r) == {s \in Tellers : tellPc[s] = "invalidating" /\ r \in tell[s].of}

\* Whoever is about to, has found it valid.
RecordBooks ==
    \A r \in Records :
       /\ record[r] # "invalid" => invalidations[r] = 0
       /\ invalidations[r] + Cardinality(InvalidatorsOf(r)) <= Cardinality(Tellers)

RecordsIInv == RecordsTypeOK /\ ListBooks /\ RecordBooks

\* How many are about to invalidate a record is a number, of sessions.
LEMMA InvalidatorsCount ==
    ASSUME NEW r
    PROVE  /\ IsFiniteSet(InvalidatorsOf(r))
           /\ Cardinality(InvalidatorsOf(r)) \in Nat
           /\ Cardinality(InvalidatorsOf(r)) <= Cardinality(Tellers)
           /\ Cardinality(Tellers) \in Nat
  <1>1. InvalidatorsOf(r) \subseteq Tellers
    BY DEF InvalidatorsOf
  <1> QED BY <1>1, TellersFinite, FS_Subset, FS_CardinalityType

LEMMA RecordsInitIInv == RecordsInit => RecordsIInv
  <1> SUFFICES ASSUME RecordsInit
               PROVE  RecordsIInv
    OBVIOUS
  <1>1. RecordsTypeOK
    BY DEF RecordsInit, RecordsTypeOK, NoTell
  <1>2. ListBooks
    BY DEF RecordsInit, ListBooks, Spawning
  <1>3. RecordBooks
    BY InvalidatorsCount DEF RecordsInit, RecordBooks
  <1> QED BY <1>1, <1>2, <1>3 DEF RecordsIInv

\* A step of a call changes what its session is about, and nothing of the others'.
LEMMA TellFacts ==
    ASSUME RecordsTypeOK, NEW s \in Tellers, NEW was, NEW is, NEW about, Tell(s, was, is, about)
    PROVE  /\ tellPc[s] = was /\ tellPc'[s] = is /\ tell'[s] = about
           /\ \A t \in Tellers \ {s} : tellPc'[t] = tellPc[t] /\ tell'[t] = tell[t]
  BY DEF Tell, RecordsTypeOK

\* The books of the records depend on nothing else.
LEMMA RecordsUndisturbed ==
    ASSUME RecordsTypeOK, RecordBooks, NEW s \in Tellers, UNCHANGED <<record, invalidations>>,
           tellPc'[s] # "invalidating",
           \A t \in Tellers \ {s} : tellPc'[t] = tellPc[t] /\ tell'[t] = tell[t]
    PROVE  RecordBooks'
  <1> SUFFICES ASSUME NEW r \in Records
               PROVE  /\ record[r] # "invalid" => invalidations[r] = 0
                      /\ invalidations[r] + Cardinality(InvalidatorsOf(r)') <= Cardinality(Tellers)
    BY DEF RecordBooks
  <1>1. InvalidatorsOf(r)' \subseteq InvalidatorsOf(r)
    BY DEF InvalidatorsOf
  <1>2. /\ Cardinality(InvalidatorsOf(r)') \in Nat
        /\ Cardinality(InvalidatorsOf(r)') <= Cardinality(InvalidatorsOf(r))
    BY <1>1, InvalidatorsCount, FS_Subset, FS_CardinalityType
  <1>3. invalidations[r] \in Nat
    BY DEF RecordsTypeOK
  <1> QED BY <1>2, <1>3, InvalidatorsCount DEF RecordBooks

-----------------------------------------------------------------------------
(* The list of a concern. *)

\* open_concern, until the list is written.
LEMMA OpeningKeeps ==
    ASSUME RecordsIInv, NEW s \in Tellers, (\E c \in Children : InsertChild(s, c)) \/ ReadList(s)
    PROVE  RecordsIInv'
  <1> USE DEF RecordsIInv
  <1>1. ASSUME NEW c \in Children, InsertChild(s, c)
        PROVE  RecordsIInv'
    <2>1. /\ tellPc[s] = "idle" /\ tellPc'[s] = "inserted"
          /\ tell'[s] = [of |-> {c}, list |-> {}]
          /\ \A t \in Tellers \ {s} : tellPc'[t] = tellPc[t] /\ tell'[t] = tell[t]
      BY <1>1, TellFacts DEF InsertChild
    <2>2. RecordsTypeOK'
      BY <1>1 DEF InsertChild, Tell, RecordsTypeOK
    <2>3. BeingSpawned \cup {c} \subseteq BeingSpawned'
      BY <2>1 DEF BeingSpawned, ChildOf
    <2>4. ListBooks'
      BY <1>1, <2>1, <2>3 DEF InsertChild, ListBooks, Spawning
    <2>5. RecordBooks'
      BY <1>1, <2>1, RecordsUndisturbed DEF InsertChild
    <2> QED BY <2>2, <2>4, <2>5
  <1>2. CASE ReadList(s)
    <2>1. /\ tellPc[s] = "inserted" /\ tellPc'[s] = "appending"
          /\ tell'[s] = [tell[s] EXCEPT !.list = spawned]
          /\ \A t \in Tellers \ {s} : tellPc'[t] = tellPc[t] /\ tell'[t] = tell[t]
      BY <1>2, TellFacts DEF ReadList
    <2>2. RecordsTypeOK'
      BY <1>2 DEF ReadList, Tell, RecordsTypeOK
    <2>3. tell'[s].of = tell[s].of /\ tell'[s].list = spawned
      BY <2>1 DEF RecordsTypeOK
    <2>9. \A t \in Tellers : tell'[t].of = tell[t].of /\ (Spawning(t)' <=> Spawning(t))
      BY <2>1, <2>3 DEF Spawning
    <2>4. BeingSpawned' = BeingSpawned
      BY <2>9, Zenon DEF BeingSpawned, ChildOf, Spawning
    <2>5. ASSUME NEW t \in Tellers, NEW u \in Tellers, t # u,
                 tellPc'[t] = "appending", tellPc'[u] = "appending"
          PROVE  tell'[t].of \subseteq disturbed'
      <3>1. CASE t # s /\ u # s
        BY <1>2, <2>1, <2>5, <3>1 DEF ReadList, ListBooks
      <3>2. CASE t = s \/ u = s
        <4>1. PICK v \in Tellers \ {s} : v \in Appending /\ v \in {t, u}
          BY <2>1, <2>5, <3>2 DEF Appending
        <4>2. disturbed' = disturbed \cup UNION {tell[w].of : w \in Appending \cup {s}}
          BY <1>2, <4>1 DEF ReadList, ChildOf
        <4>3. t \in Appending \cup {s}
          BY <2>1, <2>5 DEF Appending
        <4>4. tell[t].of \subseteq disturbed'
          BY <4>2, <4>3
        <4> QED BY <2>9, <4>4
      <3> QED BY <3>1, <3>2
    <2>6. disturbed \subseteq disturbed'
      BY <1>2 DEF ReadList
    <2>7. ListBooks'
      BY <1>2, <2>1, <2>3, <2>4, <2>5, <2>6 DEF ReadList, ListBooks, Spawning
    <2>8. RecordBooks'
      BY <1>2, <2>1, RecordsUndisturbed DEF ReadList
    <2> QED BY <2>2, <2>7, <2>8
  <1> QED BY <1>1, <1>2

\* The list is written: of the children that are no longer being spawned, the own one is in
\* it, and for the others that append it is disturbed.
LEMMA WriteListKeeps ==
    ASSUME RecordsIInv, NEW s \in Tellers, WriteList(s)
    PROVE  RecordsIInv'
  <1> USE DEF RecordsIInv
  <1>1. /\ tellPc[s] = "appending" /\ tellPc'[s] = "idle" /\ tell'[s] = NoTell
        /\ \A t \in Tellers \ {s} : tellPc'[t] = tellPc[t] /\ tell'[t] = tell[t]
    BY TellFacts DEF WriteList
  <1>2. tell[s].of \subseteq Children
    BY <1>1 DEF ListBooks, Spawning, RecordsTypeOK
  <1>3. RecordsTypeOK'
    BY <1>2 DEF WriteList, Tell, RecordsTypeOK, NoTell
  <1>4. BeingSpawned \subseteq BeingSpawned' \cup tell[s].of
    BY <1>1 DEF BeingSpawned, ChildOf
  <1>5. ASSUME NEW t \in Tellers, tellPc'[t] = "appending"
        PROVE  children \ (BeingSpawned' \cup disturbed) \subseteq tell[t].list
    <2>1. t # s /\ tellPc[t] = "appending"
      BY <1>1, <1>5
    <2>2. tell[s].of \subseteq disturbed
      BY <1>1, <2>1 DEF ListBooks
    <2> QED BY <1>4, <2>1, <2>2 DEF ListBooks
  <1>6. children \ (BeingSpawned' \cup disturbed) \subseteq spawned'
    BY <1>1, <1>4 DEF WriteList, ListBooks
  <1>7. ~closed => spawned' \subseteq children
    BY <1>1 DEF WriteList, ListBooks, Spawning
  <1>8. ListBooks'
    BY <1>1, <1>5, <1>6, <1>7 DEF WriteList, ListBooks, Spawning
  <1>9. RecordBooks'
    BY <1>1, RecordsUndisturbed DEF WriteList
  <1> QED BY <1>3, <1>8, <1>9

\* resolve_concern.
LEMMA ResolvingKeeps ==
    ASSUME RecordsIInv, NEW s \in Tellers, ReadToResolve(s) \/ Resolve(s)
    PROVE  RecordsIInv'
  <1> USE DEF RecordsIInv
  <1>1. CASE ReadToResolve(s)
    <2>1. PICK given \in SUBSET Children :
                  Tell(s, "idle", "resolving", [NoTell EXCEPT !.list = given])
      BY <1>1 DEF ReadToResolve
    <2>2. /\ tellPc[s] = "idle" /\ tellPc'[s] = "resolving"
          /\ \A t \in Tellers \ {s} : tellPc'[t] = tellPc[t] /\ tell'[t] = tell[t]
      BY <2>1, TellFacts
    <2>3. RecordsTypeOK'
      BY <1>1, <2>1 DEF ReadToResolve, Tell, RecordsTypeOK, NoTell
    <2>4. BeingSpawned' = BeingSpawned
      BY <2>2 DEF BeingSpawned, ChildOf
    <2>5. ListBooks'
      BY <1>1, <2>2, <2>4 DEF ReadToResolve, ListBooks, Spawning
    <2>6. RecordBooks'
      BY <1>1, <2>2, RecordsUndisturbed DEF ReadToResolve
    <2> QED BY <2>3, <2>5, <2>6
  <1>2. CASE Resolve(s)
    <2>1. /\ tellPc[s] = "resolving" /\ tellPc'[s] = "idle"
          /\ \A t \in Tellers \ {s} : tellPc'[t] = tellPc[t] /\ tell'[t] = tell[t]
      BY <1>2, TellFacts DEF Resolve
    <2>2. RecordsTypeOK'
      BY <1>2 DEF Resolve, Tell, RecordsTypeOK, NoTell
    <2>3. ListBooks'
      BY <1>2, <2>1 DEF Resolve, ListBooks, Spawning
    <2>4. RecordBooks'
      BY <1>2, <2>1, RecordsUndisturbed DEF Resolve
    <2> QED BY <2>2, <2>3, <2>4
  <1> QED BY <1>1, <1>2

-----------------------------------------------------------------------------
(* The records. *)

\* Calls of one statement leave the list, and who is in the middle of something, alone.
LEMMA RecordsKeep ==
    ASSUME RecordsIInv,
           \/ \E s \in Tellers : \/ KbRetrieve(s) \/ TellerChanges(s)
                                 \/ \E r \in Records : KbRecord(s, r) \/ Escalate(s, r)
           \/ \E r \in Records : Expires(r)
    PROVE  RecordsIInv'
  <1> USE DEF RecordsIInv
  <1>1. UNCHANGED <<closed, spawned, children, tellPc, tell, invalidations, disturbed>>
    BY DEF KbRetrieve, TellerChanges, KbRecord, Escalate, Expires, Idle
  <1>2. /\ record' \in [Records -> {"none", "valid", "expired", "invalid"}]
        /\ \A r \in Records : record'[r] # "invalid" => record[r] # "invalid"
    BY DEF KbRetrieve, TellerChanges, KbRecord, Escalate, Expires, RecordsTypeOK
  <1>3. retrieved' \in [Tellers -> SUBSET Records]
    BY DEF KbRetrieve, TellerChanges, KbRecord, Escalate, Expires, RecordsTypeOK
  <1>4. RecordsTypeOK'
    BY <1>1, <1>2, <1>3 DEF RecordsTypeOK
  <1>5. ListBooks'
    BY <1>1 DEF ListBooks, BeingSpawned, ChildOf, Spawning
  <1>6. RecordBooks'
    BY <1>1, <1>2 DEF RecordBooks, InvalidatorsOf
  <1> QED BY <1>4, <1>5, <1>6

\* kb_invalidate.
LEMMA InvalidatingKeeps ==
    ASSUME RecordsIInv, NEW s \in Tellers,
           (\E r \in Records : ReadToInvalidate(s, r)) \/ Invalidate(s)
    PROVE  RecordsIInv'
  <1> USE DEF RecordsIInv
  <1>1. ASSUME NEW r \in Records, ReadToInvalidate(s, r)
        PROVE  RecordsIInv'
    <2>1. /\ tellPc[s] = "idle" /\ tellPc'[s] = "invalidating"
          /\ tell'[s] = [of |-> {r}, list |-> {}]
          /\ \A t \in Tellers \ {s} : tellPc'[t] = tellPc[t] /\ tell'[t] = tell[t]
      BY <1>1, TellFacts DEF ReadToInvalidate
    <2>2. RecordsTypeOK'
      BY <1>1 DEF ReadToInvalidate, Tell, RecordsTypeOK
    <2>3. BeingSpawned' = BeingSpawned
      BY <2>1 DEF BeingSpawned, ChildOf
    <2>4. ListBooks'
      BY <1>1, <2>1, <2>3 DEF ReadToInvalidate, ListBooks, Spawning
    <2>5. ASSUME NEW q \in Records
          PROVE  /\ record[q] # "invalid" => invalidations[q] = 0
                 /\ invalidations[q] + Cardinality(InvalidatorsOf(q)') <= Cardinality(Tellers)
      <3>1. CASE q = r
        <4>1. invalidations[q] = 0
          BY <1>1, <3>1 DEF ReadToInvalidate, RecordBooks
        <4>2. InvalidatorsOf(q)' \subseteq Tellers
          BY DEF InvalidatorsOf
        <4> QED BY <4>1, <4>2, TellersFinite, FS_Subset, FS_CardinalityType
      <3>2. CASE q # r
        <4>1. InvalidatorsOf(q)' = InvalidatorsOf(q)
          BY <2>1, <3>2 DEF InvalidatorsOf
        <4> QED BY <4>1 DEF RecordBooks
      <3> QED BY <3>1, <3>2
    <2>6. RecordBooks'
      BY <1>1, <2>5 DEF ReadToInvalidate, RecordBooks
    <2> QED BY <2>2, <2>4, <2>6
  <1>2. CASE Invalidate(s)
    <2>1. /\ tellPc[s] = "invalidating" /\ tellPc'[s] = "idle"
          /\ \A t \in Tellers \ {s} : tellPc'[t] = tellPc[t] /\ tell'[t] = tell[t]
      BY <1>2, TellFacts DEF Invalidate
    <2>2. BeingSpawned' = BeingSpawned
      BY <2>1 DEF BeingSpawned, ChildOf
    <2>3. ListBooks'
      BY <1>2, <2>1, <2>2 DEF Invalidate, ListBooks, Spawning
    <2>4. ASSUME NEW q \in Records
          PROVE  /\ invalidations'[q] \in Nat
                 /\ record'[q] # "invalid" => invalidations'[q] = 0
                 /\ invalidations'[q] + Cardinality(InvalidatorsOf(q)') <= Cardinality(Tellers)
      <3>1. CASE q \in tell[s].of
        <4>1. InvalidatorsOf(q)' = InvalidatorsOf(q) \ {s} /\ s \in InvalidatorsOf(q)
          BY <2>1, <3>1 DEF InvalidatorsOf
        <4>2. /\ Cardinality(InvalidatorsOf(q)') = Cardinality(InvalidatorsOf(q)) - 1
              /\ Cardinality(InvalidatorsOf(q)) \in Nat
          BY <4>1, InvalidatorsCount, FS_RemoveElement
        <4>3. Cardinality(tell[s].of \cap {q}) = 1
          <5>1. tell[s].of \cap {q} = {q}
            BY <3>1
          <5> QED BY <5>1, FS_Singleton
        <4>4. invalidations'[q] = invalidations[q] + 1 /\ record'[q] = "invalid"
          BY <1>2, <3>1, <4>3 DEF Invalidate
        <4> QED BY <4>2, <4>4, InvalidatorsCount DEF RecordBooks, RecordsTypeOK
      <3>2. CASE q \notin tell[s].of
        <4>1. InvalidatorsOf(q)' = InvalidatorsOf(q)
          BY <2>1, <3>2 DEF InvalidatorsOf
        <4>2. Cardinality(tell[s].of \cap {q}) = 0
          <5>1. tell[s].of \cap {q} = {}
            BY <3>2
          <5> QED BY <5>1, FS_EmptySet
        <4>3. invalidations'[q] = invalidations[q] /\ record'[q] = record[q]
          BY <1>2, <3>2, <4>2 DEF Invalidate, RecordsTypeOK
        <4> QED BY <4>1, <4>3 DEF RecordBooks, RecordsTypeOK
      <3> QED BY <3>1, <3>2
    <2>5. RecordBooks'
      BY <2>4 DEF RecordBooks
    <2>6. invalidations' \in [Records -> Nat]
      BY <1>2, <2>4 DEF Invalidate
    <2>7. RecordsTypeOK'
      BY <1>2, <2>6 DEF Invalidate, Tell, RecordsTypeOK, NoTell
    <2> QED BY <2>3, <2>5, <2>7
  <1> QED BY <1>1, <1>2

\* A statement fails, or the tool is killed at it.
LEMMA FailureKeeps ==
    ASSUME RecordsIInv, NEW s \in Tellers, StatementFails(s)
    PROVE  RecordsIInv'
  <1> USE DEF RecordsIInv
  <1>1. /\ tellPc'[s] = "idle"
        /\ \A t \in Tellers \ {s} : tellPc'[t] = tellPc[t] /\ tell'[t] = tell[t]
    BY TellFacts DEF StatementFails
  <1>2. RecordsTypeOK'
    BY DEF StatementFails, Tell, RecordsTypeOK, NoTell
  <1>3. BeingSpawned \cup disturbed \subseteq BeingSpawned' \cup disturbed' /\ disturbed \subseteq disturbed'
    BY <1>1 DEF StatementFails, BeingSpawned, ChildOf
  <1>4. ListBooks'
    BY <1>1, <1>3 DEF StatementFails, ListBooks, Spawning
  <1>5. RecordBooks'
    BY <1>1, RecordsUndisturbed DEF StatementFails
  <1> QED BY <1>2, <1>4, <1>5

LEMMA RecordsStepIInv == RecordsIInv /\ [RecordsNext]_recordVars => RecordsIInv'
  <1> SUFFICES ASSUME RecordsIInv, [RecordsNext]_recordVars
               PROVE  RecordsIInv'
    OBVIOUS
  <1>1. CASE UNCHANGED recordVars
    BY <1>1 DEF recordVars, RecordsIInv, RecordsTypeOK, ListBooks, RecordBooks, BeingSpawned, ChildOf,
                Spawning, InvalidatorsOf
  <1>2. CASE RecordsNext
    BY <1>2, OpeningKeeps, WriteListKeeps, ResolvingKeeps, RecordsKeep, InvalidatingKeeps,
       FailureKeeps DEF RecordsNext
  <1> QED BY <1>1, <1>2

LEMMA RecordsIInvAlways == RecordsSpec => []RecordsIInv
  BY RecordsInitIInv, RecordsStepIInv, PTL DEF RecordsSpec

LEMMA RecordsIInvImplies == RecordsIInv => LinksHold
  <1> SUFFICES ASSUME RecordsIInv
               PROVE  LinksHold
    OBVIOUS
  <1>1. ASSUME NEW r \in Records
        PROVE  invalidations[r] <= Cardinality(Tellers)
    BY InvalidatorsCount DEF RecordsIInv, RecordBooks, RecordsTypeOK
  <1> QED BY <1>1 DEF RecordsIInv, ListBooks, LinksHold

\* However many sessions open, resolve and look things up at once: what was spawned is in
\* the list but for what the code is known to disturb, and nobody invalidates what he has
\* not found valid.
THEOREM LinksAlwaysHold == RecordsSpec => []LinksHold
  BY RecordsIInvAlways, RecordsIInvImplies, PTL

-----------------------------------------------------------------------------
(* KnowledgeFiles, for any number of processes that write one file: it is  *)
(* written outside of the lock, and yet the last commit ends up with what  *)
(* the file has.                                                           *)

FilesSpec == FilesInit /\ [][FilesNext]_fileVars

FilesTypeOK ==
    /\ filePc \in [FileWriters -> {"idle", "truncated", "written", "locked", "added", "through"}]
    /\ told \in [FileWriters -> {"nothing", "error", "failed", "committed"}]
    /\ mishap \in BOOLEAN

WritersAt(places) == {w \in FileWriters : filePc[w] \in places}

\* The lock is with whoever is between taking and giving it back.
LockBooks == \A w \in WritersAt({"locked", "added"}) : holder = w

\* Nothing of before is left once somebody has begun, and an empty file is being written.
TextBooks ==
    /\ file \subseteq WritersAt({"written", "locked", "added", "through"})
          \/ (file = {Before} /\ WritersAt({"idle"}) = FileWriters)
    /\ file = {} => WritersAt({"truncated"}) # {}
    /\ WritersAt({"added"}) # {} => Before \notin added

\* What the index or the last commit does not have yet, somebody is about to give it.
CommitBooks ==
    /\ file = added \/ WritersAt({"truncated", "written", "locked"}) # {}
    /\ added = committed \/ WritersAt({"added"}) # {}

\* A commit that finds nothing to do comes after one that was told of.
ToldBooks ==
    /\ WritersAt({"through"}) # {} => Before \notin committed
    /\ Before \in committed \/ \E w \in WritersAt({"through"}) : told[w] = "committed"

FilesBooks == LockBooks /\ TextBooks /\ CommitBooks /\ ToldBooks

FilesIInv == FilesTypeOK /\ (~mishap => FilesBooks)

LEMMA FilesInitIInv == FilesInit => FilesIInv
  BY BeforeIsNoWriter DEF FilesInit, FilesIInv, FilesTypeOK, FilesBooks, LockBooks, TextBooks, CommitBooks, ToldBooks, WritersAt

LEMMA FilesStepIInv == FilesIInv /\ [FilesNext]_fileVars => FilesIInv'
  <1> SUFFICES ASSUME FilesIInv, [FilesNext]_fileVars
               PROVE  FilesIInv'
    OBVIOUS
  <1> USE BeforeIsNoWriter DEF FilesIInv, FilesTypeOK, FileGoes
  <1>1. CASE UNCHANGED fileVars
    BY <1>1 DEF fileVars, FilesBooks, LockBooks, TextBooks, CommitBooks, ToldBooks, WritersAt
  <1>2. ASSUME NEW w \in FileWriters, Truncates(w)
        PROVE  FilesIInv'
    <2>1. FilesTypeOK'
      BY <1>2 DEF Truncates
    <2>2. ASSUME FilesBooks
          PROVE  LockBooks' /\ TextBooks'
      BY <1>2, <2>2 DEF Truncates, FilesBooks, LockBooks, TextBooks, WritersAt
    <2>3. ASSUME FilesBooks
          PROVE  CommitBooks' /\ ToldBooks'
      BY <1>2, <2>3 DEF Truncates, FilesBooks, CommitBooks, ToldBooks, WritersAt
    <2> QED BY <1>2, <2>1, <2>2, <2>3 DEF Truncates, FilesBooks
  <1>3. ASSUME NEW w \in FileWriters, WritesText(w)
        PROVE  FilesIInv'
    <2>1. FilesTypeOK'
      BY <1>3 DEF WritesText
    <2>2. ASSUME FilesBooks
          PROVE  LockBooks' /\ TextBooks'
      <3>1. LockBooks'
        BY <1>3, <2>2 DEF WritesText, FilesBooks, LockBooks, WritersAt
      <3>2. file \subseteq WritersAt({"written", "locked", "added", "through"})
        BY <1>3, <2>2 DEF WritesText, FilesBooks, TextBooks, WritersAt
      <3>3. TextBooks'
        BY <1>3, <2>2, <3>2 DEF WritesText, FilesBooks, TextBooks, WritersAt
      <3> QED BY <3>1, <3>3
    <2>3. ASSUME FilesBooks
          PROVE  CommitBooks' /\ ToldBooks'
      BY <1>3, <2>3 DEF WritesText, FilesBooks, CommitBooks, ToldBooks, WritersAt
    <2> QED BY <1>3, <2>1, <2>2, <2>3 DEF WritesText, FilesBooks
  <1>4. ASSUME NEW w \in FileWriters, TakesLock(w)
        PROVE  FilesIInv'
    <2>1. FilesTypeOK'
      BY <1>4 DEF TakesLock
    <2>2. ASSUME FilesBooks
          PROVE  LockBooks' /\ TextBooks'
      BY <1>4, <2>2 DEF TakesLock, Free, FilesBooks, LockBooks, TextBooks, WritersAt
    <2>3. ASSUME FilesBooks
          PROVE  CommitBooks' /\ ToldBooks'
      BY <1>4, <2>3 DEF TakesLock, FilesBooks, CommitBooks, ToldBooks, WritersAt
    <2> QED BY <1>4, <2>1, <2>2, <2>3 DEF TakesLock, FilesBooks
  <1>5. ASSUME NEW w \in FileWriters, GitAdds(w)
        PROVE  FilesIInv'
    <2>1. FilesTypeOK'
      BY <1>5 DEF GitAdds
    <2>2. ASSUME FilesBooks
          PROVE  LockBooks' /\ TextBooks'
      BY <1>5, <2>2 DEF GitAdds, FilesBooks, LockBooks, TextBooks, WritersAt
    <2>3. ASSUME FilesBooks
          PROVE  CommitBooks' /\ ToldBooks'
      BY <1>5, <2>3 DEF GitAdds, FilesBooks, CommitBooks, ToldBooks, WritersAt
    <2> QED BY <1>5, <2>1, <2>2, <2>3 DEF GitAdds, FilesBooks
  <1>6. ASSUME NEW w \in FileWriters, GitCommits(w)
        PROVE  FilesIInv'
    <2>1. FilesTypeOK'
      BY <1>6 DEF GitCommits, Tells
    <2>2. ASSUME FilesBooks
          PROVE  LockBooks' /\ TextBooks'
      BY <1>6, <2>2 DEF GitCommits, FilesBooks, LockBooks, TextBooks, WritersAt
    <2>3. ASSUME FilesBooks
          PROVE  CommitBooks' /\ ToldBooks'
      <3>1. Before \notin added
        BY <1>6, <2>3 DEF GitCommits, FilesBooks, TextBooks, WritersAt
      <3>2. CommitBooks'
        BY <1>6, <2>3 DEF GitCommits, FilesBooks, CommitBooks, WritersAt
      <3>3. \E u \in FileWriters : filePc'[u] = "through" /\ told'[u] = "committed"
        <4>1. CASE committed = added
          <5>1. PICK u \in WritersAt({"through"}) : told[u] = "committed"
            BY <2>3, <3>1, <4>1 DEF FilesBooks, ToldBooks
          <5> QED BY <1>6, <5>1 DEF GitCommits, Tells, WritersAt
        <4>2. CASE committed # added
          BY <1>6, <4>2 DEF GitCommits, Tells
        <4> QED BY <4>1, <4>2
      <3>4. ToldBooks'
        BY <1>6, <3>1, <3>3 DEF GitCommits, ToldBooks, WritersAt
      <3> QED BY <3>2, <3>4
    <2> QED BY <1>6, <2>1, <2>2, <2>3 DEF GitCommits, FilesBooks
  <1>7. ASSUME NEW w \in FileWriters,
               \/ WriteTextFails(w) \/ NoAutoCommit(w) \/ GitFails(w) \/ WriterKilled(w)
        PROVE  FilesIInv'
    BY <1>7 DEF WriteTextFails, NoAutoCommit, GitFails, WriterKilled, Tells
  <1> QED BY <1>1, <1>2, <1>3, <1>4, <1>5, <1>6, <1>7 DEF FilesNext

LEMMA FilesIInvAlways == FilesSpec => []FilesIInv
  BY FilesInitIInv, FilesStepIInv, PTL DEF FilesSpec

LEMMA FilesIInvImplies == FilesIInv => CommittedIsLatest
  <1> SUFFICES ASSUME FilesIInv, ~mishap, \A w \in FileWriters : ~Pending(w)
               PROVE  /\ committed = file
                      /\ (\E w \in FileWriters : filePc[w] = "through") =>
                            /\ file # {}
                            /\ file \subseteq {w \in FileWriters : filePc[w] = "through"}
                            /\ \E w \in FileWriters : told[w] = "committed"
    BY DEF CommittedIsLatest
  <1> USE BeforeIsNoWriter DEF FilesIInv, FilesTypeOK, Pending, FilesBooks, WritersAt
  <1>1. committed = file
    BY DEF CommitBooks
  <1>2. file # {}
    BY DEF TextBooks
  <1>3. ASSUME \E w \in FileWriters : filePc[w] = "through"
        PROVE  /\ file \subseteq {w \in FileWriters : filePc[w] = "through"}
               /\ \E w \in FileWriters : told[w] = "committed"
    BY <1>3 DEF TextBooks, ToldBooks
  <1> QED BY <1>1, <1>2, <1>3

\* However many processes write one file at once, and however their writes, adds and commits
\* overlap: if nothing fails and none is killed, the last commit has the file as it is, with
\* nothing of before in it, and one of the writers was told that it was committed.
THEOREM LatestIsCommitted == FilesSpec => []CommittedIsLatest
  BY FilesIInvAlways, FilesIInvImplies, PTL
-----------------------------------------------------------------------------
(* ChildCommands, for pipes of any size and any amount of output: what the *)
(* model is given of a command or a page is whole.                         *)

ChildSpec == ChildInit /\ [][ChildNext]_childVars

ChildTypeOK ==
    /\ tool \in {"bash", "chromium", "firefox"}
    /\ toolPc \in {"start", "waiting", "cleaning", "told", "killed"}
    /\ thread \in {"stdout", "stderr", "status", "through"}
    /\ command \in {"none", "running", "exited", "killed"}
    /\ helper \in {"none", "running", "exited"}
    /\ success \in BOOLEAN /\ profile \in BOOLEAN
    /\ written \in [Streams -> Nat] /\ taken \in [Streams -> Nat]
    /\ binary \in SUBSET Streams
    /\ step \in -1..4 \cup {99} /\ pageOf \in Int
    /\ unanswered \in Seq(Int) /\ wire \in Seq(Int \X BOOLEAN)
    /\ output \in {"nothing", "ok", "failed", "timeout"}
    /\ heard \in {"nothing", "ok", "failed", "timeout", "killed"}

\* The thread is past a stream only when nobody is left who could write to it: neither the
\* command nor a helper, and the command does not start another.
PipeBooks ==
    /\ thread # "stdout" => /\ command # "running" /\ helper # "running"
                            /\ taken["stdout"] = written["stdout"]
    /\ thread \in {"status", "through"} => taken["stderr"] = written["stderr"]
    /\ tool = "firefox" => written = taken /\ thread = "stdout"

\* One call of Marionette is under way at a time, until the last: so the next answer is
\* the answer to it.
CallBooks ==
    /\ toolPc = "waiting" /\ step \in 0..3 =>
                        \/ unanswered = <<step>> /\ wire = <<>>
                        \/ unanswered = <<>> /\ Len(wire) = 1 /\ wire[1][1] = step
    /\ toolPc = "start" => step = -1
    /\ step = -1 => unanswered = <<>> /\ wire = <<>>
    /\ pageOf = 0 \/ (pageOf = 3 /\ step = 4)

\* What the tool has to tell, and what is over by then.
TellBooks ==
    /\ toolPc = "start" => command = "none" /\ ~profile /\ thread = "stdout"
    /\ toolPc \in {"cleaning", "told"} => output # "nothing"
    /\ tool # "firefox" /\ output # "nothing" => command # "running"
    /\ toolPc = "told" => command # "running" /\ (profile => helper # "none")
    /\ output = "ok" => IF tool = "firefox" THEN pageOf = 3
                        ELSE thread = "through" /\ (tool = "bash" => success)
    /\ output = "failed" /\ command = "exited" /\ tool # "firefox" => thread = "through"
    /\ heard \notin {"nothing", "killed"} => toolPc = "told" /\ heard = output
    /\ toolPc \in {"start", "waiting"} => output = "nothing"
    /\ (command = "none" => helper = "none")

ChildIInv == ChildTypeOK /\ PipeBooks /\ CallBooks /\ TellBooks

LEMMA ChildInitIInv == ChildInit => ChildIInv
  <1> SUFFICES ASSUME ChildInit
               PROVE  ChildIInv
    OBVIOUS
  <1>1. written \in [Streams -> Nat] /\ taken \in [Streams -> Nat] /\ step \in -1..4
    BY DEF ChildInit
  <1>2. unanswered \in Seq(Int) /\ wire \in Seq(Int \X BOOLEAN)
    BY DEF ChildInit
  <1>3. ChildTypeOK
    <2>1. success \in BOOLEAN /\ profile \in BOOLEAN /\ binary \in SUBSET Streams
      BY DEF ChildInit
    <2>2. pageOf \in Int
      BY DEF ChildInit
    <2> QED BY <1>1, <1>2, <2>1, <2>2 DEF ChildInit, ChildTypeOK
  <1>4. PipeBooks /\ CallBooks /\ TellBooks
    BY DEF ChildInit, PipeBooks, CallBooks, TellBooks
  <1> QED BY <1>3, <1>4 DEF ChildIInv

\* The command and its helper.
LEMMA CommandKeeps ==
    ASSUME ChildIInv, (\E s \in Streams : Writes(s)) \/ Forks \/ CommandEnds
    PROVE  ChildIInv'
  <1> USE DEF ChildIInv, ChildTypeOK, commandVars, pipeVars, firefoxVars, tellVars
  <1>1. ASSUME NEW s \in Streams, Writes(s)
        PROVE  ChildIInv'
    <2>1. thread = "stdout" /\ tool # "firefox"
      BY <1>1 DEF Writes, Piped, Holders, PipeBooks
    <2>2. ChildTypeOK' /\ PipeBooks'
      BY <1>1, <2>1 DEF Writes, PipeBooks, Streams
    <2>3. CallBooks' /\ TellBooks'
      BY <1>1 DEF Writes, CallBooks, TellBooks
    <2> QED BY <2>2, <2>3
  <1>2. CASE Forks
    BY <1>2 DEF Forks, PipeBooks, CallBooks, TellBooks
  <1>3. CASE CommandEnds
    <2>1. ChildTypeOK' /\ PipeBooks' /\ CallBooks'
      BY <1>3 DEF CommandEnds, PipeBooks, CallBooks
    <2>2. TellBooks'
      BY <1>3 DEF CommandEnds, TellBooks
    <2> QED BY <2>1, <2>2
  <1> QED BY <1>1, <1>2, <1>3

\* The tool, up to what it has to tell.
LEMMA ToolKeeps ==
    ASSUME ChildIInv,
           Refuses \/ Starts \/ (\E s \in Streams : Reads(s)) \/ ReadsOn \/ Gathers \/ TimesOut
    PROVE  ChildIInv'
  <1> USE DEF ChildIInv, ChildTypeOK, commandVars, pipeVars, firefoxVars, tellVars
  <1>1. CASE Refuses
    BY <1>1 DEF Refuses, PipeBooks, CallBooks, TellBooks
  <1>2. CASE Starts
    <2>1. profile' \in BOOLEAN
      BY <1>2, Zenon DEF Starts
    <2>3. ChildTypeOK'
      BY <1>2, <2>1 DEF Starts, Concludes, TellBooks
    <2>4. PipeBooks' /\ CallBooks'
      BY <1>2 DEF Starts, Concludes, PipeBooks, CallBooks, TellBooks
    <2>2. TellBooks'
      BY <1>2 DEF Starts, Concludes, TellBooks
    <2> QED BY <2>2, <2>3, <2>4
  <1>3. ASSUME NEW s \in Streams, Reads(s)
        PROVE  ChildIInv'
    <2>1. ChildTypeOK' /\ PipeBooks'
      BY <1>3 DEF Reads, PipeBooks, Streams
    <2>2. CallBooks' /\ TellBooks'
      BY <1>3 DEF Reads, CallBooks, TellBooks
    <2> QED BY <2>1, <2>2
  <1>4. CASE ReadsOn
    <2>1. ChildTypeOK' /\ PipeBooks'
      BY <1>4 DEF ReadsOn, EndOf, Holders, PipeBooks
    <2>2. CallBooks' /\ TellBooks'
      BY <1>4 DEF ReadsOn, CallBooks, TellBooks
    <2> QED BY <2>1, <2>2
  <1>5. CASE Gathers
    <2>1. ChildTypeOK' /\ PipeBooks' /\ CallBooks'
      BY <1>5 DEF Gathers, Concludes, PipeBooks, CallBooks
    <2>2. TellBooks'
      BY <1>5 DEF Gathers, Concludes, PipeBooks, TellBooks
    <2> QED BY <2>1, <2>2
  <1>6. CASE TimesOut
    <2>1. ChildTypeOK' /\ PipeBooks' /\ CallBooks'
      BY <1>6 DEF TimesOut, Concludes, PipeBooks, CallBooks
    <2>2. TellBooks'
      BY <1>6 DEF TimesOut, Concludes, TellBooks
    <2> QED BY <2>1, <2>2
  <1> QED BY <1>1, <1>2, <1>3, <1>4, <1>5, <1>6

\* The conversation with Firefox.
LEMMA FirefoxKeeps ==
    ASSUME ChildIInv,
           MarionetteAnswers \/ Connects \/ CallReturns \/ CallFails \/ SessionDeleted
    PROVE  ChildIInv'
  <1> USE DEF ChildIInv, ChildTypeOK, commandVars, pipeVars, firefoxVars, tellVars
  <1>1. CASE MarionetteAnswers
    <2>1. ChildTypeOK' /\ PipeBooks' /\ TellBooks'
      BY <1>1 DEF MarionetteAnswers, PipeBooks, TellBooks
    <2>2. step # -1
      BY <1>1 DEF MarionetteAnswers, CallBooks
    <2>3. ASSUME toolPc = "waiting", step \in 0..3
          PROVE  unanswered' = <<>> /\ Len(wire') = 1 /\ wire'[1][1] = step
      <3>1. unanswered = <<step>> /\ wire = <<>>
        BY <1>1, <2>3 DEF MarionetteAnswers, CallBooks
      <3>2. PICK ok \in BOOLEAN : wire' = Append(wire, <<Head(unanswered), ok>>)
        BY <1>1 DEF MarionetteAnswers
      <3>3. wire' = <<<<step, ok>>>>
        BY <3>1, <3>2
      <3> QED BY <1>1, <3>1, <3>3 DEF MarionetteAnswers
    <2>4. CallBooks'
      BY <1>1, <2>2, <2>3 DEF MarionetteAnswers, CallBooks
    <2> QED BY <2>1, <2>4
  <1>2. CASE Connects
    <2>1. ChildTypeOK' /\ PipeBooks' /\ TellBooks'
      BY <1>2 DEF Connects, AsksFor, Talks, PipeBooks, TellBooks
    <2>2. CallBooks'
      BY <1>2 DEF Connects, AsksFor, Talks, CallBooks
    <2> QED BY <2>1, <2>2
  <1>3. CASE CallReturns
    <2>1. unanswered = <<>> /\ Len(wire) = 1 /\ wire[1][1] = step
      BY <1>3 DEF CallReturns, Talks, CallBooks
    <2>2. step' \in 1..4 /\ unanswered' = <<step'>> /\ wire' = <<>>
      <3>1. step \in 0..3 /\ step' = step + 1 /\ unanswered' = Append(unanswered, step + 1)
            /\ wire' = Tail(wire) /\ wire # <<>>
        BY <1>3 DEF CallReturns, AsksFor
      <3>2. unanswered' = <<step'>>
        BY <2>1, <3>1
      <3>3. wire \in Seq(Int \X BOOLEAN)
        OBVIOUS
      <3> HIDE DEF ChildIInv, ChildTypeOK
      <3>4. wire' = <<>>
        <4>1. Tail(wire) \in Seq(Int \X BOOLEAN) /\ Len(Tail(wire)) = Len(wire) - 1
          BY <3>1, <3>3, HeadTailProperties
        <4>2. Len(Tail(wire)) = 0
          BY <2>1, <4>1
        <4> QED BY <3>1, <4>1, <4>2, EmptySeq
      <3>5. step' \in 1..4
        BY <3>1
      <3> QED BY <3>2, <3>4, <3>5
    <2>3. pageOf = 0 /\ pageOf' = IF step = 3 THEN 3 ELSE 0
      BY <1>3, <2>1 DEF CallReturns, CallBooks
    <2>4. ChildTypeOK'
      BY <1>3, <2>2, <2>3 DEF CallReturns
    <2>7. toolPc' = "waiting" /\ step' = step + 1
      BY <1>3 DEF CallReturns, Talks, AsksFor
    <2>6. CallBooks'
      BY <2>2, <2>3, <2>7 DEF CallBooks
    <2>5. PipeBooks' /\ TellBooks'
      BY <1>3 DEF CallReturns, Talks, PipeBooks, TellBooks
    <2> QED BY <2>4, <2>5, <2>6
  <1>4. CASE CallFails
    <2>4. wire' \in Seq(Int \X BOOLEAN)
      <3>1. CASE UNCHANGED wire
        BY <3>1
      <3>2. CASE wire # <<>> /\ wire' = Tail(wire)
        BY <3>2, HeadTailProperties
      <3> QED BY <1>4, <3>1, <3>2 DEF CallFails, CallBreaks
    <2>5. step' \in -1..4 \cup {99} /\ unanswered' \in Seq(Int)
      <3>1. CASE UNCHANGED <<step, unanswered>>
        BY <3>1
      <3>2. CASE AsksFor(99)
        BY <3>2, AppendProperties DEF AsksFor
      <3>3. CASE AsksFor(4)
        BY <3>3, AppendProperties DEF AsksFor
      <3> QED BY <1>4, <3>1, <3>2, <3>3 DEF CallFails
    <2>1. ChildTypeOK' /\ PipeBooks'
      BY <1>4, <2>4, <2>5 DEF CallFails, Concludes, PipeBooks
    <2>2. CallBooks'
      <3>1. toolPc = "waiting" /\ step \in -1..3 /\ pageOf = 0 /\ pageOf' = 0
        BY <1>4 DEF CallFails, CallBreaks, Talks, CallBooks
      <3>2. toolPc' = "cleaning" \/ (toolPc' = "waiting" /\ step' \in {4, 99})
        BY <1>4, <3>1 DEF CallFails, Concludes, AsksFor
      <3>3. ASSUME step' = -1
            PROVE  unanswered' = <<>> /\ wire' = <<>>
        <4>1. step = -1 /\ unanswered' = unanswered
          BY <1>4, <3>3 DEF CallFails, AsksFor
        <4> QED BY <1>4, <4>1 DEF CallFails, CallBreaks, CallBooks
      <3> QED BY <3>1, <3>2, <3>3 DEF CallBooks
    <2>3. TellBooks'
      BY <1>4 DEF CallFails, CallBreaks, Talks, AsksFor, Concludes, CallBooks, TellBooks
    <2> QED BY <2>1, <2>2, <2>3
  <1>5. CASE SessionDeleted
    <2>1. ChildTypeOK' /\ PipeBooks' /\ CallBooks'
      BY <1>5 DEF SessionDeleted, Talks, Concludes, PipeBooks, CallBooks
    <2>2. TellBooks'
      BY <1>5 DEF SessionDeleted, Talks, Concludes, CallBooks, TellBooks
    <2> QED BY <2>1, <2>2
  <1> QED BY <1>1, <1>2, <1>3, <1>4, <1>5

\* The way back to the runner.
LEMMA RunnerKeeps ==
    ASSUME ChildIInv, CleansUp \/ RunnerHears \/ RunnerTimesOut
    PROVE  ChildIInv'
  <1> USE DEF ChildIInv, ChildTypeOK, commandVars, pipeVars, firefoxVars, tellVars
  <1>1. CASE CleansUp
    <2>1. profile' \in BOOLEAN /\ (profile' => helper # "none")
      BY <1>1, Zenon DEF CleansUp
    <2>2. ChildTypeOK'
      BY <1>1, <2>1 DEF CleansUp
    <2>3. PipeBooks' /\ CallBooks'
      BY <1>1 DEF CleansUp, PipeBooks, CallBooks
    <2>4. TellBooks'
      BY <1>1, <2>1 DEF CleansUp, TellBooks
    <2> QED BY <2>2, <2>3, <2>4
  <1>2. CASE RunnerHears
    BY <1>2 DEF RunnerHears, PipeBooks, CallBooks, TellBooks
  <1>3. CASE RunnerTimesOut
    BY <1>3 DEF RunnerTimesOut, PipeBooks, CallBooks, TellBooks
  <1> QED BY <1>1, <1>2, <1>3

LEMMA ChildStepIInv == ChildIInv /\ [ChildNext]_childVars => ChildIInv'
  <1> SUFFICES ASSUME ChildIInv, [ChildNext]_childVars
               PROVE  ChildIInv'
    OBVIOUS
  <1>1. CASE UNCHANGED childVars
    BY <1>1 DEF childVars, commandVars, pipeVars, firefoxVars, tellVars,
                ChildIInv, ChildTypeOK, PipeBooks, CallBooks, TellBooks
  <1>2. CASE ChildNext
    BY <1>2, CommandKeeps, ToolKeeps, FirefoxKeeps, RunnerKeeps DEF ChildNext
  <1> QED BY <1>1, <1>2

LEMMA ChildIInvAlways == ChildSpec => []ChildIInv
  BY ChildInitIInv, ChildStepIInv, PTL DEF ChildSpec

LEMMA ChildIInvImplies == ChildIInv => OutputIsWhole
  <1> SUFFICES ASSUME ChildIInv
               PROVE  OutputIsWhole
    OBVIOUS
  <1> USE DEF ChildIInv, ChildTypeOK
  <1>1. ASSUME thread = "through"
        PROVE  Whole /\ Holders = {}
    BY <1>1 DEF PipeBooks, Whole, Gathered, Streams, Holders
  <1>2. ASSUME tool = "firefox"
        PROVE  Whole
    BY <1>2 DEF PipeBooks, Whole, Gathered, Streams
  <1>3. heard \notin {"nothing", "killed"} => toolPc = "told" /\ heard = output
    BY DEF TellBooks
  <1>4. ASSUME heard = "ok"
        PROVE  IF tool = "firefox" THEN pageOf = 3
               ELSE Whole /\ Holders = {} /\ (tool = "bash" => success)
    BY <1>1, <1>3, <1>4 DEF TellBooks
  <1>5. ASSUME heard = "failed", command = "exited"
        PROVE  Whole
    BY <1>1, <1>2, <1>3, <1>5 DEF TellBooks
  <1>6. ASSUME heard \notin {"nothing", "killed"}
        PROVE  command # "running" /\ (profile => helper # "none")
    BY <1>3, <1>6 DEF TellBooks
  <1> QED BY <1>4, <1>5, <1>6 DEF OutputIsWhole

\* Whatever a command writes, leaves behind or is interrupted by, and however much a pipe
\* holds: what is reported as its output is all that was written, and a page is the answer
\* to the question for it.
THEOREM OutputsAreWhole == ChildSpec => []OutputIsWhole
  BY ChildIInvAlways, ChildIInvImplies, PTL

-----------------------------------------------------------------------------
(* SignalInbox, for any number of messages: each is asked for once, in its *)
(* order.                                                                  *)

InboxSpec == InboxInit /\ [][InboxNext]_inboxVars

InboxTypeOK ==
    /\ sent \in 0..MaxMessages
    /\ fromOwner \in SUBSET (1..sent)
    /\ waiting \in Seq(1..sent) /\ batch \in Seq(1..sent) /\ posted \in Seq(1..sent)
    /\ inboxPc \in {"idle", "batch"}
    /\ sessions \in [Messages -> Nat]

Increases(s) == \A i, j \in DOMAIN s : i < j => s[i] < s[j]
Precedes(s, t) == \A a \in Range(s), b \in Range(t) : a < b

\* What was posted comes before what is in memory, and that before what is at the server.
OrderBooks ==
    /\ Increases(posted) /\ Increases(batch) /\ Increases(waiting)
    /\ Precedes(posted, batch) /\ Precedes(posted, waiting) /\ Precedes(batch, waiting)

\* No session was made for what is still to be looked at, or not even sent.
SessionBooks ==
    \A m \in Messages :
       /\ sessions[m] <= IF m \in fromOwner THEN 1 ELSE 0
       /\ m \in Range(batch) \cup Range(waiting) \/ m > sent => sessions[m] = 0

\* What the owner sent is somewhere, and nothing is in memory between two fetches.
OwnerBooks ==
    /\ fromOwner \subseteq Range(waiting) \cup Range(batch) \cup Range(posted) \cup lost
    /\ inboxPc = "idle" => batch = <<>>

InboxIInv == InboxTypeOK /\ OrderBooks /\ SessionBooks /\ OwnerBooks

LEMMA RangeEmpty == Range(<<>>) = {} /\ Increases(<<>>)
  BY DEF Range, Increases

LEMMA RangeAppend ==
    ASSUME NEW S, NEW s \in Seq(S), NEW n \in S
    PROVE  Range(Append(s, n)) = Range(s) \cup {n}
  <1>1. /\ DOMAIN s = 1..Len(s) /\ DOMAIN Append(s, n) = 1..(Len(s) + 1) /\ Len(s) \in Nat
        /\ Append(s, n)[Len(s) + 1] = n /\ \A i \in 1..Len(s) : Append(s, n)[i] = s[i]
    BY AppendProperties
  <1>2. ASSUME NEW x \in Range(Append(s, n))
        PROVE  x \in Range(s) \cup {n}
    <2>1. PICK i \in 1..(Len(s) + 1) : x = Append(s, n)[i]
      BY <1>1, <1>2 DEF Range
    <2>2. i \in 1..Len(s) \/ i = Len(s) + 1
      BY <1>1
    <2> QED BY <1>1, <2>1, <2>2 DEF Range
  <1>3. ASSUME NEW x \in Range(s) \cup {n}
        PROVE  x \in Range(Append(s, n))
    <2>1. CASE x = n
      <3>1. Len(s) + 1 \in DOMAIN Append(s, n) /\ x = Append(s, n)[Len(s) + 1]
        BY <1>1, <2>1
      <3> QED BY <3>1 DEF Range
    <2>2. CASE x \in Range(s)
      <3>1. PICK i \in 1..Len(s) : x = s[i]
        BY <1>1, <2>2 DEF Range
      <3>2. i \in DOMAIN Append(s, n) /\ x = Append(s, n)[i]
        BY <1>1, <3>1
      <3> QED BY <3>2 DEF Range
    <2> QED BY <1>3, <2>1, <2>2
  <1> QED BY <1>2, <1>3

LEMMA IncreasesAppend ==
    ASSUME NEW S \in SUBSET Int, NEW s \in Seq(S), NEW n \in S, Increases(s), \A a \in Range(s) : a < n
    PROVE  Increases(Append(s, n))
  <1>1. /\ DOMAIN s = 1..Len(s) /\ DOMAIN Append(s, n) = 1..(Len(s) + 1) /\ Len(s) \in Nat
        /\ Append(s, n)[Len(s) + 1] = n /\ \A i \in 1..Len(s) : Append(s, n)[i] = s[i]
    BY AppendProperties
  <1>2. \A i \in 1..Len(s) : s[i] < n
    BY <1>1 DEF Range
  <1> SUFFICES ASSUME NEW i \in 1..(Len(s) + 1), NEW j \in 1..(Len(s) + 1), i < j
               PROVE  Append(s, n)[i] < Append(s, n)[j]
    BY <1>1 DEF Increases
  <1>3. i \in 1..Len(s) /\ (j \in 1..Len(s) \/ j = Len(s) + 1)
    BY <1>1
  <1> QED BY <1>1, <1>2, <1>3 DEF Increases

LEMMA RangeTail ==
    ASSUME NEW S \in SUBSET Int, NEW s \in Seq(S), s # <<>>, Increases(s)
    PROVE  /\ Head(s) \in S /\ Tail(s) \in Seq(S) /\ Increases(Tail(s))
           /\ Range(s) = {Head(s)} \cup Range(Tail(s))
           /\ \A a \in Range(Tail(s)) : Head(s) < a
  <1>1. /\ Head(s) \in S /\ Tail(s) \in Seq(S) /\ Head(s) = s[1]
        /\ DOMAIN s = 1..Len(s) /\ DOMAIN Tail(s) = 1..(Len(s) - 1) /\ Len(s) \in Nat \ {0}
        /\ \A i \in 1..(Len(s) - 1) : Tail(s)[i] = s[i + 1]
    BY HeadTailProperties, LenProperties, EmptySeq
  <1>2. Increases(Tail(s))
    <2> SUFFICES ASSUME NEW i \in 1..(Len(s) - 1), NEW j \in 1..(Len(s) - 1), i < j
                 PROVE  Tail(s)[i] < Tail(s)[j]
      BY <1>1 DEF Increases
    <2>1. i + 1 \in DOMAIN s /\ j + 1 \in DOMAIN s /\ i + 1 < j + 1
      BY <1>1
    <2> QED BY <1>1, <2>1 DEF Increases
  <1>3. ASSUME NEW a \in Range(Tail(s))
        PROVE  a \in Range(s) /\ Head(s) < a
    <2>1. PICK i \in 1..(Len(s) - 1) : a = Tail(s)[i]
      BY <1>1, <1>3 DEF Range
    <2>2. i + 1 \in DOMAIN s /\ 1 \in DOMAIN s /\ 1 < i + 1 /\ a = s[i + 1]
      BY <1>1, <2>1
    <2> QED BY <1>1, <2>2 DEF Range, Increases
  <1>4. Head(s) \in Range(s)
    BY <1>1 DEF Range
  <1>5. ASSUME NEW a \in Range(s)
        PROVE  a = Head(s) \/ a \in Range(Tail(s))
    <2>1. PICK i \in 1..Len(s) : a = s[i]
      BY <1>1, <1>5 DEF Range
    <2>2. CASE i = 1
      BY <1>1, <2>1, <2>2
    <2>3. CASE i # 1
      <3>1. i - 1 \in DOMAIN Tail(s) /\ a = Tail(s)[i - 1]
        BY <1>1, <2>1, <2>3
      <3> QED BY <3>1 DEF Range
    <2> QED BY <2>2, <2>3
  <1> QED BY <1>1, <1>2, <1>3, <1>4, <1>5

LEMMA InboxInitIInv == InboxInit => InboxIInv
  BY RangeEmpty, MaxMessagesNat
  DEF InboxInit, InboxIInv, InboxTypeOK, OrderBooks, Precedes, SessionBooks, OwnerBooks, Messages

LEMMA RangeIn ==
    ASSUME NEW S, NEW s \in Seq(S)
    PROVE  Range(s) \subseteq S
  BY ElementOfSeq, LenProperties DEF Range

LEMMA SeqWidens ==
    ASSUME NEW S, NEW T, S \subseteq T, NEW s \in Seq(S)
    PROVE  s \in Seq(T)
  <1>1. s \in [1..Len(s) -> S] /\ Len(s) \in Nat
    BY LenProperties
  <1>2. s \in [1..Len(s) -> T]
    BY <1>1
  <1> QED BY <1>1, <1>2, SeqDef

LEMMA ArrivesKeeps ==
    ASSUME InboxIInv, MessageArrives
    PROVE  InboxIInv'
  <1> USE DEF InboxIInv
  <1>1. /\ sent \in Nat /\ sent' = sent + 1 /\ sent' \in Messages /\ sent' \in 1..sent'
        /\ 1..sent \subseteq 1..sent' /\ sent' \in 0..MaxMessages
    BY MaxMessagesNat DEF InboxTypeOK, MessageArrives, Messages
  <1>2. waiting \in Seq(1..sent') /\ batch \in Seq(1..sent') /\ posted \in Seq(1..sent')
    BY <1>1, SeqWidens DEF InboxTypeOK
  <1>3. /\ Range(waiting) \subseteq 1..sent /\ Range(batch) \subseteq 1..sent
        /\ Range(posted) \subseteq 1..sent
    BY RangeIn DEF InboxTypeOK
  <1>4. UNCHANGED <<batch, inboxPc, posted, sessions, lost>> /\ waiting' = Append(waiting, sent')
    BY DEF MessageArrives
  <1>5. Range(waiting') = Range(waiting) \cup {sent'}
    BY <1>1, <1>2, <1>4, RangeAppend
  <1>6. waiting' \in Seq(1..sent')
    BY <1>1, <1>2, <1>4, AppendProperties
  <1>7. fromOwner \subseteq fromOwner' /\ fromOwner' \subseteq fromOwner \cup {sent'}
    BY DEF MessageArrives
  <1>8. InboxTypeOK'
    BY <1>1, <1>2, <1>4, <1>6, <1>7 DEF InboxTypeOK
  <1>9. OrderBooks'
    <2>1. \A a \in Range(waiting) : a < sent'
      BY <1>1, <1>3
    <2>2. Increases(waiting')
      <3>1. 1..sent' \in SUBSET Int
        BY <1>1
      <3> QED BY <1>1, <1>2, <1>4, <2>1, <3>1, IncreasesAppend DEF OrderBooks
    <2>3. Precedes(posted, waiting') /\ Precedes(batch, waiting')
      BY <1>1, <1>3, <1>5 DEF OrderBooks, Precedes
    <2> QED BY <1>4, <2>2, <2>3 DEF OrderBooks
  <1>10. SessionBooks'
    <2> SUFFICES ASSUME NEW m \in Messages
                 PROVE  /\ sessions[m] <= IF m \in fromOwner' THEN 1 ELSE 0
                        /\ m \in Range(batch) \cup Range(waiting') \/ m > sent' => sessions[m] = 0
      BY <1>4 DEF SessionBooks
    <2>1. m \in Nat /\ sessions[m] \in Nat
      BY MaxMessagesNat DEF Messages, InboxTypeOK
    <2>2. sessions[m] <= IF m \in fromOwner' THEN 1 ELSE 0
      BY <1>7, <2>1 DEF SessionBooks
    <2>3. m \in Range(batch) \cup Range(waiting') \/ m > sent' => sessions[m] = 0
      BY <1>1, <1>5, <2>1 DEF SessionBooks
    <2> QED BY <2>2, <2>3
  <1>11. OwnerBooks'
    BY <1>4, <1>5, <1>7 DEF OwnerBooks
  <1> QED BY <1>8, <1>9, <1>10, <1>11

LEMMA ReceivesKeeps ==
    ASSUME InboxIInv, Receives
    PROVE  InboxIInv'
  <1> USE DEF InboxIInv, Receives
  <1>1. batch = <<>> /\ Range(waiting') = {} /\ Increases(waiting') /\ Range(batch) = {}
    BY RangeEmpty DEF OwnerBooks
  <1>2. InboxTypeOK'
    BY DEF InboxTypeOK
  <1>3. OrderBooks'
    BY <1>1 DEF OrderBooks, Precedes
  <1>4. SessionBooks' /\ OwnerBooks'
    BY <1>1 DEF SessionBooks, OwnerBooks
  <1> QED BY <1>2, <1>3, <1>4

\* What the first of the batch has become of it does not touch the others.
LEMMA BatchFacts ==
    ASSUME InboxIInv, batch # <<>>
    PROVE  /\ Head(batch) \in 1..sent /\ Head(batch) \in Messages
           /\ Tail(batch) \in Seq(1..sent) /\ Increases(Tail(batch))
           /\ Range(batch) = {Head(batch)} \cup Range(Tail(batch))
           /\ \A a \in Range(Tail(batch)) \cup Range(waiting) : Head(batch) < a
           /\ \A a \in Range(posted) : a < Head(batch)
           /\ Range(posted) \subseteq 1..sent /\ Range(batch) \subseteq 1..sent
           /\ Range(waiting) \subseteq 1..sent
  <1> USE DEF InboxIInv
  <1>1. 1..sent \in SUBSET Int /\ 1..sent \subseteq Messages
    BY MaxMessagesNat DEF InboxTypeOK, Messages
  <1>2. batch \in Seq(1..sent) /\ Increases(batch)
    BY DEF InboxTypeOK, OrderBooks
  <1>3. /\ Head(batch) \in 1..sent /\ Tail(batch) \in Seq(1..sent) /\ Increases(Tail(batch))
        /\ Range(batch) = {Head(batch)} \cup Range(Tail(batch))
        /\ \A a \in Range(Tail(batch)) : Head(batch) < a
    BY <1>1, <1>2, RangeTail
  <1>4. /\ Range(posted) \subseteq 1..sent /\ Range(batch) \subseteq 1..sent
        /\ Range(waiting) \subseteq 1..sent
    BY RangeIn DEF InboxTypeOK
  <1>5. /\ \A a \in Range(waiting) : Head(batch) < a
        /\ \A a \in Range(posted) : a < Head(batch)
    BY <1>3 DEF OrderBooks, Precedes
  <1> QED BY <1>1, <1>3, <1>4, <1>5

LEMMA StrangerKeeps ==
    ASSUME InboxIInv, IgnoresStranger
    PROVE  InboxIInv'
  <1> USE DEF InboxIInv, IgnoresStranger
  <1>1. /\ batch # <<>> /\ batch' = Tail(batch) /\ Head(batch) \notin fromOwner
        /\ UNCHANGED <<sent, fromOwner, waiting, inboxPc, posted, sessions, lost>>
    OBVIOUS
  <1>2. InboxTypeOK'
    BY <1>1, BatchFacts DEF InboxTypeOK
  <1>3. OrderBooks'
    BY <1>1, BatchFacts DEF OrderBooks, Precedes
  <1>4. SessionBooks' /\ OwnerBooks'
    BY <1>1, BatchFacts DEF SessionBooks, OwnerBooks
  <1> QED BY <1>2, <1>3, <1>4

LEMMA PostKeeps ==
    ASSUME InboxIInv, PostsPrompt
    PROVE  InboxIInv'
  <1> USE DEF InboxIInv
  <1> DEFINE m == Head(batch)
  <1>1. /\ batch # <<>> /\ m \in fromOwner /\ posted' = Append(posted, m)
        /\ inboxPc = "batch"
        /\ batch' = Tail(batch) /\ UNCHANGED <<sent, fromOwner, waiting, inboxPc, lost>>
    BY DEF PostsPrompt
  <1>2. PICK made \in {0, 1} : sessions' = [sessions EXCEPT ![m] = @ + made]
    BY DEF PostsPrompt
  <1>3. /\ m \in 1..sent /\ m \in Messages
        /\ Tail(batch) \in Seq(1..sent) /\ Increases(Tail(batch))
        /\ Range(batch) = {m} \cup Range(Tail(batch))
        /\ \A a \in Range(Tail(batch)) \cup Range(waiting) : m < a
        /\ \A a \in Range(posted) : a < m
    BY <1>1, BatchFacts
  <1>4. posted \in Seq(1..sent) /\ Increases(posted) /\ 1..sent \in SUBSET Int
    BY DEF InboxTypeOK, OrderBooks
  <1> HIDE DEF m
  <1>5. /\ posted' \in Seq(1..sent) /\ Range(posted') = Range(posted) \cup {m}
        /\ Increases(posted')
    <2>1. Append(posted, m) \in Seq(1..sent)
      BY <1>3, <1>4, AppendProperties
    <2> DEFINE S == 1..sent
    <2>4. S \in SUBSET Int /\ m \in S /\ posted \in Seq(S)
      BY <1>3, <1>4
    <2> HIDE DEF S
    <2>5. Increases(posted) /\ \A a \in Range(posted) : a < m
      BY <1>3, <1>4
    <2>2. Range(Append(posted, m)) = Range(posted) \cup {m}
      BY <2>4, RangeAppend
    <2>3. Increases(Append(posted, m))
      BY <2>4, <2>5, IncreasesAppend
    <2> QED BY <1>1, <2>1, <2>2, <2>3
  <1>6. /\ sessions' \in [Messages -> Nat] /\ sessions[m] = 0 /\ sessions'[m] <= 1
        /\ \A o \in Messages \ {m} : sessions'[o] = sessions[o]
    BY <1>2, <1>3 DEF InboxTypeOK, SessionBooks
  <1>7. InboxTypeOK'
    BY <1>1, <1>3, <1>5, <1>6 DEF InboxTypeOK
  <1>8. OrderBooks'
    BY <1>1, <1>3, <1>5 DEF OrderBooks, Precedes
  <1>9. SessionBooks'
    <2> SUFFICES ASSUME NEW o \in Messages
                 PROVE  /\ sessions'[o] <= IF o \in fromOwner THEN 1 ELSE 0
                        /\ o \in Range(batch') \cup Range(waiting) \/ o > sent => sessions'[o] = 0
      BY <1>1 DEF SessionBooks
    <2>1. CASE o = m
      <3>1. sent \in Nat /\ m \in Nat /\ m <= sent /\ ~(m < m)
        BY <1>3 DEF InboxTypeOK
      <3>2. o \notin Range(batch') /\ o \notin Range(waiting) /\ ~(o > sent)
        BY <1>1, <1>3, <2>1, <3>1
      <3> QED BY <1>1, <1>6, <2>1, <3>2
    <2>2. CASE o # m
      BY <1>1, <1>3, <1>6, <2>2 DEF SessionBooks
    <2> QED BY <2>1, <2>2
  <1>10. OwnerBooks'
    BY <1>1, <1>3, <1>5 DEF OwnerBooks
  <1> QED BY <1>7, <1>8, <1>9, <1>10

LEMMA DeathKeeps ==
    ASSUME InboxIInv, BridgeDies
    PROVE  InboxIInv'
  <1> USE DEF InboxIInv
  <1>1. /\ inboxPc = "batch" /\ inboxPc' = "idle" /\ batch' = <<>> /\ lost' = lost \cup Range(batch)
        /\ UNCHANGED <<sent, fromOwner, waiting, posted>>
    BY DEF BridgeDies
  <1>2. Range(batch') = {} /\ Increases(batch')
    BY <1>1, RangeEmpty
  <1>3. /\ sessions' \in [Messages -> Nat]
        /\ \A o \in Messages : \/ sessions'[o] = sessions[o]
                               \/ o \in Range(batch) /\ o \in fromOwner /\ sessions'[o] = 1
    <2>1. CASE UNCHANGED sessions
      BY <2>1 DEF InboxTypeOK
    <2>2. CASE /\ batch # <<>> /\ Head(batch) \in fromOwner
               /\ sessions' = [sessions EXCEPT ![Head(batch)] = @ + 1]
      <3>1. Head(batch) \in Range(batch) /\ Head(batch) \in Messages
        BY <2>2, BatchFacts
      <3>2. sessions[Head(batch)] = 0
        BY <3>1 DEF SessionBooks
      <3> QED BY <2>2, <3>1, <3>2 DEF InboxTypeOK
    <2> QED BY <2>1, <2>2 DEF BridgeDies
  <1>4. InboxTypeOK'
    BY <1>1, <1>3 DEF InboxTypeOK
  <1>5. OrderBooks'
    BY <1>1, <1>2 DEF OrderBooks, Precedes
  <1>6. SessionBooks'
    <2> SUFFICES ASSUME NEW o \in Messages
                 PROVE  /\ sessions'[o] <= IF o \in fromOwner THEN 1 ELSE 0
                        /\ o \in Range(waiting) \/ o > sent => sessions'[o] = 0
      BY <1>1, <1>2 DEF SessionBooks
    <2>1. CASE sessions'[o] = sessions[o]
      BY <2>1 DEF SessionBooks
    <2>2. CASE o \in Range(batch) /\ o \in fromOwner /\ sessions'[o] = 1
      <3>1. batch # <<>>
        BY <2>2, RangeEmpty
      <3>2. o \in 1..sent
        BY <2>2, <3>1, BatchFacts
      <3>3. o \notin Range(waiting)
        <4>1. ASSUME o \in Range(waiting)
              PROVE  FALSE
          <5>1. o < o
            BY <2>2, <4>1 DEF OrderBooks, Precedes
          <5> QED BY <3>2, <5>1 DEF InboxTypeOK
        <4> QED BY <4>1
      <3> QED BY <2>2, <3>2, <3>3 DEF InboxTypeOK
    <2> QED BY <1>3, <2>1, <2>2
  <1>7. OwnerBooks'
    BY <1>1, <1>2 DEF OwnerBooks
  <1> QED BY <1>4, <1>5, <1>6, <1>7

LEMMA InboxStepIInv == InboxIInv /\ [InboxNext]_inboxVars => InboxIInv'
  <1> SUFFICES ASSUME InboxIInv, [InboxNext]_inboxVars
               PROVE  InboxIInv'
    OBVIOUS
  <1>1. CASE UNCHANGED inboxVars
    BY <1>1 DEF inboxVars, InboxIInv, InboxTypeOK, OrderBooks, Precedes, SessionBooks, OwnerBooks
  <1>2. CASE BatchDone
    BY <1>2 DEF BatchDone, InboxIInv, InboxTypeOK, OrderBooks, Precedes, SessionBooks, OwnerBooks
  <1> QED BY <1>1, <1>2, ArrivesKeeps, ReceivesKeeps, StrangerKeeps, PostKeeps, DeathKeeps
          DEF InboxNext

LEMMA InboxIInvImplies == InboxIInv => MessagesAccountedFor
  BY DEF InboxIInv, OrderBooks, Increases, SessionBooks, OwnerBooks, MessagesAccountedFor

\* However the messages arrive, are fetched in batches and are asked for, and wherever the
\* bridge dies: no message of the owner is made into two sessions, a stranger's into none,
\* they are asked for in the order they were sent, and none is gone but with a batch that
\* was in memory when the bridge died.
THEOREM MessagesAlwaysAccountedFor == InboxSpec => []MessagesAccountedFor
  BY InboxInitIInv, InboxStepIInv, InboxIInvImplies, PTL DEF InboxSpec

-----------------------------------------------------------------------------
(* LogFollowers, for logs of any length and any number of crashes: of what *)
(* has been read past, nothing is missed and nothing is shown more than    *)
(* twice for a connection.                                                 *)

FollowSpec == FollowInit /\ [][FollowNext]_followVars

Programs == {"session", "log", "watch", "bridge"}
Types == {"entry", "error", "done"}

FollowTypeOK ==
    /\ log \in Seq(Types)
    /\ runner \in {"running", "gone", "replaced"} /\ daemon \in {"up", "down"}
    /\ status \in {"running", "ended", "absent"} /\ crashes \in Nat
    /\ follower \in Programs
    /\ followPc \in IF Tails THEN {"connect", "poll", "read", "ask", "drain", "returned", "refused"}
                    ELSE {"connect", "listen", "returned", "refused"}
    /\ reader \in {"idle", "read"}
    /\ offset \in 0..Len(log) /\ size \in 0..Len(log)
    /\ seen \in Seq(DOMAIN log) /\ stream \in Seq(DOMAIN log)
    /\ connections \in Nat

Polling == followPc \in {"poll", "read", "ask", "drain"}
MidRead == followPc = "read" \/ reader = "read"

\* After the first entry that ends a session there are only others.
LogBooks ==
    /\ \A p, q \in DOMAIN log : Ending(p) /\ p < q => Ending(q)
    /\ status = "ended" => runner # "running"

RoundBooks ==
    /\ reader = "read" => followPc = "listen"
    /\ MidRead => offset <= size
    /\ Polling \/ followPc = "listen" => connections >= 1
    /\ Tails => stream = <<>>

\* What is beyond the offset has been read once less, and what is beyond the size of the
\* round under way, not in this connection.
OftenBooks ==
    \A p \in DOMAIN log :
        /\ Times(p) <= 2 * connections
        /\ (Polling \/ followPc = "listen") /\ p > offset => Times(p) <= 2 * connections - 1
        /\ MidRead /\ p > size => Times(p) <= 2 * connections - 2

FeedBooks ==
    followPc = "listen" =>
        \A p \in 1..offset : Ending(p) => p \in Range(seen) \cup Range(stream)

\* A tail has shown the entries up to one that is not before its offset.
ShownUpTo(m) ==
    /\ Range(seen) = 1..m /\ offset <= m
    /\ Polling => \A p \in 1..m : ~Ending(p)
    /\ followPc = "returned" => (m = Len(log) /\ runner # "running") \/ (m > 0 /\ Ending(m))

TailBooks ==
    Tails =>
        /\ followPc = "connect" => seen = <<>> /\ offset = 0
        /\ followPc = "drain" => runner # "running"
        /\ \E m \in 0..Len(log) : ShownUpTo(m)

FollowBooks == LogBooks /\ RoundBooks /\ OftenBooks /\ FeedBooks /\ TailBooks
FollowIInv == FollowTypeOK /\ FollowBooks

LEMMA LogDomain ==
    ASSUME FollowTypeOK
    PROVE  /\ Len(log) \in Nat /\ DOMAIN log = 1..Len(log)
           /\ offset \in Nat /\ offset <= Len(log) /\ size \in Nat /\ size <= Len(log)
           /\ \A p : Occurrences(seen, p) \in Nat /\ Occurrences(stream, p) \in Nat
           /\ Range(seen) \subseteq DOMAIN log /\ Range(stream) \subseteq DOMAIN log
  <1>1. /\ log \in Seq(Types) /\ seen \in Seq(DOMAIN log) /\ stream \in Seq(DOMAIN log)
        /\ offset \in 0..Len(log) /\ size \in 0..Len(log)
    BY DEF FollowTypeOK
  <1>2. Len(log) \in Nat /\ DOMAIN log = 1..Len(log)
    BY <1>1, LenProperties
  <1>3. \A p : Occurrences(seen, p) \in Nat /\ Occurrences(stream, p) \in Nat
    BY <1>1, OccurrencesOf
  <1>4. Range(seen) \subseteq DOMAIN log /\ Range(stream) \subseteq DOMAIN log
    <2> DEFINE D == DOMAIN log
    <2> HIDE DEF D
    <2>1. seen \in Seq(D) /\ stream \in Seq(D)
      BY <1>1 DEF D
    <2>2. /\ \A i \in 1..Len(seen) : seen[i] \in D
          /\ \A i \in 1..Len(stream) : stream[i] \in D
      BY <2>1, ElementOfSeq
    <2>3. DOMAIN seen = 1..Len(seen) /\ DOMAIN stream = 1..Len(stream)
      BY <2>1, LenProperties
    <2> QED BY <2>2, <2>3 DEF Range, D
  <1> QED BY <1>1, <1>2, <1>3, <1>4

\* What has not been read, and what is chosen of it.
LEMMA UnreadFacts ==
    ASSUME FollowTypeOK
    PROVE  /\ Unread \in Seq(DOMAIN log) /\ Len(Unread) = Len(log) - offset
           /\ \A i \in 1..Len(Unread) : Unread[i] = offset + i
           /\ Range(Unread) = (offset + 1)..Len(log)
  <1>1. /\ Len(log) \in Nat /\ DOMAIN log = 1..Len(log)
        /\ offset \in Nat /\ offset <= Len(log)
    BY LogDomain
  <1> DEFINE n == Len(log) - offset
             l == Len(log)
  <1>2. n \in Nat /\ Unread = [i \in 1..n |-> offset + i]
    BY <1>1 DEF Unread
  <1>3. \A i \in 1..n : offset + i \in 1..l
    BY <1>1
  <1>4. Unread \in Seq(1..l)
    <2> HIDE DEF n, l
    <2>1. Unread \in [1..n -> 1..l]
      BY <1>2, <1>3
    <2> QED BY <1>2, <2>1, SeqDef
  <1>5. Len(Unread) = n
    <2> HIDE DEF n, l
    <2>1. DOMAIN Unread = 1..n
      BY <1>2
    <2> QED BY <1>2, <1>4, <2>1, LenProperties
  <1>6. Range(Unread) = (offset + 1)..l
    <2>1. \A p \in (offset + 1)..l : p - offset \in 1..n /\ offset + (p - offset) = p
      BY <1>1
    <2>2. \A i \in 1..n : offset + i \in (offset + 1)..l
      BY <1>1
    <2> HIDE DEF n, l
    <2>3. DOMAIN Unread = 1..n /\ \A i \in 1..n : Unread[i] = offset + i
      BY <1>2
    <2>4. \A p \in (offset + 1)..l : \E i \in DOMAIN Unread : Unread[i] = p
      BY <2>1, <2>3
    <2> QED BY <2>2, <2>3, <2>4 DEF Range
  <1> QED BY <1>1, <1>2, <1>4, <1>5, <1>6

LEMMA ChosenFacts ==
    ASSUME FollowTypeOK, NEW T
    PROVE  /\ Select(Unread, T) \in Seq(DOMAIN log)
           /\ Range(Select(Unread, T)) = {p \in (offset + 1)..Len(log) : p \in T}
           /\ \A p : Occurrences(Select(Unread, T), p) <= 1
  <1> DEFINE D == DOMAIN log
             u == Unread
             t == Select(u, T)
             l == Len(log)
  <1>1. /\ u \in Seq(D) /\ \A i \in 1..Len(u) : u[i] = offset + i
        /\ Range(u) = (offset + 1)..l
    BY UnreadFacts
  <1>2. offset \in Nat /\ Len(u) \in Nat /\ DOMAIN u = 1..Len(u)
    BY <1>1, LogDomain, LenProperties
  <1> HIDE DEF D, u, l
  <1>3. PICK place : Takes(place, D, u, T)
    BY <1>1, SelectsInOrder
  <1> HIDE DEF t
  <1>4. /\ Len(place) \in Nat
        /\ \A k, j \in 1..Len(place) : k < j => place[k] < place[j]
        /\ \A k \in 1..Len(place) : place[k] \in 1..Len(u) /\ u[place[k]] \in T
        /\ \A i \in 1..Len(u) : u[i] \in T => \E k \in 1..Len(place) : place[k] = i
        /\ t \in Seq(D \cap T) /\ Len(t) = Len(place)
        /\ \A k \in 1..Len(place) : t[k] = u[place[k]]
    BY <1>3 DEF Takes, t
  <1>5. t \in Seq(D)
    <2>1. D \cap T \subseteq D
      OBVIOUS
    <2> QED BY <1>4, <2>1, SeqMonotonic
  <1>6. DOMAIN t = 1..Len(place)
    BY <1>4, <1>5, LenProperties
  <1>7. \A p : p \in Range(t) <=> p \in Range(u) /\ p \in T
    <2>1. \A k \in 1..Len(place) : t[k] \in Range(u) /\ t[k] \in T
      BY <1>2, <1>4 DEF Range
    <2>2. ASSUME NEW p \in Range(u), p \in T
          PROVE  \E k \in DOMAIN t : t[k] = p
      <3>1. PICK i \in 1..Len(u) : u[i] = p
        BY <1>2 DEF Range
      <3>2. PICK k \in 1..Len(place) : place[k] = i
        BY <3>1, <2>2, <1>4
      <3> QED BY <3>1, <3>2, <1>4, <1>6
    <2> QED BY <2>1, <2>2, <1>6 DEF Range
  <1>8. \A i, j \in 1..Len(t) : t[i] = t[j] => i = j
    <2> SUFFICES ASSUME NEW i \in 1..Len(t), NEW j \in 1..Len(t), t[i] = t[j]
                 PROVE  i = j
      OBVIOUS
    <2>1. place[i] \in 1..Len(u) /\ place[j] \in 1..Len(u) /\ u[place[i]] = u[place[j]]
      BY <1>4
    <2>2. offset + place[i] = offset + place[j]
      BY <2>1, <1>1
    <2>3. place[i] = place[j]
      BY <2>1, <2>2, <1>2
    <2>4. ~ (i < j) /\ ~ (j < i)
      BY <2>1, <2>3, <1>2, <1>4
    <2> QED BY <2>4, <1>4
  <1>9. \A p : Occurrences(t, p) <= 1
    BY <1>5, <1>8, OccursOnce
  <1> QED BY <1>1, <1>5, <1>7, <1>9 DEF D, l, t, u

\* Showing all of it at once.
LEMMA UnreadOnce ==
    ASSUME FollowTypeOK
    PROVE  \A p : Occurrences(Unread, p) <= 1
  <1>1. /\ Unread \in Seq(DOMAIN log) /\ Len(Unread) = Len(log) - offset
        /\ \A i \in 1..Len(Unread) : Unread[i] = offset + i
    BY UnreadFacts
  <1>2. offset \in Nat /\ Len(log) - offset \in Nat
    BY LogDomain
  <1>3. \A i, j \in 1..Len(Unread) : Unread[i] = Unread[j] => i = j
    BY <1>1, <1>2
  <1> HIDE DEF Unread
  <1> QED BY <1>1, <1>3, OccursOnce
LEMMA FollowInitIInv == FollowInit => FollowIInv
  <1> SUFFICES ASSUME FollowInit
               PROVE  FollowIInv
    OBVIOUS
  <1>1. /\ log = <<>> /\ seen = <<>> /\ stream = <<>> /\ offset = 0 /\ size = 0
        /\ runner = "running" /\ status = "running" /\ daemon = "up" /\ crashes = 0
        /\ reader = "idle" /\ follower \in Programs
        /\ followPc = IF follower = "session" THEN "poll" ELSE "connect"
        /\ connections = IF follower = "session" THEN 1 ELSE 0
    BY DEF FollowInit, Programs
  <1>2. Len(log) = 0 /\ DOMAIN log = {} /\ 1..0 = {} /\ Range(seen) = {}
    BY <1>1, RangeEmpty
  <1>3. FollowTypeOK
    BY <1>1, <1>2 DEF FollowTypeOK, Programs, Tails
  <1>4. LogBooks /\ RoundBooks /\ OftenBooks /\ FeedBooks
    BY <1>1, <1>2 DEF LogBooks, RoundBooks, OftenBooks, FeedBooks, MidRead, Polling
  <1>5. ShownUpTo(0)
    BY <1>1, <1>2 DEF ShownUpTo, Polling
  <1>6. TailBooks
    BY <1>1, <1>2, <1>5 DEF TailBooks
  <1> QED BY <1>3, <1>4, <1>6 DEF FollowIInv, FollowBooks

\* Where the log and what was shown of it stay, so do the books on them.
LEMMA LogStays ==
    ASSUME log' = log
    PROVE  /\ DOMAIN log' = DOMAIN log /\ Len(log') = Len(log)
           /\ \A p : Ending(p)' <=> Ending(p)
  BY DEF Ending

LEMMA ShownStays ==
    ASSUME seen' = seen, stream' = stream
    PROVE  /\ \A p : Times(p)' = Times(p)
           /\ Range(seen)' = Range(seen) /\ Range(stream)' = Range(stream)
  BY DEF Times

-----------------------------------------------------------------------------
(* The session and the daemon. *)

\* The new entry was shown to nobody.
LEMMA LogsKeeps ==
    ASSUME FollowIInv, Logs
    PROVE  FollowIInv'
  <1>n. PICK n \in Nat : n = Len(log)
    BY LogDomain DEF FollowIInv
  <1>0. PICK type \in Types :
          /\ type # "done" => \A p \in DOMAIN log : ~Ending(p)
          /\ type = "done" => "done" \notin Range(log)
          /\ log' = Append(log, type)
    BY DEF Logs, Types
  <1>1. /\ runner' = runner /\ daemon' = daemon /\ status' = status /\ crashes' = crashes
        /\ follower' = follower /\ followPc' = followPc /\ reader' = reader
        /\ offset' = offset /\ size' = size /\ stream' = stream /\ seen' = seen
        /\ connections' = connections /\ runner = "running"
    BY DEF Logs, tableVars
  <1>2. FollowTypeOK /\ LogBooks /\ RoundBooks /\ OftenBooks /\ FeedBooks /\ TailBooks
    BY DEF FollowIInv, FollowBooks
  <1>3. /\ n \in Nat /\ DOMAIN log = 1..n /\ log \in Seq(Types)
        /\ offset \in 0..n /\ size \in 0..n
        /\ Range(seen) \subseteq 1..n /\ Range(stream) \subseteq 1..n
        /\ seen \in Seq(1..n) /\ stream \in Seq(1..n)
    BY <1>n, <1>2, LogDomain DEF FollowTypeOK
  <1>4. /\ log' \in Seq(Types) /\ Len(log') = n + 1 /\ DOMAIN log' = 1..(n + 1)
        /\ log'[n + 1] = type /\ \A i \in 1..n : log'[i] = log[i]
    BY <1>n, <1>0, <1>3, AppendProperties
  <1>5. /\ \A p \in 1..n : Ending(p)' <=> Ending(p)
        /\ Ending(n + 1)' <=> type \in {"error", "done"}
    BY <1>4 DEF Ending
  <1>6. \A p \in 1..(n + 1) : p \in 1..n \/ p = n + 1
    BY <1>3
  <1>7. FollowTypeOK'
    <2>1. 1..n \subseteq 1..(n + 1) /\ 0..n \subseteq 0..(n + 1)
      BY <1>3
    <2>2. seen \in Seq(1..(n + 1)) /\ stream \in Seq(1..(n + 1))
      BY <1>3, <2>1, SeqWidens
    <2> QED BY <1>1, <1>2, <1>3, <1>4, <2>1, <2>2 DEF FollowTypeOK, Tails
  <1>8. LogBooks'
    <2>1. (type = "error" \/ type = "entry") => \A p \in 1..n : ~Ending(p)
      BY <1>0, <1>3
    <2>2. type \in {"error", "entry", "done"}
      BY DEF Types
    <2>3. ASSUME NEW p \in 1..(n + 1), NEW q \in 1..(n + 1), Ending(p)', p < q
          PROVE  Ending(q)'
      <3>1. p \in 1..n
        BY <1>3, <2>3
      <3>2. Ending(p)
        BY <1>5, <2>3, <3>1
      <3>3. CASE q \in 1..n
        BY <1>2, <1>3, <1>5, <2>3, <3>1, <3>2, <3>3 DEF LogBooks
      <3>4. CASE q = n + 1
        BY <1>5, <2>1, <2>2, <3>1, <3>2, <3>4
      <3> QED BY <1>6, <3>3, <3>4
    <2>4. status' = "ended" => runner' # "running"
      BY <1>1, <1>2 DEF LogBooks
    <2> QED BY <1>4, <2>3, <2>4 DEF LogBooks
  <1>9. RoundBooks'
    BY <1>1, <1>2 DEF RoundBooks, MidRead, Polling, Tails
  <1>10. OftenBooks'
    <2>1. \A p : Times(p)' = Times(p)
      BY <1>1, ShownStays
    <2>2. Times(n + 1) = 0
      <3>1. n + 1 \notin Range(seen) /\ n + 1 \notin Range(stream)
        BY <1>3
      <3>2. ~ (Occurrences(seen, n + 1) > 0) /\ ~ (Occurrences(stream, n + 1) > 0)
            /\ Occurrences(seen, n + 1) \in Nat /\ Occurrences(stream, n + 1) \in Nat
        <4> QED BY <1>3, <3>1, OccurrencesOf
      <3> QED BY <3>2 DEF Times
    <2>3. connections \in Nat
      BY <1>2 DEF FollowTypeOK
    <2>4. /\ (Polling \/ followPc = "listen") => connections >= 1
          /\ MidRead => Polling \/ followPc = "listen"
      BY <1>2 DEF RoundBooks, MidRead, Polling
    <2>5. (Polling' <=> Polling) /\ (MidRead' <=> MidRead)
      BY <1>1 DEF Polling, MidRead
    <2>6. \A p \in 1..(n + 1) :
             /\ Times(p)' <= 2 * connections
             /\ (Polling \/ followPc = "listen") /\ p > offset => Times(p)' <= 2 * connections - 1
             /\ MidRead /\ p > size => Times(p)' <= 2 * connections - 2
      <3> TAKE p \in 1..(n + 1)
      <3>1. CASE p \in 1..n
        BY <1>2, <1>3, <2>1, <3>1 DEF OftenBooks
      <3>2. CASE p = n + 1
        BY <2>1, <2>2, <2>3, <2>4, <3>2
      <3> QED BY <1>6, <3>1, <3>2
    <2> QED BY <1>1, <1>4, <2>5, <2>6 DEF OftenBooks
  <1>11. FeedBooks'
    <2>1. ASSUME followPc = "listen", NEW p \in 1..offset, Ending(p)'
          PROVE  p \in Range(seen) \cup Range(stream)
      <3>1. p \in 1..n
        BY <1>3
      <3> QED BY <1>2, <1>5, <2>1, <3>1 DEF FeedBooks
    <2> QED BY <1>1, <2>1 DEF FeedBooks
  <1>12. TailBooks'
    <2> SUFFICES ASSUME Tails'
                 PROVE  /\ followPc' = "connect" => seen' = <<>> /\ offset' = 0
                        /\ followPc' = "drain" => runner' # "running"
                        /\ \E m \in 0..Len(log') : ShownUpTo(m)'
      BY DEF TailBooks
    <2>1. Tails
      BY <1>1 DEF Tails
    <2>2. /\ followPc = "connect" => seen = <<>> /\ offset = 0
          /\ followPc = "drain" => runner # "running"
      BY <1>2, <2>1 DEF TailBooks
    <2>3. PICK m \in 0..n : ShownUpTo(m)
      BY <1>n, <1>2, <2>1 DEF TailBooks
    <2>4. m \in 0..(n + 1) /\ \A p \in 1..m : p \in 1..n
      BY <1>3
    <2>5. m > 0 => m \in 1..m
      BY <1>3
    <2>6. ShownUpTo(m)'
      BY <1>n, <1>1, <1>5, <2>3, <2>4, <2>5 DEF ShownUpTo, Polling
    <2> QED BY <1>1, <1>4, <2>2, <2>4, <2>6
  <1> QED BY <1>7, <1>8, <1>9, <1>10, <1>11, <1>12 DEF FollowIInv, FollowBooks

\* Neither do the runner and the table touch what is read and shown.
LEMMA TableKeeps ==
    ASSUME FollowIInv, RunnerEnds \/ PidRecycled \/ DaemonNotices \/ DaemonStarts
    PROVE  FollowIInv'
  <1>1. /\ log' = log /\ follower' = follower /\ followPc' = followPc /\ reader' = reader
        /\ offset' = offset /\ size' = size /\ stream' = stream /\ seen' = seen
        /\ connections' = connections /\ crashes' = crashes
    BY DEF RunnerEnds, PidRecycled, DaemonNotices, DaemonStarts, logVars, tableVars
  <1>2. FollowTypeOK /\ LogBooks /\ RoundBooks /\ OftenBooks /\ FeedBooks /\ TailBooks
    BY DEF FollowIInv, FollowBooks
  <1>3. /\ runner' \in {"running", "gone", "replaced"} /\ daemon' \in {"up", "down"}
        /\ status' \in {"running", "ended", "absent"}
        /\ runner # "running" => runner' # "running"
        /\ status' = "ended" => runner' # "running"
    BY <1>2 DEF RunnerEnds, PidRecycled, DaemonNotices, DaemonStarts, FollowTypeOK, LogBooks,
       tableVars, logVars
  <1>4. FollowTypeOK'
    BY <1>1, <1>2, <1>3 DEF FollowTypeOK, Tails
  <1>5. LogBooks'
    BY <1>1, <1>2, <1>3, LogStays DEF LogBooks
  <1>6. RoundBooks' /\ OftenBooks' /\ FeedBooks'
    BY <1>1, <1>2, LogStays, ShownStays
    DEF RoundBooks, OftenBooks, FeedBooks, MidRead, Polling, Tails
  <1>7. ASSUME NEW m, ShownUpTo(m)
        PROVE  ShownUpTo(m)'
    BY <1>1, <1>3, <1>7, LogStays, ShownStays DEF ShownUpTo, Polling
  <1>8. TailBooks'
    BY <1>1, <1>2, <1>3, <1>7, LogStays DEF TailBooks, Tails
  <1> QED BY <1>4, <1>5, <1>6, <1>8 DEF FollowIInv, FollowBooks

\* What was on its way to a feed is lost: its follower is to connect again.
LEMMA DaemonCrashesKeeps ==
    ASSUME FollowIInv, DaemonCrashes
    PROVE  FollowIInv'
  <1>1. /\ log' = log /\ runner' = runner /\ follower' = follower /\ offset' = offset
        /\ size' = size /\ seen' = seen /\ connections' = connections
        /\ daemon' = "down" /\ status' = "absent" /\ crashes' = crashes + 1
        /\ stream' = <<>> /\ reader' = "idle"
        /\ followPc' = IF followPc # "listen" THEN followPc
                       ELSE IF follower = "watch" THEN "returned" ELSE "connect"
    BY DEF DaemonCrashes, logVars
  <1>2. FollowTypeOK /\ LogBooks /\ RoundBooks /\ OftenBooks /\ FeedBooks /\ TailBooks
    BY DEF FollowIInv, FollowBooks
  <1>3. followPc' # "listen" /\ (Tails' <=> Tails)
    BY <1>1 DEF Tails
  <1>4. Tails => followPc' = followPc
    BY <1>1, <1>2 DEF FollowTypeOK
  <1>5. Polling' <=> Polling
    BY <1>1 DEF Polling
  <1>6. FollowTypeOK'
    <2>1. <<>> \in Seq(DOMAIN log) /\ crashes + 1 \in Nat
      BY <1>2 DEF FollowTypeOK
    <2> QED BY <1>1, <1>2, <1>3, <2>1 DEF FollowTypeOK
  <1>7. LogBooks' /\ RoundBooks' /\ FeedBooks'
    BY <1>1, <1>2, <1>3, <1>5, LogStays DEF LogBooks, RoundBooks, FeedBooks, MidRead, Polling
  <1>8. OftenBooks'
    <2>1. \A p : /\ Occurrences(seen, p) \in Nat /\ Occurrences(stream, p) \in Nat
                 /\ Occurrences(<<>>, p) = 0
      <3>1. <<>> \in Seq(Nat) /\ Range(<<>>) = {}
        BY RangeEmpty
      <3>2. \A p : Occurrences(<<>>, p) \in Nat /\ ~ (Occurrences(<<>>, p) > 0)
        BY <3>1, OccurrencesOf
      <3> QED BY <1>2, <3>2, LogDomain
    <2>2. \A p : Times(p)' \in Nat /\ Times(p) \in Nat /\ Times(p)' <= Times(p)
      BY <1>1, <2>1 DEF Times
    <2>3. connections \in Nat
      BY <1>2 DEF FollowTypeOK
    <2>4. MidRead' => MidRead
      BY <1>1 DEF MidRead
    <2> HIDE DEF Times
    <2> QED BY <1>1, <1>2, <1>3, <1>5, <2>2, <2>3, <2>4 DEF OftenBooks
  <1>9. ASSUME NEW m, ShownUpTo(m), Tails
        PROVE  ShownUpTo(m)'
    BY <1>1, <1>4, <1>5, <1>9, LogStays DEF ShownUpTo
  <1>10. TailBooks'
    BY <1>1, <1>2, <1>3, <1>4, <1>9 DEF TailBooks
  <1> QED BY <1>6, <1>7, <1>8, <1>10 DEF FollowIInv, FollowBooks

-----------------------------------------------------------------------------
(* The tails. *)

\* A session that is over is shown as a whole, and for the first time.
LEMMA LogCommandKeeps ==
    ASSUME FollowIInv, LogCommand
    PROVE  FollowIInv'
  <1>1. /\ log' = log /\ runner' = runner /\ daemon' = daemon /\ status' = status
        /\ crashes' = crashes /\ follower' = follower /\ reader' = reader /\ offset' = offset
        /\ size' = size /\ stream' = stream /\ connections' = 1
        /\ follower = "log" /\ followPc = "connect"
    BY DEF LogCommand, logVars, tableVars
  <1>2. \/ followPc' \in {"refused", "poll"} /\ seen' = seen
        \/ status = "ended" /\ followPc' = "returned" /\ seen' = Unread
    BY DEF LogCommand
  <1>3. FollowTypeOK /\ LogBooks /\ RoundBooks /\ OftenBooks /\ FeedBooks /\ TailBooks
    BY DEF FollowIInv, FollowBooks
  <1>4. Tails /\ Tails' /\ followPc' # "listen" /\ followPc' # "read" /\ followPc' # "drain"
        /\ followPc' # "connect"
    BY <1>1, <1>2 DEF Tails
  <1>5. seen = <<>> /\ offset = 0 /\ stream = <<>> /\ reader = "idle"
    BY <1>1, <1>3, <1>4 DEF TailBooks, RoundBooks, FollowTypeOK
  <1>6. seen' \in Seq(DOMAIN log) /\ \A p : Times(p)' <= 1 /\ Times(p)' \in Nat
    <2>1. <<>> \in Seq(DOMAIN log) /\ <<>> \in Seq(Nat) /\ Range(<<>>) = {}
      BY RangeEmpty
    <2>2. \A p : Occurrences(<<>>, p) \in Nat /\ ~ (Occurrences(<<>>, p) > 0)
      BY <2>1, OccurrencesOf
    <2>3. \A p : Occurrences(<<>>, p) = 0
      BY <2>2
    <2>4. Unread \in Seq(DOMAIN log) /\ \A p : Occurrences(Unread, p) <= 1
      BY <1>3, UnreadFacts, UnreadOnce
    <2>5. \A p : Occurrences(Unread, p) \in Nat
      BY <2>4, OccurrencesOf
    <2> HIDE DEF Unread
    <2>6. seen' \in Seq(DOMAIN log) /\ \A p : Occurrences(seen', p) \in Nat /\ Occurrences(seen', p) <= 1
      <3>1. CASE seen' = <<>>
        BY <2>1, <2>3, <3>1
      <3>2. CASE seen' = Unread
        BY <2>4, <2>5, <3>2
      <3> QED BY <1>2, <1>5, <3>1, <3>2
    <2>7. \A p : Occurrences(stream', p) = 0
      BY <1>1, <1>5, <2>3
    <2> QED BY <2>6, <2>7 DEF Times
  <1>7. FollowTypeOK'
    BY <1>1, <1>2, <1>3, <1>4, <1>6 DEF FollowTypeOK
  <1>8. LogBooks' /\ RoundBooks' /\ FeedBooks'
    BY <1>1, <1>3, <1>4, <1>5, LogStays DEF LogBooks, RoundBooks, FeedBooks, MidRead, Polling
  <1>9. OftenBooks'
    <2>1. ~ MidRead'
      BY <1>1, <1>4, <1>5 DEF MidRead
    <2> HIDE DEF Times
    <2> QED BY <1>1, <1>6, <2>1 DEF OftenBooks
  <1>10. \E m \in 0..Len(log) : ShownUpTo(m)'
    <2>1. Len(log) \in Nat
      BY <1>3, LogDomain
    <2>2. CASE seen' = seen /\ followPc' \in {"refused", "poll"}
      <3>1. Range(seen') = {} /\ 1..0 = {}
        BY <1>5, <2>2, RangeEmpty
      <3>2. ShownUpTo(0)'
        BY <1>1, <1>5, <2>2, <3>1 DEF ShownUpTo
      <3> QED BY <2>1, <3>2
    <2>3. CASE status = "ended" /\ followPc' = "returned" /\ seen' = Unread
      <3>1. PICK n \in Nat : n = Len(log)
        BY <2>1
      <3>2. Range(seen') = 1..n
        BY <1>3, <1>5, <2>3, <3>1, UnreadFacts
      <3>3. ShownUpTo(n)'
        BY <1>1, <1>3, <1>5, <2>3, <3>1, <3>2 DEF ShownUpTo, LogBooks, Polling
      <3>4. n \in 0..Len(log)
        BY <3>1
      <3> QED BY <3>3, <3>4
    <2> QED BY <1>2, <2>2, <2>3
  <1>11. TailBooks'
    BY <1>1, <1>4, <1>10 DEF TailBooks
  <1> QED BY <1>7, <1>8, <1>9, <1>11 DEF FollowIInv, FollowBooks

\* To take the size, or ask the daemon, shows nothing.
LEMMA TailSizeAsksKeeps ==
    ASSUME FollowIInv, TailSize \/ TailAsks
    PROVE  FollowIInv'
  <1>1. /\ log' = log /\ runner' = runner /\ daemon' = daemon /\ status' = status
        /\ crashes' = crashes /\ follower' = follower /\ reader' = reader /\ offset' = offset
        /\ seen' = seen /\ stream' = stream /\ connections' = connections
    BY DEF TailSize, TailAsks, logVars, tableVars
  <1>2. FollowTypeOK /\ LogBooks /\ RoundBooks /\ OftenBooks /\ FeedBooks /\ TailBooks
    BY DEF FollowIInv, FollowBooks
  <1>3. /\ followPc \in {"poll", "ask"} /\ followPc' \in {"read", "ask", "drain", "poll"}
        /\ followPc' = "drain" => status = "ended"
        /\ followPc' = "read" => size' = Len(log) /\ offset < Len(log)
        /\ size' \in {Len(log), size}
    BY DEF TailSize, TailAsks, Over
  <1>4. Tails /\ Tails' /\ reader = "idle"
    BY <1>1, <1>2, <1>3 DEF Tails, FollowTypeOK, RoundBooks
  <1>5. Len(log) \in Nat /\ DOMAIN log = 1..Len(log) /\ offset \in Nat /\ size \in 0..Len(log)
    BY <1>2, LogDomain DEF FollowTypeOK
  <1>6. FollowTypeOK'
    <2>1. size' \in 0..Len(log)
      BY <1>3, <1>5
    <2> QED BY <1>1, <1>2, <1>3, <1>4, <2>1 DEF FollowTypeOK
  <1>7. LogBooks' /\ RoundBooks' /\ FeedBooks'
    <2>1. MidRead' => followPc' = "read"
      BY <1>1, <1>4 DEF MidRead
    <2>2. MidRead' => offset' <= size'
      BY <1>1, <1>3, <1>5, <2>1
    <2> QED BY <1>1, <1>2, <1>3, <1>4, <2>2, LogStays
            DEF LogBooks, RoundBooks, FeedBooks, Polling
  <1>8. OftenBooks'
    <2>1. \A p : Times(p)' = Times(p)
      BY <1>1, ShownStays
    <2>2. MidRead' => \A p \in DOMAIN log : ~ (p > size')
      BY <1>1, <1>3, <1>4, <1>5 DEF MidRead
    <2>3. Polling
      BY <1>3 DEF Polling
    <2> HIDE DEF Times
    <2> QED BY <1>1, <1>2, <2>1, <2>2, <2>3 DEF OftenBooks
  <1>9. ASSUME NEW m, ShownUpTo(m)
        PROVE  ShownUpTo(m)'
    BY <1>1, <1>3, <1>9, LogStays DEF ShownUpTo, Polling
  <1>10. TailBooks'
    BY <1>1, <1>2, <1>3, <1>4, <1>9 DEF TailBooks, LogBooks
  <1> QED BY <1>6, <1>7, <1>8, <1>10 DEF FollowIInv, FollowBooks

\* To read on shows each entry once more, and only what was beyond the offset.
LEMMA ReadOnce ==
    ASSUME FollowIInv, Polling \/ followPc = "listen", NEW t \in Seq(DOMAIN log),
           Range(t) \subseteq (offset + 1)..Len(log), \A p : Occurrences(t, p) <= 1
    PROVE  \A p \in DOMAIN log :
              /\ Times(p) + Occurrences(t, p) <= 2 * connections
              /\ MidRead /\ p > size => Times(p) + Occurrences(t, p) <= 2 * connections - 1
  <1> DEFINE o(p) == Occurrences(t, p)
  <1>1. FollowTypeOK /\ OftenBooks /\ RoundBooks
    BY DEF FollowIInv, FollowBooks
  <1>2. /\ connections \in Nat /\ offset \in Nat /\ size \in Nat
        /\ Len(log) \in Nat /\ DOMAIN log = 1..Len(log)
        /\ \A p : Times(p) \in Nat
    BY <1>1, LogDomain DEF FollowTypeOK, Times
  <1>3. \A p : /\ o(p) \in Nat /\ o(p) <= 1
               /\ o(p) > 0 => p \in Range(t)
    BY OccurrencesOf
  <1> HIDE DEF o
  <1>4. \A p : o(p) = 0 \/ (o(p) = 1 /\ p \in Range(t))
    BY <1>3
  <1>5. \A p \in Range(t) : p > offset
    BY <1>2
  <1> SUFFICES ASSUME NEW p \in DOMAIN log
               PROVE  /\ Times(p) + o(p) <= 2 * connections
                      /\ MidRead /\ p > size => Times(p) + o(p) <= 2 * connections - 1
    BY DEF o
  <1>6. /\ Times(p) <= 2 * connections
        /\ p > offset => Times(p) <= 2 * connections - 1
        /\ MidRead /\ p > size => Times(p) <= 2 * connections - 2
    BY <1>1 DEF OftenBooks
  <1> QED BY <1>2, <1>4, <1>5, <1>6

LEMMA ShownMore ==
    ASSUME FollowTypeOK, NEW t \in Seq(DOMAIN log), seen' = seen \o t, stream' = stream
    PROVE  /\ seen' \in Seq(DOMAIN log)
           /\ Range(seen') = Range(seen) \cup Range(t)
           /\ \A p : Times(p)' = Times(p) + Occurrences(t, p)
  <1> DEFINE D == DOMAIN log
  <1>1. seen \in Seq(D) /\ stream \in Seq(D) /\ t \in Seq(D)
    BY DEF FollowTypeOK
  <1> HIDE DEF D
  <1>2. seen' \in Seq(D)
    BY <1>1, ConcatProperties
  <1>3. Range(seen') = Range(seen) \cup Range(t)
    BY <1>1, RangeOfBoth
  <1>4. \A p : Occurrences(seen', p) = Occurrences(seen, p) + Occurrences(t, p)
    BY <1>1, OccurrencesInBoth
  <1>5. \A p : Occurrences(seen, p) \in Nat /\ Occurrences(t, p) \in Nat
               /\ Occurrences(stream, p) \in Nat
    BY <1>1, OccurrencesOf
  <1>6. \A p : Occurrences(seen', p) + Occurrences(stream', p)
                 = Occurrences(seen, p) + Occurrences(stream, p) + Occurrences(t, p)
    BY <1>4, <1>5
  <1> QED BY <1>2, <1>3, <1>6 DEF D, Times

\* Either all that was written is shown, or `phyl log` stops at the first entry that ends
\* the session.  What was shown before has none.
LEMMA TailReadKeeps ==
    ASSUME FollowIInv, TailRead
    PROVE  FollowIInv'
  <1> DEFINE ends == {p \in Endings : p > offset}
             upTo == {p \in DOMAIN log : \A e \in ends : p <= e}
  <1>1. /\ log' = log /\ runner' = runner /\ daemon' = daemon /\ status' = status
        /\ crashes' = crashes /\ follower' = follower /\ reader' = reader /\ size' = size
        /\ stream' = stream /\ connections' = connections /\ followPc = "read"
    BY DEF TailRead, logVars, tableVars
  <1>2. /\ followPc' = IF ends # {} THEN "returned" ELSE "ask"
        /\ offset' = IF follower = "log" /\ ends # {} THEN offset ELSE size
        /\ seen' = seen \o (IF follower = "log" /\ ends # {} THEN Select(Unread, upTo)
                            ELSE Unread)
    BY DEF TailRead
  <1>3. FollowTypeOK /\ LogBooks /\ RoundBooks /\ OftenBooks /\ FeedBooks /\ TailBooks
    BY DEF FollowIInv, FollowBooks
  <1>4. Tails /\ Tails' /\ reader = "idle" /\ Polling /\ MidRead
    BY <1>1, <1>3 DEF Tails, FollowTypeOK, RoundBooks, Polling, MidRead
  <1>5. PICK n \in Nat : n = Len(log)
    BY <1>3, LogDomain
  <1>6. /\ DOMAIN log = 1..n /\ offset \in Nat /\ offset <= size /\ size \in Nat /\ size <= n
        /\ offset' \in {offset, size}
    BY <1>2, <1>3, <1>4, <1>5, LogDomain DEF RoundBooks
  <1>7. PICK m \in 0..n : ShownUpTo(m)
    BY <1>3, <1>4, <1>5 DEF TailBooks
  <1>8. Range(seen) = 1..m /\ offset <= m /\ \A p \in 1..m : ~Ending(p)
    BY <1>4, <1>7 DEF ShownUpTo
  <1>9. PICK t \in Seq(DOMAIN log) :
          /\ seen' = seen \o t
          /\ t = IF follower = "log" /\ ends # {} THEN Select(Unread, upTo) ELSE Unread
    BY <1>2, <1>3, UnreadFacts, ChosenFacts
  <1>10. /\ Range(Unread) = (offset + 1)..n
         /\ Range(Select(Unread, upTo)) = {p \in (offset + 1)..n : p \in upTo}
         /\ \A p : Occurrences(Unread, p) <= 1 /\ Occurrences(Select(Unread, upTo), p) <= 1
    <2>1. /\ Range(Select(Unread, upTo)) = {p \in (offset + 1)..n : p \in upTo}
          /\ \A p : Occurrences(Select(Unread, upTo), p) <= 1
      <3> HIDE DEF upTo
      <3> QED BY <1>3, <1>5, ChosenFacts
    <2> HIDE DEF upTo
    <2> QED BY <1>3, <1>5, <2>1, UnreadFacts, UnreadOnce
  <1> HIDE DEF upTo
  <1>11. Range(t) \subseteq (offset + 1)..n /\ \A p : Occurrences(t, p) <= 1
    BY <1>9, <1>10
  <1>12. /\ seen' \in Seq(DOMAIN log) /\ Range(seen') = Range(seen) \cup Range(t)
         /\ \A p : Times(p)' = Times(p) + Occurrences(t, p)
    BY <1>1, <1>3, <1>9, ShownMore
  <1>13. \A p \in DOMAIN log :
            /\ Times(p)' <= 2 * connections
            /\ p > size => Times(p)' <= 2 * connections - 1
    BY <1>4, <1>5, <1>11, <1>12, ReadOnce
  <1>14. FollowTypeOK'
    <2>1. offset' \in 0..n /\ followPc' \in {"returned", "ask"}
      BY <1>2, <1>6
    <2> QED BY <1>1, <1>3, <1>4, <1>5, <1>12, <2>1 DEF FollowTypeOK
  <1>15. LogBooks' /\ RoundBooks' /\ FeedBooks'
    <2>1. ~ MidRead' /\ followPc' # "listen" /\ connections >= 1
      BY <1>1, <1>2, <1>3, <1>4 DEF MidRead, RoundBooks
    <2> QED BY <1>1, <1>3, <1>4, <2>1, LogStays DEF LogBooks, RoundBooks, FeedBooks
  <1>16. OftenBooks'
    <2>1. ~ MidRead' /\ (Polling' => ends = {} /\ offset' = size) /\ followPc' # "listen"
      BY <1>1, <1>2, <1>4 DEF MidRead, Polling
    <2> HIDE DEF Times
    <2> QED BY <1>1, <1>13, <2>1 DEF OftenBooks
  <1>17. \E r \in 0..n : ShownUpTo(r)'
    <2>1. \A p \in 1..n : p \in ends <=> Ending(p) /\ p > offset
      BY <1>6 DEF Endings
    <2>2. CASE follower = "log" /\ ends # {}
      <3>1. ends \subseteq Nat
        BY <1>6 DEF Endings
      <3>2. PICK e \in ends : \A p \in ends : e <= p
        BY <2>2, <3>1, LeastNumber
      <3>3. e \in 1..n /\ Ending(e) /\ e > offset
        BY <1>6, <2>1, <3>2 DEF Endings
      <3>4. ~ (e <= m)
        BY <1>8, <3>3
      <3>5. \A p \in 1..n : p \in upTo <=> p <= e
        <4>1. \A p \in 1..n : p <= e => \A q \in ends : p <= q
          BY <3>1, <3>2, <3>3
        <4> QED BY <1>6, <3>2, <4>1 DEF upTo
      <3>6. Range(t) = {p \in (offset + 1)..n : p \in upTo}
        BY <1>9, <1>10, <2>2
      <3>7. Range(t) = (offset + 1)..e
        BY <1>6, <3>3, <3>5, <3>6
      <3>8. 1..m \cup (offset + 1)..e = 1..e
        BY <1>6, <1>8, <3>3, <3>4
      <3>9. Range(seen') = 1..e /\ offset' <= e /\ followPc' = "returned" /\ e > 0
        <4>1. Range(seen') = 1..e
          BY <1>8, <1>12, <3>7, <3>8
        <4>2. offset' = offset /\ followPc' = "returned"
          BY <1>2, <2>2
        <4> QED BY <1>6, <3>3, <4>1, <4>2
      <3>10. ShownUpTo(e)'
        BY <1>1, <3>3, <3>9, LogStays DEF ShownUpTo, Polling
      <3> QED BY <3>3, <3>10
    <2>3. CASE ~ (follower = "log" /\ ends # {})
      <3>1. Range(t) = (offset + 1)..n
        BY <1>9, <1>10, <2>3
      <3>2. 1..m \cup (offset + 1)..n = 1..n
        BY <1>6, <1>8
      <3>3. Range(seen') = 1..n /\ offset' <= n
        BY <1>2, <1>6, <1>8, <1>12, <2>3, <3>1, <3>2
      <3>4. ends = {} => \A p \in 1..n : ~Ending(p)
        <4>1. ends = {} => \A p \in 1..n : ~ (Ending(p) /\ p > offset)
          BY <2>1
        <4> QED BY <1>6, <1>8, <4>1
      <3>5. ends # {} => n > 0 /\ Ending(n)
        <4>1. SUFFICES ASSUME ends # {}
                       PROVE  n > 0 /\ Ending(n)
          OBVIOUS
        <4>2. PICK e \in 1..n : Ending(e)
          BY <1>6, <4>1 DEF Endings
        <4>3. n > 0 /\ n \in 1..n /\ (e < n \/ e = n)
          BY <4>2
        <4> QED BY <1>3, <1>6, <4>2, <4>3 DEF LogBooks
      <3>6. ShownUpTo(n)'
        BY <1>1, <1>2, <3>3, <3>4, <3>5, LogStays DEF ShownUpTo, Polling
      <3> QED BY <3>6
    <2> QED BY <2>2, <2>3
  <1>18. TailBooks'
    BY <1>1, <1>2, <1>4, <1>5, <1>17 DEF TailBooks
  <1> QED BY <1>14, <1>15, <1>16, <1>18 DEF FollowIInv, FollowBooks

\* The last look at the log of a session whose runner is gone.
LEMMA TailDrainsKeeps ==
    ASSUME FollowIInv, TailDrains
    PROVE  FollowIInv'
  <1>1. /\ log' = log /\ runner' = runner /\ daemon' = daemon /\ status' = status
        /\ crashes' = crashes /\ follower' = follower /\ reader' = reader /\ size' = size
        /\ stream' = stream /\ connections' = connections /\ offset' = offset
        /\ followPc = "drain" /\ followPc' = "returned" /\ seen' = seen \o Unread
    BY DEF TailDrains, logVars, tableVars, FollowGoes
  <1>2. FollowTypeOK /\ LogBooks /\ RoundBooks /\ OftenBooks /\ FeedBooks /\ TailBooks
    BY DEF FollowIInv, FollowBooks
  <1>3. Tails /\ Tails' /\ reader = "idle" /\ Polling /\ runner # "running"
    BY <1>1, <1>2 DEF Tails, FollowTypeOK, RoundBooks, Polling, TailBooks
  <1>4. PICK n \in Nat : n = Len(log)
    BY <1>2, LogDomain
  <1>5. DOMAIN log = 1..n /\ offset \in Nat /\ offset <= n
    BY <1>2, <1>4, LogDomain
  <1>6. PICK m \in 0..n : ShownUpTo(m)
    BY <1>2, <1>3, <1>4 DEF TailBooks
  <1>7. /\ Unread \in Seq(DOMAIN log) /\ Range(Unread) = (offset + 1)..n
        /\ \A p : Occurrences(Unread, p) <= 1
    BY <1>2, <1>4, UnreadFacts, UnreadOnce
  <1> HIDE DEF Unread
  <1>8. /\ seen' \in Seq(DOMAIN log) /\ Range(seen') = Range(seen) \cup Range(Unread)
        /\ \A p : Times(p)' = Times(p) + Occurrences(Unread, p)
    BY <1>1, <1>2, <1>7, ShownMore
  <1>9. \A p \in DOMAIN log : Times(p)' <= 2 * connections
    BY <1>3, <1>4, <1>7, <1>8, ReadOnce
  <1>10. FollowTypeOK'
    BY <1>1, <1>2, <1>3, <1>8 DEF FollowTypeOK
  <1>11. ~ MidRead' /\ ~ Polling' /\ followPc' # "listen"
    BY <1>1, <1>3 DEF MidRead, Polling
  <1>12. LogBooks' /\ RoundBooks' /\ FeedBooks'
    BY <1>1, <1>2, <1>3, <1>11, LogStays DEF LogBooks, RoundBooks, FeedBooks
  <1>13. OftenBooks'
    <2> HIDE DEF Times
    <2> QED BY <1>1, <1>9, <1>11 DEF OftenBooks
  <1>14. ShownUpTo(n)'
    <2>1. Range(seen) = 1..m /\ offset <= m
      BY <1>6 DEF ShownUpTo
    <2>2. 1..m \cup (offset + 1)..n = 1..n
      BY <1>5, <2>1
    <2>3. Range(seen') = 1..n
      BY <1>7, <1>8, <2>1, <2>2
    <2> QED BY <1>1, <1>3, <1>4, <1>5, <1>11, <2>3 DEF ShownUpTo
  <1>15. TailBooks'
    BY <1>1, <1>4, <1>14 DEF TailBooks
  <1> QED BY <1>10, <1>12, <1>13, <1>15 DEF FollowIInv, FollowBooks

-----------------------------------------------------------------------------
(* The feed. *)

LEMMA FeedSizeKeeps ==
    ASSUME FollowIInv, FeedSize
    PROVE  FollowIInv'
  <1>1. /\ log' = log /\ runner' = runner /\ daemon' = daemon /\ status' = status
        /\ crashes' = crashes /\ follower' = follower /\ followPc' = followPc
        /\ offset' = offset /\ seen' = seen /\ stream' = stream /\ connections' = connections
        /\ followPc = "listen" /\ reader' = "read" /\ size' = Len(log) /\ offset < Len(log)
    BY DEF FeedSize, logVars, tableVars
  <1>2. FollowTypeOK /\ LogBooks /\ RoundBooks /\ OftenBooks /\ FeedBooks /\ TailBooks
    BY DEF FollowIInv, FollowBooks
  <1>3. ~ Tails /\ ~ Tails'
    BY <1>1, <1>2 DEF Tails, FollowTypeOK
  <1>4. Len(log) \in Nat /\ DOMAIN log = 1..Len(log) /\ offset \in Nat
    BY <1>2, LogDomain
  <1>5. FollowTypeOK'
    <2>1. size' \in 0..Len(log)
      BY <1>1, <1>4
    <2> QED BY <1>1, <1>2, <1>3, <2>1 DEF FollowTypeOK
  <1>6. LogBooks' /\ FeedBooks' /\ TailBooks'
    BY <1>1, <1>2, <1>3, LogStays DEF LogBooks, FeedBooks, TailBooks
  <1>7. RoundBooks'
    <2>1. offset' <= size'
      BY <1>1, <1>4
    <2> QED BY <1>1, <1>2, <1>3, <2>1 DEF RoundBooks
  <1>8. OftenBooks'
    <2>1. \A p : Times(p)' = Times(p)
      BY <1>1, ShownStays
    <2>2. \A p \in DOMAIN log : ~ (p > size')
      BY <1>1, <1>4
    <2> HIDE DEF Times
    <2> QED BY <1>1, <1>2, <2>1, <2>2 DEF OftenBooks
  <1> QED BY <1>5, <1>6, <1>7, <1>8 DEF FollowIInv, FollowBooks

\* Of what is beyond the offset, all that ends a session is passed on, once.
LEMMA FeedReadKeeps ==
    ASSUME FollowIInv, FeedRead
    PROVE  FollowIInv'
  <1> DEFINE D == DOMAIN log
  <1>1. /\ log' = log /\ runner' = runner /\ daemon' = daemon /\ status' = status
        /\ crashes' = crashes /\ follower' = follower /\ followPc' = followPc
        /\ size' = size /\ seen' = seen /\ connections' = connections
        /\ reader = "read" /\ reader' = "idle" /\ offset' = size
        /\ stream' = stream \o Select(Unread, Endings)
    BY DEF FeedRead, logVars, tableVars
  <1>2. FollowTypeOK /\ LogBooks /\ RoundBooks /\ OftenBooks /\ FeedBooks /\ TailBooks
    BY DEF FollowIInv, FollowBooks
  <1>3. ~ Tails /\ ~ Tails' /\ followPc = "listen" /\ MidRead /\ ~ MidRead'
    BY <1>1, <1>2 DEF Tails, FollowTypeOK, RoundBooks, MidRead
  <1>4. /\ Len(log) \in Nat /\ D = 1..Len(log)
        /\ offset \in Nat /\ size \in Nat /\ offset <= size /\ size <= Len(log)
    BY <1>2, <1>3, LogDomain DEF RoundBooks
  <1>5. PICK t \in Seq(D) :
          /\ stream' = stream \o t
          /\ Range(t) = {p \in (offset + 1)..Len(log) : p \in Endings}
          /\ \A p : Occurrences(t, p) <= 1
    BY <1>1, <1>2, ChosenFacts
  <1>6. stream \in Seq(D) /\ seen \in Seq(D)
    BY <1>2 DEF FollowTypeOK
  <1>7. /\ stream' \in Seq(D) /\ Range(stream') = Range(stream) \cup Range(t)
        /\ \A p : Times(p)' = Times(p) + Occurrences(t, p)
    <2> HIDE DEF D
    <2>1. stream' \in Seq(D) /\ Range(stream') = Range(stream) \cup Range(t)
      BY <1>5, <1>6, ConcatProperties, RangeOfBoth
    <2>2. \A p : Occurrences(stream', p) = Occurrences(stream, p) + Occurrences(t, p)
      BY <1>5, <1>6, OccurrencesInBoth
    <2>3. \A p : Occurrences(seen, p) \in Nat /\ Occurrences(t, p) \in Nat
                 /\ Occurrences(stream, p) \in Nat
      BY <1>6, OccurrencesOf
    <2>4. \A p : Occurrences(seen', p) + Occurrences(stream', p)
                   = Occurrences(seen, p) + Occurrences(stream, p) + Occurrences(t, p)
      BY <1>1, <2>2, <2>3
    <2> QED BY <2>1, <2>4 DEF Times
  <1>8. FollowTypeOK'
    <2>1. size \in 0..Len(log)
      BY <1>4
    <2> QED BY <1>1, <1>2, <1>3, <1>7, <2>1 DEF FollowTypeOK
  <1>9. LogBooks' /\ TailBooks' /\ RoundBooks'
    BY <1>1, <1>2, <1>3, LogStays DEF LogBooks, TailBooks, RoundBooks
  <1>10. OftenBooks'
    <2>1. \A p \in D : /\ Times(p)' <= 2 * connections
                       /\ p > size => Times(p)' <= 2 * connections - 1
      <3>1. Range(t) \subseteq (offset + 1)..Len(log)
        BY <1>5
      <3> QED BY <1>3, <1>5, <1>7, <3>1, ReadOnce
    <2> HIDE DEF Times
    <2> QED BY <1>1, <1>3, <2>1 DEF OftenBooks
  <1>11. FeedBooks'
    <2>1. ASSUME NEW p \in 1..size, Ending(p)
          PROVE  p \in Range(seen) \cup Range(stream')
      <3>1. p \in D /\ p \in Endings /\ (p \in 1..offset \/ p \in (offset + 1)..Len(log))
        BY <1>4, <2>1 DEF Endings
      <3>2. p \in Range(seen) \cup Range(stream) \cup Range(t)
        BY <1>2, <1>3, <1>5, <2>1, <3>1 DEF FeedBooks
      <3> QED BY <1>7, <3>2
    <2> QED BY <1>1, <2>1, LogStays DEF FeedBooks
  <1> QED BY <1>8, <1>9, <1>10, <1>11 DEF FollowIInv, FollowBooks

\* Each connection starts over, and may show everything two more times.
LEMMA FeedConnectsKeeps ==
    ASSUME FollowIInv, FeedConnects
    PROVE  FollowIInv'
  <1>1. /\ log' = log /\ runner' = runner /\ daemon' = daemon /\ status' = status
        /\ crashes' = crashes /\ follower' = follower /\ reader' = reader /\ stream' = stream
        /\ size' = size /\ seen' = seen /\ connections' = connections + 1 /\ offset' = 0
        /\ ~Tails /\ followPc = "connect" /\ followPc' = "listen"
    BY DEF FeedConnects, logVars, tableVars, FollowGoes
  <1>2. FollowTypeOK /\ LogBooks /\ RoundBooks /\ OftenBooks /\ FeedBooks /\ TailBooks
    BY DEF FollowIInv, FollowBooks
  <1>3. ~ Tails' /\ reader = "idle" /\ ~ MidRead'
    BY <1>1, <1>2 DEF Tails, FollowTypeOK, RoundBooks, MidRead
  <1>4. Len(log) \in Nat /\ connections \in Nat /\ \A p : Times(p) \in Nat
    BY <1>2, LogDomain DEF FollowTypeOK, Times
  <1>5. FollowTypeOK'
    <2>1. 0 \in 0..Len(log) /\ connections + 1 \in Nat
      BY <1>4
    <2> QED BY <1>1, <1>2, <1>3, <2>1 DEF FollowTypeOK
  <1>6. LogBooks' /\ TailBooks' /\ FeedBooks'
    <2>1. 1..0 = {}
      OBVIOUS
    <2> QED BY <1>1, <1>2, <1>3, <2>1, LogStays DEF LogBooks, TailBooks, FeedBooks
  <1>7. RoundBooks'
    BY <1>1, <1>3, <1>4 DEF RoundBooks
  <1>8. OftenBooks'
    <2>1. \A p : Times(p)' = Times(p)
      BY <1>1, ShownStays
    <2>2. \A p \in DOMAIN log : Times(p) <= 2 * (connections + 1)
                                /\ Times(p) <= 2 * (connections + 1) - 1
      <3>1. \A p \in DOMAIN log : Times(p) <= 2 * connections
        BY <1>2 DEF OftenBooks
      <3> QED BY <1>4, <3>1
    <2> HIDE DEF Times
    <2> QED BY <1>1, <1>3, <2>1, <2>2 DEF OftenBooks
  <1> QED BY <1>5, <1>6, <1>7, <1>8 DEF FollowIInv, FollowBooks

LEMMA FeedRefusedKeeps ==
    ASSUME FollowIInv, FeedRefused
    PROVE  FollowIInv'
  <1>1. /\ log' = log /\ runner' = runner /\ daemon' = daemon /\ status' = status
        /\ crashes' = crashes /\ follower' = follower /\ reader' = reader /\ offset' = offset
        /\ size' = size /\ stream' = stream /\ seen' = seen /\ connections' = connections
        /\ follower = "watch" /\ followPc = "connect" /\ followPc' = "refused"
    BY DEF FeedRefused, logVars, tableVars, FollowGoes
  <1>2. FollowTypeOK /\ LogBooks /\ RoundBooks /\ OftenBooks /\ FeedBooks /\ TailBooks
    BY DEF FollowIInv, FollowBooks
  <1>3. ~ Tails /\ ~ Tails' /\ ~ Polling' /\ (MidRead' <=> reader = "read")
    BY <1>1 DEF Tails, Polling, MidRead
  <1>4. FollowTypeOK'
    BY <1>1, <1>2, <1>3 DEF FollowTypeOK
  <1>5. LogBooks' /\ TailBooks' /\ FeedBooks' /\ RoundBooks'
    BY <1>1, <1>2, <1>3, LogStays DEF LogBooks, TailBooks, FeedBooks, RoundBooks
  <1>6. OftenBooks'
    <2>1. \A p : Times(p)' = Times(p)
      BY <1>1, ShownStays
    <2>2. ~ MidRead'
      BY <1>1, <1>2, <1>3 DEF RoundBooks
    <2> HIDE DEF Times
    <2> QED BY <1>1, <1>2, <1>3, <2>1, <2>2 DEF OftenBooks
  <1> QED BY <1>4, <1>5, <1>6 DEF FollowIInv, FollowBooks

\* What is taken from the stream is shown.
LEMMA FeedTakesKeeps ==
    ASSUME FollowIInv, FeedTakes
    PROVE  FollowIInv'
  <1> DEFINE D == DOMAIN log
  <1>1. /\ log' = log /\ runner' = runner /\ daemon' = daemon /\ status' = status
        /\ crashes' = crashes /\ follower' = follower /\ followPc' = followPc
        /\ reader' = reader /\ offset' = offset /\ size' = size /\ connections' = connections
        /\ followPc = "listen" /\ stream # <<>>
        /\ seen' = Append(seen, Head(stream)) /\ stream' = Tail(stream)
    BY DEF FeedTakes, logVars, tableVars
  <1>2. FollowTypeOK /\ LogBooks /\ RoundBooks /\ OftenBooks /\ FeedBooks /\ TailBooks
    BY DEF FollowIInv, FollowBooks
  <1>3. seen \in Seq(D) /\ stream \in Seq(D)
    BY <1>2 DEF FollowTypeOK
  <1>4. /\ seen' \in Seq(D) /\ stream' \in Seq(D)
        /\ \A p : Occurrences(seen', p) + Occurrences(stream', p)
                    = Occurrences(seen, p) + Occurrences(stream, p)
    <2> HIDE DEF D
    <2> QED BY <1>1, <1>3, OccurrencesMoved
  <1>5. ~ Tails /\ ~ Tails'
    BY <1>1, <1>2 DEF Tails, FollowTypeOK
  <1>6. FollowTypeOK'
    BY <1>1, <1>2, <1>4, <1>5 DEF FollowTypeOK
  <1>7. LogBooks' /\ TailBooks' /\ RoundBooks'
    BY <1>1, <1>2, <1>5, LogStays DEF LogBooks, TailBooks, RoundBooks, MidRead, Polling
  <1>8. OftenBooks'
    <2>1. \A p : Times(p)' = Times(p)
      BY <1>4 DEF Times
    <2> HIDE DEF Times
    <2> QED BY <1>1, <1>2, <2>1 DEF OftenBooks, MidRead, Polling
  <1>9. FeedBooks'
    <2>1. \A p : /\ Occurrences(seen, p) \in Nat /\ Occurrences(stream, p) \in Nat
                 /\ Occurrences(seen', p) \in Nat /\ Occurrences(stream', p) \in Nat
                 /\ Occurrences(seen, p) > 0 <=> p \in Range(seen)
                 /\ Occurrences(stream, p) > 0 <=> p \in Range(stream)
                 /\ Occurrences(seen', p) > 0 <=> p \in Range(seen')
                 /\ Occurrences(stream', p) > 0 <=> p \in Range(stream')
      <3> HIDE DEF D
      <3> QED BY <1>3, <1>4, OccurrencesOf
    <2>2. \A a, b, c, d \in Nat : a + b = c + d => (a > 0 \/ b > 0 <=> c > 0 \/ d > 0)
      OBVIOUS
    <2>3. \A p : p \in Range(seen') \cup Range(stream') <=> p \in Range(seen) \cup Range(stream)
      BY <1>4, <2>1, <2>2
    <2> QED BY <1>1, <1>2, <2>3, LogStays DEF FeedBooks
  <1> QED BY <1>6, <1>7, <1>8, <1>9 DEF FollowIInv, FollowBooks

-----------------------------------------------------------------------------

LEMMA FollowStepIInv == FollowIInv /\ [FollowNext]_followVars => FollowIInv'
  <1> SUFFICES ASSUME FollowIInv, [FollowNext]_followVars
               PROVE  FollowIInv'
    OBVIOUS
  <1>1. CASE FollowNext
    BY <1>1, LogsKeeps, TableKeeps, DaemonCrashesKeeps, LogCommandKeeps, TailSizeAsksKeeps,
       TailReadKeeps, TailDrainsKeeps, FeedSizeKeeps, FeedReadKeeps, FeedConnectsKeeps,
       FeedRefusedKeeps, FeedTakesKeeps
    DEF FollowNext, Following
  <1>2. CASE UNCHANGED followVars
    BY <1>2 DEF followVars, logVars, tableVars, FollowIInv, FollowBooks, FollowTypeOK, Tails,
       LogBooks, RoundBooks, OftenBooks, FeedBooks, TailBooks, ShownUpTo, MidRead, Polling,
       Ending, Times
  <1> QED BY <1>1, <1>2

LEMMA FollowIInvImplies == FollowIInv => FollowersMissNothing
  <1> SUFFICES ASSUME FollowIInv
               PROVE  FollowersMissNothing
    OBVIOUS
  <1>1. FollowTypeOK /\ LogBooks /\ RoundBooks /\ OftenBooks /\ FeedBooks /\ TailBooks
    BY DEF FollowIInv, FollowBooks
  <1>2. /\ Len(log) \in Nat /\ DOMAIN log = 1..Len(log) /\ offset \in 0..Len(log)
        /\ \A p : Occurrences(seen, p) \in Nat /\ Occurrences(stream, p) \in Nat
        /\ seen \in Seq(DOMAIN log) /\ stream \in Seq(DOMAIN log)
    BY <1>1, LogDomain DEF FollowTypeOK
  <1>3. \A p : p \in Range(seen) \cup Range(stream) => Times(p) > 0
    <2>1. \A p : /\ p \in Range(seen) => Occurrences(seen, p) > 0
                 /\ p \in Range(stream) => Occurrences(stream, p) > 0
      BY <1>2, OccurrencesOf
    <2> QED BY <1>2, <2>1 DEF Times
  <1>4. Tails => \E m \in 0..Len(log) : ShownUpTo(m)
    BY <1>1 DEF TailBooks
  <1>5. ASSUME Tails \/ followPc = "listen", NEW p \in 1..offset, Tails \/ Ending(p)
        PROVE  Times(p) > 0
    <2>1. CASE Tails
      <3>1. PICK m \in 0..Len(log) : Range(seen) = 1..m /\ offset <= m
        BY <1>4, <2>1 DEF ShownUpTo
      <3>2. p \in 1..m
        BY <1>2, <3>1
      <3> QED BY <1>3, <3>1, <3>2
    <2>2. CASE ~Tails
      BY <1>1, <1>3, <1>5, <2>2 DEF FeedBooks
    <2> QED BY <2>1, <2>2
  <1>6. \A p \in DOMAIN log : Times(p) <= 2 * connections
    BY <1>1 DEF OftenBooks
  <1>7. Tails /\ followPc = "returned" =>
          \E n \in 0..Len(log) : Range(seen) = 1..n /\ (n = Len(log) \/ Ending(n))
    BY <1>4 DEF ShownUpTo
  <1> QED BY <1>5, <1>6, <1>7 DEF FollowersMissNothing

\* Whatever a tail or a feed has read past, the human was shown, and nothing more than twice
\* for each connection; and a tail that returns has shown all there was, or all up to an
\* entry that ends the session: however long the log, and however often the daemon crashes.
THEOREM NothingIsMissed == FollowSpec => []FollowersMissNothing
  BY FollowInitIInv, FollowStepIInv, FollowIInvImplies, PTL DEF FollowSpec

-----------------------------------------------------------------------------
(* ModelCall, for answers of any length and any number of retries: the     *)
(* calls that are taken are those that were written.                       *)

CallSpec == CallInit /\ [][CallNext]_callVars

ReadAsText == {"xml", "claude"}

CallTypes ==
    /\ adapter \in {"anthropic", "native", "xml", "claude"}
    /\ callPc \in {"waiting", "reading", "stripping", "judging", "taken", "failed"}
    /\ answer \in Seq(TextTokens \cup NativeTokens \cup AnthropicTokens)
    /\ from \in 1..(Len(answer) + 1)
    /\ {content, kept, calls} \subseteq Seq(DOMAIN answer)

\* Blocks, as far as they are known when what is behind position m has not been read.
BlocksUpTo(a, P, begins, m, o, c) ==
    /\ \A b \in begins : b \in P /\ EndsBefore(a, P, c, b, m + 1)
    /\ \A i \in P : i <= m =>
          (i \in begins <=>
              /\ a[i] = o
              /\ \E e \in P : i < e /\ a[e] = c
              /\ \A b \in begins : b < i => EndsBefore(a, P, c, b, i))

Between(P, m, s) == {i \in P : m < i /\ i < s}
Ahead(P, m) == {i \in P : i < m}
Behind(P, m) == {i \in P : i > m}
NoneIn(a, S, token) == \A i \in S : a[i] # token

OutsideUpTo(a, P, begins, m, c) == {i \in OutsideOf(a, P, begins, c) : i <= m}

\* extract_tool_calls has put the blocks and the text of what it read where they belong.
Extracted(begins) ==
    /\ BlocksUpTo(answer, DOMAIN answer, begins, from - 1, "open", "close")
    /\ Lists(calls, CallsIn(answer, begins))
    /\ Lists(content, OutsideUpTo(answer, DOMAIN answer, begins, from - 1, "close"))

ExtractBooks ==
    callPc = "reading" =>
        /\ kept = <<>>
        /\ adapter \in ReadAsText => \E begins \in SUBSET DOMAIN answer : Extracted(begins)

\* strip_xml_blocks is through with what is up to m.
Stripped(text, results, m) ==
    /\ results \subseteq text
    /\ BlocksUpTo(answer, text, results, m, "ropen", "rclose")
    /\ Lists(kept, OutsideUpTo(answer, text, results, m, "rclose"))
    /\ Lists(content, Behind(text, m))

StripBooks ==
    callPc = "stripping" =>
        /\ adapter = "claude" /\ calls # <<>>
        /\ \E begins \in SUBSET DOMAIN answer :
              /\ Blocks(answer, DOMAIN answer, begins, "open", "close")
              /\ Lists(calls, CallsIn(answer, begins))
              /\ \E results \in SUBSET DOMAIN answer, m \in 0..Len(answer) :
                    Stripped(OutsideOf(answer, DOMAIN answer, begins, "close"), results, m)

TakenBooks == callPc \in {"judging", "taken"} => AsWritten

CallIInv == CallTypes /\ ExtractBooks /\ StripBooks /\ TakenBooks

-----------------------------------------------------------------------------
(* Lists of positions. *)

LEMMA ListsNothing == Lists(<<>>, {})
  BY RangeEmpty DEF Lists

LEMMA ListsAppend ==
    ASSUME NEW A, A \subseteq Nat, NEW s \in Seq(A), NEW S, Lists(s, S), NEW x \in A,
           \A i \in S : i < x
    PROVE  Append(s, x) \in Seq(A) /\ Lists(Append(s, x), S \cup {x})
  <1>1. /\ Append(s, x) \in Seq(A) /\ Len(s) \in Nat
        /\ DOMAIN s = 1..Len(s) /\ DOMAIN Append(s, x) = 1..(Len(s) + 1)
        /\ Append(s, x)[Len(s) + 1] = x /\ \A i \in 1..Len(s) : Append(s, x)[i] = s[i]
    BY AppendProperties
  <1>2. Range(Append(s, x)) = S \cup {x}
    BY RangeAppend DEF Lists
  <1>3. \A i \in 1..Len(s) : s[i] < x
    BY <1>1 DEF Lists, Range
  <1>4. ASSUME NEW i \in 1..(Len(s) + 1), NEW j \in 1..(Len(s) + 1), i < j
        PROVE  Append(s, x)[i] < Append(s, x)[j]
    <2>1. i \in 1..Len(s) /\ (j \in 1..Len(s) \/ j = Len(s) + 1)
      BY <1>1, <1>4
    <2> QED BY <1>1, <1>3, <1>4, <2>1 DEF Lists
  <1> QED BY <1>1, <1>2, <1>4 DEF Lists

LEMMA ListsBoth ==
    ASSUME NEW A, A \subseteq Nat, NEW s \in Seq(A), NEW t \in Seq(A), NEW S, NEW T,
           Lists(s, S), Lists(t, T), \A i \in S, j \in T : i < j
    PROVE  s \o t \in Seq(A) /\ Lists(s \o t, S \cup T)
  <1> DEFINE c == s \o t
             m == Len(s)
             n == Len(t)
  <1>1. /\ c \in Seq(A) /\ Len(c) = m + n
        /\ \A i \in 1..(m + n) : c[i] = IF i <= m THEN s[i] ELSE t[i - m]
    BY ConcatProperties
  <1>2. m \in Nat /\ n \in Nat /\ DOMAIN s = 1..m /\ DOMAIN t = 1..n
    BY LenProperties
  <1>3. DOMAIN c = 1..(m + n)
    <2> HIDE DEF c
    <2> QED BY <1>1, LenProperties
  <1>4. Range(c) = S \cup T
    BY RangeOfBoth DEF Lists
  <1> HIDE DEF c, m, n
  <1>5. (\A i \in 1..m : s[i] \in S) /\ (\A i \in 1..n : t[i] \in T)
    BY <1>2 DEF Lists, Range
  <1>6. ASSUME NEW i \in 1..(m + n), NEW j \in 1..(m + n), i < j
        PROVE  c[i] < c[j]
    <2>1. CASE j <= m
      <3>1. i \in 1..m /\ j \in 1..m /\ i <= m
        BY <1>2, <1>6, <2>1
      <3> QED BY <1>1, <1>2, <1>6, <2>1, <3>1 DEF Lists
    <2>2. CASE i <= m /\ ~ (j <= m)
      <3>1. i \in 1..m /\ j - m \in 1..n
        BY <1>2, <2>2
      <3>2. c[i] = s[i] /\ c[j] = t[j - m]
        BY <1>1, <2>2
      <3> QED BY <1>5, <3>1, <3>2
    <2>3. CASE ~ (i <= m)
      <3>1. i - m \in 1..n /\ j - m \in 1..n /\ i - m < j - m /\ ~ (j <= m)
        BY <1>2, <1>6, <2>3
      <3>2. c[i] = t[i - m] /\ c[j] = t[j - m]
        BY <1>1, <2>3, <3>1
      <3> QED BY <1>2, <3>1, <3>2 DEF Lists
    <2> QED BY <2>1, <2>2, <2>3
  <1> QED BY <1>1, <1>3, <1>4, <1>6 DEF Lists, c

LEMMA ListsSpan ==
    ASSUME NEW i \in Nat, NEW j \in Nat, i <= j + 1
    PROVE  Span(i, j) \in Seq(i..j) /\ Lists(Span(i, j), i..j)
  <1> DEFINE n == j - i + 1
             s == Span(i, j)
  <1>1. n \in Nat /\ s = [k \in 1..n |-> i + k - 1]
    BY DEF Span
  <1>2. \A k \in 1..n : i + k - 1 \in i..j
    OBVIOUS
  <1>3. \A p \in i..j : p - i + 1 \in 1..n /\ i + (p - i + 1) - 1 = p
    OBVIOUS
  <1>4. \A k, l \in 1..n : k < l => i + k - 1 < i + l - 1
    OBVIOUS
  <1> HIDE DEF n, s
  <1>5. s \in [1..n -> i..j] /\ \A k \in 1..n : s[k] = i + k - 1
    BY <1>1, <1>2
  <1>6. s \in Seq(i..j)
    BY <1>1, <1>5, SeqDef
  <1>7. Range(s) = i..j
    <2>1. \A p \in i..j : \E k \in DOMAIN s : s[k] = p
      BY <1>3, <1>5
    <2> QED BY <1>5, <2>1 DEF Range
  <1> QED BY <1>4, <1>5, <1>6, <1>7 DEF Lists, s

\* Around the k-th of a list.
LEMMA ListsAround ==
    ASSUME NEW A, A \subseteq Nat, NEW s \in Seq(A), NEW S, Lists(s, S), NEW k \in 1..Len(s)
    PROVE  /\ SubSeq(s, 1, k - 1) \in Seq(A) /\ SubSeq(s, k + 1, Len(s)) \in Seq(A)
           /\ Lists(SubSeq(s, 1, k - 1), Ahead(S, s[k]))
           /\ Lists(SubSeq(s, k + 1, Len(s)), Behind(S, s[k]))
  <1> DEFINE n == Len(s)
             t == SubSeq(s, 1, k - 1)
             u == SubSeq(s, k + 1, n)
  <1>1. n \in Nat /\ DOMAIN s = 1..n /\ \A i \in 1..n : s[i] \in A /\ s[i] \in Nat
    BY LenProperties, ElementOfSeq
  <1>2. /\ t \in Seq(A) /\ DOMAIN t = 1..(k - 1) /\ \A i \in 1..(k - 1) : t[i] = s[i]
    <2>1. t = [i \in 1..(k - 1) |-> s[i]]
      BY <1>1
    <2>2. k - 1 \in Nat /\ \A i \in 1..(k - 1) : s[i] \in A
      BY <1>1
    <2>3. t \in [1..(k - 1) -> A]
      BY <2>1, <2>2
    <2> QED BY <2>1, <2>2, <2>3, SeqDef
  <1>3. /\ u \in Seq(A) /\ DOMAIN u = 1..(n - k) /\ \A i \in 1..(n - k) : u[i] = s[k + i]
    <2>1. n - (k + 1) + 1 = n - k /\ \A i \in 1..(n - k) : k + 1 + i - 1 = k + i
      BY <1>1
    <2>2. u = [i \in 1..(n - k) |-> s[k + i]]
      BY <1>1, <2>1
    <2>3. n - k \in Nat /\ \A i \in 1..(n - k) : s[k + i] \in A
      BY <1>1
    <2>4. u \in [1..(n - k) -> A]
      BY <2>2, <2>3
    <2> QED BY <2>2, <2>3, <2>4, SeqDef
  <1>4. /\ \A i \in 1..n : i < k <=> s[i] < s[k]
        /\ \A i \in 1..n : i > k <=> s[i] > s[k]
    <2>1. \A i, j \in 1..n : i < j => s[i] < s[j]
      BY <1>1 DEF Lists
    <2>2. \A i \in 1..n : i < k \/ i = k \/ k < i
      BY <1>1
    <2> QED BY <1>1, <2>1, <2>2
  <1>5. S = {s[i] : i \in 1..n} /\ \A i, j \in 1..n : i < j => s[i] < s[j]
    BY <1>1 DEF Lists, Range
  <1> HIDE DEF n, t, u
  <1>6. Range(t) = {i \in S : i < s[k]}
    <2>1. \A i \in 1..(k - 1) : i \in 1..n /\ i < k
      BY <1>1
    <2>2. \A i \in 1..n : i < k => i \in 1..(k - 1)
      BY <1>1
    <2>3. \A i \in 1..(k - 1) : t[i] \in S /\ t[i] < s[k]
      BY <1>2, <1>4, <1>5, <2>1
    <2>4. ASSUME NEW p \in S, p < s[k]
          PROVE  \E i \in DOMAIN t : t[i] = p
      BY <1>2, <1>4, <1>5, <2>2, <2>4
    <2> QED BY <1>2, <2>3, <2>4 DEF Range
  <1>7. Range(u) = {i \in S : i > s[k]}
    <2>1. \A i \in 1..(n - k) : k + i \in 1..n /\ k + i > k
      BY <1>1
    <2>2. \A i \in 1..n : i > k => i - k \in 1..(n - k) /\ k + (i - k) = i
      BY <1>1
    <2>3. \A i \in 1..(n - k) : u[i] \in S /\ u[i] > s[k]
      BY <1>3, <1>4, <1>5, <2>1
    <2>4. ASSUME NEW p \in S, p > s[k]
          PROVE  \E i \in DOMAIN u : u[i] = p
      <3>1. PICK i \in 1..n : s[i] = p
        BY <1>5
      <3>2. i > k
        BY <1>4, <2>4, <3>1
      <3> QED BY <1>3, <2>2, <3>1, <3>2
    <2> QED BY <1>3, <2>3, <2>4 DEF Range
  <1>8. \A i, j \in 1..(k - 1) : i < j => t[i] < t[j]
    <2>1. \A i \in 1..(k - 1) : i \in 1..n
      BY <1>1
    <2> QED BY <1>2, <1>5, <2>1
  <1>9. \A i, j \in 1..(n - k) : i < j => u[i] < u[j]
    <2>1. \A i, j \in 1..(n - k) : i < j => k + i \in 1..n /\ k + j \in 1..n /\ k + i < k + j
      BY <1>1
    <2> QED BY <1>3, <1>5, <2>1
  <1> QED BY <1>2, <1>3, <1>6, <1>7, <1>8, <1>9 DEF Lists, Ahead, Behind, t, u, n

LEMMA ListsOrdered ==
    ASSUME NEW S, S \subseteq Nat, IsFiniteSet(S)
    PROVE  Ordered(S) \in Seq(S) /\ Lists(Ordered(S), S)
  <1> DEFINE o == Ordered(S)
             n == Len(o)
  <1>1. /\ o \in Seq(S) /\ DOMAIN o = 1..n
        /\ \A k \in 1..n : o[k] \in S
        /\ \A k, l \in 1..n : k < l => o[k] < o[l]
        /\ \A i \in S : \E k \in 1..n : o[k] = i
    BY OrderedIsSequence
  <1> HIDE DEF o, n
  <1>2. Range(o) = S
    BY <1>1 DEF Range
  <1> QED BY <1>1, <1>2 DEF Lists, o

-----------------------------------------------------------------------------
(* Blocks. *)

NextBlock(a, P, begins, m, s, e, o, c) ==
    /\ P \subseteq Nat /\ m \in Nat /\ o # c /\ BlocksUpTo(a, P, begins, m, o, c)
    /\ s \in P /\ e \in P /\ m < s /\ s < e /\ a[s] = o /\ a[e] = c
    /\ NoneIn(a, Between(P, m, s), o) /\ NoneIn(a, Between(P, s, e), c)

NoBlock(a, P, begins, m, o, c) ==
    /\ P \subseteq Nat /\ m \in Nat /\ BlocksUpTo(a, P, begins, m, o, c)
    /\ \A i \in Behind(P, m) : a[i] = o => NoneIn(a, Behind(P, i), c)

\* What the block from s to e adds.
Grown(a, P, begins, m, s, e, o, c) ==
    /\ BlocksUpTo(a, P, begins \cup {s}, e, o, c)
    /\ OutsideUpTo(a, P, begins \cup {s}, e, c)
         = OutsideUpTo(a, P, begins, m, c) \cup Between(P, m, s)

\* The next block begins with the first o that is left and ends with the first c behind it.
LEMMA BlocksGrow ==
    ASSUME NEW a, NEW P, NEW begins, NEW m, NEW s, NEW e, NEW o, NEW c,
           NextBlock(a, P, begins, m, s, e, o, c)
    PROVE  Grown(a, P, begins, m, s, e, o, c)
  <1> DEFINE B == begins \cup {s}
             Ended(b, i) == EndsBefore(a, P, c, b, i)
  <1>20. /\ P \subseteq Nat /\ m \in Nat /\ o # c /\ BlocksUpTo(a, P, begins, m, o, c)
        /\ s \in P /\ e \in P /\ m < s /\ s < e /\ a[s] = o /\ a[e] = c
    BY DEF NextBlock
  <1>0. \A i \in P : i \in Nat
    BY <1>20
  <1> USE <1>20
  <1>21. /\ \A i \in P : m < i /\ i < s => a[i] # o
        /\ \A i \in P : s < i /\ i < e => a[i] # c
    BY DEF NoneIn, Between, NextBlock
  <1>1. \A b, i \in P : Ended(b, i) <=> \E x \in P : b < x /\ x < i /\ a[x] = c
    BY DEF EndsBefore
  <1>2. \A b \in begins : b \in P /\ \E x \in P : b < x /\ x <= m /\ a[x] = c
    BY DEF BlocksUpTo, EndsBefore
  <1>3. ASSUME NEW b \in begins
        PROVE  b \in P /\ b < m
    <2>1. b \in P /\ \E x \in P : b < x /\ x <= m
      BY <1>2
    <2>2. PICK x \in P : b < x /\ x <= m
      BY <2>1
    <2>3. b \in Nat /\ x \in Nat /\ m \in Nat
      BY <1>0, <2>1, <2>2
    <2> QED BY <2>1, <2>2, <2>3
  <1>4. ASSUME NEW b \in begins, NEW i \in P, i > m
        PROVE  Ended(b, i)
    <2>1. PICK x \in P : b < x /\ x <= m /\ a[x] = c
      BY <1>2
    <2>2. x < i
      BY <1>0, <1>4, <2>1
    <2> QED BY <1>1, <1>3, <2>1, <2>2
  <1>5. \A i \in P : s <= i => (Ended(s, i) <=> i > e)
    BY <1>1, <1>21
  <1>6. \A b \in B : b \in P /\ EndsBefore(a, P, c, b, e + 1)
    <2>1. \A b \in begins : EndsBefore(a, P, c, b, e + 1)
      BY <1>2 DEF EndsBefore
    <2>2. EndsBefore(a, P, c, s, e + 1)
      BY DEF EndsBefore
    <2> QED BY <1>3, <2>1, <2>2
  <1>7. ASSUME NEW i \in P, i <= e
        PROVE  i \in B <=> /\ a[i] = o
                           /\ \E x \in P : i < x /\ a[x] = c
                           /\ \A b \in B : b < i => Ended(b, i)
    <2>1. CASE i <= m
      <3>1. i # s /\ ~ (s < i)
        BY <2>1
      <3>2. i \in begins <=> /\ a[i] = o
                             /\ \E x \in P : i < x /\ a[x] = c
                             /\ \A b \in begins : b < i => Ended(b, i)
        BY <2>1 DEF BlocksUpTo
      <3> HIDE DEF Ended
      <3> QED BY <3>1, <3>2
    <2>2. CASE m < i /\ i < s
      BY <1>3, <1>21, <2>2
    <2>3. CASE i = s
      <3>1. \A b \in B : b < i => Ended(b, i)
        BY <1>4, <2>3
      <3> QED BY <2>3, <3>1
    <2>4. CASE s < i
      <3>1. i \notin B
        BY <1>3, <2>4
      <3>2. ~ Ended(s, i)
        BY <1>5, <1>7, <2>4
      <3> QED BY <2>4, <3>1, <3>2
    <2> QED BY <2>1, <2>2, <2>3, <2>4
  <1>8. BlocksUpTo(a, P, B, e, o, c)
    BY <1>6, <1>7 DEF BlocksUpTo
  <1>9. ASSUME NEW i \in P
        PROVE  i \in OutsideUpTo(a, P, B, e, c)
                 <=> i \in OutsideUpTo(a, P, begins, m, c) \/ (m < i /\ i < s)
    <2>1. i \in OutsideUpTo(a, P, B, e, c)
            <=> i <= e /\ (\A b \in begins : b <= i => Ended(b, i)) /\ (s <= i => Ended(s, i))
      BY DEF OutsideUpTo, OutsideOf
    <2>2. i \in OutsideUpTo(a, P, begins, m, c)
            <=> i <= m /\ (\A b \in begins : b <= i => Ended(b, i))
      BY DEF OutsideUpTo, OutsideOf
    <2> HIDE DEF Ended
    <2>3. CASE i <= m
      BY <2>1, <2>2, <2>3
    <2>4. CASE m < i /\ i < s
      <3>1. \A b \in begins : b <= i => Ended(b, i)
        BY <1>4, <2>4
      <3> QED BY <2>1, <2>4, <3>1
    <2>5. CASE s <= i
      BY <1>5, <2>1, <2>2, <2>5
    <2> QED BY <2>3, <2>4, <2>5
  <1>10. OutsideUpTo(a, P, B, e, c) \subseteq P /\ OutsideUpTo(a, P, begins, m, c) \subseteq P
    BY DEF OutsideUpTo, OutsideOf
  <1> HIDE DEF B
  <1>11. OutsideUpTo(a, P, B, e, c) = OutsideUpTo(a, P, begins, m, c) \cup Between(P, m, s)
    BY <1>9, <1>10 DEF Between
  <1> QED BY <1>8, <1>11 DEF B, Grown

\* Where no further block ends, none begins: the rest is outside.
LEMMA BlocksEnd ==
    ASSUME NEW a, NEW P, NEW begins, NEW m, NEW o, NEW c,
           NoBlock(a, P, begins, m, o, c)
    PROVE  /\ Blocks(a, P, begins, o, c)
           /\ OutsideOf(a, P, begins, c)
                = OutsideUpTo(a, P, begins, m, c) \cup Behind(P, m)
  <1>20. P \subseteq Nat /\ m \in Nat /\ BlocksUpTo(a, P, begins, m, o, c)
    BY DEF NoBlock
  <1> USE <1>20
  <1>21. \A i, j \in P : m < i /\ i < j /\ a[i] = o => a[j] # c
    BY DEF NoneIn, Behind, NoBlock
  <1> DEFINE Ended(b, i) == EndsBefore(a, P, c, b, i)
  <1>1. \A b \in begins : b \in P /\ \E x \in P : b < x /\ x <= m /\ a[x] = c
    BY DEF BlocksUpTo, EndsBefore
  <1>0. \A i \in P : i \in Nat
    BY <1>20
  <1>2. ASSUME NEW b \in begins, NEW i \in P, i > m
        PROVE  b < m /\ Ended(b, i)
    <2>1. PICK x \in P : b < x /\ x <= m /\ a[x] = c
      BY <1>1
    <2>2. b \in Nat /\ x \in Nat /\ i \in Nat /\ m \in Nat /\ b \in P
      BY <1>0, <1>1, <2>1
    <2>3. b < m /\ x < i
      BY <1>2, <2>1, <2>2
    <2> QED BY <2>1, <2>2, <2>3 DEF EndsBefore
  <1>3. Blocks(a, P, begins, o, c)
    <2> SUFFICES ASSUME NEW i \in P
                 PROVE  i \in begins <=> /\ a[i] = o
                                         /\ \E x \in P : i < x /\ a[x] = c
                                         /\ \A b \in begins : b < i => Ended(b, i)
      BY DEF Blocks
    <2>1. CASE i <= m
      BY <2>1 DEF BlocksUpTo
    <2>2. CASE i > m
      <3>1. i \notin begins
        BY <1>2, <2>2
      <3> QED BY <1>21, <2>2, <3>1
    <2> QED BY <2>1, <2>2
  <1>4. OutsideOf(a, P, begins, c) \subseteq P
    BY DEF OutsideOf
  <1>5. \A i \in P : i > m => i \in OutsideOf(a, P, begins, c)
    BY <1>2 DEF OutsideOf
  <1>6. OutsideOf(a, P, begins, c)
          = OutsideUpTo(a, P, begins, m, c) \cup Behind(P, m)
    <2>1. \A i \in P : i <= m \/ i > m
      BY <1>0
    <2>2. \A i : i \in OutsideOf(a, P, begins, c)
                 <=> \/ i \in OutsideOf(a, P, begins, c) /\ i <= m
                     \/ i \in P /\ i > m
      BY <1>4, <1>5, <2>1
    <2> QED BY <2>2 DEF OutsideUpTo, Behind
  <1> QED BY <1>3, <1>6

LEMMA BlocksBegin ==
    ASSUME NEW a, NEW P, P \subseteq Nat, \A i \in P : i > 0, NEW o, NEW c
    PROVE  BlocksUpTo(a, P, {}, 0, o, c) /\ OutsideUpTo(a, P, {}, 0, c) = {}
  <1>1. \A i \in P : ~ (i <= 0)
    OBVIOUS
  <1>2. BlocksUpTo(a, P, {}, 0, o, c)
    BY <1>1 DEF BlocksUpTo
  <1>3. OutsideUpTo(a, P, {}, 0, c) = {}
    BY <1>1 DEF OutsideUpTo, OutsideOf
  <1> QED BY <1>2, <1>3

-----------------------------------------------------------------------------
(* The search for a tag. *)

LEMMA MinFacts ==
    ASSUME NEW S, S \subseteq Nat, S # {}
    PROVE  Min(S) \in S /\ \A i \in S : Min(S) <= i
  <1>1. \E x \in S : \A y \in S : x =< y
    BY LeastNumber
  <1> QED BY <1>1 DEF Min

LEMMA FindFacts ==
    ASSUME CallTypes, NEW token, NEW i \in Nat \ {0}
    PROVE  /\ Find(token, i) \in Nat
           /\ Find(token, i) = 0 => \A j \in i..Len(answer) : answer[j] # token
           /\ Find(token, i) > 0 =>
                 /\ Find(token, i) \in i..Len(answer) /\ answer[Find(token, i)] = token
                 /\ \A j \in i..Len(answer) : j < Find(token, i) => answer[j] # token
  <1> DEFINE found == {j \in i..Len(answer) : answer[j] = token}
  <1>1. Len(answer) \in Nat
    BY LenProperties DEF CallTypes
  <1>2. found \subseteq Nat /\ \A j \in found : j > 0
    BY <1>1
  <1>3. CASE found = {}
    BY <1>3 DEF Find
  <1>4. CASE found # {}
    <2>1. Find(token, i) = Min(found)
      BY <1>4 DEF Find
    <2>2. Min(found) \in found /\ \A j \in found : Min(found) <= j
      <3> HIDE DEF found
      <3> QED BY <1>2, <1>4, MinFacts
    <2> QED BY <1>1, <1>2, <2>1, <2>2
  <1> QED BY <1>3, <1>4

LEMMA FindInFacts ==
    ASSUME NEW s, Len(s) \in Nat, NEW token, NEW i \in Nat \ {0}
    PROVE  /\ FindIn(s, token, i) \in Nat
           /\ FindIn(s, token, i) = 0 => \A j \in i..Len(s) : answer[s[j]] # token
           /\ FindIn(s, token, i) > 0 =>
                 /\ FindIn(s, token, i) \in i..Len(s) /\ answer[s[FindIn(s, token, i)]] = token
                 /\ \A j \in i..Len(s) : j < FindIn(s, token, i) => answer[s[j]] # token
  <1> DEFINE found == {j \in i..Len(s) : answer[s[j]] = token}
  <1>2. found \subseteq Nat /\ \A j \in found : j > 0
    OBVIOUS
  <1>3. CASE found = {}
    BY <1>3 DEF FindIn
  <1>4. CASE found # {}
    <2>1. FindIn(s, token, i) = Min(found)
      BY <1>4 DEF FindIn
    <2>2. Min(found) \in found /\ \A j \in found : Min(found) <= j
      <3> HIDE DEF found
      <3> QED BY <1>2, <1>4, MinFacts
    <2> DEFINE f == FindIn(s, token, i)
    <2>3. /\ f \in i..Len(s) /\ answer[s[f]] = token
          /\ \A j \in i..Len(s) : answer[s[j]] = token => f <= j
      BY <2>1, <2>2
    <2>4. f \in Nat /\ f > 0
      BY <2>3
    <2> HIDE DEF f
    <2>5. \A j \in i..Len(s) : j < f => answer[s[j]] # token
      BY <2>3, <2>4
    <2> QED BY <2>3, <2>4, <2>5 DEF f
  <1> QED BY <1>3, <1>4

-----------------------------------------------------------------------------
(* The service and the native answers. *)

Tokens == TextTokens \cup NativeTokens \cup AnthropicTokens

LEMMA AnswersAreTokens == \A a \in Answers(adapter) : a \in Seq(Tokens)
  <1>1. ASSUME NEW T, T \subseteq Tokens, NEW n \in Int, NEW a \in BoundedSeq(T, n)
        PROVE  a \in Seq(Tokens)
    <2>1. PICK k \in 0..n : a \in [1..k -> T]
      BY DEF BoundedSeq, SeqOf
    <2>2. k \in Nat /\ a \in [1..k -> Tokens]
      BY <1>1, <2>1
    <2> QED BY <2>2, SeqDef
  <1>2. /\ TextTokens \subseteq Tokens /\ NativeTokens \subseteq Tokens
        /\ AnthropicTokens \subseteq Tokens
    BY DEF Tokens
  <1>3. MaxTokens \in Int /\ MaxTokens - 1 \in Int
    BY CallBoundsNat
  <1>4. ASSUME NEW a \in Answers(adapter)
        PROVE  \/ a \in BoundedSeq(TextTokens, MaxTokens)
               \/ a \in BoundedSeq(NativeTokens, MaxTokens - 1)
               \/ a \in BoundedSeq(AnthropicTokens, MaxTokens - 1)
    BY <1>4 DEF Answers
  <1> QED BY <1>1, <1>2, <1>3, <1>4

LEMMA AnswerDomain ==
    ASSUME CallTypes
    PROVE  /\ Len(answer) \in Nat /\ DOMAIN answer = 1..Len(answer)
           /\ DOMAIN answer \subseteq Nat /\ \A i \in DOMAIN answer : i > 0
           /\ from \in Nat /\ from > 0 /\ from <= Len(answer) + 1
           /\ content \in Seq(DOMAIN answer) /\ kept \in Seq(DOMAIN answer)
           /\ calls \in Seq(DOMAIN answer)
  BY LenProperties DEF CallTypes

LEMMA CallInitIInv == CallInit => CallIInv
  <1> SUFFICES ASSUME CallInit
               PROVE  CallIInv
    OBVIOUS
  <1>1. Len(answer) = 0 /\ answer \in Seq(Tokens) /\ <<>> \in Seq(DOMAIN answer)
    BY DEF CallInit
  <1> QED BY <1>1
          DEF CallInit, CallIInv, CallTypes, ExtractBooks, StripBooks, TakenBooks, Tokens

\* What is known of an answer that was just read: nothing.
LEMMA NothingExtracted ==
    ASSUME NEW a, NEW n \in Nat, DOMAIN a = 1..n
    PROVE  /\ BlocksUpTo(a, DOMAIN a, {}, 0, "open", "close")
           /\ OutsideUpTo(a, DOMAIN a, {}, 0, "close") = {} /\ CallsIn(a, {}) = {}
  <1>1. DOMAIN a \subseteq Nat /\ \A i \in DOMAIN a : i > 0
    OBVIOUS
  <1>2. CallsIn(a, {}) = {}
    BY DEF CallsIn
  <1> QED BY <1>1, <1>2, BlocksBegin

LEMMA ServiceAnswersKeeps ==
    ASSUME CallIInv, ServiceAnswers
    PROVE  CallIInv'
  <1>1. /\ callPc' = "reading" /\ adapter' = adapter /\ answer' \in Answers(adapter)
        /\ from' = 1 /\ content' = <<>> /\ kept' = <<>> /\ calls' = <<>>
    BY DEF ServiceAnswers, CallGoes
  <1>2. answer' \in Seq(Tokens)
    BY <1>1, AnswersAreTokens
  <1>3. Len(answer') \in Nat /\ DOMAIN answer' = 1..Len(answer')
    BY <1>2, LenProperties
  <1>4. CallTypes'
    <2>1. adapter \in {"anthropic", "native", "xml", "claude"}
      BY DEF CallIInv, CallTypes
    <2>2. <<>> \in Seq(DOMAIN answer') /\ from' \in 1..(Len(answer') + 1)
      BY <1>1, <1>3
    <2> QED BY <1>1, <1>2, <2>1, <2>2 DEF CallTypes, Tokens
  <1>5. ExtractBooks'
    <2>1. PICK a : a = answer' /\ DOMAIN a = 1..Len(a) /\ Len(a) \in Nat
      BY <1>3
    <2>2. from' - 1 = 0
      BY <1>1
    <2>3. Extracted({})'
      BY <1>1, <2>1, <2>2, NothingExtracted, ListsNothing DEF Extracted
    <2>4. {} \in SUBSET DOMAIN answer'
      OBVIOUS
    <2> QED BY <1>1, <2>3, <2>4 DEF ExtractBooks
  <1> QED BY <1>1, <1>4, <1>5 DEF CallIInv, StripBooks, TakenBooks

\* An answer of one text.
LEMMA OneText ==
    ASSUME NEW a, NEW token \in {"text", "error"}, a = <<token>>
    PROVE  /\ a \in Seq(Tokens) /\ DOMAIN a = {1} /\ Len(a) = 1 /\ <<1>> \in Seq({1})
           /\ Lists(<<1>>, {1}) /\ {i \in DOMAIN a : a[i] \in {"call"}} = {}
           /\ {i \in DOMAIN a : a[i] \in {"text", "error"}} = {1}
           /\ Blocks(a, DOMAIN a, {}, "open", "close")
           /\ OutsideOf(a, DOMAIN a, {}, "close") = {1} /\ CallsIn(a, {}) = {}
  <1>1. /\ a \in Seq(Tokens) /\ DOMAIN a = {1} /\ a[1] = token /\ Len(a) = 1
        /\ <<1>> \in Seq({1}) /\ DOMAIN <<1>> = {1}
    BY DEF Tokens, TextTokens
  <1>2. Lists(<<1>>, {1})
    BY <1>1 DEF Lists, Range
  <1>3. /\ Blocks(a, DOMAIN a, {}, "open", "close") /\ OutsideOf(a, DOMAIN a, {}, "close") = {1}
        /\ CallsIn(a, {}) = {}
    BY <1>1 DEF Blocks, OutsideOf, CallsIn
  <1> QED BY <1>1, <1>2, <1>3

\* A text takes the place of an answer.
BecomesText(token) ==
    /\ callPc' = "judging" /\ adapter' = adapter
    /\ answer' = <<token>> /\ content' = <<1>> /\ calls' = <<>> /\ from' = 2
    /\ kept' \in {<<>>, kept} /\ (kept = <<>> \/ kept' = <<>>)

LEMMA OneTextIsWritten ==
    ASSUME CallIInv, NEW token \in {"text", "error"}, BecomesText(token)
    PROVE  CallIInv'
  <1>0. /\ callPc' = "judging" /\ adapter' = adapter
        /\ answer' = <<token>> /\ content' = <<1>> /\ calls' = <<>> /\ from' = 2
        /\ kept' \in {<<>>, kept} /\ (kept = <<>> \/ kept' = <<>>)
    BY DEF BecomesText
  <1> USE <1>0
  <1>1. PICK a : a = answer' /\ a = <<token>>
    BY <1>0
  <1>2. /\ a \in Seq(Tokens) /\ DOMAIN a = {1} /\ Len(a) = 1 /\ <<1>> \in Seq({1})
        /\ Lists(<<1>>, {1}) /\ {i \in DOMAIN a : a[i] \in {"call"}} = {}
        /\ {i \in DOMAIN a : a[i] \in {"text", "error"}} = {1}
        /\ Blocks(a, DOMAIN a, {}, "open", "close")
        /\ OutsideOf(a, DOMAIN a, {}, "close") = {1} /\ CallsIn(a, {}) = {}
    BY <1>1, OneText
  <1>3. CallTypes'
    <2>1. kept' = <<>> /\ <<>> \in Seq(DOMAIN answer')
      BY <1>0
    <2>2. adapter \in {"anthropic", "native", "xml", "claude"}
      BY DEF CallIInv, CallTypes
    <2>3. 2 \in 1..(Len(answer') + 1)
      BY <1>1, <1>2
    <2> QED BY <1>1, <1>2, <2>1, <2>2, <2>3 DEF CallTypes, Tokens
  <1>4. AsWritten'
    <2>1. Those({"call"})' = {} /\ Those({"text", "error"})' = {1}
      BY <1>1, <1>2 DEF Those
    <2>2. /\ Blocks(answer', DOMAIN answer', {}, "open", "close")
          /\ OutsideOf(answer', DOMAIN answer', {}, "close") = {1}
          /\ CallsIn(answer', {}) = {} /\ Lists(content', {1}) /\ Lists(calls', {})
          /\ {} \in SUBSET DOMAIN answer'
      BY <1>1, <1>2, ListsNothing
    <2>3. CASE adapter' \in {"anthropic", "native"}
      BY <2>1, <2>2, <2>3 DEF AsWritten
    <2>4. CASE adapter' \notin {"anthropic", "native"}
      BY <2>2, <2>4 DEF AsWritten
    <2> QED BY <2>3, <2>4
  <1> QED BY <1>3, <1>4 DEF CallIInv, ExtractBooks, StripBooks, TakenBooks

LEMMA FailsKeeps ==
    ASSUME CallIInv, ServiceFails \/ CliFails
    PROVE  CallIInv'
  <1>1. \E token \in {"text", "error"} : AnswersWithText(token)
    BY DEF ServiceFails, CliFails
  <1> QED BY <1>1, OneTextIsWritten DEF AnswersWithText, CallGoes, BecomesText

LEMMA ReadNativesKeeps ==
    ASSUME CallIInv, ReadNative \/ ReadAnthropic
    PROVE  CallIInv'
  <1>1. /\ callPc = "reading" /\ callPc' = "judging" /\ kept' = kept /\ adapter' = adapter
        /\ adapter \in {"native", "anthropic"}
    BY DEF ReadNative, ReadAnthropic, CallGoes
  <1>2. kept = <<>> /\ CallTypes
    BY <1>1 DEF CallIInv, ExtractBooks
  <1>3. CASE answer' = <<"error">> /\ content' = <<1>> /\ calls' = <<>> /\ from' = 2
    BY <1>1, <1>2, <1>3, OneTextIsWritten DEF BecomesText
  <1>4. CASE /\ answer' = answer /\ content' = Ordered(Those({"text", "error"}))
             /\ calls' = Ordered(Those({"call"})) /\ from' = Len(answer) + 1
    <2>1. /\ Len(answer) \in Nat /\ DOMAIN answer = 1..Len(answer)
          /\ DOMAIN answer \subseteq Nat
      BY <1>2, AnswerDomain
    <2>2. ASSUME NEW S, S \subseteq DOMAIN answer
          PROVE  Ordered(S) \in Seq(DOMAIN answer) /\ Lists(Ordered(S), S)
      <3>1. IsFiniteSet(S)
        BY <2>1, <2>2, UpTo, FS_Subset
      <3>2. Ordered(S) \in Seq(S) /\ Lists(Ordered(S), S)
        BY <2>1, <2>2, <3>1, ListsOrdered
      <3> QED BY <2>2, <3>2, SeqWidens
    <2>3. Those({"call"}) \subseteq DOMAIN answer /\ Those({"text", "error"}) \subseteq DOMAIN answer
      BY DEF Those
    <2>4. Those({"call"})' = Those({"call"}) /\ Those({"text", "error"})' = Those({"text", "error"})
      BY <1>4 DEF Those
    <2>5. CallTypes'
      <3>1. from' \in 1..(Len(answer') + 1)
        BY <1>4, <2>1
      <3>2. {content', kept', calls'} \subseteq Seq(DOMAIN answer')
        BY <1>1, <1>2, <1>4, <2>2, <2>3
      <3> QED BY <1>1, <1>2, <1>4, <3>1, <3>2 DEF CallTypes
    <2>6. AsWritten'
      <3>1. Lists(calls', Those({"call"})') /\ Lists(content', Those({"text", "error"})')
        BY <1>4, <2>2, <2>3, <2>4
      <3>2. adapter' \in {"anthropic", "native"}
        BY <1>1
      <3> QED BY <3>1, <3>2 DEF AsWritten
    <2> QED BY <1>1, <2>5, <2>6 DEF CallIInv, ExtractBooks, StripBooks, TakenBooks
  <1> QED BY <1>3, <1>4 DEF ReadNative, ReadAnthropic

-----------------------------------------------------------------------------
(* extract_tool_calls. *)

\* A block adds its call, if that is all there is in it.
LEMMA CallsGrow ==
    ASSUME NEW a, NEW n \in Nat, DOMAIN a = 1..n, NEW begins, NEW m \in Nat,
           BlocksUpTo(a, DOMAIN a, begins, m, "open", "close"),
           NEW s \in 1..n, NEW e \in 1..n, m < s, s < e, a[e] = "close",
           \A i \in 1..n : s < i /\ i < e => a[i] # "close"
    PROVE  /\ CallsIn(a, begins \cup {s})
                = CallsIn(a, begins) \cup (IF e = s + 2 /\ a[s + 1] = "call" THEN {s + 1} ELSE {})
           /\ CallsIn(a, begins) \subseteq 1..m
  <1>1. \A b \in begins : b \in 1..n /\ b < m
    <2> SUFFICES ASSUME NEW b \in begins
                 PROVE  b \in 1..n /\ b < m
      OBVIOUS
    <2>1. b \in 1..n /\ EndsBefore(a, 1..n, "close", b, m + 1)
      BY DEF BlocksUpTo
    <2>2. PICK x \in 1..n : b < x /\ x < m + 1
      BY <2>1 DEF EndsBefore
    <2> QED BY <2>1, <2>2
  <1>2. CallsIn(a, begins) \subseteq 1..m
    BY <1>1 DEF CallsIn
  <1>3. s + 1 \in CallsIn(a, {s}) <=> e = s + 2 /\ a[s + 1] = "call"
    <2>1. ASSUME s + 1 \in CallsIn(a, {s})
          PROVE  e = s + 2 /\ a[s + 1] = "call"
      <3>1. a[s + 1] = "call" /\ s + 2 \in 1..n /\ a[s + 2] = "close"
        <4>1. a[s + 1] = "call" /\ s + 1 + 1 \in 1..n /\ a[s + 1 + 1] = "close"
          BY <2>1 DEF CallsIn
        <4>2. s + 1 + 1 = s + 2
          OBVIOUS
        <4> QED BY <4>1, <4>2
      <3>2. e # s + 1
        BY <3>1
      <3>3. ~ (s + 2 < e)
        BY <3>1
      <3> QED BY <3>1, <3>2, <3>3
    <2>2. ASSUME e = s + 2, a[s + 1] = "call"
          PROVE  s + 1 \in CallsIn(a, {s})
      <3>1. s + 1 \in 1..n /\ s + 1 - 1 = s /\ s + 1 + 1 = e
        BY <2>2
      <3> QED BY <2>2, <3>1 DEF CallsIn
    <2> QED BY <2>1, <2>2
  <1>4. CallsIn(a, {s}) \subseteq {s + 1}
    BY DEF CallsIn
  <1>5. CallsIn(a, begins \cup {s}) = CallsIn(a, begins) \cup CallsIn(a, {s})
    BY DEF CallsIn
  <1> QED BY <1>2, <1>3, <1>4, <1>5

LEMMA ReadBlockKeeps ==
    ASSUME CallIInv, ReadBlock
    PROVE  CallIInv'
  <1>1. /\ adapter \in ReadAsText /\ callPc = "reading" /\ callPc' = callPc
        /\ answer' = answer /\ kept' = kept /\ adapter' = adapter
    BY DEF ReadBlock, ReadsText, ReadAsText
  <1>2. CallTypes /\ kept = <<>> /\ \E begins \in SUBSET DOMAIN answer : Extracted(begins)
    BY <1>1 DEF CallIInv, ExtractBooks
  <1>3. PICK begins \in SUBSET DOMAIN answer : Extracted(begins)
    BY <1>2
  <1>4. /\ Len(answer) \in Nat /\ DOMAIN answer = 1..Len(answer) /\ DOMAIN answer \subseteq Nat
        /\ from \in Nat \ {0} /\ from <= Len(answer) + 1
        /\ content \in Seq(DOMAIN answer) /\ calls \in Seq(DOMAIN answer)
    BY <1>2, AnswerDomain
  <1>5. PICK s, e :
          /\ s = Find("open", from) /\ e = Find("close", s + 1) /\ s > 0 /\ e > 0
          /\ content' = content \o Span(from, s - 1)
          /\ calls' = IF e = s + 2 /\ answer[s + 1] = "call" THEN Append(calls, s + 1) ELSE calls
          /\ from' = e + 1
    BY DEF ReadBlock
  <1>6. /\ s \in from..Len(answer) /\ answer[s] = "open"
        /\ \A j \in from..Len(answer) : j < s => answer[j] # "open"
    BY <1>2, <1>4, <1>5, FindFacts
  <1>7. s + 1 \in Nat \ {0}
    BY <1>4, <1>6
  <1>8. /\ e \in (s + 1)..Len(answer) /\ answer[e] = "close"
        /\ \A j \in (s + 1)..Len(answer) : j < e => answer[j] # "close"
    BY <1>2, <1>5, <1>7, FindFacts
  <1>9. PICK m \in Nat : m = from - 1
    BY <1>4
  <1>10. /\ s \in 1..Len(answer) /\ e \in 1..Len(answer) /\ m < s /\ s < e /\ s \in Nat
         /\ m < from /\ from <= s /\ e \in Nat
    BY <1>4, <1>6, <1>8, <1>9
  <1>11. /\ \A i \in DOMAIN answer : m < i /\ i < s => answer[i] # "open"
         /\ \A i \in DOMAIN answer : s < i /\ i < e => answer[i] # "close"
    BY <1>4, <1>6, <1>8, <1>9, <1>10
  <1>12. /\ BlocksUpTo(answer, DOMAIN answer, begins, m, "open", "close")
         /\ Lists(calls, CallsIn(answer, begins))
         /\ Lists(content, OutsideUpTo(answer, DOMAIN answer, begins, m, "close"))
    BY <1>3, <1>9 DEF Extracted
  <1>13. PICK B : B = begins \cup {s}
    OBVIOUS
  <1>14. /\ BlocksUpTo(answer, DOMAIN answer, B, e, "open", "close")
         /\ OutsideUpTo(answer, DOMAIN answer, B, e, "close")
              = OutsideUpTo(answer, DOMAIN answer, begins, m, "close")
                  \cup Between(DOMAIN answer, m, s)
    <2> DEFINE D == DOMAIN answer
    <2>1. /\ D \subseteq Nat /\ s \in D /\ e \in D /\ m < s /\ s < e
          /\ answer[s] = "open" /\ answer[e] = "close"
          /\ NoneIn(answer, Between(D, m, s), "open")
          /\ NoneIn(answer, Between(D, s, e), "close")
          /\ BlocksUpTo(answer, D, begins, m, "open", "close") /\ "open" # "close"
      BY <1>4, <1>6, <1>8, <1>10, <1>11, <1>12 DEF NoneIn, Between
    <2> HIDE DEF D
    <2>2. /\ BlocksUpTo(answer, D, begins \cup {s}, e, "open", "close")
          /\ OutsideUpTo(answer, D, begins \cup {s}, e, "close")
               = OutsideUpTo(answer, D, begins, m, "close") \cup Between(D, m, s)
      <3>1. NextBlock(answer, D, begins, m, s, e, "open", "close")
        BY <2>1 DEF NextBlock
      <3> QED BY <3>1, BlocksGrow DEF Grown
    <2> QED BY <1>13, <2>2 DEF D
  <1>15. /\ content' \in Seq(DOMAIN answer)
         /\ Lists(content', OutsideUpTo(answer, DOMAIN answer, B, e, "close"))
    <2> DEFINE T == from..(s - 1)
               D == DOMAIN answer
               O == OutsideUpTo(answer, DOMAIN answer, begins, m, "close")
    <2>1. T = Between(DOMAIN answer, m, s) /\ T \subseteq D
      BY <1>4, <1>9, <1>10 DEF Between
    <2>2. s - 1 \in Nat /\ from <= s - 1 + 1
      BY <1>4, <1>10
    <2>3. Span(from, s - 1) \in Seq(T) /\ Lists(Span(from, s - 1), T)
      BY <1>4, <2>2, ListsSpan
    <2>4. Span(from, s - 1) \in Seq(D)
      BY <2>1, <2>3, SeqWidens
    <2>5. \A i \in O, j \in T : i < j
      BY <1>4, <1>9, <1>10 DEF OutsideUpTo, OutsideOf
    <2>6. content \in Seq(D) /\ D \subseteq Nat /\ Lists(content, O)
      BY <1>4, <1>12
    <2> HIDE DEF T, D, O
    <2>7. content' \in Seq(D) /\ Lists(content', O \cup T)
      BY <1>5, <2>3, <2>4, <2>5, <2>6, ListsBoth
    <2> QED BY <1>14, <2>1, <2>7 DEF O, D
  <1>16. calls' \in Seq(DOMAIN answer) /\ Lists(calls', CallsIn(answer, B))
    <2> DEFINE D == DOMAIN answer
               C == CallsIn(answer, begins)
               single == e = s + 2 /\ answer[s + 1] = "call"
    <2>1. /\ CallsIn(answer, B) = C \cup (IF single THEN {s + 1} ELSE {})
          /\ C \subseteq 1..m
      <3>1. PICK n \in Nat : n = Len(answer) /\ DOMAIN answer = 1..n
        BY <1>4
      <3>2. /\ s \in 1..n /\ e \in 1..n /\ m < s /\ s < e /\ answer[e] = "close"
            /\ \A i \in 1..n : s < i /\ i < e => answer[i] # "close"
        BY <1>8, <1>10, <1>11, <3>1
      <3>3. BlocksUpTo(answer, DOMAIN answer, begins, m, "open", "close")
        BY <1>12
      <3>4. /\ CallsIn(answer, begins \cup {s})
                  = C \cup (IF e = s + 2 /\ answer[s + 1] = "call" THEN {s + 1} ELSE {})
            /\ C \subseteq 1..m
        BY <3>1, <3>2, <3>3, CallsGrow
      <3> QED BY <1>13, <3>4
    <2>2. CASE single
      <3>1. s + 1 \in D /\ \A i \in C : i < s + 1
        BY <1>4, <1>8, <1>10, <2>1, <2>2
      <3>2. calls' = Append(calls, s + 1)
        BY <1>5, <2>2
      <3>3. D \subseteq Nat /\ calls \in Seq(D) /\ Lists(calls, C)
        BY <1>4, <1>12
      <3>4. CallsIn(answer, B) = C \cup {s + 1}
        BY <2>1, <2>2
      <3> HIDE DEF C, D
      <3>5. calls' \in Seq(D) /\ Lists(calls', C \cup {s + 1})
        BY <3>1, <3>2, <3>3, ListsAppend
      <3> QED BY <3>4, <3>5 DEF D
    <2>3. CASE ~ single
      <3>1. calls' = calls /\ CallsIn(answer, B) = C
        BY <1>5, <2>1, <2>3
      <3> QED BY <1>4, <1>12, <3>1
    <2> QED BY <2>2, <2>3
  <1>17. from' \in 1..(Len(answer) + 1) /\ from' - 1 = e
    <2>1. from' = e + 1 /\ e \in Nat /\ e <= Len(answer) /\ Len(answer) \in Nat
      BY <1>4, <1>5, <1>10
    <2> QED BY <2>1
  <1>18. CallTypes'
    <2>1. {content', kept', calls'} \subseteq Seq(DOMAIN answer')
      BY <1>1, <1>2, <1>15, <1>16 DEF CallTypes
    <2> QED BY <1>1, <1>2, <1>17, <2>1 DEF CallTypes
  <1>19. Extracted(B)'
    BY <1>1, <1>14, <1>15, <1>16, <1>17 DEF Extracted
  <1>20. B \in SUBSET DOMAIN answer'
    BY <1>1, <1>4, <1>10, <1>13
  <1> QED BY <1>1, <1>2, <1>18, <1>19, <1>20
          DEF CallIInv, ExtractBooks, StripBooks, TakenBooks

\* What is left has no further block: the answer is cut as it should be.
LEMMA ReadRestKeeps ==
    ASSUME CallIInv, ReadRest
    PROVE  CallIInv'
  <1>1. /\ adapter \in ReadAsText /\ callPc = "reading" /\ answer' = answer /\ kept' = kept
        /\ adapter' = adapter /\ calls' = calls
        /\ callPc' = IF adapter = "claude" /\ calls # <<>> THEN "stripping" ELSE "judging"
        /\ content' = content \o Span(from, Len(answer)) /\ from' = Len(answer) + 1
        /\ Find("open", from) > 0 => Find("close", Find("open", from) + 1) = 0
    BY DEF ReadRest, ReadsText, ReadAsText
  <1>2. CallTypes /\ kept = <<>> /\ \E begins \in SUBSET DOMAIN answer : Extracted(begins)
    BY <1>1 DEF CallIInv, ExtractBooks
  <1>3. PICK begins \in SUBSET DOMAIN answer : Extracted(begins)
    BY <1>2
  <1>4. /\ Len(answer) \in Nat /\ DOMAIN answer = 1..Len(answer) /\ DOMAIN answer \subseteq Nat
        /\ from \in Nat \ {0} /\ from <= Len(answer) + 1
        /\ content \in Seq(DOMAIN answer) /\ calls \in Seq(DOMAIN answer)
    BY <1>2, AnswerDomain
  <1>5. PICK m \in Nat : m = from - 1
    BY <1>4
  <1>6. /\ BlocksUpTo(answer, DOMAIN answer, begins, m, "open", "close")
        /\ Lists(calls, CallsIn(answer, begins))
        /\ Lists(content, OutsideUpTo(answer, DOMAIN answer, begins, m, "close"))
    BY <1>3, <1>5 DEF Extracted
  <1>7. ASSUME NEW i \in DOMAIN answer, NEW j \in DOMAIN answer, m < i, i < j, answer[i] = "open"
        PROVE  answer[j] # "close"
    <2>1. PICK s \in Nat : s = Find("open", from)
      BY <1>2, <1>4, FindFacts
    <2>2. i \in from..Len(answer)
      BY <1>4, <1>5, <1>7
    <2>3. /\ s > 0 /\ s \in from..Len(answer)
          /\ \A k \in from..Len(answer) : k < s => answer[k] # "open"
      BY <1>2, <1>4, <1>7, <2>1, <2>2, FindFacts
    <2>4. ~ (i < s)
      BY <1>7, <2>2, <2>3
    <2>5. s <= i /\ j \in (s + 1)..Len(answer) /\ s + 1 \in Nat \ {0}
      BY <1>4, <1>7, <2>1, <2>4
    <2>6. Find("close", s + 1) = 0
      BY <1>1, <2>1, <2>3
    <2> QED BY <1>2, <2>5, <2>6, FindFacts
  <1>8. PICK text : text = OutsideOf(answer, DOMAIN answer, begins, "close")
    OBVIOUS
  <1>9. /\ Blocks(answer, DOMAIN answer, begins, "open", "close")
        /\ text = OutsideUpTo(answer, DOMAIN answer, begins, m, "close")
                    \cup Behind(DOMAIN answer, m)
    <2> DEFINE D == DOMAIN answer
    <2>1. /\ D \subseteq Nat /\ BlocksUpTo(answer, D, begins, m, "open", "close")
          /\ \A i \in Behind(D, m) :
                answer[i] = "open" => NoneIn(answer, Behind(D, i), "close")
      BY <1>4, <1>6, <1>7 DEF NoneIn, Behind
    <2> HIDE DEF D
    <2>2. /\ Blocks(answer, D, begins, "open", "close")
          /\ OutsideOf(answer, D, begins, "close")
               = OutsideUpTo(answer, D, begins, m, "close") \cup Behind(D, m)
      <3>1. NoBlock(answer, D, begins, m, "open", "close")
        BY <2>1 DEF NoBlock
      <3> QED BY <3>1, BlocksEnd
    <2> QED BY <1>8, <2>2 DEF D
  <1>10. content' \in Seq(DOMAIN answer) /\ Lists(content', text)
    <2> DEFINE T == from..Len(answer)
               D == DOMAIN answer
               O == OutsideUpTo(answer, DOMAIN answer, begins, m, "close")
    <2>1. T = Behind(DOMAIN answer, m) /\ T \subseteq D
      BY <1>4, <1>5 DEF Behind
    <2>2. Span(from, Len(answer)) \in Seq(T) /\ Lists(Span(from, Len(answer)), T)
      BY <1>4, ListsSpan
    <2>3. Span(from, Len(answer)) \in Seq(D)
      BY <2>1, <2>2, SeqWidens
    <2>4. \A i \in O, j \in T : i < j
      BY <1>4, <1>5 DEF OutsideUpTo, OutsideOf
    <2>5. content \in Seq(D) /\ D \subseteq Nat /\ Lists(content, O)
      BY <1>4, <1>6
    <2> HIDE DEF T, D, O
    <2>6. content' \in Seq(D) /\ Lists(content', O \cup T)
      BY <1>1, <2>2, <2>3, <2>4, <2>5, ListsBoth
    <2> QED BY <1>9, <2>1, <2>6 DEF O, D
  <1>11. CallTypes'
    <2>1. from' \in 1..(Len(answer) + 1)
      BY <1>1, <1>4
    <2>2. {content', kept', calls'} \subseteq Seq(DOMAIN answer')
      BY <1>1, <1>2, <1>10 DEF CallTypes
    <2>3. callPc' \in {"stripping", "judging"}
      BY <1>1
    <2> QED BY <1>1, <1>2, <2>1, <2>2, <2>3 DEF CallTypes
  <1>12. CASE adapter = "claude" /\ calls # <<>>
    <2>1. \A i \in text : i \in Nat /\ i > 0
      BY <1>4, <1>8 DEF OutsideOf
    <2>2. /\ BlocksUpTo(answer, text, {}, 0, "ropen", "rclose")
          /\ OutsideUpTo(answer, text, {}, 0, "rclose") = {}
      BY <2>1, BlocksBegin
    <2>3. text = Behind(text, 0)
      BY <2>1 DEF Behind
    <2>4. /\ BlocksUpTo(answer', text, {}, 0, "ropen", "rclose")
          /\ Lists(kept', OutsideUpTo(answer', text, {}, 0, "rclose"))
          /\ Lists(content', Behind(text, 0))
      BY <1>1, <1>2, <1>10, <2>2, <2>3, ListsNothing
    <2>5. Stripped(OutsideOf(answer, DOMAIN answer, begins, "close"), {}, 0)'
      BY <1>1, <1>8, <2>4 DEF Stripped
    <2>6. {} \in SUBSET DOMAIN answer' /\ 0 \in 0..Len(answer') /\ begins \in SUBSET DOMAIN answer'
      BY <1>1, <1>4
    <2>7. /\ Blocks(answer', DOMAIN answer', begins, "open", "close")
          /\ Lists(calls', CallsIn(answer', begins))
      BY <1>1, <1>6, <1>9
    <2>8. StripBooks'
      BY <1>1, <1>12, <2>5, <2>6, <2>7 DEF StripBooks
    <2> QED BY <1>1, <1>11, <1>12, <2>8 DEF CallIInv, ExtractBooks, TakenBooks
  <1>13. CASE ~ (adapter = "claude" /\ calls # <<>>)
    <2>1. /\ Blocks(answer', DOMAIN answer', begins, "open", "close")
          /\ Lists(calls', CallsIn(answer', begins)) /\ begins \in SUBSET DOMAIN answer'
          /\ Lists(content', OutsideOf(answer', DOMAIN answer', begins, "close"))
      BY <1>1, <1>6, <1>8, <1>9, <1>10
    <2>2. adapter' \notin {"anthropic", "native"} /\ ~ (adapter' = "claude" /\ calls' # <<>>)
      BY <1>1, <1>13 DEF ReadAsText
    <2>3. AsWritten'
      BY <2>1, <2>2 DEF AsWritten
    <2> QED BY <1>1, <1>11, <1>13, <2>3 DEF CallIInv, ExtractBooks, StripBooks, TakenBooks
  <1> QED BY <1>12, <1>13

-----------------------------------------------------------------------------
(* strip_xml_blocks. *)

\* The list of what is left, by places in it.
LEMMA ListedPlaces ==
    ASSUME NEW A, A \subseteq Nat, NEW s \in Seq(A), NEW S, Lists(s, S)
    PROVE  /\ Len(s) \in Nat /\ \A k \in 1..Len(s) : s[k] \in S /\ s[k] \in A /\ s[k] \in Nat
           /\ \A i \in S : \E k \in 1..Len(s) : s[k] = i
           /\ \A k, l \in 1..Len(s) : k < l <=> s[k] < s[l]
  <1>1. Len(s) \in Nat /\ DOMAIN s = 1..Len(s) /\ \A k \in 1..Len(s) : s[k] \in A /\ s[k] \in Nat
    BY LenProperties, ElementOfSeq
  <1>2. S = {s[k] : k \in 1..Len(s)} /\ \A k, l \in 1..Len(s) : k < l => s[k] < s[l]
    BY <1>1 DEF Lists, Range
  <1>3. \A k, l \in 1..Len(s) : k < l \/ k = l \/ l < k
    BY <1>1
  <1>4. \A k, l \in 1..Len(s) : s[k] < s[l] => k < l
    BY <1>1, <1>2, <1>3
  <1> QED BY <1>1, <1>2, <1>4

\* What StripBooks says, piece by piece.
LEMMA StrippingFacts ==
    ASSUME CallIInv, callPc = "stripping"
    PROVE  \E begins \in SUBSET DOMAIN answer, results \in SUBSET DOMAIN answer,
              m \in 0..Len(answer), text \in SUBSET DOMAIN answer :
              /\ text = OutsideOf(answer, DOMAIN answer, begins, "close")
              /\ Blocks(answer, DOMAIN answer, begins, "open", "close")
              /\ Lists(calls, CallsIn(answer, begins))
              /\ Stripped(text, results, m)
  <1>1. PICK begins \in SUBSET DOMAIN answer :
              /\ Blocks(answer, DOMAIN answer, begins, "open", "close")
              /\ Lists(calls, CallsIn(answer, begins))
              /\ \E results \in SUBSET DOMAIN answer, m \in 0..Len(answer) :
                    Stripped(OutsideOf(answer, DOMAIN answer, begins, "close"), results, m)
    BY DEF CallIInv, StripBooks
  <1>2. PICK results \in SUBSET DOMAIN answer, m \in 0..Len(answer) :
              Stripped(OutsideOf(answer, DOMAIN answer, begins, "close"), results, m)
    BY <1>1
  <1>3. PICK text : text = OutsideOf(answer, DOMAIN answer, begins, "close")
    OBVIOUS
  <1>4. text \in SUBSET DOMAIN answer
    BY <1>3 DEF OutsideOf
  <1> QED BY <1>1, <1>2, <1>3, <1>4

LEMMA StripBlockKeeps ==
    ASSUME CallIInv, StripBlock
    PROVE  CallIInv'
  <1>1. /\ callPc = "stripping" /\ callPc' = callPc /\ answer' = answer /\ from' = from
        /\ adapter' = adapter /\ calls' = calls
    BY DEF StripBlock
  <1>2. CallTypes /\ adapter = "claude" /\ calls # <<>>
    BY <1>1 DEF CallIInv, StripBooks
  <1>3. PICK begins \in SUBSET DOMAIN answer, results \in SUBSET DOMAIN answer,
             m \in 0..Len(answer), text \in SUBSET DOMAIN answer :
              /\ text = OutsideOf(answer, DOMAIN answer, begins, "close")
              /\ Blocks(answer, DOMAIN answer, begins, "open", "close")
              /\ Lists(calls, CallsIn(answer, begins))
              /\ Stripped(text, results, m)
    BY <1>1, StrippingFacts
  <1>4. /\ Len(answer) \in Nat /\ DOMAIN answer = 1..Len(answer) /\ DOMAIN answer \subseteq Nat
        /\ content \in Seq(DOMAIN answer) /\ kept \in Seq(DOMAIN answer) /\ m \in Nat
    BY <1>2, AnswerDomain
  <1>5. /\ results \subseteq text /\ BlocksUpTo(answer, text, results, m, "ropen", "rclose")
        /\ Lists(kept, OutsideUpTo(answer, text, results, m, "rclose"))
        /\ Lists(content, Behind(text, m))
    BY <1>3 DEF Stripped
  <1>6. /\ Len(content) \in Nat
        /\ \A k \in 1..Len(content) : /\ content[k] \in Behind(text, m)
                                      /\ content[k] \in DOMAIN answer /\ content[k] \in Nat
        /\ \A i \in Behind(text, m) : \E k \in 1..Len(content) : content[k] = i
        /\ \A k, l \in 1..Len(content) : k < l <=> content[k] < content[l]
    <2> DEFINE D == DOMAIN answer
               S == Behind(text, m)
    <2>1. D \subseteq Nat /\ content \in Seq(D) /\ Lists(content, S)
      BY <1>4, <1>5
    <2> HIDE DEF D, S
    <2>2. /\ Len(content) \in Nat
          /\ \A k \in 1..Len(content) : content[k] \in S /\ content[k] \in D /\ content[k] \in Nat
          /\ \A i \in S : \E k \in 1..Len(content) : content[k] = i
          /\ \A k, l \in 1..Len(content) : k < l <=> content[k] < content[l]
      BY <2>1, ListedPlaces
    <2> QED BY <2>2 DEF D, S
  <1>7. PICK k, l :
          /\ k = FindIn(content, "ropen", 1) /\ l = FindIn(content, "rclose", k + 1)
          /\ k > 0 /\ l > 0
          /\ kept' = kept \o SubSeq(content, 1, k - 1)
          /\ content' = SubSeq(content, l + 1, Len(content))
    BY DEF StripBlock
  <1>8. /\ k \in 1..Len(content) /\ answer[content[k]] = "ropen"
        /\ \A j \in 1..Len(content) : j < k => answer[content[j]] # "ropen"
    <2>1. Len(content) \in Nat /\ 1 \in Nat \ {0}
      BY <1>6
    <2> QED BY <1>7, <2>1, FindInFacts
  <1>9. k + 1 \in Nat \ {0}
    BY <1>8
  <1>10. /\ l \in (k + 1)..Len(content) /\ answer[content[l]] = "rclose"
         /\ \A j \in (k + 1)..Len(content) : j < l => answer[content[j]] # "rclose"
    <2>1. Len(content) \in Nat
      BY <1>6
    <2>2. FindIn(content, "rclose", k + 1) > 0 =>
             /\ FindIn(content, "rclose", k + 1) \in (k + 1)..Len(content)
             /\ answer[content[FindIn(content, "rclose", k + 1)]] = "rclose"
             /\ \A j \in (k + 1)..Len(content) :
                   j < FindIn(content, "rclose", k + 1) => answer[content[j]] # "rclose"
      BY <1>9, <2>1, FindInFacts
    <2> QED BY <1>7, <2>2
  <1>11. l \in 1..Len(content) /\ k < l
    BY <1>6, <1>8, <1>10
  <1>12. PICK s, e : s = content[k] /\ e = content[l]
    OBVIOUS
  <1>13. /\ s \in text /\ e \in text /\ s \in Nat /\ e \in Nat /\ m < s /\ s < e
         /\ answer[s] = "ropen" /\ answer[e] = "rclose"
    BY <1>6, <1>8, <1>10, <1>11, <1>12 DEF Behind
  <1>14. NoneIn(answer, Between(text, m, s), "ropen")
    <2> SUFFICES ASSUME NEW i \in text, m < i, i < s
                 PROVE  answer[i] # "ropen"
      BY DEF NoneIn, Between
    <2>1. PICK j \in 1..Len(content) : content[j] = i
      BY <1>6 DEF Behind
    <2>2. j < k
      BY <1>6, <1>8, <1>12, <2>1
    <2> QED BY <1>8, <2>1, <2>2
  <1>15. NoneIn(answer, Between(text, s, e), "rclose")
    <2> SUFFICES ASSUME NEW i \in text, s < i, i < e
                 PROVE  answer[i] # "rclose"
      BY DEF NoneIn, Between
    <2>1. i \in Nat /\ m < i
      BY <1>4, <1>13
    <2>2. PICK j \in 1..Len(content) : content[j] = i
      BY <1>6, <2>1 DEF Behind
    <2>3. k < j /\ j < l
      BY <1>6, <1>8, <1>11, <1>12, <2>2
    <2>4. j \in (k + 1)..Len(content)
      BY <1>8, <2>3
    <2> QED BY <1>10, <2>2, <2>3, <2>4
  <1>16. PICK R : R = results \cup {s}
    OBVIOUS
  <1>17. /\ BlocksUpTo(answer, text, R, e, "ropen", "rclose")
         /\ OutsideUpTo(answer, text, R, e, "rclose")
              = OutsideUpTo(answer, text, results, m, "rclose") \cup Between(text, m, s)
    <2>1. NextBlock(answer, text, results, m, s, e, "ropen", "rclose")
      BY <1>4, <1>5, <1>13, <1>14, <1>15 DEF NextBlock
    <2>2. Grown(answer, text, results, m, s, e, "ropen", "rclose")
      BY <2>1, BlocksGrow
    <2> QED BY <1>16, <2>2 DEF Grown
  <1>18. /\ SubSeq(content, 1, k - 1) \in Seq(DOMAIN answer)
         /\ SubSeq(content, l + 1, Len(content)) \in Seq(DOMAIN answer)
         /\ Lists(SubSeq(content, 1, k - 1), Between(text, m, s))
         /\ Lists(SubSeq(content, l + 1, Len(content)), Behind(text, e))
    <2> DEFINE S == Behind(text, m)
               D == DOMAIN answer
    <2>1. D \subseteq Nat /\ content \in Seq(D) /\ Lists(content, S)
      BY <1>4, <1>5
    <2>2. Ahead(S, s) = Between(text, m, s) /\ Behind(S, e) = Behind(text, e)
      BY <1>4, <1>13 DEF Ahead, Between, Behind
    <2> HIDE DEF S, D
    <2>3. SubSeq(content, 1, k - 1) \in Seq(D) /\ Lists(SubSeq(content, 1, k - 1), Ahead(S, content[k]))
      BY <1>8, <2>1, ListsAround
    <2>4. /\ SubSeq(content, l + 1, Len(content)) \in Seq(D)
          /\ Lists(SubSeq(content, l + 1, Len(content)), Behind(S, content[l]))
      BY <1>11, <2>1, ListsAround
    <2> QED BY <1>12, <2>2, <2>3, <2>4 DEF D
  <1>19. /\ kept' \in Seq(DOMAIN answer)
         /\ Lists(kept', OutsideUpTo(answer, text, R, e, "rclose"))
    <2> DEFINE O == OutsideUpTo(answer, text, results, m, "rclose")
               T == Between(text, m, s)
               D == DOMAIN answer
    <2>1. \A i \in O, j \in T : i < j
      BY <1>4 DEF OutsideUpTo, OutsideOf, Between
    <2>2. D \subseteq Nat /\ kept \in Seq(D) /\ Lists(kept, O)
      BY <1>4, <1>5
    <2> HIDE DEF O, T, D
    <2>3. kept' \in Seq(D) /\ Lists(kept', O \cup T)
      BY <1>7, <1>18, <2>1, <2>2, ListsBoth DEF T, D
    <2> QED BY <1>17, <2>3 DEF O, T, D
  <1>20. CallTypes'
    <2>1. {content', kept', calls'} \subseteq Seq(DOMAIN answer')
      BY <1>1, <1>2, <1>7, <1>18, <1>19 DEF CallTypes
    <2> QED BY <1>1, <1>2, <2>1 DEF CallTypes
  <1>21. Stripped(text, R, e)'
    <2>1. R \subseteq text
      BY <1>5, <1>13, <1>16
    <2> QED BY <1>1, <1>7, <1>17, <1>18, <1>19, <2>1 DEF Stripped
  <1>22. /\ R \in SUBSET DOMAIN answer' /\ e \in 0..Len(answer')
         /\ begins \in SUBSET DOMAIN answer'
         /\ Blocks(answer', DOMAIN answer', begins, "open", "close")
         /\ Lists(calls', CallsIn(answer', begins))
    BY <1>1, <1>3, <1>4, <1>13, <1>16
  <1>23. Stripped(OutsideOf(answer, DOMAIN answer, begins, "close"), R, e)'
    BY <1>1, <1>3, <1>21
  <1>24. StripBooks'
    BY <1>1, <1>2, <1>22, <1>23 DEF StripBooks
  <1> QED BY <1>1, <1>20, <1>24 DEF CallIInv, ExtractBooks, TakenBooks

LEMMA StripRestKeeps ==
    ASSUME CallIInv, StripRest
    PROVE  CallIInv'
  <1>1. /\ callPc = "stripping" /\ callPc' = "judging" /\ answer' = answer /\ from' = from
        /\ adapter' = adapter /\ calls' = calls /\ content' = kept \o content /\ kept' = <<>>
        /\ FindIn(content, "ropen", 1) > 0
              => FindIn(content, "rclose", FindIn(content, "ropen", 1) + 1) = 0
    BY DEF StripRest, CallGoes
  <1>2. CallTypes /\ adapter = "claude" /\ calls # <<>>
    BY <1>1 DEF CallIInv, StripBooks
  <1>3. PICK begins \in SUBSET DOMAIN answer, results \in SUBSET DOMAIN answer,
             m \in 0..Len(answer), text \in SUBSET DOMAIN answer :
              /\ text = OutsideOf(answer, DOMAIN answer, begins, "close")
              /\ Blocks(answer, DOMAIN answer, begins, "open", "close")
              /\ Lists(calls, CallsIn(answer, begins))
              /\ Stripped(text, results, m)
    BY <1>1, StrippingFacts
  <1>4. /\ Len(answer) \in Nat /\ DOMAIN answer = 1..Len(answer) /\ DOMAIN answer \subseteq Nat
        /\ content \in Seq(DOMAIN answer) /\ kept \in Seq(DOMAIN answer) /\ m \in Nat
    BY <1>2, AnswerDomain
  <1>5. /\ results \subseteq text /\ BlocksUpTo(answer, text, results, m, "ropen", "rclose")
        /\ Lists(kept, OutsideUpTo(answer, text, results, m, "rclose"))
        /\ Lists(content, Behind(text, m))
    BY <1>3 DEF Stripped
  <1>6. /\ Len(content) \in Nat
        /\ \A k \in 1..Len(content) : /\ content[k] \in Behind(text, m)
                                      /\ content[k] \in DOMAIN answer /\ content[k] \in Nat
        /\ \A i \in Behind(text, m) : \E k \in 1..Len(content) : content[k] = i
        /\ \A k, l \in 1..Len(content) : k < l <=> content[k] < content[l]
    <2> DEFINE D == DOMAIN answer
               S == Behind(text, m)
    <2>1. D \subseteq Nat /\ content \in Seq(D) /\ Lists(content, S)
      BY <1>4, <1>5
    <2> HIDE DEF D, S
    <2>2. /\ Len(content) \in Nat
          /\ \A k \in 1..Len(content) : content[k] \in S /\ content[k] \in D /\ content[k] \in Nat
          /\ \A i \in S : \E k \in 1..Len(content) : content[k] = i
          /\ \A k, l \in 1..Len(content) : k < l <=> content[k] < content[l]
      BY <2>1, ListedPlaces
    <2> QED BY <2>2 DEF D, S
  <1>7. ASSUME NEW i \in text, NEW j \in text, m < i, i < j, answer[i] = "ropen"
        PROVE  answer[j] # "rclose"
    <2>1. m < j
      BY <1>4, <1>7
    <2>2. PICK q, r \in 1..Len(content) : content[q] = i /\ content[r] = j
      BY <1>6, <1>7, <2>1 DEF Behind
    <2>3. q < r
      BY <1>6, <1>7, <2>2
    <2>4. PICK k \in Nat : k = FindIn(content, "ropen", 1)
      BY <1>6, FindInFacts
    <2>5. /\ k \in 1..Len(content)
          /\ \A x \in 1..Len(content) : x < k => answer[content[x]] # "ropen"
      <3>1. Len(content) \in Nat /\ 1 \in Nat \ {0}
        BY <1>6
      <3>2. /\ k = 0 => \A x \in 1..Len(content) : answer[content[x]] # "ropen"
            /\ k > 0 => /\ k \in 1..Len(content)
                        /\ \A x \in 1..Len(content) : x < k => answer[content[x]] # "ropen"
        BY <2>4, <3>1, FindInFacts
      <3>3. k # 0
        BY <1>7, <2>2, <3>2
      <3> QED BY <3>2, <3>3
    <2>6. ~ (q < k)
      BY <1>7, <2>2, <2>5
    <2>7. r \in (k + 1)..Len(content) /\ k + 1 \in Nat \ {0}
      BY <2>3, <2>4, <2>6
    <2>8. FindIn(content, "rclose", k + 1) = 0
      BY <1>1, <2>4, <2>5
    <2> QED BY <1>6, <2>2, <2>7, <2>8, FindInFacts
  <1>8. /\ Blocks(answer, text, results, "ropen", "rclose")
        /\ OutsideOf(answer, text, results, "rclose")
             = OutsideUpTo(answer, text, results, m, "rclose") \cup Behind(text, m)
    <2>1. NoBlock(answer, text, results, m, "ropen", "rclose")
      BY <1>4, <1>5, <1>7 DEF NoBlock, NoneIn, Behind
    <2> QED BY <2>1, BlocksEnd
  <1>9. /\ content' \in Seq(DOMAIN answer)
        /\ Lists(content', OutsideOf(answer, text, results, "rclose"))
    <2> DEFINE O == OutsideUpTo(answer, text, results, m, "rclose")
               T == Behind(text, m)
               D == DOMAIN answer
    <2>1. \A i \in O, j \in T : i < j
      BY <1>4 DEF OutsideUpTo, OutsideOf, Behind
    <2>2. D \subseteq Nat /\ kept \in Seq(D) /\ content \in Seq(D) /\ Lists(kept, O) /\ Lists(content, T)
      BY <1>4, <1>5
    <2> HIDE DEF O, T, D
    <2>3. content' \in Seq(D) /\ Lists(content', O \cup T)
      BY <1>1, <2>1, <2>2, ListsBoth
    <2> QED BY <1>8, <2>3 DEF O, T, D
  <1>10. CallTypes'
    <2>1. <<>> \in Seq(DOMAIN answer)
      OBVIOUS
    <2>2. {content', kept', calls'} \subseteq Seq(DOMAIN answer')
      BY <1>1, <1>2, <1>9, <2>1 DEF CallTypes
    <2> QED BY <1>1, <1>2, <2>2 DEF CallTypes
  <1>11. AsWritten'
    <2>1. /\ begins \in SUBSET DOMAIN answer'
          /\ Blocks(answer', DOMAIN answer', begins, "open", "close")
          /\ Lists(calls', CallsIn(answer', begins))
          /\ text = OutsideOf(answer', DOMAIN answer', begins, "close")
          /\ results \in SUBSET text /\ Blocks(answer', text, results, "ropen", "rclose")
          /\ Lists(content', OutsideOf(answer', text, results, "rclose"))
      BY <1>1, <1>3, <1>5, <1>8, <1>9
    <2>2. adapter' = "claude" /\ calls' # <<>>
      BY <1>1, <1>2
    <2> QED BY <2>1, <2>2 DEF AsWritten
  <1> QED BY <1>1, <1>10, <1>11 DEF CallIInv, ExtractBooks, StripBooks, TakenBooks

-----------------------------------------------------------------------------
(* The runner. *)

LEMMA JudgingKeeps ==
    ASSUME CallIInv, AdapterFails \/ Judge
    PROVE  CallIInv'
  <1>1. /\ adapter' = adapter
        /\ \/ Retries
           \/ Ends("failed")
           \/ callPc = "judging" /\ Ends("taken")
    BY DEF AdapterFails, Judge
  <1>2. adapter \in {"anthropic", "native", "xml", "claude"}
    BY DEF CallIInv, CallTypes
  <1>3. CASE Retries
    <2>1. /\ callPc' = "waiting" /\ answer' = <<>> /\ from' = 1 /\ content' = <<>>
          /\ kept' = <<>> /\ calls' = <<>>
      BY <1>3 DEF Retries, Fresh
    <2>2. Len(<<>>) = 0 /\ <<>> \in Seq(Tokens) /\ <<>> \in Seq(DOMAIN answer')
      OBVIOUS
    <2>3. CallTypes'
      BY <1>1, <1>2, <2>1, <2>2 DEF CallTypes, Tokens
    <2> QED BY <2>1, <2>3 DEF CallIInv, ExtractBooks, StripBooks, TakenBooks
  <1>4. CASE Ends("failed") \/ (callPc = "judging" /\ Ends("taken"))
    <2>1. /\ answer' = answer /\ from' = from /\ content' = content /\ kept' = kept
          /\ calls' = calls /\ callPc' \in {"failed", "taken"}
          /\ callPc' = "taken" => callPc = "judging"
      BY <1>4 DEF Ends
    <2>2. CallTypes'
      BY <1>1, <2>1 DEF CallIInv, CallTypes
    <2>3. callPc' = "taken" => AsWritten'
      BY <1>1, <2>1 DEF CallIInv, TakenBooks, AsWritten, Those
    <2> QED BY <2>1, <2>2, <2>3 DEF CallIInv, ExtractBooks, StripBooks, TakenBooks
  <1> QED BY <1>1, <1>3, <1>4

LEMMA CallStepIInv == CallIInv /\ [CallNext]_callVars => CallIInv'
  <1> SUFFICES ASSUME CallIInv, [CallNext]_callVars
               PROVE  CallIInv'
    OBVIOUS
  <1>1. CASE CallNext
    BY <1>1, ServiceAnswersKeeps, FailsKeeps, ReadNativesKeeps, ReadBlockKeeps, ReadRestKeeps,
       StripBlockKeeps, StripRestKeeps, JudgingKeeps
    DEF CallNext
  <1>2. CASE UNCHANGED callVars
    BY <1>2 DEF callVars, CallIInv, CallTypes, ExtractBooks, StripBooks, TakenBooks, AsWritten,
       Those, Extracted, Stripped
  <1> QED BY <1>1, <1>2

\* Whatever the adapter, the answer and the failures before it: what the runner takes has
\* every call that was written down correctly, in order and no other, and every text around
\* them.
THEOREM CallsAreAsWritten == CallSpec => []CallsAsWritten
  <1>1. CallIInv => CallsAsWritten
    BY DEF CallIInv, TakenBooks, CallsAsWritten
  <1> QED BY <1>1, CallInitIInv, CallStepIInv, PTL DEF CallSpec

-----------------------------------------------------------------------------
(* The whole: each part does its own steps or none. *)

LEMMA PartsBegin ==
    ASSUME Init
    PROVE  /\ CallInit /\ BridgeInit /\ FollowInit /\ InboxInit
           /\ FilesInit /\ RecordsInit /\ ChildInit
  BY DEF Init

LEMMA PartsStep ==
    ASSUME [Next]_vars
    PROVE  /\ [CallNext]_callVars /\ [BridgeNext]_bridgeVars /\ [FollowNext]_followVars
           /\ [InboxNext]_inboxVars /\ [FilesNext]_fileVars /\ [RecordsNext]_recordVars
           /\ [ChildNext]_childVars
  BY DEF vars, Next, Call, Mcp, Log, Signal, Files, Rows, Child

\* A behaviour of Periphery is a behaviour of each part that has an invariant of its own.
LEMMA PartsImplemented ==
    Spec => /\ CallSpec /\ BridgeSpec /\ FollowSpec /\ InboxSpec
            /\ FilesSpec /\ RecordsSpec /\ ChildSpec
  BY PartsBegin, PartsStep, PTL
     DEF Spec, CallSpec, BridgeSpec, FollowSpec, InboxSpec, FilesSpec, RecordsSpec, ChildSpec

\* So whatever part runs, seven properties of the run hold for every value of the constants:
\* the runner takes from an answer what was written in it, an answer of an MCP server is the
\* answer to its request, who follows a session misses nothing of it, a message of the owner
\* is accounted for, the last commit has what the file of knowledge has, the links between
\* concerns hold, and what a tool's program wrote is whole.
THEOREM PeripheryHolds ==
    Spec => [](/\ CallsAsWritten /\ AnswersAreOwn /\ FollowersMissNothing
               /\ MessagesAccountedFor /\ CommittedIsLatest /\ LinksHold /\ OutputIsWhole)
  BY PartsImplemented, CallsAreAsWritten, AnswersAreAlwaysOwn, NothingIsMissed,
     MessagesAlwaysAccountedFor, LatestIsCommitted, LinksAlwaysHold, OutputsAreWhole, PTL
=============================================================================
