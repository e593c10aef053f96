-------------------------- MODULE WorkbenchProofs ---------------------------
(***************************************************************************)
(* Theorems about what surrounds a simulator, for any number of flows,     *)
(* daemons, commands, calls, builds, saves, functions and viewers.  Each   *)
(* part has an inductive invariant of its own; the others leave its        *)
(* variables alone.                                                        *)
(***************************************************************************)
EXTENDS Workbench, SequenceFacts, SequenceTheorems, TLAPS

\* What the whole does to each part.
LEMMA WorkbenchParts ==
  /\ WorkbenchInit => /\ ExternalAuthInit /\ DaemonInit /\ CredentialsInit /\ McpInit
                      /\ RedeployInit /\ PagesInit
  /\ [WorkbenchNext]_workbenchVars =>
       /\ [ExternalAuthNext]_eaVars /\ [DaemonNext]_dmVars /\ [CredentialsNext]_crVars
       /\ [McpNext]_mcVars /\ [RedeployNext]_rdVars /\ [PagesNext]_pgVars
BY DEF WorkbenchInit, WorkbenchNext, UseFlows, UseDaemon, UseCredentials, UseMcp, UseRedeploy,
       UsePages, NotFlows, NotDaemon, NotCredentials, NotMcp, NotRedeploy, NotPages,
       workbenchVars

-----------------------------------------------------------------------------
(* Pages.  What a view shows is what was saved last as soon as no update   *)
(* is on its way, because what it is about to be told is so as well.       *)

IsCurrent(a) == a.to = "view context" => a.config = stored

PagesInv ==
  /\ updates \in Nat
  /\ updates = 0 /\ ~deaf =>
       /\ shown \in {NothingYet, stored}
       /\ \A a \in answers : IsCurrent(a)

LEMMA InitPages == PagesInit => PagesInv
BY DEF PagesInit, PagesInv

\* The server answers with the configuration of the moment, and a save sends an update or
\* finds the page deaf.
LEMMA ServerHandlesKeeps ==
  ASSUME PagesInv, NEW f \in Frames, ServerHandles(f)
  PROVE  PagesInv'
<1>. DEFINE r == Head(line[f])
            new == [to |-> r, config |-> stored]
<1>1. /\ shown' = shown /\ parent' = parent
      /\ IF r \in Contexts THEN ServeContext(r) ELSE ServeSave(r)
  BY DEF ServerHandles
<1>2. answers' = answers \/ answers' = answers \cup {new}
  BY <1>1 DEF ServeContext, ServeSave, Answer
<1>3. new.config = stored
  OBVIOUS
<1>. HIDE DEF r, new
<1>4. CASE r \in Contexts
  <2>1. UNCHANGED <<stored, updates, deaf>>
    BY <1>1, <1>4 DEF ServeContext
  <2>2. (\A a \in answers : IsCurrent(a)) => \A a \in answers' : IsCurrent(a)'
    BY <1>2, <1>3, <2>1 DEF IsCurrent
  <2>. QED
    BY <1>1, <2>1, <2>2 DEF PagesInv
<1>5. CASE r \notin Contexts
  <2>1. /\ updates' = IF parent = "open" THEN updates + 1 ELSE updates
        /\ deaf' <=> deaf \/ parent # "open"
    BY <1>1, <1>5, Zenon DEF ServeSave, ScopedTo
  <2>2. updates' \in Nat /\ ~(updates' = 0 /\ ~deaf')
    BY <2>1 DEF PagesInv
  <2>. QED
    BY <2>2 DEF PagesInv
<1>. QED
  BY <1>4, <1>5

LEMMA NextPages == PagesInv /\ [PagesNext]_pgVars => PagesInv'
<1>. SUFFICES ASSUME PagesInv, [PagesNext]_pgVars
              PROVE  PagesInv'
  OBVIOUS
<1>0. ASSUME UNCHANGED <<updates, deaf, shown, stored>>, answers' \subseteq answers
      PROVE  PagesInv'
  <2>1. \A a : IsCurrent(a)' <=> IsCurrent(a)
    BY <1>0 DEF IsCurrent
  <2>. QED
    BY <1>0, <2>1 DEF PagesInv
<1>1. ASSUME NEW r \in Requests, CallBridge(r) \/ CallTimesOut(r)
      PROVE  PagesInv'
  BY <1>0, <1>1 DEF CallBridge, CallTimesOut
<1>2. ASSUME NEW f \in Frames,
             SocketOpens(f) \/ ConnectFails(f) \/ ReconnectFires(f) \/ SocketDrops(f)
      PROVE  PagesInv'
  BY <1>0, <1>2 DEF SocketOpens, ConnectFails, ReconnectFires, SocketDrops
<1>3. ASSUME NEW a, PageReceives(a)
      PROVE  PagesInv'
  <2>1. /\ UNCHANGED <<updates, deaf, stored>> /\ answers' \subseteq answers /\ a \in answers
        /\ shown' \in {shown, a.config} /\ (shown' = shown \/ a.to = "view context")
    BY <1>3 DEF PageReceives
  <2>2. \A b : IsCurrent(b)' <=> IsCurrent(b)
    BY <2>1 DEF IsCurrent
  <2>3. IsCurrent(a) => shown' \in {shown, stored}
    BY <2>1 DEF IsCurrent
  <2>. QED
    BY <2>1, <2>2, <2>3 DEF PagesInv
<1>4. CASE ReloadView
  <2>1. updates' = updates - 1 /\ updates > 0 /\ shown' = NothingYet
    BY <1>4 DEF ReloadView
  <2>2. \A a \in answers' : IsCurrent(a)'
    BY <1>4 DEF ReloadView, FrameOf, IsCurrent
  <2>. QED
    BY <2>1, <2>2 DEF PagesInv
<1>5. CASE ParentOpens
  BY <1>0, <1>5 DEF ParentOpens
<1>6. CASE ParentLost
  <2>1. UNCHANGED <<shown, stored, answers>> /\ updates' = 0 /\ (deaf' <=> deaf \/ updates > 0)
    BY <1>6, Zenon DEF ParentLost
  <2>2. \A a : IsCurrent(a)' <=> IsCurrent(a)
    BY <2>1 DEF IsCurrent
  <2>. QED
    BY <2>1, <2>2 DEF PagesInv
<1>7. CASE UNCHANGED pgVars
  BY <1>0, <1>7 DEF pgVars
<1>. QED
  BY <1>1, <1>2, <1>3, <1>4, <1>5, <1>6, <1>7, ServerHandlesKeeps
     DEF PagesNext, AnswerArrives

\* Dev server and page: a view shows the configuration that was saved last, whatever is lost
\* or fails between the frames and the server, for any number of saves.
THEOREM ViewsFollowSaves == WorkbenchSpec => []ViewShowsSavedConfig
<1>1. WorkbenchInit => PagesInv
  BY InitPages, WorkbenchParts
<1>2. PagesInv /\ [WorkbenchNext]_workbenchVars => PagesInv'
  BY NextPages, WorkbenchParts
<1>3. PagesInv => ViewShowsSavedConfig
  BY DEF PagesInv, ViewShowsSavedConfig
<1>. QED
  BY <1>1, <1>2, <1>3, PTL DEF WorkbenchSpec

-----------------------------------------------------------------------------
(* MCP server.  An exit that is under way was caused by a build that is    *)
(* newer than the code, and stays newer: whatever the agent is told from   *)
(* there says so, unless the file is missing.  What has been warned about  *)
(* is the last build or an earlier one, and no fewer builds than warnings. *)

ServerRecord == [at: {"none", "loading", "up"}, code: Nat, loaded: Nat, warned: Nat,
                 exiting: BOOLEAN, app: BOOLEAN]
ToolRecord == [at: {"new", "running", "clean", "answered", "lost"}, name: Tools]

McpType ==
  /\ server \in ServerRecord /\ tool \in [ToolCalls -> ToolRecord]
  /\ distFile \in Nat /\ builds \in Nat /\ warnings \in Nat

Newer == server.loaded < 2 * builds /\ (distFile = NoDist \/ distFile > server.loaded + 1)

ExitIsCaused ==
  server.exiting => /\ server.at = "up" /\ autoRestart /\ server.loaded # NoDist /\ Newer
                    /\ believed => unmarked

AppIsUp ==
  /\ server.app => server.at = "up"
  /\ \A c \in ToolCalls : tool[c].at \in {"running", "clean"} => server.at = "up"

WarnedAbout ==
  server.at # "none" =>
    /\ 2 * warnings <= server.warned
    /\ \/ server.warned < 2 * builds \/ server.warned = distFile \/ server.warned = NoDist
       \/ distFile = NoDist /\ server.warned <= 2 * builds + 1

McpInv ==
  /\ McpType
  /\ distFile \in {NoDist, 2 * builds, 2 * builds + 1}
  /\ ExitIsCaused /\ AppIsUp /\ LossIsAnnounced
  /\ WarnedAbout /\ WarnsOncePerBuild

LEMMA NewServerFacts ==
  /\ NewServer \in ServerRecord
  /\ NewServer.at = "none" /\ ~NewServer.exiting /\ ~NewServer.app
  /\ NewServer.warned = NoDist
<1>1. NewServer \in ServerRecord
  BY DEF NewServer, ServerRecord, NoDist
<1>2. NewServer.at = "none" /\ NewServer.warned = NoDist
  BY DEF NewServer
<1>3. ~NewServer.exiting /\ ~NewServer.app
  BY Zenon DEF NewServer
<1>. QED
  BY <1>1, <1>2, <1>3

LEMMA InitMcp == McpInit => McpInv
<1>. SUFFICES ASSUME McpInit
              PROVE  McpInv
  OBVIOUS
<1>1. McpType /\ distFile \in {NoDist, 2 * builds, 2 * builds + 1}
  BY NewServerFacts DEF McpInit, McpType, ToolRecord, Tools, NoDist
<1>2. ExitIsCaused /\ AppIsUp /\ WarnedAbout
  BY NewServerFacts DEF McpInit, ExitIsCaused, AppIsUp, WarnedAbout
<1>3. LossIsAnnounced /\ WarnsOncePerBuild
  BY DEF McpInit, LossIsAnnounced, WarnsOncePerBuild
<1>. QED
  BY <1>1, <1>2, <1>3 DEF McpInv

\* A build is newer than what any process has loaded or warned about.
LEMMA BuildKeeps ==
  ASSUME McpInv, CleanDist \/ WriteDist
  PROVE  McpInv'
<1>. McpType
  BY DEF McpInv
<1>1. UNCHANGED <<server, autoRestart, tool, believed, unmarked, warnings>>
  BY DEF CleanDist, WriteDist
<1>2. server.loaded \in Nat /\ server.warned \in Nat
  BY DEF McpType, ServerRecord
<1>3. \/ distFile' = NoDist /\ builds' = builds
      \/ distFile' \in {2 * builds', 2 * builds' + 1} /\ builds' = builds + 1
  BY DEF CleanDist, WriteDist, McpType
<1>4. McpType' /\ distFile' \in {NoDist, 2 * builds', 2 * builds' + 1}
  BY <1>1, <1>3 DEF McpType, NoDist
<1>5. Newer => Newer'
  BY <1>1, <1>2, <1>3 DEF Newer, McpType
<1>6. ExitIsCaused' /\ AppIsUp' /\ LossIsAnnounced'
  BY <1>1, <1>5 DEF McpInv, ExitIsCaused, AppIsUp, LossIsAnnounced, ChangeRuns
<1>7. WarnedAbout'
  BY <1>1, <1>2, <1>3 DEF McpInv, WarnedAbout, McpType, NoDist
<1>8. WarnsOncePerBuild'
  BY <1>1, <1>3 DEF McpInv, WarnsOncePerBuild, McpType
<1>. QED
  BY <1>4, <1>6, <1>7, <1>8 DEF McpInv

\* A process starts without an app, and ends without one.
LEMMA ProcessKeeps ==
  ASSUME McpInv, StartServer \/ StatOwnFile
  PROVE  McpInv'
<1>. McpType
  BY DEF McpInv
<1>1. UNCHANGED <<distFile, builds, autoRestart, tool, believed, unmarked>>
  BY DEF StartServer, StatOwnFile
<1>2. /\ server' \in ServerRecord /\ ~server'.app /\ ~server'.exiting
      /\ server.at # "up" /\ warnings' \in Nat /\ warnings' <= builds
      /\ \/ server'.warned = server.warned /\ warnings' = warnings /\ server.at # "none"
         \/ server'.warned = NoDist /\ warnings' = 0
  <2>1. CASE StartServer
    <3>1. server' = [NewServer EXCEPT !.at = "loading", !.code = distFile] /\ warnings' = 0
          /\ server.at = "none"
      BY <2>1 DEF StartServer
    <3>2. server' = [at |-> "loading", code |-> distFile, loaded |-> NoDist, warned |-> NoDist,
                     exiting |-> FALSE, app |-> FALSE]
      BY <3>1 DEF NewServer
    <3>3. server' \in ServerRecord /\ server'.warned = NoDist
      BY <3>2 DEF ServerRecord, McpType, NoDist
    <3>4. ~server'.app /\ ~server'.exiting
      BY <3>2, Zenon
    <3>. QED
      BY <3>1, <3>3, <3>4 DEF McpType
  <2>2. CASE StatOwnFile
    <3>1. server' = [server EXCEPT !.at = "up", !.loaded = distFile] /\ warnings' = warnings
          /\ server.at = "loading"
      BY <2>2 DEF StatOwnFile
    <3>2. server' \in ServerRecord /\ server'.warned = server.warned
      BY <3>1 DEF ServerRecord, McpType
    <3>3. server'.app = server.app /\ server'.exiting = server.exiting
      BY <3>1, Zenon DEF ServerRecord, McpType
    <3>4. ~server.app /\ ~server.exiting
      BY <3>1 DEF McpInv, AppIsUp, ExitIsCaused
    <3>. QED
      BY <3>1, <3>2, <3>3, <3>4 DEF McpInv, WarnsOncePerBuild, McpType
  <2>. QED
    BY <2>1, <2>2
<1>3. ~server.app
  BY <1>2 DEF McpInv, AppIsUp
<1>4. McpType' /\ ExitIsCaused' /\ AppIsUp' /\ WarnsOncePerBuild'
  BY <1>1, <1>2 DEF McpInv, McpType, ExitIsCaused, AppIsUp, WarnsOncePerBuild
<1>5. LossIsAnnounced'
  BY <1>1, <1>3 DEF McpInv, LossIsAnnounced, ChangeRuns
<1>6. WarnedAbout'
  BY <1>1, <1>2 DEF McpInv, WarnedAbout, NoDist
<1>. QED
  BY <1>1, <1>4, <1>5, <1>6 DEF McpInv

LEMMA ExitKeeps ==
  ASSUME McpInv, ExitStale
  PROVE  McpInv'
<1>. McpType
  BY DEF McpInv
<1>1. /\ server.exiting /\ server' = NewServer
      /\ UNCHANGED <<distFile, builds, autoRestart, unmarked, warnings>>
      /\ believed' => believed
  BY Zenon DEF ExitStale, Gone
<1>2. /\ tool' \in [ToolCalls -> ToolRecord]
      /\ \A c \in ToolCalls : tool'[c].at \notin {"running", "clean"}
  BY DEF ExitStale, Gone, McpType, ToolRecord
<1>3. McpType'
  BY <1>1, <1>2, NewServerFacts DEF McpType
<1>4. believed => unmarked
  BY <1>1 DEF McpInv, ExitIsCaused
<1>5. LossIsAnnounced'
  BY <1>1, <1>4 DEF LossIsAnnounced
<1>6. ExitIsCaused' /\ AppIsUp' /\ WarnedAbout' /\ WarnsOncePerBuild'
  BY <1>1, <1>2, NewServerFacts
     DEF McpInv, ExitIsCaused, AppIsUp, WarnedAbout, WarnsOncePerBuild
<1>. QED
  BY <1>1, <1>3, <1>5, <1>6 DEF McpInv

\* A call begins; the reset of a deploy takes the app while the call still runs.
LEMMA CallKeeps ==
  ASSUME McpInv, NEW c \in ToolCalls, CallTool(c) \/ ResetSim(c)
  PROVE  McpInv'
<1>. McpType
  BY DEF McpInv
<1>1. UNCHANGED <<distFile, builds, autoRestart, believed, unmarked, warnings>>
  BY DEF CallTool, ResetSim
<1>2. tool' \in [ToolCalls -> ToolRecord]
  BY DEF CallTool, ResetSim, McpType, ToolRecord, Tools
<1>3. /\ server' \in ServerRecord /\ server'.at = server.at /\ server'.loaded = server.loaded
      /\ server'.warned = server.warned
  BY DEF CallTool, ResetSim, McpType, ServerRecord
<1>4. server'.exiting = server.exiting /\ (server'.app => server.app)
  <2>1. CASE CallTool(c)
    BY <2>1 DEF CallTool
  <2>2. CASE ResetSim(c)
    BY <2>2, Zenon DEF ResetSim, McpType, ServerRecord
  <2>. QED
    BY <2>1, <2>2
<1>5. ChangeRuns' \/ (server' = server /\ (ChangeRuns => ChangeRuns'))
  <2>1. CASE CallTool(c)
    <3>1. \A d \in ToolCalls \ {c} : tool'[d] = tool[d]
      BY <2>1 DEF CallTool, McpType
    <3>2. tool[c].at = "new" /\ server' = server
      BY <2>1 DEF CallTool
    <3>. QED
      BY <3>1, <3>2 DEF ChangeRuns
  <2>2. CASE ResetSim(c)
    <3>1. tool'[c].at = "clean" /\ tool'[c].name = tool[c].name /\ Changes(tool[c].name)
      BY <2>2 DEF ResetSim, McpType, ToolRecord
    <3>. QED
      BY <3>1 DEF ChangeRuns
  <2>. QED
    BY <2>1, <2>2
<1>6. McpType'
  BY <1>1, <1>2, <1>3 DEF McpType
<1>7. ExitIsCaused' /\ AppIsUp'
  <2>1. server.at = "up" /\ \A d \in ToolCalls \ {c} : tool'[d] = tool[d]
    BY DEF CallTool, ResetSim, McpInv, McpType, AppIsUp
  <2>. QED
    BY <1>1, <1>3, <1>4, <2>1 DEF McpInv, ExitIsCaused, AppIsUp, Newer
<1>8. LossIsAnnounced'
  BY <1>1, <1>4, <1>5 DEF McpInv, LossIsAnnounced
<1>9. WarnedAbout' /\ WarnsOncePerBuild'
  BY <1>1, <1>3 DEF McpInv, WarnedAbout, WarnsOncePerBuild
<1>. QED
  BY <1>1, <1>6, <1>7, <1>8, <1>9 DEF McpInv

\* An answer: the notice of an exit, a warning once per build, or neither.
LEMMA RespondKeeps ==
  ASSUME McpInv, NEW c \in ToolCalls, NEW deployed \in BOOLEAN, Respond(c, deployed),
         tool[c].at \in {"running", "clean"}, server.at = "up",
         ~Changes(tool[c].name) => tool[c].at = "running" /\ (deployed <=> server.app)
  PROVE  McpInv'
<1>. McpType
  BY DEF McpInv
<1>. DEFINE warn == ~Restarts /\ ShouldWarnNow(server.loaded, distFile, server.warned)
            warned == IF warn THEN distFile ELSE server.warned
<1>1. /\ server' = [server EXCEPT !.app = deployed, !.exiting = server.exiting \/ Restarts,
                                  !.warned = warned]
      /\ tool' = [tool EXCEPT ![c].at = "answered"]
      /\ warnings' = warnings + (IF warn THEN 1 ELSE 0)
      /\ UNCHANGED <<distFile, builds, autoRestart>>
  BY DEF Respond
<1>2. /\ believed' <=> ~Restarts /\ (IF Changes(tool[c].name) THEN deployed ELSE believed)
      /\ unmarked' <=> /\ believed'
                       /\ \/ unmarked /\ ~Changes(tool[c].name)
                          \/ server'.exiting /\ distFile = NoDist
  BY Zenon DEF Respond
<1>3. warned \in Nat /\ server.loaded \in Nat /\ server.warned \in Nat
  BY DEF McpType, ServerRecord
<1>4. /\ Restarts <=> autoRestart /\ server.loaded # NoDist /\ distFile > server.loaded + 1
      /\ warn => distFile # NoDist /\ distFile > server.loaded + 1 /\ server.warned # distFile
  BY DEF Restarts, IsStale, ShouldWarnNow
<1>5. /\ server'.at = "up" /\ server'.loaded = server.loaded /\ server'.warned = warned
      /\ server'.code = server.code /\ server.code \in Nat
  BY <1>1 DEF McpType, ServerRecord
<1>6. (server'.app <=> deployed) /\ (server'.exiting <=> server.exiting \/ Restarts)
  BY <1>1, Zenon DEF McpType, ServerRecord
<1>7. server' \in ServerRecord
  <2>. DEFINE exiting == server.exiting \/ Restarts
  <2>1. exiting \in BOOLEAN
    BY Zenon
  <2>. HIDE DEF exiting, warned, warn
  <2>2. server' = [server EXCEPT !.app = deployed, !.exiting = exiting, !.warned = warned]
    BY <1>1 DEF exiting
  <2>. QED
    BY <1>3, <2>1, <2>2, Zenon DEF McpType, ServerRecord
<1>8. tool' \in [ToolCalls -> ToolRecord]
  BY <1>1 DEF McpType, ToolRecord
<1>9. McpType'
  BY <1>1, <1>7, <1>8 DEF McpType
<1>10. ExitIsCaused' /\ AppIsUp'
  <2>1. AppIsUp'
    BY <1>5 DEF AppIsUp
  <2>2. server'.exiting => autoRestart /\ server.loaded # NoDist /\ Newer
    BY <1>3, <1>4, <1>6 DEF McpInv, ExitIsCaused, Newer, McpType, NoDist
  <2>3. Newer' <=> Newer
    BY <1>1, <1>5 DEF Newer
  <2>4. ASSUME server'.exiting, believed'
        PROVE  unmarked'
    <3>1. ~Restarts
      BY <1>2, <2>4
    <3>2. distFile = NoDist
      BY <1>4, <2>2, <2>4, <3>1 DEF Newer
    <3>. QED
      BY <1>2, <2>4, <3>2
  <2>. QED
    BY <1>1, <1>5, <2>1, <2>2, <2>3, <2>4 DEF ExitIsCaused
<1>11. LossIsAnnounced'
  <2>. SUFFICES ASSUME believed'
                PROVE  deployed \/ unmarked' \/ ChangeRuns'
    BY <1>6 DEF LossIsAnnounced
  <2>1. CASE Changes(tool[c].name)
    BY <1>2, <2>1
  <2>2. CASE ~Changes(tool[c].name)
    <3>1. believed /\ (unmarked => unmarked') /\ (deployed <=> server.app)
      BY <1>2, <2>2
    <3>2. ChangeRuns => ChangeRuns'
      <4>1. \A d \in ToolCalls \ {c} : tool'[d] = tool[d]
        BY <1>1 DEF McpType
      <4>. QED
        BY <2>2, <4>1 DEF ChangeRuns
    <3>. QED
      BY <3>1, <3>2 DEF McpInv, LossIsAnnounced
  <2>. QED
    BY <2>1, <2>2
<1>12. WarnedAbout' /\ WarnsOncePerBuild'
  <2>. 2 * warnings <= server.warned /\ warnings <= builds
    BY DEF McpInv, WarnedAbout, WarnsOncePerBuild
  <2>1. CASE ~warn
    <3>1. server'.warned = server.warned /\ warnings' = warnings
      BY <1>1, <1>5, <2>1 DEF McpType
    <3>. QED
      BY <1>1, <3>1 DEF McpInv, WarnedAbout, WarnsOncePerBuild
  <2>2. CASE warn
    <3>1. server'.warned = distFile /\ warnings' = warnings + 1 /\ UNCHANGED <<distFile, builds>>
      BY <1>1, <1>5, <2>2
    <3>2. distFile \in {2 * builds, 2 * builds + 1} /\ 2 * warnings < 2 * builds
      BY <1>3, <1>4, <2>2 DEF McpInv, WarnedAbout, McpType, NoDist
    <3>3. 2 * (warnings + 1) <= distFile /\ warnings + 1 <= builds
      BY <3>2 DEF McpType
    <3>. QED
      BY <3>1, <3>3 DEF WarnedAbout, WarnsOncePerBuild
  <2>. QED
    BY <2>1, <2>2
<1>. QED
  BY <1>1, <1>9, <1>10, <1>11, <1>12 DEF McpInv

LEMMA NextMcp == McpInv /\ [McpNext]_mcVars => McpInv'
<1>. SUFFICES ASSUME McpInv, [McpNext]_mcVars
              PROVE  McpInv'
  OBVIOUS
<1>1. ASSUME NEW c \in ToolCalls, AnswerDeploy(c) \/ AnswerReset(c) \/ AnswerInvoke(c)
      PROVE  McpInv'
  <2>1. CASE AnswerDeploy(c)
    <3>1. tool[c].at = "clean" /\ Changes(tool[c].name)
      BY <2>1 DEF AnswerDeploy, Changes
    <3>2. PICK works \in BOOLEAN : Respond(c, works)
      BY <2>1 DEF AnswerDeploy
    <3>. QED
      BY <3>1, <3>2, RespondKeeps DEF McpInv, AppIsUp
  <2>2. CASE AnswerReset(c)
    <3>1. tool[c].at = "clean" /\ Changes(tool[c].name)
      BY <2>2 DEF AnswerReset, Changes
    <3>2. Respond(c, FALSE)
      BY <2>2 DEF AnswerReset
    <3>. QED
      BY <3>1, <3>2, RespondKeeps DEF McpInv, AppIsUp
  <2>3. CASE AnswerInvoke(c)
    <3>1. tool[c].at = "running" /\ Respond(c, server.app)
      BY <2>3 DEF AnswerInvoke
    <3>2. server.app \in BOOLEAN
      BY Zenon DEF McpInv, McpType, ServerRecord
    <3>. QED
      BY <3>1, <3>2, RespondKeeps, Zenon DEF McpInv, AppIsUp
  <2>. QED
    BY <1>1, <2>1, <2>2, <2>3
<1>2. CASE UNCHANGED mcVars
  BY <1>2 DEF mcVars, McpInv, McpType, ExitIsCaused, Newer, AppIsUp, LossIsAnnounced, ChangeRuns,
              WarnedAbout, WarnsOncePerBuild
<1>. QED
  BY <1>1, <1>2, BuildKeeps, ProcessKeeps, ExitKeeps, CallKeeps DEF McpNext

\* MCP server: the agent that counts on its app has a process with it, or has been told, and
\* is warned once per build, in whatever order calls, builds and the exit come.
THEOREM ServerStaysCandid == WorkbenchSpec => []ServerIsCandid
<1>1. WorkbenchInit => McpInv
  BY InitMcp, WorkbenchParts
<1>2. McpInv /\ [WorkbenchNext]_workbenchVars => McpInv'
  BY NextMcp, WorkbenchParts
<1>3. McpInv => ServerIsCandid
  BY DEF McpInv, ServerIsCandid
<1>. QED
  BY <1>1, <1>2, <1>3, PTL DEF WorkbenchSpec

-----------------------------------------------------------------------------
(* Daemon.  Nothing was disturbed as long as no two commands overlapped    *)
(* and no daemon started or ended in the middle of one: then one daemon at *)
(* most is alive, and a command that has read the files holds its pid and  *)
(* its port as long as it is up.                                           *)

DaemonStages == {"unborn", "spawned", "listening", "signalled", "up", "ending", "ending port",
                 "closing", "exiting", "exiting port", "gone"}
ClientStages == {"new", "look", "pid", "port", "spawn", "starting", "request", "signal", "done",
                 "failed"}

DaemonRecord == [at: DaemonStages, announced: BOOLEAN, recent: BOOLEAN]
Named == Daemons \cup {NoDaemon}
ClientRecord == [at: ClientStages, pid: Named, port: Named, stop: BOOLEAN]

DaemonType ==
  /\ daemon \in [Daemons -> DaemonRecord]
  /\ client \in [Clients -> ClientRecord]
  /\ pidFile \in Named /\ portFile \in Named

OneCall == \A c, b \in Clients : InCall(c) /\ InCall(b) => c = b
OneAlive == \A d, e \in Daemons : Alive(d) /\ Alive(e) => d = e

FilesName(d) ==
  /\ daemon[d].at \in {"listening", "up"} => pidFile = d
  /\ daemon[d].at = "up" => portFile = d

Reading == {"look", "pid", "port"}

\* What a command knows of daemon d.
Knows(c, d) ==
  /\ client[c].at \in Reading => ~InTransit(d)
  /\ client[c].at \in {"pid", "port"} /\ daemon[d].at = "up" => client[c].pid = d
  /\ client[c].at = "port" /\ daemon[d].at = "up" => client[c].port = d
  /\ client[c].at = "spawn" => ~Alive(d)

Undisturbed ==
  /\ OneCall /\ OneAlive
  /\ \A d \in Daemons : FilesName(d)
  /\ \A c \in Clients, d \in Daemons : Knows(c, d)

DaemonInv == DaemonType /\ (~disturbed => Undisturbed)

LEMMA InitDaemon == DaemonInit => DaemonInv
<1>. SUFFICES ASSUME DaemonInit
              PROVE  DaemonInv
  OBVIOUS
<1>1. \A d \in Daemons : daemon[d].at = "unborn"
  BY DEF DaemonInit
<1>2. \A c \in Clients : client[c].at = "new"
  BY DEF DaemonInit
<1>3. DaemonType
  BY DEF DaemonInit, DaemonType, DaemonRecord, ClientRecord, Named, DaemonStages, ClientStages
<1>4. Undisturbed
  BY <1>1, <1>2 DEF Undisturbed, OneCall, OneAlive, FilesName, Knows, InCall, Alive, InTransit,
                    Reading
<1>. QED
  BY <1>3, <1>4 DEF DaemonInv

LEMMA DisturbedStays == ASSUME NEW P, DisturbedBy(P) PROVE ~disturbed' => ~disturbed /\ ~P
BY Zenon DEF DisturbedBy

\* A daemon that goes its way: the others are not alive, and either no command runs or none
\* is reading.
LEMMA DaemonMoves ==
  ASSUME DaemonInv, NEW d \in Daemons, Alive(d), DaemonType', client' = client,
         \A e \in Daemons \ {d} : daemon'[e] = daemon[e],
         ~disturbed' => /\ ~disturbed
                        /\ FilesName(d)'
                        /\ InTransit(d) \/ ~DuringACall \/ daemon'[d].at = daemon[d].at
  PROVE  DaemonInv'
<1>. SUFFICES ASSUME ~disturbed'
              PROVE  Undisturbed'
  BY DEF DaemonInv
<1>1. Undisturbed /\ ~disturbed
  BY DEF DaemonInv
<1>2. \A e \in Daemons \ {d} : ~Alive(e) /\ ~Alive(e)'
  BY <1>1 DEF Undisturbed, OneAlive, Alive
<1>3. OneCall' /\ OneAlive'
  BY <1>1, <1>2 DEF Undisturbed, OneCall, OneAlive, InCall
<1>4. \A e \in Daemons : FilesName(e)'
  BY <1>2 DEF FilesName, Alive
<1>5. ASSUME NEW c \in Clients, NEW e \in Daemons
      PROVE  Knows(c, e)'
  <2>1. CASE e # d
    BY <1>2, <2>1 DEF Knows, Alive, InTransit
  <2>2. CASE e = d /\ InTransit(d)
    <3>1. client[c].at \notin Reading \cup {"spawn"}
      BY <1>1, <2>2 DEF Undisturbed, Knows, InTransit, Alive
    <3>. QED
      BY <2>2, <3>1 DEF Knows, Reading
  <2>3. CASE e = d /\ ~DuringACall
    BY <2>3 DEF Knows, Reading, DuringACall, InCall
  <2>4. CASE e = d /\ daemon'[d].at = daemon[d].at
    BY <1>1, <2>4 DEF Undisturbed, Knows, Alive, InTransit
  <2>. QED
    BY <2>1, <2>2, <2>3, <2>4
<1>. QED
  BY <1>3, <1>4, <1>5 DEF Undisturbed

\* Records of a daemon after a step.
LEMMA DaemonRecords ==
  ASSUME DaemonType, NEW d \in Daemons, NEW now \in DaemonRecord,
         daemon' = [daemon EXCEPT ![d] = now], client' = client,
         pidFile' \in Named, portFile' \in Named
  PROVE  /\ DaemonType' /\ daemon'[d].at = now.at
         /\ \A e \in Daemons \ {d} : daemon'[e] = daemon[e]
BY DEF DaemonType

LEMMA MovedTo ==
  ASSUME DaemonType, NEW d \in Daemons, NEW stage \in DaemonStages,
         daemon' = [daemon EXCEPT ![d] = [daemon[d] EXCEPT !.at = stage]], client' = client,
         pidFile' \in Named, portFile' \in Named
  PROVE  /\ DaemonType' /\ daemon'[d].at = stage
         /\ \A e \in Daemons \ {d} : daemon'[e] = daemon[e]
<1>. DEFINE now == [daemon[d] EXCEPT !.at = stage]
<1>1. now \in DaemonRecord /\ now.at = stage
  BY DEF DaemonType, DaemonRecord
<1>. HIDE DEF now
<1>. QED
  BY <1>1, DaemonRecords DEF now

LEMMA WriteFilesKeeps ==
  ASSUME DaemonInv, NEW d \in Daemons, WritePid(d) \/ WritePort(d)
  PROVE  DaemonInv'
<1>. DaemonType
  BY DEF DaemonInv
<1>1. CASE WritePid(d)
  <2>1. /\ daemon' = [daemon EXCEPT ![d] = [daemon[d] EXCEPT !.at = "listening"]]
        /\ pidFile' = d /\ UNCHANGED <<portFile, client, disturbed>> /\ daemon[d].at = "spawned"
    BY <1>1 DEF WritePid, MoveDaemon, DaemonType
  <2>2. DaemonType' /\ daemon'[d].at = "listening"
        /\ \A e \in Daemons \ {d} : daemon'[e] = daemon[e]
    BY <2>1, MovedTo DEF DaemonStages, DaemonType, Named
  <2>3. FilesName(d)'
    BY <2>1, <2>2 DEF FilesName
  <2>. QED
    BY <2>1, <2>2, <2>3, DaemonMoves DEF Alive, InTransit
<1>2. CASE WritePort(d)
  <2>. DEFINE now == [at |-> IF daemon[d].at = "listening" THEN "up" ELSE "ending",
                      announced |-> TRUE, recent |-> TRUE]
  <2>1. /\ daemon' = [daemon EXCEPT ![d] = now] /\ portFile' = d
        /\ UNCHANGED <<pidFile, client, disturbed>>
        /\ daemon[d].at \in {"listening", "signalled"}
    BY <1>2 DEF WritePort
  <2>2. now \in DaemonRecord
    BY DEF DaemonRecord, DaemonStages
  <2>3. now.at = IF daemon[d].at = "listening" THEN "up" ELSE "ending"
    OBVIOUS
  <2>. HIDE DEF now
  <2>4. DaemonType' /\ daemon'[d].at = now.at /\ \A e \in Daemons \ {d} : daemon'[e] = daemon[e]
    BY <2>1, <2>2, DaemonRecords DEF DaemonType, Named
  <2>5. ~disturbed => FilesName(d)'
    BY <2>1, <2>3, <2>4 DEF DaemonInv, Undisturbed, FilesName
  <2>. QED
    BY <2>1, <2>4, <2>5, DaemonMoves DEF Alive, InTransit
<1>. QED
  BY <1>1, <1>2

LEMMA UpKeeps ==
  ASSUME DaemonInv, NEW d \in Daemons, HalfAnHour(d) \/ IdleShutdown(d) \/ Killed(d)
  PROVE  DaemonInv'
<1>. DaemonType
  BY DEF DaemonInv
<1>1. CASE HalfAnHour(d)
  <2>. DEFINE now == [daemon[d] EXCEPT !.recent = FALSE]
  <2>1. /\ daemon' = [daemon EXCEPT ![d] = now] /\ daemon[d].at = "up"
        /\ UNCHANGED <<pidFile, portFile, client, disturbed>>
    BY <1>1 DEF HalfAnHour
  <2>2. now \in DaemonRecord
    BY Zenon DEF DaemonType, DaemonRecord
  <2>3. now.at = "up"
    BY <2>1 DEF DaemonType, DaemonRecord
  <2>. HIDE DEF now
  <2>4. DaemonType' /\ daemon'[d].at = now.at /\ \A e \in Daemons \ {d} : daemon'[e] = daemon[e]
    BY <2>1, <2>2, DaemonRecords DEF DaemonType
  <2>5. ~disturbed => FilesName(d)'
    BY <2>1, <2>3, <2>4 DEF DaemonInv, Undisturbed, FilesName
  <2>. QED
    BY <2>1, <2>3, <2>4, <2>5, DaemonMoves DEF Alive
<1>2. CASE IdleShutdown(d) \/ Killed(d)
  <2>1. PICK stage \in {"ending", "gone"} :
          /\ daemon' = [daemon EXCEPT ![d] = [daemon[d] EXCEPT !.at = stage]]
          /\ UNCHANGED <<pidFile, portFile, client>> /\ Alive(d) /\ DisturbedBy(DuringACall)
    BY <1>2 DEF IdleShutdown, Killed, MoveDaemon, Alive, DaemonType
  <2>2. ~disturbed' => ~disturbed /\ ~DuringACall
    BY <2>1, DisturbedStays
  <2>3. DaemonType' /\ daemon'[d].at = stage /\ \A e \in Daemons \ {d} : daemon'[e] = daemon[e]
    BY <2>1, MovedTo DEF DaemonStages, DaemonType
  <2>4. FilesName(d)'
    BY <2>3 DEF FilesName
  <2>. QED
    BY <2>1, <2>2, <2>3, <2>4, DaemonMoves
<1>. QED
  BY <1>1, <1>2

LEMMA EndingKeeps ==
  ASSUME DaemonInv, NEW d \in Daemons, UnlinkPid(d) \/ UnlinkPort(d) \/ Exit(d)
  PROVE  DaemonInv'
<1>. DaemonType
  BY DEF DaemonInv
<1>1. PICK stage \in {"ending port", "exiting port", "closing", "gone", "exiting"} :
        /\ daemon' = [daemon EXCEPT ![d] = [daemon[d] EXCEPT !.at = stage]]
        /\ pidFile' \in {pidFile, NoDaemon} /\ portFile' \in {portFile, NoDaemon}
        /\ UNCHANGED <<client, disturbed>> /\ Alive(d) /\ InTransit(d)
  BY DEF UnlinkPid, UnlinkPort, Exit, MoveDaemon, Alive, InTransit, DaemonType
<1>2. DaemonType' /\ daemon'[d].at = stage /\ \A e \in Daemons \ {d} : daemon'[e] = daemon[e]
  BY <1>1, MovedTo DEF DaemonStages, DaemonType, Named
<1>3. FilesName(d)'
  BY <1>2 DEF FilesName
<1>. QED
  BY <1>1, <1>2, <1>3, DaemonMoves

\* A command that goes its way: no other one runs, or has been running, undisturbed.
LEMMA CallMoves ==
  ASSUME DaemonInv, NEW c \in Clients, DaemonType',
         \A b \in Clients \ {c} : client'[b] = client[b],
         ~disturbed' => /\ ~disturbed /\ OneAlive'
                        /\ \A b \in Clients \ {c} : ~InCall(b)
                        /\ \A d \in Daemons : FilesName(d)' /\ Knows(c, d)'
  PROVE  DaemonInv'
<1>. SUFFICES ASSUME ~disturbed'
              PROVE  Undisturbed'
  BY DEF DaemonInv
<1>1. \A b \in Clients \ {c} : ~InCall(b)'
  BY DEF InCall
<1>2. OneCall'
  BY <1>1 DEF OneCall
<1>3. \A b \in Clients, d \in Daemons : Knows(b, d)'
  BY <1>1 DEF InCall, Knows, Reading
<1>. QED
  BY <1>2, <1>3 DEF Undisturbed

\* While one command runs undisturbed, it is the only one.
LEMMA OnlyCall ==
  ASSUME Undisturbed, NEW c \in Clients, InCall(c)
  PROVE  \A b \in Clients \ {c} : ~InCall(b)
BY DEF Undisturbed, OneCall

LEMMA CallStage ==
  ASSUME DaemonType, NEW c \in Clients, NEW stage \in ClientStages, MoveClient(c, stage)
  PROVE  /\ client' \in [Clients -> ClientRecord]
         /\ client'[c].at = stage
         /\ client'[c].pid = client[c].pid /\ client'[c].port = client[c].port
         /\ \A b \in Clients \ {c} : client'[b] = client[b]
<1>1. client' = [client EXCEPT ![c].at = stage]
  BY DEF MoveClient
<1>2. client' \in [Clients -> ClientRecord]
  BY <1>1, Zenon DEF DaemonType, ClientRecord
<1>3. /\ client'[c].at = stage
      /\ client'[c].pid = client[c].pid /\ client'[c].port = client[c].port
      /\ \A b \in Clients \ {c} : client'[b] = client[b]
  BY <1>1 DEF DaemonType, ClientRecord
<1>. QED
  BY <1>2, <1>3

\* The files are read: what they name is the daemon that is up.
LEMMA LookKeeps ==
  ASSUME DaemonInv, NEW c \in Clients, LookForFiles(c)
  PROVE  DaemonInv'
<1>. DaemonType
  BY DEF DaemonInv
<1>1. PICK stop \in BOOLEAN, stage \in {"done", "spawn", "look"} :
        /\ client' = [client EXCEPT ![c].stop = stop, ![c].at = stage]
        /\ stage = "spawn" => NoDaemon \in {pidFile, portFile}
  BY Zenon DEF LookForFiles, WithoutDaemon
<1>2. client' \in [Clients -> ClientRecord]
  <2>1. stage \in ClientStages
    BY DEF ClientStages
  <2>. QED
    BY <1>1, <2>1, Zenon DEF DaemonType, ClientRecord
<1>3. client'[c].at = stage /\ \A b \in Clients \ {c} : client'[b] = client[b]
  BY <1>1, Zenon DEF DaemonType, ClientRecord
<1>4. UNCHANGED <<daemon, pidFile, portFile>>
      /\ DisturbedBy(DuringACall \/ \E d \in Daemons : InTransit(d))
  BY DEF LookForFiles
<1>5. DaemonType'
  BY <1>2, <1>4 DEF DaemonType
<1>6. ASSUME ~disturbed'
      PROVE  /\ ~disturbed /\ OneAlive'
             /\ \A b \in Clients \ {c} : ~InCall(b)
             /\ \A d \in Daemons : FilesName(d)' /\ Knows(c, d)'
  <2>1. ~disturbed /\ ~DuringACall /\ \A d \in Daemons : ~InTransit(d)
    BY <1>4, <1>6, Zenon DEF DisturbedBy
  <2>2. Undisturbed
    BY <2>1 DEF DaemonInv
  <2>3. \A d \in Daemons : Alive(d) => daemon[d].at = "up" /\ pidFile = d /\ portFile = d
    BY <2>1, <2>2 DEF Undisturbed, FilesName, Alive, InTransit
  <2>4. \A d \in Daemons : stage = "spawn" => ~Alive(d)
    BY <1>1, <2>3, DaemonAssumption
  <2>5. \A d \in Daemons : Knows(c, d)'
    BY <1>3, <1>4, <2>1, <2>4 DEF Knows, Reading, InTransit, Alive
  <2>. QED
    BY <1>4, <2>1, <2>2, <2>5 DEF Undisturbed, OneAlive, FilesName, Alive, DuringACall
<1>. QED
  BY <1>3, <1>5, <1>6, CallMoves

LEMMA ReadKeeps ==
  ASSUME DaemonInv, NEW c \in Clients, ReadPidFile(c) \/ ReadPortFile(c)
  PROVE  DaemonInv'
<1>. DaemonType
  BY DEF DaemonInv
<1>1. PICK stage \in {"failed", "pid", "port"} :
        \/ /\ client' = [client EXCEPT ![c].at = stage, ![c].pid = pidFile]
           /\ client[c].at = "look" /\ stage # "port"
        \/ /\ client' = [client EXCEPT ![c].at = stage, ![c].port = portFile]
           /\ client[c].at = "pid" /\ stage # "pid"
  BY DEF ReadPidFile, ReadPortFile
<1>2. stage \in ClientStages /\ pidFile \in Named /\ portFile \in Named
  BY DEF ClientStages, DaemonType
<1>3. ASSUME client' = [client EXCEPT ![c].at = stage, ![c].pid = pidFile]
      PROVE  /\ client' \in [Clients -> ClientRecord]
             /\ client'[c].at = stage /\ client'[c].pid = pidFile
             /\ \A b \in Clients \ {c} : client'[b] = client[b]
  BY <1>2, <1>3, Zenon DEF DaemonType, ClientRecord
<1>4. ASSUME client' = [client EXCEPT ![c].at = stage, ![c].port = portFile]
      PROVE  /\ client' \in [Clients -> ClientRecord]
             /\ client'[c].at = stage /\ client'[c].port = portFile
             /\ client'[c].pid = client[c].pid
             /\ \A b \in Clients \ {c} : client'[b] = client[b]
  <2>1. client' \in [Clients -> ClientRecord]
    BY <1>2, <1>4, Zenon DEF DaemonType, ClientRecord
  <2>2. /\ client'[c].at = stage /\ client'[c].port = portFile
        /\ \A b \in Clients \ {c} : client'[b] = client[b]
    BY <1>4, Zenon DEF DaemonType, ClientRecord
  <2>3. client'[c].pid = client[c].pid
    BY <1>4, Zenon DEF DaemonType, ClientRecord
  <2>. QED
    BY <2>1, <2>2, <2>3
<1>5. UNCHANGED <<daemon, pidFile, portFile, disturbed>>
  BY DEF ReadPidFile, ReadPortFile
<1>6. DaemonType'
  BY <1>1, <1>3, <1>4, <1>5 DEF DaemonType
<1>7. ASSUME ~disturbed'
      PROVE  /\ ~disturbed /\ OneAlive'
             /\ \A b \in Clients \ {c} : ~InCall(b)
             /\ \A d \in Daemons : FilesName(d)' /\ Knows(c, d)'
  <2>1. Undisturbed
    BY <1>5, <1>7 DEF DaemonInv
  <2>2. \A b \in Clients \ {c} : ~InCall(b)
    BY <1>1, <2>1, OnlyCall DEF InCall
  <2>3. ASSUME NEW d \in Daemons
        PROVE  Knows(c, d)'
    <3>1. FilesName(d) /\ Knows(c, d)
      BY <2>1 DEF Undisturbed
    <3>. QED
      BY <1>1, <1>3, <1>4, <1>5, <3>1 DEF Knows, FilesName, Reading, InTransit, Alive
  <2>. QED
    BY <1>5, <1>7, <2>1, <2>2, <2>3 DEF Undisturbed, OneAlive, FilesName, Alive
<1>8. \A b \in Clients \ {c} : client'[b] = client[b]
  BY <1>1, <1>3, <1>4
<1>. QED
  BY <1>6, <1>7, <1>8, CallMoves

\* A command that holds a dead pid, or a port that is not up, knows that none is alive.
LEMMA NoneAlive ==
  ASSUME Undisturbed, NEW c \in Clients, client[c].at = "port",
         ~Alive(client[c].pid) \/ ~Answers(c)
  PROVE  \A d \in Daemons : ~Alive(d)
<1>. SUFFICES ASSUME NEW d \in Daemons, Alive(d)
              PROVE  FALSE
  OBVIOUS
<1>1. Knows(c, d)
  BY DEF Undisturbed
<1>2. daemon[d].at = "up"
  BY <1>1 DEF Knows, Reading, InTransit, Alive
<1>. QED
  BY <1>1, <1>2 DEF Knows, Answers

\* The files are removed where nothing answers.
LEMMA FindNothingKeeps ==
  ASSUME DaemonInv, NEW c \in Clients, FindDead(c) \/ FindUnresponsive(c)
  PROVE  DaemonInv'
<1>. DaemonType
  BY DEF DaemonInv
<1>1. PICK stage \in {"done", "spawn", "signal"} : MoveClient(c, stage)
  BY DEF FindDead, FindUnresponsive, WithoutDaemon
<1>2. /\ client[c].at = "port" /\ daemon' = daemon
      /\ pidFile' \in {pidFile, NoDaemon} /\ portFile' \in {portFile, NoDaemon}
  BY DEF FindDead, FindUnresponsive
<1>3. /\ client' \in [Clients -> ClientRecord] /\ client'[c].at = stage
      /\ \A b \in Clients \ {c} : client'[b] = client[b]
  BY <1>1, CallStage DEF ClientStages
<1>4. DaemonType'
  BY <1>2, <1>3 DEF DaemonType, Named
<1>5. ASSUME ~disturbed'
      PROVE  /\ ~disturbed /\ OneAlive'
             /\ \A b \in Clients \ {c} : ~InCall(b)
             /\ \A d \in Daemons : FilesName(d)' /\ Knows(c, d)'
  <2>1. ~disturbed /\ (~Alive(client[c].pid) \/ ~Answers(c))
    <3>1. CASE FindDead(c)
      BY <1>5, <3>1 DEF FindDead
    <3>2. CASE FindUnresponsive(c)
      BY <1>5, <3>2, DisturbedStays DEF FindUnresponsive
    <3>. QED
      BY <3>1, <3>2
  <2>2. Undisturbed
    BY <2>1 DEF DaemonInv
  <2>3. \A d \in Daemons : ~Alive(d)
    BY <1>2, <2>1, <2>2, NoneAlive
  <2>4. \A b \in Clients \ {c} : ~InCall(b)
    BY <1>2, <2>2, OnlyCall DEF InCall
  <2>. QED
    BY <1>2, <1>3, <2>1, <2>3, <2>4 DEF OneAlive, FilesName, Knows, Reading, Alive
<1>. QED
  BY <1>3, <1>4, <1>5, CallMoves

\* A request or a health check is activity of the daemon, and nothing else.
LEMMA Touched ==
  ASSUME DaemonType, NEW p \in Named, daemon' = [daemon EXCEPT ![p].recent = TRUE]
  PROVE  /\ daemon' \in [Daemons -> DaemonRecord]
         /\ \A d \in Daemons : daemon'[d].at = daemon[d].at
<1>1. CASE p \in Daemons
  <2>. DEFINE now == [daemon[p] EXCEPT !.recent = TRUE]
  <2>1. daemon' = [daemon EXCEPT ![p] = now]
    OBVIOUS
  <2>2. now \in DaemonRecord
    BY <1>1, Zenon DEF DaemonType, DaemonRecord
  <2>3. now.at = daemon[p].at
    BY <1>1 DEF DaemonType, DaemonRecord
  <2>. HIDE DEF now
  <2>. QED
    BY <1>1, <2>1, <2>2, <2>3 DEF DaemonType
<1>2. CASE p \notin Daemons
  BY <1>2 DEF DaemonType
<1>. QED
  BY <1>1, <1>2

\* A command goes on past the files, and the daemons stay where they are or end.
LEMMA GoesOnKeeps ==
  ASSUME DaemonInv, NEW c \in Clients, NEW stage \in ClientStages \ (Reading \cup {"spawn"}),
         InCall(c), MoveClient(c, stage), UNCHANGED <<pidFile, portFile, disturbed>>,
         daemon' \in [Daemons -> DaemonRecord],
         \A d \in Daemons : \/ daemon'[d].at = daemon[d].at
                            \/ Alive(d) /\ daemon'[d].at \notin {"listening", "up"}
  PROVE  DaemonInv'
<1>. DaemonType
  BY DEF DaemonInv
<1>1. /\ client' \in [Clients -> ClientRecord] /\ client'[c].at = stage
      /\ \A b \in Clients \ {c} : client'[b] = client[b]
  BY CallStage
<1>2. DaemonType'
  BY <1>1 DEF DaemonType
<1>3. ASSUME ~disturbed'
      PROVE  /\ ~disturbed /\ OneAlive'
             /\ \A b \in Clients \ {c} : ~InCall(b)
             /\ \A d \in Daemons : FilesName(d)' /\ Knows(c, d)'
  <2>1. Undisturbed
    BY <1>3 DEF DaemonInv
  <2>2. \A b \in Clients \ {c} : ~InCall(b)
    BY <2>1, OnlyCall
  <2>3. \A d \in Daemons : Alive(d)' => Alive(d)
    BY DEF Alive
  <2>4. \A d \in Daemons : FilesName(d)' /\ Knows(c, d)'
    BY <1>1, <2>1 DEF Undisturbed, FilesName, Knows, Reading
  <2>. QED
    BY <1>3, <2>1, <2>2, <2>3, <2>4 DEF Undisturbed, OneAlive
<1>. QED
  BY <1>1, <1>2, <1>3, CallMoves

LEMMA TerminatedMoves ==
  ASSUME DaemonType, NEW p \in Named, daemon' = Terminated(p)
  PROVE  /\ daemon' \in [Daemons -> DaemonRecord]
         /\ \A d \in Daemons : \/ daemon'[d].at = daemon[d].at
                               \/ Alive(d) /\ daemon'[d].at \notin {"listening", "up"}
<1>1. CASE daemon' = daemon \/ p \notin Daemons
  BY <1>1, Zenon DEF Terminated, DaemonType
<1>2. CASE daemon' # daemon /\ p \in Daemons
  <2>1. PICK stage \in {"ending", "signalled"} :
          daemon' = [daemon EXCEPT ![p] = [daemon[p] EXCEPT !.at = stage]] /\ Alive(p)
    BY <1>2 DEF Terminated, Alive, DaemonType
  <2>. DEFINE now == [daemon[p] EXCEPT !.at = stage]
  <2>2. now \in DaemonRecord /\ now.at = stage
    BY <1>2 DEF DaemonType, DaemonRecord, DaemonStages
  <2>3. daemon' = [daemon EXCEPT ![p] = now]
    BY <2>1
  <2>. HIDE DEF now
  <2>. QED
    BY <1>2, <2>1, <2>2, <2>3 DEF DaemonType
<1>. QED
  BY <1>1, <1>2

LEMMA CallGoesOnKeeps ==
  ASSUME DaemonInv, NEW c \in Clients,
         \/ FindRunning(c) \/ ChildStarted(c) \/ ChildExited(c) \/ StartupTimedOut(c)
         \/ SignalDaemon(c) \/ Request(c) \/ Interrupted(c)
  PROVE  DaemonInv'
<1>. DaemonType
  BY DEF DaemonInv
<1>1. PICK stage \in {"signal", "request", "failed", "done"} : MoveClient(c, stage)
  BY DEF FindRunning, ChildStarted, ChildExited, StartupTimedOut, SignalDaemon, Request,
         Interrupted
<1>2. InCall(c) /\ UNCHANGED <<pidFile, portFile, disturbed>>
  BY DEF FindRunning, ChildStarted, ChildExited, StartupTimedOut, SignalDaemon, Request,
         Interrupted, InCall
<1>3. \/ UNCHANGED daemon
      \/ daemon' = [daemon EXCEPT ![client[c].port].recent = TRUE]
      \/ daemon' = Terminated(client[c].pid)
  BY DEF FindRunning, ChildStarted, ChildExited, StartupTimedOut, SignalDaemon, Request,
         Interrupted
<1>4. client[c].port \in Named /\ client[c].pid \in Named
  BY DEF DaemonType, ClientRecord
<1>5. /\ daemon' \in [Daemons -> DaemonRecord]
      /\ \A d \in Daemons : \/ daemon'[d].at = daemon[d].at
                            \/ Alive(d) /\ daemon'[d].at \notin {"listening", "up"}
  <2>1. CASE UNCHANGED daemon
    BY <2>1 DEF DaemonType
  <2>. QED
    BY <1>3, <1>4, <2>1, Touched, TerminatedMoves
<1>. QED
  BY <1>1, <1>2, <1>5, GoesOnKeeps DEF ClientStages, Reading

\* Spawned when none is alive.
LEMMA SpawnKeeps ==
  ASSUME DaemonInv, NEW c \in Clients, Spawn(c)
  PROVE  DaemonInv'
<1>. DaemonType
  BY DEF DaemonInv
<1>1. PICK d \in Daemons :
        /\ MoveDaemon(d, "spawned")
        /\ client' = [client EXCEPT ![c].at = "starting", ![c].pid = d, ![c].port = d]
  BY DEF Spawn
<1>2. client[c].at = "spawn" /\ UNCHANGED <<pidFile, portFile, disturbed>>
  BY DEF Spawn
<1>3. /\ daemon' \in [Daemons -> DaemonRecord] /\ daemon'[d].at = "spawned"
      /\ \A e \in Daemons \ {d} : daemon'[e] = daemon[e]
  <2>. DEFINE now == [daemon[d] EXCEPT !.at = "spawned"]
  <2>1. now \in DaemonRecord /\ now.at = "spawned"
    BY DEF DaemonType, DaemonRecord, DaemonStages
  <2>2. daemon' = [daemon EXCEPT ![d] = now]
    BY <1>1 DEF MoveDaemon
  <2>. HIDE DEF now
  <2>. QED
    BY <2>1, <2>2 DEF DaemonType
<1>4. client' \in [Clients -> ClientRecord]
  <2>1. d \in Named /\ "starting" \in ClientStages
    BY DEF Named, ClientStages
  <2>. QED
    BY <1>1, <2>1, Zenon DEF DaemonType, ClientRecord
<1>5. client'[c].at = "starting" /\ \A b \in Clients \ {c} : client'[b] = client[b]
  BY <1>1, Zenon DEF DaemonType, ClientRecord
<1>6. DaemonType'
  BY <1>2, <1>3, <1>4 DEF DaemonType
<1>7. ASSUME ~disturbed'
      PROVE  /\ ~disturbed /\ OneAlive'
             /\ \A b \in Clients \ {c} : ~InCall(b)
             /\ \A e \in Daemons : FilesName(e)' /\ Knows(c, e)'
  <2>1. Undisturbed
    BY <1>2, <1>7 DEF DaemonInv
  <2>2. \A e \in Daemons \ {d} : ~Alive(e) /\ ~Alive(e)'
    BY <1>2, <1>3, <2>1 DEF Undisturbed, Knows, Alive
  <2>3. \A b \in Clients \ {c} : ~InCall(b)
    BY <1>2, <2>1, OnlyCall DEF InCall
  <2>4. \A e \in Daemons : FilesName(e)' /\ Knows(c, e)'
    BY <1>3, <1>5, <2>2 DEF FilesName, Knows, Reading, Alive
  <2>. QED
    BY <1>2, <1>7, <2>2, <2>3, <2>4 DEF OneAlive
<1>. QED
  BY <1>5, <1>6, <1>7, CallMoves

LEMMA NextDaemon == DaemonInv /\ [DaemonNext]_dmVars => DaemonInv'
<1>. SUFFICES ASSUME DaemonInv, [DaemonNext]_dmVars
              PROVE  DaemonInv'
  OBVIOUS
<1>1. ASSUME NEW d \in Daemons, WritePid(d) \/ DaemonProceeds(d) \/ Killed(d)
      PROVE  DaemonInv'
  BY <1>1, WriteFilesKeeps, UpKeeps, EndingKeeps DEF DaemonProceeds
<1>2. ASSUME NEW c \in Clients, LookForFiles(c) \/ ClientProceeds(c) \/ Interrupted(c)
      PROVE  DaemonInv'
  BY <1>2, LookKeeps, ReadKeeps, FindNothingKeeps, CallGoesOnKeeps, SpawnKeeps
     DEF ClientProceeds
<1>3. CASE UNCHANGED dmVars
  BY <1>3 DEF dmVars, DaemonInv, DaemonType, Undisturbed, OneCall, OneAlive, FilesName, Knows,
              InCall, InTransit, Alive
<1>. QED
  BY <1>1, <1>2, <1>3 DEF DaemonNext

\* Daemon: as long as no commands overlap, no health check is slow and no daemon starts or
\* ends in the middle of a command, the daemon that is up is the one the two files name,
\* for any number of commands and daemons.
THEOREM DaemonIsFoundAgain == WorkbenchSpec => []FoundAgain
<1>1. WorkbenchInit => DaemonInv
  BY InitDaemon, WorkbenchParts
<1>2. DaemonInv /\ [WorkbenchNext]_workbenchVars => DaemonInv'
  BY NextDaemon, WorkbenchParts
<1>3. DaemonInv => FoundAgain
  BY DEF DaemonInv, FoundAgain, Undisturbed, FilesName
<1>. QED
  BY <1>1, <1>2, <1>3, PTL DEF WorkbenchSpec

\* Daemon: as long as nothing was disturbed, one daemon at most is alive.
THEOREM OneDaemonAtATime == WorkbenchSpec => [](~disturbed => OneAlive)
<1>1. WorkbenchInit => DaemonInv
  BY InitDaemon, WorkbenchParts
<1>2. DaemonInv /\ [WorkbenchNext]_workbenchVars => DaemonInv'
  BY NextDaemon, WorkbenchParts
<1>3. DaemonInv => (~disturbed => OneAlive)
  BY DEF DaemonInv, Undisturbed
<1>. QED
  BY <1>1, <1>2, <1>3, PTL DEF WorkbenchSpec

-----------------------------------------------------------------------------
(* External auth.  A return brings the code of the flow whose state it     *)
(* names, and what an exchange leaves to a flow is a return of its own     *)
(* whose code was accepted: such a return never changes again.             *)

FlowRecord == [at: {"new", "waiting", "returned"},
               settled: {"no", "cancelled", "timeout", "denied", "failed", "resolved"}]
ReturnRecord == [at: {"new", "exchanging", "granted", "refused", "saving", "done"},
                 flow: Flows \cup {Nothing}, code: Flows \cup {Nothing}]
MaybeReturn == Returns \cup {Nothing}

FlowType ==
  /\ flow \in [Flows -> FlowRecord] /\ return \in [Returns -> ReturnRecord]
  /\ pending \subseteq Flows /\ redeemed \subseteq Flows
  /\ exchanged \in [Flows -> MaybeReturn] /\ result \in [Flows -> MaybeReturn]

\* The token of return k is flow f's own.
Own(f, k) == k \in Returns /\ return[k].at # "new" /\ return[k].code = f /\ f \in redeemed

FlowHolds(f) ==
  /\ f \in pending => flow[f].at = "waiting" /\ flow[f].settled = "no"
  /\ flow[f].at = "new" => flow[f].settled = "no"
  /\ flow[f].settled = "resolved" => Own(f, exchanged[f])
  /\ flow[f].at = "returned" /\ flow[f].settled = "resolved" /\ f \notin FromTools =>
       Own(f, result[f])

Exchanging == {"exchanging", "granted", "refused", "saving"}

ReturnHolds(k) ==
  return[k].at # "new" =>
    LET f == return[k].flow IN
    /\ f \in Flows /\ return[k].code = f /\ flow[f].at # "new"
    /\ return[k].at \in Exchanging => flow[f].at = "waiting" \/ flow[f].settled # "no"
    /\ return[k].at \in {"granted", "saving"} => f \in redeemed
    /\ return[k].at = "saving" => Own(f, exchanged[f])

FlowInv ==
  /\ FlowType
  /\ \A f \in Flows : FlowHolds(f)
  /\ \A k \in Returns : ReturnHolds(k)

LEMMA InitFlows == ExternalAuthInit => FlowInv
<1>. SUFFICES ASSUME ExternalAuthInit
              PROVE  FlowInv
  OBVIOUS
<1>1. FlowType
  BY DEF ExternalAuthInit, FlowType, FlowRecord, ReturnRecord, MaybeReturn
<1>2. \A f \in Flows : FlowHolds(f)
  BY DEF ExternalAuthInit, FlowHolds
<1>3. \A k \in Returns : ReturnHolds(k)
  BY DEF ExternalAuthInit, ReturnHolds
<1>. QED
  BY <1>1, <1>2, <1>3 DEF FlowInv

\* No return that has come is forgotten, and no code is taken back.
ReturnsStay ==
  /\ redeemed \subseteq redeemed'
  /\ \A k \in Returns : return[k].at # "new" =>
       /\ return'[k].at # "new"
       /\ return'[k].code = return[k].code /\ return'[k].flow = return[k].flow

\* What the flows' progress leaves true of the returns.
LEMMA ReturnStays ==
  ASSUME FlowInv, ReturnsStay, NEW k \in Returns,
         return'[k].at = return[k].at \/ return'[k].at = "done",
         return[k].at # "new",
         \A f \in Flows : /\ flow[f].at # "new" => flow'[f].at # "new"
                          /\ flow[f].at = "waiting" \/ flow[f].settled # "no" =>
                               flow'[f].at = "waiting" \/ flow'[f].settled # "no"
                          /\ exchanged'[f] = exchanged[f] \/ Own(f, exchanged[f])'
  PROVE  ReturnHolds(k)'
<1>. DEFINE f == return[k].flow
<1>1. f \in Flows /\ return[k].code = f /\ flow[f].at # "new"
  BY DEF FlowInv, ReturnHolds
<1>2. return'[k].flow = f /\ return'[k].code = f /\ flow'[f].at # "new"
  BY <1>1 DEF ReturnsStay
<1>3. return'[k].at \in Exchanging => flow'[f].at = "waiting" \/ flow'[f].settled # "no"
  BY <1>1 DEF FlowInv, ReturnHolds, Exchanging
<1>4. return'[k].at \in {"granted", "saving"} => f \in redeemed'
  BY DEF FlowInv, ReturnHolds, ReturnsStay
<1>5. return'[k].at = "saving" => Own(f, exchanged[f])'
  BY <1>1 DEF FlowInv, ReturnHolds, ReturnsStay, Own
<1>. QED
  BY <1>1, <1>2, <1>3, <1>4, <1>5 DEF ReturnHolds

\* A flow starts, in any of the three ways.
LEMMA StartKeeps ==
  ASSUME FlowInv, NEW f \in Flows, Start(f) \/ StartWithoutUrl(f) \/ StartNothing(f)
  PROVE  FlowInv'
<1>. FlowType
  BY DEF FlowInv
<1>1. UNCHANGED <<return, redeemed, exchanged, result>> /\ flow[f].at = "new"
  BY DEF Start, StartWithoutUrl, StartNothing
<1>2. /\ flow' \in [Flows -> FlowRecord] /\ pending' \subseteq Flows
      /\ \/ flow'[f].at = "waiting" /\ flow'[f].settled = "no"
         \/ flow'[f].at = "returned" /\ flow'[f].settled \in {"no", "cancelled"}
            /\ f \notin pending'
      /\ \A g \in Flows \ {f} :
           /\ flow'[g].at = flow[g].at
           /\ \/ flow'[g].settled = flow[g].settled /\ (g \in pending' => g \in pending)
              \/ g \in pending /\ flow'[g].settled = "cancelled" /\ g \notin pending'
  <2>1. f \notin pending /\ flow[f].settled = "no"
    BY <1>1 DEF FlowInv, FlowHolds
  <2>2. CASE Start(f)
    BY <2>1, <2>2 DEF Start, FlowType, FlowRecord
  <2>3. CASE StartNothing(f)
    BY <2>1, <2>3 DEF StartNothing, FlowType, FlowRecord
  <2>4. CASE StartWithoutUrl(f)
    <3>1. CancelledBy(f) \in [Flows -> FlowRecord]
      BY DEF CancelledBy, FlowType, FlowRecord
    <3>2. \A g \in Flows : /\ CancelledBy(f)[g].at = flow[g].at
                           /\ CancelledBy(f)[g].settled =
                                IF g \in pending \/ g = f THEN "cancelled" ELSE flow[g].settled
      BY DEF CancelledBy, FlowType, FlowRecord
    <3>3. flow' = [CancelledBy(f) EXCEPT ![f].at = "returned"] /\ pending' = {}
      BY <2>4 DEF StartWithoutUrl
    <3>. HIDE DEF CancelledBy
    <3>. QED
      BY <3>1, <3>2, <3>3 DEF FlowRecord
  <2>. QED
    BY <2>2, <2>3, <2>4
<1>3. FlowType'
  BY <1>1, <1>2 DEF FlowType
<1>4. ReturnsStay
  BY <1>1 DEF ReturnsStay
<1>5. ASSUME NEW g \in Flows
      PROVE  FlowHolds(g)'
  <2>1. FlowHolds(g)
    BY DEF FlowInv
  <2>2. CASE g = f
    BY <1>2, <2>2 DEF FlowHolds
  <2>3. CASE g # f
    BY <1>1, <1>2, <2>1, <2>3 DEF FlowHolds, Own
  <2>. QED
    BY <2>2, <2>3
<1>6. ASSUME NEW k \in Returns
      PROVE  ReturnHolds(k)'
  <2>1. CASE return[k].at # "new"
    <3>1. \A g \in Flows : /\ flow[g].at # "new" => flow'[g].at # "new"
                           /\ flow[g].at = "waiting" \/ flow[g].settled # "no" =>
                                flow'[g].at = "waiting" \/ flow'[g].settled # "no"
      BY <1>1, <1>2 DEF FlowInv, FlowHolds
    <3>. QED
      BY <1>1, <1>4, <2>1, <3>1, ReturnStays
  <2>2. CASE return[k].at = "new"
    BY <1>1, <2>2 DEF ReturnHolds
  <2>. QED
    BY <2>1, <2>2
<1>. QED
  BY <1>3, <1>5, <1>6 DEF FlowInv

\* A flow settles: with the token of a return of its own, or without one.
LEMMA SettleKeeps ==
  ASSUME FlowInv, ReturnsStay, NEW f \in Flows, NEW how, Settle(f, how),
         how \in {"timeout", "denied", "failed", "resolved"},
         flow[f].at = "waiting" \/ flow[f].settled # "no",
         return' \in [Returns -> ReturnRecord], redeemed' = redeemed, result' = result,
         exchanged' \in [Flows -> MaybeReturn],
         \A g \in Flows : exchanged'[g] = exchanged[g] \/ Own(g, exchanged[g])',
         how = "resolved" => Own(f, exchanged[f])',
         \A k \in Returns : \/ return'[k].at = return[k].at
                            \/ return'[k].at = "done" /\ return[k].at # "new"
                            \/ return'[k].at = "done" /\ return'[k].code = return'[k].flow
                               /\ return'[k].flow = f
  PROVE  FlowInv'
<1>. FlowType
  BY DEF FlowInv
<1>1. pending' = pending \ {f} /\ flow' = Settled(f, how)
  BY DEF Settle
<1>2. /\ flow' \in [Flows -> FlowRecord]
      /\ \A g \in Flows : /\ flow'[g].at = flow[g].at
                          /\ flow'[g].settled = IF g = f /\ flow[f].settled = "no" THEN how
                                                ELSE flow[g].settled
  BY <1>1 DEF Settled, FlowType, FlowRecord
<1>3. FlowType'
  BY <1>1, <1>2 DEF FlowType
<1>4. ASSUME NEW g \in Flows
      PROVE  FlowHolds(g)'
  <2>1. FlowHolds(g)
    BY DEF FlowInv
  <2>2. g \in pending' => flow'[g].at = "waiting" /\ flow'[g].settled = "no"
    BY <1>1, <1>2, <2>1 DEF FlowHolds
  <2>3. flow'[g].at = "new" => flow'[g].settled = "no"
    BY <1>2, <2>1 DEF FlowHolds
  <2>4. flow'[g].settled = "resolved" => Own(g, exchanged[g])'
    BY <1>2, <2>1 DEF FlowHolds, ReturnsStay, Own
  <2>5. flow'[g].at = "returned" /\ flow'[g].settled = "resolved" /\ g \notin FromTools =>
          Own(g, result[g])'
    BY <1>2, <2>1 DEF FlowHolds, ReturnsStay, Own
  <2>. QED
    BY <2>2, <2>3, <2>4, <2>5 DEF FlowHolds
<1>5. ASSUME NEW k \in Returns
      PROVE  ReturnHolds(k)'
  <2>1. CASE return[k].at # "new"
    BY <1>2, <2>1, ReturnStays
  <2>2. CASE return[k].at = "new"
    <3>1. return'[k].at # "new" => return'[k].at = "done" /\ return'[k].code = return'[k].flow
                                   /\ return'[k].flow = f
      BY <2>2
    <3>2. flow'[f].at # "new"
      BY <1>2 DEF FlowInv, FlowHolds
    <3>. QED
      BY <3>1, <3>2 DEF ReturnHolds, Exchanging
  <2>. QED
    BY <2>1, <2>2
<1>. QED
  BY <1>3, <1>4, <1>5 DEF FlowInv

\* What leaves the flows as they are.
LEMMA FlowsStay ==
  ASSUME FlowInv, ReturnsStay, UNCHANGED <<flow, pending, result>>, FlowType',
         \A g \in Flows : exchanged'[g] = exchanged[g] \/ Own(g, exchanged[g])'
  PROVE  \A g \in Flows : FlowHolds(g)'
BY DEF FlowInv, FlowHolds, Own, ReturnsStay

\* The browser comes back with a code, or with a state that nobody waits for.
LEMMA ReturnKeeps ==
  ASSUME FlowInv, NEW k \in Returns, ReturnUnknown(k) \/ ReturnCode(k)
  PROVE  FlowInv'
<1>. FlowType
  BY DEF FlowInv
<1>1. PICK f \in Flows, stage \in {"done", "exchanging"} :
        /\ return' = [return EXCEPT ![k] = [at |-> stage, flow |-> f, code |-> f]]
        /\ flow[f].at # "new" /\ (stage = "exchanging" => flow[f].at = "waiting")
  <2>1. CASE ReturnUnknown(k)
    BY <2>1 DEF ReturnUnknown
  <2>2. CASE ReturnCode(k)
    BY <2>2 DEF ReturnCode, FlowOf, FlowInv, FlowHolds, FlowType
  <2>. QED
    BY <2>1, <2>2
<1>2. return[k].at = "new" /\ UNCHANGED <<flow, pending, redeemed, exchanged, result>>
  BY DEF ReturnUnknown, ReturnCode, StaysPending
<1>3. /\ return' \in [Returns -> ReturnRecord] /\ return'[k].at = stage
      /\ return'[k].flow = f /\ return'[k].code = f
      /\ \A j \in Returns \ {k} : return'[j] = return[j]
  BY <1>1 DEF FlowType, ReturnRecord
<1>4. FlowType' /\ ReturnsStay
  BY <1>2, <1>3 DEF FlowType, ReturnsStay
<1>5. \A g \in Flows : FlowHolds(g)'
  BY <1>2, <1>4, FlowsStay
<1>6. ASSUME NEW j \in Returns
      PROVE  ReturnHolds(j)'
  <2>1. CASE j = k
    BY <1>1, <1>2, <1>3, <2>1 DEF ReturnHolds, Exchanging
  <2>2. CASE j # k /\ return[j].at # "new"
    BY <1>2, <1>3, <1>4, <2>2, ReturnStays
  <2>3. CASE j # k /\ return[j].at = "new"
    BY <1>3, <2>3 DEF ReturnHolds
  <2>. QED
    BY <2>1, <2>2, <2>3
<1>. QED
  BY <1>4, <1>5, <1>6 DEF FlowInv

LEMMA RedeemKeeps ==
  ASSUME FlowInv, NEW k \in Returns, ProviderRedeems(k)
  PROVE  FlowInv'
<1>. FlowType
  BY DEF FlowInv
<1>. DEFINE f == return[k].flow
<1>1. f \in Flows /\ return[k].code = f /\ flow[f].at # "new"
      /\ (flow[f].at = "waiting" \/ flow[f].settled # "no")
  BY DEF ProviderRedeems, FlowInv, ReturnHolds, Exchanging
<1>2. PICK stage \in {"granted", "refused"} :
        /\ return' = [return EXCEPT ![k].at = stage]
        /\ redeemed' \in {redeemed, redeemed \cup {f}}
        /\ stage = "granted" => f \in redeemed'
  BY <1>1 DEF ProviderRedeems
<1>3. return[k].at = "exchanging" /\ UNCHANGED <<flow, pending, exchanged, result>>
  BY DEF ProviderRedeems
<1>4. /\ return' \in [Returns -> ReturnRecord] /\ return'[k].at = stage
      /\ return'[k].flow = f /\ return'[k].code = f
      /\ \A j \in Returns \ {k} : return'[j] = return[j]
  BY <1>1, <1>2 DEF FlowType, ReturnRecord
<1>5. FlowType' /\ ReturnsStay
  BY <1>1, <1>2, <1>3, <1>4 DEF FlowType, ReturnsStay
<1>6. \A g \in Flows : FlowHolds(g)'
  BY <1>3, <1>5, FlowsStay
<1>7. ASSUME NEW j \in Returns
      PROVE  ReturnHolds(j)'
  <2>1. CASE j = k
    BY <1>1, <1>2, <1>3, <1>4, <2>1 DEF ReturnHolds, Exchanging
  <2>2. CASE j # k /\ return[j].at # "new"
    BY <1>3, <1>4, <1>5, <2>2, ReturnStays
  <2>3. CASE j # k /\ return[j].at = "new"
    BY <1>4, <2>3 DEF ReturnHolds
  <2>. QED
    BY <2>1, <2>2, <2>3
<1>. QED
  BY <1>5, <1>6, <1>7 DEF FlowInv

\* A return is handled to its end, and its flow settles.
LEMMA EndKeeps ==
  ASSUME FlowInv, NEW k \in Returns, ReturnError(k) \/ ExchangeFails(k) \/ TokenSaved(k)
  PROVE  FlowInv'
<1>. FlowType
  BY DEF FlowInv
<1>1. UNCHANGED <<redeemed, exchanged, result>>
  BY DEF ReturnError, ExchangeFails, TokenSaved
<1>2. CASE ReturnError(k)
  <2>1. PICK f \in pending :
          /\ Settle(f, "denied")
          /\ return' = [return EXCEPT ![k] = [at |-> "done", flow |-> f, code |-> f]]
    BY <1>2 DEF ReturnError
  <2>2. f \in Flows /\ flow[f].at = "waiting" /\ return[k].at = "new"
    BY <1>2 DEF ReturnError, FlowType, FlowInv, FlowHolds
  <2>3. /\ return' \in [Returns -> ReturnRecord] /\ return'[k].at = "done"
        /\ return'[k].flow = f /\ return'[k].code = f
        /\ \A j \in Returns \ {k} : return'[j] = return[j]
    BY <2>1, <2>2 DEF FlowType, ReturnRecord
  <2>4. ReturnsStay
    BY <1>1, <2>2, <2>3 DEF ReturnsStay
  <2>5. exchanged' \in [Flows -> MaybeReturn]
    BY <1>1 DEF FlowType
  <2>. QED
    BY <1>1, <2>1, <2>2, <2>3, <2>4, <2>5, SettleKeeps
<1>3. CASE ExchangeFails(k) \/ TokenSaved(k)
  <2>0. PICK f \in Flows : f = return[k].flow
    BY <1>3 DEF ExchangeFails, TokenSaved, FlowInv, ReturnHolds
  <2>1. PICK how \in {"failed", "resolved"} :
          /\ Settle(f, how) /\ return' = [return EXCEPT ![k].at = "done"]
          /\ how = "resolved" => return[k].at = "saving"
    BY <1>3, <2>0 DEF ExchangeFails, TokenSaved
  <2>2. /\ (flow[f].at = "waiting" \/ flow[f].settled # "no")
        /\ return[k].at # "new" /\ (how = "resolved" => Own(f, exchanged[f]))
    BY <1>3, <2>0, <2>1 DEF ExchangeFails, TokenSaved, FlowInv, ReturnHolds, Exchanging
  <2>3. /\ return' \in [Returns -> ReturnRecord] /\ return'[k].at = "done"
        /\ return'[k].flow = return[k].flow /\ return'[k].code = return[k].code
        /\ \A j \in Returns \ {k} : return'[j] = return[j]
    BY <2>1 DEF FlowType, ReturnRecord
  <2>4. ReturnsStay
    BY <1>1, <2>3 DEF ReturnsStay
  <2>5. how = "resolved" => Own(f, exchanged[f])'
    BY <1>1, <2>2, <2>3 DEF Own
  <2>6. exchanged' \in [Flows -> MaybeReturn]
    BY <1>1 DEF FlowType
  <2>. QED
    BY <1>1, <2>1, <2>2, <2>3, <2>4, <2>5, <2>6, SettleKeeps
<1>. QED
  BY <1>2, <1>3

\* The token arrives: it is one of the flow's own.
LEMMA ExchangeKeeps ==
  ASSUME FlowInv, NEW k \in Returns, ExchangeSucceeds(k)
  PROVE  FlowInv'
<1>. FlowType
  BY DEF FlowInv
<1>1. PICK f \in Flows : f = return[k].flow
  BY DEF ExchangeSucceeds, FlowInv, ReturnHolds
<1>2. /\ return[k].at = "granted" /\ exchanged' = [exchanged EXCEPT ![f] = k]
      /\ UNCHANGED <<redeemed, result>>
      /\ IF f \in FromTools
         THEN return' = [return EXCEPT ![k].at = "saving"] /\ UNCHANGED <<pending, flow>>
         ELSE return' = [return EXCEPT ![k].at = "done"] /\ Settle(f, "resolved")
  BY <1>1 DEF ExchangeSucceeds
<1>3. /\ return[k].code = f /\ f \in redeemed /\ flow[f].at # "new"
      /\ (flow[f].at = "waiting" \/ flow[f].settled # "no")
  BY <1>1, <1>2 DEF FlowInv, ReturnHolds, Exchanging
<1>4. PICK stage \in {"saving", "done"} : return' = [return EXCEPT ![k].at = stage]
  BY <1>2
<1>5. /\ return' \in [Returns -> ReturnRecord] /\ return'[k].at = stage
      /\ return'[k].flow = return[k].flow /\ return'[k].code = return[k].code
      /\ \A j \in Returns \ {k} : return'[j] = return[j]
  BY <1>4 DEF FlowType, ReturnRecord
<1>6. ReturnsStay
  BY <1>2, <1>5 DEF ReturnsStay
<1>7. /\ exchanged' \in [Flows -> MaybeReturn] /\ exchanged'[f] = k
      /\ \A g \in Flows \ {f} : exchanged'[g] = exchanged[g]
  BY <1>2 DEF FlowType, MaybeReturn
<1>8. Own(f, exchanged[f])'
  BY <1>2, <1>3, <1>5, <1>7 DEF Own
<1>9. \A g \in Flows : exchanged'[g] = exchanged[g] \/ Own(g, exchanged[g])'
  BY <1>7, <1>8
<1>10. CASE f \notin FromTools
  BY <1>2, <1>3, <1>5, <1>6, <1>7, <1>8, <1>9, <1>10, SettleKeeps DEF FlowType, ReturnRecord
<1>11. CASE f \in FromTools
  <2>1. UNCHANGED <<pending, flow>>
    BY <1>2, <1>11
  <2>2. FlowType'
    BY <1>2, <1>5, <1>7, <2>1 DEF FlowType
  <2>3. \A g \in Flows : FlowHolds(g)'
    BY <1>2, <1>6, <1>9, <2>1, <2>2, FlowsStay
  <2>4. ASSUME NEW j \in Returns
        PROVE  ReturnHolds(j)'
    <3>1. CASE j = k
      BY <1>1, <1>2, <1>3, <1>5, <1>8, <2>1, <3>1 DEF ReturnHolds, Exchanging
    <3>2. CASE j # k /\ return[j].at # "new"
      BY <1>5, <1>6, <1>9, <2>1, <3>2, ReturnStays
    <3>3. CASE j # k /\ return[j].at = "new"
      BY <1>5, <3>3 DEF ReturnHolds
    <3>. QED
      BY <3>1, <3>2, <3>3
  <2>. QED
    BY <2>2, <2>3, <2>4 DEF FlowInv
<1>. QED
  BY <1>10, <1>11

\* interactiveOAuthFlow() goes on with the token of the flow's closure.
LEMMA FlowReturnsKeeps ==
  ASSUME FlowInv, NEW f \in Flows, FlowReturns(f)
  PROVE  FlowInv'
<1>. FlowType
  BY DEF FlowInv
<1>1. /\ flow[f].at = "waiting" /\ flow[f].settled # "no"
      /\ flow' = [flow EXCEPT ![f].at = "returned"]
      /\ UNCHANGED <<pending, return, redeemed, exchanged>>
  BY DEF FlowReturns
<1>2. /\ flow' \in [Flows -> FlowRecord]
      /\ flow'[f].at = "returned" /\ flow'[f].settled = flow[f].settled
      /\ \A g \in Flows \ {f} : flow'[g] = flow[g]
  BY <1>1 DEF FlowType, FlowRecord
<1>3. /\ result' \in [Flows -> MaybeReturn]
      /\ flow[f].settled = "resolved" /\ f \notin FromTools => result'[f] = exchanged[f]
      /\ \A g \in Flows \ {f} : result'[g] = result[g]
  BY DEF FlowReturns, FlowType, MaybeReturn
<1>4. FlowType' /\ ReturnsStay
  BY <1>1, <1>2, <1>3 DEF FlowType, ReturnsStay
<1>5. ASSUME NEW g \in Flows
      PROVE  FlowHolds(g)'
  <2>1. FlowHolds(g)
    BY DEF FlowInv
  <2>. QED
    BY <1>1, <1>2, <1>3, <2>1 DEF FlowHolds, Own
<1>6. ASSUME NEW k \in Returns
      PROVE  ReturnHolds(k)'
  <2>1. CASE return[k].at # "new"
    BY <1>1, <1>2, <1>4, <2>1, ReturnStays
  <2>2. CASE return[k].at = "new"
    BY <1>1, <2>2 DEF ReturnHolds
  <2>. QED
    BY <2>1, <2>2
<1>. QED
  BY <1>4, <1>5, <1>6 DEF FlowInv

LEMMA TimeoutKeeps ==
  ASSUME FlowInv, NEW f \in Flows, Timeout(f)
  PROVE  FlowInv'
<1>1. /\ Settle(f, "timeout") /\ UNCHANGED <<return, redeemed, exchanged, result>>
      /\ flow[f].at = "waiting"
  BY DEF Timeout, FlowInv, FlowHolds
<1>2. ReturnsStay /\ return' \in [Returns -> ReturnRecord]
      /\ exchanged' \in [Flows -> MaybeReturn]
  BY <1>1 DEF ReturnsStay, FlowInv, FlowType
<1>. QED
  BY <1>1, <1>2, SettleKeeps

LEMMA NextFlows == FlowInv /\ [ExternalAuthNext]_eaVars => FlowInv'
<1>. SUFFICES ASSUME FlowInv, [ExternalAuthNext]_eaVars
              PROVE  FlowInv'
  OBVIOUS
<1>1. ASSUME UNCHANGED <<pending, flow, return, redeemed, exchanged, result>>
      PROVE  FlowInv'
  BY <1>1 DEF FlowInv, FlowType, FlowHolds, ReturnHolds, Own
<1>2. ASSUME NEW p, TokenExpires(p) \/ RevokeToken(p)
      PROVE  FlowInv'
  BY <1>1, <1>2 DEF TokenExpires, RevokeToken
<1>3. ASSUME NEW r, BeginRefresh(r) \/ RefreshAnswered(r)
      PROVE  FlowInv'
  BY <1>1, <1>3 DEF BeginRefresh, RefreshAnswered
<1>4. CASE UNCHANGED eaVars
  BY <1>1, <1>4 DEF eaVars
<1>5. ASSUME NEW f \in Flows, \/ Start(f) \/ StartWithoutUrl(f) \/ StartNothing(f)
                              \/ Timeout(f) \/ FlowReturns(f)
      PROVE  FlowInv'
  BY <1>5, StartKeeps, TimeoutKeeps, FlowReturnsKeeps
<1>6. ASSUME NEW k \in Returns, \/ ReturnUnknown(k) \/ ReturnError(k) \/ ReturnCode(k)
                                \/ ProviderRedeems(k) \/ ExchangeFails(k)
                                \/ ExchangeSucceeds(k) \/ TokenSaved(k)
      PROVE  FlowInv'
  BY <1>6, ReturnKeeps, RedeemKeeps, EndKeeps, ExchangeKeeps
<1>. QED
  BY <1>2, <1>3, <1>4, <1>5, <1>6 DEF ExternalAuthNext

\* External auth: a flow that succeeds returns a token that a code of its own was exchanged
\* for, for any number of flows that are pending for one provider, and of times a browser
\* comes back.
THEOREM TokensAreOnesOwn == WorkbenchSpec => []ReturnsItsOwnToken
<1>1. WorkbenchInit => FlowInv
  BY InitFlows, WorkbenchParts
<1>2. FlowInv /\ [WorkbenchNext]_workbenchVars => FlowInv'
  BY NextFlows, WorkbenchParts
<1>3. FlowInv => ReturnsItsOwnToken
  BY DEF FlowInv, FlowHolds, Own, ReturnsItsOwnToken
<1>. QED
  BY <1>1, <1>2, <1>3, PTL DEF WorkbenchSpec

-----------------------------------------------------------------------------
(* Hot redeploy.  Only the head of the chain loads; what it has bundled is *)
(* what was saved last, unless another save is under way to a pass of its  *)
(* own.  A viewer that shows a redeploy waits for the end of a pass, or    *)
(* has missed it.                                                          *)

\* What a load of the file ends with.
Current(f) == IF source[f].ok THEN source[f].version ELSE Failed

Versions == Nat \ {0}
PassRecord == [step: {"parse", "load"}, reload: BOOLEAN, todo: Seq(FunctionKeys),
               module: [Files -> Versions \cup {NotBundled, Failed}]]
ViewerRecord == [connected: BOOLEAN, reloading: BOOLEAN, missed: BOOLEAN]

RedeployType ==
  /\ source \in [Files -> [version: Versions, ok: BOOLEAN]]
  /\ definitions \in [FunctionKeys -> Versions \cup {None}]
  /\ passes \in Seq(PassRecord)
  /\ viewers \in [Viewers -> ViewerRecord]

Hot(p) == p.reload
IsNew(p) == p.todo = Functions /\ \A f \in Files : p.module[f] = NotBundled
Shows(v) == viewers[v].reloading
Stuck(v) == viewers[v].reloading /\ ~viewers[v].missed

Chain ==
  /\ \A i \in 1..Len(passes) : /\ i > 1 => passes[i].step = "parse"
                               /\ passes[i].step = "parse" => IsNew(passes[i])
                               /\ watching => Hot(passes[i])
                               /\ ~watching => passes[i].step = "load"
  /\ armed => watching
  /\ ~watching => \A v \in Viewers : ~Shows(v)

\* The function is the code of its file, or gone if that does not load.
FreshFunction(fn) ==
  definitions[fn] = IF Current(FileOf[fn]) = Failed THEN None ELSE Current(FileOf[fn])

Fresh ==
  /\ \A fn \in FunctionKeys : FreshFunction(fn)
  /\ ConsumerKey \in FunctionKeys /\ Current(FileOf[ConsumerKey]) # Failed =>
       consumer = Current(FileOf[ConsumerKey])

\* A pass that loads what was saved last.
LoadsCurrent(p) ==
  /\ \A f \in Files : p.module[f] \in {NotBundled, Current(f)}
  /\ \A fn \in FunctionKeys :
       fn \notin ToSet(p.todo) \/ Current(FileOf[fn]) = Failed => FreshFunction(fn)

Converges ==
  ~armed /\ ~unseen =>
    /\ Len(passes) = 1 /\ passes[1].step = "load" => LoadsCurrent(passes[1])
    /\ passes = <<>> /\ manifestOk => Fresh

RedeployInv ==
  /\ RedeployType /\ Chain /\ Converges
  /\ passes = <<>> => \A v \in Viewers : ~Stuck(v)

LEMMA FunctionsListed == Functions \in Seq(FunctionKeys)
BY RedeployAssumption DEF FunctionKeys, ToSet

LEMMA CurrentType ==
  ASSUME RedeployType, NEW f \in Files
  PROVE  /\ Current(f) \in Versions \cup {Failed}
         /\ source[f].ok => Current(f) = source[f].version /\ Current(f) # Failed
         /\ ~source[f].ok => Current(f) = Failed
<1>1. source[f].version \in Versions
  BY DEF RedeployType
<1>2. source[f].version # Failed
  BY <1>1 DEF Versions, Failed
<1>. QED
  BY <1>1, <1>2, Zenon DEF Current

LEMMA NewPassFacts ==
  ASSUME NEW reload \in BOOLEAN
  PROVE  /\ NewPass(reload) \in PassRecord /\ NewPass(reload).step = "parse"
         /\ NewPass(reload).todo = Functions
         /\ \A f \in Files : NewPass(reload).module[f] = NotBundled
         /\ Hot(NewPass(reload)) <=> reload
<1>1. NewPass(reload) \in PassRecord
  <2>1. [f \in Files |-> NotBundled] \in [Files -> Versions \cup {NotBundled, Failed}]
    OBVIOUS
  <2>. QED
    BY <2>1, FunctionsListed, Zenon DEF NewPass, PassRecord
<1>2. Hot(NewPass(reload)) <=> reload
  BY Zenon DEF NewPass, Hot
<1>3. /\ NewPass(reload).step = "parse" /\ NewPass(reload).todo = Functions
      /\ \A f \in Files : NewPass(reload).module[f] = NotBundled
  BY Zenon DEF NewPass
<1>. QED
  BY <1>1, <1>2, <1>3

LEMMA TellFacts ==
  ASSUME RedeployType, NEW reloading \in BOOLEAN, viewers' = Tell(reloading)
  PROVE  /\ viewers' \in [Viewers -> ViewerRecord]
         /\ ~reloading => \A v \in Viewers : ~Stuck(v)' /\ (Shows(v)' => Shows(v))
<1>1. ASSUME NEW v \in Viewers
      PROVE  viewers'[v] = IF viewers[v].connected
                           THEN [viewers[v] EXCEPT !.reloading = reloading, !.missed = FALSE]
                           ELSE [viewers[v] EXCEPT !.missed = TRUE]
  BY Zenon DEF Tell
<1>2. ASSUME NEW v \in Viewers
      PROVE  /\ viewers'[v] \in ViewerRecord
             /\ ~reloading => ~Stuck(v)' /\ (Shows(v)' => Shows(v))
  <2>1. viewers[v] \in ViewerRecord
    BY DEF RedeployType
  <2>2. CASE viewers[v].connected
    <3>1. viewers'[v] = [viewers[v] EXCEPT !.reloading = reloading, !.missed = FALSE]
      BY <1>1, <2>2, Zenon
    <3>. QED
      BY <2>1, <3>1, Zenon DEF ViewerRecord, Stuck, Shows
  <2>3. CASE ~viewers[v].connected
    <3>1. viewers'[v] = [viewers[v] EXCEPT !.missed = TRUE]
      BY <1>1, <2>3, Zenon
    <3>. QED
      BY <2>1, <3>1, Zenon DEF ViewerRecord, Stuck, Shows
  <2>. QED
    BY <2>2, <2>3
<1>3. viewers' = [v \in Viewers |-> viewers'[v]]
  BY DEF Tell
<1>. QED
  BY <1>2, <1>3

LEMMA InitRedeploy == RedeployInit => RedeployInv
<1>. SUFFICES ASSUME RedeployInit
              PROVE  RedeployInv
  OBVIOUS
<1>. DEFINE p == [NewPass(FALSE) EXCEPT !.step = "load"]
<1>1. p \in PassRecord /\ p.step = "load"
  BY NewPassFacts, Zenon DEF PassRecord
<1>2. p.todo = Functions /\ \A f \in Files : p.module[f] = NotBundled
  BY NewPassFacts, Zenon DEF PassRecord
<1>3. passes = <<p>>
  BY DEF RedeployInit
<1>. HIDE DEF p
<1>4. passes \in Seq(PassRecord) /\ Len(passes) = 1 /\ passes[1] = p
  BY <1>1, <1>3
<1>5. viewers \in [Viewers -> ViewerRecord] /\ \A v \in Viewers : ~Shows(v)
  BY Zenon DEF RedeployInit, ViewerRecord, Shows
<1>6. source \in [Files -> [version: Versions, ok: BOOLEAN]]
      /\ \A f \in Files : source[f].ok
  <2>1. 1 \in Versions
    BY DEF Versions
  <2>. QED
    BY <2>1, Zenon DEF RedeployInit
<1>7. RedeployType
  BY <1>4, <1>5, <1>6 DEF RedeployInit, RedeployType
<1>8. ~watching /\ ~armed
  BY Zenon DEF RedeployInit
<1>9. Chain
  BY <1>1, <1>4, <1>5, <1>8 DEF Chain
<1>10. LoadsCurrent(p)
  <2>1. \A fn \in FunctionKeys : FileOf[fn] \in Files /\ fn \in ToSet(p.todo)
    BY <1>2 DEF Files, FunctionKeys
  <2>2. \A f \in Files : Current(f) # Failed
    BY <1>6, <1>7, CurrentType
  <2>. QED
    BY <1>2, <2>1, <2>2 DEF LoadsCurrent
<1>. QED
  BY <1>4, <1>7, <1>9, <1>10 DEF RedeployInv, Converges

LEMMA RestOfChain ==
  ASSUME NEW S, NEW s \in Seq(S), s # <<>>
  PROVE  /\ RemoveAt(s, 1) \in Seq(S) /\ Len(RemoveAt(s, 1)) = Len(s) - 1
         /\ \A i \in 1..(Len(s) - 1) : RemoveAt(s, 1)[i] = s[i + 1]
<1>1. SubSeq(s, 1, 1 - 1) = <<>>
  BY SubSeqEmpty
<1>2. Tail(s) \in Seq(S) /\ Len(Tail(s)) = Len(s) - 1
      /\ \A i \in 1..(Len(s) - 1) : Tail(s)[i] = s[i + 1]
  BY HeadTailProperties
<1>3. RemoveAt(s, 1) = <<>> \o Tail(s)
  BY <1>1, TailIsSubSeq DEF RemoveAt
<1>4. <<>> \o Tail(s) = Tail(s)
  BY <1>2, ConcatEmptySeq
<1>. QED
  BY <1>2, <1>3, <1>4

\* A save is seen by the watcher, or came before it.
LEMMA SaveKeeps ==
  ASSUME RedeployInv, Saved, UNCHANGED definitions,
         source' \in [Files -> [version: Versions, ok: BOOLEAN]]
  PROVE  RedeployInv'
<1>1. (armed' <=> watching) /\ (unseen' <=> ~watching)
      /\ UNCHANGED <<watching, passes, definitions, consumer, viewers>>
  BY Zenon DEF Saved
<1>2. RedeployType'
  BY <1>1 DEF RedeployInv, RedeployType
<1>3. Chain'
  <2>1. \A v \in Viewers : Shows(v)' <=> Shows(v)
    BY <1>1 DEF Shows
  <2>. QED
    BY <1>1, <2>1 DEF RedeployInv, Chain
<1>4. Converges'
  BY <1>1 DEF Converges
<1>5. \A v \in Viewers : Stuck(v)' <=> Stuck(v)
  BY <1>1 DEF Stuck
<1>. QED
  BY <1>1, <1>2, <1>3, <1>4, <1>5 DEF RedeployInv

LEMMA SaveSourceKeeps ==
  ASSUME RedeployInv, NEW f \in Files, NEW ok \in BOOLEAN, SaveSource(f, ok)
  PROVE  RedeployInv'
<1>. DEFINE now == [version |-> source[f].version + 1, ok |-> ok]
<1>1. source' = [source EXCEPT ![f] = now]
  BY DEF SaveSource
<1>2. now \in [version: Versions, ok: BOOLEAN]
  <2>1. source[f].version \in Versions
    BY DEF RedeployInv, RedeployType
  <2>2. source[f].version + 1 \in Versions
    BY <2>1 DEF Versions
  <2>. QED
    BY <2>2
<1>. HIDE DEF now
<1>. QED
  BY <1>1, <1>2, SaveKeeps DEF SaveSource, Saved, RedeployInv, RedeployType

LEMMA WatcherKeeps ==
  ASSUME RedeployInv, StartWatching \/ DebounceFires
  PROVE  RedeployInv'
<1>. RedeployType
  BY DEF RedeployInv
<1>1. CASE StartWatching
  <2>1. watching' /\ passes = <<>>
        /\ UNCHANGED <<source, manifestOk, unseen, armed, passes, definitions, consumer, viewers>>
    BY <1>1, Zenon DEF StartWatching
  <2>2. \A v \in Viewers : Stuck(v)' <=> Stuck(v)
    BY <2>1 DEF Stuck
  <2>3. Chain'
    BY <2>1 DEF Chain
  <2>4. Converges'
    <3>1. Fresh => Fresh'
      BY <2>1 DEF Fresh, FreshFunction, Current
    <3>. QED
      BY <2>1, <3>1 DEF RedeployInv, Converges
  <2>. QED
    BY <2>1, <2>2, <2>3, <2>4 DEF RedeployInv, RedeployType
<1>2. CASE DebounceFires
  <2>1. armed /\ viewers' = Tell(TRUE) /\ passes' = Append(passes, NewPass(TRUE))
        /\ UNCHANGED <<source, manifestOk, watching, unseen, definitions, consumer>>
    BY <1>2 DEF DebounceFires
  <2>2. ~armed' /\ watching
    BY <1>2, Zenon DEF DebounceFires, RedeployInv, Chain
  <2>3. viewers' \in [Viewers -> ViewerRecord]
    BY <2>1, TellFacts
  <2>. DEFINE p == NewPass(TRUE)
  <2>4. p \in PassRecord /\ p.step = "parse" /\ Hot(p)
    BY NewPassFacts
  <2>12. IsNew(p)
    BY NewPassFacts DEF IsNew
  <2>5. passes' = Append(passes, p)
    BY <2>1
  <2>. HIDE DEF p
  <2>6. /\ passes' \in Seq(PassRecord) /\ Len(passes') = Len(passes) + 1
        /\ \A i \in 1..Len(passes) : passes'[i] = passes[i]
        /\ passes'[Len(passes) + 1] = p
    BY <2>4, <2>5 DEF RedeployType
  <2>7. RedeployType'
    BY <2>1, <2>3, <2>6 DEF RedeployType
  <2>8. Len(passes) \in Nat
    BY DEF RedeployType
  <2>9. Chain'
    <3>1. ASSUME NEW i \in 1..Len(passes')
          PROVE  /\ Hot(passes'[i]) /\ (i > 1 => passes'[i].step = "parse")
                 /\ passes'[i].step = "parse" => IsNew(passes'[i])
      <4>1. CASE i = Len(passes) + 1
        BY <2>4, <2>6, <2>12, <4>1
      <4>2. CASE i \in 1..Len(passes)
        <5>1. passes'[i] = passes[i]
          BY <2>6, <4>2
        <5>. QED
          BY <2>2, <4>2, <5>1 DEF RedeployInv, Chain
      <4>. QED
        BY <2>6, <2>8, <4>1, <4>2
    <3>2. \A i \in 1..Len(passes') : /\ Hot(passes[i])' <=> Hot(passes'[i])
                                     /\ IsNew(passes[i])' <=> IsNew(passes'[i])
      BY DEF Hot, IsNew
    <3>. QED
      BY <2>1, <2>2, <3>1, <3>2 DEF Chain
  <2>10. Converges'
    <3>1. Len(passes') = 1 => passes'[1].step = "parse"
      BY <2>4, <2>6, <2>8
    <3>2. passes' # <<>>
      BY <2>6, <2>8
    <3>. QED
      BY <3>1, <3>2 DEF Converges
  <2>11. passes' # <<>>
    BY <2>6, <2>8
  <2>. QED
    BY <2>7, <2>9, <2>10, <2>11 DEF RedeployInv
<1>. QED
  BY <1>1, <1>2

\* The head of the chain goes on.
LEMMA HeadMoves ==
  ASSUME RedeployInv, passes # <<>>, NEW q \in PassRecord, passes' = [passes EXCEPT ![1] = q],
         q.step = "load", Hot(q) <=> Hot(passes[1]),
         UNCHANGED <<source, manifestOk, watching, unseen, armed, consumer, viewers>>,
         definitions' \in [FunctionKeys -> Versions \cup {None}],
         Len(passes) = 1 /\ ~armed /\ ~unseen => LoadsCurrent(q)'
  PROVE  RedeployInv'
<1>. RedeployType
  BY DEF RedeployInv
<1>1. /\ passes' \in Seq(PassRecord) /\ Len(passes') = Len(passes) /\ passes'[1] = q
      /\ \A i \in 1..Len(passes) : i # 1 => passes'[i] = passes[i]
      /\ Len(passes) \in Nat \ {0}
  BY DEF RedeployType
<1>2. RedeployType'
  BY <1>1 DEF RedeployType
<1>3. Chain'
  <2>1. \A v \in Viewers : Shows(v)' <=> Shows(v)
    BY DEF Shows
  <2>2. \A i \in 1..Len(passes') : /\ Hot(passes[i])' <=> Hot(passes'[i])
                                   /\ IsNew(passes[i])' <=> IsNew(passes'[i])
    BY DEF Hot, IsNew
  <2>3. ASSUME NEW i \in 1..Len(passes')
        PROVE  /\ i > 1 => passes'[i].step = "parse"
               /\ passes'[i].step = "parse" => IsNew(passes'[i])
               /\ watching => Hot(passes'[i])
               /\ ~watching => passes'[i].step = "load"
    <3>1. CASE i = 1
      BY <1>1, <3>1 DEF RedeployInv, Chain
    <3>2. CASE i # 1
      BY <1>1, <3>2 DEF RedeployInv, Chain
    <3>. QED
      BY <3>1, <3>2
  <2>. QED
    BY <2>1, <2>2, <2>3 DEF RedeployInv, Chain
<1>4. Converges'
  <2>1. passes' # <<>>
    BY <1>1
  <2>2. Len(passes') = 1 /\ ~armed' /\ ~unseen' => LoadsCurrent(passes[1])'
    BY <1>1 DEF LoadsCurrent
  <2>. QED
    BY <2>1, <2>2 DEF Converges
<1>. QED
  BY <1>1, <1>2, <1>3, <1>4 DEF RedeployInv

\* The head of the chain ends.
LEMMA HeadLeaves ==
  ASSUME RedeployInv, passes # <<>>, passes' = RemoveAt(passes, 1),
         UNCHANGED <<source, manifestOk, watching, unseen, armed, definitions>>,
         viewers' \in [Viewers -> ViewerRecord],
         \A v \in Viewers : ~Stuck(v)' /\ (Shows(v)' => Shows(v)),
         Len(passes) = 1 /\ ~armed /\ ~unseen /\ manifestOk => Fresh'
  PROVE  RedeployInv'
<1>. RedeployType
  BY DEF RedeployInv
<1>1. /\ passes' \in Seq(PassRecord) /\ Len(passes') = Len(passes) - 1
      /\ \A i \in 1..Len(passes') : passes'[i] = passes[i + 1] /\ i + 1 \in 1..Len(passes)
                                    /\ i + 1 > 1
      /\ Len(passes) \in Nat \ {0}
  BY RestOfChain DEF RedeployType
<1>2. RedeployType'
  BY <1>1 DEF RedeployType
<1>3. \A i \in 1..Len(passes') : /\ passes'[i].step = "parse" /\ IsNew(passes'[i])
                                 /\ watching => Hot(passes'[i])
                                 /\ ~watching => passes'[i].step = "load"
  BY <1>1 DEF RedeployInv, Chain
<1>4. Chain'
  <2>1. \A i \in 1..Len(passes') : /\ Hot(passes[i])' <=> Hot(passes'[i])
                                   /\ IsNew(passes[i])' <=> IsNew(passes'[i])
    BY DEF Hot, IsNew
  <2>. QED
    BY <1>3, <2>1 DEF RedeployInv, Chain
<1>5. Converges'
  <2>1. Len(passes') = 1 => passes'[1].step = "parse"
    BY <1>3
  <2>2. passes' = <<>> => Len(passes) = 1
    BY <1>1
  <2>. QED
    BY <2>1, <2>2 DEF Converges
<1>. QED
  BY <1>2, <1>4, <1>5 DEF RedeployInv

LEMMA ParseKeeps ==
  ASSUME RedeployInv, NEW i \in DOMAIN passes, ParseManifest(i)
  PROVE  RedeployInv'
<1>. RedeployType
  BY DEF RedeployInv
<1>1. /\ i = 1 /\ passes # <<>> /\ passes[1].step = "parse"
      /\ UNCHANGED <<source, manifestOk, watching, unseen, armed, consumer>>
  BY DEF ParseManifest, Turn
<1>2. 1 \in 1..Len(passes) /\ passes[1] \in PassRecord
  BY <1>1 DEF RedeployType
<1>3. watching /\ Hot(passes[1]) /\ IsNew(passes[1])
  BY <1>1, <1>2 DEF RedeployInv, Chain
<1>4. CASE manifestOk
  <2>. DEFINE q == [passes[1] EXCEPT !.step = "load"]
  <2>1. q \in PassRecord /\ q.step = "load" /\ (Hot(q) <=> Hot(passes[1]))
    BY <1>2, Zenon DEF PassRecord, Hot
  <2>2. q.todo = Functions /\ \A f \in Files : q.module[f] = NotBundled
    BY <1>2, <1>3, Zenon DEF PassRecord, IsNew
  <2>3. passes' = [passes EXCEPT ![1] = q] /\ UNCHANGED viewers
    BY <1>1, <1>4 DEF ParseManifest
  <2>4. definitions' = [fn \in FunctionKeys |-> None]
    BY <1>1, <1>3, <1>4, Zenon DEF ParseManifest, Hot
  <2>5. definitions' \in [FunctionKeys -> Versions \cup {None}]
    BY <2>4
  <2>6. PICK r \in PassRecord : r = q
    BY <2>1
  <2>. HIDE DEF q
  <2>7. LoadsCurrent(r)'
    <3>1. \A f \in Files : r.module[f] \in {NotBundled, Current(f)'}
      BY <2>2, <2>6
    <3>2. \A fn \in FunctionKeys : fn \in ToSet(r.todo)
      BY <2>2, <2>6 DEF FunctionKeys
    <3>3. \A fn \in FunctionKeys : Current(FileOf[fn])' = Failed => FreshFunction(fn)'
      BY <2>4 DEF FreshFunction
    <3>. QED
      BY <3>1, <3>2, <3>3 DEF LoadsCurrent
  <2>. QED
    BY <1>1, <2>1, <2>3, <2>5, <2>6, <2>7, HeadMoves
<1>5. CASE ~manifestOk
  <2>1. passes' = RemoveAt(passes, 1) /\ viewers' = Tell(FALSE) /\ UNCHANGED definitions
    BY <1>1, <1>5, Zenon DEF ParseManifest
  <2>2. /\ viewers' \in [Viewers -> ViewerRecord]
        /\ \A v \in Viewers : ~Stuck(v)' /\ (Shows(v)' => Shows(v))
    BY <2>1, TellFacts
  <2>. QED
    BY <1>1, <1>5, <2>1, <2>2, HeadLeaves
<1>. QED
  BY <1>4, <1>5

\* A file that is bundled is what was saved last.
LEMMA BundleKeeps ==
  ASSUME RedeployInv, NEW i \in DOMAIN passes, Bundle(i)
  PROVE  RedeployInv'
<1>. RedeployType
  BY DEF RedeployInv
<1>1. i \in 1..Len(passes) /\ passes[i].step = "load" /\ passes[i] \in PassRecord
      /\ passes[i].todo # <<>> /\ UNCHANGED <<source, manifestOk, watching, unseen, armed,
                                             definitions, consumer, viewers>>
  BY DEF Bundle, RedeployType
<1>2. i = 1 /\ passes # <<>>
  BY <1>1 DEF RedeployInv, Chain
<1>3. PICK p \in PassRecord : p = passes[1]
  BY <1>1, <1>2
<1>4. Head(p.todo) \in FunctionKeys
  BY <1>1, <1>2, <1>3 DEF PassRecord
<1>5. PICK f \in Files : f = FileOf[Head(p.todo)]
  BY <1>4 DEF Files
<1>6. PICK to \in Versions \cup {Failed} : to = Current(f)
  BY CurrentType
<1>7. passes' = [passes EXCEPT ![1] = [p EXCEPT !.module[f] = to]]
  BY <1>2, <1>3, <1>5, <1>6, Zenon DEF Bundle, Current
<1>. DEFINE q == [p EXCEPT !.module[f] = to]
<1>8. [p.module EXCEPT ![f] = to] \in [Files -> Versions \cup {NotBundled, Failed}]
  BY DEF PassRecord
<1>9. q \in PassRecord
  BY <1>8, Zenon DEF PassRecord
<1>10. q.step = p.step /\ q.todo = p.todo /\ q.module = [p.module EXCEPT ![f] = to]
  BY Zenon DEF PassRecord
<1>11. Hot(q) <=> Hot(p)
  BY Zenon DEF Hot, PassRecord
<1>12. PICK r \in PassRecord : r = q
  BY <1>9
<1>13. passes' = [passes EXCEPT ![1] = r]
  BY <1>7, <1>12
<1>14. r.step = "load" /\ r.todo = p.todo /\ r.module = [p.module EXCEPT ![f] = to]
       /\ (Hot(r) <=> Hot(passes[1]))
  BY <1>1, <1>2, <1>3, <1>10, <1>11, <1>12
<1>. HIDE DEF q
<1>15. Len(passes) = 1 /\ ~armed /\ ~unseen => LoadsCurrent(r)'
  <2>. SUFFICES ASSUME Len(passes) = 1, ~armed, ~unseen
                PROVE  LoadsCurrent(r)'
    OBVIOUS
  <2>1. LoadsCurrent(p)
    BY <1>1, <1>2, <1>3 DEF RedeployInv, Converges
  <2>2. \A g \in Files : r.module[g] = IF g = f THEN to ELSE p.module[g]
    BY <1>14 DEF PassRecord
  <2>3. \A g \in Files : r.module[g] \in {NotBundled, Current(g)}
    BY <1>6, <2>1, <2>2 DEF LoadsCurrent
  <2>4. \A g : Current(g)' = Current(g)
    BY <1>1 DEF Current
  <2>5. \A fn : FreshFunction(fn)' <=> FreshFunction(fn)
    BY <1>1, <2>4 DEF FreshFunction
  <2>. QED
    BY <1>14, <2>1, <2>3, <2>4, <2>5 DEF LoadsCurrent
<1>16. definitions' \in [FunctionKeys -> Versions \cup {None}]
  BY <1>1 DEF RedeployType
<1>. QED
  BY <1>1, <1>2, <1>13, <1>14, <1>15, <1>16, HeadMoves

\* A function of a file that loads becomes its code; one whose file fails stays dropped.
LEMMA LoadKeeps ==
  ASSUME RedeployInv, NEW i \in DOMAIN passes, LoadFunction(i)
  PROVE  RedeployInv'
<1>. RedeployType
  BY DEF RedeployInv
<1>1. i \in 1..Len(passes) /\ passes[i].step = "load" /\ passes[i] \in PassRecord
      /\ passes[i].todo # <<>> /\ UNCHANGED <<source, manifestOk, watching, unseen, armed,
                                             consumer, viewers>>
  BY DEF LoadFunction, RedeployType
<1>2. i = 1 /\ passes # <<>>
  BY <1>1 DEF RedeployInv, Chain
<1>3. PICK p \in PassRecord : p = passes[1]
  BY <1>1, <1>2
<1>4. PICK fn \in FunctionKeys : fn = Head(p.todo)
  BY <1>1, <1>2, <1>3 DEF PassRecord
<1>5. PICK f \in Files : f = FileOf[fn]
  BY DEF Files
<1>6. PICK version \in Versions \cup {Failed} : version = p.module[f]
  BY <1>2, <1>3, <1>4, <1>5 DEF LoadFunction, PassRecord
<1>7. PICK to \in {version, NotBundled} : to = IF version = Failed THEN NotBundled ELSE version
  OBVIOUS
<1>8. /\ passes' = [passes EXCEPT ![1].todo = Tail(@), ![1].module[f] = to]
      /\ definitions' = IF version = Failed THEN definitions
                        ELSE [definitions EXCEPT ![fn] = version]
  BY <1>2, <1>3, <1>4, <1>5, <1>6, <1>7, Zenon DEF LoadFunction
<1>. DEFINE q == [p EXCEPT !.todo = Tail(p.todo), !.module = [p.module EXCEPT ![f] = to]]
<1>9. /\ [p.module EXCEPT ![f] = to] \in [Files -> Versions \cup {NotBundled, Failed}]
      /\ Tail(p.todo) \in Seq(FunctionKeys)
  BY <1>1, <1>2, <1>3 DEF PassRecord
<1>10. q \in PassRecord
  BY <1>9, Zenon DEF PassRecord
<1>11. q.step = p.step /\ q.todo = Tail(p.todo) /\ q.module = [p.module EXCEPT ![f] = to]
  BY Zenon DEF PassRecord
<1>12. Hot(q) <=> Hot(p)
  BY Zenon DEF Hot, PassRecord
<1>13. PICK r \in PassRecord : r = q
  BY <1>10
<1>14. passes' = [passes EXCEPT ![1] = q]
  BY <1>1, <1>2, <1>3, <1>8, Zenon DEF RedeployType, PassRecord
<1>15. r.step = "load" /\ r.todo = Tail(p.todo) /\ r.module = [p.module EXCEPT ![f] = to]
       /\ (Hot(r) <=> Hot(passes[1]))
  BY <1>1, <1>2, <1>3, <1>11, <1>12, <1>13
<1>. HIDE DEF q
<1>16. definitions' \in [FunctionKeys -> Versions \cup {None}]
  BY <1>8 DEF RedeployType
<1>17. Len(passes) = 1 /\ ~armed /\ ~unseen => LoadsCurrent(r)'
  <2>. SUFFICES ASSUME Len(passes) = 1, ~armed, ~unseen
                PROVE  LoadsCurrent(r)'
    OBVIOUS
  <2>1. LoadsCurrent(p)
    BY <1>1, <1>2, <1>3 DEF RedeployInv, Converges
  <2>2. version = Current(f)
    BY <1>6, <2>1 DEF LoadsCurrent, Versions, NotBundled, Failed
  <2>3. \A g \in Files : r.module[g] = IF g = f THEN to ELSE p.module[g]
    BY <1>15 DEF PassRecord
  <2>4. \A g : Current(g)' = Current(g)
    BY <1>1 DEF Current
  <2>5. \A g \in Files : r.module[g] \in {NotBundled, Current(g)'}
    BY <1>7, <2>1, <2>2, <2>3, <2>4 DEF LoadsCurrent
  <2>6. FreshFunction(fn)'
    <3>1. CASE version = Failed
      BY <1>5, <1>8, <2>1, <2>2, <2>4, <3>1 DEF LoadsCurrent, FreshFunction
    <3>2. CASE version # Failed
      BY <1>5, <1>8, <2>2, <2>4, <3>2 DEF FreshFunction, RedeployType
    <3>. QED
      BY <3>1, <3>2
  <2>7. ASSUME NEW g \in FunctionKeys, g # fn, g \notin ToSet(r.todo) \/ Current(FileOf[g]) = Failed
        PROVE  FreshFunction(g)'
    <3>1. g \notin ToSet(p.todo) \/ Current(FileOf[g]) = Failed
      <4>1. ASSUME g \in ToSet(p.todo)
            PROVE  g \in ToSet(r.todo)
        <5>1. PICK j \in 1..Len(p.todo) : p.todo[j] = g
          BY <4>1 DEF ToSet, PassRecord
        <5>2. p.todo \in Seq(FunctionKeys) /\ p.todo # <<>>
          BY <1>1, <1>2, <1>3 DEF PassRecord
        <5>3. j # 1
          BY <1>4, <2>7, <5>1, <5>2
        <5>4. j - 1 \in 1..Len(r.todo) /\ r.todo[j - 1] = g
          BY <1>15, <5>1, <5>2, <5>3
        <5>5. r.todo \in Seq(FunctionKeys)
          BY DEF PassRecord
        <5>. QED
          BY <5>4, <5>5 DEF ToSet
      <4>. QED
        BY <2>7, <4>1
    <3>2. FreshFunction(g)
      BY <2>1, <3>1 DEF LoadsCurrent
    <3>3. definitions'[g] = definitions[g]
      BY <1>8, <2>7 DEF RedeployType
    <3>. QED
      BY <2>4, <3>2, <3>3 DEF FreshFunction
  <2>. QED
    BY <2>4, <2>5, <2>6, <2>7 DEF LoadsCurrent
<1>. QED
  BY <1>1, <1>2, <1>14, <1>13, <1>15, <1>16, <1>17, HeadMoves

\* The pass ends: everything is loaded, and who watches is told.
LEMMA FinishKeeps ==
  ASSUME RedeployInv, NEW i \in DOMAIN passes, FinishPass(i)
  PROVE  RedeployInv'
<1>. RedeployType
  BY DEF RedeployInv
<1>1. i \in 1..Len(passes) /\ passes[i].step = "load" /\ passes[i] \in PassRecord
      /\ passes[i].todo = <<>> /\ UNCHANGED <<source, manifestOk, watching, unseen, armed,
                                              definitions>>
      /\ consumer' = IF definitions[ConsumerKey] # None THEN definitions[ConsumerKey]
                     ELSE consumer
  BY DEF FinishPass, RedeployType
<1>2. i = 1 /\ passes # <<>> /\ passes' = RemoveAt(passes, 1)
  BY <1>1 DEF RedeployInv, Chain, FinishPass
<1>3. /\ viewers' \in [Viewers -> ViewerRecord]
      /\ \A v \in Viewers : ~Stuck(v)' /\ (Shows(v)' => Shows(v))
  <2>1. CASE Hot(passes[1])
    <3>1. viewers' = Tell(FALSE)
      BY <1>2, <2>1, Zenon DEF FinishPass, ReadyTold, Hot
    <3>. QED
      BY <3>1, TellFacts
  <2>2. CASE ~Hot(passes[1])
    <3>1. viewers' = viewers
      BY <1>2, <2>2, Zenon DEF FinishPass, ReadyTold, Hot
    <3>2. \A v \in Viewers : ~Shows(v)
      BY <1>1, <1>2, <2>2 DEF RedeployInv, Chain
    <3>3. \A v \in Viewers : ~Stuck(v)' /\ ~Shows(v)'
      BY <3>1, <3>2 DEF Stuck, Shows
    <3>. QED
      BY <3>1, <3>3 DEF RedeployType
  <2>. QED
    BY <2>1, <2>2
<1>4. Len(passes) = 1 /\ ~armed /\ ~unseen => Fresh'
  <2>. SUFFICES ASSUME Len(passes) = 1, ~armed, ~unseen
                PROVE  Fresh'
    OBVIOUS
  <2>1. LoadsCurrent(passes[1])
    BY <1>1, <1>2 DEF RedeployInv, Converges
  <2>2. \A fn \in FunctionKeys : FreshFunction(fn)
    BY <1>1, <1>2, <2>1 DEF LoadsCurrent, ToSet
  <2>3. \A f : Current(f)' = Current(f)
    BY <1>1 DEF Current
  <2>4. \A fn : FreshFunction(fn)' <=> FreshFunction(fn)
    BY <1>1, <2>3 DEF FreshFunction
  <2>5. ASSUME ConsumerKey \in FunctionKeys, Current(FileOf[ConsumerKey]) # Failed
        PROVE  consumer' = Current(FileOf[ConsumerKey])
    <3>1. definitions[ConsumerKey] = Current(FileOf[ConsumerKey])
      BY <2>2, <2>5 DEF FreshFunction
    <3>2. FileOf[ConsumerKey] \in Files
      BY <2>5 DEF Files
    <3>3. Current(FileOf[ConsumerKey]) \in Versions
      BY <2>5, <3>2, CurrentType
    <3>. QED
      BY <1>1, <3>1, <3>3 DEF Versions, None
  <2>. QED
    BY <2>2, <2>3, <2>4, <2>5 DEF Fresh
<1>. QED
  BY <1>1, <1>2, <1>3, <1>4, HeadLeaves

LEMMA ViewerKeeps ==
  ASSUME RedeployInv, NEW v \in Viewers, ViewerConnects(v) \/ ViewerDropped(v)
  PROVE  RedeployInv'
<1>. RedeployType
  BY DEF RedeployInv
<1>1. PICK on \in BOOLEAN : viewers' = [viewers EXCEPT ![v].connected = on]
  BY DEF ViewerConnects, ViewerDropped
<1>2. UNCHANGED <<source, manifestOk, watching, unseen, armed, passes, definitions, consumer>>
  BY DEF ViewerConnects, ViewerDropped
<1>3. viewers' \in [Viewers -> ViewerRecord]
  BY <1>1, Zenon DEF RedeployType, ViewerRecord
<1>4. \A w \in Viewers : viewers'[w].reloading = viewers[w].reloading
                         /\ viewers'[w].missed = viewers[w].missed
  BY <1>1, Zenon DEF RedeployType, ViewerRecord
<1>5. \A w \in Viewers : (Stuck(w)' <=> Stuck(w)) /\ (Shows(w)' <=> Shows(w))
  BY <1>4, Zenon DEF Stuck, Shows
<1>6. RedeployType' /\ Chain'
  BY <1>2, <1>3, <1>5 DEF RedeployInv, RedeployType, Chain, IsNew
<1>7. Converges'
  BY <1>2 DEF RedeployInv, Converges, LoadsCurrent, Fresh, FreshFunction, Current
<1>. QED
  BY <1>2, <1>5, <1>6, <1>7 DEF RedeployInv

LEMMA NextRedeploy == RedeployInv /\ [RedeployNext]_rdVars => RedeployInv'
<1>. SUFFICES ASSUME RedeployInv, [RedeployNext]_rdVars
              PROVE  RedeployInv'
  OBVIOUS
<1>1. ASSUME NEW ok \in BOOLEAN, SaveManifest(ok)
      PROVE  RedeployInv'
  BY <1>1, SaveKeeps DEF SaveManifest, Saved, RedeployInv, RedeployType
<1>2. CASE UNCHANGED rdVars
  BY <1>2 DEF rdVars, RedeployInv, RedeployType, Chain, IsNew, Converges, LoadsCurrent, Fresh,
              FreshFunction, Current, Shows, Stuck
<1>. QED
  BY <1>1, <1>2, SaveSourceKeeps, WatcherKeeps, ParseKeeps, BundleKeeps, LoadKeeps, FinishKeeps,
     ViewerKeeps DEF RedeployNext

\* Hot redeploy: when every pass has ended, the app is what was saved last and no viewer that
\* got every message still shows a redeploy, for any number of saves, files, functions and
\* viewers, however the saves fall into the passes.
THEOREM RedeploysSettle == WorkbenchSpec => []RedeploySettles
<1>1. WorkbenchInit => RedeployInv
  BY InitRedeploy, WorkbenchParts
<1>2. RedeployInv /\ [WorkbenchNext]_workbenchVars => RedeployInv'
  BY NextRedeploy, WorkbenchParts
<1>3. RedeployInv => RedeploySettles
  <2>. SUFFICES ASSUME RedeployInv, AllQuiet
                PROVE  RedeploySettles
    BY DEF RedeploySettles, SettledMeansFresh, NoViewerStuck
  <2>1. NoViewerStuck
    BY DEF RedeployInv, AllQuiet, NoViewerStuck, Stuck
  <2>2. ASSUME ~unseen, manifestOk, NEW fn \in FunctionKeys
        PROVE  LET f == FileOf[fn] IN
               /\ source[f].ok => /\ definitions[fn] = source[f].version
                                  /\ fn = ConsumerKey => consumer = source[f].version
               /\ ~source[f].ok => definitions[fn] = None
    <3>1. Fresh
      BY <2>2 DEF RedeployInv, Converges, AllQuiet
    <3>2. FileOf[fn] \in Files
      BY DEF Files
    <3>3. /\ source[FileOf[fn]].ok => Current(FileOf[fn]) = source[FileOf[fn]].version
                                      /\ Current(FileOf[fn]) # Failed
          /\ ~source[FileOf[fn]].ok => Current(FileOf[fn]) = Failed
      BY <3>2, CurrentType DEF RedeployInv
    <3>. QED
      BY <3>1, <3>3, Zenon DEF Fresh, FreshFunction
  <2>3. SettledMeansFresh
    BY <2>2, Zenon DEF SettledMeansFresh
  <2>. QED
    BY <2>1, <2>3 DEF RedeploySettles
<1>. QED
  BY <1>1, <1>2, <1>3, PTL DEF WorkbenchSpec

-----------------------------------------------------------------------------
(* The credentials files *)

Places == {"global", "local"}
Stages == {"new", "migrate", "migrating", "load", "prompt", "save", "saving", "done"}
NoCommand == [do |-> "none"]

\* The initial accounts that are of the old kind.
OldIds == {InitialStore.accounts[i].id : i \in {j \in DOMAIN InitialStore.accounts :
                                                  InitialStore.accounts[j].oauth}}
AllNew(s) == \A i \in DOMAIN s.accounts : ~s.accounts[i].oauth

\* A sound store whose accounts of the old kind are initial ones.
IsStore(s) ==
  /\ s = Store(s.accounts, s.tokens) /\ IsSound(s)
  /\ \A i \in DOMAIN s.accounts : s.accounts[i].oauth => s.accounts[i].id \in OldIds

\* No account was replaced while others of the old kind are still there.
Unmixed(s) == \/ AllNew(s)
              \/ \A i \in DOMAIN s.accounts : s.accounts[i].id \in OldIds => s.accounts[i].oauth

\* A file holds the accounts that it should.
PlaceHolds(f, should) == \/ f = Missing /\ should = NoFile
                         \/ IsStore(f) /\ Unmixed(f) /\ Ids(f) = should

\* What loadCredentials() finds where the global file holds g and the app's l.
LoadOf(g, l, local) ==
  LET f == IF local /\ l # Missing THEN l ELSE g
  IN  IF f.tag = "store" THEN f ELSE EmptyStore

\* What the copy of a process, to be written to a place that should hold the accounts
\* before, holds.
CopyHolds(q, before, loaded) ==
  /\ q.at \in {"migrate", "migrating"} =>
       Ids(q.copy) = before \ OldIds /\ AllNew(q.copy)
  /\ q.at = "load" /\ q.command.cli => AllNew(loaded)
  /\ q.at \in {"prompt", "save", "saving"} =>
       /\ Unmixed(q.copy)
       /\ Ids(q.copy) = CASE q.command.do = "add" -> before \cup {q.command.account}
                          [] q.command.do = "remove" -> before \ {q.command.account}
                          [] q.command.do = "clear" -> {}
                          [] OTHER -> before

IsProcess(q) ==
  /\ q = [at |-> q.at, command |-> q.command, copy |-> q.copy, place |-> q.place]
  /\ q.at \in Stages /\ q.place \in Places /\ IsStore(q.copy)
  /\ q.at # "new" => q.command \in Commands
  /\ q.at \in {"migrate", "migrating"} => q.command.cli
  /\ q.at \in {"migrate", "migrating", "load"} => q.place = PlaceOf(q.command)
  /\ q.at \in {"prompt", "save", "saving"} /\ q.command.do # "clear" =>
       q.place = PlaceOf(q.command)

CredentialsTyped ==
  /\ DOMAIN file = Places /\ DOMAIN proc = Processes /\ DOMAIN kept = Places
  /\ \A place \in Places : file[place] \in {Missing, Torn} \/ IsStore(file[place])
  /\ file["global"] # Missing
  /\ \A p \in Processes : IsProcess(proc[p])

\* The accounts that a place should have, by what is kept of both.
BeforeOf(keeps, place) == IF keeps[place] = NoFile THEN keeps["global"] ELSE keeps[place]

AtWork(q) == q.at \notin {"new", "done"}
Writes(q) == q.at \in {"migrating", "saving"}
PlaceNamed(should) == should \in SUBSET AccountIds \/ should = NoFile

CredentialsInv ==
  /\ CredentialsTyped
  /\ ~spoiled =>
       /\ \A p, q \in Processes : AtWork(proc[p]) /\ AtWork(proc[q]) => p = q
       /\ \A place \in Places :
            /\ PlaceNamed(kept[place])
            /\ \/ \E p \in Processes : Writes(proc[p]) /\ proc[p].place = place
               \/ PlaceHolds(file[place], kept[place])
       /\ kept["global"] # NoFile
       /\ \A p \in Processes :
            AtWork(proc[p]) =>
              CopyHolds(proc[p], BeforeOf(kept, proc[p].place),
                        LoadOf(file["global"], file["local"], proc[p].command.local))
(* What filter() leaves, and the places it is from. *)
LEMMA AmongIs ==
    ASSUME NEW T, NEW s \in Seq(T), NEW S, NEW r, r = Among(s, S)
    PROVE  r \in Seq(T) /\ \E g : PicksUpTo(Len(s), g, r, s, S)
PROOF
  <1>1. Among(s, S) = Filtering(s, S)[Len(s)]
    BY DEF Among, Filtering, Filters
  <1> QED BY <1>1, FilterIs

\* Accounts that fit together.
AreDistinct(a) ==
  \A i, j \in DOMAIN a : a[i].id = a[j].id \/ (a[i].default /\ a[j].default) => i = j

(* The accounts that a filter leaves are those of the sequence, and fit together. *)
LEMMA AccountsAmong ==
    ASSUME NEW a \in Seq(Accounts), AreDistinct(a), NEW S, NEW r, r = Among(a, S)
    PROVE  /\ r \in Seq(Accounts) /\ AreDistinct(r)
           /\ \A i \in DOMAIN r : r[i] \in S /\ \E k \in DOMAIN a : r[i] = a[k]
           /\ \A k \in DOMAIN a : a[k] \in S => \E i \in DOMAIN r : r[i] = a[k]
PROOF
  <1>1. r \in Seq(Accounts)
    BY AmongIs
  <1>2. PICK g : PicksUpTo(Len(a), g, r, a, S)
    BY AmongIs
  <1>3. PICK n \in Nat : n = Len(r) /\ DOMAIN r = 1..n
    BY <1>1
  <1>4. PICK m \in Nat : m = Len(a) /\ DOMAIN a = 1..m
    OBVIOUS
  <1>5. /\ g \in [1..n -> 1..m]
        /\ \A i \in 1..n : r[i] = a[g[i]] /\ r[i] \in S
        /\ \A i, j \in 1..n : i < j => g[i] < g[j]
        /\ \A k \in 1..m : a[k] \in S => \E i \in 1..n : g[i] = k
    BY <1>2, <1>3, <1>4 DEF PicksUpTo
  <1>6. \A i \in 1..n : g[i] \in 1..m
    BY <1>5
  <1>7. AreDistinct(r)
    <2>1. ASSUME NEW i \in 1..n, NEW j \in 1..n,
                 r[i].id = r[j].id \/ (r[i].default /\ r[j].default)
          PROVE  i = j
      <3>1. g[i] = g[j]
        BY <1>4, <1>5, <1>6, <2>1 DEF AreDistinct
      <3>2. g[i] \in Int /\ g[j] \in Int
        BY <1>6
      <3> QED BY <1>5, <3>1, <3>2
    <2> QED BY <1>3, <2>1 DEF AreDistinct
  <1>8. \A i \in DOMAIN r : r[i] \in S /\ \E k \in DOMAIN a : r[i] = a[k]
    BY <1>3, <1>4, <1>5, <1>6
  <1>9. \A k \in DOMAIN a : a[k] \in S => \E i \in DOMAIN r : r[i] = a[k]
    BY <1>3, <1>4, <1>5
  <1> QED BY <1>1, <1>7, <1>8, <1>9

(* The parts of a store. *)
LEMMA StoreIs ==
    ASSUME NEW a \in Seq(Accounts), NEW T, AreDistinct(a),
           \A x \in T : \E i \in DOMAIN a : a[i].id = x,
           \A i \in DOMAIN a : a[i].oauth => a[i].id \in OldIds
    PROVE  /\ IsStore(Store(a, T)) /\ Store(a, T).accounts = a /\ Store(a, T).tokens = T
           /\ Store(a, T).tag = "store"
PROOF
  <1>1. PICK s : s = Store(a, T)
    OBVIOUS
  <1>2. s.accounts = a /\ s.tokens = T /\ s.tag = "store" /\ s = Store(s.accounts, s.tokens)
    BY <1>1 DEF Store
  <1>3. \A x \in T : x \in Ids(s)
    BY <1>2 DEF Ids
  <1>4. IsSound(s)
    BY <1>2, <1>3 DEF IsSound, AreDistinct
  <1>5. IsStore(s)
    BY <1>2, <1>4 DEF IsStore
  <1> QED BY <1>1, <1>2, <1>5

(* What a store has. *)
LEMMA StoreHas ==
    ASSUME NEW s, IsStore(s)
    PROVE  /\ s = Store(s.accounts, s.tokens) /\ s.tag = "store"
           /\ s.accounts \in Seq(Accounts) /\ AreDistinct(s.accounts)
           /\ \A i \in DOMAIN s.accounts : s.accounts[i].oauth => s.accounts[i].id \in OldIds
           /\ \A x \in s.tokens : x \in Ids(s)
           /\ \A x : x \in Ids(s) <=> \E i \in DOMAIN s.accounts : s.accounts[i].id = x
           /\ Ids(s) \in SUBSET AccountIds
           /\ s # Missing /\ s # Torn
PROOF
  <1>1. s = Store(s.accounts, s.tokens) /\ IsSound(s)
        /\ \A i \in DOMAIN s.accounts : s.accounts[i].oauth => s.accounts[i].id \in OldIds
    BY DEF IsStore
  <1>2. s.tag = "store"
    BY <1>1 DEF Store
  <1>3. s # Missing /\ s # Torn
    BY <1>2 DEF Missing, Torn
  <1>4. s.accounts \in Seq(Accounts) /\ s.tokens \subseteq Ids(s) /\ AreDistinct(s.accounts)
    BY <1>1 DEF IsSound, AreDistinct
  <1>5. \A x : x \in Ids(s) <=> \E i \in DOMAIN s.accounts : s.accounts[i].id = x
    BY DEF Ids
  <1>6. ASSUME NEW i \in DOMAIN s.accounts PROVE s.accounts[i].id \in AccountIds
    <2>1. s.accounts[i] \in Accounts
      BY <1>4
    <2> QED BY <2>1 DEF Accounts
  <1> QED BY <1>1, <1>2, <1>3, <1>4, <1>5, <1>6

(* An account by its parts. *)
LEMMA AccountIs ==
    ASSUME NEW id \in AccountIds, NEW default \in BOOLEAN, NEW oauth \in BOOLEAN
    PROVE  LET x == Account(id, default, oauth)
           IN  x \in Accounts /\ x.id = id /\ x.default = default /\ x.oauth = oauth
BY DEF Account, Accounts

(* The default mark moves to the accounts with one name. *)
LEMMA DefaultMoves ==
    ASSUME NEW a \in Seq(Accounts), NEW id,
           \A i, j \in DOMAIN a : a[i].id = a[j].id => i = j,
           NEW r, r = OnlyDefault(a, id)
    PROVE  /\ r \in Seq(Accounts) /\ DOMAIN r = DOMAIN a /\ AreDistinct(r)
           /\ \A i \in DOMAIN a : r[i].id = a[i].id /\ r[i].oauth = a[i].oauth
PROOF
  <1>1. PICK n \in Nat : n = Len(a) /\ DOMAIN a = 1..n
    OBVIOUS
  <1>2. \A i \in 1..n : a[i] \in Accounts
    BY <1>1
  <1>3. r = [i \in 1..n |-> [a[i] EXCEPT !.default = a[i].id = id]]
    BY <1>1 DEF OnlyDefault
  <1>4. ASSUME NEW i \in 1..n
        PROVE  /\ r[i] \in Accounts /\ r[i].id = a[i].id /\ r[i].oauth = a[i].oauth
               /\ r[i].default = (a[i].id = id)
    <2>1. r[i] = [a[i] EXCEPT !.default = a[i].id = id]
      BY <1>3
    <2>2. a[i] \in Accounts
      BY <1>2
    <2> QED BY <2>1, <2>2 DEF Accounts
  <1>5. DOMAIN r = 1..n
    BY <1>3
  <1>6. r \in [1..n -> Accounts]
    BY <1>3, <1>4, <1>5
  <1>7. r \in Seq(Accounts)
    BY <1>6, SeqDef
  <1>8. AreDistinct(r)
    <2>1. ASSUME NEW i \in 1..n, NEW j \in 1..n,
                 r[i].id = r[j].id \/ (r[i].default /\ r[j].default)
          PROVE  i = j
      <3>1. a[i].id = a[j].id
        BY <1>4, <2>1
      <3> QED BY <1>1, <3>1
    <2> QED BY <1>5, <2>1 DEF AreDistinct
  <1> QED BY <1>1, <1>4, <1>5, <1>7, <1>8

(* An account is added, or takes the place of the one of its name. *)
LEMMA AccountAdded ==
    ASSUME NEW s, IsStore(s), NEW id \in AccountIds, NEW r, r = UpsertAccount(s, id)
    PROVE  IsStore(r) /\ Ids(r) = Ids(s) \cup {id} /\ (AllNew(s) => AllNew(r))
PROOF
  <1> DEFINE a == s.accounts
             new == Account(id, TRUE, FALSE)
             I == {i \in 1..Len(a) : a[i].id = id}
             known == SelectInSeq(a, LAMBDA x : x.id = id)
  <1>0. PICK place : place = known
    OBVIOUS
  <1> DEFINE list == IF place > 0 THEN ReplaceAt(a, place, new) ELSE Append(a, new)
  <1>1. /\ a \in Seq(Accounts) /\ AreDistinct(a) /\ s = Store(a, s.tokens)
        /\ \A i \in DOMAIN a : a[i].oauth => a[i].id \in OldIds
        /\ \A x \in s.tokens : x \in Ids(s)
        /\ \A x : x \in Ids(s) <=> \E i \in DOMAIN a : a[i].id = x
    BY StoreHas
  <1>2. PICK n \in Nat : n = Len(a) /\ DOMAIN a = 1..n
    BY <1>1
  <1>3. new \in Accounts /\ new.id = id /\ new.oauth = FALSE
    BY AccountIs
  <1>4. \A i \in 1..n : a[i] \in Accounts
    BY <1>1, <1>2
  <1>5. \A i, j \in 1..n : a[i].id = a[j].id => i = j
    BY <1>1, <1>2 DEF AreDistinct
  <1>6. r = Store(OnlyDefault(list, id), s.tokens)
    <2>1. r = [s EXCEPT !.accounts = OnlyDefault(list, id)]
      BY <1>0 DEF UpsertAccount
    <2> HIDE DEF list
    <2> QED BY <1>1, <2>1 DEF Store
  <1>7. /\ list \in Seq(Accounts) /\ \A i, j \in DOMAIN list : list[i].id = list[j].id => i = j
        /\ \A i \in DOMAIN list : list[i] = new \/ \E k \in 1..n : list[i] = a[k]
        /\ \E i \in DOMAIN list : list[i].id = id
        /\ \A k \in 1..n : \E i \in DOMAIN list : list[i].id = a[k].id
    <2>1. CASE I = {}
      <3>1. place = 0
        BY <1>0, <2>1 DEF SelectInSeq
      <3>2. list = Append(a, new)
        BY <3>1
      <3>3. \A i \in 1..n : a[i].id # id
        BY <1>2, <2>1
      <3> HIDE DEF list, a, new
      <3>4. /\ list \in Seq(Accounts) /\ DOMAIN list = 1..n + 1 /\ list[n + 1] = new
            /\ \A i \in 1..n : list[i] = a[i]
        BY <1>1, <1>2, <1>3, <3>2
      <3>5. \A i \in 1..n + 1 : i \in 1..n \/ i = n + 1
        OBVIOUS
      <3>6. n + 1 \in DOMAIN list /\ \A k \in 1..n : k \in DOMAIN list
        BY <3>4
      <3>7. \A i, j \in DOMAIN list : list[i].id = list[j].id => i = j
        BY <1>3, <1>5, <3>3, <3>4, <3>5
      <3>8. \A i \in DOMAIN list : list[i] = new \/ \E k \in 1..n : list[i] = a[k]
        BY <3>4, <3>5
      <3> QED BY <1>3, <3>4, <3>6, <3>7, <3>8
    <2>2. CASE I # {}
      <3>1. PICK k \in I : \A j \in I : k <= j
        BY <1>2, <2>2, FirstPlace
      <3>2. place = k
        <4>1. Min(I) = k
          <5>1. k \in Int /\ \A j \in I : k <= j /\ j \in Int
            BY <3>1
          <5> HIDE DEF I
          <5> QED BY <5>1, MinIs
        <4> QED BY <1>0, <2>2, <4>1 DEF SelectInSeq
      <3>3. k \in 1..n /\ a[k].id = id
        BY <1>2
      <3>4. list = ReplaceAt(a, k, new)
        <4>1. place > 0
          BY <3>2, <3>3
        <4> QED BY <3>2, <4>1, Zenon
      <3> HIDE DEF list, a, new, I
      <3>5. list = [i \in 1..n |-> IF i = k THEN new ELSE a[i]]
        BY <1>2, <3>4 DEF ReplaceAt
      <3>6. DOMAIN list = 1..n /\ list[k] = new /\ \A i \in 1..n : i # k => list[i] = a[i]
        BY <3>3, <3>5
      <3>7. list \in [1..n -> Accounts]
        BY <1>3, <1>4, <3>5
      <3>8. list \in Seq(Accounts)
        BY <3>7, SeqDef
      <3>9. \A i \in 1..n : list[i].id = a[i].id
        BY <1>3, <3>3, <3>6
      <3>10. \A i, j \in DOMAIN list : list[i].id = list[j].id => i = j
        BY <1>5, <3>6, <3>9
      <3>11. \A i \in DOMAIN list : list[i] = new \/ \E j \in 1..n : list[i] = a[j]
        BY <3>6
      <3> QED BY <3>3, <3>6, <3>8, <3>9, <3>10, <3>11
    <2> QED BY <2>1, <2>2
  <1> HIDE DEF list, known, new, I
  <1>8. PICK b : b = OnlyDefault(list, id)
    OBVIOUS
  <1>9. /\ b \in Seq(Accounts) /\ DOMAIN b = DOMAIN list /\ AreDistinct(b)
        /\ \A i \in DOMAIN b : b[i].id = list[i].id /\ b[i].oauth = list[i].oauth
    BY <1>7, <1>8, DefaultMoves
  <1>10. \A i \in DOMAIN b : b[i].oauth => \E k \in 1..n : list[i] = a[k] /\ a[k].oauth
    BY <1>3, <1>7, <1>9
  <1>11. \A i \in DOMAIN b : b[i].oauth => b[i].id \in OldIds
    BY <1>1, <1>2, <1>9, <1>10
  <1>12. \A x : (\E i \in DOMAIN b : b[i].id = x) <=> x = id \/ \E k \in 1..n : a[k].id = x
    <2>1. ASSUME NEW i \in DOMAIN b PROVE b[i].id = id \/ \E k \in 1..n : a[k].id = b[i].id
      <3>1. i \in DOMAIN list /\ b[i].id = list[i].id
        BY <1>9
      <3>2. list[i] = new \/ \E k \in 1..n : list[i] = a[k]
        BY <1>7, <3>1
      <3> QED BY <1>3, <3>1, <3>2
    <2>2. \E i \in DOMAIN b : b[i].id = id
      BY <1>7, <1>9
    <2>3. \A k \in 1..n : \E i \in DOMAIN b : b[i].id = a[k].id
      BY <1>7, <1>9
    <2> QED BY <2>1, <2>2, <2>3
  <1>13. \A x \in s.tokens : \E i \in DOMAIN b : b[i].id = x
    BY <1>1, <1>2, <1>12
  <1>14. IsStore(r) /\ r.accounts = b
    BY <1>6, <1>8, <1>9, <1>11, <1>13, StoreIs
  <1>15. \A x : x \in Ids(r) <=> x \in Ids(s) \/ x = id
    BY <1>1, <1>2, <1>12, <1>14 DEF Ids
  <1>16. AllNew(s) => AllNew(r)
    BY <1>2, <1>10, <1>14 DEF AllNew
  <1> QED BY <1>14, <1>15, <1>16

(* An account is removed; the first that is left may take over as the default. *)
LEMMA AccountRemoved ==
    ASSUME NEW s, IsStore(s), NEW id, NEW r, r = RemoveAccount(s, id)
    PROVE  IsStore(r) /\ Ids(r) = Ids(s) \ {id} /\ (AllNew(s) => AllNew(r))
PROOF
  <1> DEFINE a == s.accounts
             others == {x \in ToSet(a) : x.id # id}
  <1>1. /\ a \in Seq(Accounts) /\ AreDistinct(a)
        /\ \A i \in DOMAIN a : a[i].oauth => a[i].id \in OldIds
        /\ \A x \in s.tokens : x \in Ids(s)
        /\ \A x : x \in Ids(s) <=> \E i \in DOMAIN a : a[i].id = x
    BY StoreHas
  <1>2. \A i \in DOMAIN a : a[i] \in others <=> a[i].id # id
    BY DEF ToSet
  <1>3. PICK b : b = Among(a, others)
    OBVIOUS
  <1>4. \A x \in others : x.id # id
    OBVIOUS
  <1>5. WithoutAccount(s, id) = Store(b, s.tokens \ {id})
    BY <1>3 DEF WithoutAccount
  <1> HIDE DEF a, others
  <1>6. /\ b \in Seq(Accounts) /\ AreDistinct(b)
        /\ \A i \in DOMAIN b : b[i] \in others /\ \E k \in DOMAIN a : b[i] = a[k]
        /\ \A k \in DOMAIN a : a[k] \in others => \E i \in DOMAIN b : b[i] = a[k]
    BY <1>1, <1>3, AccountsAmong
  <1>7. \A x : (\E i \in DOMAIN b : b[i].id = x) <=> x \in Ids(s) /\ x # id
    <2>1. ASSUME NEW i \in DOMAIN b PROVE b[i].id \in Ids(s) /\ b[i].id # id
      BY <1>1, <1>4, <1>6
    <2>2. ASSUME NEW x \in Ids(s), x # id PROVE \E i \in DOMAIN b : b[i].id = x
      <3>1. PICK k \in DOMAIN a : a[k].id = x
        BY <1>1
      <3>2. PICK i \in DOMAIN b : b[i] = a[k]
        BY <1>2, <1>6, <2>2, <3>1
      <3> QED BY <3>1, <3>2
    <2> QED BY <2>1, <2>2
  <1>8. \A i \in DOMAIN b : b[i].oauth => b[i].id \in OldIds /\ \E k \in DOMAIN a : a[k].oauth
    BY <1>1, <1>6
  <1>9. PICK T : T = s.tokens \ {id}
    OBVIOUS
  <1>10. \A x \in T : \E i \in DOMAIN b : b[i].id = x
    BY <1>1, <1>7, <1>9
  <1>11. PICK left : left = Store(b, T)
    OBVIOUS
  <1>12. IsStore(left) /\ left.accounts = b /\ left.tokens = T
    BY <1>6, <1>8, <1>10, <1>11, StoreIs
  <1>13. r = IF IsEmpty(left) \/ \E i \in DOMAIN left.accounts : left.accounts[i].default
             THEN left ELSE [left EXCEPT !.accounts[1].default = TRUE]
    BY <1>5, <1>9, <1>11 DEF RemoveAccount
  <1>14. CASE r = left
    <2>1. \A x : x \in Ids(r) <=> x \in Ids(s) /\ x # id
      BY <1>7, <1>12, <1>14 DEF Ids
    <2>2. AllNew(s) => AllNew(r)
      BY <1>8, <1>12, <1>14 DEF AllNew, a
    <2> QED BY <1>12, <1>14, <2>1, <2>2
  <1>15. CASE ~IsEmpty(left) /\ ~\E i \in DOMAIN left.accounts : left.accounts[i].default
    <2>1. b # <<>> /\ \A i \in DOMAIN b : ~b[i].default
      BY <1>12, <1>15 DEF IsEmpty
    <2>2. PICK n \in Nat : n = Len(b) /\ DOMAIN b = 1..n
      BY <1>6
    <2>3. 1 \in 1..n
      BY <1>6, <2>1, <2>2, EmptySeq
    <2>4. \A i \in 1..n : b[i] \in Accounts
      BY <1>6, <2>2
    <2>5. PICK x : x = [b[1] EXCEPT !.default = TRUE]
      OBVIOUS
    <2>6. x \in Accounts /\ x.id = b[1].id /\ x.oauth = b[1].oauth
      BY <2>3, <2>4, <2>5 DEF Accounts
    <2>7. PICK c : c = [b EXCEPT ![1] = x]
      OBVIOUS
    <2>8. DOMAIN c = 1..n /\ c[1] = x /\ \A i \in 1..n : i # 1 => c[i] = b[i]
      BY <2>2, <2>3, <2>7
    <2>9. c \in Seq(Accounts)
      <3>1. c \in [1..n -> Accounts]
        BY <2>2, <2>4, <2>6, <2>7
      <3> QED BY <3>1, SeqDef
    <2>10. \A i \in 1..n : c[i].id = b[i].id /\ c[i].oauth = b[i].oauth
      BY <2>6, <2>8
    <2>11. \A i \in 1..n : c[i].default => i = 1
      BY <2>1, <2>2, <2>4, <2>8
    <2>12. AreDistinct(c)
      <3>1. ASSUME NEW i \in 1..n, NEW j \in 1..n,
                   c[i].id = c[j].id \/ (c[i].default /\ c[j].default)
            PROVE  i = j
        <4>1. CASE c[i].id = c[j].id
          BY <1>6, <2>2, <2>10, <4>1 DEF AreDistinct
        <4>2. CASE c[i].default /\ c[j].default
          BY <2>11, <4>2
        <4> QED BY <3>1, <4>1, <4>2
      <3> QED BY <2>8, <3>1 DEF AreDistinct
    <2>13. r = Store(c, T)
      <3>1. r = [left EXCEPT !.accounts = c]
        <4>1. r = [left EXCEPT !.accounts[1].default = TRUE]
          BY <1>13, <1>15
        <4>2. r = [left EXCEPT !.accounts = [left.accounts EXCEPT ![1] = [left.accounts[1] EXCEPT !.default = TRUE]]]
          BY <4>1
        <4> QED BY <1>12, <2>5, <2>7, <4>2
      <3> QED BY <1>11, <3>1 DEF Store
    <2>14. \A y \in T : \E i \in DOMAIN c : c[i].id = y
      BY <1>10, <2>2, <2>8, <2>10
    <2>15. \A i \in DOMAIN c : c[i].oauth => c[i].id \in OldIds
      BY <1>8, <2>2, <2>8, <2>10
    <2>16. IsStore(r) /\ r.accounts = c
      BY <2>9, <2>12, <2>13, <2>14, <2>15, StoreIs
    <2>17. \A y : y \in Ids(r) <=> y \in Ids(s) /\ y # id
      <3>1. \A y : (\E i \in 1..n : c[i].id = y) <=> y \in Ids(s) /\ y # id
        BY <1>7, <2>2, <2>10
      <3>2. \A y : y \in Ids(r) <=> \E i \in 1..n : c[i].id = y
        BY <2>8, <2>16 DEF Ids
      <3> QED BY <3>1, <3>2
    <2>18. AllNew(s) => AllNew(r)
      BY <1>8, <2>2, <2>8, <2>10, <2>16 DEF AllNew, a
    <2> QED BY <2>16, <2>17, <2>18
  <1> QED BY <1>13, <1>14, <1>15

(* The accounts of the old kind are dropped. *)
LEMMA OldDropped ==
    ASSUME NEW s, IsStore(s), NEW r, r = DropOAuthAccounts(s)
    PROVE  /\ IsStore(r) /\ AllNew(r)
           /\ Unmixed(s) /\ r # s => Ids(r) = Ids(s) \ OldIds
PROOF
  <1> DEFINE a == s.accounts
             dropped == {x \in ToSet(a) : x.oauth}
             others == ToSet(a) \ dropped
             T == s.tokens \ {x.id : x \in dropped}
  <1>1. /\ a \in Seq(Accounts) /\ AreDistinct(a) /\ s = Store(a, s.tokens)
        /\ \A i \in DOMAIN a : a[i].oauth => a[i].id \in OldIds
        /\ \A x \in s.tokens : x \in Ids(s)
        /\ \A x : x \in Ids(s) <=> \E i \in DOMAIN a : a[i].id = x
    BY StoreHas
  <1>2. \A i \in DOMAIN a : a[i] \in others <=> ~a[i].oauth
    BY DEF ToSet
  <1>3. PICK b : b = Among(a, others)
    OBVIOUS
  <1>4. \A x \in others : ~x.oauth
    OBVIOUS
  <1>5. r = Store(b, T)
    BY <1>3 DEF DropOAuthAccounts
  <1>6. \A x \in T : x \in s.tokens /\ \A i \in DOMAIN a : a[i].oauth => a[i].id # x
    BY DEF ToSet
  <1> HIDE DEF a, dropped, others, T
  <1>7. /\ b \in Seq(Accounts) /\ AreDistinct(b)
        /\ \A i \in DOMAIN b : b[i] \in others /\ \E k \in DOMAIN a : b[i] = a[k]
        /\ \A k \in DOMAIN a : a[k] \in others => \E i \in DOMAIN b : b[i] = a[k]
    BY <1>1, <1>3, AccountsAmong
  <1>8. \A i \in DOMAIN b : ~b[i].oauth
    BY <1>4, <1>7
  <1>9. ASSUME NEW x \in T PROVE \E i \in DOMAIN b : b[i].id = x
    <2>1. PICK k \in DOMAIN a : a[k].id = x
      BY <1>1, <1>6
    <2>2. PICK i \in DOMAIN b : b[i] = a[k]
      BY <1>2, <1>6, <1>7, <2>1
    <2> QED BY <2>1, <2>2
  <1>10. IsStore(r) /\ r.accounts = b
    BY <1>5, <1>7, <1>8, <1>9, StoreIs
  <1>11. AllNew(r)
    BY <1>8, <1>10 DEF AllNew
  <1>12. ASSUME Unmixed(s), r # s PROVE Ids(r) = Ids(s) \ OldIds
    <2>1. ~AllNew(s)
      <3>1. ASSUME \A i \in DOMAIN a : ~a[i].oauth PROVE r = s
        <4>1. DOMAIN a = 1..Len(a) /\ \A i \in 1..Len(a) : a[i] \in others
          BY <1>1, <1>2, <3>1
        <4>2. Among(a, others) = Filtering(a, others)[Len(a)]
          BY DEF Among, Filtering, Filters
        <4>3. b = a
          BY <1>1, <1>3, <4>1, <4>2, FilterOfAll
        <4>4. \A x \in dropped : \E i \in DOMAIN a : a[i] = x /\ a[i].oauth
          BY DEF dropped, ToSet
        <4>5. dropped = {}
          BY <3>1, <4>4
        <4>6. T = s.tokens
          BY <4>5 DEF T
        <4> QED BY <1>1, <1>5, <4>3, <4>6
      <3> QED BY <1>12, <3>1 DEF AllNew, a
    <2>2. ASSUME NEW i \in DOMAIN b PROVE b[i].id \in Ids(s) /\ b[i].id \notin OldIds
      <3>1. PICK k \in DOMAIN a : b[i] = a[k]
        BY <1>7
      <3>2. ~a[k].oauth
        BY <1>8, <3>1
      <3>3. a[k].id \notin OldIds
        BY <1>12, <2>1, <3>2 DEF Unmixed, a
      <3> QED BY <1>1, <3>1, <3>3
    <2>3. ASSUME NEW x \in Ids(s), x \notin OldIds PROVE \E i \in DOMAIN b : b[i].id = x
      <3>1. PICK k \in DOMAIN a : a[k].id = x
        BY <1>1
      <3>2. PICK i \in DOMAIN b : b[i] = a[k]
        BY <1>1, <1>2, <1>7, <2>3, <3>1
      <3> QED BY <3>1, <3>2
    <2>4. \A x : x \in Ids(r) <=> \E i \in DOMAIN b : b[i].id = x
      BY <1>10 DEF Ids
    <2> QED BY <2>2, <2>3, <2>4
  <1> QED BY <1>10, <1>11, <1>12

(* The default account is one of the accounts. *)
LEMMA DefaultIs ==
    ASSUME NEW s, IsStore(s), ~IsEmpty(s)
    PROVE  DefaultAccount(s) \in Ids(s)
PROOF
  <1> DEFINE a == s.accounts
             I == {i \in 1..Len(a) : a[i].default}
  <1>1. a \in Seq(Accounts) /\ a # <<>>
        /\ \A x : x \in Ids(s) <=> \E i \in DOMAIN a : a[i].id = x
    BY StoreHas DEF IsEmpty
  <1>2. PICK n \in Nat : n = Len(a) /\ DOMAIN a = 1..n
    BY <1>1
  <1>3. 1 \in 1..n
    BY <1>1, <1>2, EmptySeq
  <1>4. PICK i : i = SelectInSeq(a, LAMBDA x : x.default)
    OBVIOUS
  <1>5. i = 0 \/ i \in 1..n
    <2>1. CASE I = {}
      BY <1>4, <2>1 DEF SelectInSeq
    <2>2. CASE I # {}
      <3>1. PICK k \in I : \A j \in I : k <= j
        BY <1>2, <2>2, FirstPlace
      <3>2. Min(I) = k
        <4>1. k \in Int /\ \A j \in I : k <= j /\ j \in Int
          BY <3>1
        <4> HIDE DEF I
        <4> QED BY <4>1, MinIs
      <3>3. i = k
        BY <1>4, <2>2, <3>2 DEF SelectInSeq
      <3> QED BY <1>2, <3>3
    <2> QED BY <2>1, <2>2
  <1>6. DefaultAccount(s) = a[IF i > 0 THEN i ELSE 1].id
    BY <1>4 DEF DefaultAccount
  <1>7. PICK k \in 1..n : k = IF i > 0 THEN i ELSE 1
    BY <1>3, <1>5
  <1>8. DefaultAccount(s) = a[k].id
    BY <1>6, <1>7
  <1> QED BY <1>1, <1>2, <1>8

(* What a command makes of its copy. *)
LEMMA CopyIsChanged ==
    ASSUME NEW s, IsStore(s), NEW command \in Commands, Applies(s, command),
           NEW r, r = Changed(s, command)
    PROVE  /\ IsStore(r)
           /\ AllNew(s) => AllNew(r)
           /\ command.do \in {"connect", "disconnect"} => r.accounts = s.accounts
           /\ command.do = "add" => Ids(r) = Ids(s) \cup {command.account}
           /\ command.do = "remove" => Ids(r) = Ids(s) \ {command.account}
           /\ command.do = "clear" => r = EmptyStore /\ Ids(r) = {} /\ AllNew(r)
           /\ command.do \notin {"add", "remove", "clear"} => Ids(r) = Ids(s)
PROOF
  <1>1. command.do \in Tasks /\ command.account \in AccountIds
    BY CredentialsAssumption
  <1>2. /\ s.accounts \in Seq(Accounts) /\ AreDistinct(s.accounts) /\ s = Store(s.accounts, s.tokens)
        /\ \A i \in DOMAIN s.accounts : s.accounts[i].oauth => s.accounts[i].id \in OldIds
        /\ \A x \in s.tokens : x \in Ids(s)
        /\ \A x : x \in Ids(s) <=> \E i \in DOMAIN s.accounts : s.accounts[i].id = x
    BY StoreHas
  <1>3. CASE command.do = "add"
    <2>1. r = UpsertAccount(s, command.account)
      BY <1>3 DEF Changed
    <2> QED BY <1>1, <1>3, <2>1, AccountAdded
  <1>4. CASE command.do = "remove"
    <2>1. r = RemoveAccount(s, command.account)
      BY <1>4 DEF Changed
    <2> QED BY <1>4, <2>1, AccountRemoved
  <1>5. CASE command.do = "clear"
    <2>1. r = EmptyStore
      BY <1>5 DEF Changed
    <2>2. EmptyStore.accounts = <<>> /\ EmptyStore.tokens = {} /\ EmptyStore = Store(<<>>, {})
      BY DEF EmptyStore, Store
    <2>3. IsStore(EmptyStore) /\ AllNew(EmptyStore) /\ Ids(EmptyStore) = {}
      <3>1. <<>> \in Seq(Accounts) /\ DOMAIN <<>> = {}
        OBVIOUS
      <3> QED BY <2>2, <3>1 DEF IsStore, IsSound, AllNew, Ids
    <2> QED BY <1>5, <2>1, <2>3
  <1>6. CASE command.do = "select"
    <2>1. PICK b : b = OnlyDefault(s.accounts, command.account)
      OBVIOUS
    <2>2. /\ b \in Seq(Accounts) /\ DOMAIN b = DOMAIN s.accounts /\ AreDistinct(b)
          /\ \A i \in DOMAIN s.accounts : b[i].id = s.accounts[i].id /\ b[i].oauth = s.accounts[i].oauth
      <3>1. \A i, j \in DOMAIN s.accounts : s.accounts[i].id = s.accounts[j].id => i = j
        BY <1>2 DEF AreDistinct
      <3> QED BY <1>2, <2>1, <3>1, DefaultMoves
    <2>3. r = Store(b, s.tokens)
      <3>1. r = [s EXCEPT !.accounts = b]
        BY <1>6, <2>1 DEF Changed
      <3> QED BY <1>2, <3>1 DEF Store
    <2>4. \A x \in s.tokens : \E i \in DOMAIN b : b[i].id = x
      BY <1>2, <2>2
    <2>5. \A i \in DOMAIN b : b[i].oauth => b[i].id \in OldIds
      BY <1>2, <2>2
    <2>6. IsStore(r) /\ r.accounts = b
      BY <2>2, <2>3, <2>4, <2>5, StoreIs
    <2>7. \A x : x \in Ids(r) <=> x \in Ids(s)
      <3>1. \A x : x \in Ids(r) <=> \E i \in DOMAIN b : b[i].id = x
        BY <2>6 DEF Ids
      <3> QED BY <1>2, <2>2, <3>1
    <2>8. AllNew(s) => AllNew(r)
      BY <2>2, <2>6 DEF AllNew
    <2> QED BY <1>6, <2>6, <2>7, <2>8
  <1>7. CASE command.do \in {"connect", "disconnect"}
    <2>1. ~IsEmpty(s)
      BY <1>7 DEF Applies
    <2>2. PICK T : T = IF command.do = "connect" THEN s.tokens \cup {DefaultAccount(s)}
                       ELSE s.tokens \ {DefaultAccount(s)}
      OBVIOUS
    <2>3. r = Store(s.accounts, T)
      <3>1. r = [s EXCEPT !.tokens = T]
        BY <1>7, <2>2 DEF Changed, Connected, Disconnected
      <3> QED BY <1>2, <3>1 DEF Store
    <2>4. \A x \in T : x \in Ids(s)
      BY <1>2, <2>1, <2>2, DefaultIs
    <2>5. \A x \in T : \E i \in DOMAIN s.accounts : s.accounts[i].id = x
      BY <1>2, <2>4
    <2>6. IsStore(r) /\ r.accounts = s.accounts
      BY <1>2, <2>3, <2>5, StoreIs
    <2> QED BY <1>7, <2>6 DEF AllNew, Ids
  <1> QED BY <1>1, <1>3, <1>4, <1>5, <1>6, <1>7 DEF Tasks

(* What a load finds is a store: the accounts that its place should have, if nobody writes. *)
LEMMA LoadFinds ==
    ASSUME CredentialsInv, NEW local \in BOOLEAN, NEW s, s = Load(local), NEW place \in Places,
           place = IF local THEN "local" ELSE "global"
    PROVE  /\ s = LoadOf(file["global"], file["local"], local)
           /\ IsStore(s)
           /\ ~spoiled /\ (\A p \in Processes : ~Writes(proc[p])) =>
                Unmixed(s) /\ Ids(s) = BeforeOf(kept, place)
PROOF
  <1>1. s = LoadOf(file["global"], file["local"], local)
    BY DEF Load, LoadOf
  <1>2. PICK f : f = IF local /\ file["local"] # Missing THEN file["local"] ELSE file["global"]
    OBVIOUS
  <1>3. s = IF f.tag = "store" THEN f ELSE EmptyStore
    BY <1>1, <1>2 DEF LoadOf
  <1>4. Missing.tag # "store" /\ Torn.tag # "store"
    BY DEF Missing, Torn
  <1>5. IsStore(EmptyStore)
    <2>1. <<>> \in Seq(Accounts) /\ DOMAIN <<>> = {}
      OBVIOUS
    <2> QED BY <2>1 DEF EmptyStore, Store, IsStore, IsSound, Ids
  <1>6. \A x \in Places : file[x] \in {Missing, Torn} \/ IsStore(file[x])
    BY DEF CredentialsInv, CredentialsTyped
  <1>7. f \in {Missing, Torn} \/ IsStore(f)
    BY <1>2, <1>6 DEF Places
  <1>8. IsStore(s)
    BY <1>3, <1>4, <1>5, <1>7
  <1>9. ASSUME ~spoiled, \A p \in Processes : ~Writes(proc[p])
        PROVE  Unmixed(s) /\ Ids(s) = BeforeOf(kept, place)
    <2>1. \A x \in Places : PlaceHolds(file[x], kept[x])
      BY <1>9 DEF CredentialsInv
    <2>2. ASSUME NEW g, IsStore(g) PROVE g # Missing /\ Ids(g) # NoFile /\ g.tag = "store"
      <3>1. Ids(g) \in SUBSET AccountIds /\ g # Missing /\ g.tag = "store"
        BY <2>2, StoreHas
      <3>2. "noFile" \in NoFile /\ "noFile" \notin AccountIds
        BY CredentialsAssumption DEF NoFile
      <3> QED BY <3>1, <3>2
    <2>3. \A x \in Places : file[x] = Missing <=> kept[x] = NoFile
      BY <2>1, <2>2 DEF PlaceHolds
    <2>4. file["global"] # Missing /\ "global" \in Places /\ "local" \in Places
      BY DEF CredentialsInv, CredentialsTyped, Places
    <2>5. f # Missing /\ \E x \in Places : f = file[x] /\ BeforeOf(kept, place) = kept[x]
      <3>1. CASE local /\ file["local"] # Missing
        BY <1>2, <2>3, <2>4, <3>1 DEF BeforeOf
      <3>2. CASE ~(local /\ file["local"] # Missing)
        <4>1. f = file["global"]
          BY <1>2, <3>2
        <4>2. BeforeOf(kept, place) = kept["global"]
          BY <2>3, <2>4, <3>2 DEF BeforeOf
        <4> QED BY <2>4, <4>1, <4>2
      <3> QED BY <3>1, <3>2
    <2>6. IsStore(f) /\ Unmixed(f) /\ Ids(f) = BeforeOf(kept, place)
      BY <2>1, <2>5 DEF PlaceHolds
    <2> QED BY <1>3, <2>2, <2>6
  <1> QED BY <1>1, <1>8, <1>9

(* One process moves on: what is to be shown of a step. *)
LEMMA OneMoves ==
    ASSUME CredentialsInv, NEW p \in Processes, NEW q, proc' = [proc EXCEPT ![p] = q], IsProcess(q),
           DOMAIN file' = Places, DOMAIN kept' = Places, file'["global"] # Missing,
           \A place \in Places : file'[place] \in {Missing, Torn} \/ IsStore(file'[place]),
           ~spoiled' =>
             /\ \A r \in Processes : r # p => ~AtWork(proc[r])
             /\ \A place \in Places :
                  /\ PlaceNamed(kept'[place])
                  /\ (Writes(q) /\ q.place = place) \/ PlaceHolds(file'[place], kept'[place])
             /\ kept'["global"] # NoFile
             /\ AtWork(q) => CopyHolds(q, BeforeOf(kept', q.place),
                                       LoadOf(file'["global"], file'["local"], q.command.local))
    PROVE  CredentialsInv'
PROOF
  <1>1. DOMAIN proc = Processes /\ \A r \in Processes : IsProcess(proc[r])
    BY DEF CredentialsInv, CredentialsTyped
  <1>2. DOMAIN proc' = Processes /\ proc'[p] = q /\ \A r \in Processes : r # p => proc'[r] = proc[r]
    BY <1>1
  <1>3. \A r \in Processes : IsProcess(proc'[r])
    BY <1>1, <1>2
  <1>4. CredentialsTyped'
    BY <1>2, <1>3 DEF CredentialsTyped
  <1>5. ASSUME ~spoiled'
        PROVE  /\ \A r, x \in Processes : AtWork(proc'[r]) /\ AtWork(proc'[x]) => r = x
               /\ \A place \in Places :
                    /\ PlaceNamed(kept'[place])
                    /\ \/ \E r \in Processes : Writes(proc'[r]) /\ proc'[r].place = place
                       \/ PlaceHolds(file'[place], kept'[place])
               /\ \A r \in Processes :
                    AtWork(proc'[r]) =>
                      CopyHolds(proc'[r], BeforeOf(kept', proc'[r].place),
                                LoadOf(file'["global"], file'["local"], proc'[r].command.local))
    <2>1. \A r \in Processes : AtWork(proc'[r]) => r = p
      BY <1>2, <1>5
    <2> QED BY <1>2, <1>5, <2>1
  <1> QED BY <1>4, <1>5 DEF CredentialsInv

(* A process has its parts, and nobody else is at work unless commands overlapped. *)
LEMMA ProcessHas ==
    ASSUME CredentialsInv, NEW p \in Processes, NEW q, q = proc[p]
    PROVE  /\ IsProcess(q) /\ q.at \in Stages /\ q.place \in Places /\ IsStore(q.copy)
           /\ q = [at |-> q.at, command |-> q.command, copy |-> q.copy, place |-> q.place]
           /\ q.at # "new" => q.command \in Commands
           /\ ~spoiled /\ AtWork(q) =>
                /\ \A r \in Processes : r # p => ~AtWork(proc[r]) /\ ~Writes(proc[r])
                /\ \A place \in Places :
                     /\ PlaceNamed(kept[place])
                     /\ (Writes(q) /\ q.place = place) \/ PlaceHolds(file[place], kept[place])
                /\ kept["global"] # NoFile
                /\ CopyHolds(q, BeforeOf(kept, q.place),
                             LoadOf(file["global"], file["local"], q.command.local))
PROOF
  <1>1. IsProcess(q)
    BY DEF CredentialsInv, CredentialsTyped
  <1>2. ASSUME ~spoiled, AtWork(q)
        PROVE  /\ \A r \in Processes : r # p => ~AtWork(proc[r])
               /\ \A place \in Places :
                    /\ PlaceNamed(kept[place])
                    /\ \/ \E r \in Processes : Writes(proc[r]) /\ proc[r].place = place
                       \/ PlaceHolds(file[place], kept[place])
               /\ kept["global"] # NoFile
               /\ CopyHolds(q, BeforeOf(kept, q.place),
                            LoadOf(file["global"], file["local"], q.command.local))
    BY <1>2 DEF CredentialsInv
  <1>3. \A r \in Processes : Writes(proc[r]) => AtWork(proc[r])
    BY DEF Writes, AtWork
  <1>4. /\ q = [at |-> q.at, command |-> q.command, copy |-> q.copy, place |-> q.place]
        /\ q.at \in Stages /\ q.place \in Places /\ IsStore(q.copy)
        /\ q.at # "new" => q.command \in Commands
    BY <1>1 DEF IsProcess
  <1>5. ASSUME ~spoiled, AtWork(q), NEW place \in Places
        PROVE  (Writes(q) /\ q.place = place) \/ PlaceHolds(file[place], kept[place])
    BY <1>2, <1>3, <1>5
  <1> QED BY <1>1, <1>2, <1>3, <1>4, <1>5

(* The files, as they are while nothing is written. *)
LEMMA FilesAre ==
    ASSUME CredentialsInv
    PROVE  /\ DOMAIN file = Places /\ DOMAIN kept = Places /\ file["global"] # Missing
           /\ \A place \in Places : file[place] \in {Missing, Torn} \/ IsStore(file[place])
BY DEF CredentialsInv, CredentialsTyped

(* A command begins. *)
LEMMA CommandBegins ==
    ASSUME CredentialsInv, NEW p \in Processes, Begin(p)
    PROVE  CredentialsInv'
PROOF
  <1>1. PICK command \in Commands :
          LET s == Load(command.local)
              migrates == command.cli /\ DropOAuthAccounts(s) # s
          IN  proc' = [proc EXCEPT ![p] =
                [at |-> IF migrates THEN "migrate" ELSE "load", command |-> command,
                 copy |-> DropOAuthAccounts(s), place |-> PlaceOf(command)]]
    BY DEF Begin
  <1>2. PICK s : s = Load(command.local)
    OBVIOUS
  <1>3. PICK d : d = DropOAuthAccounts(s)
    OBVIOUS
  <1>4. PICK stage : stage = IF command.cli /\ d # s THEN "migrate" ELSE "load"
    OBVIOUS
  <1>5. PICK q : q = [at |-> stage, command |-> command, copy |-> d, place |-> PlaceOf(command)]
    OBVIOUS
  <1>6. proc' = [proc EXCEPT ![p] = q]
    BY <1>1, <1>2, <1>3, <1>4, <1>5
  <1>7. command.local \in BOOLEAN /\ command.cli \in BOOLEAN
    BY CredentialsAssumption
  <1>8. PICK place \in Places : place = PlaceOf(command) /\ place = IF command.local THEN "local" ELSE "global"
    BY <1>7 DEF PlaceOf, Places
  <1>9. /\ s = LoadOf(file["global"], file["local"], command.local) /\ IsStore(s)
        /\ ~spoiled /\ (\A r \in Processes : ~Writes(proc[r])) =>
             Unmixed(s) /\ Ids(s) = BeforeOf(kept, place)
    BY <1>2, <1>7, <1>8, LoadFinds
  <1>10. IsStore(d) /\ AllNew(d) /\ (Unmixed(s) /\ d # s => Ids(d) = Ids(s) \ OldIds)
    BY <1>3, <1>9, OldDropped
  <1>11. q.at = stage /\ q.command = command /\ q.copy = d /\ q.place = place
    BY <1>5, <1>8
  <1>12. IsProcess(q)
    BY <1>4, <1>5, <1>7, <1>8, <1>10, <1>11 DEF IsProcess, Stages
  <1>13. file' = file /\ kept' = kept /\ spoiled' = (spoiled \/ Running # {})
    BY DEF Begin
  <1>14. ASSUME ~spoiled'
         PROVE  /\ \A r \in Processes : r # p => ~AtWork(proc[r])
                /\ \A x \in Places :
                     /\ PlaceNamed(kept'[x])
                     /\ (Writes(q) /\ q.place = x) \/ PlaceHolds(file'[x], kept'[x])
                /\ kept'["global"] # NoFile
                /\ AtWork(q) => CopyHolds(q, BeforeOf(kept', q.place),
                                          LoadOf(file'["global"], file'["local"], q.command.local))
    <2>1. ~spoiled /\ \A r \in Processes : ~AtWork(proc[r])
      BY <1>13, <1>14 DEF Running, AtWork
    <2>2. \A r \in Processes : ~Writes(proc[r])
      BY <2>1 DEF Writes, AtWork
    <2>3. /\ \A x \in Places : PlaceNamed(kept[x]) /\ PlaceHolds(file[x], kept[x])
          /\ kept["global"] # NoFile
      BY <2>1, <2>2 DEF CredentialsInv
    <2>4. Unmixed(s) /\ Ids(s) = BeforeOf(kept, place)
      BY <1>9, <2>1, <2>2
    <2>5. CopyHolds(q, BeforeOf(kept, place), s)
      BY <1>4, <1>10, <1>11, <2>4 DEF CopyHolds
    <2> QED BY <1>9, <1>11, <1>13, <2>1, <2>3, <2>5
  <1>15. /\ DOMAIN file' = Places /\ DOMAIN kept' = Places /\ file'["global"] # Missing
         /\ \A x \in Places : file'[x] \in {Missing, Torn} \/ IsStore(file'[x])
    BY <1>13, FilesAre
  <1> QED BY <1>6, <1>12, <1>14, <1>15, OneMoves

(* A file is opened to be written, and is empty. *)
LEMMA FileOpens ==
    ASSUME CredentialsInv, NEW p \in Processes, OpenFile(p)
    PROVE  CredentialsInv'
PROOF
  <1>1. PICK q0 : q0 = proc[p]
    OBVIOUS
  <1>2. PICK stage : stage = IF q0.at = "migrate" THEN "migrating" ELSE "saving"
    OBVIOUS
  <1>3. PICK q : q = [q0 EXCEPT !.at = stage]
    OBVIOUS
  <1>4. DOMAIN proc = Processes
    BY DEF CredentialsInv, CredentialsTyped
  <1>5. proc' = [proc EXCEPT ![p] = q]
    BY <1>1, <1>2, <1>3, <1>4 DEF OpenFile
  <1>6. /\ IsProcess(q0) /\ q0.at \in {"migrate", "save"} /\ q0.place \in Places
        /\ q0 = [at |-> q0.at, command |-> q0.command, copy |-> q0.copy, place |-> q0.place]
    BY <1>1, ProcessHas DEF OpenFile
  <1>7. /\ q.at = stage /\ q.command = q0.command /\ q.copy = q0.copy /\ q.place = q0.place
        /\ q = [at |-> q.at, command |-> q.command, copy |-> q.copy, place |-> q.place]
    BY <1>3, <1>6
  <1>8. IsProcess(q)
    BY <1>2, <1>6, <1>7 DEF IsProcess, Stages
  <1>9. file' = [file EXCEPT ![q.place] = Torn] /\ kept' = kept /\ spoiled' = spoiled
    BY <1>1, <1>7 DEF OpenFile
  <1>10. /\ DOMAIN file = Places /\ DOMAIN kept = Places /\ file["global"] # Missing
         /\ \A x \in Places : file[x] \in {Missing, Torn} \/ IsStore(file[x])
    BY FilesAre
  <1>11. DOMAIN file' = Places /\ file'[q.place] = Torn /\ \A x \in Places : x # q.place => file'[x] = file[x]
    BY <1>6, <1>7, <1>9, <1>10
  <1>12. file'["global"] # Missing
    BY <1>10, <1>11 DEF Places, Missing, Torn
  <1>13. ASSUME ~spoiled'
         PROVE  /\ \A r \in Processes : r # p => ~AtWork(proc[r])
                /\ \A x \in Places :
                     /\ PlaceNamed(kept'[x])
                     /\ (Writes(q) /\ q.place = x) \/ PlaceHolds(file'[x], kept'[x])
                /\ kept'["global"] # NoFile
                /\ AtWork(q) => CopyHolds(q, BeforeOf(kept', q.place),
                                          LoadOf(file'["global"], file'["local"], q.command.local))
    <2>1. ~spoiled /\ AtWork(q0) /\ Writes(q) /\ ~Writes(q0)
      BY <1>2, <1>6, <1>7, <1>9, <1>13 DEF AtWork, Writes
    <2>2. /\ \A r \in Processes : r # p => ~AtWork(proc[r])
          /\ \A x \in Places : PlaceNamed(kept[x]) /\ PlaceHolds(file[x], kept[x])
          /\ kept["global"] # NoFile
          /\ CopyHolds(q0, BeforeOf(kept, q0.place), LoadOf(file["global"], file["local"], q0.command.local))
      BY <1>1, <2>1, ProcessHas
    <2>3. CopyHolds(q, BeforeOf(kept, q.place), LoadOf(file'["global"], file'["local"], q.command.local))
      BY <1>2, <1>6, <1>7, <2>2 DEF CopyHolds
    <2> QED BY <1>9, <1>11, <2>1, <2>2, <2>3
  <1>14. \A x \in Places : file'[x] \in {Missing, Torn} \/ IsStore(file'[x])
    BY <1>10, <1>11
  <1> QED BY <1>5, <1>8, <1>9, <1>10, <1>11, <1>12, <1>13, <1>14, OneMoves

(* A file is written: it holds what it should. *)
LEMMA FileIsWritten ==
    ASSUME CredentialsInv, NEW p \in Processes, WriteFile(p)
    PROVE  CredentialsInv'
PROOF
  <1>1. PICK q0 : q0 = proc[p]
    OBVIOUS
  <1>2. /\ IsProcess(q0) /\ q0.at \in {"migrating", "saving"} /\ q0.place \in Places /\ IsStore(q0.copy)
        /\ q0 = [at |-> q0.at, command |-> q0.command, copy |-> q0.copy, place |-> q0.place]
        /\ q0.command \in Commands
    BY <1>1, ProcessHas DEF WriteFile, Writing
  <1> DEFINE Also == /\ q0.command.do = "clear" /\ q0.command.local
                     /\ q0.place = "global" /\ file["local"] # Missing
  <1>3. PICK also \in BOOLEAN : also <=> Also
    OBVIOUS
  <1>4. PICK stage : stage = CASE q0.at = "migrating" -> "load"
                               [] also -> "save"
                               [] OTHER -> "done"
    OBVIOUS
  <1>5. PICK place : place = IF also THEN "local" ELSE q0.place
    OBVIOUS
  <1>6. PICK q : q = [q0 EXCEPT !.at = stage, !.place = place]
    OBVIOUS
  <1>7. DOMAIN proc = Processes
    BY DEF CredentialsInv, CredentialsTyped
  <1>8. PICK should : should = Intended(p)
    OBVIOUS
  <1>9. /\ proc' = [proc EXCEPT ![p] = q] /\ spoiled' = spoiled
        /\ file' = [file EXCEPT ![q0.place] = q0.copy] /\ kept' = [kept EXCEPT ![q0.place] = should]
    <2>1. /\ file' = [file EXCEPT ![proc[p].place] = proc[p].copy]
          /\ kept' = [kept EXCEPT ![proc[p].place] = Intended(p)] /\ spoiled' = spoiled
          /\ LET alsoLocal == /\ proc[p].command.do = "clear" /\ proc[p].command.local
                              /\ proc[p].place = "global" /\ file["local"] # Missing
             IN proc' = [proc EXCEPT ![p].at = CASE @ = "migrating" -> "load"
                                                 [] alsoLocal -> "save"
                                                 [] OTHER -> "done",
                                     ![p].place = IF alsoLocal THEN "local" ELSE @]
      BY DEF WriteFile
    <2>2. proc' = [proc EXCEPT ![p].at = stage, ![p].place = place]
      BY <1>1, <1>3, <1>4, <1>5, <2>1
    <2>3. proc' = [proc EXCEPT ![p] = [q0 EXCEPT !.at = stage, !.place = place]]
      BY <1>1, <1>7, <2>2
    <2> QED BY <1>1, <1>6, <1>8, <2>1, <2>3
  <1>10. /\ q.at = stage /\ q.command = q0.command /\ q.copy = q0.copy /\ q.place = place
         /\ q = [at |-> q.at, command |-> q.command, copy |-> q.copy, place |-> q.place]
    BY <1>2, <1>6
  <1>11. /\ q0.at = "migrating" => stage = "load" /\ place = q0.place
         /\ q0.at = "saving" /\ also => stage = "save" /\ place = "local" /\ q0.command.do = "clear"
         /\ q0.at = "saving" /\ ~also => stage = "done"
    <2>1. q0.at = "migrating" /\ also => q0.place = "local"
      <3>1. q0.at = "migrating" => q0.place = PlaceOf(q0.command)
        BY <1>2 DEF IsProcess
      <3> QED BY <1>3, <3>1 DEF PlaceOf
    <2> QED BY <1>3, <1>4, <1>5, <2>1
  <1>12. IsProcess(q)
    <2>1. place \in Places
      BY <1>2, <1>5 DEF Places
    <2> QED BY <1>2, <1>10, <1>11, <2>1 DEF IsProcess, Stages
  <1>13. /\ DOMAIN file = Places /\ DOMAIN kept = Places /\ file["global"] # Missing
         /\ \A x \in Places : file[x] \in {Missing, Torn} \/ IsStore(file[x])
    BY FilesAre
  <1>14. /\ DOMAIN file' = Places /\ file'[q0.place] = q0.copy
         /\ \A x \in Places : x # q0.place => file'[x] = file[x]
         /\ DOMAIN kept' = Places /\ kept'[q0.place] = should
         /\ \A x \in Places : x # q0.place => kept'[x] = kept[x]
    BY <1>2, <1>9, <1>13
  <1>15. q0.copy.tag = "store" /\ q0.copy # Missing /\ Ids(q0.copy) \in SUBSET AccountIds
    BY <1>2, StoreHas
  <1>16. file'["global"] # Missing
    BY <1>13, <1>14, <1>15 DEF Places
  <1>17. \A x \in Places : file'[x] \in {Missing, Torn} \/ IsStore(file'[x])
    BY <1>2, <1>13, <1>14
  <1>18. ASSUME ~spoiled'
         PROVE  /\ \A r \in Processes : r # p => ~AtWork(proc[r])
                /\ \A x \in Places :
                     /\ PlaceNamed(kept'[x])
                     /\ (Writes(q) /\ q.place = x) \/ PlaceHolds(file'[x], kept'[x])
                /\ kept'["global"] # NoFile
                /\ AtWork(q) => CopyHolds(q, BeforeOf(kept', q.place),
                                          LoadOf(file'["global"], file'["local"], q.command.local))
    <2>1. ~spoiled /\ AtWork(q0) /\ Writes(q0)
      BY <1>2, <1>9, <1>18 DEF AtWork, Writes
    <2>2. /\ \A r \in Processes : r # p => ~AtWork(proc[r])
          /\ \A x \in Places : PlaceNamed(kept[x]) /\ (q0.place = x \/ PlaceHolds(file[x], kept[x]))
          /\ kept["global"] # NoFile
          /\ CopyHolds(q0, BeforeOf(kept, q0.place), LoadOf(file["global"], file["local"], q0.command.local))
      BY <1>1, <2>1, ProcessHas
    <2>3. PICK before : before = BeforeOf(kept, q0.place)
      OBVIOUS
    <2>4. /\ q0.at = "migrating" => should = before \ OldIds
          /\ q0.at = "saving" =>
               should = CASE q0.command.do = "add" -> before \cup {q0.command.account}
                          [] q0.command.do = "remove" -> before \ {q0.command.account}
                          [] q0.command.do = "clear" -> {}
                          [] OTHER -> before
      <3>1. PICK old : old = {InitialStore.accounts[i].id : i \in {j \in DOMAIN InitialStore.accounts :
                                                                      InitialStore.accounts[j].oauth}}
        OBVIOUS
      <3>2. old = OldIds
        BY <3>1 DEF OldIds
      <3>3. should = IF q0.at = "migrating" THEN before \ old
                     ELSE CASE q0.command.do = "add" -> before \cup {q0.command.account}
                            [] q0.command.do = "remove" -> before \ {q0.command.account}
                            [] q0.command.do = "clear" -> {}
                            [] OTHER -> before
        BY <1>1, <1>8, <2>3, <3>1, Zenon DEF Intended, BeforeOf
      <3>4. CASE q0.at = "migrating"
        BY <3>2, <3>3, <3>4
      <3>5. CASE q0.at = "saving"
        BY <3>3, <3>5
      <3> QED BY <1>2, <3>4, <3>5
    <2>5. Ids(q0.copy) = should /\ Unmixed(q0.copy) /\ (q0.at = "migrating" => AllNew(q0.copy))
      <3>1. CASE q0.at = "migrating"
        BY <2>2, <2>3, <2>4, <3>1 DEF CopyHolds, Unmixed
      <3>2. CASE q0.at = "saving"
        BY <2>2, <2>3, <2>4, <3>2 DEF CopyHolds
      <3> QED BY <1>2, <3>1, <3>2
    <2>6. PlaceHolds(q0.copy, should)
      BY <1>2, <2>5 DEF PlaceHolds
    <2>7. should \in SUBSET AccountIds /\ should # NoFile
      <3>1. "noFile" \in NoFile /\ "noFile" \notin AccountIds
        BY CredentialsAssumption DEF NoFile
      <3> QED BY <1>15, <2>5, <3>1
    <2>8. \A x \in Places : PlaceNamed(kept'[x]) /\ PlaceHolds(file'[x], kept'[x])
      BY <1>14, <2>2, <2>6, <2>7 DEF PlaceNamed
    <2>9. kept'["global"] # NoFile
      BY <1>14, <2>2, <2>7 DEF Places
    <2>10. ASSUME AtWork(q)
           PROVE  CopyHolds(q, BeforeOf(kept', q.place), LoadOf(file'["global"], file'["local"], q.command.local))
      <3>1. CASE q0.at = "migrating"
        <4>1. q.at = "load" /\ q0.place = PlaceOf(q0.command)
          BY <1>2, <1>10, <1>11, <3>1 DEF IsProcess
        <4>2. LoadOf(file'["global"], file'["local"], q.command.local) = q0.copy
          <5>1. CASE q0.command.local
            <6>1. file'["local"] = q0.copy
              BY <1>14, <4>1, <5>1 DEF PlaceOf
            <6> QED BY <1>10, <1>15, <5>1, <6>1 DEF LoadOf
          <5>2. CASE ~q0.command.local
            <6>1. file'["global"] = q0.copy
              BY <1>14, <4>1, <5>2 DEF PlaceOf
            <6> QED BY <1>10, <1>15, <5>2, <6>1 DEF LoadOf
          <5> QED BY <5>1, <5>2
        <4> QED BY <2>5, <3>1, <4>1, <4>2 DEF CopyHolds
      <3>2. CASE q0.at = "saving"
        <4>1. q.at = "save" /\ q.command.do = "clear" /\ q0.command.do = "clear"
          BY <1>10, <1>11, <2>10, <3>2 DEF AtWork
        <4>2. Ids(q.copy) = {} /\ Unmixed(q.copy)
          BY <1>10, <2>4, <2>5, <3>2, <4>1
        <4> QED BY <4>1, <4>2 DEF CopyHolds
      <3> QED BY <1>2, <3>1, <3>2
    <2> QED BY <2>2, <2>8, <2>9, <2>10
  <1> QED BY <1>9, <1>12, <1>14, <1>16, <1>17, <1>18, OneMoves

(* A command loads the store and changes its copy, or finds nothing to do. *)
LEMMA StoreIsLoaded ==
    ASSUME CredentialsInv, NEW p \in Processes, LoadStore(p)
    PROVE  CredentialsInv'
PROOF
  <1>1. PICK q0 : q0 = proc[p]
    OBVIOUS
  <1>2. /\ IsProcess(q0) /\ q0.at = "load" /\ q0.place \in Places /\ IsStore(q0.copy)
        /\ q0 = [at |-> q0.at, command |-> q0.command, copy |-> q0.copy, place |-> q0.place]
        /\ q0.command \in Commands
    BY <1>1, ProcessHas DEF LoadStore
  <1>3. PICK command \in Commands : command = q0.command
    BY <1>2
  <1>4. command.local \in BOOLEAN /\ command.cli \in BOOLEAN /\ command.do \in Tasks
        /\ (command.do \notin {"connect", "disconnect"} => command.cli)
    BY CredentialsAssumption
  <1>5. PICK s : s = Load(command.local)
    OBVIOUS
  <1>6. q0.place = PlaceOf(command) /\ q0.place = IF command.local THEN "local" ELSE "global"
    BY <1>2, <1>3 DEF IsProcess, PlaceOf
  <1>7. /\ s = LoadOf(file["global"], file["local"], command.local) /\ IsStore(s)
        /\ ~spoiled /\ (\A r \in Processes : ~Writes(proc[r])) =>
             Unmixed(s) /\ Ids(s) = BeforeOf(kept, q0.place)
    BY <1>2, <1>4, <1>5, <1>6, LoadFinds
  <1>8. DOMAIN proc = Processes
    BY DEF CredentialsInv, CredentialsTyped
  <1>9. file' = file /\ kept' = kept /\ spoiled' = spoiled
    BY DEF LoadStore
  <1>10. /\ DOMAIN file' = Places /\ DOMAIN kept' = Places /\ file'["global"] # Missing
         /\ \A x \in Places : file'[x] \in {Missing, Torn} \/ IsStore(file'[x])
    BY <1>9, FilesAre
  <1>11. ASSUME ~spoiled
         PROVE  /\ \A r \in Processes : r # p => ~AtWork(proc[r])
                /\ \A x \in Places : PlaceNamed(kept[x]) /\ PlaceHolds(file[x], kept[x])
                /\ kept["global"] # NoFile
                /\ command.cli => AllNew(s)
                /\ Unmixed(s) /\ Ids(s) = BeforeOf(kept, q0.place)
    <2>1. AtWork(q0) /\ ~Writes(q0)
      BY <1>2 DEF AtWork, Writes
    <2>2. /\ \A r \in Processes : r # p => ~AtWork(proc[r]) /\ ~Writes(proc[r])
          /\ \A x \in Places : PlaceNamed(kept[x]) /\ PlaceHolds(file[x], kept[x])
          /\ kept["global"] # NoFile
          /\ CopyHolds(q0, BeforeOf(kept, q0.place), LoadOf(file["global"], file["local"], q0.command.local))
      BY <1>1, <1>11, <2>1, ProcessHas
    <2>3. command.cli => AllNew(s)
      BY <1>2, <1>3, <1>7, <2>2 DEF CopyHolds
    <2>4. \A r \in Processes : ~Writes(proc[r])
      BY <1>1, <2>1, <2>2
    <2> QED BY <1>7, <1>11, <2>2, <2>3, <2>4
  <1>12. CASE Applies(s, command)
    <2>1. PICK c : c = Changed(s, command)
      OBVIOUS
    <2>2. PICK stage : stage = IF command.do = "select" THEN "prompt" ELSE "save"
      OBVIOUS
    <2>3. PICK place : place = IF command.do = "clear" THEN "global" ELSE q0.place
      OBVIOUS
    <2>4. PICK q : q = [q0 EXCEPT !.at = stage, !.copy = c, !.place = place]
      OBVIOUS
    <2>5. proc' = [proc EXCEPT ![p] = q]
      <3>1. proc' = [proc EXCEPT ![p].at = stage, ![p].copy = c, ![p].place = place]
        BY <1>1, <1>3, <1>5, <1>12, <2>1, <2>2, <2>3 DEF LoadStore
      <3> QED BY <1>1, <1>8, <2>4, <3>1
    <2>6. /\ q.at = stage /\ q.command = command /\ q.copy = c /\ q.place = place
          /\ q = [at |-> q.at, command |-> q.command, copy |-> q.copy, place |-> q.place]
      BY <1>2, <1>3, <2>4
    <2>7. /\ IsStore(c)
          /\ AllNew(s) => AllNew(c)
          /\ command.do \in {"connect", "disconnect"} => c.accounts = s.accounts
          /\ command.do = "add" => Ids(c) = Ids(s) \cup {command.account}
          /\ command.do = "remove" => Ids(c) = Ids(s) \ {command.account}
          /\ command.do = "clear" => c = EmptyStore /\ Ids(c) = {} /\ AllNew(c)
          /\ command.do \notin {"add", "remove", "clear"} => Ids(c) = Ids(s)
      BY <1>7, <1>12, <2>1, CopyIsChanged
    <2>8. IsProcess(q)
      <3>1. place \in Places
        BY <1>2, <2>3 DEF Places
      <3> QED BY <1>6, <2>2, <2>3, <2>6, <2>7, <3>1 DEF IsProcess, Stages
    <2>9. ASSUME ~spoiled' PROVE CopyHolds(q, BeforeOf(kept, q.place), LoadOf(file["global"], file["local"], q.command.local))
      <3>1. Unmixed(s) /\ Ids(s) = BeforeOf(kept, q0.place) /\ (command.cli => AllNew(s))
        BY <1>9, <1>11, <2>9
      <3>2. Unmixed(c)
        BY <1>4, <2>7, <3>1 DEF Unmixed, AllNew
      <3>3. command.do # "clear" => BeforeOf(kept, q.place) = Ids(s)
        BY <2>3, <2>6, <3>1
      <3>4. Ids(c) = CASE command.do = "add" -> BeforeOf(kept, q.place) \cup {command.account}
                       [] command.do = "remove" -> BeforeOf(kept, q.place) \ {command.account}
                       [] command.do = "clear" -> {}
                       [] OTHER -> BeforeOf(kept, q.place)
        BY <1>4, <2>7, <3>3 DEF Tasks
      <3> QED BY <2>2, <2>6, <3>2, <3>4 DEF CopyHolds
    <2>10. ASSUME ~spoiled'
           PROVE  /\ \A r \in Processes : r # p => ~AtWork(proc[r])
                  /\ \A x \in Places :
                       /\ PlaceNamed(kept'[x])
                       /\ (Writes(q) /\ q.place = x) \/ PlaceHolds(file'[x], kept'[x])
                  /\ kept'["global"] # NoFile
                  /\ AtWork(q) => CopyHolds(q, BeforeOf(kept', q.place),
                                            LoadOf(file'["global"], file'["local"], q.command.local))
      BY <1>9, <1>11, <2>9, <2>10
    <2> QED BY <1>10, <2>5, <2>8, <2>10, OneMoves
  <1>13. CASE ~Applies(s, command)
    <2>1. PICK q : q = [q0 EXCEPT !.at = "done"]
      OBVIOUS
    <2>2. proc' = [proc EXCEPT ![p] = q]
      <3>1. proc' = [proc EXCEPT ![p].at = "done"]
        BY <1>1, <1>3, <1>5, <1>13 DEF LoadStore
      <3> QED BY <1>1, <1>8, <2>1, <3>1
    <2>3. /\ q.at = "done" /\ q.command = command /\ q.copy = q0.copy /\ q.place = q0.place
          /\ q = [at |-> q.at, command |-> q.command, copy |-> q.copy, place |-> q.place]
      BY <1>2, <1>3, <2>1
    <2>4. IsProcess(q) /\ ~AtWork(q)
      BY <1>2, <2>3 DEF IsProcess, Stages, AtWork
    <2>5. ASSUME ~spoiled'
          PROVE  /\ \A r \in Processes : r # p => ~AtWork(proc[r])
                 /\ \A x \in Places :
                      /\ PlaceNamed(kept'[x])
                      /\ (Writes(q) /\ q.place = x) \/ PlaceHolds(file'[x], kept'[x])
                 /\ kept'["global"] # NoFile
                 /\ AtWork(q) => CopyHolds(q, BeforeOf(kept', q.place),
                                           LoadOf(file'["global"], file'["local"], q.command.local))
      BY <1>9, <1>11, <2>4, <2>5
    <2> QED BY <1>10, <2>2, <2>4, <2>5, OneMoves
  <1> QED BY <1>12, <1>13

(* The prompt is answered, or a process is killed. *)
LEMMA ProcessPauses ==
    ASSUME CredentialsInv, NEW p \in Processes, Chosen(p) \/ ProcessKilled(p)
    PROVE  CredentialsInv'
PROOF
  <1>1. PICK q0 : q0 = proc[p]
    OBVIOUS
  <1>2. /\ IsProcess(q0) /\ q0.at \in Stages /\ q0.at \notin {"new", "done"}
        /\ q0.place \in Places /\ IsStore(q0.copy)
        /\ q0 = [at |-> q0.at, command |-> q0.command, copy |-> q0.copy, place |-> q0.place]
        /\ q0.command \in Commands
    <2>1. q0.at \notin {"new", "done"}
      BY <1>1 DEF Chosen, ProcessKilled, Running
    <2> QED BY <1>1, <2>1, ProcessHas
  <1>3. PICK stage : stage = IF Chosen(p) THEN "save" ELSE "done"
    OBVIOUS
  <1>4. PICK q : q = [q0 EXCEPT !.at = stage]
    OBVIOUS
  <1>5. DOMAIN proc = Processes
    BY DEF CredentialsInv, CredentialsTyped
  <1>6. proc' = [proc EXCEPT ![p] = q]
    <2>1. proc' = [proc EXCEPT ![p].at = stage]
      BY <1>3 DEF Chosen, ProcessKilled
    <2> QED BY <1>1, <1>4, <1>5, <2>1
  <1>7. /\ q.at = stage /\ q.command = q0.command /\ q.copy = q0.copy /\ q.place = q0.place
        /\ q = [at |-> q.at, command |-> q.command, copy |-> q.copy, place |-> q.place]
    BY <1>2, <1>4
  <1>8. stage = "save" => q0.at = "prompt"
    BY <1>1, <1>3 DEF Chosen
  <1>9. stage \in {"save", "done"}
    BY <1>3
  <1>10. IsProcess(q)
    BY <1>2, <1>7, <1>8, <1>9 DEF IsProcess, Stages
  <1>11. file' = file /\ kept' = kept
    BY DEF Chosen, ProcessKilled
  <1>12. ~spoiled' => ~spoiled /\ ~Writes(q0)
    BY <1>1 DEF Chosen, ProcessKilled, Writing, Writes
  <1>13. /\ DOMAIN file' = Places /\ DOMAIN kept' = Places /\ file'["global"] # Missing
         /\ \A x \in Places : file'[x] \in {Missing, Torn} \/ IsStore(file'[x])
    BY <1>11, FilesAre
  <1>14. ASSUME ~spoiled'
         PROVE  /\ \A r \in Processes : r # p => ~AtWork(proc[r])
                /\ \A x \in Places :
                     /\ PlaceNamed(kept'[x])
                     /\ (Writes(q) /\ q.place = x) \/ PlaceHolds(file'[x], kept'[x])
                /\ kept'["global"] # NoFile
                /\ AtWork(q) => CopyHolds(q, BeforeOf(kept', q.place),
                                          LoadOf(file'["global"], file'["local"], q.command.local))
    <2>1. AtWork(q0) /\ ~spoiled /\ ~Writes(q0)
      BY <1>2, <1>12, <1>14 DEF AtWork
    <2>2. /\ \A r \in Processes : r # p => ~AtWork(proc[r])
          /\ \A x \in Places : PlaceNamed(kept[x]) /\ PlaceHolds(file[x], kept[x])
          /\ kept["global"] # NoFile
          /\ CopyHolds(q0, BeforeOf(kept, q0.place), LoadOf(file["global"], file["local"], q0.command.local))
      BY <1>1, <2>1, ProcessHas
    <2>3. AtWork(q) => q0.at = "prompt" /\ q.at = "save"
      BY <1>7, <1>8, <1>9 DEF AtWork
    <2>4. AtWork(q) => CopyHolds(q, BeforeOf(kept, q.place), LoadOf(file["global"], file["local"], q.command.local))
      BY <1>7, <2>2, <2>3 DEF CopyHolds
    <2> QED BY <1>11, <2>2, <2>4
  <1> QED BY <1>6, <1>10, <1>13, <1>14, OneMoves

(* The files are sound at first. *)
LEMMA CredentialsAtFirst == CredentialsInit => CredentialsInv
PROOF
  <1> SUFFICES ASSUME CredentialsInit PROVE CredentialsInv
    OBVIOUS
  <1>1. PICK none : none = [do |-> "none"]
    OBVIOUS
  <1>2. PICK q : q = [at |-> "new", copy |-> EmptyStore, place |-> "global", command |-> none]
    OBVIOUS
  <1>3. /\ file = [place \in {"global", "local"} |-> IF place = "global" THEN InitialStore ELSE Missing]
        /\ proc = [p \in Processes |-> q]
        /\ kept = [place \in {"global", "local"} |-> IF place = "global" THEN Ids(InitialStore) ELSE NoFile]
    BY <1>1, <1>2 DEF CredentialsInit
  <1>4. /\ q.at = "new" /\ q.copy = EmptyStore /\ q.place = "global"
        /\ q = [at |-> q.at, command |-> q.command, copy |-> q.copy, place |-> q.place]
    BY <1>2
  <1>5. IsStore(EmptyStore)
    <2>1. <<>> \in Seq(Accounts) /\ DOMAIN <<>> = {}
      OBVIOUS
    <2> QED BY <2>1 DEF EmptyStore, Store, IsStore, IsSound, Ids
  <1>6. IsProcess(q)
    BY <1>4, <1>5 DEF IsProcess, Stages, Places
  <1>7. IsStore(InitialStore)
    BY CredentialsAssumption DEF IsStore, OldIds
  <1>8. InitialStore # Missing /\ Ids(InitialStore) \in SUBSET AccountIds
    BY <1>7, StoreHas
  <1>9. Unmixed(InitialStore)
    <2>1. ASSUME NEW i \in DOMAIN InitialStore.accounts, InitialStore.accounts[i].id \in OldIds
          PROVE  InitialStore.accounts[i].oauth
      <3>1. PICK j \in DOMAIN InitialStore.accounts :
              InitialStore.accounts[j].oauth /\ InitialStore.accounts[i].id = InitialStore.accounts[j].id
        BY <2>1 DEF OldIds
      <3>2. i = j
        BY <3>1, CredentialsAssumption DEF IsSound
      <3> QED BY <3>1, <3>2
    <2> QED BY <2>1 DEF Unmixed
  <1>10. PlaceHolds(InitialStore, Ids(InitialStore)) /\ PlaceHolds(Missing, NoFile)
    BY <1>7, <1>9 DEF PlaceHolds
  <1>11. "noFile" \in NoFile /\ "noFile" \notin AccountIds
    BY CredentialsAssumption DEF NoFile
  <1>12. Ids(InitialStore) # NoFile
    BY <1>8, <1>11
  <1>13. /\ DOMAIN file = Places /\ DOMAIN kept = Places /\ DOMAIN proc = Processes
         /\ file["global"] = InitialStore /\ file["local"] = Missing
         /\ kept["global"] = Ids(InitialStore) /\ kept["local"] = NoFile
         /\ \A p \in Processes : proc[p] = q
    BY <1>3 DEF Places
  <1>14. \A x \in Places : x = "global" \/ x = "local"
    BY DEF Places
  <1>15. CredentialsTyped
    BY <1>6, <1>7, <1>8, <1>13, <1>14 DEF CredentialsTyped
  <1>16. \A p \in Processes : ~AtWork(proc[p])
    BY <1>4, <1>13 DEF AtWork
  <1>17. \A x \in Places : PlaceNamed(kept[x]) /\ PlaceHolds(file[x], kept[x])
    BY <1>8, <1>10, <1>13, <1>14 DEF PlaceNamed
  <1> QED BY <1>12, <1>13, <1>15, <1>16, <1>17 DEF CredentialsInv

(* Each step keeps the files as they should be. *)
LEMMA NextCredentials == CredentialsInv /\ [CredentialsNext]_crVars => CredentialsInv'
PROOF
  <1> SUFFICES ASSUME CredentialsInv, [CredentialsNext]_crVars PROVE CredentialsInv'
    OBVIOUS
  <1>1. CASE UNCHANGED crVars
    BY <1>1 DEF crVars, CredentialsInv, CredentialsTyped
  <1>2. ASSUME NEW p \in Processes,
               \/ Begin(p) \/ OpenFile(p) \/ WriteFile(p)
               \/ LoadStore(p) \/ Chosen(p) \/ ProcessKilled(p)
        PROVE  CredentialsInv'
    BY <1>2, CommandBegins, FileOpens, FileIsWritten, StoreIsLoaded, ProcessPauses
  <1> QED BY <1>1, <1>2 DEF CredentialsNext

(* What the files hold is then what survives. *)
LEMMA CredentialsAreHeld == CredentialsInv => CredentialsSurvive
PROOF
  <1> SUFFICES ASSUME CredentialsInv PROVE CredentialsSurvive
    OBVIOUS
  <1>1. \A x \in Places : file[x] \in {Missing, Torn} \/ IsStore(file[x])
    BY FilesAre
  <1>2. AccountsAreKept
    <2> SUFFICES ASSUME ~spoiled, NEW x \in Places
                 PROVE  \/ \E p \in Processes : Writing(p) /\ proc[p].place = x
                        \/ kept[x] = NoFile /\ file[x] = Missing
                        \/ file[x].tag = "store" /\ Ids(file[x]) = kept[x]
      BY DEF AccountsAreKept, Places
    <2>1. \/ \E p \in Processes : Writes(proc[p]) /\ proc[p].place = x
          \/ PlaceHolds(file[x], kept[x])
      BY DEF CredentialsInv
    <2>2. CASE \E p \in Processes : Writes(proc[p]) /\ proc[p].place = x
      BY <2>2 DEF Writes, Writing
    <2>3. CASE PlaceHolds(file[x], kept[x])
      BY <2>3, StoreHas DEF PlaceHolds
    <2> QED BY <2>1, <2>2, <2>3
  <1>3. StoresAreSound
    <2> SUFFICES ASSUME NEW x \in Places, file[x].tag = "store"
                 PROVE  /\ \A i, j \in DOMAIN file[x].accounts :
                             file[x].accounts[i].default /\ file[x].accounts[j].default => i = j
                        /\ file[x].tokens \subseteq Ids(file[x])
      BY DEF StoresAreSound, Places
    <2>1. file[x] # Missing /\ file[x] # Torn
      BY DEF Missing, Torn
    <2>2. PICK s : s = file[x]
      OBVIOUS
    <2>3. IsStore(s)
      BY <1>1, <2>1, <2>2
    <2> QED BY <2>2, <2>3 DEF IsStore, IsSound
  <1> QED BY <1>2, <1>3 DEF CredentialsSurvive

\* Credentials: unless two commands overlapped or one was killed as it wrote, each file holds
\* the accounts that the commands of the CLI and of the tools UI left there; and every file that
\* loads has one default at most and tokens of its own accounts only: for any files to begin
\* with, any commands and any number of processes.
THEOREM CredentialsStay == WorkbenchSpec => []CredentialsSurvive
<1>1. WorkbenchInit => CredentialsInv
  BY CredentialsAtFirst, WorkbenchParts
<1>2. CredentialsInv /\ [WorkbenchNext]_workbenchVars => CredentialsInv'
  BY NextCredentials, WorkbenchParts
<1>. QED
  BY <1>1, <1>2, CredentialsAreHeld, PTL DEF WorkbenchSpec
=============================================================================
