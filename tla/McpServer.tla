----------------------------- MODULE McpServer ------------------------------
(***************************************************************************)
(* The MCP server (src/mcp-server.ts, src/staleness.ts): a process that    *)
(* keeps an app deployed in memory, answers the tool calls of an agent,    *)
(* and after each of them looks whether its own code was rebuilt.  If so   *)
(* it says so and, unless told only to warn, exits half a second after the *)
(* first such answer; the client starts a new process for the next call.   *)
(* What is written to the pipe before the exit arrives.                    *)
(*                                                                         *)
(* Time is counted in grace periods (STALENESS_GRACE_MS).  The agent makes *)
(* calls that change what is deployed one at a time, others beside them.   *)
(* Bounds: ToolCalls are all the calls, MaxBuilds rebuilds.                *)
(***************************************************************************)
EXTENDS Naturals

CONSTANTS ToolCalls, MaxBuilds

NoDist == 0

VARIABLES distFile,    \* mtime of dist/mcp-server.js, or NoDist in the middle of a build
          builds,      \* the builds so far: the last one's time is two grace periods each
          server,      \* the process: its stage, the mtime its code is of, loadedMtimeMs,
                       \* lastWarnedMtimeMs, staleExitScheduled, and whether an app is deployed
          autoRestart, \* FORGE_SIM_STALE_AUTORESTART
          tool,        \* c -> its stage and what it asks for
          believed,    \* history: the agent has reason to believe that its app is deployed
          unmarked,    \* history: it believes so after an answer in the window before the
                       \* exit that had no notice, because the file was missing
          warnings     \* history: the warnings of this process

mcVars == <<distFile, builds, server, autoRestart, tool, believed, unmarked, warnings>>

Tools == {"forge_deploy", "forge_reset", "forge_invoke"}
Changes(t) == t \in {"forge_deploy", "forge_reset"}
NewServer == [at |-> "none", code |-> NoDist, loaded |-> NoDist, warned |-> NoDist,
              exiting |-> FALSE, app |-> FALSE]

-----------------------------------------------------------------------------
(* The file *)

\* A build removes the old file and writes a new one, within the grace period of the
\* last or later.
CleanDist ==
  /\ builds < MaxBuilds /\ distFile # NoDist
  /\ distFile' = NoDist
  /\ UNCHANGED <<builds, server, autoRestart, tool, believed, unmarked, warnings>>

WriteDist ==
  /\ builds < MaxBuilds
  /\ builds' = builds + 1
  /\ distFile' \in {2 * builds + 2, 2 * builds + 3}
  /\ UNCHANGED <<server, autoRestart, tool, believed, unmarked, warnings>>

-----------------------------------------------------------------------------
(* The process *)

\* The next call finds no process: the client starts one, which reads its code.
StartServer ==
  /\ server.at = "none" /\ distFile # NoDist
  /\ \E c \in ToolCalls : tool[c].at = "new"
  /\ server' = [NewServer EXCEPT !.at = "loading", !.code = distFile]
  /\ warnings' = 0
  /\ UNCHANGED <<distFile, builds, autoRestart, tool, believed, unmarked>>

\* The module runs: loadedMtimeMs is what the file has now; without a file there is no
\* check.
StatOwnFile ==
  /\ server.at = "loading"
  /\ server' = [server EXCEPT !.at = "up", !.loaded = distFile]
  /\ UNCHANGED <<distFile, builds, autoRestart, tool, believed, unmarked, warnings>>

\* Calls that were running are lost, and the agent is told so.
Gone ==
  /\ server' = NewServer
  /\ tool' = [c \in ToolCalls |-> IF tool[c].at \in {"new", "answered"} THEN tool[c]
                                  ELSE [tool[c] EXCEPT !.at = "lost"]]
  /\ believed' = (believed /\ \A c \in ToolCalls : tool'[c].at # "lost")
  /\ UNCHANGED <<distFile, builds, autoRestart, unmarked, warnings>>

ExitStale == server.at = "up" /\ server.exiting /\ Gone

-----------------------------------------------------------------------------
(* A tool call *)

ChangeRuns ==
  \E c \in ToolCalls : tool[c].at \in {"running", "clean"} /\ Changes(tool[c].name)

CallTool(c) ==
  /\ server.at = "up" /\ tool[c].at = "new"
  /\ \E t \in Tools :
       /\ Changes(t) => ~ChangeRuns
       /\ tool' = [tool EXCEPT ![c] = [at |-> "running", name |-> t]]
  /\ UNCHANGED <<distFile, builds, server, autoRestart, believed, unmarked, warnings>>

\* forge_deploy resets first, as by default; forge_reset does nothing else.
ResetSim(c) ==
  /\ tool[c].at = "running" /\ Changes(tool[c].name)
  /\ server' = [server EXCEPT !.app = FALSE]
  /\ tool' = [tool EXCEPT ![c].at = "clean"]
  /\ UNCHANGED <<distFile, builds, autoRestart, believed, unmarked, warnings>>

IsStale(loaded, now) == loaded # NoDist /\ now > loaded + 1

\* Mutant: a rebuild is told again with every answer.
WarnWheneverStale(loaded, now, warned) == now # NoDist /\ IsStale(loaded, now)

ShouldWarnNow(loaded, now, warned) ==
  /\ now # NoDist
  /\ IsStale(loaded, now)
  /\ warned # now

\* Mutant: the notice goes with the answer that schedules the exit alone.
NoticeOnce == autoRestart /\ IsStale(server.loaded, distFile) /\ ~server.exiting

\* maybeScheduleStaleExit() returns a notice.
Restarts == autoRestart /\ IsStale(server.loaded, distFile)

\* What the wrapper of every tool does with the result of its handler.  The agent
\* believes in a deploy that succeeded, until a reset, a loss or a notice.
Respond(c, deployed) ==
  LET warn == ~Restarts /\ ShouldWarnNow(server.loaded, distFile, server.warned)
  IN  /\ server' = [server EXCEPT !.app = deployed,
                                  !.exiting = @ \/ Restarts,
                                  !.warned = IF warn THEN distFile ELSE @]
      /\ tool' = [tool EXCEPT ![c].at = "answered"]
      /\ believed' = IF Restarts THEN FALSE
                     ELSE IF Changes(tool[c].name) THEN deployed ELSE believed
      /\ unmarked' = /\ believed'
                      /\ \/ unmarked /\ ~Changes(tool[c].name)
                         \/ server'.exiting /\ distFile = NoDist
      /\ warnings' = warnings + (IF warn THEN 1 ELSE 0)
      /\ UNCHANGED <<distFile, builds, autoRestart>>

\* The handler of a deploy may fail after the reset.
AnswerDeploy(c) ==
  /\ tool[c] = [at |-> "clean", name |-> "forge_deploy"]
  /\ \E works \in BOOLEAN : Respond(c, works)

AnswerReset(c) == tool[c] = [at |-> "clean", name |-> "forge_reset"] /\ Respond(c, FALSE)

AnswerInvoke(c) ==
  tool[c] = [at |-> "running", name |-> "forge_invoke"] /\ Respond(c, server.app)

-----------------------------------------------------------------------------
McpInit ==
  /\ distFile = 1 /\ builds = 0
  /\ server = NewServer
  /\ autoRestart \in BOOLEAN
  /\ tool = [c \in ToolCalls |-> [at |-> "new", name |-> "forge_invoke"]]
  /\ believed = FALSE /\ unmarked = FALSE /\ warnings = 0

McpNext ==
  \/ CleanDist \/ WriteDist
  \/ StartServer \/ StatOwnFile \/ ExitStale
  \/ \E c \in ToolCalls : \/ CallTool(c) \/ ResetSim(c)
                          \/ AnswerDeploy(c) \/ AnswerReset(c) \/ AnswerInvoke(c)

-----------------------------------------------------------------------------
(* An agent that has deployed its app and has heard nothing since of a     *)
(* reset, a lost call or a restart has a process with its app: the exit    *)
(* of a stale server takes no state with it that the agent counts on, in   *)
(* whatever order overlapping calls, builds and the timer of the exit      *)
(* come.  The one gap is an answer given while the file is missing in the  *)
(* window before the exit (`unmarked`): currentMtime() is null then, and   *)
(* no notice repeats.  And a server that only warns does so once per       *)
(* build: "loud enough to act on, quiet enough to not drown out tool       *)
(* output" (src/staleness.ts).                                             *)
LossIsAnnounced == believed => server.app \/ unmarked \/ ChangeRuns
WarnsOncePerBuild == warnings <= builds
ServerIsCandid == LossIsAnnounced /\ WarnsOncePerBuild
=============================================================================
