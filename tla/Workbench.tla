----------------------------- MODULE Workbench ------------------------------
(***************************************************************************)
(* What surrounds a simulator on the developer's machine.                  *)
(*                                                                         *)
(* Of the machine: the registry of OAuth flows and its tokens              *)
(* (ExternalAuth), the daemon's files (Daemon), the credentials file that  *)
(* the CLI and the tools UI change (Credentials), and the process an agent *)
(* has its app deployed in (McpServer).                                    *)
(* Of a session of `forge-sim dev`: what a save of the app sets off        *)
(* (Redeploy), and the pages of the browser that call the dev server       *)
(* (Pages).  A redeploy leaves the sockets and the configurations of the   *)
(* pages alone, and a page's calls leave the definitions alone.            *)
(*                                                                         *)
(* Bound: a behaviour uses one of them, `concern`, chosen at the start.    *)
(***************************************************************************)
EXTENDS ExternalAuth, Daemon, Credentials, McpServer, Redeploy, Pages

VARIABLE concern

workbenchVars == <<eaVars, dmVars, crVars, mcVars, rdVars, pgVars, concern>>

NotFlows == <<dmVars, crVars, mcVars, rdVars, pgVars, concern>>
NotDaemon == <<eaVars, crVars, mcVars, rdVars, pgVars, concern>>
NotCredentials == <<eaVars, dmVars, mcVars, rdVars, pgVars, concern>>
NotMcp == <<eaVars, dmVars, crVars, rdVars, pgVars, concern>>
NotRedeploy == <<eaVars, dmVars, crVars, mcVars, pgVars, concern>>
NotPages == <<eaVars, dmVars, crVars, mcVars, rdVars, concern>>

UseFlows == concern = "flows" /\ ExternalAuthNext /\ UNCHANGED NotFlows
UseDaemon == concern = "daemon" /\ DaemonNext /\ UNCHANGED NotDaemon
UseCredentials == concern = "credentials" /\ CredentialsNext /\ UNCHANGED NotCredentials
UseMcp == concern = "mcp" /\ McpNext /\ UNCHANGED NotMcp
UseRedeploy == concern = "redeploy" /\ RedeployNext /\ UNCHANGED NotRedeploy
UsePages == concern = "pages" /\ PagesNext /\ UNCHANGED NotPages

WorkbenchInit ==
  /\ ExternalAuthInit /\ DaemonInit /\ CredentialsInit /\ McpInit /\ RedeployInit /\ PagesInit
  /\ concern \in {"flows", "daemon", "credentials", "mcp", "redeploy", "pages"}
  /\ concern # "mcp" => ~autoRestart

WorkbenchNext ==
  \/ UseFlows \/ UseDaemon \/ UseCredentials \/ UseMcp \/ UseRedeploy \/ UsePages

\* The timer of a pending flow fires, though an exchange may hang for ever.  A daemon that
\* listens and a command take their next steps: they wait for nothing but timers of their
\* own.  A daemon that was spawned may hang before it listens.  The dev server handles what
\* it gets for a page, and the page takes its answers: no code of the app runs for the calls
\* that are modelled.  The timers and connections of a page promise nothing.  Fairness among
\* the flows, the daemons, the commands or the frames is not assumed: each has finitely many
\* steps to take.
WorkbenchFairness ==
  /\ WF_workbenchVars(concern = "flows" /\ (\E f \in Flows : Timeout(f))
                       /\ UNCHANGED NotFlows)
  /\ WF_workbenchVars(concern = "daemon" /\ (\E d \in Daemons : DaemonProceeds(d))
                       /\ UNCHANGED NotDaemon)
  /\ WF_workbenchVars(concern = "daemon" /\ (\E c \in Clients : ClientProceeds(c))
                       /\ UNCHANGED NotDaemon)
  /\ WF_workbenchVars(concern = "pages" /\ (\E f \in Frames : ServerHandles(f) \/ AnswerArrives(f))
                       /\ UNCHANGED NotPages)

WorkbenchSpec == WorkbenchInit /\ [][WorkbenchNext]_workbenchVars /\ WorkbenchFairness

\* Nobody waits for ever: a flow whose browser does not return, a command whose daemon hangs
\* or dies, a daemon that nobody uses, and a call whose connection drops all come to an end.
EverythingSettles == FlowsSettle /\ ProcessesEnd /\ SentSettle
=============================================================================
