------------------------------- MODULE Daemon -------------------------------
(***************************************************************************)
(* The background daemon (src/daemon.ts) and the CLI commands that find,   *)
(* start, use and stop it (src/daemon-client.ts).  They are processes that *)
(* share two files, daemon.pid and daemon.port, and nothing else: any two  *)
(* steps of two processes interleave, and a process may be killed anywhere.*)
(* A daemon stands for its pid and for its port.  A file while it is being *)
(* written reads as an absent one.                                         *)
(*                                                                         *)
(* Bounds: Daemons are all the processes that may be spawned, Clients all  *)
(* the commands that may run.                                              *)
(***************************************************************************)
CONSTANTS Daemons, Clients,
          Reused      \* pids another process of the host has once the daemon is gone

NoDaemon == "no daemon"

ASSUME DaemonAssumption == NoDaemon \notin Daemons

VARIABLES daemon,     \* d -> its stage, whether it announced itself, recent activity
          pidFile, portFile,
          client,     \* c -> its stage, the pid and port it holds, and whether it is
                      \* `forge-sim stop`; the other commands send a request
          disturbed   \* history: see FoundAgain

dmVars == <<daemon, pidFile, portFile, client, disturbed>>

InCall(c) == client[c].at \notin {"new", "done", "failed"}
InTransit(d) == daemon[d].at \notin {"unborn", "up", "gone"}
Alive(d) == daemon[d].at \notin {"unborn", "gone"}

\* What happens to a daemon in the middle of a call disturbs.
DisturbedBy(P) == disturbed' = (disturbed \/ P)
DuringACall == \E c \in Clients : InCall(c)

MoveClient(c, stage) == client' = [client EXCEPT ![c].at = stage]
MoveDaemon(d, stage) == daemon' = [daemon EXCEPT ![d].at = stage]

-----------------------------------------------------------------------------
(* The daemon *)

\* The server listens: writePidFile(), one file after the other; then it is up, its
\* idle timer runs and it announces its port.
WritePid(d) ==
  /\ daemon[d].at = "spawned"
  /\ MoveDaemon(d, "listening") /\ pidFile' = d
  /\ UNCHANGED <<portFile, client, disturbed>>

WritePort(d) ==
  /\ daemon[d].at \in {"listening", "signalled"}
  /\ daemon' = [daemon EXCEPT ![d] =
                   [at |-> IF daemon[d].at = "listening" THEN "up" ELSE "ending",
                    announced |-> TRUE, recent |-> TRUE]]
  /\ portFile' = d
  /\ UNCHANGED <<pidFile, client, disturbed>>

HalfAnHour(d) ==
  /\ daemon[d].at = "up" /\ daemon[d].recent
  /\ daemon' = [daemon EXCEPT ![d].recent = FALSE]
  /\ UNCHANGED <<pidFile, portFile, client, disturbed>>

\* Mutant: the minute's check counts as activity.
NeverIdle(d) == FALSE

Idle(d) == ~daemon[d].recent

\* The idle timer finds nothing done for half an hour: shutdown().
IdleShutdown(d) ==
  /\ daemon[d].at = "up" /\ Idle(d)
  /\ MoveDaemon(d, "ending") /\ DisturbedBy(DuringACall)
  /\ UNCHANGED <<pidFile, portFile, client>>

\* cleanupPidFile(), whoever the files are of: in shutdown() and again on exit.
\* SIGINT, the fatal error of a port in use and the like come here as well.
UnlinkPid(d) ==
  /\ daemon[d].at \in {"ending", "exiting"}
  /\ MoveDaemon(d, IF daemon[d].at = "ending" THEN "ending port" ELSE "exiting port")
  /\ pidFile' = NoDaemon
  /\ UNCHANGED <<portFile, client, disturbed>>

UnlinkPort(d) ==
  /\ daemon[d].at \in {"ending port", "exiting port"}
  /\ MoveDaemon(d, IF daemon[d].at = "ending port" THEN "closing" ELSE "gone")
  /\ portFile' = NoDaemon
  /\ UNCHANGED <<pidFile, client, disturbed>>

\* The server has closed, or five seconds have passed.
Exit(d) ==
  /\ daemon[d].at = "closing"
  /\ MoveDaemon(d, "exiting")
  /\ UNCHANGED <<pidFile, portFile, client, disturbed>>

\* SIGKILL: nothing is cleaned up.
Killed(d) ==
  /\ Alive(d)
  /\ MoveDaemon(d, "gone") /\ DisturbedBy(DuringACall)
  /\ UNCHANGED <<pidFile, portFile, client>>

-----------------------------------------------------------------------------
(* A command: getDaemonStatus() and what follows from it *)

\* No daemon: stopDaemon() gives up, ensureDaemon() spawns one.
WithoutDaemon(stop) == IF stop THEN "done" ELSE "spawn"

LookForFiles(c) ==
  /\ client[c].at = "new"
  /\ DisturbedBy(DuringACall \/ \E d \in Daemons : InTransit(d))
  /\ \E stop \in BOOLEAN :
       client' = [client EXCEPT ![c].stop = stop,
                                ![c].at = IF NoDaemon \in {pidFile, portFile}
                                          THEN WithoutDaemon(stop) ELSE "look"]
  /\ UNCHANGED <<daemon, pidFile, portFile>>

\* A file that is gone by now makes the read throw, and the command fail.
ReadPidFile(c) ==
  /\ client[c].at = "look"
  /\ client' = [client EXCEPT ![c].at = IF pidFile = NoDaemon THEN "failed" ELSE "pid",
                              ![c].pid = pidFile]
  /\ UNCHANGED <<daemon, pidFile, portFile, disturbed>>

ReadPortFile(c) ==
  /\ client[c].at = "pid"
  /\ client' = [client EXCEPT ![c].at = IF portFile = NoDaemon THEN "failed" ELSE "port",
                              ![c].port = portFile]
  /\ UNCHANGED <<daemon, pidFile, portFile, disturbed>>

\* The process is dead: the files are removed, whoever wrote them since.
FindDead(c) ==
  /\ client[c].at = "port" /\ ~Alive(client[c].pid) /\ client[c].pid \notin Reused
  /\ MoveClient(c, WithoutDaemon(client[c].stop))
  /\ pidFile' = NoDaemon /\ portFile' = NoDaemon
  /\ UNCHANGED <<daemon, disturbed>>

\* Mutant: a daemon that answers is not taken for one that runs.
Ignored(c) == FALSE

Answers(c) == daemon[client[c].port].at = "up"

\* The process is there; its port answers the health check.
FindRunning(c) ==
  /\ client[c].at = "port" /\ (Alive(client[c].pid) \/ client[c].pid \in Reused)
  /\ Answers(c)
  /\ daemon' = [daemon EXCEPT ![client[c].port].recent = TRUE]
  /\ MoveClient(c, IF client[c].stop THEN "signal" ELSE "request")
  /\ UNCHANGED <<pidFile, portFile, disturbed>>

\* The port does not answer in time; a daemon that is busy may not.  ensureDaemon()
\* removes the files; stopDaemon() signals the process all the same.
FindUnresponsive(c) ==
  /\ client[c].at = "port" /\ (Alive(client[c].pid) \/ client[c].pid \in Reused)
  /\ DisturbedBy(Answers(c))
  /\ IF client[c].stop
     THEN MoveClient(c, "signal") /\ UNCHANGED <<pidFile, portFile>>
     ELSE MoveClient(c, "spawn") /\ pidFile' = NoDaemon /\ portFile' = NoDaemon
  /\ UNCHANGED daemon

Spawn(c) ==
  /\ client[c].at = "spawn"
  /\ \E d \in Daemons :
       /\ daemon[d].at = "unborn"
       /\ MoveDaemon(d, "spawned")
       /\ client' = [client EXCEPT ![c].at = "starting", ![c].pid = d, ![c].port = d]
  /\ UNCHANGED <<pidFile, portFile, disturbed>>

\* The child writes its port to stdout.
ChildStarted(c) ==
  /\ client[c].at = "starting" /\ daemon[client[c].pid].announced
  /\ MoveClient(c, "request")
  /\ UNCHANGED <<daemon, pidFile, portFile, disturbed>>

ChildExited(c) ==
  /\ client[c].at = "starting" /\ daemon[client[c].pid].at = "gone"
  /\ MoveClient(c, "failed")
  /\ UNCHANGED <<daemon, pidFile, portFile, disturbed>>

\* SIGTERM: shutdown(), unless it has begun; a process that is writing its files
\* handles the signal after that.
Terminated(d) ==
  CASE daemon[d].at \in {"spawned", "up"} -> [daemon EXCEPT ![d].at = "ending"]
    [] daemon[d].at = "listening" -> [daemon EXCEPT ![d].at = "signalled"]
    [] OTHER -> daemon

\* Mutant: the startup has no time limit.
WaitsForEver(c) == FALSE

WatchdogRuns(c) == ~daemon[client[c].pid].announced

\* Ten seconds have passed: child.kill().
StartupTimedOut(c) ==
  /\ client[c].at = "starting" /\ WatchdogRuns(c)
  /\ daemon' = Terminated(client[c].pid)
  /\ MoveClient(c, "failed")
  /\ UNCHANGED <<pidFile, portFile, disturbed>>

SignalDaemon(c) ==
  /\ client[c].at = "signal"
  /\ daemon' = Terminated(client[c].pid)
  /\ MoveClient(c, "done")
  /\ UNCHANGED <<pidFile, portFile, disturbed>>

\* The request itself: a daemon that is not up refuses it, one that is up may be slow.
Request(c) ==
  /\ client[c].at = "request"
  /\ IF daemon[client[c].port].at = "up"
     THEN /\ \E how \in {"done", "failed"} : MoveClient(c, how)
          /\ daemon' = [daemon EXCEPT ![client[c].port].recent = TRUE]
     ELSE MoveClient(c, "failed") /\ UNCHANGED daemon
  /\ UNCHANGED <<pidFile, portFile, disturbed>>

Interrupted(c) ==
  /\ InCall(c)
  /\ MoveClient(c, "failed")
  /\ UNCHANGED <<daemon, pidFile, portFile, disturbed>>

DaemonInit ==
  /\ daemon = [d \in Daemons |-> [at |-> "unborn", announced |-> FALSE, recent |-> FALSE]]
  /\ pidFile = NoDaemon /\ portFile = NoDaemon
  /\ client = [c \in Clients |->
                 [at |-> "new", pid |-> NoDaemon, port |-> NoDaemon, stop |-> FALSE]]
  /\ disturbed = FALSE

DaemonProceeds(d) ==
  \/ WritePort(d) \/ HalfAnHour(d) \/ IdleShutdown(d)
  \/ UnlinkPid(d) \/ UnlinkPort(d) \/ Exit(d)

ClientProceeds(c) ==
  \/ ReadPidFile(c) \/ ReadPortFile(c) \/ FindDead(c) \/ FindRunning(c)
  \/ FindUnresponsive(c) \/ Spawn(c) \/ ChildStarted(c) \/ ChildExited(c)
  \/ StartupTimedOut(c) \/ SignalDaemon(c) \/ Request(c)

DaemonNext ==
  \/ \E d \in Daemons : WritePid(d) \/ DaemonProceeds(d) \/ Killed(d)
  \/ \E c \in Clients : LookForFiles(c) \/ ClientProceeds(c) \/ Interrupted(c)

-----------------------------------------------------------------------------
(* Properties *)

\* Unless commands overlap, a health check is slow, or a daemon starts or ends in the
\* middle of a command, the daemon that is up is the one the files name: the next
\* command finds it again, and no second one is started beside it.
FoundAgain ==
  ~disturbed => \A d \in Daemons : daemon[d].at = "up" => pidFile = d /\ portFile = d

\* Every command ends, even if the daemon it spawned hangs before it is up, or dies without a
\* word; and every daemon ends once nobody uses it, also one whose files another process
\* removed: there comes a time when no command runs and no daemon is up.
ProcessesEnd ==
  ((\E c \in Clients : InCall(c)) \/ (\E d \in Daemons : daemon[d].at = "up"))
    ~> ((\A c \in Clients : ~InCall(c))
          /\ (\A d \in Daemons : daemon[d].at \in {"unborn", "spawned", "gone"}))
=============================================================================
