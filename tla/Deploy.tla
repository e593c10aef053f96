------------------------------- MODULE Deploy -------------------------------
(***************************************************************************)
(* Deploying an app into a simulator, and the Forge variables that it      *)
(* injects.                                                                *)
(*                                                                         *)
(* Variables: VariablesManager (src/variables.ts).  A deploy injects the   *)
(* variables of the host, of variables.json and of setVariables() into     *)
(* process.env, which every simulator of the process shares; reset() puts  *)
(* back what was there.  inject() reads the file between the two, so other *)
(* calls come in between.                                                  *)
(*                                                                         *)
(* Deploys: deploy() of src/deployer.ts, with the tables it fills          *)
(* (src/resolver.ts, src/function-registry.ts, the consumers of the queue) *)
(* and the reset() that forge_deploy of the MCP server (src/mcp-server.ts) *)
(* puts before it.  A deploy injects the variables, loads the handlers     *)
(* file by file and registers them in one stretch at the end; nothing      *)
(* keeps two deploys apart.                                                *)
(*                                                                         *)
(* A function is known by its kind: how its handler is exported and what   *)
(* the manifest binds it to.  The manifest is valid and does not change.   *)
(*                                                                         *)
(* Bounds: a manager makes MaxInjects injections; Values are the values a  *)
(* key may have; no key of a file begins with FORGE_USER_VAR_.  Deploys    *)
(* are all the calls, which are alike and begin in a fixed order           *)
(* (NextDeploy); MaxEdits saves of the app's files.                        *)
(***************************************************************************)
EXTENDS Naturals, Sequences, FiniteSets

-----------------------------------------------------------------------------
(* Variables *)

CONSTANTS Managers, Keys, Values,
          HostEnv,      \* key -> its value in process.env to begin with, or Absent
          HostUserVars, \* key -> value of FORGE_USER_VAR_<key>, or Absent
          MaxInjects

Absent == "absent"
NoVars == [k \in Keys |-> Absent]
NotTaken == "not taken"     \* no entry in the snapshot: not the same as Absent
NoSnapshot == [k \in Keys |-> NotTaken]

ASSUME VariablesAssumption ==
  /\ HostEnv = [k \in Keys |-> HostEnv[k]]
  /\ \A k \in Keys : HostEnv[k] # NotTaken
MaybeValues == Values \cup {Absent}

VARIABLES env,          \* process.env
          varFile,      \* variables.json: key -> value
          ephemeral,    \* manager -> key -> value
          fileVars,     \* manager -> key -> value, as of the last injection
          snapshot,     \* manager -> key -> value before injection; see NotTaken
          injecting,    \* manager -> its injections that await the file
          injections,   \* manager -> how many it has begun
          overlaid      \* history: an injection was laid over another

vrVars == <<env, varFile, ephemeral, fileVars, snapshot, injecting, injections, overlaid>>

\* restoreEnv()
Restored(m) == [k \in Keys |-> IF snapshot[m][k] = NotTaken THEN env[k] ELSE snapshot[m][k]]

\* Host < file < ephemeral.
Effective(m) == [k \in Keys |->
  CASE ephemeral[m][k] # Absent -> ephemeral[m][k]
    [] ephemeral[m][k] = Absent /\ varFile[k] # Absent -> varFile[k]
    [] OTHER -> HostUserVars[k]]

SetVariable(m, k, v) ==
  /\ ephemeral' = [ephemeral EXCEPT ![m][k] = v]
  /\ UNCHANGED <<env, varFile, fileVars, snapshot, injecting, injections, overlaid>>

EditVariablesFile(k, v) ==
  /\ varFile' = [varFile EXCEPT ![k] = v]
  /\ UNCHANGED <<env, ephemeral, fileVars, snapshot, injecting, injections, overlaid>>

\* Mutant: the previous injection is not undone.
KeepPrevious(m) == UNCHANGED <<env, snapshot>>

UndoPrevious(m) == env' = Restored(m) /\ snapshot' = [snapshot EXCEPT ![m] = NoSnapshot]

\* inject(), up to its await.
BeginInject(m) ==
  /\ injections[m] < MaxInjects
  /\ UndoPrevious(m)
  /\ injecting' = [injecting EXCEPT ![m] = @ + 1]
  /\ injections' = [injections EXCEPT ![m] = @ + 1]
  /\ UNCHANGED <<varFile, ephemeral, fileVars, overlaid>>

\* inject(), after it; a file that is missing or is not valid has no variables.
Inject(m) ==
  LET vars == Effective(m) IN
  /\ injecting[m] > 0
  /\ injecting' = [injecting EXCEPT ![m] = @ - 1]
  /\ fileVars' = [fileVars EXCEPT ![m] = varFile]
  /\ snapshot' = [snapshot EXCEPT ![m] =
                    [k \in Keys |-> IF vars[k] # Absent THEN env[k] ELSE @[k]]]
  /\ env' = [k \in Keys |-> IF vars[k] # Absent THEN vars[k] ELSE env[k]]
  /\ overlaid' = (overlaid \/ \E n \in Managers :
                     \/ n # m /\ snapshot[n] # NoSnapshot
                     \/ n = m /\ injecting[n] > 1)
  /\ UNCHANGED <<varFile, ephemeral, injections>>

\* reset(): the ephemeral variables stay.
ResetVariables(m) ==
  /\ env' = Restored(m)
  /\ snapshot' = [snapshot EXCEPT ![m] = NoSnapshot]
  /\ fileVars' = [fileVars EXCEPT ![m] = NoVars]
  /\ UNCHANGED <<varFile, ephemeral, injecting, injections, overlaid>>

VariablesInit ==
  /\ env = HostEnv /\ varFile \in {NoVars} \cup [Keys -> Values]
  /\ ephemeral = [m \in Managers |-> NoVars]
  /\ fileVars = [m \in Managers |-> NoVars]
  /\ snapshot = [m \in Managers |-> NoSnapshot]
  /\ injecting = [m \in Managers |-> 0]
  /\ injections = [m \in Managers |-> 0]
  /\ overlaid = FALSE

-----------------------------------------------------------------------------
(* Deploys *)

CONSTANTS Deploys, MaxEdits,
          SourceFiles,  \* the files of the handlers, in the manifest's order
          Kinds,        \* the kinds of the functions of the app: one of each
          SourceOf,     \* kind -> its file
          Simulator     \* the manager of this simulator's variables

VARIABLES appSource,    \* file -> [version, ok]: as saved, and whether it loads
          edits,
          deployed,     \* call -> its stage and what it has loaded
          latest,       \* history: the call that ended last, none since a reset
          definitions,  \* kind -> version in the resolver's definitions, or NoCode
          registry,     \* kind -> version in the function registry, or NoCode
          queueRuns     \* kind -> version registered for its queue, or NoCode

dpVars == <<appSource, edits, deployed, latest, definitions, registry, queueRuns>>

NoCode == 0
NotLoaded == 0
FilesOfApp == {SourceFiles[i] : i \in DOMAIN SourceFiles}
NoTable == [k \in Kinds |-> NoCode]
NoDeploy == "no deploy"

ASSUME DeployAssumption ==
  /\ SourceFiles \in Seq(FilesOfApp)
  /\ SourceOf \in [Kinds -> FilesOfApp]
  /\ NoDeploy \notin Deploys
  /\ Simulator \in Managers

InProgress == {c \in Deploys : deployed[c].at \notin {"new", "done"}}

\* What the resolver of @forge/resolver defines as its file is evaluated.
DefinedOnImport == {"resolver"}
\* Kinds that are invoked by key from the resolver's definitions; the map of a resolver
\* that is not the shim's is such a kind.
InvokedByKey == {"resolver", "map", "ui function", "generic"}
\* Kinds whose handler replaces the one before; the others keep it.
Bound == {"trigger", "consumer", "scheduled"}

\* reset() of the simulator, as far as a deploy is concerned.
ClearTables == /\ definitions' = NoTable /\ registry' = NoTable /\ queueRuns' = NoTable
               /\ latest' = NoDeploy

EditApp(file, ok) ==
  /\ edits < MaxEdits
  /\ edits' = edits + 1
  /\ appSource' = [appSource EXCEPT ![file] = [version |-> @.version + 1, ok |-> ok]]
  /\ UNCHANGED <<deployed, latest, definitions, registry, queueRuns, vrVars>>

NextDeploy == CHOOSE c \in Deploys : deployed[c].at = "new"

\* The call, with the reset it may begin with.
BeginDeploy(c, reset) ==
  /\ deployed[c].at = "new" /\ c = NextDeploy
  /\ deployed' = [d \in Deploys |->
       IF d = c THEN [deployed[c] EXCEPT !.at = "begun", !.muddled = InProgress # {},
                        !.fresh = reset \/ (registry = NoTable /\ definitions = NoTable)]
       ELSE [deployed[d] EXCEPT !.muddled = @ \/ d \in InProgress]]
  /\ IF reset THEN ClearTables /\ ResetVariables(Simulator)
     ELSE UNCHANGED <<latest, definitions, registry, queueRuns, vrVars>>
  /\ UNCHANGED <<appSource, edits>>

\* The manifest is read, and the variables are injected in two steps.
BeginDeployInject(c) ==
  /\ deployed[c].at = "begun"
  /\ deployed' = [deployed EXCEPT ![c].at = "injecting"]
  /\ BeginInject(Simulator)
  /\ UNCHANGED <<appSource, edits, latest, definitions, registry, queueRuns>>

DeployInject(c) ==
  /\ deployed[c].at = "injecting"
  /\ deployed' = [deployed EXCEPT ![c].at = "bundling"]
  /\ Inject(Simulator)
  /\ UNCHANGED <<appSource, edits, latest, definitions, registry, queueRuns>>

\* bundleHandlerToFileUrl(): reads the next file; one that cannot be bundled is passed over.
BundleSource(c) ==
  LET file == Head(deployed[c].todo)
      s == appSource[file]
  IN /\ deployed[c].at = "bundling" /\ deployed[c].todo # <<>>
     /\ deployed' = IF s.ok
                    THEN [deployed EXCEPT ![c].at = "importing", ![c].code[file] = s.version]
                    ELSE [deployed EXCEPT ![c].todo = Tail(@)]
     /\ UNCHANGED <<appSource, edits, latest, definitions, registry, queueRuns, vrVars>>

\* Evaluates the module, which defines the keys of the shim's resolver.
ImportSource(c) ==
  LET file == Head(deployed[c].todo) IN
  /\ deployed[c].at = "importing"
  /\ deployed' = [deployed EXCEPT ![c].at = "bundling", ![c].todo = Tail(@)]
  /\ definitions' = [k \in Kinds |-> IF k \in DefinedOnImport /\ SourceOf[k] = file
                                     THEN deployed[c].code[file] ELSE definitions[k]]
  /\ UNCHANGED <<appSource, edits, latest, registry, queueRuns, vrVars>>

-----------------------------------------------------------------------------
(* The registrations, one after the other without an await *)

\* What a deploy has to register: the kinds whose handler it has loaded.
CodeOf(c, k) == deployed[c].code[SourceOf[k]]
LoadedKinds(c) == {k \in Kinds : CodeOf(c, k) # NotLoaded}

DefineMissing(c) ==
  [k \in Kinds |-> IF k \in LoadedKinds(c) \cap InvokedByKey /\ definitions[k] = NoCode
                   THEN CodeOf(c, k) ELSE definitions[k]]

\* Mutant: what no trigger, consumer or schedule binds is not registered.
RegisterBound(c) ==
  [k \in Kinds |-> IF k \in LoadedKinds(c) \cap Bound THEN CodeOf(c, k) ELSE registry[k]]

\* registerFunction(): web triggers, and what nothing else bound, only if it is missing.
Registered(c) ==
  [k \in Kinds |->
     IF \/ k \in LoadedKinds(c) \cap Bound
        \/ k \in LoadedKinds(c) \ {"resolver", "map"} /\ registry[k] = NoCode
     THEN CodeOf(c, k) ELSE registry[k]]

Subscribed(c) ==
  [k \in Kinds |-> IF k \in LoadedKinds(c) /\ k = "consumer" THEN CodeOf(c, k)
                   ELSE queueRuns[k]]

Register(c) ==
  /\ deployed[c].at = "bundling" /\ deployed[c].todo = <<>>
  /\ deployed' = [deployed EXCEPT ![c].at = "done"]
  /\ latest' = c
  /\ definitions' = DefineMissing(c)
  /\ registry' = Registered(c)
  /\ queueRuns' = Subscribed(c)
  /\ UNCHANGED <<appSource, edits, vrVars>>

\* Another simulator of the process uses its own variables.
OtherSimulator ==
  /\ \E m \in Managers \ {Simulator} : BeginInject(m) \/ Inject(m) \/ ResetVariables(m)
  /\ UNCHANGED dpVars

VariablesChange ==
  /\ \E k \in Keys, v \in MaybeValues :
       EditVariablesFile(k, v) \/ SetVariable(Simulator, k, v)
  /\ UNCHANGED dpVars

DeployInit ==
  /\ VariablesInit
  /\ appSource = [file \in FilesOfApp |-> [version |-> 1, ok |-> TRUE]]
  /\ edits = 0
  /\ deployed = [c \in Deploys |->
       [at |-> "new", todo |-> SourceFiles, code |-> [file \in FilesOfApp |-> NotLoaded],
        fresh |-> FALSE, muddled |-> FALSE]]
  /\ latest = NoDeploy
  /\ definitions = NoTable /\ registry = NoTable /\ queueRuns = NoTable

DeployNext ==
  \/ \E file \in FilesOfApp, ok \in BOOLEAN : EditApp(file, ok)
  \/ \E c \in Deploys : \/ \E reset \in BOOLEAN : BeginDeploy(c, reset)
                        \/ BeginDeployInject(c) \/ DeployInject(c)
                        \/ BundleSource(c) \/ ImportSource(c) \/ Register(c)
  \/ VariablesChange \/ OtherSimulator

-----------------------------------------------------------------------------
(* Properties *)

\* Unless one injection was laid over another, of an overlapping deploy or of another
\* simulator, process.env is the host's again once nothing is injected: no variable of
\* an earlier deploy lingers, whatever changed in the file in between.
EnvIsRestored ==
  ~overlaid /\ (\A m \in Managers : snapshot[m] = NoSnapshot) => env = HostEnv

\* What a call, an event or a schedule of a function runs.
Runs(k) == CASE k \in InvokedByKey -> definitions[k]
             [] k = "consumer" -> queueRuns[k]
             [] OTHER -> registry[k]

\* A deploy that loaded every file, while no other deploy was in progress, and after which
\* none has ended or begun.
Clean(c) == /\ latest = c /\ InProgress = {} /\ ~deployed[c].muddled
            /\ LoadedKinds(c) = Kinds

\* After such a deploy, on a simulator where nothing was deployed since its reset, every
\* function runs the code that was deployed; and on any other, the functions whose
\* registration replaces the one before.
CleanDeployRuns ==
  \A c \in Deploys : Clean(c) =>
    \A k \in Kinds : deployed[c].fresh \/ k \in Bound \cup DefinedOnImport =>
      Runs(k) = CodeOf(c, k)

\* What the deployer's comments say of a redeploy without reset(): that it replaces the
\* app as a whole.  It does not: handlers that are not the shim's resolver, a trigger, a
\* consumer or a schedule keep running the code of the deploy before.
DeployReplacesCode ==
  \A c \in Deploys : Clean(c) => \A k \in Kinds : Runs(k) = CodeOf(c, k)
=============================================================================
