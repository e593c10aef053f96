--------------------------- MODULE ServicesProofs ---------------------------
(***************************************************************************)
(* Theorems about Services, for any deploys, simulators, variables, files, *)
(* kinds of functions, renders, waits, URLs, channels and subscribers.     *)
(*                                                                         *)
(* The components share nothing, so that a step of ServicesNext is a step  *)
(* of one component or of reset(), and leaves the others as they are.      *)
(***************************************************************************)
EXTENDS Services, SequenceTheorems, FiniteSetTheorems, TLAPS

-----------------------------------------------------------------------------
(* Variables: what a deploy does to process.env *)

(* An injection, its beginning or its end, or reset(). *)
Injects == \E m \in Managers : BeginInject(m) \/ Inject(m) \/ ResetVariables(m)

EnvRests == UNCHANGED <<env, snapshot, injecting, overlaid>>

(* Every step of the services injects, resets, or leaves process.env alone. *)
LEMMA EnvSteps ==
  ASSUME [ServicesNext]_servicesVars
  PROVE  Injects \/ EnvRests
<1>. USE DEF vrVars, EnvRests
<1>1. Simulator \in Managers
  BY DeployAssumption
<1>2. CASE UseDeploy
  <2>1. CASE VariablesChange
    BY <2>1 DEF VariablesChange, EditVariablesFile, SetVariable
  <2>2. CASE OtherSimulator
    BY <2>2 DEF OtherSimulator, Injects
  <2>3. ASSUME NEW file \in FilesOfApp, NEW ok \in BOOLEAN, EditApp(file, ok) PROVE EnvRests
    BY <2>3 DEF EditApp
  <2>4. ASSUME NEW c \in Deploys, NEW reset \in BOOLEAN, BeginDeploy(c, reset)
        PROVE  Injects \/ EnvRests
    BY <1>1, <2>4 DEF BeginDeploy, Injects
  <2>5. ASSUME NEW c \in Deploys, BeginDeployInject(c) \/ DeployInject(c) PROVE Injects
    BY <1>1, <2>5 DEF BeginDeployInject, DeployInject, Injects
  <2>6. ASSUME NEW c \in Deploys, BundleSource(c) \/ ImportSource(c) \/ Register(c)
        PROVE  EnvRests
    BY <2>6 DEF BundleSource, ImportSource, Register
  <2>. QED
    BY <1>2, <2>1, <2>2, <2>3, <2>4, <2>5, <2>6 DEF UseDeploy, DeployNext
<1>3. CASE SimulatorReset
  BY <1>1, <1>3 DEF SimulatorReset, Injects
<1>4. CASE UseRealtime \/ UseObjectStore \/ UseUI \/ SimulatorStop \/ UNCHANGED servicesVars
  BY <1>4 DEF UseRealtime, UseObjectStore, UseUI, SimulatorStop, servicesVars
<1>. QED
  BY <1>2, <1>3, <1>4 DEF ServicesNext

(* Unless one injection was laid over another, one manager at most has something to
   restore, and restoring it gives the environment of the host. *)
EnvTyped ==
  /\ env = [k \in Keys |-> env[k]]
  /\ snapshot = [m \in Managers |-> snapshot[m]]
  /\ \A m \in Managers : snapshot[m] = [k \in Keys |-> snapshot[m][k]]
  /\ injecting \in [Managers -> Nat]

EnvHeld ==
  ~overlaid =>
     /\ \A m, n \in Managers : snapshot[m] # NoSnapshot /\ snapshot[n] # NoSnapshot => m = n
     /\ \A m \in Managers : snapshot[m] # NoSnapshot => Restored(m) = HostEnv
     /\ (\A m \in Managers : snapshot[m] = NoSnapshot) => env = HostEnv
     /\ \A m \in Managers : injecting[m] > 0 => snapshot[m] = NoSnapshot

EnvInv == EnvTyped /\ EnvHeld

(* restoreEnv(): nothing of the manager is left to restore. *)
LEMMA RestoreKeeps ==
  ASSUME EnvInv, NEW m \in Managers,
         env' = Restored(m), snapshot' = [snapshot EXCEPT ![m] = NoSnapshot],
         overlaid' = overlaid, injecting' \in [Managers -> Nat],
         \A n \in Managers : n # m => injecting'[n] = injecting[n]
  PROVE  EnvInv'
<1>1. \A n \in Managers : snapshot'[n] = IF n = m THEN NoSnapshot ELSE snapshot[n]
  BY DEF EnvInv, EnvHeld, EnvTyped
<1>2. EnvTyped'
  BY <1>1 DEF EnvInv, EnvHeld, EnvTyped, Restored, NoSnapshot
<1>3. ASSUME ~overlaid, snapshot[m] = NoSnapshot PROVE env' = env /\ snapshot' = snapshot
  <2>1. env' = [k \in Keys |-> env[k]]
    BY <1>3 DEF Restored, NoSnapshot
  <2>. QED
    BY <1>1, <1>3, <2>1 DEF EnvInv, EnvHeld, EnvTyped
<1>4. ASSUME ~overlaid, snapshot[m] # NoSnapshot
      PROVE  env' = HostEnv /\ \A n \in Managers : snapshot'[n] = NoSnapshot
  BY <1>1, <1>4 DEF EnvInv, EnvHeld
<1>5. \A n \in Managers : Restored(n)' = [k \in Keys |-> IF snapshot'[n][k] = NotTaken
                                                         THEN env'[k] ELSE snapshot'[n][k]]
  BY DEF Restored
<1>6. ASSUME ~overlaid, snapshot[m] = NoSnapshot PROVE EnvInv'
  <2>1. \A n \in Managers : Restored(n)' = Restored(n)
    BY <1>3, <1>5, <1>6 DEF Restored
  <2>. QED
    BY <1>1, <1>2, <1>3, <1>6, <2>1 DEF EnvInv, EnvHeld
<1>7. ASSUME ~overlaid, snapshot[m] # NoSnapshot PROVE EnvInv'
  BY <1>2, <1>4, <1>7 DEF EnvInv, EnvHeld
<1>8. ASSUME overlaid PROVE EnvInv'
  BY <1>2, <1>8 DEF EnvInv, EnvHeld
<1>. QED
  BY <1>6, <1>7, <1>8

(* inject() after its await: the environment of the host is what it takes down. *)
LEMMA InjectKeeps ==
  ASSUME EnvInv, NEW m \in Managers, Inject(m)
  PROVE  EnvInv'
<1>. DEFINE taken == [k \in Keys |-> IF Effective(m)[k] # Absent THEN env[k] ELSE snapshot[m][k]]
<1>1. /\ injecting[m] > 0 /\ injecting' = [injecting EXCEPT ![m] = @ - 1]
      /\ snapshot' = [snapshot EXCEPT ![m] = taken]
      /\ env' = [k \in Keys |-> IF Effective(m)[k] # Absent THEN Effective(m)[k] ELSE env[k]]
  BY DEF Inject
<1>2. \A n \in Managers : snapshot'[n] = IF n = m THEN taken ELSE snapshot[n]
  BY <1>1 DEF EnvInv, EnvHeld, EnvTyped
<1>3. injecting' \in [Managers -> Nat]
  BY <1>1 DEF EnvInv, EnvHeld, EnvTyped
<1>4. EnvTyped'
  BY <1>1, <1>2, <1>3 DEF EnvInv, EnvHeld, EnvTyped
<1>5. ASSUME ~overlaid'
      PROVE  /\ ~overlaid /\ injecting[m] = 1
             /\ \A n \in Managers : snapshot[n] = NoSnapshot
  <2>1. ~overlaid /\ ~(injecting[m] > 1) /\ \A n \in Managers : n # m => snapshot[n] = NoSnapshot
    BY <1>5 DEF Inject
  <2>2. injecting[m] = 1
    BY <1>1, <2>1 DEF EnvInv, EnvHeld, EnvTyped
  <2>. QED
    BY <1>1, <2>1, <2>2 DEF EnvInv, EnvHeld
<1>6. ASSUME ~overlaid'
      PROVE  Restored(m)' = HostEnv
  <2>1. env = HostEnv /\ snapshot[m] = NoSnapshot
    BY <1>5, <1>6 DEF EnvInv, EnvHeld
  <2>2. Restored(m)' = [k \in Keys |-> IF taken[k] = NotTaken THEN env'[k] ELSE taken[k]]
    BY <1>2 DEF Restored
  <2>3. ASSUME NEW k \in Keys
        PROVE  (IF taken[k] = NotTaken THEN env'[k] ELSE taken[k]) = HostEnv[k]
    <3>1. HostEnv[k] # NotTaken
      BY VariablesAssumption
    <3>. QED
      BY <1>1, <2>1, <3>1 DEF NoSnapshot
  <2>4. Restored(m)' = [k \in Keys |-> HostEnv[k]]
    BY <2>2, <2>3
  <2>. QED
    BY <2>4, VariablesAssumption
<1>7. ASSUME ~overlaid', \A n \in Managers : snapshot'[n] = NoSnapshot
      PROVE  env' = HostEnv
  <2>1. env = HostEnv /\ snapshot[m] = NoSnapshot /\ taken = NoSnapshot
    BY <1>2, <1>5, <1>7 DEF EnvInv, EnvHeld
  <2>2. Restored(m)' = [k \in Keys |-> env'[k]]
    BY <1>2, <2>1 DEF Restored, NoSnapshot
  <2>3. env' = [k \in Keys |-> env'[k]]
    BY <1>4 DEF EnvTyped
  <2>. QED
    BY <1>6, <1>7, <2>2, <2>3
<1>8. ASSUME ~overlaid', NEW n \in Managers, injecting'[n] > 0 PROVE snapshot'[n] = NoSnapshot
  BY <1>1, <1>2, <1>5, <1>8 DEF EnvInv, EnvHeld, EnvTyped
<1>9. ASSUME ~overlaid', NEW n \in Managers, snapshot'[n] # NoSnapshot PROVE n = m
  BY <1>2, <1>5, <1>9
<1>10. ASSUME ~overlaid', NEW n \in Managers, snapshot'[n] # NoSnapshot
       PROVE  Restored(n)' = HostEnv
  BY <1>6, <1>9, <1>10
<1>11. ~overlaid' => /\ \A n, o \in Managers : snapshot'[n] # NoSnapshot /\ snapshot'[o] # NoSnapshot => n = o
                     /\ \A n \in Managers : snapshot'[n] # NoSnapshot => (Restored(n) = HostEnv)'
                     /\ (\A n \in Managers : snapshot'[n] = NoSnapshot) => env' = HostEnv
                     /\ \A n \in Managers : injecting'[n] > 0 => snapshot'[n] = NoSnapshot
  <2>. HIDE DEF taken
  <2>1. ASSUME ~overlaid', NEW n \in Managers, NEW o \in Managers,
               snapshot'[n] # NoSnapshot, snapshot'[o] # NoSnapshot
        PROVE  n = o
    BY <1>9, <2>1
  <2>2. ASSUME ~overlaid', NEW n \in Managers, snapshot'[n] # NoSnapshot
        PROVE  (Restored(n) = HostEnv)'
    BY <1>10, <2>2
  <2>. QED
    BY <1>7, <1>8, <2>1, <2>2
<1>12. EnvTyped' /\ EnvHeld'
  BY <1>4, <1>11, Zenon DEF EnvHeld
<1>. QED
  BY <1>12 DEF EnvInv

(* Every step keeps the environment restorable. *)
LEMMA EnvInvNext == EnvInv /\ [ServicesNext]_servicesVars => EnvInv'
<1>. SUFFICES ASSUME EnvInv, [ServicesNext]_servicesVars PROVE EnvInv'
  OBVIOUS
<1>1. ASSUME NEW m \in Managers, BeginInject(m) PROVE EnvInv'
  <2>1. /\ env' = Restored(m) /\ snapshot' = [snapshot EXCEPT ![m] = NoSnapshot]
        /\ overlaid' = overlaid /\ injecting' = [injecting EXCEPT ![m] = @ + 1]
    BY <1>1 DEF BeginInject, UndoPrevious
  <2>2. /\ injecting' \in [Managers -> Nat]
        /\ \A n \in Managers : n # m => injecting'[n] = injecting[n]
    BY <2>1 DEF EnvInv, EnvTyped
  <2>. QED
    BY <2>1, <2>2, RestoreKeeps
<1>2. ASSUME NEW m \in Managers, ResetVariables(m) PROVE EnvInv'
  <2>1. /\ env' = Restored(m) /\ snapshot' = [snapshot EXCEPT ![m] = NoSnapshot]
        /\ overlaid' = overlaid /\ injecting' = injecting
    BY <1>2 DEF ResetVariables
  <2>2. injecting \in [Managers -> Nat]
    BY DEF EnvInv, EnvTyped
  <2>. QED
    BY <2>1, <2>2, RestoreKeeps
<1>3. CASE EnvRests
  BY <1>3 DEF EnvRests, EnvInv, EnvHeld, EnvTyped, Restored
<1>. QED
  BY <1>1, <1>2, <1>3, EnvSteps, InjectKeeps DEF Injects

(* Variables: process.env is the host's again once nothing is injected, for any number of
   simulators, keys and injections, unless one injection was laid over another. *)
THEOREM EnvComesBack == ServicesSpec => []EnvIsRestored
<1>1. ServicesInit => EnvInv
  <2>. SUFFICES ASSUME ServicesInit PROVE EnvInv
    OBVIOUS
  <2>1. /\ env = HostEnv
        /\ snapshot = [m \in Managers |-> NoSnapshot]
        /\ injecting = [m \in Managers |-> 0]
    BY DEF ServicesInit, DeployInit, VariablesInit
  <2>2. \A m \in Managers : snapshot[m] = NoSnapshot /\ injecting[m] = 0
    BY <2>1
  <2>3. env = [k \in Keys |-> env[k]]
    BY <2>1, VariablesAssumption
  <2>4. EnvTyped
    BY <2>1, <2>2, <2>3 DEF EnvTyped, NoSnapshot
  <2>. QED
    BY <2>1, <2>2, <2>4 DEF EnvInv, EnvHeld
<1>2. EnvInv => EnvIsRestored
  BY DEF EnvInv, EnvHeld, EnvIsRestored
<1>. QED
  BY <1>1, <1>2, EnvInvNext, PTL DEF ServicesSpec

-----------------------------------------------------------------------------
(* Deploy: what runs after a deploy *)

Code == [FilesOfApp -> Nat]
DeployCall ==
  [at : {"new", "begun", "injecting", "bundling", "importing", "done"},
   todo : Seq(FilesOfApp), code : Code, fresh : BOOLEAN, muddled : BOOLEAN]

DeployTyped ==
  /\ appSource \in [FilesOfApp -> [version : Nat, ok : BOOLEAN]]
  /\ definitions \in [Kinds -> Nat]
  /\ registry \in [Kinds -> Nat]
  /\ queueRuns \in [Kinds -> Nat]
  /\ deployed \in [Deploys -> DeployCall]

(* The module of the kind has been read and is about to be evaluated. *)
Importing(c, k) == deployed[c].at = "importing" /\ Head(deployed[c].todo) = SourceOf[k]

(* What a deploy that is alone finds when it registers: of the resolver's keys only its
   own, and after a reset nothing else. *)
Tidy(c) ==
  /\ \A k \in LoadedKinds(c) \cap DefinedOnImport :
       Importing(c, k) \/ definitions[k] \in {CodeOf(c, k), NoCode}
  /\ deployed[c].fresh =>
       registry = NoTable /\ \A k \in Kinds \ DefinedOnImport : definitions[k] = NoCode

DeployHeld ==
  /\ \A c, d \in InProgress : c # d => deployed[c].muddled
  /\ \A c \in Deploys : deployed[c].at = "new" => \A f \in FilesOfApp : deployed[c].code[f] = NotLoaded
  /\ \A c \in Deploys : deployed[c].at = "importing" => deployed[c].todo # <<>>
  /\ \A c \in InProgress : ~deployed[c].muddled => Tidy(c)

DeployInv == DeployTyped /\ DeployHeld /\ CleanDeployRuns

(* What a step of a deploy in progress makes of its record. *)
Moves(c, r) ==
  /\ r \in DeployCall
  /\ deployed' = [deployed EXCEPT ![c] = r]
  /\ r.fresh = deployed[c].fresh /\ r.muddled = deployed[c].muddled

(* A deploy in progress moves and stays in progress: it has to stay tidy. *)
LEMMA MoveKeeps ==
  ASSUME DeployInv, DeployTyped', NEW c \in InProgress, NEW r, Moves(c, r),
         r.at # "new", r.at = "importing" => r.todo # <<>>,
         r.at # "done" /\ ~r.muddled => Tidy(c)',
         r.at = "done" => CleanDeployRuns'
  PROVE  DeployInv'
<1>1. c \in Deploys /\ deployed'[c] = r /\ \A d \in Deploys : d # c => deployed'[d] = deployed[d]
  BY DEF Moves, DeployInv, DeployTyped, InProgress
<1>2. \A d \in Deploys : d \in InProgress' => d \in InProgress
  BY <1>1 DEF InProgress
<1>3. \A d \in Deploys : deployed'[d].muddled = deployed[d].muddled
  BY <1>1 DEF Moves
<1>4. \A d, e \in InProgress' : d # e => deployed'[d].muddled
  BY <1>2, <1>3 DEF DeployInv, DeployHeld, InProgress
<1>5. \A d \in InProgress' : ~deployed'[d].muddled => Tidy(d)'
  <2>. SUFFICES ASSUME NEW d \in InProgress', ~deployed'[d].muddled PROVE Tidy(d)'
    OBVIOUS
  <2>1. d \in Deploys /\ d \in InProgress /\ ~deployed[d].muddled
    BY <1>2, <1>3 DEF InProgress
  <2>2. d = c
    BY <2>1 DEF DeployInv, DeployHeld
  <2>3. r.at # "done" /\ ~r.muddled
    BY <1>1, <2>2 DEF InProgress
  <2>. QED
    BY <2>2, <2>3
<1>6. \A d \in Deploys : deployed'[d].at = "new" =>
                           \A f \in FilesOfApp : deployed'[d].code[f] = NotLoaded
  BY <1>1 DEF DeployInv, DeployHeld
<1>7. \A d \in Deploys : deployed'[d].at = "importing" => deployed'[d].todo # <<>>
  BY <1>1 DEF DeployInv, DeployHeld
<1>8. DeployHeld'
  BY <1>4, <1>5, <1>6, <1>7 DEF DeployHeld
<1>9. CASE r.at = "done"
  BY <1>8, <1>9 DEF DeployInv
<1>10. CASE r.at # "done"
  <2>1. c \in InProgress'
    BY <1>1, <1>10 DEF InProgress
  <2>2. CleanDeployRuns'
    BY <2>1 DEF CleanDeployRuns, Clean
  <2>. QED
    BY <1>8, <2>2 DEF DeployInv
<1>. QED
  BY <1>9, <1>10

(* The record of the deploy, and what it has loaded, where only its stage changes. *)
LEMMA StageMoves ==
  ASSUME DeployTyped, NEW c \in Deploys, NEW stage \in {"injecting", "bundling", "done"},
         deployed' = [deployed EXCEPT ![c].at = stage]
  PROVE  \E r \in DeployCall : /\ Moves(c, r) /\ r.at = stage
                               /\ r.todo = deployed[c].todo /\ r.code = deployed[c].code
<1>. DEFINE r == [deployed[c] EXCEPT !.at = stage]
<1>1. deployed[c] \in DeployCall
  BY DEF DeployTyped
<1>2. r \in DeployCall /\ r.at = stage /\ r.todo = deployed[c].todo /\ r.code = deployed[c].code
  BY <1>1 DEF DeployCall
<1>3. r.fresh = deployed[c].fresh /\ r.muddled = deployed[c].muddled
  BY <1>1, Zenon DEF DeployCall
<1>4. deployed' = [deployed EXCEPT ![c] = r]
  OBVIOUS
<1>. QED
  BY <1>2, <1>3, <1>4 DEF Moves

(* A move leaves the tables and has loaded what it had: it is as tidy as before. *)
LEMMA StaysTidy ==
  ASSUME DeployInv, NEW c \in InProgress, NEW r \in DeployCall, Moves(c, r),
         r.code = deployed[c].code, deployed[c].at # "importing",
         UNCHANGED <<definitions, registry>>
  PROVE  ~r.muddled => Tidy(c)'
<1>. SUFFICES ASSUME ~r.muddled PROVE Tidy(c)'
  OBVIOUS
<1>1. c \in Deploys /\ deployed'[c] = r /\ ~deployed[c].muddled
  BY DEF Moves, DeployInv, DeployTyped, InProgress
<1>2. Tidy(c) /\ deployed'[c].fresh = deployed[c].fresh /\ deployed'[c].code = deployed[c].code
  BY <1>1 DEF DeployInv, DeployHeld, Moves
<1>3. \A k \in Kinds : CodeOf(c, k)' = CodeOf(c, k)
  BY <1>2 DEF CodeOf
<1>4. \A k \in LoadedKinds(c)' \cap DefinedOnImport :
        definitions'[k] \in {CodeOf(c, k)', NoCode}
  BY <1>2, <1>3 DEF Tidy, LoadedKinds, Importing
<1>. QED
  BY <1>2, <1>4 DEF Tidy, NoTable

LEMMA StagesKeep ==
  ASSUME DeployInv, NEW c \in Deploys, BeginDeployInject(c) \/ DeployInject(c)
  PROVE  DeployInv'
<1>1. PICK stage \in {"injecting", "bundling"} : deployed' = [deployed EXCEPT ![c].at = stage]
  BY DEF BeginDeployInject, DeployInject
<1>2. /\ c \in InProgress /\ deployed[c].at # "importing"
      /\ UNCHANGED <<appSource, definitions, registry, queueRuns>>
  BY DEF BeginDeployInject, DeployInject, InProgress
<1>3. PICK r \in DeployCall : Moves(c, r) /\ r.at = stage /\ r.code = deployed[c].code
  BY <1>1, StageMoves DEF DeployInv
<1>4. ~r.muddled => Tidy(c)'
  BY <1>2, <1>3, StaysTidy
<1>5. DeployTyped'
  BY <1>2, <1>3 DEF DeployInv, DeployTyped, Moves
<1>. QED
  BY <1>2, <1>3, <1>4, <1>5, MoveKeeps

(* The next file is read: its resolver keys are the ones about to be evaluated. *)
LEMMA BundleKeeps ==
  ASSUME DeployInv, NEW c \in Deploys, BundleSource(c)
  PROVE  DeployInv'
<1>. DEFINE old == deployed[c]
            file == Head(old.todo)
            read == [old EXCEPT !.at = "importing", !.code = [@ EXCEPT ![file] = appSource[file].version]]
            passed == [old EXCEPT !.todo = Tail(@)]
<1>1. /\ old \in DeployCall /\ old.at = "bundling" /\ old.todo # <<>> /\ c \in InProgress
      /\ UNCHANGED <<appSource, definitions, registry, queueRuns>>
  BY DEF BundleSource, DeployInv, DeployTyped, InProgress
<1>2. old.todo \in Seq(FilesOfApp) /\ file \in FilesOfApp /\ Tail(old.todo) \in Seq(FilesOfApp)
  BY <1>1, HeadTailProperties DEF DeployCall
<1>3. CASE appSource[file].ok
  <2>1. deployed' = [deployed EXCEPT ![c] = read]
    BY <1>3 DEF BundleSource
  <2>2. appSource[file].version \in Nat /\ old.code \in [FilesOfApp -> Nat]
    BY <1>1, <1>2 DEF DeployInv, DeployTyped, DeployCall, Code
  <2>3. [old.code EXCEPT ![file] = appSource[file].version] \in Code
    BY <1>2, <2>2 DEF Code
  <2>4. read \in DeployCall
    BY <1>1, <2>3, Zenon DEF DeployCall
  <2>5. read.at = "importing" /\ read.todo = old.todo
        /\ read.code = [old.code EXCEPT ![file] = appSource[file].version]
    BY <1>1 DEF DeployCall
  <2>6. read.fresh = old.fresh /\ read.muddled = old.muddled
    BY <1>1, Zenon DEF DeployCall
  <2>7. PICK r \in DeployCall :
          /\ Moves(c, r) /\ r.at = "importing" /\ r.todo = old.todo
          /\ r.code = [old.code EXCEPT ![file] = appSource[file].version]
    BY <2>1, <2>4, <2>5, <2>6 DEF Moves
  <2>8. deployed'[c] = r
    BY <2>7 DEF Moves, DeployInv, DeployTyped
  <2>9. ASSUME ~r.muddled PROVE Tidy(c)'
    <3>1. Tidy(c) /\ r.fresh = old.fresh
      BY <1>1, <2>7, <2>9 DEF DeployInv, DeployHeld, Moves
    <3>2. ASSUME NEW k \in Kinds, SourceOf[k] # file PROVE CodeOf(c, k)' = CodeOf(c, k)
      BY <2>2, <2>7, <2>8, <3>2, DeployAssumption DEF CodeOf
    <3>3. ASSUME NEW k \in Kinds, SourceOf[k] = file PROVE Importing(c, k)'
      BY <2>7, <2>8, <3>3 DEF Importing
    <3>4. \A k \in LoadedKinds(c)' \cap DefinedOnImport :
            Importing(c, k)' \/ definitions'[k] \in {CodeOf(c, k)', NoCode}
      BY <1>1, <3>1, <3>2, <3>3 DEF Tidy, LoadedKinds, Importing
    <3>. QED
      BY <1>1, <2>8, <3>1, <3>4 DEF Tidy, NoTable
  <2>10. DeployTyped'
    BY <1>1, <2>7 DEF DeployInv, DeployTyped, Moves
  <2>. HIDE DEF read
  <2>. QED
    BY <1>1, <2>7, <2>9, <2>10, MoveKeeps
<1>4. CASE ~appSource[file].ok
  <2>1. deployed' = [deployed EXCEPT ![c] = passed]
    BY <1>4 DEF BundleSource
  <2>2. passed \in DeployCall
    BY <1>1, <1>2, Zenon DEF DeployCall
  <2>3. passed.at = "bundling" /\ passed.code = old.code
    BY <1>1 DEF DeployCall
  <2>4. passed.fresh = old.fresh /\ passed.muddled = old.muddled
    BY <1>1, Zenon DEF DeployCall
  <2>5. PICK r \in DeployCall : Moves(c, r) /\ r.at = "bundling" /\ r.code = old.code
    BY <2>1, <2>2, <2>3, <2>4 DEF Moves
  <2>6. ~r.muddled => Tidy(c)'
    BY <1>1, <2>5, StaysTidy
  <2>7. DeployTyped'
    BY <1>1, <2>5 DEF DeployInv, DeployTyped, Moves
  <2>. QED
    BY <1>1, <2>5, <2>6, <2>7, MoveKeeps
<1>. QED
  BY <1>3, <1>4

(* The module is evaluated: the keys it defines are this deploy's. *)
LEMMA ImportKeeps ==
  ASSUME DeployInv, NEW c \in Deploys, ImportSource(c)
  PROVE  DeployInv'
<1>. DEFINE old == deployed[c]
            file == Head(old.todo)
            next == [old EXCEPT !.at = "bundling", !.todo = Tail(@)]
<1>1. /\ old \in DeployCall /\ old.at = "importing" /\ old.todo # <<>> /\ c \in InProgress
      /\ UNCHANGED <<appSource, registry, queueRuns>>
      /\ deployed' = [deployed EXCEPT ![c] = next]
      /\ definitions' = [k \in Kinds |-> IF k \in DefinedOnImport /\ SourceOf[k] = file
                                         THEN old.code[file] ELSE definitions[k]]
  BY DEF ImportSource, DeployInv, DeployTyped, DeployHeld, InProgress
<1>2. /\ old.todo \in Seq(FilesOfApp) /\ file \in FilesOfApp
      /\ Tail(old.todo) \in Seq(FilesOfApp) /\ old.code[file] \in Nat
  BY <1>1, HeadTailProperties DEF DeployCall, Code
<1>3. next \in DeployCall
  BY <1>1, <1>2, Zenon DEF DeployCall
<1>4. next.at = "bundling" /\ next.code = old.code
  BY <1>1 DEF DeployCall
<1>5. next.fresh = old.fresh /\ next.muddled = old.muddled
  BY <1>1, Zenon DEF DeployCall
<1>6. PICK r \in DeployCall : Moves(c, r) /\ r.at = "bundling" /\ r.code = old.code
  BY <1>1, <1>3, <1>4, <1>5 DEF Moves
<1>7. deployed'[c] = r
  BY <1>6 DEF Moves, DeployInv, DeployTyped
<1>8. DeployTyped'
  BY <1>1, <1>2, <1>6 DEF DeployInv, DeployTyped, Moves
<1>9. ASSUME ~r.muddled PROVE Tidy(c)'
  <2>1. Tidy(c) /\ r.fresh = old.fresh
    BY <1>1, <1>6, <1>9 DEF DeployInv, DeployHeld, Moves
  <2>2. \A k \in Kinds : CodeOf(c, k)' = CodeOf(c, k)
    BY <1>6, <1>7 DEF CodeOf
  <2>3. ASSUME NEW k \in LoadedKinds(c)' \cap DefinedOnImport
        PROVE  definitions'[k] \in {CodeOf(c, k)', NoCode}
    <3>1. k \in Kinds /\ k \in LoadedKinds(c) \cap DefinedOnImport
      BY <2>2, <2>3 DEF LoadedKinds
    <3>2. CASE SourceOf[k] = file
      BY <1>1, <2>2, <3>1, <3>2 DEF CodeOf
    <3>3. CASE SourceOf[k] # file
      BY <1>1, <2>1, <2>2, <3>1, <3>3 DEF Tidy, Importing
    <3>. QED
      BY <3>2, <3>3
  <2>4. r.fresh => registry' = NoTable /\ \A k \in Kinds \ DefinedOnImport : definitions'[k] = NoCode
    BY <1>1, <2>1 DEF Tidy
  <2>. QED
    BY <1>7, <2>3, <2>4 DEF Tidy, NoTable
<1>. HIDE DEF next
<1>. QED
  BY <1>1, <1>6, <1>8, <1>9, MoveKeeps

(* The registrations: a deploy that was alone puts its own code wherever it is missing. *)
LEMMA RegisterKeeps ==
  ASSUME DeployInv, NEW c \in Deploys, Register(c)
  PROVE  DeployInv'
<1>1. /\ c \in InProgress /\ deployed[c].at = "bundling"
      /\ deployed' = [deployed EXCEPT ![c].at = "done"] /\ latest' = c
      /\ definitions' = DefineMissing(c) /\ registry' = Registered(c)
      /\ queueRuns' = Subscribed(c) /\ UNCHANGED appSource
  BY DEF Register, InProgress
<1>2. PICK r \in DeployCall : Moves(c, r) /\ r.at = "done" /\ r.code = deployed[c].code
  BY <1>1, StageMoves DEF DeployInv
<1>3. deployed'[c] = r
  BY <1>2 DEF Moves, DeployInv, DeployTyped
<1>4. \A k \in Kinds : CodeOf(c, k) \in Nat /\ CodeOf(c, k)' = CodeOf(c, k)
  <2>1. deployed[c].code \in [FilesOfApp -> Nat]
    BY DEF DeployInv, DeployTyped, DeployCall, Code
  <2>. QED
    BY <1>2, <1>3, <2>1, DeployAssumption DEF CodeOf
<1>5. DeployTyped'
  <2>1. definitions' \in [Kinds -> Nat] /\ registry' \in [Kinds -> Nat] /\ queueRuns' \in [Kinds -> Nat]
    BY <1>1, <1>4 DEF DeployInv, DeployTyped, DefineMissing, Registered, Subscribed
  <2>. QED
    BY <1>1, <1>2, <2>1 DEF DeployInv, DeployTyped, Moves
<1>6. CleanDeployRuns'
  <2>. SUFFICES ASSUME NEW d \in Deploys, Clean(d)', NEW k \in Kinds,
                       deployed'[d].fresh \/ k \in Bound \cup DefinedOnImport
                PROVE  Runs(k)' = CodeOf(d, k)'
    BY DEF CleanDeployRuns
  <2>1. d = c
    BY <1>1 DEF Clean
  <2>2. ~deployed[c].muddled /\ Tidy(c) /\ r.fresh = deployed[c].fresh
    BY <1>1, <1>2, <1>3, <2>1 DEF Clean, Moves, DeployInv, DeployHeld
  <2>3. k \in LoadedKinds(c)
    BY <1>4, <2>1 DEF Clean, LoadedKinds
  <2>4. CASE k \in InvokedByKey
    <3>1. definitions[k] \in {CodeOf(c, k), NoCode}
      BY <1>1, <1>3, <2>1, <2>2, <2>3, <2>4 DEF Tidy, Importing, Bound, DefinedOnImport, InvokedByKey
    <3>2. definitions'[k] = CodeOf(c, k)
      BY <1>1, <2>3, <2>4, <3>1 DEF DefineMissing
    <3>. QED
      BY <1>4, <2>1, <2>4, <3>2 DEF Runs, InvokedByKey
  <2>5. CASE k = "consumer"
    <3>1. queueRuns'[k] = CodeOf(c, k)
      BY <1>1, <2>3, <2>5 DEF Subscribed
    <3>. QED
      BY <1>4, <2>1, <2>5, <3>1 DEF Runs, InvokedByKey
  <2>6. CASE k \notin InvokedByKey /\ k # "consumer"
    <3>1. k \in Bound \/ registry[k] = NoCode
      BY <1>3, <2>1, <2>2, <2>6 DEF Tidy, NoTable, InvokedByKey, DefinedOnImport
    <3>2. registry'[k] = CodeOf(c, k)
      BY <1>1, <2>3, <2>6, <3>1 DEF Registered, InvokedByKey
    <3>. QED
      BY <1>4, <2>1, <2>6, <3>2 DEF Runs
  <2>. QED
    BY <2>4, <2>5, <2>6
<1>. QED
  BY <1>1, <1>2, <1>5, <1>6, MoveKeeps

(* A deploy begins: alone and tidy, or muddled, with whoever is in progress. *)
LEMMA BeginKeeps ==
  ASSUME DeployInv, NEW c \in Deploys, NEW reset \in BOOLEAN, BeginDeploy(c, reset)
  PROVE  DeployInv'
<1>. DEFINE fresh == reset \/ (registry = NoTable /\ definitions = NoTable)
            begun == [deployed[c] EXCEPT !.at = "begun", !.muddled = InProgress # {}, !.fresh = fresh]
            met(d) == [deployed[d] EXCEPT !.muddled = @ \/ d \in InProgress]
<1>1. /\ deployed[c].at = "new" /\ UNCHANGED appSource
      /\ deployed' = [d \in Deploys |-> IF d = c THEN begun ELSE met(d)]
      /\ IF reset THEN definitions' = NoTable /\ registry' = NoTable /\ queueRuns' = NoTable
         ELSE UNCHANGED <<latest, definitions, registry, queueRuns>>
  BY DEF BeginDeploy, ClearTables
<1>2. \A d \in Deploys : deployed[d] \in DeployCall
  BY DEF DeployInv, DeployTyped
<1>3. begun \in DeployCall /\ begun.at = "begun" /\ begun.code = deployed[c].code
  BY <1>2, Zenon DEF DeployCall
<1>4. begun.muddled = (InProgress # {}) /\ begun.fresh = fresh
  BY <1>2, Zenon DEF DeployCall
<1>5. \A d \in Deploys : /\ met(d) \in DeployCall /\ met(d).at = deployed[d].at
                         /\ met(d).todo = deployed[d].todo /\ met(d).code = deployed[d].code
  BY <1>2, Zenon DEF DeployCall
<1>6. \A d \in Deploys : met(d).muddled = (deployed[d].muddled \/ d \in InProgress)
  BY <1>2, Zenon DEF DeployCall
<1>7. deployed'[c] = begun /\ \A d \in Deploys : d # c => deployed'[d] = met(d)
  BY <1>1
<1>. HIDE DEF begun, met
<1>8. DeployTyped'
  <2>1. deployed' \in [Deploys -> DeployCall]
    BY <1>1, <1>3, <1>5
  <2>2. definitions' \in [Kinds -> Nat] /\ registry' \in [Kinds -> Nat] /\ queueRuns' \in [Kinds -> Nat]
    BY <1>1 DEF DeployInv, DeployTyped, NoTable, NoCode
  <2>. QED
    BY <1>1, <2>1, <2>2 DEF DeployInv, DeployTyped
<1>9. \A d \in Deploys : d \in InProgress' <=> d = c \/ d \in InProgress
  BY <1>1, <1>3, <1>5, <1>7 DEF InProgress
<1>10. c \notin InProgress
  BY <1>1 DEF InProgress
<1>11. \A d, e \in InProgress' : d # e => deployed'[d].muddled
  <2>. SUFFICES ASSUME NEW d \in InProgress', NEW e \in InProgress', d # e PROVE deployed'[d].muddled
    OBVIOUS
  <2>1. d \in Deploys /\ e \in Deploys /\ (d = c \/ d \in InProgress) /\ (e = c \/ e \in InProgress)
    BY <1>9 DEF InProgress
  <2>2. CASE d = c
    BY <1>4, <1>7, <2>1, <2>2
  <2>3. CASE d # c
    BY <1>6, <1>7, <2>1, <2>3
  <2>. QED
    BY <2>2, <2>3
<1>12. \A d \in InProgress' : ~deployed'[d].muddled => Tidy(d)'
  <2>. SUFFICES ASSUME NEW d \in InProgress', ~deployed'[d].muddled PROVE Tidy(d)'
    OBVIOUS
  <2>1. d = c
    BY <1>6, <1>7, <1>9 DEF InProgress
  <2>2. \A k \in Kinds : CodeOf(c, k)' = NotLoaded
    BY <1>1, <1>3, <1>7, DeployAssumption DEF CodeOf, DeployInv, DeployHeld
  <2>3. begun.fresh => registry' = NoTable /\ definitions' = NoTable
    BY <1>1, <1>4
  <2>. QED
    BY <1>7, <2>1, <2>2, <2>3 DEF Tidy, LoadedKinds, NoTable
<1>13. \A d \in Deploys : deployed'[d].at = "new" =>
                            \A f \in FilesOfApp : deployed'[d].code[f] = NotLoaded
  BY <1>3, <1>5, <1>7 DEF DeployInv, DeployHeld
<1>14. \A d \in Deploys : deployed'[d].at = "importing" => deployed'[d].todo # <<>>
  BY <1>3, <1>5, <1>7 DEF DeployInv, DeployHeld
<1>15. DeployHeld'
  BY <1>11, <1>12, <1>13, <1>14 DEF DeployHeld
<1>16. CleanDeployRuns'
  <2>1. c \in InProgress'
    BY <1>9
  <2>. QED
    BY <2>1 DEF CleanDeployRuns, Clean
<1>. QED
  BY <1>8, <1>15, <1>16 DEF DeployInv

(* reset(): the tables are empty, and a deploy in progress stays as tidy as it was. *)
LEMMA ClearKeeps ==
  ASSUME DeployInv, ClearTables, UNCHANGED <<appSource, deployed>>
  PROVE  DeployInv'
<1>1. /\ definitions' = NoTable /\ registry' = NoTable /\ queueRuns' = NoTable
      /\ latest' = NoDeploy /\ deployed' = deployed /\ appSource' = appSource
  BY DEF ClearTables
<1>2. DeployTyped'
  BY <1>1 DEF DeployInv, DeployTyped, NoTable, NoCode
<1>3. CleanDeployRuns'
  BY <1>1, DeployAssumption DEF CleanDeployRuns, Clean
<1>4. InProgress' = InProgress
  BY <1>1 DEF InProgress
<1>5. ASSUME NEW c \in InProgress PROVE Tidy(c)'
  <2>1. \A k \in Kinds : definitions'[k] = NoCode
    BY <1>1 DEF NoTable
  <2>2. registry' = NoTable'
    BY <1>1 DEF NoTable
  <2>3. \A k \in LoadedKinds(c)' \cap DefinedOnImport : definitions'[k] \in {CodeOf(c, k)', NoCode}
    BY <2>1 DEF LoadedKinds
  <2>. QED
    BY <2>1, <2>2, <2>3 DEF Tidy
<1>6. DeployHeld'
  BY <1>1, <1>4, <1>5 DEF DeployInv, DeployHeld
<1>. QED
  BY <1>2, <1>3, <1>6 DEF DeployInv

(* A save of a file, or a step that is not the deployer's. *)
LEMMA OthersKeepDeploys ==
  ASSUME DeployInv, appSource' \in [FilesOfApp -> [version : Nat, ok : BOOLEAN]],
         UNCHANGED <<deployed, latest, definitions, registry, queueRuns>>
  PROVE  DeployInv'
<1>1. DeployTyped'
  BY DEF DeployInv, DeployTyped
<1>2. InProgress' = InProgress /\ \A c \in Deploys, k \in Kinds : CodeOf(c, k)' = CodeOf(c, k)
  BY DEF InProgress, CodeOf
<1>3. \A c \in Deploys : Tidy(c) => Tidy(c)'
  BY <1>2 DEF Tidy, LoadedKinds, Importing, NoTable, CodeOf
<1>4. DeployHeld'
  BY <1>2, <1>3 DEF DeployInv, DeployHeld, InProgress
<1>5. CleanDeployRuns'
  BY DEF DeployInv, CleanDeployRuns, Clean, InProgress, LoadedKinds, CodeOf, Runs
<1>. QED
  BY <1>1, <1>4, <1>5 DEF DeployInv

(* Every step keeps the deploys tidy. *)
LEMMA DeployInvNext == DeployInv /\ [ServicesNext]_servicesVars => DeployInv'
<1>. SUFFICES ASSUME DeployInv, [ServicesNext]_servicesVars PROVE DeployInv'
  OBVIOUS
<1>1. appSource \in [FilesOfApp -> [version : Nat, ok : BOOLEAN]]
  BY DEF DeployInv, DeployTyped
<1>2. CASE UseDeploy
  <2>1. ASSUME NEW file \in FilesOfApp, NEW ok \in BOOLEAN, EditApp(file, ok) PROVE DeployInv'
    <3>1. /\ appSource' \in [FilesOfApp -> [version : Nat, ok : BOOLEAN]]
          /\ UNCHANGED <<deployed, latest, definitions, registry, queueRuns>>
      BY <1>1, <2>1 DEF EditApp
    <3>. QED
      BY <3>1, OthersKeepDeploys
  <2>2. ASSUME VariablesChange \/ OtherSimulator PROVE UNCHANGED dpVars
    BY <2>2 DEF VariablesChange, OtherSimulator
  <2>3. ASSUME UNCHANGED dpVars PROVE DeployInv'
    BY <1>1, <2>3, OthersKeepDeploys DEF dpVars
  <2>. QED
    BY <1>2, <2>1, <2>2, <2>3, BeginKeeps, StagesKeep, BundleKeeps, ImportKeeps, RegisterKeeps
    DEF UseDeploy, DeployNext
<1>3. CASE SimulatorReset
  BY <1>3, ClearKeeps DEF SimulatorReset
<1>4. CASE UseRealtime \/ UseObjectStore \/ UseUI \/ SimulatorStop \/ UNCHANGED servicesVars
  BY <1>1, <1>4, OthersKeepDeploys
  DEF UseRealtime, UseObjectStore, UseUI, SimulatorStop, servicesVars, dpVars
<1>. QED
  BY <1>2, <1>3, <1>4 DEF ServicesNext

(* Deployer: a deploy that was alone leaves no function running code it did not load, for
   any files, kinds of functions and deploys: after a reset() none at all, otherwise none
   of those whose registration replaces the one before. *)
THEOREM CleanDeploysRun == ServicesSpec => []CleanDeployRuns
<1>1. ServicesInit => DeployInv
  <2>. SUFFICES ASSUME ServicesInit PROVE DeployInv
    OBVIOUS
  <2>1. /\ appSource = [file \in FilesOfApp |-> [version |-> 1, ok |-> TRUE]]
        /\ deployed = [c \in Deploys |->
             [at |-> "new", todo |-> SourceFiles, code |-> [file \in FilesOfApp |-> NotLoaded],
              fresh |-> FALSE, muddled |-> FALSE]]
        /\ latest = NoDeploy
        /\ definitions = NoTable /\ registry = NoTable /\ queueRuns = NoTable
    BY DEF ServicesInit, DeployInit
  <2>2. deployed \in [Deploys -> DeployCall]
    BY <2>1, DeployAssumption DEF DeployCall, Code, NotLoaded
  <2>3. DeployTyped
    BY <2>1, <2>2 DEF DeployTyped, NoTable, NoCode
  <2>4. \A c \in Deploys : /\ deployed[c].at = "new"
                           /\ \A f \in FilesOfApp : deployed[c].code[f] = NotLoaded
    BY <2>1
  <2>5. DeployHeld
    BY <2>4 DEF DeployHeld, InProgress
  <2>6. CleanDeployRuns
    BY <2>1, DeployAssumption DEF CleanDeployRuns, Clean
  <2>. QED
    BY <2>3, <2>5, <2>6 DEF DeployInv
<1>2. DeployInv => CleanDeployRuns
  BY DEF DeployInv
<1>. QED
  BY <1>1, <1>2, DeployInvNext, PTL DEF ServicesSpec

-----------------------------------------------------------------------------
(* Rendering: what a render or a wait answers with *)

Doc == [of : Modules \cup {None}, by : Renders \cup {0}, text : BOOLEAN]
RenderCall ==
  [module : Modules \cup {None}, at : {"free", "context", "import", "pulse", "mount", "done"},
   waiter : {None, "waiting", "resolved", "rejected", "forgotten"},
   landed : BOOLEAN, excused : BOOLEAN, threw : BOOLEAN, doc : Doc]
WaitCall ==
  [module : Modules \cup {None}, at : {"free", "rendering", "watching", "settling", "done"},
   render : Renders \cup {0}, candidate : Doc, got : Doc, bare : BOOLEAN]
Mount == [by : Renders, of : Modules \cup {None}, scope : Modules, how : {"import", "replay"}]

RenderingTyped ==
  /\ docs \in [Modules -> Doc]
  /\ captured \in [Modules -> Modules \cup {None}]
  /\ renderError \in BOOLEAN /\ overlapped \in BOOLEAN
  /\ mounts \subseteq Mount
  /\ renders \in [Renders -> RenderCall]
  /\ \A r \in Renders : renders[r].at # "free" => renders[r].module \in Modules
  /\ waits \in [Waits -> WaitCall]
  /\ \A w \in Waits : waits[w].at # "free" => waits[w].module \in Modules

Landed(r) == renders[r].landed
Excused(r) == renders[r].excused
Threw(r) == renders[r].threw
Showing(r) == LET d == docs[renders[r].module] IN d.by = r /\ d.of = renders[r].module

(* A render that is under way captures under its own name, and then has its element. *)
Placed(r) ==
  UnderWay(r) =>
    /\ renders[r].at \in {"context", "import"} => capturing = renders[r].module
    /\ renders[r].at = "context" => renders[r].waiter = None
    /\ renders[r].at \in {"pulse", "mount"} => captured[renders[r].module] # None

(* Unless it was disturbed, a commit that settled its waiter was its own, one that is to
   come is of its own mount, and one that came is what its module shows, or was refused. *)
Undisturbed(r) ==
  UnderWay(r) /\ ~Excused(r) =>
    /\ Settled(r) => Landed(r)
    /\ renders[r].at = "mount" /\ ~Landed(r) => \E x \in mounts : x.by = r
    /\ Landed(r) => renderError \/ renders[r].waiter = "rejected" \/ Showing(r)

Fresh(r) == renders[r].at = "free" => renders[r].waiter = None /\ ~Landed(r)

(* What is captured, mounted and shown under a module is the module's own. *)
ModulesOwn ==
  /\ \A c \in Modules : captured[c] \in {None, c} /\ (c \in evaluated => captured[c] = c)
  /\ \A x \in mounts : /\ x.of = x.scope /\ x.scope = renders[x.by].module
                       /\ renders[x.by].at \in {"pulse", "mount", "done"}
  /\ \A m \in Modules : docs[m] # NoDoc => docs[m].of = m

OneAtATime == \A q, r \in Renders : UnderWay(q) /\ UnderWay(r) => q = r

ItsOwn(r) ==
  renders[r].at = "done" /\ ~Excused(r) =>
    Landed(r) /\ (~Threw(r) => renders[r].doc.by = r /\ renders[r].doc.of = renders[r].module)

RendersHeld ==
  /\ OneAtATime /\ ModulesOwn
  /\ \A r \in Renders : Fresh(r) /\ Placed(r) /\ Undisturbed(r) /\ ItsOwn(r)

Bare(w) == waits[w].bare

WaitsHeld ==
  \A w \in Waits : waits[w].got # NoDoc =>
    /\ waits[w].at = "done"
    /\ ~Bare(w) => waits[w].got.text /\ waits[w].got.of = waits[w].module

RenderingInv == RenderingTyped /\ (~overlapped => RendersHeld /\ WaitsHeld)

(* A call makes a step: the others stay as they are. *)
LEMMA RenderMoves ==
  ASSUME RenderingTyped, NEW r \in Renders, NEW n \in RenderCall,
         renders' = [renders EXCEPT ![r] = n]
  PROVE  /\ renders' \in [Renders -> RenderCall] /\ renders'[r] = n
         /\ \A q \in Renders : q # r => renders'[q] = renders[q]
BY DEF RenderingTyped

(* What is kept when one call moves, nobody else is under way, and the call has still, or
   again, what the invariant says of it. *)
LEMMA MoveHolds ==
  ASSUME RenderingTyped, RendersHeld, NEW r \in Renders, NEW n \in RenderCall,
         renders' = [renders EXCEPT ![r] = n], n.at # "free",
         \A q \in Renders : q # r => ~UnderWay(q),
         ModulesOwn', Placed(r)', Undisturbed(r)', ItsOwn(r)'
  PROVE  RendersHeld'
<1>1. renders'[r] = n /\ \A q \in Renders : q # r => renders'[q] = renders[q]
  BY RenderMoves
<1>2. \A q \in Renders : q # r => ~UnderWay(q)'
  BY <1>1 DEF UnderWay
<1>3. OneAtATime'
  BY <1>2 DEF OneAtATime
<1>4. ASSUME NEW q \in Renders, q # r PROVE (Fresh(q) /\ Placed(q) /\ Undisturbed(q) /\ ItsOwn(q))'
  <2>1. Undisturbed(q)' /\ Placed(q)'
    BY <1>2, <1>4 DEF Undisturbed, Placed
  <2>2. renders'[q] = renders[q] /\ Fresh(q) /\ ItsOwn(q)
    BY <1>1, <1>4 DEF RendersHeld
  <2>3. Fresh(q)' /\ ItsOwn(q)'
    BY <2>2 DEF Fresh, ItsOwn, Landed, Excused, Threw
  <2>. QED
    BY <2>1, <2>3
<1>5. Fresh(r)'
  BY <1>1 DEF Fresh
<1>. QED
  BY <1>3, <1>4, <1>5 DEF RendersHeld

(* What a call makes of its own record, flag by flag. *)
SameFlags(n, r) == n.landed = renders[r].landed /\ n.excused = renders[r].excused

LEMMA BeginsHolds ==
  ASSUME RenderingTyped, NEW r \in Renders, NEW m \in Modules, NEW fresh \in BOOLEAN,
         Begins(r, m, fresh), UNCHANGED <<captured, evaluated, renderError, mounts>>
  PROVE  /\ renders' \in [Renders -> RenderCall] /\ docs' \in [Modules -> Doc]
         /\ \A q \in Renders : renders'[q].at # "free" => renders'[q].module \in Modules
         /\ overlapped' \in BOOLEAN /\ (overlapped => overlapped')
         /\ ~overlapped' /\ RendersHeld => RendersHeld'
<1>. DEFINE begun == [renders[r] EXCEPT !.at = "context", !.module = m]
<1>1. /\ renders[r] \in RenderCall /\ renders[r].at = "free" /\ capturing' = m
      /\ docs' = (IF fresh THEN [docs EXCEPT ![m] = NoDoc] ELSE docs)
      /\ renders' = [renders EXCEPT ![r].at = "context", ![r].module = m]
      /\ overlapped' = (overlapped \/ \E q \in Renders : UnderWay(q))
  BY DEF Begins, RenderingTyped
<1>2. begun \in RenderCall /\ begun.at = "context" /\ begun.module = m
      /\ begun.waiter = renders[r].waiter
  BY <1>1, Zenon DEF RenderCall
<1>3. SameFlags(begun, r)
  BY <1>1, Zenon DEF RenderCall, SameFlags
<1>4. renders' = [renders EXCEPT ![r] = begun]
  BY <1>1
<1>5. PICK n \in RenderCall :
        /\ n.at = "context" /\ n.module = m /\ n.waiter = renders[r].waiter
        /\ SameFlags(n, r) /\ renders' = [renders EXCEPT ![r] = n]
  BY <1>2, <1>3, <1>4
<1>. HIDE DEF begun
<1>6. renders' \in [Renders -> RenderCall] /\ renders'[r] = n
      /\ \A q \in Renders : q # r => renders'[q] = renders[q]
  BY <1>5, RenderMoves
<1>7. NoDoc \in Doc
  BY DEF NoDoc, Doc
<1>8. docs' \in [Modules -> Doc] /\ \A c \in Modules : docs'[c] = docs[c] \/ docs'[c] = NoDoc
  BY <1>1, <1>7 DEF RenderingTyped
<1>9. ASSUME ~overlapped', RendersHeld PROVE RendersHeld'
  <2>1. \A q \in Renders : q # r => ~UnderWay(q)
    BY <1>1, <1>9
  <2>2. ModulesOwn'
    <3>1. ModulesOwn /\ \A x \in mounts : x.by \in Renders
      BY <1>9 DEF RendersHeld, RenderingTyped, Mount
    <3>2. \A x \in mounts : x.by # r
      BY <1>1, <3>1 DEF ModulesOwn
    <3>3. \A x \in mounts : renders'[x.by] = renders[x.by]
      BY <1>6, <3>1, <3>2
    <3>. QED
      BY <1>8, <3>1, <3>3 DEF ModulesOwn
  <2>3. ~Landed(r)' /\ ~Settled(r)'
    BY <1>1, <1>5, <1>6, <1>9 DEF RendersHeld, Fresh, Landed, SameFlags, Settled, None
  <2>4. Undisturbed(r)' /\ ItsOwn(r)' /\ Placed(r)'
    BY <1>1, <1>5, <1>6, <1>9, <2>3 DEF Undisturbed, Placed, ItsOwn, RendersHeld, Fresh
  <2>. QED
    BY <1>5, <1>9, <2>1, <2>2, <2>4, MoveHolds
<1>10. overlapped' \in BOOLEAN /\ (overlapped => overlapped')
  BY <1>1, Zenon DEF RenderingTyped
<1>. QED
  BY <1>5, <1>6, <1>8, <1>9, <1>10 DEF RenderingTyped

LEMMA AwaitImportHolds ==
  ASSUME RenderingTyped, NEW r \in Renders, AwaitImport(r)
  PROVE  RenderingTyped' /\ (~overlapped /\ RendersHeld => RendersHeld')
<1>. DEFINE next == [renders[r] EXCEPT !.at = "import", !.waiter = "waiting"]
<1>1. /\ renders[r] \in RenderCall /\ renders[r].at = "context"
      /\ renders' = [renders EXCEPT ![r] = next]
      /\ UNCHANGED <<docs, captured, capturing, evaluated, renderError, mounts, waits, overlapped>>
  BY DEF AwaitImport, RenderingTyped
<1>2. next \in RenderCall /\ next.at = "import" /\ next.module = renders[r].module
      /\ next.waiter = "waiting"
  BY <1>1, Zenon DEF RenderCall
<1>3. SameFlags(next, r)
  BY <1>1, Zenon DEF RenderCall, SameFlags
<1>4. PICK n \in RenderCall :
        /\ n.at = "import" /\ n.module = renders[r].module /\ n.waiter = "waiting"
        /\ SameFlags(n, r) /\ renders' = [renders EXCEPT ![r] = n]
  BY <1>1, <1>2, <1>3
<1>. HIDE DEF next
<1>5. renders' \in [Renders -> RenderCall] /\ renders'[r] = n
      /\ \A q \in Renders : q # r => renders'[q] = renders[q]
  BY <1>4, RenderMoves
<1>6. ASSUME RendersHeld PROVE RendersHeld'
  <2>1. UnderWay(r) /\ \A q \in Renders : q # r => ~UnderWay(q)
    BY <1>1, <1>6 DEF RendersHeld, OneAtATime, UnderWay
  <2>2. ModulesOwn'
    <3>1. ModulesOwn /\ \A x \in mounts : x.by \in Renders
      BY <1>6 DEF RendersHeld, RenderingTyped, Mount
    <3>2. \A x \in mounts : x.by # r
      BY <1>1, <3>1 DEF ModulesOwn
    <3>3. \A x \in mounts : renders'[x.by] = renders[x.by]
      BY <1>5, <3>1, <3>2
    <3>. QED
      BY <1>1, <3>1, <3>3 DEF ModulesOwn
  <2>3. Undisturbed(r) /\ Placed(r) /\ (Landed(r)' <=> Landed(r)) /\ (Excused(r)' <=> Excused(r))
    BY <1>4, <1>5, <1>6 DEF RendersHeld, SameFlags, Landed, Excused
  <2>4. ASSUME Landed(r)', ~Excused(r)' PROVE renderError \/ Showing(r)
    BY <1>1, <2>1, <2>3, <2>4 DEF Undisturbed, Placed, None
  <2>5. Showing(r)' <=> Showing(r)
    BY <1>1, <1>4, <1>5 DEF Showing
  <2>6. ~Settled(r)'
    BY <1>4, <1>5 DEF Settled
  <2>7. Placed(r)'
    BY <1>1, <1>4, <1>5, <2>1, <2>3 DEF Placed
  <2>8. Undisturbed(r)' /\ ItsOwn(r)'
    BY <1>1, <1>4, <1>5, <2>3, <2>4, <2>5, <2>6 DEF Undisturbed, ItsOwn
  <2>. QED
    BY <1>4, <1>6, <2>1, <2>2, <2>7, <2>8, MoveHolds
<1>7. RenderingTyped'
  BY <1>1, <1>4, <1>5 DEF RenderingTyped
<1>. QED
  BY <1>6, <1>7

(* The render finds its element captured, by itself or by an earlier one, and mounts it. *)
LEMMA ImportHolds ==
  ASSUME RenderingTyped, NEW r \in Renders, Import(r)
  PROVE  RenderingTyped' /\ (~overlapped /\ RendersHeld => RendersHeld')
<1>. DEFINE m == renders[r].module
            next == [renders[r] EXCEPT !.at = NextWait(r)]
            mounted == [by |-> r, of |-> m, scope |-> m, how |-> "import"]
            new == (IF Evaluates(r) THEN {mounted} ELSE {})
                     \cup (IF docs[m] = NoDoc THEN ReplayOf(r, Elements(r)) ELSE {})
<1>1. /\ renders[r] \in RenderCall /\ renders[r].at = "import"
      /\ renders' = [renders EXCEPT ![r] = next]
      /\ captured' = Elements(r) /\ evaluated' = evaluated \cup {m}
      /\ mounts' = mounts \cup new
      /\ UNCHANGED <<docs, capturing, renderError, waits, overlapped>>
  BY DEF Import, RenderingTyped
<1>m. m \in Modules
  BY <1>1 DEF RenderingTyped
<1>2. NextWait(r) \in {"pulse", "mount"}
  BY DEF NextWait
<1>3. next \in RenderCall /\ next.at = NextWait(r) /\ next.module = m
      /\ next.waiter = renders[r].waiter
  BY <1>1, <1>2, Zenon DEF RenderCall
<1>4. SameFlags(next, r)
  BY <1>1, Zenon DEF RenderCall, SameFlags
<1>5. PICK n \in RenderCall :
        /\ n.at = NextWait(r) /\ n.module = m /\ n.waiter = renders[r].waiter
        /\ SameFlags(n, r) /\ renders' = [renders EXCEPT ![r] = n]
  BY <1>1, <1>3, <1>4
<1>. HIDE DEF next
<1>6. renders' \in [Renders -> RenderCall] /\ renders'[r] = n
      /\ \A q \in Renders : q # r => renders'[q] = renders[q]
  BY <1>5, RenderMoves
<1>7. Elements(r) \in [Modules -> Modules \cup {None}]
  BY <1>m DEF Elements, RenderingTyped
<1>8. \A x \in new : x \in Mount /\ x.by = r /\ x.scope = m /\ x.of \in {m, Elements(r)[m]}
  BY <1>m, <1>7 DEF Mount, ReplayOf
<1>9. RenderingTyped'
  BY <1>1, <1>5, <1>6, <1>7, <1>8 DEF RenderingTyped
<1>10. ASSUME RendersHeld, ~overlapped PROVE RendersHeld'
  <2>1. UnderWay(r) /\ \A q \in Renders : q # r => ~UnderWay(q)
    BY <1>1, <1>10 DEF RendersHeld, OneAtATime, UnderWay
  <2>2. /\ Undisturbed(r) /\ Placed(r) /\ ModulesOwn
        /\ (Landed(r)' <=> Landed(r)) /\ (Excused(r)' <=> Excused(r))
    BY <1>5, <1>6, <1>10 DEF RendersHeld, SameFlags, Landed, Excused
  <2>3. capturing = m
    BY <1>1, <2>1, <2>2 DEF Placed
  <2>4. \A c \in Modules : /\ captured'[c] \in {None, c}
                           /\ c \in evaluated' => captured'[c] = c
    BY <1>1, <2>2, <2>3 DEF Elements, Evaluates, ModulesOwn
  <2>5. captured'[m] = m /\ m # None
    BY <1>m, <1>1, <2>4, RenderingAssumption
  <2>6. \A x \in new : x.of = x.scope /\ x.scope = renders'[x.by].module
                      /\ renders'[x.by].at \in {"pulse", "mount", "done"}
    BY <1>1, <1>2, <1>5, <1>6, <1>8, <2>5
  <2>7. \A x \in mounts : x.of = x.scope /\ x.scope = renders'[x.by].module
                         /\ renders'[x.by].at \in {"pulse", "mount", "done"}
    <3>1. \A x \in mounts : x.by \in Renders /\ x.by # r
      BY <1>1, <2>2 DEF ModulesOwn, RenderingTyped, Mount
    <3>. QED
      BY <1>6, <2>2, <3>1 DEF ModulesOwn
  <2>8. ModulesOwn'
    <3>. HIDE DEF new
    <3>1. \A x \in mounts' : x \in mounts \/ x \in new
      BY <1>1
    <3>2. \A c \in Modules : docs'[c] # NoDoc => docs'[c].of = c
      BY <1>1, <2>2 DEF ModulesOwn
    <3>. QED
      BY <2>4, <2>6, <2>7, <3>1, <3>2 DEF ModulesOwn
  <2>9. renders'[r].at = "mount" => \E x \in mounts' : x.by = r
    <3>1. CASE docs[m] # NoDoc
      BY <1>5, <1>6, <3>1 DEF NextWait
    <3>2. CASE docs[m] = NoDoc
      <4>1. Elements(r)[m] # None
        BY <1>1, <2>5
      <4>2. PICK x \in ReplayOf(r, Elements(r)) : x.by = r
        BY <4>1 DEF ReplayOf
      <4>. QED
        BY <1>1, <3>2, <4>2
    <3>. QED
      BY <3>1, <3>2
  <2>10. Placed(r)'
    BY <1>2, <1>5, <1>6, <2>5 DEF Placed
  <2>11. (Showing(r)' <=> Showing(r)) /\ (Settled(r)' <=> Settled(r))
    BY <1>1, <1>5, <1>6 DEF Showing, Settled
  <2>12. Undisturbed(r)'
    BY <1>1, <1>5, <1>6, <2>1, <2>2, <2>9, <2>11 DEF Undisturbed
  <2>13. ItsOwn(r)'
    BY <1>2, <1>5, <1>6 DEF ItsOwn
  <2>14. n.at # "free"
    BY <1>2, <1>5
  <2>. QED
    BY <1>5, <1>10, <2>1, <2>8, <2>10, <2>12, <2>13, <2>14, MoveHolds
<1>. QED
  BY <1>9, <1>10

LEMMA ReplayHolds ==
  ASSUME RenderingTyped, NEW r \in Renders, ReplayMissingPulse(r)
  PROVE  RenderingTyped' /\ (~overlapped /\ RendersHeld => RendersHeld')
<1>. DEFINE m == renders[r].module
            next == [renders[r] EXCEPT !.at = "mount"]
            new == ReplayOf(r, captured)
<1>1. /\ renders[r] \in RenderCall /\ renders[r].at = "pulse" /\ m \in Modules
      /\ renders' = [renders EXCEPT ![r] = next]
      /\ new # {} /\ mounts' = mounts \cup new
      /\ UNCHANGED <<docs, captured, capturing, evaluated, renderError, waits, overlapped>>
  BY DEF ReplayMissingPulse, RenderingTyped
<1>2. next \in RenderCall /\ next.at = "mount" /\ next.module = m
      /\ next.waiter = renders[r].waiter
  BY <1>1, Zenon DEF RenderCall
<1>3. SameFlags(next, r)
  BY <1>1, Zenon DEF RenderCall, SameFlags
<1>4. PICK n \in RenderCall :
        /\ n.at = "mount" /\ n.module = m /\ n.waiter = renders[r].waiter
        /\ SameFlags(n, r) /\ renders' = [renders EXCEPT ![r] = n]
  BY <1>1, <1>2, <1>3
<1>. HIDE DEF next
<1>5. renders' \in [Renders -> RenderCall] /\ renders'[r] = n
      /\ \A q \in Renders : q # r => renders'[q] = renders[q]
  BY <1>4, RenderMoves
<1>6. \A x \in new : x \in Mount /\ x.by = r /\ x.scope = m /\ x.of = captured[m]
                     /\ captured[m] # None
  BY <1>1 DEF Mount, ReplayOf, RenderingTyped
<1>7. RenderingTyped'
  BY <1>1, <1>4, <1>5, <1>6 DEF RenderingTyped
<1>8. ASSUME RendersHeld, ~overlapped PROVE RendersHeld'
  <2>1. UnderWay(r) /\ \A q \in Renders : q # r => ~UnderWay(q)
    BY <1>1, <1>8 DEF RendersHeld, OneAtATime, UnderWay
  <2>2. /\ Undisturbed(r) /\ Placed(r) /\ ModulesOwn
        /\ (Landed(r)' <=> Landed(r)) /\ (Excused(r)' <=> Excused(r))
    BY <1>4, <1>5, <1>8 DEF RendersHeld, SameFlags, Landed, Excused
  <2>3. \A x \in new : x.of = x.scope /\ x.scope = renders'[x.by].module
                      /\ renders'[x.by].at \in {"pulse", "mount", "done"}
    BY <1>1, <1>4, <1>5, <1>6, <2>2 DEF ModulesOwn
  <2>4. \A x \in mounts : x.of = x.scope /\ x.scope = renders'[x.by].module
                         /\ renders'[x.by].at \in {"pulse", "mount", "done"}
    <3>1. \A x \in mounts : x.by \in Renders
      BY DEF RenderingTyped, Mount
    <3>. QED
      BY <1>4, <1>5, <2>2, <3>1 DEF ModulesOwn
  <2>5. ModulesOwn'
    <3>. HIDE DEF new
    <3>1. \A x \in mounts' : x \in mounts \/ x \in new
      BY <1>1
    <3>. QED
      BY <1>1, <2>2, <2>3, <2>4, <3>1 DEF ModulesOwn
  <2>6. \E x \in mounts' : x.by = r
    <3>. HIDE DEF new
    <3>. QED
      BY <1>1, <1>6
  <2>7. Placed(r)'
    BY <1>1, <1>4, <1>5, <2>1, <2>2 DEF Placed
  <2>8. (Showing(r)' <=> Showing(r)) /\ (Settled(r)' <=> Settled(r))
    BY <1>1, <1>4, <1>5 DEF Showing, Settled
  <2>9. Undisturbed(r)'
    BY <1>1, <1>4, <1>5, <2>1, <2>2, <2>6, <2>8 DEF Undisturbed
  <2>10. ItsOwn(r)'
    BY <1>4, <1>5 DEF ItsOwn
  <2>. QED
    BY <1>4, <1>8, <2>1, <2>5, <2>7, <2>9, <2>10, MoveHolds
<1>. QED
  BY <1>7, <1>8

(* The render answers: with what its module shows, which is its own if it was committed. *)
LEMMA EndHolds ==
  ASSUME RenderingTyped, NEW r \in Renders, EndRender(r)
  PROVE  RenderingTyped' /\ (~overlapped /\ RendersHeld => RendersHeld')
<1>. DEFINE m == renders[r].module
            threw == renders[r].waiter = "rejected" \/ renderError
            answer == IF threw THEN NoDoc ELSE docs[m]
            excused == renders[r].excused \/ (~renders[r].landed /\ \E x \in mounts : x.by = r)
            next == [renders[r] EXCEPT !.at = "done", !.waiter = None, !.threw = threw,
                                       !.doc = answer, !.excused = excused]
<1>1. /\ renders[r] \in RenderCall /\ renders[r].at \in {"pulse", "mount"} /\ m \in Modules
      /\ renders' = [renders EXCEPT ![r] = next]
      /\ renders[r].at = "pulse" => Settled(r) \/ ReplayOf(r, captured) = {}
      /\ UNCHANGED <<docs, captured, evaluated, mounts, waits, overlapped>>
  BY DEF EndRender, RenderingTyped
<1>2. renderError' \in BOOLEAN
  BY Zenon DEF EndRender, RenderingTyped
<1>3. answer \in Doc
  BY <1>1 DEF RenderingTyped, NoDoc, Doc
<1>4. next \in RenderCall /\ next.at = "done" /\ next.module = m /\ next.waiter = None
      /\ next.doc = answer
  BY <1>1, <1>3, Zenon DEF RenderCall
<1>5. /\ next.landed = renders[r].landed /\ (next.threw <=> threw)
      /\ (next.excused <=> excused)
  BY <1>1, Zenon DEF RenderCall
<1>6. PICK n \in RenderCall :
        /\ n.at = "done" /\ n.module = m /\ n.doc = answer
        /\ n.landed = renders[r].landed /\ (n.threw <=> threw) /\ (n.excused <=> excused)
        /\ renders' = [renders EXCEPT ![r] = n]
  BY <1>1, <1>4, <1>5
<1>. HIDE DEF next
<1>7. renders' \in [Renders -> RenderCall] /\ renders'[r] = n
      /\ \A q \in Renders : q # r => renders'[q] = renders[q]
  BY <1>6, RenderMoves
<1>8. RenderingTyped'
  BY <1>1, <1>2, <1>6, <1>7 DEF RenderingTyped
<1>9. ASSUME RendersHeld, ~overlapped PROVE RendersHeld'
  <2>1. UnderWay(r) /\ \A q \in Renders : q # r => ~UnderWay(q)
    BY <1>1, <1>9 DEF RendersHeld, OneAtATime, UnderWay
  <2>2. Undisturbed(r) /\ Placed(r) /\ ModulesOwn
    BY <1>9 DEF RendersHeld
  <2>3. /\ (Landed(r)' <=> Landed(r)) /\ (Threw(r)' <=> threw)
        /\ (Excused(r)' <=> Excused(r) \/ (~Landed(r) /\ \E x \in mounts : x.by = r))
    BY <1>6, <1>7 DEF Landed, Excused, Threw
  <2>4. ModulesOwn'
    <3>1. \A x \in mounts : x.by \in Renders
      BY DEF RenderingTyped, Mount
    <3>2. \A x \in mounts : x.of = x.scope /\ x.scope = renders'[x.by].module
                           /\ renders'[x.by].at \in {"pulse", "mount", "done"}
      BY <1>6, <1>7, <2>2, <3>1 DEF ModulesOwn
    <3>. QED
      BY <1>1, <2>2, <3>2 DEF ModulesOwn
  <2>5. ItsOwn(r)'
    <3>. SUFFICES ASSUME ~Excused(r)'
                  PROVE  /\ Landed(r)'
                         /\ ~Threw(r)' => renders'[r].doc.by = r /\ renders'[r].doc.of = renders'[r].module
      BY DEF ItsOwn
    <3>1. ReplayOf(r, captured) # {}
      BY <1>1, <2>1, <2>2 DEF Placed, ReplayOf
    <3>2. Landed(r)
      BY <1>1, <2>1, <2>2, <2>3, <3>1 DEF Undisturbed
    <3>3. threw \/ Showing(r)
      BY <2>1, <2>2, <2>3, <3>2 DEF Undisturbed
    <3>4. ~threw => answer.by = r /\ answer.of = m
      BY <3>3 DEF Showing
    <3>. QED
      BY <1>6, <1>7, <2>3, <3>2, <3>4
  <2>6. Undisturbed(r)' /\ Placed(r)'
    BY <1>6, <1>7 DEF Undisturbed, Placed, UnderWay
  <2>. QED
    BY <1>6, <1>9, <2>1, <2>4, <2>5, <2>6, MoveHolds
<1>. QED
  BY <1>8, <1>9

LEMMA FailHolds ==
  ASSUME RenderingTyped, NEW r \in Renders, FailRender(r)
  PROVE  RenderingTyped' /\ (~overlapped /\ RendersHeld => RendersHeld')
<1>. DEFINE m == renders[r].module
            next == [renders[r] EXCEPT !.at = "done", !.waiter = None, !.threw = TRUE,
                                       !.excused = TRUE]
<1>1. /\ renders[r] \in RenderCall /\ renders[r].at \in {"context", "import"} /\ m \in Modules
      /\ renders' = [renders EXCEPT ![r] = next]
      /\ UNCHANGED <<docs, captured, evaluated, renderError, mounts, waits, overlapped>>
  BY DEF FailRender, RenderingTyped
<1>2. next \in RenderCall /\ next.at = "done" /\ next.module = m
  BY <1>1, Zenon DEF RenderCall
<1>3. next.excused
  BY <1>1, Zenon DEF RenderCall
<1>4. PICK n \in RenderCall : /\ n.at = "done" /\ n.module = m /\ n.excused
                              /\ renders' = [renders EXCEPT ![r] = n]
  BY <1>1, <1>2, <1>3
<1>. HIDE DEF next
<1>5. renders' \in [Renders -> RenderCall] /\ renders'[r] = n
      /\ \A q \in Renders : q # r => renders'[q] = renders[q]
  BY <1>4, RenderMoves
<1>6. RenderingTyped'
  BY <1>1, <1>4, <1>5 DEF RenderingTyped
<1>7. ASSUME RendersHeld, ~overlapped PROVE RendersHeld'
  <2>1. UnderWay(r) /\ \A q \in Renders : q # r => ~UnderWay(q)
    BY <1>1, <1>7 DEF RendersHeld, OneAtATime, UnderWay
  <2>2. ModulesOwn'
    <3>1. ModulesOwn /\ \A x \in mounts : x.by \in Renders
      BY <1>7 DEF RendersHeld, RenderingTyped, Mount
    <3>2. \A x \in mounts : x.of = x.scope /\ x.scope = renders'[x.by].module
                           /\ renders'[x.by].at \in {"pulse", "mount", "done"}
      BY <1>4, <1>5, <3>1 DEF ModulesOwn
    <3>. QED
      BY <1>1, <3>1, <3>2 DEF ModulesOwn
  <2>3. Excused(r)'
    BY <1>4, <1>5 DEF Excused
  <2>4. Undisturbed(r)' /\ Placed(r)' /\ ItsOwn(r)'
    BY <1>4, <1>5, <2>3 DEF Undisturbed, Placed, UnderWay, ItsOwn
  <2>. QED
    BY <1>4, <1>7, <2>1, <2>2, <2>4, MoveHolds
<1>. QED
  BY <1>6, <1>7

(* A commit settles every waiter; the render it is of has landed, the others under way
   are excused. *)
LEMMA SettleMoves ==
  ASSUME RenderingTyped, NEW x, NEW how \in {"resolved", "rejected"}, SettleWaiters(x, how)
  PROVE  /\ renders' \in [Renders -> RenderCall]
         /\ \A r \in Renders :
              /\ renders'[r].module = renders[r].module /\ renders'[r].at = renders[r].at
              /\ renders'[r].doc = renders[r].doc /\ (Threw(r)' <=> Threw(r))
              /\ renders'[r].waiter \in {renders[r].waiter, how}
              /\ renders[r].waiter = None => renders'[r].waiter = None
              /\ Landed(r)' <=> Landed(r) \/ (UnderWay(r) /\ x.by = r)
              /\ Excused(r)' <=> Excused(r) \/ (UnderWay(r) /\ x.by # r)
<1>. DEFINE next(r) == [renders[r] EXCEPT !.waiter = IF @ = "waiting" THEN how ELSE @,
                                          !.excused = @ \/ x.by # r, !.landed = @ \/ x.by = r]
<1>0. renders' = [q \in Renders |-> renders'[q]]
  BY DEF SettleWaiters
<1>. SUFFICES ASSUME NEW r \in Renders
     PROVE  /\ renders'[r] \in RenderCall
            /\ renders'[r].module = renders[r].module /\ renders'[r].at = renders[r].at
            /\ renders'[r].doc = renders[r].doc /\ (Threw(r)' <=> Threw(r))
            /\ renders'[r].waiter \in {renders[r].waiter, how}
            /\ renders[r].waiter = None => renders'[r].waiter = None
            /\ Landed(r)' <=> Landed(r) \/ (UnderWay(r) /\ x.by = r)
            /\ Excused(r)' <=> Excused(r) \/ (UnderWay(r) /\ x.by # r)
  BY <1>0
<1>1. renders[r] \in RenderCall /\ renders'[r] = IF ~UnderWay(r) THEN renders[r] ELSE next(r)
  BY DEF RenderingTyped, SettleWaiters
<1>2. CASE ~UnderWay(r)
  BY <1>1, <1>2, Zenon DEF Landed, Excused, Threw
<1>3. CASE UnderWay(r)
  <2>1. /\ next(r).module = renders[r].module /\ next(r).at = renders[r].at
        /\ next(r).doc = renders[r].doc
        /\ next(r).waiter = IF renders[r].waiter = "waiting" THEN how ELSE renders[r].waiter
    BY <1>1, Zenon DEF RenderCall
  <2>2. /\ next(r).threw <=> renders[r].threw
        /\ next(r).landed <=> renders[r].landed \/ x.by = r
        /\ next(r).excused <=> renders[r].excused \/ x.by # r
    BY <1>1, Zenon DEF RenderCall
  <2>3. next(r) \in RenderCall
    BY <1>1, Zenon DEF RenderCall
  <2>4. renders'[r] = next(r)
    BY <1>1, <1>3
  <2>. HIDE DEF next
  <2>5. renders[r].waiter = None => next(r).waiter = None
    BY <2>1 DEF None
  <2>6. renders'[r].waiter \in {renders[r].waiter, how}
    BY <2>1, <2>4
  <2>7. Landed(r)' <=> Landed(r) \/ (UnderWay(r) /\ x.by = r)
    BY <1>3, <2>2, <2>4, Zenon DEF Landed
  <2>8. Excused(r)' <=> Excused(r) \/ (UnderWay(r) /\ x.by # r)
    BY <1>3, <2>2, <2>4, Zenon DEF Excused
  <2>9. Threw(r)' <=> Threw(r)
    BY <2>2, <2>4, Zenon DEF Threw
  <2>. QED
    BY <2>1, <2>3, <2>4, <2>5, <2>6, <2>7, <2>8, <2>9
<1>. QED
  BY <1>2, <1>3(* A reset forgets every waiter, and excuses the renders under way. *)
LEMMA ResetMoves ==
  ASSUME RenderingTyped, ResetUI
  PROVE  /\ renders' \in [Renders -> RenderCall]
         /\ \A r \in Renders :
              /\ renders'[r].module = renders[r].module /\ renders'[r].at = renders[r].at
              /\ renders'[r].doc = renders[r].doc /\ (Threw(r)' <=> Threw(r))
              /\ renders'[r].waiter \in {renders[r].waiter, "forgotten"}
              /\ renders[r].waiter = None => renders'[r].waiter = None
              /\ Landed(r)' <=> Landed(r)
              /\ Excused(r)' <=> Excused(r) \/ UnderWay(r)
<1>. DEFINE next(r) == [renders[r] EXCEPT !.waiter = IF @ = "waiting" THEN "forgotten" ELSE @,
                                          !.excused = TRUE]
<1>0. renders' = [q \in Renders |-> renders'[q]]
  BY DEF ResetUI
<1>. SUFFICES ASSUME NEW r \in Renders
     PROVE  /\ renders'[r] \in RenderCall
            /\ renders'[r].module = renders[r].module /\ renders'[r].at = renders[r].at
            /\ renders'[r].doc = renders[r].doc /\ (Threw(r)' <=> Threw(r))
            /\ renders'[r].waiter \in {renders[r].waiter, "forgotten"}
            /\ renders[r].waiter = None => renders'[r].waiter = None
            /\ Landed(r)' <=> Landed(r)
            /\ Excused(r)' <=> Excused(r) \/ UnderWay(r)
  BY <1>0
<1>1. renders[r] \in RenderCall /\ renders'[r] = IF ~UnderWay(r) THEN renders[r] ELSE next(r)
  BY DEF RenderingTyped, ResetUI
<1>2. CASE ~UnderWay(r)
  BY <1>1, <1>2, Zenon DEF Landed, Excused, Threw
<1>3. CASE UnderWay(r)
  <2>1. /\ next(r).module = renders[r].module /\ next(r).at = renders[r].at
        /\ next(r).doc = renders[r].doc
        /\ next(r).waiter = IF renders[r].waiter = "waiting" THEN "forgotten" ELSE renders[r].waiter
    BY <1>1, Zenon DEF RenderCall
  <2>2. /\ next(r).threw <=> renders[r].threw
        /\ next(r).landed <=> renders[r].landed
        /\ next(r).excused <=> TRUE
    BY <1>1, Zenon DEF RenderCall
  <2>3. next(r) \in RenderCall
    BY <1>1, Zenon DEF RenderCall
  <2>4. renders'[r] = next(r)
    BY <1>1, <1>3
  <2>. HIDE DEF next
  <2>5. renders[r].waiter = None => next(r).waiter = None
    BY <2>1 DEF None
  <2>6. renders'[r].waiter \in {renders[r].waiter, "forgotten"}
    BY <2>1, <2>4
  <2>7. Landed(r)' <=> Landed(r)
    BY <1>3, <2>2, <2>4, Zenon DEF Landed
  <2>8. Excused(r)' <=> Excused(r) \/ UnderWay(r)
    BY <1>3, <2>2, <2>4, Zenon DEF Excused
  <2>9. Threw(r)' <=> Threw(r)
    BY <2>2, <2>4, Zenon DEF Threw
  <2>. QED
    BY <2>1, <2>3, <2>4, <2>5, <2>6, <2>7, <2>8, <2>9
<1>. QED
  BY <1>2, <1>3

(* What happened to all renders at once keeps what is kept while each stays where it is. *)
LEMMA AllHold ==
  ASSUME RenderingTyped, RendersHeld, ModulesOwn', UNCHANGED <<captured, capturing>>,
         \A r \in Renders :
           /\ renders'[r].module = renders[r].module /\ renders'[r].at = renders[r].at
           /\ renders'[r].doc = renders[r].doc /\ (Threw(r)' <=> Threw(r))
           /\ renders[r].waiter = None => renders'[r].waiter = None
           /\ ~UnderWay(r) => (Landed(r)' <=> Landed(r)) /\ (Excused(r)' <=> Excused(r)),
         \A r \in Renders : Undisturbed(r)'
  PROVE  RendersHeld'
<1>1. \A r \in Renders : UnderWay(r)' <=> UnderWay(r)
  BY DEF UnderWay
<1>2. OneAtATime'
  BY <1>1 DEF RendersHeld, OneAtATime
<1>3. ASSUME NEW r \in Renders PROVE (Fresh(r) /\ Placed(r) /\ ItsOwn(r))'
  <2>1. Fresh(r) /\ Placed(r) /\ ItsOwn(r)
    BY DEF RendersHeld
  <2>2. Fresh(r)'
    BY <2>1 DEF Fresh, UnderWay
  <2>3. Placed(r)'
    BY <1>1, <2>1 DEF Placed
  <2>4. ItsOwn(r)'
    BY <2>1 DEF ItsOwn, UnderWay
  <2>. QED
    BY <2>2, <2>3, <2>4
<1>. QED
  BY <1>2, <1>3 DEF RendersHeld

(* A commit, published or refused, is filed under the module of its own render. *)
LEMMA CommitHolds ==
  ASSUME RenderingTyped, NEW x \in mounts, NEW again \in BOOLEAN, NEW text \in BOOLEAN,
         Land(x, text, again) \/ LandRawHtml(x, again)
  PROVE  /\ renders' \in [Renders -> RenderCall] /\ docs' \in [Modules -> Doc]
         /\ \A r \in Renders : renders'[r].at # "free" => renders'[r].module \in Modules
         /\ renderError' \in BOOLEAN /\ mounts' \subseteq Mount
         /\ UNCHANGED <<captured, overlapped>>
         /\ ~overlapped /\ RendersHeld => RendersHeld'
<1>. DEFINE doc == [of |-> x.of, by |-> x.by, text |-> text]
<1>1. PICK how \in {"resolved", "rejected"} : SettleWaiters(x, how)
  BY DEF Land, LandRawHtml
<1>2. x \in Mount /\ mounts' \subseteq mounts
  BY DEF Land, LandRawHtml, Commits, RenderingTyped
<1>3. UNCHANGED <<captured, capturing, evaluated, overlapped>>
  BY DEF Land, LandRawHtml
<1>4. \/ renderError' = FALSE /\ docs' = [docs EXCEPT ![x.scope] = doc]
      \/ renderError' = TRUE /\ docs' = docs
  BY DEF Land, LandRawHtml
<1>5. doc \in Doc
  BY <1>2 DEF Mount, Doc
<1>6. docs' \in [Modules -> Doc]
  BY <1>4, <1>5 DEF RenderingTyped
<1>7. renders' \in [Renders -> RenderCall]
  BY <1>1, SettleMoves
<1>8. \A r \in Renders :
        /\ renders'[r].module = renders[r].module /\ renders'[r].at = renders[r].at
        /\ renders'[r].doc = renders[r].doc /\ (Threw(r)' <=> Threw(r))
        /\ renders[r].waiter = None => renders'[r].waiter = None
        /\ Landed(r)' <=> Landed(r) \/ (UnderWay(r) /\ x.by = r)
        /\ Excused(r)' <=> Excused(r) \/ (UnderWay(r) /\ x.by # r)
  BY <1>1, SettleMoves
<1>9. ASSUME ~overlapped, RendersHeld PROVE RendersHeld'
  <2>1. ModulesOwn
    BY <1>9 DEF RendersHeld
  <2>2. x.of = x.scope /\ x.scope = renders[x.by].module /\ x.by \in Renders /\ x.scope \in Modules
    BY <1>2, <2>1 DEF ModulesOwn, Mount
  <2>3. ModulesOwn'
    <3>1. \A y \in mounts' : y.of = y.scope /\ y.scope = renders'[y.by].module
                            /\ renders'[y.by].at \in {"pulse", "mount", "done"}
      <4>1. \A y \in mounts' : y \in mounts /\ y.by \in Renders
        BY <1>2 DEF RenderingTyped, Mount
      <4>. QED
        BY <1>8, <2>1, <4>1 DEF ModulesOwn
    <3>2. \A c \in Modules : docs'[c] # NoDoc => docs'[c].of = c
      BY <1>4, <2>1, <2>2 DEF ModulesOwn, RenderingTyped
    <3>3. \A c \in Modules : captured'[c] \in {None, c} /\ (c \in evaluated' => captured'[c] = c)
      BY <1>3, <2>1 DEF ModulesOwn
    <3>. QED
      BY <3>1, <3>2, <3>3 DEF ModulesOwn
  <2>4. ASSUME NEW r \in Renders PROVE Undisturbed(r)'
    <3>. SUFFICES ASSUME UnderWay(r)', ~Excused(r)' PROVE Landed(r)' /\ (renderError' \/ Showing(r)')
      BY DEF Undisturbed
    <3>1. UnderWay(r) /\ x.by = r
      BY <1>8 DEF UnderWay
    <3>2. Landed(r)'
      BY <1>8, <3>1
    <3>3. renderError' \/ docs'[x.scope] = doc
      BY <1>4, <2>2 DEF RenderingTyped
    <3>4. docs'[x.scope] = doc => Showing(r)'
      BY <1>8, <2>2, <3>1 DEF Showing
    <3>. QED
      BY <3>2, <3>3, <3>4
  <2>. QED
    BY <1>3, <1>8, <1>9, <2>3, <2>4, AllHold
<1>10. \A r \in Renders : renders'[r].at # "free" => renders'[r].module \in Modules
  BY <1>8 DEF RenderingTyped
<1>11. mounts' \subseteq Mount /\ renderError' \in BOOLEAN
  BY <1>2, <1>4 DEF RenderingTyped
<1>. QED
  BY <1>3, <1>6, <1>7, <1>9, <1>10, <1>11

LEMMA ResetHolds ==
  ASSUME RenderingTyped, ResetUI
  PROVE  RenderingTyped' /\ (~overlapped /\ RendersHeld => RendersHeld')
<1>1. /\ docs' = [m \in Modules |-> NoDoc] /\ renderError' = FALSE
      /\ UNCHANGED <<captured, capturing, evaluated, mounts, waits, overlapped>>
  BY DEF ResetUI
<1>2. renders' \in [Renders -> RenderCall]
  BY ResetMoves
<1>3. \A r \in Renders :
        /\ renders'[r].module = renders[r].module /\ renders'[r].at = renders[r].at
        /\ renders'[r].doc = renders[r].doc /\ (Threw(r)' <=> Threw(r))
        /\ renders[r].waiter = None => renders'[r].waiter = None
        /\ Landed(r)' <=> Landed(r)
        /\ Excused(r)' <=> Excused(r) \/ UnderWay(r)
  BY ResetMoves
<1>4. RenderingTyped'
  BY <1>1, <1>2, <1>3 DEF RenderingTyped, NoDoc, Doc
<1>5. ASSUME ~overlapped, RendersHeld PROVE RendersHeld'
  <2>1. ModulesOwn /\ \A x \in mounts : x.by \in Renders
    BY <1>5 DEF RendersHeld, RenderingTyped, Mount
  <2>2. \A x \in mounts : renders'[x.by].module = renders[x.by].module
                          /\ renders'[x.by].at = renders[x.by].at
    BY <1>3, <2>1
  <2>3. \A c \in Modules : docs'[c] = NoDoc
    BY <1>1
  <2>4. ModulesOwn'
    BY <1>1, <2>1, <2>2, <2>3 DEF ModulesOwn
  <2>5. \A r \in Renders : Undisturbed(r)'
    BY <1>3 DEF Undisturbed, UnderWay
  <2>. QED
    BY <1>1, <1>3, <1>5, <2>4, <2>5, AllHold
<1>. QED
  BY <1>4, <1>5

WaitOwn(w) ==
  waits[w].got # NoDoc =>
    /\ waits[w].at = "done"
    /\ ~Bare(w) => waits[w].got.text /\ waits[w].got.of = waits[w].module

WaitsTyped ==
  /\ waits \in [Waits -> WaitCall]
  /\ \A w \in Waits : waits[w].at # "free" => waits[w].module \in Modules

(* One wait moves, or ends with an answer that is its own. *)
LEMMA WaitMoves ==
  ASSUME WaitsTyped, NEW w \in Waits, NEW v \in WaitCall, waits' = [waits EXCEPT ![w] = v],
         v.module \in Modules
  PROVE  WaitsTyped' /\ (WaitsHeld /\ WaitOwn(w)' => WaitsHeld')
<1>1. waits' \in [Waits -> WaitCall] /\ waits'[w] = v
      /\ \A u \in Waits : u # w => waits'[u] = waits[u]
  BY DEF WaitsTyped
<1>2. WaitsTyped'
  BY <1>1 DEF WaitsTyped
<1>3. ASSUME WaitsHeld, WaitOwn(w)' PROVE WaitsHeld'
  <2>1. \A u \in Waits : u # w => WaitOwn(u)'
    BY <1>1, <1>3 DEF WaitsHeld, WaitOwn, Bare
  <2>. QED
    BY <1>3, <2>1 DEF WaitsHeld, WaitOwn
<1>. QED
  BY <1>2, <1>3

LEMMA NoDocIsDoc == NoDoc \in Doc /\ ~NoDoc.text
BY DEF NoDoc, Doc

(* waitForContent() looks at its module, or goes to render it. *)
LEMMA LooksHold ==
  ASSUME RenderingTyped, WaitsTyped, NEW w \in Waits, NEW m \in Modules,
         waits[w].at # "done",
         \/ waits' = [waits EXCEPT ![w] = Seek(w, m)]
         \/ \E r \in Renders : waits' = [waits EXCEPT ![w].at = "rendering", ![w].module = m,
                                                      ![w].render = r]
  PROVE  WaitsTyped' /\ (WaitsHeld => WaitsHeld')
<1>. DEFINE seek == Seek(w, m)
            goes(r) == [waits[w] EXCEPT !.at = "rendering", !.module = m, !.render = r]
<1>1. waits[w] \in WaitCall /\ docs[m] \in Doc
  BY DEF WaitsTyped, RenderingTyped
<1>2. /\ seek \in WaitCall /\ seek.module = m /\ seek.at # "done"
      /\ seek.got = waits[w].got
  BY <1>1 DEF Seek, WaitCall
<1>3. \A r \in Renders : /\ goes(r) \in WaitCall /\ goes(r).module = m /\ goes(r).at # "done"
                         /\ goes(r).got = waits[w].got
  BY <1>1, Zenon DEF WaitCall
<1>4. PICK v \in WaitCall : /\ v.module = m /\ v.at # "done" /\ v.got = waits[w].got
                            /\ waits' = [waits EXCEPT ![w] = v]
  <2>1. CASE waits' = [waits EXCEPT ![w] = seek]
    BY <1>2, <2>1
  <2>2. ASSUME NEW r \in Renders,
               waits' = [waits EXCEPT ![w].at = "rendering", ![w].module = m, ![w].render = r]
        PROVE  waits' = [waits EXCEPT ![w] = goes(r)]
    BY <2>2
  <2>. HIDE DEF goes
  <2>. QED
    BY <1>3, <2>1, <2>2
<1>5. WaitsTyped' /\ (WaitsHeld /\ WaitOwn(w)' => WaitsHeld')
  BY <1>4, WaitMoves
<1>6. waits'[w] = v
  BY <1>4 DEF WaitsTyped
<1>7. WaitsHeld => WaitOwn(w)'
  BY <1>4, <1>6 DEF WaitsHeld, WaitOwn
<1>. QED
  BY <1>5, <1>7

(* It ends: with nothing, or with what it says of a module that shows something else now. *)
LEMMA EndsHold ==
  ASSUME RenderingTyped, WaitsTyped, NEW w \in Waits, NEW doc \in Doc, waits[w].at # "free",
         waits' = [waits EXCEPT ![w] = Ended(w, doc)]
  PROVE  /\ WaitsTyped'
         /\ ModulesOwn /\ WaitsHeld
            /\ (doc = NoDoc \/ docs[waits[w].module] = NoDoc
                  \/ (docs[waits[w].module].text /\ doc = docs[waits[w].module]))
            => WaitsHeld'
<1>. DEFINE m == waits[w].module
            bare == docs[m] = NoDoc
            ended == [waits[w] EXCEPT !.at = "done", !.candidate = NoDoc, !.got = doc, !.bare = bare]
<1>1. waits[w] \in WaitCall /\ m \in Modules /\ ended = Ended(w, doc)
  BY DEF WaitsTyped, Ended
<1>2. ended \in WaitCall /\ ended.module = m /\ ended.at = "done" /\ ended.got = doc
  BY <1>1, NoDocIsDoc, Zenon DEF WaitCall
<1>3. ended.bare <=> bare
  BY <1>1, Zenon DEF WaitCall
<1>4. PICK v \in WaitCall : /\ v.module = m /\ v.at = "done" /\ v.got = doc /\ (v.bare <=> bare)
                            /\ waits' = [waits EXCEPT ![w] = v]
  BY <1>1, <1>2, <1>3
<1>. HIDE DEF ended
<1>5. WaitsTyped' /\ (WaitsHeld /\ WaitOwn(w)' => WaitsHeld')
  BY <1>1, <1>4, WaitMoves
<1>6. waits'[w] = v
  BY <1>4 DEF WaitsTyped
<1>7. Bare(w)' <=> bare
  BY <1>4, <1>6 DEF Bare
<1>8. ASSUME ModulesOwn, doc = NoDoc \/ bare \/ (docs[m].text /\ doc = docs[m])
      PROVE  WaitOwn(w)'
  <2>1. CASE doc = NoDoc
    BY <1>4, <1>6, <2>1 DEF WaitOwn, NoDoc
  <2>2. CASE bare
    BY <1>4, <1>6, <1>7, <2>2 DEF WaitOwn
  <2>3. CASE ~bare /\ docs[m].text /\ doc = docs[m]
    <3>1. docs[m].of = m
      BY <1>1, <1>8, <2>3 DEF ModulesOwn
    <3>. QED
      BY <1>4, <1>6, <2>3, <3>1 DEF WaitOwn
  <2>. QED
    BY <1>8, <2>1, <2>2, <2>3
<1>. QED
  BY <1>5, <1>8

LEMMA WatchedHolds ==
  ASSUME WaitsTyped, NEW doc \in Doc, waits' = Watched(doc)
  PROVE  WaitsTyped' /\ (WaitsHeld => WaitsHeld')
<1>. DEFINE next(w) == [waits[w] EXCEPT !.at = "settling", !.candidate = doc]
<1>1. \A w \in Waits : waits[w] \in WaitCall
  BY DEF WaitsTyped
<1>2. \A w \in Waits : /\ next(w) \in WaitCall /\ next(w).at = "settling"
                       /\ next(w).module = waits[w].module /\ next(w).got = waits[w].got
  BY <1>1, Zenon DEF WaitCall
<1>3. \A w \in Waits : waits'[w] = waits[w] \/ (waits[w].at = "watching" /\ waits'[w] = next(w))
  BY DEF Watched
<1>4. waits' = [w \in Waits |-> waits'[w]]
  BY DEF Watched
<1>. HIDE DEF next
<1>5. WaitsTyped'
  BY <1>1, <1>2, <1>3, <1>4 DEF WaitsTyped
<1>6. ASSUME WaitsHeld, NEW w \in Waits PROVE WaitOwn(w)'
  BY <1>2, <1>3, <1>6 DEF WaitsHeld, WaitOwn, Bare
<1>7. WaitsHeld => WaitsHeld'
  BY <1>6 DEF WaitsHeld, WaitOwn
<1>. QED
  BY <1>5, <1>7

LEMMA SplitTyped == RenderingTyped => WaitsTyped
BY DEF RenderingTyped, WaitsTyped

(* A step that leaves the renders as they are. *)
LEMMA WaitsHold ==
  ASSUME RenderingInv, WaitsTyped', ~overlapped => (WaitsHeld => WaitsHeld'),
         UNCHANGED <<docs, captured, capturing, evaluated, renderError, mounts, renders, overlapped>>
  PROVE  RenderingInv'
<1>1. RenderingTyped'
  BY DEF RenderingInv, RenderingTyped, WaitsTyped
<1>2. RendersHeld => RendersHeld'
  BY DEF RendersHeld, OneAtATime, UnderWay, ModulesOwn, Fresh, Placed, Undisturbed, ItsOwn,
         Settled, Landed, Excused, Threw, Showing
<1>. QED
  BY <1>1, <1>2 DEF RenderingInv

(* A step that leaves the waits as they are. *)
LEMMA SameWaits == UNCHANGED waits => (WaitsHeld => WaitsHeld')
BY DEF WaitsHeld, Bare

LEMMA RenderingNextHolds ==
  ASSUME RenderingInv, RenderingNext PROVE RenderingInv'
<1>. USE DEF RenderingInv
<1>1. ASSUME NEW r \in Renders, RenderStep(r) PROVE RenderingInv'
  <2>1. UNCHANGED <<waits, overlapped>>
    BY <1>1 DEF RenderStep, AwaitImport, Import, ReplayMissingPulse, EndRender, FailRender
  <2>2. RenderingTyped' /\ (~overlapped /\ RendersHeld => RendersHeld')
    BY <1>1, AwaitImportHolds, ImportHolds, ReplayHolds, EndHolds, FailHolds DEF RenderStep
  <2>. QED
    BY <2>1, <2>2, SameWaits
<1>2. ASSUME ResetUI PROVE RenderingInv'
  <2>1. UNCHANGED <<waits, overlapped>>
    BY <1>2 DEF ResetUI
  <2>. QED
    BY <1>2, <2>1, ResetHolds, SameWaits
<1>3. ASSUME NEW x \in mounts, NEW again \in BOOLEAN, NEW text \in BOOLEAN,
             Land(x, text, again) \/ LandRawHtml(x, again)
      PROVE  RenderingInv'
  <2>1. WaitsTyped
    BY SplitTyped
  <2>2. WaitsTyped' /\ (WaitsHeld => WaitsHeld')
    <3>1. CASE Land(x, text, again)
      <4>. DEFINE doc == [of |-> x.of, by |-> x.by, text |-> text]
      <4>1. doc \in Doc
        BY DEF Doc, RenderingTyped, Mount
      <4>2. waits' = Watched(doc)
        BY <3>1 DEF Land
      <4>3. PICK d \in Doc : d = doc
        BY <4>1
      <4>. HIDE DEF doc
      <4>. QED
        BY <2>1, <4>2, <4>3, WatchedHolds
    <3>2. CASE LandRawHtml(x, again)
      <4>1. UNCHANGED waits
        BY <3>2 DEF LandRawHtml
      <4>. QED
        BY <2>1, <4>1, SameWaits DEF WaitsTyped
    <3>. QED
      BY <1>3, <3>1, <3>2
  <2>3. /\ renders' \in [Renders -> RenderCall] /\ docs' \in [Modules -> Doc]
        /\ \A r \in Renders : renders'[r].at # "free" => renders'[r].module \in Modules
        /\ renderError' \in BOOLEAN /\ mounts' \subseteq Mount
        /\ UNCHANGED <<captured, overlapped>>
        /\ ~overlapped /\ RendersHeld => RendersHeld'
    BY <1>3, CommitHolds
  <2>4. RenderingTyped'
    BY <2>2, <2>3 DEF RenderingTyped, WaitsTyped
  <2>. QED
    BY <2>2, <2>3, <2>4
<1>4. ASSUME NEW r \in Renders, NEW m \in Modules, NEW fresh \in BOOLEAN, Begins(r, m, fresh),
             UNCHANGED <<captured, evaluated, renderError, mounts>>,
             WaitsTyped', WaitsHeld => WaitsHeld'
      PROVE  RenderingInv'
  <2>1. /\ renders' \in [Renders -> RenderCall] /\ docs' \in [Modules -> Doc]
        /\ \A q \in Renders : renders'[q].at # "free" => renders'[q].module \in Modules
        /\ overlapped' \in BOOLEAN /\ (overlapped => overlapped')
        /\ ~overlapped' /\ RendersHeld => RendersHeld'
    BY <1>4, BeginsHolds
  <2>2. RenderingTyped'
    BY <1>4, <2>1 DEF RenderingTyped, WaitsTyped
  <2>. QED
    BY <1>4, <2>1, <2>2
<1>5. ASSUME NEW r \in Renders, NEW m \in Modules, NEW fresh \in BOOLEAN,
             BeginRender(r, m, fresh)
      PROVE  RenderingInv'
  <2>1. WaitsTyped' /\ (WaitsHeld => WaitsHeld')
    BY <1>5, SplitTyped, SameWaits DEF BeginRender, WaitsTyped
  <2>. QED
    BY <1>4, <1>5, <2>1 DEF BeginRender
<1>6. ASSUME NEW w \in Waits, NEW m \in Modules, NEW r \in Renders,
             BeginWaitWithRender(w, m, r)
      PROVE  RenderingInv'
  <2>1. WaitsTyped' /\ (WaitsHeld => WaitsHeld')
    BY <1>6, SplitTyped, LooksHold DEF BeginWaitWithRender
  <2>. QED
    BY <1>4, <1>6, <2>1 DEF BeginWaitWithRender
<1>7. ASSUME NEW w \in Waits, NEW m \in Modules, BeginWait(w, m) PROVE RenderingInv'
  <2>1. WaitsTyped' /\ (WaitsHeld => WaitsHeld')
    BY <1>7, SplitTyped, LooksHold DEF BeginWait
  <2>. QED
    BY <1>7, <2>1, WaitsHold DEF BeginWait
<1>8. ASSUME NEW w \in Waits, WaitStep(w) PROVE RenderingInv'
  <2>. DEFINE m == waits[w].module
  <2>0. WaitsTyped /\ (~overlapped => ModulesOwn)
    BY SplitTyped DEF RendersHeld
  <2>1. /\ waits[w].at \in {"rendering", "watching", "settling"} /\ m \in Modules
        /\ UNCHANGED <<docs, captured, capturing, evaluated, renderError, mounts, renders, overlapped>>
    BY <1>8, <2>0 DEF WaitStep, AfterRender, SettleEnds, GiveUp, WaitsTyped
  <2>2. PICK c \in Doc : c = waits[w].candidate
    BY <2>0 DEF WaitsTyped, WaitCall
  <2>3. PICK d \in Doc : d = docs[m]
    BY <2>1 DEF RenderingTyped
  <2>4. \/ waits' = [waits EXCEPT ![w] = Seek(w, m)]
        \/ waits' = [waits EXCEPT ![w] = Ended(w, NoDoc)]
        \/ waits' = [waits EXCEPT ![w] = Ended(w, c)] /\ d = NoDoc
        \/ waits' = [waits EXCEPT ![w] = Ended(w, d)] /\ d.text
    BY <1>8, <2>2, <2>3 DEF WaitStep, AfterRender, SettleEnds, GiveUp, AfterSettle
  <2>5. CASE waits' = [waits EXCEPT ![w] = Seek(w, m)]
    <3>1. PICK n \in Modules : n = m
      BY <2>1
    <3>2. WaitsTyped' /\ (WaitsHeld => WaitsHeld')
      BY <2>0, <2>1, <2>5, <3>1, LooksHold
    <3>. QED
      BY <2>1, <3>2, WaitsHold
  <2>6. CASE waits' = [waits EXCEPT ![w] = Ended(w, NoDoc)]
    <3>1. WaitsTyped' /\ (ModulesOwn /\ WaitsHeld => WaitsHeld')
      BY <2>0, <2>1, <2>6, NoDocIsDoc, EndsHold
    <3>. QED
      BY <2>0, <2>1, <3>1, WaitsHold
  <2>7. CASE waits' = [waits EXCEPT ![w] = Ended(w, c)] /\ d = NoDoc
    <3>1. WaitsTyped' /\ (ModulesOwn /\ WaitsHeld => WaitsHeld')
      BY <2>0, <2>1, <2>3, <2>7, EndsHold
    <3>. QED
      BY <2>0, <2>1, <3>1, WaitsHold
  <2>8. CASE waits' = [waits EXCEPT ![w] = Ended(w, d)] /\ d.text
    <3>1. WaitsTyped' /\ (ModulesOwn /\ WaitsHeld => WaitsHeld')
      BY <2>0, <2>1, <2>3, <2>8, EndsHold
    <3>. QED
      BY <2>0, <2>1, <3>1, WaitsHold
  <2>. QED
    BY <2>4, <2>5, <2>6, <2>7, <2>8
<1>. QED
  BY <1>1, <1>2, <1>3, <1>5, <1>6, <1>7, <1>8 DEF RenderingNext

(* UI simulator: a render that nothing came in between of answers with its own mount, and
   waitForContent() with what its own module shows, for any modules, renders and waits. *)
THEOREM ContentIsOwn == ServicesSpec => []OwnContent
<1>1. ServicesInit => RenderingInv
  <2>. SUFFICES ASSUME ServicesInit PROVE RenderingInv
    OBVIOUS
  <2>1. /\ docs = [m \in Modules |-> NoDoc] /\ captured = [m \in Modules |-> None]
        /\ evaluated = {} /\ renderError = FALSE /\ mounts = {} /\ overlapped = FALSE
        /\ renders = [r \in Renders |->
             [module |-> None, at |-> "free", waiter |-> None, landed |-> FALSE,
              excused |-> FALSE, threw |-> FALSE, doc |-> NoDoc]]
        /\ waits = [w \in Waits |->
             [module |-> None, at |-> "free", render |-> 0, candidate |-> NoDoc,
              got |-> NoDoc, bare |-> FALSE]]
    BY DEF ServicesInit, RenderingInit
  <2>2. renders \in [Renders -> RenderCall] /\ waits \in [Waits -> WaitCall]
    BY <2>1, NoDocIsDoc DEF RenderCall, WaitCall
  <2>3. RenderingTyped
    BY <2>1, <2>2, NoDocIsDoc DEF RenderingTyped
  <2>4. \A r \in Renders : renders[r].at = "free" /\ renders[r].waiter = None /\ ~Landed(r)
    BY <2>1 DEF Landed
  <2>5. RendersHeld
    BY <2>1, <2>4 DEF RendersHeld, OneAtATime, UnderWay, ModulesOwn, Fresh, Placed, Undisturbed,
                      ItsOwn
  <2>6. WaitsHeld
    BY <2>1 DEF WaitsHeld
  <2>. QED
    BY <2>3, <2>5, <2>6 DEF RenderingInv
<1>2. RenderingInv /\ [ServicesNext]_servicesVars => RenderingInv'
  <2>. SUFFICES ASSUME RenderingInv, [ServicesNext]_servicesVars PROVE RenderingInv'
    OBVIOUS
  <2>1. ASSUME ResetUI PROVE RenderingInv'
    <3>1. UNCHANGED <<waits, overlapped>>
      BY <2>1 DEF ResetUI
    <3>. QED
      BY <2>1, <3>1, ResetHolds, SameWaits DEF RenderingInv
  <2>2. ASSUME UNCHANGED rnVars PROVE RenderingInv'
    <3>1. WaitsTyped' /\ (WaitsHeld => WaitsHeld')
      BY <2>2, SplitTyped, SameWaits DEF rnVars, WaitsTyped, RenderingInv
    <3>. QED
      BY <2>2, <3>1, WaitsHold DEF rnVars
  <2>3. RenderingNext \/ ResetUI \/ UNCHANGED rnVars
    BY DEF ServicesNext, UseRealtime, UseObjectStore, UseDeploy, UseUI, SimulatorReset,
           SimulatorStop, servicesVars
  <2>. QED
    BY <2>1, <2>2, <2>3, RenderingNextHolds
<1>3. RenderingInv => OwnContent
  BY DEF RenderingInv, RendersHeld, WaitsHeld, ItsOwn, Landed, Excused, Threw, Bare,
         OwnContent, RenderIsItsOwn, WaitedContentIsOwn
<1>. QED
  BY <1>1, <1>2, <1>3, PTL DEF ServicesSpec

-----------------------------------------------------------------------------
(* Object store: what a signed URL is good for *)

Asked == UNION {UrlRequests[c] : c \in UrlCalls}
UrlRecord == [at : {"refused", "starting", "based", "done"}, req : Asked,
              base : UrlCalls \cup {NoServer, DevServer}]

UrlCallTyped ==
  /\ server \in UrlCalls \cup {NoServer}
  /\ urlCall = [c \in UrlCalls |-> urlCall[c]]
  /\ \A c \in UrlCalls : urlCall[c].at # "new" => urlCall[c] \in UrlRecord

(* The server that is known listens, and so does the one each URL in the making names,
   unless the store was torn down since. *)
UrlsInv ==
  /\ UrlCallTyped
  /\ server # NoServer => server \in listening
  /\ \A c \in UrlCalls \ torn :
       urlCall[c].at \in {"based", "done"} => urlCall[c].base \in listening \cup {DevServer}

UrlsRest == UNCHANGED <<server, listening, urlCall, torn>>

(* Every step makes, uses or forgets a URL, takes the servers down, or does neither. *)
LEMMA UrlSteps ==
  ASSUME [ServicesNext]_servicesVars
  PROVE  \/ \E c \in UrlCalls : RefuseUrl(c) \/ BeginUrl(c) \/ ServerListens(c) \/ IssueToken(c)
         \/ CloseEphemeralServer /\ UNCHANGED urlCall
         \/ UrlsRest
<1>1. CASE UseObjectStore
  <2>1. ASSUME NEW o \in Slots,
               Look(o) \/ Delete(o) \/ \E ttl \in {1, MaxObjectTtl} : PutDirectly(o, ttl)
        PROVE  UrlsRest
    BY <2>1 DEF Look, Delete, PutDirectly, UrlsRest
  <2>2. ASSUME NEW u \in Uploads, BeginUpload(u) \/ RejectUpload(u) \/ StoreUpload(u)
        PROVE  UrlsRest
    BY <2>2 DEF BeginUpload, RejectUpload, StoreUpload, UrlsRest
  <2>3. ASSUME DumpAll \/ RestoreAll \/ SetBaseUrl \/ AgeObjects PROVE UrlsRest
    BY <2>3 DEF DumpAll, RestoreAll, SetBaseUrl, AgeObjects, UrlsRest
  <2>. QED
    BY <1>1, <2>1, <2>2, <2>3 DEF UseObjectStore, ObjectStoreNext
<1>2. CASE SimulatorReset
  BY <1>2 DEF SimulatorReset, ResetObjectStore
<1>3. CASE SimulatorStop
  BY <1>3 DEF SimulatorStop, StopObjectStore
<1>4. CASE UseRealtime \/ UseDeploy \/ UseUI \/ UNCHANGED servicesVars
  BY <1>4 DEF UseRealtime, UseDeploy, UseUI, servicesVars, osVars, UrlsRest
<1>. QED
  BY <1>1, <1>2, <1>3, <1>4 DEF ServicesNext

(* One call moves: the others keep what they were given. *)
LEMMA UrlMoves ==
  ASSUME UrlsInv, NEW c \in UrlCalls, NEW n \in UrlRecord, urlCall' = [urlCall EXCEPT ![c] = n],
         server' \in UrlCalls \cup {NoServer}, server' # NoServer => server' \in listening', listening \subseteq listening',
         torn' = torn,
         n.at \in {"based", "done"} /\ c \notin torn => n.base \in listening' \cup {DevServer}
  PROVE  UrlsInv'
<1>1. urlCall'[c] = n /\ \A d \in UrlCalls : d # c => urlCall'[d] = urlCall[d]
  BY DEF UrlsInv, UrlCallTyped
<1>2. UrlCallTyped'
  BY <1>1 DEF UrlsInv, UrlCallTyped
<1>3. \A d \in UrlCalls \ torn' :
        urlCall'[d].at \in {"based", "done"} => urlCall'[d].base \in listening' \cup {DevServer}
  BY <1>1 DEF UrlsInv
<1>. QED
  BY <1>2, <1>3 DEF UrlsInv

LEMMA UrlsInvNext == UrlsInv /\ [ServicesNext]_servicesVars => UrlsInv'
<1>. SUFFICES ASSUME UrlsInv, [ServicesNext]_servicesVars PROVE UrlsInv'
  OBVIOUS
<1>1. ASSUME NEW c \in UrlCalls, RefuseUrl(c) \/ BeginUrl(c) PROVE UrlsInv'
  <2>1. PICK r \in UrlRequests[c], at \in {"refused", "based", "starting"},
             base \in UrlCalls \cup {NoServer, DevServer} :
          /\ urlCall' = [urlCall EXCEPT ![c] = [at |-> at, req |-> r, base |-> base]]
          /\ at = "based" => base = DevServer \/ (server # NoServer /\ base = server)
    <3>1. server \in UrlCalls \cup {NoServer}
      BY DEF UrlsInv, UrlCallTyped
    <3>2. CASE RefuseUrl(c)
      BY <3>2 DEF RefuseUrl
    <3>3. CASE BeginUrl(c)
      BY <3>1, <3>3 DEF BeginUrl
    <3>. QED
      BY <1>1, <3>2, <3>3
  <2>. DEFINE q == [at |-> at, req |-> r, base |-> base]
  <2>3. q \in UrlRecord /\ q.at = at /\ q.base = base
    BY DEF UrlRecord, Asked
  <2>. HIDE DEF q
  <2>4. PICK n \in UrlRecord : n.at = at /\ n.base = base /\ urlCall' = [urlCall EXCEPT ![c] = n]
    BY <2>1, <2>3 DEF q
  <2>2. UNCHANGED <<server, listening, torn>>
    BY <1>1 DEF RefuseUrl, BeginUrl
  <2>. QED
    <3>1. /\ server \in UrlCalls \cup {NoServer}
          /\ server # NoServer => server \in listening
      BY DEF UrlsInv, UrlCallTyped
    <3>2. n.at \in {"based", "done"} => n.base \in listening \cup {DevServer}
      BY <2>1, <2>4, <3>1
    <3>. QED
      BY <2>2, <2>4, <3>1, <3>2, UrlMoves
<1>2. ASSUME NEW c \in UrlCalls, ServerListens(c) PROVE UrlsInv'
  <2>. DEFINE n == [urlCall[c] EXCEPT !.at = "based", !.base = c]
  <2>1. /\ urlCall[c].at = "starting" /\ urlCall' = [urlCall EXCEPT ![c] = n]
        /\ server' = c /\ listening' = listening \cup {c} /\ torn' = torn
    BY <1>2 DEF ServerListens, NowListening
  <2>2. urlCall[c] \in UrlRecord
    BY <2>1 DEF UrlsInv, UrlCallTyped
  <2>3. n \in UrlRecord /\ n.at = "based" /\ n.base = c
    BY <2>2, Zenon DEF UrlRecord
  <2>. HIDE DEF n
  <2>5. PICK o \in UrlRecord : urlCall' = [urlCall EXCEPT ![c] = o] /\ o.at = "based" /\ o.base = c
    BY <2>1, <2>3
  <2>. QED
    BY <2>1, <2>5, UrlMoves
<1>3. ASSUME NEW c \in UrlCalls, IssueToken(c) PROVE UrlsInv'
  <2>. DEFINE n == [urlCall[c] EXCEPT !.at = "done"]
  <2>1. /\ urlCall[c].at = "based" /\ urlCall' = [urlCall EXCEPT ![c] = n]
        /\ UNCHANGED <<server, listening, torn>>
    BY <1>3 DEF IssueToken
  <2>2. urlCall[c] \in UrlRecord
    BY <2>1 DEF UrlsInv, UrlCallTyped
  <2>3. n \in UrlRecord /\ n.at = "done" /\ n.base = urlCall[c].base
    BY <2>2, Zenon DEF UrlRecord
  <2>. HIDE DEF n
  <2>5. PICK o \in UrlRecord :
          urlCall' = [urlCall EXCEPT ![c] = o] /\ o.at = "done" /\ o.base = urlCall[c].base
    BY <2>1, <2>3
  <2>6. c \notin torn => o.base \in listening \cup {DevServer}
    BY <2>1, <2>5 DEF UrlsInv
  <2>7. (server # NoServer => server \in listening) /\ server \in UrlCalls \cup {NoServer}
    BY DEF UrlsInv, UrlCallTyped
  <2>. QED
    BY <2>1, <2>5, <2>6, <2>7, UrlMoves
<1>4. ASSUME CloseEphemeralServer, UNCHANGED urlCall PROVE UrlsInv'
  <2>1. \A c \in UrlCalls \ torn' : urlCall'[c].at = "new"
    BY <1>4 DEF CloseEphemeralServer
  <2>2. server' = NoServer /\ UrlCallTyped'
    BY <1>4 DEF CloseEphemeralServer, UrlsInv, UrlCallTyped
  <2>. QED
    BY <2>1, <2>2 DEF UrlsInv
<1>5. CASE UrlsRest
  BY <1>5 DEF UrlsRest, UrlsInv, UrlCallTyped
<1>. QED
  BY <1>1, <1>2, <1>3, <1>4, <1>5, UrlSteps

UploadsTyped ==
  /\ upload = [u \in Uploads |-> upload[u]]
  /\ \A u \in Uploads : upload[u].at = "reading" =>
       upload[u] = [at |-> "reading", url |-> upload[u].url, body |-> upload[u].body,
                    constraints |-> upload[u].constraints]

ConsentStep ==
  \A u \in Uploads :
    upload[u].at = "reading" /\ upload'[u].at = "stored" =>
      LET r == upload[u].constraints IN Live(r.slot) => r.overwrite

(* Whatever becomes of an upload, its record keeps its shape, and it is not stored over an
   object it may not replace. *)
LEMMA UploadSteps ==
  ASSUME UploadsTyped, [ServicesNext]_servicesVars
  PROVE  UploadsTyped' /\ ConsentStep
<1>1. ASSUME NEW u \in Uploads, BeginUpload(u) PROVE UploadsTyped' /\ ConsentStep
  <2>1. PICK t \in UrlCalls, body \in DOMAIN Contents :
          upload' = [upload EXCEPT ![u] = [at |-> "reading", url |-> t, body |-> body,
                                           constraints |-> urlTokens[t].req]]
    BY <1>1 DEF BeginUpload
  <2>2. \A v \in Uploads : v # u => upload'[v] = upload[v]
    BY <2>1 DEF UploadsTyped
  <2>3. upload'[u] = [at |-> "reading", url |-> t, body |-> body, constraints |-> urlTokens[t].req]
    BY <2>1 DEF UploadsTyped
  <2>4. upload' = [v \in Uploads |-> upload'[v]]
    BY <2>1 DEF UploadsTyped
  <2>5. UploadsTyped'
    BY <2>2, <2>3, <2>4 DEF UploadsTyped
  <2>. QED
    BY <2>2, <2>3, <2>5 DEF ConsentStep
<1>2. ASSUME NEW u \in Uploads, RejectUpload(u) \/ StoreUpload(u)
      PROVE  UploadsTyped' /\ ConsentStep
  <2>1. PICK end \in {"rejected", "stored"} :
          /\ upload[u].at = "reading" /\ upload' = [upload EXCEPT ![u].at = end]
          /\ end = "stored" => UploadAccepted(u)
    BY <1>2 DEF RejectUpload, StoreUpload
  <2>2. upload[u] = [at |-> "reading", url |-> upload[u].url, body |-> upload[u].body,
                     constraints |-> upload[u].constraints]
    BY <2>1 DEF UploadsTyped
  <2>3. upload'[u] = [upload[u] EXCEPT !.at = end] /\ \A v \in Uploads : v # u => upload'[v] = upload[v]
    BY <2>1 DEF UploadsTyped
  <2>4. upload'[u].at = end
    BY <2>2, <2>3
  <2>5. upload' = [v \in Uploads |-> upload'[v]]
    BY <2>1 DEF UploadsTyped
  <2>6. UploadsTyped'
    BY <2>3, <2>4, <2>5 DEF UploadsTyped
  <2>7. ConsentStep
    BY <2>1, <2>3, <2>4 DEF ConsentStep, UploadAccepted
  <2>. QED
    BY <2>6, <2>7
<1>3. CASE UNCHANGED upload
  BY <1>3 DEF UploadsTyped, ConsentStep
<1>4. CASE UseObjectStore
  <2>1. ASSUME NEW o \in Slots,
               Look(o) \/ Delete(o) \/ \E ttl \in {1, MaxObjectTtl} : PutDirectly(o, ttl)
        PROVE  UNCHANGED upload
    BY <2>1 DEF Look, Delete, PutDirectly
  <2>2. ASSUME NEW c \in UrlCalls,
               RefuseUrl(c) \/ BeginUrl(c) \/ ServerListens(c) \/ IssueToken(c)
        PROVE  UNCHANGED upload
    BY <2>2 DEF RefuseUrl, BeginUrl, ServerListens, IssueToken
  <2>3. ASSUME DumpAll \/ RestoreAll \/ SetBaseUrl \/ AgeObjects PROVE UNCHANGED upload
    BY <2>3 DEF DumpAll, RestoreAll, SetBaseUrl, AgeObjects
  <2>. QED
    BY <1>1, <1>2, <1>3, <1>4, <2>1, <2>2, <2>3 DEF UseObjectStore, ObjectStoreNext
<1>5. CASE SimulatorReset \/ SimulatorStop
  BY <1>3, <1>5 DEF SimulatorReset, SimulatorStop, ResetObjectStore, StopObjectStore
<1>6. CASE UseRealtime \/ UseDeploy \/ UseUI \/ UNCHANGED servicesVars
  BY <1>3, <1>6 DEF UseRealtime, UseDeploy, UseUI, servicesVars, osVars
<1>. QED
  BY <1>4, <1>5, <1>6 DEF ServicesNext

(* Object store: a URL that was handed out names a server that listens, and an upload never
   replaces a live object without its URL's consent, for any calls, uploads and objects. *)
THEOREM UrlsAreGood == ServicesSpec => SignedUrlsHold
<1>1. ServicesInit => UrlsInv /\ UploadsTyped
  BY DEF ServicesInit, ObjectStoreInit, UrlsInv, UrlCallTyped, UploadsTyped
<1>2. UrlsInv => UrlsReachable
  BY DEF UrlsInv, UrlsReachable
<1>3. ServicesSpec => []UrlsReachable
  BY <1>1, <1>2, UrlsInvNext, PTL DEF ServicesSpec
<1>4. UploadsTyped /\ [ServicesNext]_servicesVars => UploadsTyped' /\ [ConsentStep]_osVars
  BY UploadSteps
<1>5. ServicesSpec => [][ConsentStep]_osVars
  BY <1>1, <1>4, PTL DEF ServicesSpec
<1>6. [][ConsentStep]_osVars => OverwriteIsConsented
  BY PTL DEF ConsentStep, OverwriteIsConsented
<1>. QED
  BY <1>3, <1>5, <1>6 DEF SignedUrlsHold
-----------------------------------------------------------------------------
(* Realtime: who hears a publication, and how often *)

Entry == [cb : Callbacks, live : BOOLEAN]
AskedToHear == UNION {SubscribeRequests[s] : s \in Subscriptions}
AskedToTell == UNION {PublishRequests[p] : p \in Publications}
JoinRecord == [at : {"live", "ended"}, req : AskedToHear, set : Nat \ {0}]
TellRecord == [at : {"delivering", "returned"}, req : AskedToTell, set : Nat, eventId : BOOLEAN]

Joined == {s \in Subscriptions : subState[s].at \in {"live", "ended"}}

FrameShape(f) ==
  f = [call |-> f.call, pub |-> f.pub, set |-> f.set, next |-> f.next, rest |-> f.rest,
       cb |-> f.cb, running |-> f.running]

StackTyped == /\ stack \in Seq({stack[k] : k \in DOMAIN stack})
              /\ \A k \in 1..Len(stack) : FrameShape(stack[k])

RealtimeTyped ==
  /\ sets \in Seq(Seq(Entry))
  /\ heard \in [Callbacks -> [Publications -> Nat]]
  /\ subState = [s \in Subscriptions |-> subState[s]]
  /\ pubState = [p \in Publications |-> pubState[p]]
  /\ \A s \in Joined : subState[s] \in JoinRecord /\ subState[s].set <= Len(sets)
  /\ \A p \in Published : pubState[p] \in TellRecord /\ pubState[p].set <= Len(sets)

(* The entries of a Set that stand for a callback, the dead ones of them, and the
   subscriptions that ended and account for the dead ones. *)
EntriesOf(i, c) == {n \in 1..Len(sets[i]) : sets[i][n].cb = c}
DeadOf(i, c) == {n \in 1..Len(sets[i]) : sets[i][n].cb = c /\ ~sets[i][n].live}
EndedOf(i, c) == {s \in Subscriptions : /\ subState[s].at = "ended"
                                        /\ subState[s].set = i
                                        /\ subState[s].req.callback = c}

(* A Set was made for a subscription; a live entry has a live subscription; a callback
   is live once; no more entries are dead than subscriptions have ended. *)
SetHolds(i) ==
  /\ \E s \in Joined : subState[s].set = i
  /\ \A n \in 1..Len(sets[i]) : sets[i][n].live =>
       \E s \in Subscriptions : /\ subState[s].at = "live" /\ subState[s].set = i
                                /\ subState[s].req.callback = sets[i][n].cb
  /\ \A m, n \in 1..Len(sets[i]) :
       sets[i][m].live /\ sets[i][n].live /\ sets[i][m].cb = sets[i][n].cb => m = n
  /\ \A c \in Callbacks : Cardinality(DeadOf(i, c)) <= Cardinality(EndedOf(i, c))

(* A Set is for one channel, whatever the Map says of it meanwhile. *)
OneChannelPerSet ==
  /\ \A s \in Joined : /\ SubscribeKey(subState[s].req) # NoKey
                       /\ ~InvalidContextOverrides(subState[s].req.overrides)
  /\ \A s, t \in Joined : subState[s].set = subState[t].set =>
       SubscribeKey(subState[s].req) = SubscribeKey(subState[t].req)
  /\ \A k \in DOMAIN subscribers :
       /\ subscribers[k] \in 1..Len(sets)
       /\ \A s \in Joined : subState[s].set = subscribers[k] => SubscribeKey(subState[s].req) = k

(* A subscription none ended for it has its entry. *)
Entered ==
  \A s \in Subscriptions : subState[s].at = "live" /\ ~Silenced(s) =>
    \E n \in 1..Len(sets[subState[s].set]) :
      /\ sets[subState[s].set][n].live
      /\ sets[subState[s].set][n].cb = subState[s].req.callback

MembersHold == /\ \A i \in 1..Len(sets) : SetHolds(i)
               /\ OneChannelPerSet /\ Entered

(* A loop of publish is its publication's only one; it called a callback at most once for
   each entry it passed, and at least once if one it passed is live. *)
LoopHolds(k) ==
  LET f == stack[k] IN
  f.call = "publish" =>
    /\ f.pub \in Publications /\ pubState[f.pub].at = "delivering"
    /\ pubState[f.pub].set = f.set
    /\ \A j \in 1..Len(stack) : stack[j].call = "publish" /\ stack[j].pub = f.pub => j = k
    /\ f.set # NotASet =>
         /\ f.next \in 1..Len(sets[f.set]) + 1
         /\ \A c \in Callbacks :
              heard[c][f.pub] <= Cardinality({n \in 1..f.next - 1 : sets[f.set][n].cb = c})
         /\ \A n \in 1..f.next - 1 :
              sets[f.set][n].live => heard[sets[f.set][n].cb][f.pub] >= 1

(* A publication was heard no more often than its Set has entries, and goes to the Set of
   its own channel. *)
ToldHolds(p) ==
  /\ p \notin Published => \A c \in Callbacks : heard[c][p] = 0
  /\ p \in Published =>
       /\ pubState[p].set = NotASet => \A c \in Callbacks : heard[c][p] = 0
       /\ pubState[p].set # NotASet => \A c \in Callbacks :
            heard[c][p] <= Cardinality(EntriesOf(pubState[p].set, c))
       /\ \A s \in Joined : subState[s].set = pubState[p].set =>
            SubscribeKey(subState[s].req) = PublishKey(pubState[p].req)
       /\ ~InvalidContextOverrides(pubState[p].req.overrides)
          \/ pubState[p].req.api \in {"publishGlobal", "publishGlobalFromBridge"}

TellingHolds == /\ \A k \in 1..Len(stack) : LoopHolds(k)
                /\ \A p \in Publications : ToldHolds(p)

DeliveryInv == RealtimeTyped /\ StackTyped /\ MembersHold /\ TellingHolds

(* A publication and a subscription that share a key are ones the documentation pairs. *)
LEMMA KeysMeet ==
  ASSUME NEW p \in Publications, NEW r \in PublishRequests[p],
         NEW s \in Subscriptions, NEW q \in SubscribeRequests[s],
         PublishKey(r) = SubscribeKey(q), SubscribeKey(q) # NoKey,
         ~InvalidContextOverrides(q.overrides),
         \/ ~InvalidContextOverrides(r.overrides)
         \/ r.api \in {"publishGlobal", "publishGlobalFromBridge"}
  PROVE  Meet(r, q)
<1>. DEFINE Plain(x) == ScopedChannelKey(x.module, x.channel, x.overrides, ClaimsOf(x.token), x.place)
            Named(x) == x.overrides.kind = "array" /\ x.overrides.names # {}
            Global(x) == GlobalChannelKey(x.channel, ClaimsOf(x.token))
<1>1. /\ r.api \in {"publish", "publishGlobal", "publishFromBridge", "publishGlobalFromBridge"}
      /\ r.module # "" /\ r.place = [n \in DOMAIN r.place |-> r.place[n]]
      /\ r.overrides.kind \in {"none", "array", "other"}
      /\ q.api \in {"subscribe", "subscribeGlobal"}
      /\ q.module # "" /\ q.place = [n \in DOMAIN q.place |-> q.place[n]]
  BY RealtimeAssumption
<1>2. \/ OnGlobalPlane(r) /\ PublishKey(r) = Global(r)
      \/ ~OnGlobalPlane(r) /\ PublishKey(r) = Plain(r)
         /\ (r.module # NoModule \/ r.overrides.kind # "none")
  BY <1>1 DEF PublishKey, ChannelKeyFor, OnGlobalPlane, IsGlobalByEmptyOverrides
<1>3. \/ OnGlobalPlane(q) /\ SubscribeKey(q) = Global(q)
      \/ ~OnGlobalPlane(q) /\ SubscribeKey(q) = Plain(q)
         /\ (q.module # NoModule \/ q.overrides.kind # "none")
  BY <1>1 DEF SubscribeKey, ChannelKeyFor, OnGlobalPlane, IsGlobalByEmptyOverrides
<1>4. \A x : /\ Global(x).plane = "global" /\ Global(x).channel = x.channel
             /\ Global(x).claims = ClaimsOf(x.token)
             /\ Plain(x).plane = "scoped" /\ Plain(x).channel = x.channel
             /\ Plain(x).claims = ClaimsOf(x.token)
             /\ Named(x) => Plain(x).module = ""
                            /\ Plain(x).context = OverridesSegment(x.overrides.names, x.place)
             /\ ~Named(x) => Plain(x).module = x.module
                             /\ Plain(x).context = ProductContextIds(x.place)
  BY DEF GlobalChannelKey, ScopedChannelKey
<1>5. CASE OnGlobalPlane(r)
  <2>1. OnGlobalPlane(q)
    BY <1>2, <1>3, <1>4, <1>5
  <2>2. PublishKey(r) = Global(r) /\ SubscribeKey(q) = Global(q)
    BY <1>2, <1>3, <1>5, <2>1
  <2>3. r.channel = q.channel /\ ClaimsOf(r.token) = ClaimsOf(q.token)
    <3>. HIDE DEF Global
    <3>. QED
      BY <1>4, <2>2
  <2>. QED
    BY <1>5, <2>1, <2>3 DEF Meet
<1>6. CASE ~OnGlobalPlane(r)
  <2>1. ~OnGlobalPlane(q) /\ PublishKey(r) = Plain(r) /\ SubscribeKey(q) = Plain(q)
    BY <1>2, <1>3, <1>4, <1>6
  <2>2. /\ r.channel = q.channel /\ ClaimsOf(r.token) = ClaimsOf(q.token)
        /\ Plain(r).module = Plain(q).module /\ Plain(r).context = Plain(q).context
    BY <1>4, <2>1
  <2>3. (Named(r) <=> Overrides(r)) /\ (Named(q) <=> Overrides(q))
    BY <1>6, <2>1 DEF Overrides, OnGlobalPlane
  <2>. HIDE DEF Plain
  <2>4. CASE Named(r)
    <3>1. Named(q)
      BY <1>1, <1>4, <2>2, <2>4
    <3>2. OverridesSegment(r.overrides.names, r.place) = OverridesSegment(q.overrides.names, q.place)
      BY <1>4, <2>2, <2>4, <3>1
    <3>3. \A n \in r.overrides.names : n \in q.overrides.names /\ IdAt(r, n) = IdAt(q, n)
      <4>1. TAKE n \in r.overrides.names
      <4>2. <<n, IdAt(r, n)>> \in OverridesSegment(q.overrides.names, q.place)
        BY <3>2 DEF OverridesSegment, IdAt
      <4>. QED
        BY <4>2 DEF OverridesSegment, IdAt
    <3>4. \A n \in q.overrides.names : n \in r.overrides.names
      <4>1. TAKE n \in q.overrides.names
      <4>2. <<n, IdAt(q, n)>> \in OverridesSegment(r.overrides.names, r.place)
        BY <3>2 DEF OverridesSegment, IdAt
      <4>. QED
        BY <4>2 DEF OverridesSegment
    <3>. QED
      BY <2>2, <2>3, <2>4, <3>1, <3>3, <3>4 DEF Meet
  <2>5. CASE ~Named(r)
    <3>1. ~Named(q)
      BY <1>1, <1>4, <2>2, <2>5
    <3>2. ProductContextIds(r.place) = ProductContextIds(q.place) /\ r.module = q.module
      BY <1>4, <2>2, <2>5, <3>1
    <3>3. \A n \in DOMAIN r.place : n \in DOMAIN q.place /\ r.place[n] = q.place[n]
      <4>1. TAKE n \in DOMAIN r.place
      <4>2. <<n, r.place[n]>> \in ProductContextIds(q.place)
        BY <3>2 DEF ProductContextIds
      <4>. QED
        BY <4>2 DEF ProductContextIds
    <3>4. \A n \in DOMAIN q.place : n \in DOMAIN r.place
      <4>1. TAKE n \in DOMAIN q.place
      <4>2. <<n, q.place[n]>> \in ProductContextIds(r.place)
        BY <3>2 DEF ProductContextIds
      <4>. QED
        BY <4>2 DEF ProductContextIds
    <3>5. r.place = q.place
      <4>1. DOMAIN r.place = DOMAIN q.place
        BY <3>3, <3>4
      <4>. QED
        BY <1>1, <3>3, <4>1
    <3>6. r.module # NoModule
      <4>1. ~InvalidContextOverrides(r.overrides)
        BY <1>6 DEF OnGlobalPlane
      <4>2. r.overrides.kind = "none"
        BY <1>1, <1>6, <2>5, <4>1 DEF OnGlobalPlane, InvalidContextOverrides
      <4>. QED
        BY <1>2, <1>6, <4>2
    <3>7. ~Overrides(r) /\ ~Overrides(q)
      BY <2>3, <2>5, <3>1
    <3>. HIDE DEF Named
    <3>. QED
      BY <1>6, <2>1, <2>2, <3>2, <3>5, <3>6, <3>7 DEF Meet
  <2>. QED
    BY <2>4, <2>5
<1>. QED
  BY <1>5, <1>6

(* The least number of a set of them. *)
LEMMA FirstPlace ==
  ASSUME NEW n \in Nat, NEW S \in SUBSET (1..n), S # {}
  PROVE  \E i \in S : \A j \in S : i <= j
<1>. DEFINE T == {1..i : i \in S}
<1>1. T \subseteq FiniteSubsetsOf(1..n) /\ T # {}
  <2>1. IsFiniteSet(1..n)
    BY FS_Interval
  <2>2. FiniteSubsetsOf(1..n) = SUBSET (1..n)
    BY <2>1, FS_FiniteSubsetsOfFinite
  <2>3. \A i \in S : (1..i) \in SUBSET (1..n)
    OBVIOUS
  <2>4. \A x \in T : x \in FiniteSubsetsOf(1..n)
    BY <2>2, <2>3, Zenon
  <2>5. T # {}
    BY Zenon
  <2>. QED
    BY <2>4, <2>5, Zenon
<1>2. PICK m \in T : \A k \in T : <<k, m>> \notin StrictSubsetOrdering(1..n)
  <2>. HIDE DEF T
  <2>. QED
    BY <1>1, FS_StrictSubsetOrderingWellFounded, WFMin
<1>3. PICK i \in S : m = 1..i
  OBVIOUS
<1>4. ASSUME NEW j \in S, ~(i <= j) PROVE FALSE
  <2>1. i \in 1..n /\ j \in 1..n /\ j < i
    BY <1>4
  <2>2. (1..j) \subseteq (1..i) /\ i \in 1..i /\ i \notin 1..j
    BY <2>1
  <2>3. <<1..j, 1..i>> \in StrictSubsetOrdering(1..n)
    BY <2>1, <2>2 DEF StrictSubsetOrdering
  <2>4. 1..j \in T
    OBVIOUS
  <2>. QED
    BY <1>2, <1>3, <2>3, <2>4
<1>. QED
  BY <1>4

(* When the iterator yields nothing, nothing that it has not passed is live. *)
LEMMA IteratorEnds ==
  ASSUME NEW set \in Seq(Entry), NEW from \in Nat \ {0}, NextEntry(set, from) = {}
  PROVE  \A n \in from..Len(set) : ~set[n].live
<1>. DEFINE S == {n \in from..Len(set) : set[n].live}
<1>1. SUFFICES ASSUME S # {} PROVE FALSE
  OBVIOUS
<1>2. Len(set) \in Nat /\ S \in SUBSET (1..Len(set))
  OBVIOUS
<1>3. PICK n \in S : \A m \in S : n <= m
  BY <1>1, <1>2, FirstPlace
<1>4. \A m \in from..n - 1 : m \notin S
  BY <1>2, <1>3
<1>5. n \in NextEntry(set, from)
  BY <1>2, <1>3, <1>4 DEF NextEntry
<1>. QED
  BY <1>5

(* A callback joins a Set it is not in, behind the others. *)
Added(set, c, new) ==
  /\ new \in Seq(Entry)
  /\ Len(new) = Len(set) \/ Len(new) = Len(set) + 1
  /\ \A n \in 1..Len(set) : new[n] = set[n]
  /\ Len(new) = Len(set) + 1 => /\ new[Len(new)] = [cb |-> c, live |-> TRUE]
                                /\ \A n \in 1..Len(set) : set[n].live => set[n].cb # c
  /\ \E n \in 1..Len(new) : new[n].live /\ new[n].cb = c

LEMMA SetAdds ==
  ASSUME NEW set \in Seq(Entry), NEW c \in Callbacks, NEW new, new = AddTo(set, c)
  PROVE  Added(set, c, new)
<1>. USE DEF Added
<1>0. DOMAIN set = 1..Len(set) /\ Len(set) \in Nat
  OBVIOUS
<1>1. CASE Holds(set, c)
  <2>1. new = set
    BY <1>1 DEF AddTo
  <2>2. \E n \in 1..Len(set) : set[n].live /\ set[n].cb = c
    BY <1>0, <1>1 DEF Holds
  <2>3. PICK k \in Nat : k = Len(set)
    BY <1>0
  <2>. QED
    BY <2>1, <2>2, <2>3
<1>2. CASE ~Holds(set, c)
  <2>. DEFINE e == [cb |-> c, live |-> TRUE]
  <2>1. e \in Entry /\ e.cb = c /\ e.live
    BY DEF Entry
  <2>2. new = Append(set, e)
    BY <1>2 DEF AddTo
  <2>3. \A n \in 1..Len(set) : set[n].live => set[n].cb # c
    BY <1>0, <1>2 DEF Holds
  <2>. HIDE DEF e
  <2>4. /\ new \in Seq(Entry) /\ Len(new) = Len(set) + 1 /\ new[Len(set) + 1] = e
        /\ \A n \in 1..Len(set) : new[n] = set[n]
    BY <2>1, <2>2, AppendProperties
  <2>. QED
    BY <1>0, <2>1, <2>3, <2>4 DEF e
<1>. QED
  BY <1>1, <1>2

(* A callback leaves a Set: its entries die where they are. *)
LEMMA SetDeletes ==
  ASSUME NEW set \in Seq(Entry), NEW c \in Callbacks, NEW new, new = DeleteFrom(set, c)
  PROVE  /\ new \in Seq(Entry) /\ Len(new) = Len(set)
         /\ \A n \in 1..Len(set) : /\ new[n].cb = set[n].cb
                                   /\ set[n].cb = c => ~new[n].live
                                   /\ set[n].cb # c => new[n].live = set[n].live
<1>1. DOMAIN set = 1..Len(set) /\ Len(set) \in Nat
  OBVIOUS
<1>2. \A e \in Entry : /\ [e EXCEPT !.live = FALSE] \in Entry
                       /\ [e EXCEPT !.live = FALSE].cb = e.cb
                       /\ ~[e EXCEPT !.live = FALSE].live
  BY Zenon DEF Entry
<1>3. \A n \in 1..Len(set) : set[n] \in Entry
  OBVIOUS
<1>4. \A n \in 1..Len(set) :
        new[n] = IF set[n].cb = c THEN [set[n] EXCEPT !.live = FALSE] ELSE set[n]
  BY <1>1 DEF DeleteFrom
<1>5. \A n \in 1..Len(set) : /\ new[n] \in Entry /\ new[n].cb = set[n].cb
                             /\ set[n].cb = c => ~new[n].live
                             /\ set[n].cb # c => new[n].live = set[n].live
  BY <1>2, <1>3, <1>4
<1>6. DOMAIN new = 1..Len(set)
  BY <1>1 DEF DeleteFrom
<1>7. new = [n \in 1..Len(set) |-> new[n]]
  BY <1>1, <1>4 DEF DeleteFrom
<1>8. new \in Seq(Entry) /\ Len(new) = Len(set)
  BY <1>1, <1>5, <1>6, <1>7
<1>. QED
  BY <1>5, <1>8

(* An entry of a Set is one of a callback. *)
LEMMA EntryIs ==
  ASSUME RealtimeTyped, NEW i \in 1..Len(sets), NEW n \in 1..Len(sets[i])
  PROVE  /\ sets[i] \in Seq(Entry) /\ Len(sets[i]) \in Nat /\ Len(sets) \in Nat
         /\ sets[i][n] \in Entry /\ sets[i][n].cb \in Callbacks
<1>1. sets \in Seq(Seq(Entry))
  BY DEF RealtimeTyped
<1>2. sets[i] \in Seq(Entry) /\ Len(sets) \in Nat
  BY <1>1
<1>3. sets[i][n] \in Entry /\ Len(sets[i]) \in Nat
  BY <1>2
<1>. QED
  BY <1>2, <1>3 DEF Entry

(* Where a loop of publish stands. *)
LEMMA LoopStands ==
  ASSUME RealtimeTyped, TellingHolds, NEW k \in 1..Len(stack), stack[k].call = "publish",
         NEW p, p = stack[k].pub, NEW i, i = stack[k].set, NEW next, next = stack[k].next
  PROVE  /\ p \in Published /\ pubState[p].at = "delivering" /\ pubState[p].set = i
         /\ i # NotASet => /\ i \in 1..Len(sets)
                           /\ sets[i] \in Seq(Entry) /\ Len(sets[i]) \in Nat
                           /\ next \in 1..Len(sets[i]) + 1
                           /\ \A m \in 1..next - 1 : /\ m \in 1..Len(sets[i])
                                                     /\ sets[i][m].cb \in Callbacks
<1>1. LoopHolds(k)
  BY DEF TellingHolds
<1>2. p \in Published /\ pubState[p].at = "delivering" /\ pubState[p].set = i
  BY <1>1 DEF LoopHolds, Published
<1>3. pubState[p] \in TellRecord /\ pubState[p].set <= Len(sets)
  BY <1>2 DEF RealtimeTyped
<1>4. sets \in Seq(Seq(Entry)) /\ Len(sets) \in Nat
  BY DEF RealtimeTyped
<1>5. ASSUME i # NotASet
      PROVE  /\ i \in 1..Len(sets)
             /\ sets[i] \in Seq(Entry) /\ Len(sets[i]) \in Nat
             /\ next \in 1..Len(sets[i]) + 1
             /\ \A m \in 1..next - 1 : /\ m \in 1..Len(sets[i])
                                       /\ sets[i][m].cb \in Callbacks
  <2>1. i \in Nat
    BY <1>2, <1>3 DEF TellRecord
  <2>2. i \in 1..Len(sets)
    BY <1>2, <1>3, <1>4, <1>5, <2>1 DEF NotASet
  <2>3. sets[i] \in Seq(Entry) /\ Len(sets[i]) \in Nat
    BY <1>4, <2>2
  <2>4. next \in 1..Len(sets[i]) + 1
    BY <1>1, <1>5 DEF LoopHolds
  <2>5. ASSUME NEW m \in 1..next - 1
        PROVE  m \in 1..Len(sets[i]) /\ sets[i][m].cb \in Callbacks
    <3>1. m \in 1..Len(sets[i])
      BY <2>3, <2>4
    <3>. QED
      BY <2>2, <3>1, EntryIs
  <2>. QED
    BY <2>2, <2>3, <2>4, <2>5
<1>. QED
  BY <1>2, <1>5

(* A call comes on top of those in progress. *)
LEMMA CallComes ==
  ASSUME StackTyped, NEW f, FrameShape(f), stack' = Push(f)
  PROVE  /\ StackTyped' /\ Len(stack) \in Nat /\ Len(stack') = Len(stack) + 1
         /\ stack'[Len(stack) + 1] = f
         /\ \A k \in 1..Len(stack) : stack'[k] = stack[k]
<1>. DEFINE S == {stack[k] : k \in DOMAIN stack} \cup {f}
<1>1. stack \in Seq(S)
  BY SeqMonotonic DEF StackTyped
<1>2. f \in S
  OBVIOUS
<1>. HIDE DEF S
<1>3. /\ stack' \in Seq(S) /\ Len(stack) \in Nat /\ Len(stack') = Len(stack) + 1
      /\ stack'[Len(stack) + 1] = f /\ \A k \in 1..Len(stack) : stack'[k] = stack[k]
  BY <1>1, <1>2, AppendProperties DEF Push
<1>4. stack' \in Seq({stack'[k] : k \in DOMAIN stack'})
  BY <1>3
<1>5. \A k \in 1..Len(stack') : FrameShape(stack'[k])
  <2>1. TAKE k \in 1..Len(stack')
  <2>2. stack'[k] = f \/ (k \in 1..Len(stack) /\ stack'[k] = stack[k])
    BY <1>3
  <2>. QED
    BY <2>2 DEF StackTyped
<1>. QED
  BY <1>3, <1>4, <1>5 DEF StackTyped

(* The innermost call moves on. *)
LEMMA CallChanges ==
  ASSUME StackTyped, stack # <<>>, NEW f, FrameShape(f), stack' = SetTop(f)
  PROVE  /\ StackTyped' /\ Len(stack) \in Nat \ {0} /\ Len(stack') = Len(stack)
         /\ stack'[Len(stack)] = f
         /\ \A k \in 1..Len(stack) : k # Len(stack) => stack'[k] = stack[k]
<1>. DEFINE S == {stack[k] : k \in DOMAIN stack} \cup {f}
<1>1. stack \in Seq(S)
  BY SeqMonotonic DEF StackTyped
<1>2. f \in S
  OBVIOUS
<1>. HIDE DEF S
<1>3. Len(stack) \in Nat \ {0}
  BY <1>1, EmptySeq
<1>4. /\ stack' \in Seq(S) /\ Len(stack') = Len(stack) /\ stack'[Len(stack)] = f
      /\ \A k \in 1..Len(stack) : k # Len(stack) => stack'[k] = stack[k]
  BY <1>1, <1>2, <1>3, ExceptSeq DEF SetTop
<1>5. stack' \in Seq({stack'[k] : k \in DOMAIN stack'})
  BY <1>4
<1>6. \A k \in 1..Len(stack') : FrameShape(stack'[k])
  BY <1>3, <1>4 DEF StackTyped
<1>. QED
  BY <1>3, <1>4, <1>5, <1>6 DEF StackTyped

(* The innermost call returns. *)
LEMMA CallEnds ==
  ASSUME StackTyped, stack # <<>>, stack' = Pop
  PROVE  /\ StackTyped' /\ Len(stack) \in Nat \ {0} /\ Len(stack') = Len(stack) - 1
         /\ \A k \in 1..Len(stack') : stack'[k] = stack[k]
<1>. DEFINE S == {stack[k] : k \in DOMAIN stack}
<1>1. stack \in Seq(S)
  BY DEF StackTyped
<1>2. Len(stack) \in Nat \ {0}
  BY <1>1, EmptySeq
<1>. HIDE DEF S
<1>3. /\ stack' \in Seq(S) /\ Len(stack') = Len(stack) - 1
      /\ \A k \in 1..Len(stack') : stack'[k] = stack[k]
  <2>1. \A k \in 1..Len(stack) - 1 : stack[k] \in S
    BY <1>1, <1>2
  <2>2. PICK n \in Nat : n = Len(stack) - 1
    BY <1>2
  <2>3. /\ SubSeq(stack, 1, n) \in Seq(S)
        /\ Len(SubSeq(stack, 1, n)) = IF 1 <= n THEN n - 1 + 1 ELSE 0
        /\ \A k \in 1..n - 1 + 1 : SubSeq(stack, 1, n)[k] = stack[1 + k - 1]
    BY <2>1, <2>2, SubSeqProperties
  <2>4. \A k \in 1..n : k \in 1..n - 1 + 1 /\ 1 + k - 1 = k
    BY <2>2
  <2>5. Len(SubSeq(stack, 1, n)) = n
    BY <2>2, <2>3
  <2>. QED
    BY <2>2, <2>3, <2>4, <2>5 DEF Pop
<1>4. stack' \in Seq({stack'[k] : k \in DOMAIN stack'})
  BY <1>3
<1>5. \A k \in 1..Len(stack') : FrameShape(stack'[k])
  BY <1>2, <1>3 DEF StackTyped
<1>. QED
  BY <1>2, <1>3, <1>4, <1>5 DEF StackTyped

(* Sets only grow: entries stay where they are and do not come alive again. *)
SetsGrow ==
  /\ Len(sets) <= Len(sets') /\ Len(sets) \in Nat /\ Len(sets') \in Nat
  /\ \A i \in 1..Len(sets) :
       /\ Len(sets[i]) <= Len(sets'[i]) /\ Len(sets[i]) \in Nat /\ Len(sets'[i]) \in Nat
       /\ \A n \in 1..Len(sets[i]) : /\ sets'[i][n].cb = sets[i][n].cb
                                     /\ sets'[i][n].live => sets[i][n].live

(* Whoever joins a Set that there was is of the channel of one who had joined it. *)
ChannelsKept ==
  \A s \in Joined' : subState'[s].set <= Len(sets) =>
    \E t \in Joined : /\ subState[t].set = subState'[s].set
                      /\ SubscribeKey(subState[t].req) = SubscribeKey(subState'[s].req)

(* The loops of publish go on where they were. *)
LoopsKept ==
  \A k \in 1..Len(stack') : stack'[k].call = "publish" =>
    /\ k \in 1..Len(stack) /\ stack[k].call = "publish"
    /\ stack'[k].pub = stack[k].pub /\ stack'[k].set = stack[k].set
    /\ stack'[k].next = stack[k].next

(* What a callback was told counts against a Set that has not shrunk. *)
LEMMA CountsGrow ==
  ASSUME SetsGrow, NEW i \in 1..Len(sets), NEW c
  PROVE  /\ IsFiniteSet(EntriesOf(i, c)') /\ Cardinality(EntriesOf(i, c)') \in Nat
         /\ Cardinality(EntriesOf(i, c)) \in Nat
         /\ Cardinality(EntriesOf(i, c)) <= Cardinality(EntriesOf(i, c)')
<1>. DEFINE new == {n \in 1..Len(sets'[i]) : sets'[i][n].cb = c}
<1>0. EntriesOf(i, c)' = new
  BY DEF EntriesOf
<1>1. new \subseteq 1..Len(sets'[i]) /\ IsFiniteSet(1..Len(sets'[i]))
  <2>1. Len(sets'[i]) \in Int
    BY DEF SetsGrow
  <2>. QED
    BY <2>1, FS_Interval
<1>2. EntriesOf(i, c) \subseteq new
  BY DEF SetsGrow, EntriesOf
<1>. HIDE DEF new
<1>3. IsFiniteSet(new)
  BY <1>1, FS_Subset
<1>. QED
  BY <1>0, <1>2, <1>3, FS_Subset, FS_CardinalityType

(* What callbacks were told stands while Sets grow and loops stay. *)
LEMMA TellingKept ==
  ASSUME RealtimeTyped, TellingHolds, SetsGrow, ChannelsKept, LoopsKept,
         UNCHANGED heard, Published' = Published,
         \A p \in Published : pubState'[p] = pubState[p]
  PROVE  TellingHolds'
<1>1. ASSUME NEW k \in 1..Len(stack') PROVE LoopHolds(k)'
  <2>1. SUFFICES ASSUME stack'[k].call = "publish" PROVE LoopHolds(k)'
    BY DEF LoopHolds
  <2>2. /\ k \in 1..Len(stack) /\ stack[k].call = "publish"
        /\ stack'[k].pub = stack[k].pub /\ stack'[k].set = stack[k].set
        /\ stack'[k].next = stack[k].next
    BY <2>1 DEF LoopsKept
  <2>3. LoopHolds(k)
    BY <2>2 DEF TellingHolds
  <2>10. PICK p : p = stack[k].pub
    OBVIOUS
  <2>11. PICK i : i = stack[k].set
    OBVIOUS
  <2>12. PICK next : next = stack[k].next
    OBVIOUS
  <2>4. p \in Publications /\ pubState[p].at = "delivering" /\ pubState[p].set = i
    BY <2>2, <2>3, <2>10, <2>11 DEF LoopHolds
  <2>5. p \in Published /\ pubState'[p] = pubState[p]
    BY <2>4 DEF Published
  <2>6. \A j \in 1..Len(stack') : stack'[j].call = "publish" /\ stack'[j].pub = p => j = k
    BY <2>2, <2>3, <2>10 DEF LoopsKept, LoopHolds
  <2>7. ASSUME i # NotASet
        PROVE  /\ next \in 1..Len(sets'[i]) + 1
               /\ \A c \in Callbacks :
                    heard'[c][p] <= Cardinality({n \in 1..next - 1 : sets'[i][n].cb = c})
               /\ \A n \in 1..next - 1 :
                    sets'[i][n].live => heard'[sets'[i][n].cb][p] >= 1
    <3>1. i \in 1..Len(sets)
      <4>1. pubState[p] \in TellRecord /\ i <= Len(sets)
        BY <2>4, <2>5 DEF RealtimeTyped
      <4>2. i \in Nat
        BY <2>4, <4>1 DEF TellRecord
      <4>. QED
        BY <2>7, <4>1, <4>2 DEF NotASet, SetsGrow
    <3>2. next \in 1..Len(sets[i]) + 1
      BY <2>2, <2>3, <2>7, <2>11, <2>12 DEF LoopHolds
    <3>3. \A n \in 1..next - 1 : /\ n \in 1..Len(sets[i]) /\ sets'[i][n].cb = sets[i][n].cb
                                 /\ sets'[i][n].live => sets[i][n].live
      BY <3>1, <3>2 DEF SetsGrow
    <3>4. next \in 1..Len(sets'[i]) + 1
      BY <3>1, <3>2 DEF SetsGrow
    <3>5. ASSUME NEW c \in Callbacks
          PROVE  heard'[c][p] <= Cardinality({n \in 1..next - 1 : sets'[i][n].cb = c})
      <4>1. {n \in 1..next - 1 : sets'[i][n].cb = c} = {n \in 1..next - 1 : sets[i][n].cb = c}
        BY <3>3
      <4>2. heard[c][p] <= Cardinality({n \in 1..next - 1 : sets[i][n].cb = c})
        BY <2>2, <2>3, <2>7, <2>10, <2>11, <2>12 DEF LoopHolds
      <4>. QED
        BY <4>1, <4>2
    <3>6. \A n \in 1..next - 1 : sets[i][n].live => heard[sets[i][n].cb][p] >= 1
      BY <2>2, <2>3, <2>7, <2>10, <2>11, <2>12 DEF LoopHolds
    <3>7. \A n \in 1..next - 1 : sets'[i][n].live => heard'[sets'[i][n].cb][p] >= 1
      BY <3>3, <3>6
    <3>. QED
      BY <3>4, <3>5, <3>7
  <2>8. pubState'[p].at = "delivering" /\ pubState'[p].set = i
    BY <2>4, <2>5
  <2>9. /\ stack'[k].pub = p /\ stack'[k].set = i /\ stack'[k].next = next
    BY <2>2, <2>10, <2>11, <2>12
  <2>. QED
    BY <2>1, <2>4, <2>6, <2>7, <2>8, <2>9 DEF LoopHolds
<1>2. ASSUME NEW p \in Publications PROVE ToldHolds(p)'
  <2>1. ToldHolds(p)
    BY DEF TellingHolds
  <2>2. CASE p \notin Published
    BY <2>1, <2>2 DEF ToldHolds
  <2>3. CASE p \in Published
    <3>0. PICK i : i = pubState[p].set
      OBVIOUS
    <3>1. p \in Published' /\ pubState'[p] = pubState[p]
      BY <2>3
    <3>2. i \in Nat /\ i <= Len(sets)
      BY <2>3, <3>0 DEF RealtimeTyped, TellRecord
    <3>3. ASSUME i # NotASet, NEW c \in Callbacks
          PROVE  heard'[c][p] <= Cardinality(EntriesOf(i, c)')
      <4>1. i \in 1..Len(sets)
        BY <3>2, <3>3 DEF NotASet, SetsGrow
      <4>2. heard[c][p] <= Cardinality(EntriesOf(i, c)) /\ heard[c][p] \in Nat
        BY <2>1, <2>3, <3>0, <3>3 DEF ToldHolds, RealtimeTyped
      <4>3. /\ Cardinality(EntriesOf(i, c)') \in Nat /\ Cardinality(EntriesOf(i, c)) \in Nat
            /\ Cardinality(EntriesOf(i, c)) <= Cardinality(EntriesOf(i, c)')
        BY <4>1, CountsGrow
      <4>. QED
        BY <4>2, <4>3
    <3>4. ASSUME NEW s \in Joined', subState'[s].set = i
          PROVE  SubscribeKey(subState'[s].req) = PublishKey(pubState[p].req)
      <4>1. PICK t \in Joined : /\ subState[t].set = i
                                /\ SubscribeKey(subState[t].req) = SubscribeKey(subState'[s].req)
        BY <3>2, <3>4 DEF ChannelsKept
      <4>. QED
        BY <2>1, <2>3, <3>0, <4>1 DEF ToldHolds
    <3>5. /\ i = NotASet => \A c \in Callbacks : heard'[c][p] = 0
          /\ \/ ~InvalidContextOverrides(pubState[p].req.overrides)
             \/ pubState[p].req.api \in {"publishGlobal", "publishGlobalFromBridge"}
      BY <2>1, <2>3, <3>0 DEF ToldHolds
    <3>6. \A c \in Callbacks : EntriesOf(pubState[p].set, c)' = EntriesOf(i, c)'
      BY <3>0, <3>1 DEF EntriesOf
    <3>. HIDE DEF EntriesOf
    <3>. QED
      BY <3>0, <3>1, <3>3, <3>4, <3>5, <3>6 DEF ToldHolds
  <2>. QED
    BY <2>2, <2>3
<1>. QED
  BY <1>1, <1>2 DEF TellingHolds

(* A step that touches no Set and no subscription. *)
LEMMA MembersRest ==
  ASSUME RealtimeTyped, MembersHold, UNCHANGED <<subscribers, sets, subState>>
  PROVE  /\ MembersHold' /\ SetsGrow /\ ChannelsKept
<1>1. MembersHold'
  BY DEF MembersHold, SetHolds, OneChannelPerSet, Entered, Silenced, DeadOf, EndedOf, Joined
<1>2. SetsGrow
  <2>1. \A i \in 1..Len(sets) : sets[i] \in Seq(Entry)
    BY DEF RealtimeTyped
  <2>2. Len(sets) \in Nat
    BY DEF RealtimeTyped
  <2>. QED
    BY <2>1, <2>2 DEF SetsGrow
<1>3. ChannelsKept
  BY DEF ChannelsKept, Joined
<1>. QED
  BY <1>1, <1>2, <1>3

(* Each call of publish calls its subscribers once and goes to its own channel. *)
LEMMA PublishHolds ==
  ASSUME DeliveryInv, NEW p \in Publications, Publish(p)
  PROVE  DeliveryInv'
<1>. USE DEF DeliveryInv
<1>1. PICK r, set :
        /\ r \in PublishRequests[p] /\ set = SetAt(PublishKey(r)) /\ PublishAllowed(r)
        /\ pubState' = [pubState EXCEPT ![p] =
             [at |-> "delivering", req |-> r, set |-> set,
              eventId |-> set # NotASet /\ Members(sets[set]) # {}]]
        /\ stack' = Push([call |-> "publish", pub |-> p, set |-> set, next |-> 1,
                          rest |-> <<>>, cb |-> "none", running |-> FALSE])
  BY DEF Publish
<1>2. UNCHANGED <<subscribers, sets, subState, heard>> /\ pubState[p].at = "new"
  BY DEF Publish
<1>3. PICK f : f = [call |-> "publish", pub |-> p, set |-> set, next |-> 1,
                    rest |-> <<>>, cb |-> "none", running |-> FALSE]
  OBVIOUS
<1>4. FrameShape(f) /\ f.call = "publish" /\ f.pub = p /\ f.set = set /\ f.next = 1
  BY <1>3 DEF FrameShape
<1>5. /\ StackTyped' /\ Len(stack) \in Nat /\ Len(stack') = Len(stack) + 1
      /\ stack'[Len(stack) + 1] = f
      /\ \A k \in 1..Len(stack) : stack'[k] = stack[k]
  BY <1>1, <1>3, <1>4, CallComes
<1>6. MembersHold'
  BY <1>2, MembersRest
<1>7. Len(sets) \in Nat /\ set \in Nat /\ set <= Len(sets)
  <2>1. Len(sets) \in Nat
    BY DEF RealtimeTyped
  <2>. QED
    BY <1>1, <2>1 DEF SetAt, MembersHold, OneChannelPerSet, NotASet
<1>8. PICK told \in TellRecord : /\ pubState' = [pubState EXCEPT ![p] = told]
                                 /\ told.at = "delivering" /\ told.req = r /\ told.set = set
  <2>1. PICK b \in BOOLEAN : b = (set # NotASet /\ Members(sets[set]) # {})
    OBVIOUS
  <2>. DEFINE told == [at |-> "delivering", req |-> r, set |-> set, eventId |-> b]
  <2>2. told \in TellRecord /\ told.at = "delivering" /\ told.req = r /\ told.set = set
    BY <1>1, <1>7 DEF TellRecord, AskedToTell
  <2>3. pubState' = [pubState EXCEPT ![p] = told]
    BY <1>1, <2>1
  <2>. HIDE DEF told
  <2>. QED
    BY <2>2, <2>3
<1>9. /\ pubState'[p] = told /\ \A q \in Publications : q # p => pubState'[q] = pubState[q]
      /\ pubState' = [q \in Publications |-> pubState'[q]]
  BY <1>8 DEF RealtimeTyped
<1>10. p \notin Published /\ Published' = Published \cup {p}
  BY <1>2, <1>8, <1>9 DEF Published
<1>11. RealtimeTyped'
  <2>1. Joined' = Joined
    BY <1>2 DEF Joined
  <2>2. \A q \in Published' : pubState'[q] \in TellRecord /\ pubState'[q].set <= Len(sets)
    BY <1>7, <1>8, <1>9, <1>10 DEF RealtimeTyped, Published
  <2>. QED
    BY <1>2, <1>9, <2>1, <2>2 DEF RealtimeTyped
<1>12. \A k \in 1..Len(stack) : LoopHolds(k)
  BY DEF TellingHolds
<1>13. \A k \in 1..Len(stack) : stack[k].call = "publish" =>
         stack[k].pub \in Publications /\ stack[k].pub # p
  BY <1>2, <1>12 DEF LoopHolds
<1>14. \A c \in Callbacks : heard[c][p] = 0
  BY <1>10 DEF TellingHolds, ToldHolds
<1>15. ASSUME NEW k \in 1..Len(stack') PROVE LoopHolds(k)'
  <2>1. CASE k = Len(stack) + 1
    <3>1. \A j \in 1..Len(stack') : stack'[j].call = "publish" /\ stack'[j].pub = p => j = k
      BY <1>5, <1>13, <2>1
    <3>2. ASSUME set # NotASet
          PROVE  /\ f.next \in 1..Len(sets'[f.set]) + 1
                 /\ \A c \in Callbacks :
                      heard'[c][p] <= Cardinality({n \in 1..f.next - 1 : sets'[f.set][n].cb = c})
                 /\ \A n \in 1..f.next - 1 :
                      sets'[f.set][n].live => heard'[sets'[f.set][n].cb][p] >= 1
      <4>1. Len(sets[set]) \in Nat /\ f.next = 1 /\ f.set = set
        BY <1>4, <1>7, <3>2 DEF RealtimeTyped, NotASet
      <4>2. \A c : {n \in 1..f.next - 1 : sets'[f.set][n].cb = c} = {}
        BY <4>1
      <4>3. f.next \in 1..Len(sets'[f.set]) + 1
        BY <1>2, <4>1
      <4>4. \A n \in 1..f.next - 1 : FALSE
        BY <4>1
      <4>5. ASSUME NEW c \in Callbacks
            PROVE  heard'[c][p] <= Cardinality({n \in 1..f.next - 1 : sets'[f.set][n].cb = c})
        <5>1. heard'[c][p] = 0
          BY <1>2, <1>14
        <5>2. Cardinality({n \in 1..f.next - 1 : sets'[f.set][n].cb = c}) = 0
          BY <4>2, FS_EmptySet
        <5>. QED
          BY <5>1, <5>2
      <4>. QED
        BY <4>3, <4>4, <4>5
    <3>3. pubState'[p].at = "delivering" /\ pubState'[p].set = set /\ stack'[k] = f
      BY <1>5, <1>8, <1>9, <2>1
    <3>. QED
      BY <1>4, <3>1, <3>2, <3>3 DEF LoopHolds
  <2>2. CASE k \in 1..Len(stack)
    <3>1. LoopHolds(k) /\ stack'[k] = stack[k]
      BY <1>5, <1>12, <2>2
    <3>2. stack[k].call = "publish" => pubState'[stack[k].pub] = pubState[stack[k].pub]
      BY <1>9, <1>13, <2>2
    <3>3. \A j \in 1..Len(stack') : 
            stack[k].call = "publish" /\ stack'[j].call = "publish" /\ stack'[j].pub = stack[k].pub =>
              j \in 1..Len(stack) /\ stack'[j] = stack[j]
      BY <1>4, <1>5, <1>13, <2>2
    <3>. QED
      BY <1>2, <3>1, <3>2, <3>3 DEF LoopHolds
  <2>. QED
    BY <1>5, <2>1, <2>2
<1>16. ASSUME NEW q \in Publications PROVE ToldHolds(q)'
  <2>1. ToldHolds(q)
    BY DEF TellingHolds
  <2>2. CASE q # p
    <3>1. pubState'[q] = pubState[q] /\ (q \in Published' <=> q \in Published)
      BY <1>9, <1>10, <2>2
    <3>2. \A i, c : EntriesOf(i, c)' = EntriesOf(i, c)
      BY <1>2 DEF EntriesOf
    <3>3. \A c : EntriesOf(pubState[q].set, c)' = EntriesOf(pubState[q].set, c)
      BY <1>2, <3>1 DEF EntriesOf
    <3>. QED
      BY <1>2, <2>1, <3>1, <3>3 DEF ToldHolds, Joined
  <2>3. CASE q = p
    <3>1. ASSUME NEW s \in Joined, subState[s].set = set
          PROVE  SubscribeKey(subState[s].req) = PublishKey(r)
      <4>1. set # NotASet
        BY <3>1 DEF RealtimeTyped, JoinRecord, NotASet
      <4>. QED
        BY <1>1, <3>1, <4>1 DEF SetAt, MembersHold, OneChannelPerSet
    <3>2. \/ ~InvalidContextOverrides(r.overrides)
          \/ r.api \in {"publishGlobal", "publishGlobalFromBridge"}
      BY <1>1, RealtimeAssumption DEF PublishAllowed, Prevalidated
    <3>3. \A c \in Callbacks :
            set # NotASet => heard'[c][q] <= Cardinality(EntriesOf(set, c)')
      <4>1. TAKE c \in Callbacks
      <4>2. set # NotASet => set \in 1..Len(sets)
        BY <1>7 DEF NotASet
      <4>3. SetsGrow
        BY <1>2, MembersRest
      <4>. QED
        BY <1>2, <1>14, <2>3, <4>2, <4>3, CountsGrow
    <3>4. \A c : EntriesOf(pubState[q].set, c)' = EntriesOf(set, c)'
      BY <1>8, <1>9, <2>3 DEF EntriesOf
    <3>5. Joined' = Joined
      BY <1>2 DEF Joined
    <3>. HIDE DEF EntriesOf
    <3>. QED
      BY <1>2, <1>8, <1>9, <1>10, <1>14, <2>3, <3>1, <3>2, <3>3, <3>4, <3>5 DEF ToldHolds
  <2>. QED
    BY <2>2, <2>3
<1>. QED
  BY <1>5, <1>6, <1>11, <1>15, <1>16 DEF TellingHolds

(* The loop calls the next subscriber: one that is subscribed, and that it had not called
   for this entry. *)
DeliverStep ==
  \A c \in Callbacks, p \in Publications :
    heard'[c][p] # heard[c][p] =>
      \E s \in Subscriptions : /\ subState[s].at = "live"
                               /\ subState[s].req.callback = c
                               /\ Meet(pubState[p].req, subState[s].req)

LEMMA DeliverHolds ==
  ASSUME DeliveryInv, Deliver
  PROVE  DeliveryInv' /\ DeliverStep
<1>. USE DEF DeliveryInv
<1>1. PICK f : f = Last(stack)
  OBVIOUS
<1>2. /\ stack # <<>> /\ f.call = "publish" /\ f.set # NotASet
      /\ UNCHANGED <<subscribers, sets, subState, pubState>>
  BY <1>1 DEF Deliver
<1>3. PICK n \in NextEntry(sets[f.set], f.next) :
        /\ stack' = SetTop([f EXCEPT !.next = n + 1, !.running = TRUE,
                                     !.cb = sets[f.set][n].cb])
        /\ heard' = [heard EXCEPT ![sets[f.set][n].cb][f.pub] = @ + 1]
  BY <1>1 DEF Deliver
<1>4. PICK k \in 1..Len(stack) : k = Len(stack) /\ stack[k] = f
  BY <1>1, <1>2, EmptySeq DEF Last, StackTyped
<1>5. LoopHolds(k) /\ FrameShape(f)
  BY <1>4 DEF TellingHolds, StackTyped
<1>6. /\ f.pub \in Publications /\ pubState[f.pub].at = "delivering"
      /\ pubState[f.pub].set = f.set
      /\ f.next \in 1..Len(sets[f.set]) + 1
      /\ \A j \in 1..Len(stack) : stack[j].call = "publish" /\ stack[j].pub = f.pub => j = k
  BY <1>2, <1>4, <1>5 DEF LoopHolds
<1>7. f.pub \in Published /\ f.set \in 1..Len(sets)
  BY <1>2, <1>4, LoopStands
<1>8. sets[f.set] \in Seq(Entry) /\ Len(sets[f.set]) \in Nat
  BY <1>2, <1>4, LoopStands
<1>9. /\ n \in f.next..Len(sets[f.set]) /\ n \in 1..Len(sets[f.set]) /\ sets[f.set][n].live
      /\ \A m \in f.next..n - 1 : ~sets[f.set][m].live
  BY <1>6, <1>8 DEF NextEntry
<1>10. PICK c \in Callbacks : c = sets[f.set][n].cb
  BY <1>7, <1>9, EntryIs
<1>11. /\ \A d \in Callbacks, p \in Publications :
            heard'[d][p] = IF d = c /\ p = f.pub THEN heard[d][p] + 1 ELSE heard[d][p]
       /\ heard' \in [Callbacks -> [Publications -> Nat]]
  <2>1. PICK p \in Publications : p = f.pub
    BY <1>6
  <2>2. heard \in [Callbacks -> [Publications -> Nat]]
    BY DEF RealtimeTyped
  <2>3. heard' = [heard EXCEPT ![c][p] = @ + 1]
    BY <1>3, <1>10, <2>1
  <2>4. heard[c] \in [Publications -> Nat] /\ heard[c][p] + 1 \in Nat
    BY <2>2
  <2>. QED
    BY <2>1, <2>2, <2>3, <2>4
<1>12. PICK g : g = [f EXCEPT !.next = n + 1, !.running = TRUE, !.cb = c]
  OBVIOUS
<1>13. FrameShape(g) /\ g.call = "publish" /\ g.pub = f.pub /\ g.set = f.set /\ g.next = n + 1
  BY <1>2, <1>5, <1>12 DEF FrameShape
<1>14. /\ StackTyped' /\ Len(stack') = Len(stack) /\ stack'[k] = g
       /\ \A j \in 1..Len(stack) : j # k => stack'[j] = stack[j]
  BY <1>2, <1>3, <1>4, <1>10, <1>12, <1>13, CallChanges
<1>15. MembersHold' /\ SetsGrow
  BY <1>2, MembersRest
<1>16. RealtimeTyped'
  BY <1>2, <1>11 DEF RealtimeTyped, Joined, Published
<1>17. ASSUME NEW d \in Callbacks
       PROVE  heard'[d][f.pub] <= Cardinality({m \in 1..n : sets[f.set][m].cb = d})
  <2>. DEFINE old == {m \in 1..f.next - 1 : sets[f.set][m].cb = d}
              new == {m \in 1..n : sets[f.set][m].cb = d}
  <2>1. heard[d][f.pub] <= Cardinality(old) /\ heard[d][f.pub] \in Nat
    BY <1>2, <1>4, <1>5, <1>6 DEF LoopHolds, RealtimeTyped
  <2>2. IsFiniteSet(1..n)
    <3>1. n \in Int
      BY <1>8, <1>9
    <3>. QED
      BY <3>1, FS_Interval
  <2>3. old \subseteq new /\ new \subseteq 1..n /\ n \notin old
    BY <1>6, <1>9
  <2>4. d = c => n \in new
    BY <1>9, <1>10
  <2>. HIDE DEF old, new
  <2>5. IsFiniteSet(new) /\ IsFiniteSet(old) /\ Cardinality(old) <= Cardinality(new)
    BY <2>2, <2>3, FS_Subset
  <2>6. Cardinality(old) \in Nat /\ Cardinality(new) \in Nat
    BY <2>5, FS_CardinalityType
  <2>7. CASE d # c
    BY <1>6, <1>11, <2>1, <2>5, <2>6, <2>7 DEF new
  <2>8. CASE d = c
    <3>1. (old \cup {n}) \in SUBSET new
      BY <2>3, <2>4, <2>8
    <3>2. Cardinality(old \cup {n}) = Cardinality(old) + 1
      BY <2>3, <2>5, FS_AddElement
    <3>3. Cardinality(old) + 1 <= Cardinality(new)
      BY <2>5, <3>1, <3>2, FS_Subset
    <3>4. heard'[d][f.pub] = heard[d][f.pub] + 1
      BY <1>6, <1>11, <2>8
    <3>. QED
      BY <2>1, <2>6, <3>3, <3>4 DEF new
  <2>. QED
    BY <2>7, <2>8
<1>18. ASSUME NEW m \in 1..n, sets[f.set][m].live
       PROVE  heard'[sets[f.set][m].cb][f.pub] >= 1
  <2>0. m \in 1..Len(sets[f.set])
    BY <1>8, <1>9
  <2>1. PICK d \in Callbacks : d = sets[f.set][m].cb
    BY <1>7, <2>0, EntryIs
  <2>2. heard[d][f.pub] \in Nat
    BY <1>6 DEF RealtimeTyped
  <2>3. CASE m = n
    BY <1>6, <1>10, <1>11, <2>1, <2>2, <2>3
  <2>4. CASE m # n
    <3>1. m \in 1..f.next - 1
      BY <1>6, <1>9, <1>18, <2>4
    <3>2. heard[d][f.pub] >= 1
      BY <1>2, <1>4, <1>5, <1>18, <2>1, <3>1 DEF LoopHolds
    <3>3. heard'[d][f.pub] = heard[d][f.pub] \/ heard'[d][f.pub] = heard[d][f.pub] + 1
      BY <1>6, <1>11
    <3>4. \A h \in Nat : h >= 1 => h + 1 >= 1
      OBVIOUS
    <3>5. heard'[d][f.pub] >= 1
      BY <2>2, <3>2, <3>3, <3>4, Zenon
    <3>. QED
      BY <2>1, <3>5, Zenon
  <2>. QED
    BY <2>3, <2>4
<1>19. ASSUME NEW j \in 1..Len(stack') PROVE LoopHolds(j)'
  <2>1. CASE j = k
    <3>1. n + 1 - 1 = n /\ n + 1 \in 1..Len(sets[f.set]) + 1
      BY <1>8, <1>9
    <3>2. \A i \in 1..Len(stack') : stack'[i].call = "publish" /\ stack'[i].pub = f.pub => i = j
      BY <1>6, <1>14, <2>1
    <3>3. /\ stack'[j] = g /\ g.next \in 1..Len(sets'[g.set]) + 1
          /\ \A d \in Callbacks :
               heard'[d][g.pub] <= Cardinality({m \in 1..g.next - 1 : sets'[g.set][m].cb = d})
          /\ \A m \in 1..g.next - 1 :
               sets'[g.set][m].live => heard'[sets'[g.set][m].cb][g.pub] >= 1
      <4>0. g.next - 1 = n
        <5>1. n \in Int
          BY <1>8, <1>9
        <5>2. \A x \in Int : \A y : y = x + 1 => y - 1 = x
          OBVIOUS
        <5>. QED
          BY <1>13, <5>1, <5>2, Zenon
      <4>1. g.next - 1 = n /\ (1..g.next - 1) = 1..n /\ g.set = f.set /\ g.pub = f.pub
        BY <1>13, <4>0, Zenon
      <4>2. \A d : {m \in 1..g.next - 1 : sets'[g.set][m].cb = d} = {m \in 1..n : sets[f.set][m].cb = d}
        BY <1>2, <4>1
      <4>3. \A d \in Callbacks :
              heard'[d][g.pub] <= Cardinality({m \in 1..g.next - 1 : sets'[g.set][m].cb = d})
        BY <1>17, <4>1, <4>2
      <4>4. \A m \in 1..g.next - 1 :
              sets'[g.set][m].live => heard'[sets'[g.set][m].cb][g.pub] >= 1
        BY <1>2, <1>18, <4>1
      <4>5. g.next \in 1..Len(sets'[g.set]) + 1
        BY <1>2, <1>13, <3>1, <4>1
      <4>. QED
        BY <1>14, <2>1, <4>3, <4>4, <4>5
    <3>. QED
      BY <1>2, <1>6, <1>13, <3>2, <3>3 DEF LoopHolds
  <2>2. CASE j # k
    <3>1. j \in 1..Len(stack) /\ stack'[j] = stack[j] /\ LoopHolds(j)
      BY <1>14, <2>2 DEF TellingHolds
    <3>2. SUFFICES ASSUME stack[j].call = "publish" PROVE LoopHolds(j)'
      BY <3>1 DEF LoopHolds
    <3>3. stack[j].pub # f.pub /\ stack[j].pub \in Publications
      BY <1>6, <2>2, <3>1, <3>2 DEF LoopHolds
    <3>4. \A i \in 1..Len(stack') : stack'[i].call = "publish" /\ stack'[i].pub = stack[j].pub =>
                                      stack[i].call = "publish" /\ stack[i].pub = stack[j].pub
      BY <1>13, <1>14, <3>3
    <3>5. \A d \in Callbacks : heard'[d][stack[j].pub] = heard[d][stack[j].pub]
      BY <1>11, <3>3
    <3>6. PICK q, i, next : q \in Publications /\ q = stack[j].pub /\ i = stack[j].set /\ next = stack[j].next
      BY <3>3
    <3>7. pubState[q].at = "delivering" /\ pubState[q].set = i
      BY <3>1, <3>2, <3>6 DEF LoopHolds
    <3>8. ASSUME i # NotASet
          PROVE  /\ next \in 1..Len(sets[i]) + 1
                 /\ \A d \in Callbacks :
                      heard'[d][q] <= Cardinality({m \in 1..next - 1 : sets[i][m].cb = d})
                 /\ \A m \in 1..next - 1 : sets[i][m].live => heard'[sets[i][m].cb][q] >= 1
      <4>1. \A m \in 1..next - 1 : sets[i][m].cb \in Callbacks
        BY <3>1, <3>2, <3>6, <3>8, LoopStands
      <4>2. /\ next \in 1..Len(sets[i]) + 1
            /\ \A d \in Callbacks :
                 heard[d][q] <= Cardinality({m \in 1..next - 1 : sets[i][m].cb = d})
            /\ \A m \in 1..next - 1 : sets[i][m].live => heard[sets[i][m].cb][q] >= 1
        BY <3>1, <3>2, <3>6, <3>8 DEF LoopHolds
      <4>3. \A d \in Callbacks : heard'[d][q] = heard[d][q]
        BY <3>5, <3>6
      <4>. QED
        BY <4>1, <4>2, <4>3
    <3>9. \A l \in 1..Len(stack') : stack'[l].call = "publish" /\ stack'[l].pub = q => l = j
      BY <1>14, <3>1, <3>2, <3>4, <3>6 DEF LoopHolds
    <3>. QED
      BY <1>2, <3>1, <3>6, <3>7, <3>8, <3>9 DEF LoopHolds
  <2>. QED
    BY <2>1, <2>2
<1>20. ASSUME NEW p \in Publications PROVE ToldHolds(p)'
  <2>1. ToldHolds(p)
    BY DEF TellingHolds
  <2>2. CASE p # f.pub
    <3>1. \A d \in Callbacks : heard'[d][p] = heard[d][p]
      BY <1>11, <2>2
    <3>2. \A d : EntriesOf(pubState[p].set, d)' = EntriesOf(pubState[p].set, d)
      BY <1>2 DEF EntriesOf
    <3>. HIDE DEF EntriesOf
    <3>. QED
      BY <1>2, <2>1, <3>1, <3>2 DEF ToldHolds, Joined, Published
  <2>3. CASE p = f.pub
    <3>1. ASSUME NEW d \in Callbacks
          PROVE  heard'[d][p] <= Cardinality(EntriesOf(f.set, d))
      <4>. DEFINE part == {m \in 1..n : sets[f.set][m].cb = d}
      <4>1. part \subseteq EntriesOf(f.set, d)
        BY <1>8, <1>9 DEF EntriesOf
      <4>2. IsFiniteSet(EntriesOf(f.set, d))
        <5>1. IsFiniteSet(1..Len(sets[f.set]))
          BY <1>8, FS_Interval
        <5>. QED
          BY <5>1, FS_Subset DEF EntriesOf
      <4>3. heard'[d][p] <= Cardinality(part) /\ heard'[d][p] \in Nat
        BY <1>11, <1>17, <2>3
      <4>. HIDE DEF part, EntriesOf
      <4>4. IsFiniteSet(part) /\ Cardinality(part) <= Cardinality(EntriesOf(f.set, d))
        BY <4>1, <4>2, FS_Subset
      <4>5. Cardinality(part) \in Nat /\ Cardinality(EntriesOf(f.set, d)) \in Nat
        BY <4>2, <4>4, FS_CardinalityType
      <4>. QED
        BY <4>3, <4>4, <4>5
    <3>2. \A d : EntriesOf(pubState[p].set, d)' = EntriesOf(f.set, d)
      BY <1>2, <1>6, <2>3 DEF EntriesOf
    <3>. HIDE DEF EntriesOf
    <3>. QED
      BY <1>2, <1>6, <1>7, <2>1, <2>3, <3>1, <3>2 DEF ToldHolds, Joined, Published
  <2>. QED
    BY <2>2, <2>3
<1>21. DeliverStep
  <2>1. SUFFICES ASSUME NEW d \in Callbacks, NEW p \in Publications, heard'[d][p] # heard[d][p]
                 PROVE  \E s \in Subscriptions : /\ subState[s].at = "live"
                                                 /\ subState[s].req.callback = d
                                                 /\ Meet(pubState[p].req, subState[s].req)
    BY DEF DeliverStep
  <2>2. d = c /\ p = f.pub
    BY <1>11, <2>1
  <2>3. PICK s \in Subscriptions : /\ subState[s].at = "live" /\ subState[s].set = f.set
                                   /\ subState[s].req.callback = c
    BY <1>7, <1>9, <1>10 DEF MembersHold, SetHolds
  <2>4. s \in Joined
    BY <2>3 DEF Joined
  <2>5. /\ SubscribeKey(subState[s].req) # NoKey
        /\ ~InvalidContextOverrides(subState[s].req.overrides)
    BY <2>4 DEF MembersHold, OneChannelPerSet
  <2>6. /\ SubscribeKey(subState[s].req) = PublishKey(pubState[p].req)
        /\ \/ ~InvalidContextOverrides(pubState[p].req.overrides)
           \/ pubState[p].req.api \in {"publishGlobal", "publishGlobalFromBridge"}
    BY <1>6, <1>7, <2>2, <2>3, <2>4 DEF TellingHolds, ToldHolds
  <2>7. PICK q \in AskedToHear : q = subState[s].req
    BY <2>4 DEF RealtimeTyped, JoinRecord
  <2>8. PICK r \in AskedToTell : r = pubState[p].req
    BY <1>7, <2>2 DEF RealtimeTyped, TellRecord
  <2>9. Meet(r, q)
    BY <2>5, <2>6, <2>7, <2>8, KeysMeet DEF AskedToHear, AskedToTell
  <2>. QED
    BY <2>2, <2>3, <2>7, <2>8, <2>9
<1>. QED
  BY <1>14, <1>15, <1>16, <1>19, <1>20, <1>21 DEF TellingHolds

(* publish returns: whoever its Set then held was called. *)
NothingMissedStep ==
  \A p \in Publications, s \in Subscriptions :
    /\ pubState[p].at = "delivering" /\ pubState'[p].at = "returned"
    /\ subState[s].at = "live" /\ ~Silenced(s)
    /\ subState[s].set = pubState[p].set
    => heard[subState[s].req.callback][p] >= 1

LEMMA ReturnHolds ==
  ASSUME DeliveryInv, PublishReturns
  PROVE  DeliveryInv' /\ NothingMissedStep
<1>. USE DEF DeliveryInv
<1>1. PICK f : f = Last(stack)
  OBVIOUS
<1>2. /\ stack # <<>> /\ f.call = "publish" /\ stack' = Pop
      /\ f.set # NotASet => NextEntry(sets[f.set], f.next) = {}
      /\ pubState' = [pubState EXCEPT ![f.pub].at = "returned"]
      /\ UNCHANGED <<subscribers, sets, subState, heard>>
  BY <1>1 DEF PublishReturns
<1>3. PICK k \in 1..Len(stack) : k = Len(stack) /\ stack[k] = f
  BY <1>1, <1>2, EmptySeq DEF Last, StackTyped
<1>4. LoopHolds(k)
  BY <1>3 DEF TellingHolds
<1>5. PICK p \in Publications : p = f.pub
  BY <1>2, <1>3, <1>4 DEF LoopHolds
<1>6. /\ p \in Published /\ pubState[p].at = "delivering" /\ pubState[p].set = f.set
      /\ f.set # NotASet => /\ f.set \in 1..Len(sets) /\ sets[f.set] \in Seq(Entry)
                            /\ Len(sets[f.set]) \in Nat /\ f.next \in 1..Len(sets[f.set]) + 1
  BY <1>2, <1>3, <1>5, LoopStands
<1>7. pubState[p] \in TellRecord
  BY <1>6 DEF RealtimeTyped
<1>8. PICK told \in TellRecord : /\ pubState' = [pubState EXCEPT ![p] = told]
                                 /\ told.at = "returned" /\ told.req = pubState[p].req
                                 /\ told.set = f.set
  <2>. DEFINE told == [pubState[p] EXCEPT !.at = "returned"]
  <2>1. told \in TellRecord /\ told.at = "returned" /\ told.req = pubState[p].req
        /\ told.set = pubState[p].set
    BY <1>7, Zenon DEF TellRecord
  <2>2. pubState' = [pubState EXCEPT ![p] = told]
    BY <1>2, <1>5
  <2>. HIDE DEF told
  <2>. QED
    BY <1>6, <2>1, <2>2
<1>9. /\ pubState'[p] = told /\ \A q \in Publications : q # p => pubState'[q] = pubState[q]
      /\ pubState' = [q \in Publications |-> pubState'[q]]
  BY <1>8 DEF RealtimeTyped
<1>10. Published' = Published
  BY <1>6, <1>8, <1>9 DEF Published
<1>11. RealtimeTyped'
  <2>1. Joined' = Joined
    BY <1>2 DEF Joined
  <2>2. \A q \in Published : q \in Publications
    BY DEF Published
  <2>3. \A q \in Published' : pubState'[q] \in TellRecord /\ pubState'[q].set <= Len(sets)
    BY <1>6, <1>8, <1>9, <1>10, <2>2 DEF RealtimeTyped
  <2>. QED
    BY <1>2, <1>9, <2>1, <2>3 DEF RealtimeTyped
<1>12. MembersHold' /\ SetsGrow
  BY <1>2, MembersRest
<1>13. /\ StackTyped' /\ Len(stack) \in Nat \ {0} /\ Len(stack') = Len(stack) - 1
       /\ \A j \in 1..Len(stack') : stack'[j] = stack[j]
  BY <1>2, CallEnds
<1>14. ASSUME NEW j \in 1..Len(stack') PROVE LoopHolds(j)'
  <2>1. j \in 1..Len(stack) /\ j # k /\ stack'[j] = stack[j] /\ LoopHolds(j)
    BY <1>3, <1>13 DEF TellingHolds
  <2>2. SUFFICES ASSUME stack[j].call = "publish" PROVE LoopHolds(j)'
    BY <2>1 DEF LoopHolds
  <2>3. stack[j].pub # p /\ stack[j].pub \in Publications
    BY <1>2, <1>3, <1>5, <2>1, <2>2 DEF LoopHolds
  <2>4. pubState'[stack[j].pub] = pubState[stack[j].pub]
    BY <1>9, <2>3
  <2>5. \A i \in 1..Len(stack') : i \in 1..Len(stack) /\ stack'[i] = stack[i]
    BY <1>13
  <2>. QED
    BY <1>2, <2>1, <2>2, <2>4, <2>5 DEF LoopHolds
<1>15. ASSUME NEW q \in Publications PROVE ToldHolds(q)'
  <2>1. ToldHolds(q)
    BY DEF TellingHolds
  <2>2. q \in Published => /\ pubState'[q].set = pubState[q].set
                           /\ pubState'[q].req = pubState[q].req
    BY <1>6, <1>8, <1>9
  <2>3. q \in Published => \A c : EntriesOf(pubState[q].set, c)' = EntriesOf(pubState[q].set, c)
    BY <1>2, <2>2 DEF EntriesOf
  <2>4. Joined' = Joined
    BY <1>2 DEF Joined
  <2>. HIDE DEF EntriesOf
  <2>. QED
    BY <1>2, <1>10, <2>1, <2>2, <2>3, <2>4 DEF ToldHolds
<1>16. NothingMissedStep
  <2>1. SUFFICES ASSUME NEW q \in Publications, NEW s \in Subscriptions,
                        pubState[q].at = "delivering", pubState'[q].at = "returned",
                        subState[s].at = "live", ~Silenced(s), subState[s].set = pubState[q].set
                 PROVE  heard[subState[s].req.callback][q] >= 1
    BY DEF NothingMissedStep
  <2>2. q = p
    BY <1>9, <2>1
  <2>3. s \in Joined /\ f.set = subState[s].set
    BY <1>6, <2>1, <2>2 DEF Joined
  <2>4. f.set # NotASet
    BY <2>3 DEF RealtimeTyped, JoinRecord, NotASet
  <2>5. PICK n \in 1..Len(sets[f.set]) : /\ sets[f.set][n].live
                                         /\ sets[f.set][n].cb = subState[s].req.callback
    BY <2>1, <2>3 DEF MembersHold, Entered
  <2>6. f.next \in Nat \ {0} /\ \A m \in f.next..Len(sets[f.set]) : ~sets[f.set][m].live
    <3>1. f.next \in Nat \ {0}
      BY <1>6, <2>4
    <3>. QED
      BY <1>2, <1>6, <2>4, <3>1, IteratorEnds, Zenon
  <2>7. n \in 1..f.next - 1
    BY <1>6, <2>4, <2>5, <2>6
  <2>. QED
    BY <1>2, <1>3, <1>4, <1>5, <2>2, <2>4, <2>5, <2>7 DEF LoopHolds
<1>. QED
  BY <1>11, <1>12, <1>13, <1>14, <1>15, <1>16 DEF TellingHolds

(* Calls in progress that are no loops of publish. *)
LEMMA ReplayRests ==
  ASSUME DeliveryInv, Replay \/ CallbackEnds
  PROVE  DeliveryInv'
<1>. USE DEF DeliveryInv
<1>1. PICK f : f = Last(stack)
  OBVIOUS
<1>2. stack # <<>> /\ UNCHANGED <<subscribers, sets, subState, pubState, heard>>
  BY DEF Replay, CallbackEnds
<1>3. PICK k \in 1..Len(stack) : k = Len(stack) /\ stack[k] = f
  BY <1>1, <1>2, EmptySeq DEF Last, StackTyped
<1>4. FrameShape(f)
  BY <1>3 DEF StackTyped
<1>5. StackTyped' /\ LoopsKept
  <2>1. ASSUME NEW g, FrameShape(g), stack' = SetTop(g), g.call = f.call,
               g.call = "publish" => g.pub = f.pub /\ g.set = f.set /\ g.next = f.next
        PROVE  StackTyped' /\ LoopsKept
    <3>1. /\ StackTyped' /\ Len(stack') = Len(stack) /\ stack'[k] = g
          /\ \A j \in 1..Len(stack) : j # k => stack'[j] = stack[j]
      BY <1>2, <1>3, <2>1, CallChanges
    <3>2. ASSUME NEW j \in 1..Len(stack'), stack'[j].call = "publish"
          PROVE  /\ j \in 1..Len(stack) /\ stack[j].call = "publish"
                 /\ stack'[j].pub = stack[j].pub /\ stack'[j].set = stack[j].set
                 /\ stack'[j].next = stack[j].next
      <4>1. CASE j = k
        BY <1>3, <2>1, <3>1, <3>2, <4>1
      <4>2. CASE j # k
        BY <3>1, <3>2, <4>2
      <4>. QED
        BY <4>1, <4>2
    <3>. QED
      BY <3>1, <3>2 DEF LoopsKept
  <2>2. CASE CallbackEnds
    <3>1. PICK g : g = [f EXCEPT !.running = FALSE]
      OBVIOUS
    <3>2. FrameShape(g) /\ g.call = f.call /\ g.pub = f.pub /\ g.set = f.set /\ g.next = f.next
      BY <1>4, <3>1 DEF FrameShape
    <3>. QED
      BY <1>1, <2>1, <2>2, <3>1, <3>2 DEF CallbackEnds
  <2>3. CASE Replay /\ f.next > Len(f.rest)
    <3>1. stack' = Pop
      BY <1>1, <2>3 DEF Replay
    <3>2. /\ StackTyped' /\ Len(stack) \in Nat \ {0} /\ Len(stack') = Len(stack) - 1
          /\ \A j \in 1..Len(stack') : stack'[j] = stack[j]
      BY <1>2, <3>1, CallEnds
    <3>. QED
      BY <3>2 DEF LoopsKept
  <2>4. CASE Replay /\ ~(f.next > Len(f.rest))
    <3>1. PICK g : g = [f EXCEPT !.next = @ + 1, !.running = TRUE, !.pub = f.rest[f.next].pub]
      OBVIOUS
    <3>2. f.call = "replay" /\ stack' = SetTop(g)
      BY <1>1, <2>4, <3>1 DEF Replay
    <3>3. FrameShape(g) /\ g.call = f.call
      BY <1>4, <3>1 DEF FrameShape
    <3>. QED
      BY <2>1, <3>2, <3>3
  <2>. QED
    BY <2>2, <2>3, <2>4
<1>6. MembersHold' /\ SetsGrow /\ ChannelsKept
  BY <1>2, MembersRest
<1>7. Published' = Published /\ \A p \in Published : pubState'[p] = pubState[p]
  BY <1>2 DEF Published
<1>8. TellingHolds'
  BY <1>2, <1>5, <1>6, <1>7, TellingKept
<1>9. RealtimeTyped'
  BY <1>2 DEF RealtimeTyped, Joined, Published
<1>. QED
  BY <1>5, <1>6, <1>8, <1>9

(* Calls that are refused, tokens, time and reset(). *)
LEMMA AsideHolds ==
  ASSUME DeliveryInv, UNCHANGED <<sets, stack, heard>>,
         \/ subscribers' = subscribers
         \/ subscribers' = <<>>,
         \/ subState' = subState
         \/ \E s \in Subscriptions : /\ subState[s].at = "new"
                                     /\ subState' = [subState EXCEPT ![s] = [at |-> "refused"]],
         \/ pubState' = pubState
         \/ \E p \in Publications : /\ pubState[p].at = "new"
                                    /\ pubState' = [pubState EXCEPT ![p] = [at |-> "refused"]]
  PROVE  DeliveryInv'
<1>. USE DEF DeliveryInv
<1>1. /\ Joined' = Joined /\ \A s \in Joined : subState'[s] = subState[s]
      /\ subState' = [s \in Subscriptions |-> subState'[s]]
      /\ \A s \in Subscriptions : subState'[s].at = "live" <=> subState[s].at = "live"
      /\ \A s \in Subscriptions : subState'[s].at = "ended" <=> subState[s].at = "ended"
  <2>1. subState = [s \in Subscriptions |-> subState[s]]
    BY DEF RealtimeTyped
  <2>2. subState' = [s \in Subscriptions |-> subState'[s]]
    BY <2>1
  <2>3. ASSUME NEW s \in Subscriptions
        PROVE  \/ subState'[s] = subState[s]
               \/ subState[s].at = "new" /\ subState'[s].at = "refused"
    <3>1. [at |-> "refused"].at = "refused"
      OBVIOUS
    <3>. QED
      BY <2>1, <3>1
  <2>. QED
    BY <2>2, <2>3 DEF Joined
<1>2. /\ Published' = Published /\ \A p \in Published : pubState'[p] = pubState[p]
      /\ pubState' = [p \in Publications |-> pubState'[p]]
  <2>1. pubState = [p \in Publications |-> pubState[p]]
    BY DEF RealtimeTyped
  <2>2. pubState' = [p \in Publications |-> pubState'[p]]
    BY <2>1
  <2>3. ASSUME NEW p \in Publications
        PROVE  \/ pubState'[p] = pubState[p]
               \/ pubState[p].at = "new" /\ pubState'[p].at = "refused"
    <3>1. [at |-> "refused"].at = "refused"
      OBVIOUS
    <3>. QED
      BY <2>1, <3>1
  <2>. QED
    BY <2>2, <2>3 DEF Published
<1>3. RealtimeTyped'
  BY <1>1, <1>2 DEF RealtimeTyped
<1>4. \A s \in Subscriptions : subState[s].at \in {"live", "ended"} => subState'[s] = subState[s]
  BY <1>1 DEF Joined
<1>5. ASSUME NEW i \in 1..Len(sets') PROVE SetHolds(i)'
  <2>1. SetHolds(i)
    BY DEF MembersHold
  <2>2. \A c : DeadOf(i, c)' = DeadOf(i, c) /\ EndedOf(i, c)' = EndedOf(i, c)
    BY <1>1, <1>4 DEF DeadOf, EndedOf
  <2>3. \E s \in Joined' : subState'[s].set = i
    BY <1>1, <2>1 DEF SetHolds
  <2>4. \A n \in 1..Len(sets[i]) : sets[i][n].live =>
          \E s \in Subscriptions : /\ subState'[s].at = "live" /\ subState'[s].set = i
                                   /\ subState'[s].req.callback = sets[i][n].cb
    BY <1>4, <2>1 DEF SetHolds
  <2>. HIDE DEF DeadOf, EndedOf
  <2>. QED
    BY <2>1, <2>2, <2>3, <2>4 DEF SetHolds
<1>6. OneChannelPerSet'
  <2>1. \A k \in DOMAIN subscribers' : k \in DOMAIN subscribers /\ subscribers'[k] = subscribers[k]
    OBVIOUS
  <2>. QED
    BY <1>1, <2>1 DEF MembersHold, OneChannelPerSet
<1>7. Entered'
  <2>1. \A s \in Subscriptions : subState[s].at = "live" => (Silenced(s) => Silenced(s)')
    BY <1>1, <1>4 DEF Silenced
  <2>. QED
    BY <1>1, <1>4, <2>1 DEF MembersHold, Entered
<1>8. MembersHold'
  BY <1>5, <1>6, <1>7 DEF MembersHold
<1>9. SetsGrow
  <2>1. /\ Len(sets) \in Nat
        /\ \A i \in 1..Len(sets) : Len(sets[i]) \in Nat
    BY DEF RealtimeTyped
  <2>. QED
    BY <2>1 DEF SetsGrow
<1>10. ChannelsKept
  BY <1>1 DEF ChannelsKept
<1>11. LoopsKept
  BY DEF LoopsKept
<1>12. TellingHolds'
  BY <1>2, <1>9, <1>10, <1>11, TellingKept
<1>13. StackTyped'
  BY DEF StackTyped
<1>. QED
  BY <1>3, <1>8, <1>12, <1>13

(* A subscriber joins the Set of its channel. *)
LEMMA SubscribeHolds ==
  ASSUME DeliveryInv, NEW s \in Subscriptions, Subscribe(s)
  PROVE  DeliveryInv'
<1>. USE DEF DeliveryInv
<1>1. PICK r, key, set, idx :
        /\ r \in SubscribeRequests[s] /\ key = SubscribeKey(r) /\ set = SetAt(key)
        /\ idx = IF set = NotASet THEN Len(sets) + 1 ELSE set
        /\ SubscribeAllowed(r)
        /\ subscribers' = [k \in DOMAIN subscribers \cup {key} |->
                             IF k = key THEN idx ELSE subscribers[k]]
        /\ sets' = IF set = NotASet
                   THEN Append(sets, <<[cb |-> r.callback, live |-> TRUE]>>)
                   ELSE [sets EXCEPT ![set] = AddTo(@, r.callback)]
        /\ subState' = [subState EXCEPT ![s] = [at |-> "live", req |-> r, set |-> idx]]
        /\ stack' = IF Replayed(key, r.replay) = <<>> THEN stack
                    ELSE Push([call |-> "replay", pub |-> "none", set |-> idx, next |-> 1,
                               rest |-> Replayed(key, r.replay), cb |-> r.callback,
                               running |-> FALSE])
  BY DEF Subscribe
<1>2. subState[s].at = "new" /\ UNCHANGED <<pubState, heard>>
  BY DEF Subscribe
<1>3. PICK c \in Callbacks : c = r.callback
  BY <1>1, RealtimeAssumption
<1>4. sets \in Seq(Seq(Entry)) /\ Len(sets) \in Nat /\ \A i \in 1..Len(sets) : sets[i] \in Seq(Entry)
  BY DEF RealtimeTyped
<1>5. \/ set = NotASet /\ idx = Len(sets) + 1 /\ key \notin DOMAIN subscribers
      \/ /\ set \in 1..Len(sets) /\ set # NotASet /\ idx = set
         /\ key \in DOMAIN subscribers /\ subscribers[key] = idx
  BY <1>1, <1>4 DEF SetAt, MembersHold, OneChannelPerSet, NotASet
(* The Set joined: as it was, and as it is. *)
<1>6. PICK old \in Seq(Entry) : old = IF set = NotASet THEN <<>> ELSE sets[set]
  <2>1. <<>> \in Seq(Entry)
    BY EmptySeq
  <2>2. set # NotASet => sets[set] \in Seq(Entry)
    BY <1>4, <1>5
  <2>. QED
    BY <2>1, <2>2
<1>7. PICK new : new = AddTo(old, c)
  OBVIOUS
<1>8. /\ new \in Seq(Entry)
      /\ Len(new) = Len(old) \/ Len(new) = Len(old) + 1
      /\ \A n \in 1..Len(old) : new[n] = old[n]
      /\ Len(new) = Len(old) + 1 => /\ new[Len(new)] = [cb |-> c, live |-> TRUE]
                                    /\ \A n \in 1..Len(old) : old[n].live => old[n].cb # c
      /\ \E n \in 1..Len(new) : new[n].live /\ new[n].cb = c
  <2>1. Added(old, c, new)
    BY <1>7, SetAdds, Zenon
  <2>. QED
    BY <2>1 DEF Added
<1>9. Len(old) \in Nat /\ Len(new) \in Nat
  BY <1>6, <1>8
<1>10. /\ sets' \in Seq(Seq(Entry)) /\ Len(sets') \in Nat
       /\ Len(sets') = IF set = NotASet THEN Len(sets) + 1 ELSE Len(sets)
       /\ sets'[idx] = new /\ idx \in 1..Len(sets')
       /\ \A i \in 1..Len(sets) : i # idx => sets'[i] = sets[i]
  <2>1. CASE set = NotASet
    <3>1. new = <<[cb |-> c, live |-> TRUE]>>
      <4>1. old = <<>>
        BY <1>6, <2>1
      <4>2. ~Holds(old, c)
        BY <4>1 DEF Holds
      <4>3. new = Append(<<>>, [cb |-> c, live |-> TRUE])
        BY <1>7, <4>1, <4>2 DEF AddTo
      <4>4. \A e : Append(<<>>, e) = <<e>>
        OBVIOUS
      <4>. QED
        BY <4>3, <4>4
    <3>2. sets' = Append(sets, new)
      BY <1>1, <1>3, <2>1, <3>1
    <3>. QED
      BY <1>4, <1>5, <1>8, <2>1, <3>2, AppendProperties
  <2>2. CASE set # NotASet
    <3>1. sets' = [sets EXCEPT ![set] = new]
      BY <1>1, <1>3, <1>6, <1>7, <2>2
    <3>. QED
      BY <1>4, <1>5, <1>8, <2>2, <3>1, ExceptSeq
  <2>. QED
    BY <2>1, <2>2
<1>11. idx \in Nat \ {0} /\ (idx <= Len(sets) => idx \in 1..Len(sets) /\ old = sets[idx])
  BY <1>4, <1>5, <1>6
<1>12. PICK join \in JoinRecord : /\ subState' = [subState EXCEPT ![s] = join]
                                  /\ join.at = "live" /\ join.req = r /\ join.set = idx
  <2>. DEFINE join == [at |-> "live", req |-> r, set |-> idx]
  <2>1. join \in JoinRecord /\ join.at = "live" /\ join.req = r /\ join.set = idx
    BY <1>1, <1>11 DEF JoinRecord, AskedToHear
  <2>2. subState' = [subState EXCEPT ![s] = join]
    BY <1>1
  <2>. HIDE DEF join
  <2>. QED
    BY <2>1, <2>2
<1>13. /\ subState'[s] = join /\ \A t \in Subscriptions : t # s => subState'[t] = subState[t]
       /\ subState' = [t \in Subscriptions |-> subState'[t]]
  BY <1>12 DEF RealtimeTyped
<1>14. s \notin Joined /\ Joined' = Joined \cup {s}
  BY <1>2, <1>12, <1>13 DEF Joined
<1>15. \A t \in Joined : /\ t \in Subscriptions /\ t # s /\ subState[t].set \in 1..Len(sets)
  BY <1>4, <1>14 DEF Joined, RealtimeTyped, JoinRecord
<1>16. RealtimeTyped'
  <2>1. \A t \in Joined' : subState'[t] \in JoinRecord /\ subState'[t].set <= Len(sets')
    <3>1. TAKE t \in Joined'
    <3>2. CASE t = s
      BY <1>10, <1>12, <1>13, <3>2
    <3>3. CASE t # s
      <4>1. t \in Joined /\ subState'[t] = subState[t]
        BY <1>13, <1>14, <1>15, <3>3
      <4>2. subState[t] \in JoinRecord /\ subState[t].set \in 1..Len(sets)
        BY <1>15, <4>1 DEF RealtimeTyped
      <4>3. Len(sets) <= Len(sets')
        BY <1>4, <1>10
      <4>. QED
        BY <1>4, <1>10, <4>1, <4>2, <4>3
    <3>. QED
      BY <3>2, <3>3
  <2>2. Published' = Published
    BY <1>2 DEF Published
  <2>3. \A p \in Published' : pubState'[p] \in TellRecord /\ pubState'[p].set <= Len(sets')
    <3>1. TAKE p \in Published'
    <3>2. pubState[p] \in TellRecord /\ pubState[p].set <= Len(sets)
      BY <2>2 DEF RealtimeTyped
    <3>3. pubState[p].set \in Nat
      BY <3>2 DEF TellRecord
    <3>4. Len(sets) <= Len(sets')
      BY <1>4, <1>10
    <3>. QED
      BY <1>2, <1>4, <1>10, <3>2, <3>3, <3>4
  <2>. QED
    BY <1>2, <1>10, <1>13, <2>1, <2>3 DEF RealtimeTyped
<1>17. SetsGrow
  <2>1. ASSUME NEW i \in 1..Len(sets)
        PROVE  /\ Len(sets[i]) <= Len(sets'[i]) /\ Len(sets[i]) \in Nat /\ Len(sets'[i]) \in Nat
               /\ \A n \in 1..Len(sets[i]) : /\ sets'[i][n].cb = sets[i][n].cb
                                             /\ sets'[i][n].live => sets[i][n].live
    <3>1. Len(sets[i]) \in Nat
      BY <1>4
    <3>2. CASE i = idx
      BY <1>8, <1>9, <1>10, <1>11, <3>2
    <3>3. CASE i # idx
      BY <1>10, <3>1, <3>3
    <3>. QED
      BY <3>2, <3>3
  <2>. QED
    BY <1>4, <1>10, <2>1 DEF SetsGrow
<1>18. \A t \in Joined : subState[t].set = idx => SubscribeKey(subState[t].req) = key
  BY <1>4, <1>5, <1>15 DEF MembersHold, OneChannelPerSet
<1>19. OneChannelPerSet'
  <2>1. key # NoKey /\ ~InvalidContextOverrides(r.overrides)
    BY <1>1 DEF SubscribeAllowed, Prevalidated
  <2>2. ASSUME NEW t \in Joined'
        PROVE  /\ SubscribeKey(subState'[t].req) # NoKey
               /\ ~InvalidContextOverrides(subState'[t].req.overrides)
    BY <1>1, <1>12, <1>13, <1>14, <1>15, <2>1, <2>2 DEF MembersHold, OneChannelPerSet
  <2>3. ASSUME NEW t \in Joined', NEW u \in Joined', subState'[t].set = subState'[u].set
        PROVE  SubscribeKey(subState'[t].req) = SubscribeKey(subState'[u].req)
    <3>1. \A v \in Joined' : \/ v = s /\ subState'[v].set = idx /\ SubscribeKey(subState'[v].req) = key
                             \/ v \in Joined /\ subState'[v] = subState[v]
      BY <1>1, <1>12, <1>13, <1>14, <1>15
    <3>2. CASE t \in Joined /\ subState'[t] = subState[t] /\ u \in Joined /\ subState'[u] = subState[u]
      BY <2>3, <3>2 DEF MembersHold, OneChannelPerSet
    <3>. QED
      BY <1>18, <2>3, <3>1, <3>2
  <2>4. ASSUME NEW k \in DOMAIN subscribers'
        PROVE  /\ subscribers'[k] \in 1..Len(sets')
               /\ \A t \in Joined' : subState'[t].set = subscribers'[k] =>
                                       SubscribeKey(subState'[t].req) = k
    <3>1. CASE k = key
      <4>1. subscribers'[k] = idx
        BY <1>1, <3>1
      <4>. QED
        BY <1>1, <1>10, <1>12, <1>13, <1>14, <1>15, <1>18, <3>1, <4>1
    <3>2. CASE k # key
      <4>1. k \in DOMAIN subscribers /\ subscribers'[k] = subscribers[k]
        BY <1>1, <2>4, <3>2
      <4>2. /\ subscribers[k] \in 1..Len(sets)
            /\ \A t \in Joined : subState[t].set = subscribers[k] => SubscribeKey(subState[t].req) = k
        BY <4>1 DEF MembersHold, OneChannelPerSet
      <4>3. subscribers[k] # idx
        <5>1. SUFFICES ASSUME subscribers[k] = idx PROVE FALSE
          OBVIOUS
        <5>2. PICK t \in Joined : subState[t].set = idx
          BY <4>2, <5>1 DEF MembersHold, SetHolds
        <5>. QED
          BY <1>18, <3>2, <4>2, <5>1, <5>2
      <4>4. subscribers[k] \in 1..Len(sets')
        BY <1>4, <1>10, <4>2
      <4>. QED
        BY <1>12, <1>13, <1>14, <1>15, <4>1, <4>2, <4>3, <4>4
    <3>. QED
      BY <3>1, <3>2
  <2>. QED
    BY <2>2, <2>3, <2>4 DEF OneChannelPerSet
<1>20. ChannelsKept
  <2>1. SUFFICES ASSUME NEW t \in Joined', subState'[t].set <= Len(sets)
                 PROVE  \E u \in Joined : /\ subState[u].set = subState'[t].set
                                          /\ SubscribeKey(subState[u].req) = SubscribeKey(subState'[t].req)
    BY DEF ChannelsKept
  <2>2. CASE t = s
    <3>1. idx \in 1..Len(sets)
      BY <1>11, <1>12, <1>13, <2>1, <2>2
    <3>2. PICK u \in Joined : subState[u].set = idx
      BY <3>1 DEF MembersHold, SetHolds
    <3>. QED
      BY <1>1, <1>12, <1>13, <1>18, <2>2, <3>2
  <2>3. CASE t # s
    BY <1>13, <1>14, <1>15, <2>3
  <2>. QED
    BY <2>2, <2>3
<1>21. StackTyped' /\ LoopsKept
  <2>1. CASE stack' = stack
    BY <2>1 DEF StackTyped, LoopsKept
  <2>2. CASE stack' # stack
    <3>1. PICK f : f = [call |-> "replay", pub |-> "none", set |-> idx, next |-> 1,
                        rest |-> Replayed(key, r.replay), cb |-> r.callback, running |-> FALSE]
      OBVIOUS
    <3>2. FrameShape(f) /\ f.call = "replay" /\ stack' = Push(f)
      BY <1>1, <2>2, <3>1 DEF FrameShape
    <3>3. /\ StackTyped' /\ Len(stack) \in Nat /\ Len(stack') = Len(stack) + 1
          /\ stack'[Len(stack) + 1] = f
          /\ \A k \in 1..Len(stack) : stack'[k] = stack[k]
      BY <3>2, CallComes
    <3>4. ASSUME NEW k \in 1..Len(stack'), stack'[k].call = "publish"
          PROVE  k \in 1..Len(stack) /\ stack'[k] = stack[k]
      <4>1. k # Len(stack) + 1
        BY <3>2, <3>3, <3>4
      <4>. QED
        BY <3>3, <4>1
    <3>. QED
      BY <3>3, <3>4 DEF LoopsKept
  <2>. QED
    BY <2>1, <2>2
<1>22. TellingHolds'
  <2>1. Published' = Published /\ \A p \in Published : pubState'[p] = pubState[p]
    BY <1>2 DEF Published
  <2>. QED
    BY <1>2, <1>17, <1>20, <1>21, <2>1, TellingKept
<1>23. ASSUME NEW i \in 1..Len(sets') PROVE SetHolds(i)'
  <2>1. \A d : EndedOf(i, d)' = EndedOf(i, d)
    BY <1>2, <1>12, <1>13 DEF EndedOf
  <2>2. CASE i # idx
    <3>1. i \in 1..Len(sets) /\ sets'[i] = sets[i]
      BY <1>4, <1>5, <1>10, <2>2
    <3>2. SetHolds(i)
      BY <3>1 DEF MembersHold
    <3>3. \E t \in Joined' : subState'[t].set = i
      BY <1>13, <1>14, <1>15, <3>2 DEF SetHolds
    <3>4. \A n \in 1..Len(sets[i]) : sets[i][n].live =>
            \E t \in Subscriptions : /\ subState'[t].at = "live" /\ subState'[t].set = i
                                     /\ subState'[t].req.callback = sets[i][n].cb
      BY <1>2, <1>13, <3>2 DEF SetHolds
    <3>5. \A d : DeadOf(i, d)' = DeadOf(i, d)
      BY <3>1 DEF DeadOf
    <3>. HIDE DEF DeadOf, EndedOf
    <3>. QED
      BY <2>1, <3>1, <3>2, <3>3, <3>4, <3>5 DEF SetHolds
  <2>3. CASE i = idx
    <3>1. \E t \in Joined' : subState'[t].set = i
      BY <1>12, <1>13, <1>14, <2>3
    <3>2. \A n \in 1..Len(new) : \/ n \in 1..Len(old) /\ new[n] = old[n]
                                 \/ /\ n = Len(new) /\ Len(new) = Len(old) + 1
                                    /\ new[n].cb = c /\ new[n].live
      <4>1. TAKE n \in 1..Len(new)
      <4>2. CASE n \in 1..Len(old)
        BY <1>8, <4>2
      <4>3. CASE n \notin 1..Len(old)
        BY <1>8, <1>9, <4>3
      <4>. QED
        BY <4>2, <4>3
    <3>3. CASE idx \in 1..Len(sets)
      <4>1. SetHolds(idx) /\ old = sets[idx]
        BY <1>11, <3>3 DEF MembersHold
      <4>2. ASSUME NEW n \in 1..Len(new), new[n].live
            PROVE  \E t \in Subscriptions : /\ subState'[t].at = "live" /\ subState'[t].set = i
                                            /\ subState'[t].req.callback = new[n].cb
        <5>1. CASE n \in 1..Len(old) /\ new[n] = old[n]
          BY <1>2, <1>13, <2>3, <4>1, <4>2, <5>1 DEF SetHolds
        <5>2. CASE new[n].cb = c
          BY <1>3, <1>12, <1>13, <2>3, <5>2
        <5>. QED
          BY <3>2, <5>1, <5>2
      <4>3. ASSUME NEW m \in 1..Len(new), NEW n \in 1..Len(new), new[m].live, new[n].live,
                   new[m].cb = new[n].cb
            PROVE  m = n
        <5>1. CASE m \in 1..Len(old) /\ new[m] = old[m] /\ n \in 1..Len(old) /\ new[n] = old[n]
          BY <4>1, <4>3, <5>1 DEF SetHolds
        <5>. QED
          BY <1>8, <3>2, <4>3, <5>1
      <4>4. \A d : DeadOf(i, d)' = DeadOf(i, d)
        <5>1. \A d : {n \in 1..Len(new) : new[n].cb = d /\ ~new[n].live}
                     = {n \in 1..Len(old) : old[n].cb = d /\ ~old[n].live}
          BY <1>8, <1>9, <3>2
        <5>2. \A d : DeadOf(i, d)' = {n \in 1..Len(sets'[i]) : sets'[i][n].cb = d /\ ~sets'[i][n].live}
          BY DEF DeadOf
        <5>3. sets'[i] = new /\ sets[i] = old
          BY <1>10, <2>3, <4>1
        <5>. QED
          BY <5>1, <5>2, <5>3 DEF DeadOf
      <4>. HIDE DEF DeadOf, EndedOf
      <4>5. \A d \in Callbacks : Cardinality(DeadOf(i, d)') <= Cardinality(EndedOf(i, d)')
        BY <2>1, <2>3, <4>1, <4>4 DEF SetHolds
      <4>6. sets'[i] = new
        BY <1>10, <2>3
      <4>7. \A n \in 1..Len(sets'[i]) : sets'[i][n].live =>
              \E t \in Subscriptions : /\ subState'[t].at = "live" /\ subState'[t].set = i
                                       /\ subState'[t].req.callback = sets'[i][n].cb
        BY <4>2, <4>6
      <4>8. \A m, n \in 1..Len(sets'[i]) :
              sets'[i][m].live /\ sets'[i][n].live /\ sets'[i][m].cb = sets'[i][n].cb => m = n
        BY <4>3, <4>6
      <4>. QED
        BY <3>1, <4>5, <4>7, <4>8 DEF SetHolds
    <3>4. CASE idx \notin 1..Len(sets)
      <4>1. Len(old) = 0
        BY <1>5, <1>6, <3>4
      <4>2. Len(new) = 1 /\ new[1].cb = c /\ new[1].live
        BY <1>8, <3>2, <4>1
      <4>3. \A d : DeadOf(i, d)' = {}
        BY <1>10, <2>3, <4>2 DEF DeadOf
      <4>4. \A d : Cardinality(EndedOf(i, d)) \in Nat
        <5>1. \A d : EndedOf(i, d) \subseteq Subscriptions
          BY DEF EndedOf
        <5>. HIDE DEF EndedOf
        <5>. QED
          BY <5>1, RealtimeAssumption, FS_Subset, FS_CardinalityType
      <4>. HIDE DEF DeadOf, EndedOf
      <4>5. \A d \in Callbacks : Cardinality(DeadOf(i, d)') <= Cardinality(EndedOf(i, d)')
        <5>1. TAKE d \in Callbacks
        <5>2. Cardinality(DeadOf(i, d)') = 0
          BY <4>3, FS_EmptySet
        <5>3. Cardinality(EndedOf(i, d)') \in Nat
          BY <2>1, <4>4
        <5>. QED
          BY <5>2, <5>3
      <4>6. \A n \in 1..Len(new) : n = 1
        BY <4>2
      <4>7. \A n \in 1..Len(new) : new[n].live =>
              \E t \in Subscriptions : /\ subState'[t].at = "live" /\ subState'[t].set = i
                                       /\ subState'[t].req.callback = new[n].cb
        BY <1>3, <1>12, <1>13, <2>3, <4>2, <4>6
      <4>. QED
        BY <1>10, <2>3, <3>1, <4>5, <4>6, <4>7 DEF SetHolds
    <3>. QED
      BY <3>3, <3>4
  <2>. QED
    BY <2>2, <2>3
<1>24. Entered'
  <2>1. SUFFICES ASSUME NEW t \in Subscriptions, subState'[t].at = "live", ~Silenced(t)'
                 PROVE  \E n \in 1..Len(sets'[subState'[t].set]) :
                          /\ sets'[subState'[t].set][n].live
                          /\ sets'[subState'[t].set][n].cb = subState'[t].req.callback
    BY DEF Entered
  <2>2. CASE t = s
    <3>1. PICK n \in 1..Len(new) : new[n].live /\ new[n].cb = c
      BY <1>8
    <3>2. subState'[t].set = idx /\ subState'[t].req.callback = c /\ sets'[idx] = new
      BY <1>3, <1>10, <1>12, <1>13, <2>2
    <3>. QED
      BY <3>1, <3>2
  <2>3. CASE t # s
    <3>1. t \in Joined /\ subState'[t] = subState[t] /\ subState[t].at = "live"
      BY <1>13, <2>1, <2>3 DEF Joined
    <3>2. ~Silenced(t)
      <4>1. SUFFICES ASSUME Silenced(t) PROVE FALSE
        OBVIOUS
      <4>2. PICK u \in Subscriptions : /\ subState[u].at = "ended"
                                       /\ subState[u].set = subState[t].set
                                       /\ subState[u].req.callback = subState[t].req.callback
        BY <4>1 DEF Silenced
      <4>3. subState'[u] = subState[u]
        BY <1>2, <1>13, <4>2
      <4>. QED
        BY <2>1, <3>1, <4>2, <4>3 DEF Silenced
    <3>3. PICK i \in 1..Len(sets) : i = subState[t].set
      BY <1>15, <3>1
    <3>4. PICK n \in 1..Len(sets[i]) : sets[i][n].live /\ sets[i][n].cb = subState[t].req.callback
      BY <3>1, <3>2, <3>3 DEF MembersHold, Entered
    <3>5. n \in 1..Len(sets'[i]) /\ sets'[i][n] = sets[i][n]
      <4>1. CASE i = idx
        BY <1>8, <1>9, <1>10, <1>11, <4>1
      <4>2. CASE i # idx
        BY <1>10, <4>2
      <4>. QED
        BY <4>1, <4>2
    <3>. QED
      BY <3>1, <3>3, <3>4, <3>5
  <2>. QED
    BY <2>2, <2>3
<1>. QED
  BY <1>16, <1>19, <1>21, <1>22, <1>23, <1>24 DEF MembersHold

(* A subscription ends: its callback leaves the Set that it joined. *)
LEMMA UnsubscribeHolds ==
  ASSUME DeliveryInv, NEW s \in Subscriptions, Unsubscribe(s)
  PROVE  DeliveryInv'
<1>. USE DEF DeliveryInv
<1>1. subState[s].at = "live" /\ s \in Joined /\ UNCHANGED <<subscribers, stack, pubState, heard>>
  BY DEF Unsubscribe, Joined
<1>2. PICK idx, c : idx = subState[s].set /\ c = subState[s].req.callback
  OBVIOUS
<1>3. subState[s] \in JoinRecord /\ idx <= Len(sets)
  BY <1>1, <1>2 DEF RealtimeTyped
<1>4. sets \in Seq(Seq(Entry)) /\ Len(sets) \in Nat /\ \A i \in 1..Len(sets) : sets[i] \in Seq(Entry)
  BY DEF RealtimeTyped
<1>5. idx \in 1..Len(sets) /\ c \in Callbacks
  <2>1. idx \in Nat \ {0} /\ subState[s].req \in AskedToHear
    BY <1>2, <1>3 DEF JoinRecord
  <2>2. PICK t \in Subscriptions : subState[s].req \in SubscribeRequests[t]
    BY <2>1 DEF AskedToHear
  <2>3. c \in Callbacks
    BY <1>2, <2>2, RealtimeAssumption
  <2>. QED
    BY <1>3, <1>4, <2>1, <2>3
<1>6. PICK old \in Seq(Entry) : old = sets[idx]
  BY <1>4, <1>5
<1>7. PICK new : new = DeleteFrom(old, c)
  OBVIOUS
<1>8. /\ new \in Seq(Entry) /\ Len(new) = Len(old)
      /\ \A n \in 1..Len(old) : /\ new[n].cb = old[n].cb
                                /\ old[n].cb = c => ~new[n].live
                                /\ old[n].cb # c => new[n].live = old[n].live
  BY <1>5, <1>7, SetDeletes, Zenon
<1>9. sets' = [sets EXCEPT ![idx] = new]
  BY <1>2, <1>6, <1>7 DEF Unsubscribe
<1>10. /\ sets' \in Seq(Seq(Entry)) /\ Len(sets') = Len(sets) /\ sets'[idx] = new
       /\ \A i \in 1..Len(sets) : i # idx => sets'[i] = sets[i]
  BY <1>4, <1>5, <1>8, <1>9, ExceptSeq
<1>11. PICK gone \in JoinRecord : /\ subState' = [subState EXCEPT ![s] = gone]
                                  /\ gone.at = "ended" /\ gone.req = subState[s].req
                                  /\ gone.set = idx
  <2>. DEFINE gone == [subState[s] EXCEPT !.at = "ended"]
  <2>1. gone \in JoinRecord /\ gone.at = "ended" /\ gone.req = subState[s].req
        /\ gone.set = subState[s].set
    BY <1>3, Zenon DEF JoinRecord
  <2>2. subState' = [subState EXCEPT ![s] = gone]
    BY DEF Unsubscribe
  <2>. HIDE DEF gone
  <2>. QED
    BY <1>2, <2>1, <2>2
<1>12. /\ subState'[s] = gone /\ \A t \in Subscriptions : t # s => subState'[t] = subState[t]
       /\ subState' = [t \in Subscriptions |-> subState'[t]]
  BY <1>11 DEF RealtimeTyped
<1>13. /\ Joined' = Joined
       /\ \A t \in Subscriptions : t \in Joined => /\ subState'[t].set = subState[t].set
                                                   /\ subState'[t].req = subState[t].req
  BY <1>1, <1>2, <1>11, <1>12 DEF Joined
<1>14. \A t \in Joined : t \in Subscriptions
  BY DEF Joined
<1>15. RealtimeTyped'
  <2>1. \A t \in Joined' : subState'[t] \in JoinRecord /\ subState'[t].set <= Len(sets')
    <3>1. TAKE t \in Joined'
    <3>2. CASE t = s
      BY <1>3, <1>10, <1>11, <1>12, <3>2
    <3>3. CASE t # s
      BY <1>10, <1>12, <1>13, <1>14, <3>3 DEF RealtimeTyped
    <3>. QED
      BY <3>2, <3>3
  <2>2. Published' = Published
    BY <1>1 DEF Published
  <2>. QED
    BY <1>1, <1>10, <1>12, <2>1, <2>2 DEF RealtimeTyped
<1>16. \A i \in 1..Len(sets) : /\ Len(sets'[i]) = Len(sets[i]) /\ Len(sets[i]) \in Nat
                               /\ \A n \in 1..Len(sets[i]) :
                                    /\ sets'[i][n].cb = sets[i][n].cb
                                    /\ sets'[i][n].live => sets[i][n].live
                                    /\ i # idx \/ sets[i][n].cb # c => sets'[i][n].live = sets[i][n].live
  <2>1. TAKE i \in 1..Len(sets)
  <2>2. Len(sets[i]) \in Nat
    BY <1>4
  <2>3. CASE i = idx
    BY <1>6, <1>8, <1>10, <2>2, <2>3
  <2>4. CASE i # idx
    BY <1>10, <2>2, <2>4
  <2>. QED
    BY <2>3, <2>4
<1>17. SetsGrow
  BY <1>4, <1>10, <1>16 DEF SetsGrow
<1>18. ChannelsKept /\ LoopsKept
  BY <1>1, <1>13, <1>14 DEF ChannelsKept, LoopsKept
<1>19. TellingHolds'
  <2>1. Published' = Published /\ \A p \in Published : pubState'[p] = pubState[p]
    BY <1>1 DEF Published
  <2>. QED
    BY <1>1, <1>17, <1>18, <2>1, TellingKept
<1>20. OneChannelPerSet'
  <2>1. OneChannelPerSet
    BY DEF MembersHold
  <2>2. \A t \in Joined' : /\ t \in Joined /\ subState'[t].set = subState[t].set
                            /\ subState'[t].req = subState[t].req
    BY <1>13, <1>14
  <2>3. \A t \in Joined' : /\ SubscribeKey(subState'[t].req) # NoKey
                            /\ ~InvalidContextOverrides(subState'[t].req.overrides)
    BY <2>1, <2>2 DEF OneChannelPerSet
  <2>4. \A t, u \in Joined' : subState'[t].set = subState'[u].set =>
          SubscribeKey(subState'[t].req) = SubscribeKey(subState'[u].req)
    BY <2>1, <2>2 DEF OneChannelPerSet
  <2>5. \A k \in DOMAIN subscribers' :
          /\ subscribers'[k] \in 1..Len(sets')
          /\ \A t \in Joined' : subState'[t].set = subscribers'[k] =>
                                 SubscribeKey(subState'[t].req) = k
    BY <1>1, <1>10, <2>1, <2>2 DEF OneChannelPerSet
  <2>. QED
    BY <2>3, <2>4, <2>5 DEF OneChannelPerSet
<1>21. ASSUME NEW i \in 1..Len(sets'), NEW d \in Callbacks
       PROVE  Cardinality(DeadOf(i, d)') <= Cardinality(EndedOf(i, d)')
  <2>. DEFINE was == {n \in 1..Len(sets[i]) : sets[i][n].cb = d /\ ~sets[i][n].live}
              is == {n \in 1..Len(sets'[i]) : sets'[i][n].cb = d /\ ~sets'[i][n].live}
              left == {t \in Subscriptions : /\ subState[t].at = "ended" /\ subState[t].set = i
                                             /\ subState[t].req.callback = d}
              leave == {t \in Subscriptions : /\ subState'[t].at = "ended" /\ subState'[t].set = i
                                              /\ subState'[t].req.callback = d}
  <2>1. DeadOf(i, d) = was /\ DeadOf(i, d)' = is
    BY DEF DeadOf
  <2>2. EndedOf(i, d) = left /\ EndedOf(i, d)' = leave
    BY DEF EndedOf
  <2>3. i \in 1..Len(sets) /\ SetHolds(i)
    BY <1>10 DEF MembersHold
  <2>4. Cardinality(was) <= Cardinality(left)
    BY <2>1, <2>2, <2>3 DEF SetHolds
  <2>5. IsFiniteSet(was) /\ IsFiniteSet(left)
    <3>1. Len(sets[i]) \in Int
      BY <1>16, <2>3
    <3>2. was \in SUBSET (1..Len(sets[i])) /\ left \in SUBSET Subscriptions
      OBVIOUS
    <3>. HIDE DEF was, left
    <3>. QED
      <4>1. IsFiniteSet(1..Len(sets[i])) /\ IsFiniteSet(Subscriptions)
        <5>1. IsFiniteSet(1..Len(sets[i]))
          BY <3>1, FS_Interval
        <5>. QED
          BY <5>1, RealtimeAssumption
      <4>. QED
        BY <3>2, <4>1, FS_Subset
  <2>6. Cardinality(was) \in Nat /\ Cardinality(left) \in Nat
    BY <2>5, FS_CardinalityType
  <2>7. CASE i # idx \/ d # c
    <3>1. is = was
      BY <1>16, <2>3, <2>7
    <3>2. leave = left
      BY <1>1, <1>2, <1>11, <1>12, <2>7
    <3>. QED
      BY <2>1, <2>2, <2>4, <3>1, <3>2
  <2>8. CASE i = idx /\ d = c
    <3>1. leave = left \cup {s} /\ s \notin left
      BY <1>1, <1>2, <1>11, <1>12, <2>8
    <3>2. \A n \in is : n \notin was => n \in 1..Len(sets[i]) /\ sets[i][n].cb = c /\ sets[i][n].live
      BY <1>16, <2>3, <2>8
    <3>3. \A n \in was : n \in is
      BY <1>16, <2>3
    <3>4. \A m, n \in is : m \notin was /\ n \notin was => m = n
      BY <2>3, <3>2 DEF SetHolds
    <3>5. \E n : is \subseteq was \cup {n}
      BY <3>4
    <3>. HIDE DEF was, is, left, leave
    <3>6. Cardinality(leave) = Cardinality(left) + 1
      BY <2>5, <3>1, FS_AddElement
    <3>7. PICK n : is \in SUBSET (was \cup {n})
      BY <3>5
    <3>8. /\ IsFiniteSet(was \cup {n}) /\ Cardinality(was \cup {n}) <= Cardinality(was) + 1
          /\ Cardinality(was \cup {n}) \in Nat
      <4>1. IsFiniteSet(was \cup {n})
        BY <2>5, FS_AddElement
      <4>2. \/ Cardinality(was \cup {n}) = Cardinality(was)
            \/ Cardinality(was \cup {n}) = Cardinality(was) + 1
        BY <2>5, FS_AddElement
      <4>. QED
        BY <2>6, <4>1, <4>2
    <3>9. /\ IsFiniteSet(is) /\ Cardinality(is) <= Cardinality(was \cup {n})
          /\ Cardinality(is) \in Nat
      BY <3>7, <3>8, FS_Subset, FS_CardinalityType
    <3>. QED
      BY <2>1, <2>2, <2>4, <2>6, <3>6, <3>8, <3>9
  <2>. QED
    BY <2>7, <2>8
<1>22. ASSUME NEW i \in 1..Len(sets') PROVE SetHolds(i)'
  <2>1. i \in 1..Len(sets) /\ SetHolds(i)
    BY <1>10 DEF MembersHold
  <2>2. \E t \in Joined' : subState'[t].set = i
    BY <1>13, <1>14, <2>1 DEF SetHolds
  <2>3. ASSUME NEW n \in 1..Len(sets'[i]), sets'[i][n].live
        PROVE  \E t \in Subscriptions : /\ subState'[t].at = "live" /\ subState'[t].set = i
                                        /\ subState'[t].req.callback = sets'[i][n].cb
    <3>1. n \in 1..Len(sets[i]) /\ sets[i][n].live /\ sets'[i][n].cb = sets[i][n].cb
      BY <1>16, <2>1, <2>3
    <3>2. PICK t \in Subscriptions : /\ subState[t].at = "live" /\ subState[t].set = i
                                     /\ subState[t].req.callback = sets[i][n].cb
      BY <2>1, <3>1 DEF SetHolds
    <3>3. t # s
      <4>1. SUFFICES ASSUME t = s PROVE FALSE
        OBVIOUS
      <4>2. i = idx /\ sets[i][n].cb = c
        BY <1>2, <3>2, <4>1
      <4>. QED
        BY <1>6, <1>8, <1>10, <2>3, <3>1, <4>2
    <3>. QED
      BY <1>12, <3>1, <3>2, <3>3
  <2>4. \A m, n \in 1..Len(sets'[i]) :
          sets'[i][m].live /\ sets'[i][n].live /\ sets'[i][m].cb = sets'[i][n].cb => m = n
    BY <1>16, <2>1 DEF SetHolds
  <2>5. \A d \in Callbacks : Cardinality(DeadOf(i, d)') <= Cardinality(EndedOf(i, d)')
    BY <1>21
  <2>. HIDE DEF DeadOf, EndedOf
  <2>. QED
    BY <2>2, <2>3, <2>4, <2>5 DEF SetHolds
<1>23. Entered'
  <2>1. SUFFICES ASSUME NEW t \in Subscriptions, subState'[t].at = "live", ~Silenced(t)'
                 PROVE  \E n \in 1..Len(sets'[subState'[t].set]) :
                          /\ sets'[subState'[t].set][n].live
                          /\ sets'[subState'[t].set][n].cb = subState'[t].req.callback
    BY DEF Entered
  <2>2. t # s /\ subState'[t] = subState[t] /\ t \in Joined
    BY <1>11, <1>12, <2>1 DEF Joined
  <2>3. ~Silenced(t)
    <3>1. SUFFICES ASSUME Silenced(t) PROVE FALSE
      OBVIOUS
    <3>2. PICK u \in Subscriptions : /\ subState[u].at = "ended"
                                     /\ subState[u].set = subState[t].set
                                     /\ subState[u].req.callback = subState[t].req.callback
      BY <3>1 DEF Silenced
    <3>3. subState'[u] = subState[u]
      BY <1>1, <1>12, <3>2
    <3>. QED
      BY <2>1, <2>2, <3>2, <3>3 DEF Silenced
  <2>4. PICK i : i = subState[t].set
    OBVIOUS
  <2>5. i \in 1..Len(sets)
    <3>1. subState[t] \in JoinRecord /\ i <= Len(sets)
      BY <2>2, <2>4 DEF RealtimeTyped
    <3>2. i \in Nat \ {0}
      BY <2>4, <3>1 DEF JoinRecord
    <3>. QED
      BY <1>4, <3>1, <3>2
  <2>6. PICK n \in 1..Len(sets[i]) : sets[i][n].live /\ sets[i][n].cb = subState[t].req.callback
    BY <2>1, <2>2, <2>3, <2>4 DEF MembersHold, Entered
  <2>7. i # idx \/ sets[i][n].cb # c
    <3>1. SUFFICES ASSUME i = idx, sets[i][n].cb = c PROVE FALSE
      OBVIOUS
    <3>2. /\ subState'[s].at = "ended" /\ subState'[s].set = subState'[t].set
          /\ subState'[s].req.callback = subState'[t].req.callback
      BY <1>2, <1>11, <1>12, <2>2, <2>4, <2>6, <3>1
    <3>. QED
      BY <2>1, <3>2 DEF Silenced
  <2>8. /\ n \in 1..Len(sets'[i]) /\ sets'[i][n].live
        /\ sets'[i][n].cb = subState[t].req.callback
    BY <1>16, <2>5, <2>6, <2>7
  <2>. QED
    BY <2>2, <2>4, <2>8
<1>24. StackTyped'
  BY <1>1 DEF StackTyped
<1>. QED
  BY <1>15, <1>19, <1>20, <1>22, <1>23, <1>24 DEF MembersHold

(* A step of the services is one of these for the channels, or leaves them alone. *)
LEMMA RealtimeSteps ==
  ASSUME [ServicesNext]_servicesVars
  PROVE  \/ \E p \in Publications : PublishRefused(p) \/ Publish(p)
         \/ \E s \in Subscriptions : SubscribeRefused(s) \/ Subscribe(s) \/ Unsubscribe(s)
         \/ (\E t \in Tokens : SignRealtimeToken(t)) \/ Tick \/ ResetRealtime
         \/ Deliver \/ PublishReturns \/ CallbackEnds \/ Replay
         \/ UNCHANGED rtVars
<1>1. CASE UseRealtime
  BY <1>1 DEF UseRealtime, RealtimeNext, Call, Progress
<1>2. CASE SimulatorReset
  BY <1>2 DEF SimulatorReset
<1>3. CASE UseObjectStore \/ UseDeploy \/ UseUI \/ SimulatorStop \/ UNCHANGED servicesVars
  BY <1>3 DEF UseObjectStore, UseDeploy, UseUI, SimulatorStop, servicesVars
<1>. QED
  BY <1>1, <1>2, <1>3 DEF ServicesNext

(* Every step keeps the invariant, tells only those subscribed, and returns only to the told. *)
LEMMA DeliveryInvNext ==
  ASSUME DeliveryInv, [ServicesNext]_servicesVars
  PROVE  DeliveryInv' /\ DeliverStep /\ NothingMissedStep
<1>1. CASE Deliver
  <2>1. DeliveryInv' /\ DeliverStep /\ UNCHANGED pubState
    BY <1>1, DeliverHolds DEF Deliver
  <2>. QED
    BY <2>1 DEF NothingMissedStep
<1>2. CASE PublishReturns
  <2>1. DeliveryInv' /\ NothingMissedStep /\ UNCHANGED heard
    BY <1>2, ReturnHolds DEF PublishReturns
  <2>. QED
    BY <2>1 DEF DeliverStep
<1>3. ASSUME UNCHANGED heard, UNCHANGED pubState PROVE DeliverStep /\ NothingMissedStep
  BY <1>3 DEF DeliverStep, NothingMissedStep
<1>4. ASSUME NEW p \in Publications, PublishRefused(p) \/ Publish(p)
      PROVE  DeliveryInv' /\ DeliverStep /\ NothingMissedStep
  <2>1. DeliveryInv'
    <3>1. CASE PublishRefused(p)
      BY <3>1, AsideHolds DEF PublishRefused
    <3>2. CASE Publish(p)
      BY <3>2, PublishHolds
    <3>. QED
      BY <1>4, <3>1, <3>2
  <2>2. UNCHANGED heard
    BY <1>4 DEF PublishRefused, Publish
  <2>3. \A q \in Publications : pubState[q].at = "delivering" => pubState'[q] = pubState[q]
    BY <1>4 DEF PublishRefused, Publish, DeliveryInv, RealtimeTyped
  <2>. QED
    BY <2>1, <2>2, <2>3 DEF DeliverStep, NothingMissedStep
<1>5. ASSUME NEW s \in Subscriptions, SubscribeRefused(s) \/ Subscribe(s) \/ Unsubscribe(s)
      PROVE  DeliveryInv' /\ DeliverStep /\ NothingMissedStep
  <2>1. UNCHANGED <<heard, pubState>>
    BY <1>5 DEF SubscribeRefused, Subscribe, Unsubscribe
  <2>2. CASE SubscribeRefused(s)
    BY <1>3, <2>1, <2>2, AsideHolds DEF SubscribeRefused
  <2>. QED
    BY <1>3, <1>5, <2>1, <2>2, SubscribeHolds, UnsubscribeHolds
<1>6. CASE (\E t \in Tokens : SignRealtimeToken(t)) \/ Tick \/ ResetRealtime \/ UNCHANGED rtVars
  <2>1. /\ UNCHANGED <<sets, stack, heard, subState, pubState>>
        /\ subscribers' = subscribers \/ subscribers' = <<>>
    BY <1>6 DEF SignRealtimeToken, Tick, ResetRealtime, rtVars
  <2>. QED
    BY <1>3, <2>1, AsideHolds
<1>7. CASE Replay \/ CallbackEnds
  <2>1. UNCHANGED <<heard, pubState>>
    BY <1>7 DEF Replay, CallbackEnds
  <2>. QED
    BY <1>3, <1>7, <2>1, ReplayRests
<1>. QED
  BY <1>1, <1>2, <1>4, <1>5, <1>6, <1>7, RealtimeSteps

(* How often a callback was told, from the entries that stood for it. *)
LEMMA ToldOnce == DeliveryInv => HeardOncePerMembership
<1>. SUFFICES ASSUME DeliveryInv, NEW p \in Published, NEW c \in Callbacks
              PROVE  heard[c][p] <= 1 + Cardinality({s \in Subscriptions :
                                          /\ subState[s].at = "ended"
                                          /\ subState[s].set = pubState[p].set
                                          /\ subState[s].req.callback = c})
  BY DEF HeardOncePerMembership
<1>. USE DEF DeliveryInv
<1>1. PICK i : i = pubState[p].set
  OBVIOUS
<1>. DEFINE left == EndedOf(i, c)
            dead == DeadOf(i, c)
            all == EntriesOf(i, c)
<1>2. left = {s \in Subscriptions : /\ subState[s].at = "ended"
                                    /\ subState[s].set = pubState[p].set
                                    /\ subState[s].req.callback = c}
  BY <1>1 DEF EndedOf
<1>3. p \in Publications /\ ToldHolds(p) /\ heard[c][p] \in Nat
  BY DEF TellingHolds, Published, RealtimeTyped
<1>4. Cardinality(left) \in Nat
  <2>1. left \in SUBSET Subscriptions
    BY DEF EndedOf
  <2>. HIDE DEF left
  <2>. QED
    BY <2>1, RealtimeAssumption, FS_Subset, FS_CardinalityType
<1>5. CASE i = NotASet
  BY <1>1, <1>2, <1>3, <1>4, <1>5 DEF ToldHolds
<1>6. CASE i # NotASet
  <2>1. i \in 1..Len(sets) /\ Len(sets[i]) \in Int
    <3>1. pubState[p] \in TellRecord /\ i <= Len(sets)
      BY <1>1 DEF RealtimeTyped
    <3>2. i \in Nat
      BY <1>1, <3>1 DEF TellRecord
    <3>3. sets \in Seq(Seq(Entry)) /\ Len(sets) \in Nat
      BY DEF RealtimeTyped
    <3>4. i \in 1..Len(sets)
      BY <1>6, <3>1, <3>2, <3>3 DEF NotASet
    <3>. QED
      BY <3>3, <3>4
  <2>2. SetHolds(i)
    BY <2>1 DEF MembersHold
  <2>3. Cardinality(dead) <= Cardinality(left)
    BY <2>2 DEF SetHolds
  <2>4. heard[c][p] <= Cardinality(all)
    BY <1>1, <1>3, <1>6 DEF ToldHolds
  <2>5. \E n : all \subseteq dead \cup {n}
    BY <2>2 DEF SetHolds, EntriesOf, DeadOf
  <2>6. IsFiniteSet(dead)
    <3>1. IsFiniteSet(1..Len(sets[i])) /\ dead \in SUBSET (1..Len(sets[i]))
      BY <2>1, FS_Interval DEF DeadOf
    <3>. HIDE DEF dead
    <3>. QED
      BY <3>1, FS_Subset
  <2>. HIDE DEF dead, left, all
  <2>7. PICK n : all \in SUBSET (dead \cup {n})
    BY <2>5
  <2>8. IsFiniteSet(dead \cup {n}) /\ Cardinality(dead) \in Nat
    BY <2>6, FS_AddElement, FS_CardinalityType
  <2>9. \/ Cardinality(dead \cup {n}) = Cardinality(dead)
        \/ Cardinality(dead \cup {n}) = Cardinality(dead) + 1
    BY <2>6, FS_AddElement
  <2>10. Cardinality(all) <= Cardinality(dead \cup {n}) /\ Cardinality(all) \in Nat
    BY <2>7, <2>8, FS_Subset, FS_CardinalityType
  <2>11. heard[c][p] <= 1 + Cardinality(left)
    BY <1>3, <1>4, <2>3, <2>4, <2>8, <2>9, <2>10
  <2>. QED
    BY <1>2, <2>11
<1>. QED
  BY <1>5, <1>6

(* Realtime: a publication is heard by those whose live subscription the documentation
   pairs with it, by each once for each time that it joined, and before publish returns by
   everyone its channel then has, for any channels, callbacks and calls. *)
THEOREM EveryoneHears == ServicesSpec => DeliveryIsExact
<1>1. ServicesInit => DeliveryInv
  <2>. SUFFICES ASSUME ServicesInit PROVE DeliveryInv
    OBVIOUS
  <2>1. /\ subscribers = <<>> /\ sets = <<>> /\ stack = <<>>
        /\ pubState = [p \in Publications |-> [at |-> "new"]]
        /\ subState = [s \in Subscriptions |-> [at |-> "new"]]
        /\ heard = [c \in Callbacks |-> [p \in Publications |-> 0]]
    BY DEF ServicesInit, RealtimeInit
  <2>2. Joined = {} /\ Published = {} /\ \A s \in Subscriptions : subState[s].at = "new"
    BY <2>1 DEF Joined, Published
  <2>3. Len(sets) = 0 /\ Len(stack) = 0 /\ sets \in Seq(Seq(Entry))
    BY <2>1, EmptySeq
  <2>4. StackTyped
    BY <2>1, <2>3, EmptySeq DEF StackTyped
  <2>5. RealtimeTyped
    BY <2>1, <2>2, <2>3 DEF RealtimeTyped
  <2>6. MembersHold
    BY <2>1, <2>2, <2>3 DEF MembersHold, OneChannelPerSet, Entered
  <2>7. TellingHolds
    BY <2>1, <2>2, <2>3 DEF TellingHolds, ToldHolds
  <2>. QED
    BY <2>4, <2>5, <2>6, <2>7 DEF DeliveryInv
<1>2. DeliveryInv /\ [ServicesNext]_servicesVars
      => DeliveryInv' /\ [DeliverStep]_rtVars /\ [NothingMissedStep]_rtVars
  BY DeliveryInvNext
<1>3. ServicesSpec => []HeardOncePerMembership /\ [][DeliverStep]_rtVars
                      /\ [][NothingMissedStep]_rtVars
  BY <1>1, <1>2, ToldOnce, PTL DEF ServicesSpec
<1>4. [][DeliverStep]_rtVars => HeardOnlyWhileSubscribed
  BY PTL DEF DeliverStep, HeardOnlyWhileSubscribed
<1>5. [][NothingMissedStep]_rtVars => NothingMissed
  BY PTL DEF NothingMissedStep, NothingMissed
<1>. QED
  BY <1>3, <1>4, <1>5 DEF DeliveryIsExact, HeardAsSubscribed
=============================================================================
