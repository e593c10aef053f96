------------------------------ MODULE Services ------------------------------
(***************************************************************************)
(* What one simulator owns beside its queue, its storage and its           *)
(* invocations: realtime channels, the object store, the code that was     *)
(* deployed with the variables it was deployed with, and the renders of    *)
(* its UI Kit modules (Rendering).  They share nothing but the simulator's *)
(* life: reset() (src/simulator.ts) clears all of them in one stretch,     *)
(* whatever is in progress; stop() closes the object store's server.       *)
(*                                                                         *)
(* Bound: a behaviour uses one of them, `inUse`, chosen at the start.      *)
(***************************************************************************)
EXTENDS Realtime, ObjectStore, Deploy, Rendering

VARIABLE inUse

servicesVars == <<rtVars, osVars, vrVars, dpVars, rnVars, inUse>>

SimulatorReset == /\ AppRuns
                  /\ ResetRealtime /\ ResetObjectStore
                  /\ ClearTables /\ ResetVariables(Simulator)
                  /\ IF inUse = "ui" THEN ResetUI ELSE UNCHANGED rnVars
                  /\ UNCHANGED <<appSource, edits, deployed, inUse>>

SimulatorStop == /\ inUse = "objects" /\ StopObjectStore
                 /\ UNCHANGED <<rtVars, vrVars, dpVars, rnVars, inUse>>

UseRealtime == /\ inUse = "realtime" /\ RealtimeNext
               /\ UNCHANGED <<osVars, vrVars, dpVars, rnVars, inUse>>

UseObjectStore == /\ inUse = "objects" /\ ObjectStoreNext
                  /\ UNCHANGED <<rtVars, vrVars, dpVars, rnVars, inUse>>

UseDeploy == /\ inUse = "deploys" /\ DeployNext
             /\ UNCHANGED <<rtVars, osVars, rnVars, inUse>>

UseUI == /\ inUse = "ui" /\ RenderingNext
         /\ UNCHANGED <<rtVars, osVars, vrVars, dpVars, inUse>>

ServicesInit == /\ RealtimeInit /\ ObjectStoreInit /\ DeployInit /\ RenderingInit
                /\ inUse \in {"realtime", "objects", "deploys", "ui"}
                /\ inUse = "deploys" \/ varFile = NoVars

ServicesNext == \/ UseRealtime \/ UseObjectStore \/ UseDeploy \/ UseUI
                \/ SimulatorReset \/ SimulatorStop

ServicesSpec == ServicesInit /\ [][ServicesNext]_servicesVars
=============================================================================
