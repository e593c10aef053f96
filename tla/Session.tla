------------------------------ MODULE Session -------------------------------
(***************************************************************************)
(* What a session of `forge-sim dev` keeps beside its simulator: the state *)
(* of the app that it saves and restores (StatePersistence), the           *)
(* directories that its renderer is installed in (Materialize), and what   *)
(* the type checker makes of the app's sources (TypeCheck).  The files of  *)
(* the first two are shared by all the sessions of the machine; none reads *)
(* another's.                                                              *)
(*                                                                         *)
(* Bound: a behaviour is about one of them, `aspect`, chosen at the start. *)
(***************************************************************************)
EXTENDS StatePersistence, Materialize, TypeCheck

VARIABLE aspect

sessionVars == <<vars, mzVars, tcVars, aspect>>

NotState == <<mzVars, tcVars, aspect>>
NotRenderer == <<vars, tcVars, aspect>>
NotTypes == <<vars, mzVars, aspect>>

UseState == aspect = "state" /\ Next /\ UNCHANGED NotState
UseRenderer == aspect = "renderer" /\ MaterializeNext /\ UNCHANGED NotRenderer
UseTypes == aspect = "types" /\ TypeCheckNext /\ UNCHANGED NotTypes

SessionInit ==
  /\ Init /\ MaterializeInit /\ TypeCheckInit
  /\ aspect \in {"state", "renderer", "types"}
  /\ aspect # "renderer" => \A s \in Starts : starts[s].at = "free" <=> InPlace(s)
  /\ aspect # "types" => tsc = "bundled" /\ faults = {} /\ ~proxied /\ ~ownConfig

SessionNext == UseState \/ UseRenderer \/ UseTypes

\* A process that is alive goes on with a save that it has begun, and with the rest of the
\* code that awaits nothing.  Neither npm nor tsc promises anything.
SessionFairness ==
  \A i \in Instances :
    /\ WF_sessionVars(aspect = "state" /\ Unlink(i) /\ UNCHANGED NotState)
    /\ \A s \in Savers :
         WF_sessionVars(aspect = "state" /\ SaveStep(i, s) /\ UNCHANGED NotState)

SessionSpec == SessionInit /\ [][SessionNext]_sessionVars /\ SessionFairness
=============================================================================
