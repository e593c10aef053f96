----------------------------- MODULE MCSession ------------------------------
(***************************************************************************)
(* Instances of Session for TLC.                                           *)
(*                                                                         *)
(* State: two runs of the dev server, each with or without --clean, one    *)
(* item per part, and two changes.                                         *)
(* Renderer: two processes of one version and one of another, or two in a  *)
(* checkout, and one day.                                                  *)
(* Types: a diagnostic that is advisory and one of a dependency, two saves *)
(* and one tools UI.                                                       *)
(***************************************************************************)
EXTENDS Session

MCVersionOf == [s \in {"r1", "r2", "r3", "c1", "c2"} |->
                  CASE s \in {"r1", "r2"} -> "1" [] s = "r3" -> "2" [] OTHER -> "checkout"]
MCPidOf == [s \in {"r1", "r2", "r3", "c1", "c2"} |->
              CASE s \in {"r1", "c1"} -> 1 [] s = "r2" -> 2 [] s = "r3" -> 3 [] s = "c2" -> 4]
MCSeverityOf == [e \in {"advisory", "theirs"} |-> e]
=============================================================================
