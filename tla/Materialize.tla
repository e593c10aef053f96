---------------------------- MODULE Materialize -----------------------------
(***************************************************************************)
(* Where `forge-sim dev` takes the sources and dependencies of its         *)
(* renderer from: materializeRenderer() (renderer-deps.ts).  An installed  *)
(* package copies its renderer into a directory of its own, has npm        *)
(* install there, renames it to the directory of its version and removes   *)
(* those of other versions; a checkout installs in place.  Several         *)
(* processes may do so at a time, and each may be killed.                  *)
(*                                                                         *)
(* A directory is "absent", "empty of manifest" ("husk": package.json is   *)
(* gone), or holds its "sources" without some direct dependency, every     *)
(* "direct" one without some of theirs, or the "whole" tree.  npm is       *)
(* external: how far it got is known only when it succeeds.                *)
(*                                                                         *)
(* Bounds: Starts are all the processes, and MaxDays the days; an install  *)
(* takes less than one.  In a behaviour either the checkout is started or  *)
(* the installed packages are: they share no directory.                    *)
(***************************************************************************)
EXTENDS Naturals, FiniteSets

CONSTANTS Starts,
          Checkout,     \* the version of what is not an installed package
          VersionOf,    \* start -> version of forge-sim, or Checkout
          PidOf,        \* start -> process id
          MaxDays

VARIABLES level,        \* place -> how much of a renderer is there
          old,          \* the temporary directories that are older than a day
          starts,       \* start -> [at, left (entries prune has not come to), and history:
                        \* fresh (it installed), npm (what it had done failed)]
          swept,        \* history: [place, by], what prune removed from, for which version
          spoilt,       \* history: an install in the checkout failed, was killed or overlapped
          days

mzVars == <<level, old, starts, swept, spoilt, days>>

Place(kind, version, pid) == [kind |-> kind, version |-> version, pid |-> pid]

Target(s) == Place("target", VersionOf[s], 0)
Tmp(s) == Place("tmp", VersionOf[s], PidOf[s])
Places == {Target(s) : s \in Starts} \cup {Tmp(s) : s \in Starts}

InPlace(s) == VersionOf[s] = Checkout
Over == {"free", "failed", "dead"}
StillRuns(s) == starts[s].at \notin Over

\* missingDepsIn(): nothing is missing from a directory that has no package.json, and only
\* direct dependencies are looked for.
NothingMissing(l) == l \in {"husk", "direct", "whole"}

\* How far npm may have come.
Partial == {"sources", "direct", "whole"}

-----------------------------------------------------------------------------
(* A start *)

\* The warm path, or the first run.  A process id is used by one process at a time.
MaterializeRenderer(s) ==
  LET next == IF NothingMissing(level[Target(s)]) THEN "serving"
              ELSE IF InPlace(s) THEN "installing" ELSE "preparing"
  IN
  /\ starts[s].at = "free"
  /\ \A q \in Starts : StillRuns(q) => PidOf[q] # PidOf[s]
  /\ starts' = [starts EXCEPT ![s].at = next]
  /\ spoilt' = (spoilt \/ (next = "installing"
                           /\ \E q \in Starts : InPlace(q) /\ starts[q].at = "installing"))
  /\ UNCHANGED <<level, old, swept, days>>

\* The temporary directory is made anew, and the packaged sources are copied.
Prepare(s) ==
  /\ starts[s].at = "preparing"
  /\ starts' = [starts EXCEPT ![s].at = "installing"]
  /\ level' = [level EXCEPT ![Tmp(s)] = "sources"]
  /\ old' = old \ {Tmp(s)}
  /\ UNCHANGED <<swept, spoilt, days>>

\* Mutant: npm installs into the directory of the version.
InstallsInTarget(s) == Target(s)

InstallDir(s) == IF InPlace(s) THEN Target(s) ELSE Tmp(s)

\* npm says it succeeded, and did, or the lockfile leaves a dependency out; or it failed.
Outcomes(s) ==
  {[ok |-> FALSE, level |-> l] : l \in Partial}
  \cup IF level[InstallDir(s)] \in {"absent", "husk"} THEN {}
       ELSE {[ok |-> TRUE, level |-> l] : l \in {"sources", "whole"}}

InstallEnds(s, outcome) ==
  LET done == outcome.ok /\ NothingMissing(outcome.level) IN
  /\ starts[s].at = "installing"
  /\ outcome \in Outcomes(s)
  /\ level' = [level EXCEPT ![InstallDir(s)] = outcome.level]
  /\ starts' = [starts EXCEPT ![s].fresh = TRUE, ![s].npm = ~done,
                  ![s].at = IF ~done THEN "failed" ELSE IF InPlace(s) THEN "serving"
                            ELSE "promoting"]
  /\ spoilt' = (spoilt \/ (InPlace(s) /\ ~done))
  /\ UNCHANGED <<old, swept, days>>

\* What pruneOldRenderers() finds in the directory.
Entries(s) == {e \in Places : level[e] # "absent" /\ e # Target(s) /\ e.version # Checkout}

\* renameSync(): onto nothing, or onto a directory that has become empty.
Rename(s) ==
  /\ starts[s].at = "promoting"
  /\ level[Target(s)] \in {"absent", "husk"}
  /\ level' = [level EXCEPT ![Target(s)] = level[Tmp(s)], ![Tmp(s)] = "absent"]
  /\ starts' = [starts EXCEPT ![s].at = "pruning",
                              ![s].left = {e \in Entries(s) : e # Tmp(s)}]
  /\ UNCHANGED <<old, swept, spoilt, days>>

RenameFails(s) ==
  /\ starts[s].at = "promoting"
  /\ level[Target(s)] # "absent"
  /\ starts' = [starts EXCEPT ![s].at = "beaten"]
  /\ UNCHANGED <<level, old, swept, spoilt, days>>

\* Mutant: the error of the rename is thrown.
GivesUp(s) == FALSE

\* Somebody else's install may be used instead.
UsesTheirs(s) == NothingMissing(level[Target(s)])

AfterRace(s) ==
  /\ starts[s].at = "beaten"
  /\ level' = IF UsesTheirs(s) THEN [level EXCEPT ![Tmp(s)] = "absent"] ELSE level
  /\ starts' = [starts EXCEPT ![s].at = IF UsesTheirs(s) THEN "pruning" ELSE "failed",
                  ![s].left = IF UsesTheirs(s) THEN {e \in Entries(s) : e # Tmp(s)} ELSE {}]
  /\ UNCHANGED <<old, swept, spoilt, days>>

-----------------------------------------------------------------------------
(* pruneOldRenderers() *)

\* Mutant: a temporary directory is removed whatever its age.
Everything(e) == TRUE

\* The directories of other versions, used or not, and temporary ones of another day.
Prunable(e) == e.kind = "target" \/ e \in old

\* An entry that is gone, or young, or that cannot be removed is skipped.
SkipEntry(s, e) ==
  /\ starts[s].at = "pruning"
  /\ e \in starts[s].left
  /\ starts' = [starts EXCEPT ![s].left = @ \ {e}]
  /\ UNCHANGED <<level, old, swept, spoilt, days>>

\* rmSync() takes the files in the order the directory has them; it may be stopped, or fail,
\* at any.
Below(l) ==
  CASE l = "absent" -> {}
    [] l = "husk" -> {"absent"}
    [] l = "sources" -> {"husk", "absent"}
    [] l = "direct" -> {"sources", "husk", "absent"}
    [] l = "whole" -> {"direct", "sources", "husk", "absent"}

RemoveSome(s, e, l) ==
  /\ starts[s].at = "pruning"
  /\ e \in starts[s].left /\ Prunable(e)
  /\ l \in Below(level[e])
  /\ level' = [level EXCEPT ![e] = l]
  /\ starts' = IF l = "absent" THEN [starts EXCEPT ![s].left = @ \ {e}] ELSE starts
  /\ swept' = swept \cup {[place |-> e, by |-> VersionOf[s]]}
  /\ old' = IF l = "absent" THEN old \ {e} ELSE old
  /\ UNCHANGED <<spoilt, days>>

HandOver(s) ==
  /\ starts[s].at = "pruning" /\ starts[s].left = {}
  /\ starts' = [starts EXCEPT ![s].at = "serving"]
  /\ UNCHANGED <<level, old, swept, spoilt, days>>

-----------------------------------------------------------------------------
(* What may happen to a process, and time *)

\* Killed, or stopped by its user; npm goes with it.
Killed(s, l) ==
  /\ starts[s].at \notin Over
  /\ IF starts[s].at = "installing" THEN l \in Partial ELSE l = level[Target(s)]
  /\ level' = IF starts[s].at = "installing" THEN [level EXCEPT ![InstallDir(s)] = l] ELSE level
  /\ starts' = [starts EXCEPT ![s].at = "dead", ![s].left = {}]
  /\ spoilt' = (spoilt \/ (starts[s].at = "installing" /\ InPlace(s)))
  /\ UNCHANGED <<old, swept, days>>

ADayPasses ==
  /\ days < MaxDays
  /\ \A s \in Starts : starts[s].at \notin {"installing", "promoting", "beaten"}
  /\ days' = days + 1
  /\ old' = {e \in Places : e.kind = "tmp" /\ level[e] # "absent"}
  /\ UNCHANGED <<level, starts, swept, spoilt>>

MaterializeInit ==
  /\ level = [e \in Places |->
                IF e = Place("target", Checkout, 0) THEN "sources" ELSE "absent"]
  /\ old = {}
  /\ \E inPlace \in BOOLEAN :
       starts = [s \in Starts |-> [at |-> IF InPlace(s) = inPlace THEN "free" ELSE "dead",
                                  left |-> {}, fresh |-> FALSE, npm |-> FALSE]]
  /\ swept = {}
  /\ spoilt = FALSE
  /\ days = 0

MaterializeNext ==
  \/ \E s \in Starts :
       \/ MaterializeRenderer(s) \/ Prepare(s)
       \/ \E outcome \in Outcomes(s) : InstallEnds(s, outcome)
       \/ Rename(s) \/ RenameFails(s) \/ AfterRace(s) \/ HandOver(s)
       \/ \E e \in starts[s].left : \/ SkipEntry(s, e)
                                    \/ \E l \in Below(level[e]) : RemoveSome(s, e, l)
       \/ \E l \in Partial \cup {level[Target(s)]} : Killed(s, l)
  \/ ADayPasses

-----------------------------------------------------------------------------
SweptByOthers(s) == \E x \in swept : x.place = Target(s) /\ x.by # VersionOf[s]

(* "An interrupted install can never present as complete" (renderer-deps.ts):
   what a server was handed over has its whole tree for as long as it serves,
   unless another version's housekeeping took it.  In a checkout that is so
   unless an install there was interrupted, failed or overlapped. *)
InstallsAreWhole ==
  \A s \in Starts : starts[s].at = "serving" =>
    \/ level[Target(s)] = "whole"
    \/ SweptByOthers(s)
    \/ (InPlace(s) /\ spoilt)

(* A start fails only if npm did, or if another version's housekeeping was
   at the directory of its own: processes that install the same version at
   the same time all get one, and one that installed leaves no temporary
   directory behind. *)
StartsFailForCause ==
  \A s \in Starts :
    /\ starts[s].at = "failed" => starts[s].npm \/ SweptByOthers(s)
    /\ (starts[s].at = "serving" /\ starts[s].fresh) => level[Tmp(s)] = "absent"

(* Both: who waits for a renderer gets a whole one, or a reason. *)
RenderersHold == InstallsAreWhole /\ StartsFailForCause
=============================================================================
