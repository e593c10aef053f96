------------------------------ MODULE TypeCheck -----------------------------
(***************************************************************************)
(* The type checker of a session of `forge-sim dev` (type-checker.ts):     *)
(* `tsc --watch` runs beside the dev server, its output arrives in chunks, *)
(* and the tools UI shows what the last cycle found.  A deploy that checks *)
(* types runs tsc once (typeCheck()).                                      *)
(*                                                                         *)
(* tsc is external: a cycle checks what the files held when it began, and  *)
(* prints the line that says so, its diagnostics, and the line that counts *)
(* them.  A line that is cut by a chunk counts with the chunk that holds   *)
(* its end.                                                                *)
(*                                                                         *)
(* Bounds: MaxSaves changes of the app, each of which decides its          *)
(* diagnostics anew; a tsconfig.json may be added and stays.               *)
(***************************************************************************)
EXTENDS Naturals, SequencesExt

CONSTANTS Diagnostics,
          SeverityOf,   \* diagnostic -> "critical", "plain", "theirs" (a critical code in
                        \* node_modules), "advisory" (of a plain JS file, TS2339) or
                        \* "shimmed" (TS2307 of @forge/*)
          Tabs,         \* tools UIs
          MaxSaves

ASSUME DiagnosticsAssumption == IsFiniteSet(Diagnostics)

VARIABLES tsc,          \* the compiler resolveTsc() finds: "app's", "bundled" or "none"
          proxied,      \* the app has its own dev server (proxy mode)
          faults,       \* the diagnostics the files have now
          ownConfig,    \* the app has a tsconfig.json
          watch,        \* [at, seen (the faults it checks), dirty (a save since), own]
          pipe,         \* lines printed and not yet read
          buffer,       \* processOutput()'s
          known,        \* the watcher's [errors, checking]
          lastTypeErrors,  \* what a new tools UI is told, or Untold
          tabs,         \* tools UI -> what it shows, or Closed
          mixed,        \* history: [report, rest]: lines of another cycle were in the last
                        \* report, lines of the next one were dropped with it
          saves

tcVars == <<tsc, proxied, faults, ownConfig, watch, pipe, buffer, known, lastTypeErrors,
            tabs, mixed, saves>>

Untold == [errors |-> {}, critical |-> {}, checking |-> FALSE, told |-> FALSE]
Closed == [Untold EXCEPT !.checking = TRUE]

Told(errors, critical, checking) ==
  [errors |-> errors, critical |-> critical, checking |-> checking, told |-> TRUE]

-----------------------------------------------------------------------------
(* Pure functions of type-checker.ts *)

\* The app's own compiler if it is recent (or of no known version), else the bundled one.
ResolveTsc(version, binary, bundled) ==
  IF version # "old" /\ binary THEN "app's" ELSE IF bundled THEN "bundled" ELSE "none"

\* filterJsAdvisoryErrors()
Kept(errors, own) ==
  IF own THEN errors
  ELSE {e \in errors : SeverityOf[e] \notin {"advisory", "shimmed"}}

\* filterCriticalErrors(): by code, and not in node_modules.
Critical(errors) == {e \in errors : SeverityOf[e] \notin {"plain", "theirs"}}

\* typeCheck(): what a deploy is told now.
DeployIsTold == IF tsc = "none" THEN {} ELSE Kept(faults, ownConfig)

-----------------------------------------------------------------------------
(* tsc --watch *)

Line(kind, d) == [kind |-> kind, d |-> d]
Starting == Line("start", "")
Found == Line("found", "")

\* startTypeCheckWatch(): whether the app has a tsconfig is asked once.
StartWatch ==
  /\ watch.at = "off" /\ tsc # "none"
  /\ watch' = [at |-> "checking", seen |-> faults, dirty |-> FALSE, own |-> ownConfig]
  /\ pipe' = <<Starting>>
  /\ known' = [errors |-> {}, checking |-> TRUE]
  /\ UNCHANGED <<tsc, proxied, faults, ownConfig, buffer, lastTypeErrors, tabs, mixed, saves>>

CycleEnds ==
  /\ watch.at = "checking"
  /\ watch' = [watch EXCEPT !.at = "idle"]
  /\ pipe' = pipe \o [i \in 1..Cardinality(watch.seen) |->
                         Line("diagnostic", SetToSeq(watch.seen)[i])] \o <<Found>>
  /\ UNCHANGED <<tsc, proxied, faults, ownConfig, buffer, known, lastTypeErrors, tabs, mixed,
                 saves>>

CycleBegins ==
  /\ watch.at = "idle" /\ watch.dirty
  /\ watch' = [watch EXCEPT !.at = "checking", !.seen = faults, !.dirty = FALSE]
  /\ pipe' = Append(pipe, Starting)
  /\ UNCHANGED <<tsc, proxied, faults, ownConfig, buffer, known, lastTypeErrors, tabs, mixed,
                 saves>>

\* Nobody is told of its exit.
TscDies ==
  /\ watch.at \in {"checking", "idle"}
  /\ watch' = [watch EXCEPT !.at = "dead"]
  /\ UNCHANGED <<tsc, proxied, faults, ownConfig, pipe, buffer, known, lastTypeErrors, tabs,
                 mixed, saves>>

SaveFile(next, config) ==
  /\ saves < MaxSaves
  /\ saves' = saves + 1
  /\ faults' = next
  /\ ownConfig' = (ownConfig \/ config)
  /\ watch' = [watch EXCEPT !.dirty = TRUE]
  /\ UNCHANGED <<tsc, proxied, pipe, buffer, known, lastTypeErrors, tabs, mixed>>

-----------------------------------------------------------------------------
(* processOutput() *)

KindsIn(lines) == {lines[i].kind : i \in DOMAIN lines}
ErrorsIn(lines) == {l.d : l \in {lines[i] : i \in {j \in DOMAIN lines :
                                                     lines[j].kind = "diagnostic"}}}

\* Mutant: what was reported is reported again.
KeepsItAll(lines) == lines

\* The buffer is emptied with the report, whatever follows the line that counts.
AfterReport(lines) == <<>>

\* Every tools UI that is open shows it, and later ones are told (tools/server.ts).
Broadcast(message) ==
  /\ lastTypeErrors' = message
  /\ tabs' = [t \in Tabs |-> IF tabs[t] = Closed THEN Closed ELSE message]

\* A chunk that holds more than the rest of one cycle.
Overflows(chunk) ==
  Last(chunk) # Found \/ Cardinality({i \in DOMAIN chunk : chunk[i] = Found}) > 1

Report(lines, chunk) ==
  LET errors == Kept(ErrorsIn(lines), watch.own) IN
  /\ known' = [errors |-> errors, checking |-> FALSE]
  /\ Broadcast(Told(errors, Critical(errors), FALSE))
  /\ buffer' = AfterReport(lines)
  /\ mixed' = [report |-> mixed.rest \/ Overflows(chunk), rest |-> Last(chunk) # Found]

\* In proxy mode nobody is told that a check begins.
StillChecking(lines) ==
  /\ buffer' = lines
  /\ known' = [known EXCEPT !.checking = @ \/ "start" \in KindsIn(lines)]
  /\ IF "start" \in KindsIn(lines) /\ ~proxied THEN Broadcast(Told({}, {}, TRUE))
     ELSE UNCHANGED <<lastTypeErrors, tabs>>
  /\ UNCHANGED mixed

Chunk(n) ==
  LET chunk == SubSeq(pipe, 1, n)
      lines == buffer \o chunk
  IN
  /\ n \in 1..Len(pipe)
  /\ pipe' = SubSeq(pipe, n + 1, Len(pipe))
  /\ IF "found" \in KindsIn(lines) THEN Report(lines, chunk) ELSE StillChecking(lines)
  /\ UNCHANGED <<tsc, proxied, faults, ownConfig, watch, saves>>

\* Mutant: a tools UI that opens waits for the next cycle.
TellsNothing == Untold

\* What a tools UI is told when it connects, if there is anything.
Greeting == lastTypeErrors

OpenTab(t) ==
  /\ tabs[t] = Closed
  /\ tabs' = [tabs EXCEPT ![t] = Greeting]
  /\ UNCHANGED <<tsc, proxied, faults, ownConfig, watch, pipe, buffer, known, lastTypeErrors,
                 mixed, saves>>

TypeCheckInit ==
  /\ \E version \in {"none", "old", "recent"}, binary, bundled \in BOOLEAN :
       tsc = ResolveTsc(version, binary, bundled)
  /\ proxied \in BOOLEAN
  /\ faults \in SUBSET Diagnostics
  /\ ownConfig \in BOOLEAN
  /\ watch = [at |-> "off", seen |-> {}, dirty |-> FALSE, own |-> FALSE]
  /\ pipe = <<>>
  /\ buffer = <<>>
  /\ known = [errors |-> {}, checking |-> FALSE]
  /\ lastTypeErrors = Untold
  /\ tabs = [t \in Tabs |-> Closed]
  /\ mixed = [report |-> FALSE, rest |-> FALSE]
  /\ saves = 0

TypeCheckNext ==
  \/ StartWatch \/ CycleEnds \/ CycleBegins \/ TscDies
  \/ \E next \in SUBSET Diagnostics, config \in BOOLEAN : SaveFile(next, config)
  \/ \E n \in 1..Len(pipe) : Chunk(n)
  \/ \E t \in Tabs : OpenTab(t)

-----------------------------------------------------------------------------
(* Once tsc has checked the last save and all it printed was read, the
   watcher and every tools UI, opened before, during or after, show the very
   errors a deploy would be told, and none shows a check under way: unless the
   output of that cycle shared a chunk with another's (processOutput() drops
   what follows a report), a tsconfig.json was added, or tsc died. *)
TypeErrorsAreCurrent ==
  (/\ watch.at = "idle" /\ ~watch.dirty /\ pipe = <<>>
   /\ watch.own = ownConfig /\ ~mixed.report)
  => /\ known = [errors |-> DeployIsTold, checking |-> FALSE]
     /\ \A t \in Tabs :
          tabs[t] # Closed => tabs[t] = Told(DeployIsTold, Critical(DeployIsTold), FALSE)
=============================================================================
