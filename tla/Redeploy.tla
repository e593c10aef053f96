------------------------------ MODULE Redeploy ------------------------------
(***************************************************************************)
(* Hot redeploy of `forge-sim dev`: the watcher of the dev server          *)
(* (src/dev-server.ts), the chain of deploy passes that a save sets off    *)
(* (src/dev-command.ts) and what the live documents of the browser         *)
(* (renderer/src/use-live-doc.ts) show of it.  A pass reads the manifest,  *)
(* drops every definition, and loads the functions file by file; the app   *)
(* may be saved again at any point.                                        *)
(*                                                                         *)
(* Messages of the socket arrive at once: a viewer only keeps a flag, and  *)
(* what it loses with its connection, it would not have read either.       *)
(*                                                                         *)
(* Bounds: MaxSaves saves, MaxDrops lost connections in all.               *)
(***************************************************************************)
EXTENDS SequencesExt

CONSTANTS Functions,    \* keys of the manifest's functions, in its order
          FileOf,       \* function -> the file of its handler
          ConsumerKey,  \* the function that consumes the app's queue
          Viewers,
          MaxSaves, MaxDrops

\* Every function has a handler in some file.
ASSUME RedeployAssumption == Functions \in Seq(DOMAIN FileOf)

FunctionKeys == ToSet(Functions)
Files == {FileOf[fn] : fn \in FunctionKeys}

VARIABLES source,       \* file -> [version, ok]: as saved, and whether it can be loaded
          manifestOk,   \* manifest.yml can be parsed
          saves, drops,
          watching,     \* the dev server runs
          unseen,       \* history: the last save came before the watcher
          armed,        \* the debounce timer runs
          passes,       \* the chain: its head runs, the others wait for it
          definitions,  \* function -> version of the code resolver.invoke() runs, or None
          consumer,     \* version of the code registered for the queue, or None
          viewers       \* viewer -> [connected, reloading, missed]

rdVars == <<source, manifestOk, saves, drops, watching, unseen, armed, passes,
            definitions, consumer, viewers>>

None == 0
NotBundled == 0
Failed == 0 - 1

\* A deploy pass: the functions still to load, and the module of each file it bundled.
NewPass(reload) ==
  [step |-> "parse", reload |-> reload, todo |-> Functions,
   module |-> [file \in Files |-> NotBundled]]

\* Mutant: a save starts its pass at once.
AnyTurn(i) == TRUE

\* redeployChain: a pass waits for the one before it.
Turn(i) == i = 1

\* sendEvent(): to every viewer that is connected; `reloading` is what it shows then.
Tell(reloading) ==
  [v \in Viewers |-> IF viewers[v].connected
                     THEN [viewers[v] EXCEPT !.reloading = reloading, !.missed = FALSE]
                     ELSE [viewers[v] EXCEPT !.missed = TRUE]]

-----------------------------------------------------------------------------
(* Saves, and the watcher *)

Saved == /\ saves < MaxSaves
         /\ saves' = saves + 1
         /\ armed' = watching
         /\ unseen' = ~watching
         /\ UNCHANGED <<drops, watching, passes, definitions, consumer, viewers>>

SaveSource(file, ok) ==
  /\ Saved
  /\ source' = [source EXCEPT ![file] = [version |-> @.version + 1, ok |-> ok]]
  /\ UNCHANGED manifestOk

SaveManifest(ok) ==
  /\ Saved
  /\ manifestOk' = ok
  /\ UNCHANGED source

\* The dev server starts once the pass of the start has ended.
StartWatching ==
  /\ ~watching /\ passes = <<>>
  /\ watching' = TRUE
  /\ UNCHANGED <<source, manifestOk, saves, drops, unseen, armed, passes, definitions,
                 consumer, viewers>>

DebounceFires ==
  /\ armed
  /\ armed' = FALSE
  /\ viewers' = Tell(TRUE)
  /\ passes' = Append(passes, NewPass(TRUE))
  /\ UNCHANGED <<source, manifestOk, saves, drops, watching, unseen, definitions, consumer>>

-----------------------------------------------------------------------------
(* A pass *)

\* parseManifest(); a pass that fails there leaves the definitions as they were, and the
\* pass of a save drops them all before it awaits the variables.
ParseManifest(i) ==
  /\ passes[i].step = "parse" /\ Turn(i)
  /\ IF manifestOk
     THEN /\ passes' = [passes EXCEPT ![i].step = "load"]
          /\ definitions' = IF passes[i].reload THEN [fn \in FunctionKeys |-> None]
                            ELSE definitions
          /\ UNCHANGED viewers
     ELSE /\ passes' = RemoveAt(passes, i)
          /\ viewers' = Tell(FALSE)
          /\ UNCHANGED definitions
  /\ UNCHANGED <<source, manifestOk, saves, drops, watching, unseen, armed, consumer>>

\* bundleHandlerToFileUrl(): once in a pass for each file that can be bundled.
Bundle(i) ==
  LET file == FileOf[Head(passes[i].todo)] IN
  /\ passes[i].step = "load" /\ passes[i].todo # <<>>
  /\ passes[i].module[file] = NotBundled
  /\ passes' = [passes EXCEPT ![i].module[file] =
                  IF source[file].ok THEN source[file].version ELSE Failed]
  /\ UNCHANGED <<source, manifestOk, saves, drops, watching, unseen, armed, definitions,
                 consumer, viewers>>

\* The module is imported, or comes from the cache, and the function is defined.  A file
\* that failed is tried again for its next function.
LoadFunction(i) ==
  LET fn == Head(passes[i].todo)
      version == passes[i].module[FileOf[fn]]
  IN /\ passes[i].step = "load" /\ passes[i].todo # <<>>
     /\ version # NotBundled
     /\ definitions' = IF version = Failed THEN definitions
                       ELSE [definitions EXCEPT ![fn] = version]
     /\ passes' = [passes EXCEPT ![i].todo = Tail(@),
                                 ![i].module[FileOf[fn]] =
                                   IF version = Failed THEN NotBundled ELSE @]
     /\ UNCHANGED <<source, manifestOk, saves, drops, watching, unseen, armed, consumer,
                    viewers>>

\* Mutant: 'ready' goes out only with a new document, which a hot redeploy has not got.
NothingToTell(reload) == viewers

ReadyTold(reload) == IF reload THEN Tell(FALSE) ELSE viewers

\* The manifest's data and the consumers; a consumer whose function is missing stays.
FinishPass(i) ==
  /\ passes[i].step = "load" /\ passes[i].todo = <<>>
  /\ consumer' = IF definitions[ConsumerKey] # None THEN definitions[ConsumerKey]
                 ELSE consumer
  /\ passes' = RemoveAt(passes, i)
  /\ viewers' = ReadyTold(passes[i].reload)
  /\ UNCHANGED <<source, manifestOk, saves, drops, watching, unseen, armed, definitions>>

-----------------------------------------------------------------------------
(* A viewer: its connection closes, and is opened again after two seconds. *)

ViewerConnects(v) ==
  /\ watching /\ ~viewers[v].connected
  /\ viewers' = [viewers EXCEPT ![v].connected = TRUE]
  /\ UNCHANGED <<source, manifestOk, saves, drops, watching, unseen, armed, passes,
                 definitions, consumer>>

ViewerDropped(v) ==
  /\ viewers[v].connected /\ drops < MaxDrops
  /\ drops' = drops + 1
  /\ viewers' = [viewers EXCEPT ![v].connected = FALSE]
  /\ UNCHANGED <<source, manifestOk, saves, watching, unseen, armed, passes, definitions,
                 consumer>>

RedeployInit ==
  /\ source = [file \in Files |-> [version |-> 1, ok |-> TRUE]]
  /\ manifestOk = TRUE
  /\ saves = 0 /\ drops = 0
  /\ watching = FALSE /\ unseen = FALSE /\ armed = FALSE
  /\ passes = <<[NewPass(FALSE) EXCEPT !.step = "load"]>>
  /\ definitions = [fn \in FunctionKeys |-> None]
  /\ consumer = None
  /\ viewers = [v \in Viewers |-> [connected |-> FALSE, reloading |-> FALSE, missed |-> FALSE]]

RedeployNext ==
  \/ \E file \in Files, ok \in BOOLEAN : SaveSource(file, ok)
  \/ \E ok \in BOOLEAN : SaveManifest(ok)
  \/ StartWatching
  \/ DebounceFires
  \/ \E i \in DOMAIN passes :
       ParseManifest(i) \/ Bundle(i) \/ LoadFunction(i) \/ FinishPass(i)
  \/ \E v \in Viewers : ViewerConnects(v) \/ ViewerDropped(v)

-----------------------------------------------------------------------------
(* Properties *)

AllQuiet == ~armed /\ passes = <<>>

\* When every pass has ended, the app runs what was saved last, however the saves fell
\* into the passes: each function whose file loads is the code of that file, each other
\* one is gone, and the queue's events go to the new code.  (Not when the manifest is
\* broken, and not when the last save came before the watcher started.)
SettledMeansFresh ==
  AllQuiet /\ watching /\ ~unseen /\ manifestOk =>
    \A fn \in FunctionKeys :
      LET file == FileOf[fn] IN
      /\ source[file].ok => /\ definitions[fn] = source[file].version
                            /\ fn = ConsumerKey => consumer = source[file].version
      /\ ~source[file].ok /\ saves > 0 => definitions[fn] = None

\* When every pass has ended, no viewer that got every message still shows a redeploy in
\* progress, whether the passes succeeded or failed.
NoViewerStuck ==
  AllQuiet => \A v \in Viewers : viewers[v].reloading => viewers[v].missed

\* When every pass has ended, the app is what was saved and the viewers know it.
RedeploySettles == SettledMeansFresh /\ NoViewerStuck
=============================================================================
