----------------------------- MODULE Rendering -----------------------------
(***************************************************************************)
(* How the tests and the tools of the MCP server render a UI Kit module:   *)
(* sim.ui.render() and sim.ui.waitForContent() (ui/simulator-ui.ts), and   *)
(* the bridge that gets every commit of React (ui/bridge.ts).  A render    *)
(* imports the bundle and waits, with timeouts, for a commit; the waiters  *)
(* of the bridge are settled by any commit, whoever made it.  What a       *)
(* render means for the context of an invocation is in Invocation.         *)
(*                                                                         *)
(* Bounds: Renders and Waits are all the calls, the first render is of     *)
(* FirstModule (the keys are interchangeable); MaxExtras counts the late   *)
(* re-renders of a mounted tree and the resets together.                   *)
(***************************************************************************)
EXTENDS Naturals, FiniteSets

CONSTANTS Modules,      \* keys of UI Kit modules
          FirstModule,
          Renders,      \* calls of render() and refresh(), numbered from 1
          Waits,        \* calls of waitForContent(), all for the same text
          LoaderCaches, \* the module loader ignores `?t=`, as the one of vitest does
          MaxExtras

None == "none"
NoDoc == [of |-> None, by |-> 0, text |-> FALSE]

ASSUME RenderingAssumption == None \notin Modules

VARIABLES docs,         \* module -> moduleDocs: [of, by, text], or NoDoc
          captured,     \* module -> the module whose element is captured under it, or None
          capturing,    \* activeCaptureModuleKey
          evaluated,    \* the bundles the loader holds
          renderError,  \* latestRenderError is set
          mounts,       \* trees whose next commit is under way: [by, of, scope, how]
          renders,      \* call of render() -> [module, at, waiter, threw, doc], and history:
                        \* landed (its mount was committed) and excused (another commit
                        \* or a reset came between, or it failed, or ended too early)
          waits,        \* call of waitForContent() -> [module, at, render, candidate, got],
                        \* and history: bare (its module had no doc when it ended)
          overlapped,   \* history: a render began while another was under way
          extras

rnVars == <<docs, captured, capturing, evaluated, renderError, mounts, renders, waits,
            overlapped, extras>>

UnderWay(r) == renders[r].at \notin {"free", "done"}

-----------------------------------------------------------------------------
(* render(): simulator-ui.ts *)

\* Up to the await of buildForgeContext().  A one-shot macroConfig, and refresh(), drop the
\* doc of the module first.
Begins(r, m, fresh) ==
  /\ renders[r].at = "free"
  /\ r = Cardinality({q \in Renders : renders[q].at # "free"}) + 1
  /\ r = 1 => m = FirstModule
  /\ renders' = [renders EXCEPT ![r].at = "context", ![r].module = m]
  /\ capturing' = m
  /\ docs' = IF fresh THEN [docs EXCEPT ![m] = NoDoc] ELSE docs
  /\ overlapped' = (overlapped \/ \E q \in Renders : UnderWay(q))

BeginRender(r, m, fresh) ==
  /\ Begins(r, m, fresh)
  /\ UNCHANGED <<captured, evaluated, renderError, mounts, waits, extras>>

\* waitForRender() registers the waiter before the import.
AwaitImport(r) ==
  /\ renders[r].at = "context"
  /\ renders' = [renders EXCEPT ![r].at = "import", ![r].waiter = "waiting"]
  /\ UNCHANGED <<docs, captured, capturing, evaluated, renderError, mounts, waits,
                 overlapped, extras>>

\* replayCapturedRender(): the captured element is rendered again, into a fresh container.
ReplayOf(r, elements) ==
  LET m == renders[r].module IN
  IF elements[m] = None THEN {}
  ELSE {[by |-> r, of |-> elements[m], scope |-> m, how |-> "replay"]}

\* The bundle's ForgeReconciler.render(<App />): the shim captures the element under the
\* module that captures now, and React's commit runs in the scope of this render.
Evaluates(r) == ~LoaderCaches \/ renders[r].module \notin evaluated

Elements(r) ==
  IF Evaluates(r) THEN [c \in Modules |-> IF c = capturing THEN renders[r].module ELSE captured[c]]
  ELSE captured

\* Mutant: a module that has a doc needs no replay.
ReplayOnlyTheBare(r) == "mount"

\* A module with no doc is replayed at once; one with a doc is given 100 ms to commit.
NextWait(r) == IF docs[renders[r].module] = NoDoc THEN "mount" ELSE "pulse"

Import(r) ==
  LET m == renders[r].module
      mounted == [by |-> r, of |-> m, scope |-> m, how |-> "import"]
  IN
  /\ renders[r].at = "import"
  /\ captured' = Elements(r)
  /\ evaluated' = evaluated \cup {m}
  /\ renders' = [renders EXCEPT ![r].at = NextWait(r)]
  /\ mounts' = mounts \cup (IF Evaluates(r) THEN {mounted} ELSE {})
                      \cup (IF docs[m] = NoDoc THEN ReplayOf(r, Elements(r)) ELSE {})
  /\ UNCHANGED <<docs, capturing, renderError, waits, overlapped, extras>>

Settled(r) == renders[r].waiter \in {"resolved", "rejected"}

\* The 100 ms are over and nothing was committed: the captured element is replayed.
ReplayMissingPulse(r) ==
  /\ renders[r].at = "pulse"
  /\ ~Settled(r)
  /\ ReplayOf(r, captured) # {}
  /\ renders' = [renders EXCEPT ![r].at = "mount"]
  /\ mounts' = mounts \cup ReplayOf(r, captured)
  /\ UNCHANGED <<docs, captured, capturing, evaluated, renderError, waits, overlapped,
                 extras>>

\* The race of the waiter with the timer that is left is over: `renderError ??
\* consumeRenderError()`, the finally block, and the answer.
EndRender(r) ==
  LET rejected == renders[r].waiter = "rejected"
      threw == rejected \/ renderError
  IN
  /\ \/ renders[r].at = "mount"
     \/ renders[r].at = "pulse" /\ (Settled(r) \/ ReplayOf(r, captured) = {})
  /\ renderError' = (renderError /\ rejected)
  /\ capturing' = None
  /\ renders' = [renders EXCEPT ![r].at = "done", ![r].waiter = None, ![r].threw = threw,
                   ![r].doc = IF threw THEN NoDoc ELSE docs[renders[r].module],
                   ![r].excused = @ \/ (~renders[r].landed /\ \E x \in mounts : x.by = r)]
  /\ UNCHANGED <<docs, captured, evaluated, mounts, waits, overlapped, extras>>

\* The import throws, or the context cannot be built.
FailRender(r) ==
  /\ renders[r].at \in {"context", "import"}
  /\ renders' = [renders EXCEPT ![r].at = "done", ![r].waiter = None, ![r].threw = TRUE,
                               ![r].excused = TRUE]
  /\ capturing' = IF renders[r].at = "import" THEN None ELSE capturing
  /\ UNCHANGED <<docs, captured, evaluated, renderError, mounts, waits, overlapped, extras>>

-----------------------------------------------------------------------------
(* handleReconcile(): bridge.ts, and the listener that files the doc *)

\* Every pending waiter is settled, and forgotten by the bridge.
SettleWaiters(x, how) ==
  renders' = [r \in Renders |->
    IF ~UnderWay(r) THEN renders[r]
    ELSE [renders[r] EXCEPT !.waiter = IF @ = "waiting" THEN how ELSE @,
                            !.excused = @ \/ x.by # r,
                            !.landed = @ \/ x.by = r]]

\* The tree may commit again later: an effect that sets state.
Commits(x, again) ==
  /\ x \in mounts
  /\ again => extras < MaxExtras
  /\ mounts' = IF again THEN mounts ELSE mounts \ {x}
  /\ extras' = IF again THEN extras + 1 ELSE extras

\* A watcher of waitForContent() listens to its module and, in case a commit was filed
\* elsewhere, to all commits.
Watched(doc) ==
  [w \in Waits |-> IF waits[w].at = "watching" /\ doc.text
                   THEN [waits[w] EXCEPT !.at = "settling", !.candidate = doc]
                   ELSE waits[w]]

Land(x, text, again) ==
  LET doc == [of |-> x.of, by |-> x.by, text |-> text] IN
  /\ Commits(x, again)
  /\ SettleWaiters(x, "resolved")
  /\ renderError' = FALSE
  /\ docs' = [docs EXCEPT ![x.scope] = doc]
  /\ waits' = Watched(doc)
  /\ UNCHANGED <<captured, capturing, evaluated, overlapped>>

\* UIK-003: a tree with raw HTML is not published.
LandRawHtml(x, again) ==
  /\ Commits(x, again)
  /\ SettleWaiters(x, "rejected")
  /\ renderError' = TRUE
  /\ UNCHANGED <<docs, captured, capturing, evaluated, waits, overlapped>>

\* reset(): the docs go, and resetBridge() forgets the waiters and the error.
ResetUI ==
  /\ extras < MaxExtras
  /\ extras' = extras + 1
  /\ docs' = [m \in Modules |-> NoDoc]
  /\ renderError' = FALSE
  /\ renders' = [r \in Renders |->
       IF ~UnderWay(r) THEN renders[r]
       ELSE [renders[r] EXCEPT !.waiter = IF @ = "waiting" THEN "forgotten" ELSE @,
                               !.excused = TRUE]]
  /\ UNCHANGED <<captured, capturing, evaluated, mounts, waits, overlapped>>

-----------------------------------------------------------------------------
(* waitForContent(): simulator-ui.ts *)

\* The top of the loop: the doc of the module, if it holds the text.
Seek(w, m) ==
  [waits[w] EXCEPT !.module = m, !.at = IF docs[m].text THEN "settling" ELSE "watching",
                   !.candidate = docs[m]]

BeginWait(w, m) ==
  /\ waits[w].at = "free"
  /\ docs[m] # NoDoc
  /\ waits' = [waits EXCEPT ![w] = Seek(w, m)]
  /\ UNCHANGED <<docs, captured, capturing, evaluated, renderError, mounts, renders,
                 overlapped, extras>>

\* A module with no doc is rendered first.
BeginWaitWithRender(w, m, r) ==
  /\ waits[w].at = "free"
  /\ docs[m] = NoDoc
  /\ Begins(r, m, FALSE)
  /\ waits' = [waits EXCEPT ![w].at = "rendering", ![w].module = m, ![w].render = r]
  /\ UNCHANGED <<captured, evaluated, renderError, mounts, extras>>

Ended(w, doc) ==
  [waits[w] EXCEPT !.at = "done", !.candidate = NoDoc, !.got = doc,
                   !.bare = docs[waits[w].module] = NoDoc]

AfterRender(w) ==
  /\ waits[w].at = "rendering"
  /\ renders[waits[w].render].at = "done"
  /\ waits' = [waits EXCEPT ![w] = IF renders[waits[w].render].threw THEN Ended(w, NoDoc)
                                   ELSE Seek(w, waits[w].module)]
  /\ UNCHANGED <<docs, captured, capturing, evaluated, renderError, mounts, renders,
                 overlapped, extras>>

\* Mutant: the match is returned as it was found.
FirstMatch(w) == Ended(w, waits[w].candidate)

\* What settle() says of the module is looked at again: quiet or out of time, it answers.
AfterSettle(w) ==
  LET m == waits[w].module IN
  IF docs[m].text THEN Ended(w, docs[m])
  ELSE IF docs[m] = NoDoc THEN Ended(w, waits[w].candidate)
  ELSE Seek(w, m)

SettleEnds(w) ==
  /\ waits[w].at = "settling"
  /\ waits' = [waits EXCEPT ![w] = AfterSettle(w)]
  /\ UNCHANGED <<docs, captured, capturing, evaluated, renderError, mounts, renders,
                 overlapped, extras>>

\* The time is up: it throws.
GiveUp(w) ==
  /\ waits[w].at = "watching"
  /\ waits' = [waits EXCEPT ![w] = Ended(w, NoDoc)]
  /\ UNCHANGED <<docs, captured, capturing, evaluated, renderError, mounts, renders,
                 overlapped, extras>>

-----------------------------------------------------------------------------
RenderingInit ==
  /\ docs = [m \in Modules |-> NoDoc]
  /\ captured = [m \in Modules |-> None]
  /\ capturing = None
  /\ evaluated = {}
  /\ renderError = FALSE
  /\ mounts = {}
  /\ renders = [r \in Renders |->
       [module |-> None, at |-> "free", waiter |-> None, landed |-> FALSE,
        excused |-> FALSE, threw |-> FALSE, doc |-> NoDoc]]
  /\ waits = [w \in Waits |->
       [module |-> None, at |-> "free", render |-> 0, candidate |-> NoDoc,
        got |-> NoDoc, bare |-> FALSE]]
  /\ overlapped = FALSE
  /\ extras = 0

RenderStep(r) ==
  \/ AwaitImport(r)
  \/ Import(r)
  \/ ReplayMissingPulse(r)
  \/ EndRender(r)
  \/ FailRender(r)

WaitStep(w) == AfterRender(w) \/ SettleEnds(w) \/ GiveUp(w)

RenderingNext ==
  \/ \E r \in Renders, m \in Modules, fresh \in BOOLEAN : BeginRender(r, m, fresh)
  \/ \E r \in Renders : RenderStep(r)
  \/ \E x \in mounts, again \in BOOLEAN :
       \/ \E text \in BOOLEAN : Land(x, text, again)
       \/ LandRawHtml(x, again)
  \/ ResetUI
  \/ \E w \in Waits, m \in Modules :
       \/ BeginWait(w, m)
       \/ \E r \in Renders : BeginWaitWithRender(w, m, r)
  \/ \E w \in Waits : WaitStep(w)

-----------------------------------------------------------------------------
(* A render that ran alone, and that no commit of another render and no
   reset came between, answers with a doc of its own mount, or throws
   because that mount is raw HTML; otherwise its time was up before the
   mount committed.  It never answers with the doc of an earlier mount
   because nothing was mounted ("never a silent no-op"). *)
RenderIsItsOwn ==
  \A r \in Renders :
    LET it == renders[r] IN
    (it.at = "done" /\ ~it.excused /\ ~overlapped)
      => it.landed /\ (~it.threw => it.doc.by = r /\ it.doc.of = it.module)

(* waitForContent() answers with what its own module shows: another module's
   commit with the text in it is an answer only if its own has no doc. *)
WaitedContentIsOwn ==
  \A w \in Waits :
    (waits[w].got # NoDoc /\ ~waits[w].bare /\ ~overlapped)
      => waits[w].got.text /\ waits[w].got.of = waits[w].module

OwnContent == RenderIsItsOwn /\ WaitedContentIsOwn
=============================================================================
