------------------------------ MODULE Triggers ------------------------------
(***************************************************************************)
(* Product events, app events and schedules: fireTrigger() and             *)
(* fireScheduledTrigger() of src/simulator.ts, appEvents.publish() of      *)
(* src/shims/forge-events.ts, and the schedules that deploy() of           *)
(* src/deployer.ts fires once it has installed an app.  All of them run    *)
(* handlers one after the other and await each, while other calls, deploys *)
(* and resets go on.                                                       *)
(*                                                                         *)
(* A version of the app is what its manifest says of triggers and          *)
(* schedules, and the functions that load.  Of a handler the model keeps   *)
(* whether its answer counts as a success: no exception and, of a          *)
(* schedule, a status below 400.  Contexts, payloads and the work before   *)
(* the installation, which Deploy models, are left out.                    *)
(*                                                                         *)
(* Bounds: Firings are all the calls, MaxVersions installations.           *)
(***************************************************************************)
EXTENDS SequencesExt, Naturals

CONSTANTS Firings,      \* the calls: numbers
          Versions,     \* [uuid, triggers, schedules, loads]
          Bodies,       \* the functions that triggers and schedules are bound to
          Publishes,    \* what appEvents.publish() is called with: sequences of keys
          ProductEvents,
          MaxVersions

\* The schedules of a manifest differ in their keys: deploy() fires them by key.
ASSUME VersionsAssumption ==
  /\ \A v \in Versions :
       /\ v.loads \subseteq Bodies
       /\ v.triggers \in Seq(ToSet(v.triggers)) /\ v.schedules \in Seq(ToSet(v.schedules))
       /\ \A i \in DOMAIN v.triggers : v.triggers[i].body \in Bodies
       /\ \A i \in DOMAIN v.schedules : v.schedules[i].body \in Bodies
       /\ \A i, j \in DOMAIN v.schedules : v.schedules[i].key = v.schedules[j].key => i = j
  /\ \A keys \in Publishes : keys \in Seq(ToSet(keys)) /\ keys # <<>>

NoVersion == 0
BadKey == "badKey"

VARIABLES
  live,     \* manifest: the number of a version, or NoVersion; handlers: function -> the
            \* version whose code is registered; and, as history, all the versions that
            \* were installed, and how many of them a reset has forgotten
  firings   \* call -> its record, see Fresh

tgVars == <<live, firings>>

AnEvent(uuid, key) == [app |-> uuid, key |-> key]
NoRun == [body |-> "none", code |-> NoVersion, seen |-> 0, base |-> 0]

\* A call: what it awaits, its event, the triggers or schedules it has yet to run, the one
\* that runs, the keys left to publish and the app that publishes them; and, as history, the
\* answers, the events that were fired or failed, and the version that it deploys.
Fresh == [at |-> "new", event |-> AnEvent("none", BadKey), left |-> <<>>, running |-> NoRun,
          todo |-> <<>>, uuid |-> "unknown", answers |-> <<>>, failed |-> <<>>, fired |-> <<>>,
          deploys |-> NoVersion]

\* Calls are numbered in the order in which they begin.
IsFresh(c) == /\ firings[c].at = "new"
              /\ \A d \in Firings : d < c => firings[d].at # "new"
Manifest == live.versions[live.manifest]

\* filter(): the elements of a sequence that are in a set.
Among(s, S) ==
  LET found[i \in 0..Len(s)] ==
        IF i = 0 THEN <<>>
        ELSE IF s[i] \in S THEN Append(found[i - 1], s[i]) ELSE found[i - 1]
  IN  found[Len(s)]

Matched(v, event) == Among(v.triggers, {t \in ToSet(v.triggers) : event \in t.events})

-----------------------------------------------------------------------------
(* The loops over handlers, in a simulator `sim` *)

\* fireScheduledTrigger() looks its schedule up in the manifest of that moment.
CodeOfSchedule(s, sim) ==
  LET schedules == IF sim.manifest = NoVersion THEN <<>>
                   ELSE sim.versions[sim.manifest].schedules
      found == {i \in DOMAIN schedules : schedules[i].key = s.key}
  IN  IF found = {} THEN NoVersion ELSE sim.handlers[schedules[Min(found)].body]

CodeOf(r, x, sim) ==
  IF r.at = "schedules" THEN CodeOfSchedule(x, sim) ELSE sim.handlers[x.body]

RunOf(r, x, sim) == [body |-> x.body, code |-> CodeOf(r, x, sim),
                     seen |-> Len(sim.versions), base |-> sim.forgotten]

\* An answer, with the manifest its event was fired under.
AnswerBy(r, run, ok) == [run |-> run, ok |-> ok, under |-> Len(r.fired)]

\* The next handler starts.  One that is not there is an error in the answers, and passed
\* over.  With none left, the call is done, or publishes its next event.
Advance(r, sim) ==
  LET there == {i \in DOMAIN r.left : CodeOf(r, r.left[i], sim) # NoVersion}
      next == IF there = {} THEN Len(r.left) + 1 ELSE Min(there)
      passed == [i \in 1..next - 1 |-> AnswerBy(r, RunOf(r, r.left[i], sim), FALSE)]
  IN  [r EXCEPT !.answers = @ \o passed,
                !.left = SubSeq(@, next + 1, Len(@)),
                !.running = IF there = {} THEN NoRun ELSE RunOf(r, r.left[next], sim),
                !.at = IF there # {} THEN @ ELSE IF r.todo # <<>> THEN "between" ELSE "done"]

\* Mutant: an exception ends the loop.
EndsTheLoop(r, ok) ==
  LET answered == Append(r.answers, AnswerBy(r, r.running, ok)) IN
  IF ok THEN Advance([r EXCEPT !.answers = answered], live)
  ELSE [r EXCEPT !.answers = answered, !.left = <<>>, !.running = NoRun, !.at = "done"]

\* An exception is an answer like another.
AfterHandler(r, ok) ==
  Advance([r EXCEPT !.answers = Append(@, AnswerBy(r, r.running, ok))], live)

Proceeds(c, r) == firings' = [firings EXCEPT ![c] = r]

HandlerAnswers(c, ok) ==
  /\ firings[c].running # NoRun
  /\ Proceeds(c, AfterHandler(firings[c], ok))
  /\ UNCHANGED live

-----------------------------------------------------------------------------
(* fireTrigger(), publish() and fireScheduledTrigger() *)

Fire(r, event) ==
  Advance([r EXCEPT !.at = "triggers", !.event = event, !.left = Matched(Manifest, event),
                    !.fired = Append(@, [event |-> event, under |-> live.manifest])], live)

\* Without a manifest fireTrigger() throws at once, and nothing changes.
FireTrigger(c, key) ==
  /\ IsFresh(c) /\ live.manifest # NoVersion
  /\ Proceeds(c, Fire(Fresh, AnEvent("product", key)))
  /\ UNCHANGED live

Fails(r, event) ==
  [r EXCEPT !.failed = Append(@, event), !.at = IF r.todo = <<>> THEN "done" ELSE "between"]

\* The next of the events: one with a bad key or without a manifest fails.
PublishNext(r) ==
  LET event == AnEvent(r.uuid, Head(r.todo))
      rest == [r EXCEPT !.todo = Tail(@)]
  IN  IF event.key = BadKey \/ live.manifest = NoVersion THEN Fails(rest, event)
      ELSE Fire(rest, event)

\* The app is the one of the manifest when publish() is called, for all of its events.
Publish(c, keys) ==
  /\ IsFresh(c)
  /\ Proceeds(c, PublishNext(
       [Fresh EXCEPT !.todo = keys,
                     !.uuid = IF live.manifest = NoVersion THEN @ ELSE Manifest.uuid]))
  /\ UNCHANGED live

GoOnPublishing(c) ==
  /\ firings[c].at = "between"
  /\ Proceeds(c, PublishNext(firings[c]))
  /\ UNCHANGED live

\* Without a manifest, such a schedule, or a handler for it, it throws at once.
FireSchedule(c) ==
  /\ IsFresh(c) /\ live.manifest # NoVersion
  /\ \E i \in DOMAIN Manifest.schedules :
       LET r == [Fresh EXCEPT !.at = "schedules", !.left = <<Manifest.schedules[i]>>] IN
         /\ CodeOf(r, Manifest.schedules[i], live) # NoVersion
         /\ Proceeds(c, Advance(r, live))
  /\ UNCHANGED live

-----------------------------------------------------------------------------
(* deploy(), from the registration of what was loaded, and reset() *)

BoundIn(v) == {v.triggers[i].body : i \in DOMAIN v.triggers}
                \cup {v.schedules[i].body : i \in DOMAIN v.schedules}

\* A function that nothing here is bound to is registered only if none is there.
Installed(v) ==
  LET number == Len(live.versions) + 1
      Registers(b) == b \in v.loads /\ (b \in BoundIn(v) \/ live.handlers[b] = NoVersion)
  IN  [live EXCEPT !.versions = Append(@, v), !.manifest = number,
                   !.handlers = [b \in Bodies |-> IF Registers(b) THEN number ELSE @[b]]]

\* Mutant: the schedules are fired before the manifest is there.
FiresTooEarly(v) == live

\* The simulator in which the schedules of a deploy are fired.
FiresIn(v) == Installed(v)

LoadedSchedules(v) == Among(v.schedules, {s \in ToSet(v.schedules) : s.body \in v.loads})

\* The schedules whose function has loaded are fired, one after the other.
DeployVersion(c, v) ==
  /\ IsFresh(c) /\ Len(live.versions) < MaxVersions
  /\ live' = Installed(v)
  /\ Proceeds(c, Advance(
       [Fresh EXCEPT !.at = "schedules", !.deploys = Len(live.versions) + 1,
                     !.left = LoadedSchedules(v)],
       FiresIn(v)))

ForgetVersions ==
  /\ live.manifest # NoVersion
  /\ live' = [live EXCEPT !.manifest = NoVersion, !.handlers = [b \in Bodies |-> NoVersion],
                          !.forgotten = Len(live.versions)]
  /\ UNCHANGED firings

-----------------------------------------------------------------------------
FiringInit ==
  /\ live = [manifest |-> NoVersion, handlers |-> [b \in Bodies |-> NoVersion],
             versions |-> <<>>, forgotten |-> 0]
  /\ firings = [c \in Firings |-> Fresh]

FiringNext ==
  \/ \E c \in Firings :
       \/ \E ok \in BOOLEAN : HandlerAnswers(c, ok)
       \/ \E key \in ProductEvents : FireTrigger(c, key)
       \/ \E keys \in Publishes : Publish(c, keys)
       \/ GoOnPublishing(c) \/ FireSchedule(c)
       \/ \E v \in Versions : DeployVersion(c, v)
  \/ ForgetVersions

FiringSpec == FiringInit /\ [][FiringNext]_tgVars

-----------------------------------------------------------------------------
IsDone(c) == firings[c].at = "done"

\* The newest version since the reset that loads the function and binds it; or else the
\* first that loads it.
NewestWith(run) ==
  LET loading == {n \in run.base + 1..run.seen : run.body \in live.versions[n].loads}
      binding == {n \in loading : run.body \in BoundIn(live.versions[n])}
  IN  IF binding # {} THEN Max(binding) ELSE IF loading # {} THEN Min(loading) ELSE NoVersion

BodiesIn(s) == [i \in DOMAIN s |-> s[i].body]
Under(answers, n) == Among(answers, {a \in ToSet(answers) : a.under = n})
RunsOf(c, n) ==
  LET own == Under(firings[c].answers, n)
  IN  [i \in DOMAIN own |-> own[i].run]

\* Between the events that a call fires and the handlers that answer them, versions of the
\* app come and go.  Every trigger that matches an event when it is fired is answered once,
\* in the order of the manifest, whatever another one throws, by the newest code there is
\* when its turn comes; no code that was replaced or reset starts.  publish() reports as
\* failed the events it could not fire, and those only.  A deploy fires each of its own
\* schedules once, with its own code unless another deploy or a reset has come in between.
TriggersAreAnswered ==
  \A c \in Firings :
    LET r == firings[c] IN
    /\ \A i \in DOMAIN r.answers :
         r.fired # <<>> => r.answers[i].run.code = NewestWith(r.answers[i].run)
    /\ IsDone(c) =>
         \A n \in DOMAIN r.fired :
           BodiesIn(RunsOf(c, n)) =
             BodiesIn(Matched(live.versions[r.fired[n].under], r.fired[n].event))
    /\ IsDone(c) /\ r.deploys # NoVersion =>
         LET own == live.versions[r.deploys] IN
         /\ BodiesIn(RunsOf(c, 0)) = BodiesIn(LoadedSchedules(own))
         /\ \A i \in DOMAIN r.answers :
              LET run == r.answers[i].run IN
              run.seen <= r.deploys /\ run.base < r.deploys => run.code = r.deploys
    /\ \A i \in DOMAIN r.failed :
         r.failed[i].key # BadKey => live.forgotten > 0 \/ r.uuid = "unknown"
=============================================================================
