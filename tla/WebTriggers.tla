---------------------------- MODULE WebTriggers -----------------------------
(***************************************************************************)
(* Web triggers: the URLs the app asks for (src/web-trigger-urls.ts), the  *)
(* requests that arrive at them or at the plain route of a trigger         *)
(* (src/web-trigger.ts), and those fired without HTTP (src/simulator.ts),  *)
(* while the app is deployed again, reset, and its URLs are deleted.       *)
(*                                                                         *)
(* A trigger and its function are one Hook.  A response is what its status *)
(* tells: headers and bodies are left out.  Bounds: MaxUrls URLs,          *)
(* MaxDeploys deploys, Hits are all the requests.                          *)
(***************************************************************************)
EXTENDS SequencesExt, Naturals

CONSTANTS Hooks, V2,        \* V2: the hooks whose URL has the format v2
          Hits, MaxUrls, MaxDeploys

ASSUME HooksAssumption == V2 \subseteq Hooks

NoUrl == 0

VARIABLES declared,   \* the hooks of the manifest
          loaded,     \* hook -> the deploy its function is of, 0 for none
          deploys,    \* how many deploys have begun
          served,     \* the hooks the dev server was started with; {}: it is not started
          urls,       \* ids that resolve; a smaller one is older
          minted,     \* id -> its hook: every URL ever made
          dead,       \* history: ids that were deleted, dropped or reset
          plain,      \* history: hook -> the id getUrl() returned last without force
          hits        \* request -> [at, hook, id, late, ran]

wtVars == <<declared, loaded, deploys, served, urls, minted, dead, plain, hits>>

Ids == DOMAIN minted
IdsOf(hs) == {id \in Ids : minted[id] \in hs}

NoHit == [at |-> "new", hook |-> "no hook", id |-> NoUrl, late |-> FALSE, ran |-> 0]

-----------------------------------------------------------------------------
(* Deploys *)

\* Mutant: the URLs of a hook that has gone are kept.
KeepAll(hs) == urls

\* The URLs of the hooks that are still there.
Surviving(hs) == {id \in urls : minted[id] \in hs}

LoadManifest(hs) ==
  /\ deploys < MaxDeploys
  /\ deploys' = deploys + 1
  /\ declared' = hs
  /\ urls' = Surviving(hs)
  /\ dead' = dead \cup IdsOf(Hooks \ hs)
  /\ UNCHANGED <<loaded, served, minted, plain, hits>>

\* A function that fails to load leaves the one before.
LoadHook(h) ==
  /\ h \in declared /\ loaded[h] < deploys
  /\ loaded' = [loaded EXCEPT ![h] = deploys]
  /\ UNCHANGED <<declared, deploys, served, urls, minted, dead, plain, hits>>

ResetTriggers ==
  /\ declared # {}
  /\ declared' = {} /\ urls' = {} /\ dead' = Ids
  /\ loaded' = [h \in Hooks |-> 0]
  /\ UNCHANGED <<deploys, served, minted, plain, hits>>

\* The dev server starts with the hooks of the moment; without any it serves none, ever.
Serve ==
  /\ served = {} /\ declared # {}
  /\ served' = declared
  /\ UNCHANGED <<declared, loaded, deploys, urls, minted, dead, plain, hits>>

-----------------------------------------------------------------------------
(* URLs *)

LiveOf(h) == {id \in urls : minted[id] = h}

\* Mutant: the one made last.
Newest(ids) == Max(ids)

\* The first that the map holds.
Chosen(ids) == Min(ids)

Mint(h) ==
  /\ Len(minted) < MaxUrls
  /\ minted' = Append(minted, h)
  /\ urls' = urls \cup {Len(minted) + 1}

GetUrl(h, forceCreate) ==
  /\ h \in declared
  /\ IF LiveOf(h) = {} \/ forceCreate
     THEN /\ Mint(h)
          /\ plain' = IF forceCreate THEN plain ELSE [plain EXCEPT ![h] = Len(minted) + 1]
     ELSE /\ plain' = [plain EXCEPT ![h] = Chosen(LiveOf(h))]
          /\ UNCHANGED <<minted, urls>>
  /\ UNCHANGED <<declared, loaded, deploys, served, dead, hits>>

\* A URL of the format v2 cannot be parsed, an unknown one is an error: both stay.
DeleteUrl(id) ==
  /\ id \in urls /\ minted[id] \notin V2
  /\ urls' = urls \ {id}
  /\ dead' = dead \cup {id}
  /\ UNCHANGED <<declared, loaded, deploys, served, minted, plain, hits>>

-----------------------------------------------------------------------------
(* Requests *)

Becomes(q, hit) ==
  /\ hits' = [hits EXCEPT ![q] = hit]
  /\ UNCHANGED <<declared, loaded, deploys, served, urls, minted, dead, plain>>

\* The id is resolved before the body is read.  The trigger is one of those the dev server
\* was started with: anything else is not found.
Arrives(q, h, id) ==
  /\ hits[q].at = "new" /\ served # {}
  /\ Becomes(q, [at |-> IF h \in served /\ (id = NoUrl \/ id \in urls)
                       THEN "reading" ELSE "not found",
                 hook |-> h, id |-> id, late |-> id \in dead, ran |-> 0])

\* An OPTIONS request is answered at once; a body may break off.
Preflight(q) ==
  /\ hits[q].at = "reading"
  /\ \E status \in {"204", "500"} : Becomes(q, [hits[q] EXCEPT !.at = status])

Runs(q, hit) ==
  Becomes(q, [hit EXCEPT !.at = IF loaded[hit.hook] = 0 THEN "not loaded" ELSE "running",
                         !.ran = loaded[hit.hook]])

BodyRead(q) == hits[q].at = "reading" /\ Runs(q, hits[q])

\* fireWebTrigger(): the trigger is one of the manifest.
FireWebTrigger(q, h) ==
  /\ hits[q].at = "new" /\ h \in declared
  /\ Runs(q, [NoHit EXCEPT !.hook = h])

\* A handler that throws, and a result that is no response or no declared output, are 500.
HandlerReturns(q) ==
  /\ hits[q].at = "running"
  /\ \E status \in {"200", "500"} : Becomes(q, [hits[q] EXCEPT !.at = status])

TriggersInit ==
  /\ declared = {} /\ loaded = [h \in Hooks |-> 0] /\ deploys = 0 /\ served = {}
  /\ urls = {} /\ minted = <<>> /\ dead = {}
  /\ plain = [h \in Hooks |-> NoUrl]
  /\ hits = [q \in Hits |-> NoHit]

TriggersNext ==
  \/ \E hs \in SUBSET Hooks : LoadManifest(hs)
  \/ \E h \in Hooks : LoadHook(h) \/ \E force \in BOOLEAN : GetUrl(h, force)
  \/ ResetTriggers \/ Serve
  \/ \E id \in Ids : DeleteUrl(id)
  \/ \E q \in Hits : \/ \E h \in Hooks : Arrives(q, h, NoUrl) \/ FireWebTrigger(q, h)
                     \/ \E id \in Ids : Arrives(q, minted[id], id)
                     \/ Preflight(q) \/ BodyRead(q) \/ HandlerReturns(q)

TriggersSpec == TriggersInit /\ [][TriggersNext]_wtVars

-----------------------------------------------------------------------------
(* Properties *)

\* A URL that was deleted, whose hook left the manifest, or that was made before a reset
\* never runs a function again, not even when its hook comes back.
DeadUrlsNeverRun == \A q \in Hits : hits[q].ran > 0 => ~hits[q].late

\* getUrl() without force keeps returning the URL it has returned for as long as that is
\* alive, whatever URLs were forced in between: a webhook somebody configured stays the one.
PlainUrlIsStable ==
  [][\A h \in Hooks : plain[h] # NoUrl /\ plain[h] \notin dead => plain'[h] = plain[h]]_wtVars

\* Both: a managed URL means one hook, from the day it was made until it is dead, and then
\* nothing.
UrlsMeanOneHook == []DeadUrlsNeverRun /\ PlainUrlIsStable
=============================================================================
