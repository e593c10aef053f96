----------------------------- MODULE Invocation -----------------------------
(***************************************************************************)
(* Invocations of resolvers and web triggers (simulator.ts, resolver.ts),  *)
(* the context a resolver runs in, the render that decides which module's  *)
(* view it sees (ui/simulator-ui.ts), and stop(), which waits for          *)
(* invocations to end.  What a handler prints is in ConsoleCapture; other  *)
(* triggers and consumers touch nothing that is modelled here.             *)
(*                                                                         *)
(* A call goes through the awaits of invoke() or fireWebTrigger():         *)
(*   idle -> running    the handler of a resolver is being executed        *)
(*        or serving    that of a web trigger is                           *)
(*        -> unwound    it has settled                                     *)
(*        -> done       invoke() or fireWebTrigger() has settled           *)
(* or is refused at once, or hangs (a call of a torn-down page).  Steps of *)
(* different calls interleave in any order.  Of a context's contents only  *)
(* the layer it took its view from is kept.                                *)
(***************************************************************************)
EXTENDS Integers, Sequences, FiniteSets

CONSTANTS
    Calls,       \* one identifier per invocation
    Request,     \* Request[c]: what is called, and from where
    Parent,      \* Parent[c]: the call whose handler makes and awaits c
    NoCall,      \* "no call"
    Modules,     \* UI modules of the manifest
    NoModule,    \* "no module"
    Keys,        \* function keys
    WebTriggers, \* the keys that the manifest binds to web triggers
    Resolvers,   \* resolver functions of the manifest
    NoResolver,  \* "no resolver"
    Route,       \* Route[m]: the resolver function of module m
    Owner,       \* Owner[k]: the resolver function that defines key k
    MaxResets,   \* bound: how many times the simulator is reset
    Quiet,       \* polls without a pending invocation that idle() asks for
    Deadline     \* polls after which idle() gives up

(* module is the option given, scope the page that the call comes from; patch
   tells whether the call brings a context of its own. *)
Requests == [via : {"invoke", "fireWebTrigger"}, key : Keys, module : Modules \cup {NoModule},
             scope : Modules \cup {NoModule}, patch : BOOLEAN]

ASSUME InvocationAssumption ==
    /\ Request \in [Calls -> Requests]
    /\ IsFiniteSet(Calls)
    /\ NoCall \notin Calls
    /\ Parent \in [Calls -> Calls \cup {NoCall}]
    /\ NoModule \notin Modules
    /\ {"base", "own"} \cap (Modules \cup {NoModule}) = {}
    /\ NoResolver \notin Resolvers
    /\ WebTriggers \subseteq Keys
    /\ Route \in [Modules -> Resolvers \cup {NoResolver}]
    /\ Owner \in [Keys -> Resolvers \cup {NoResolver}]
    /\ MaxResets \in Nat
    /\ Quiet \in Nat
    /\ Deadline \in Nat

VARIABLES
    definitions,  \* keys the resolver has a handler for
    wired,        \* the manifest, the routes and the ownership are registered
    overlay,      \* the module whose view is the per-render overlay
    activeModule, \* activeModuleKey
    rendering,    \* modules whose render() waits for its context
    tornDown,     \* the UI bridge is torn down
    st,           \* st[c]: how far call c is
    who,          \* who[c]: moduleKey of the async invocation context of c
    ctx,          \* ctx[c]: the layer that the context of c took its view from
    active,       \* activeInvocationContext, named by the call it was made for
    prev,         \* prev[c]: the value that c will restore
    threw,        \* threw[c]: resolver.invoke() rejected
    pending,      \* pendingInvokeCount
    calm,         \* history: every call began when the innermost one made it
    nest,         \* history: while calm, the running calls, innermost last
    tidy,         \* history: no render cut short by a failure, a reset or another one
    resets,       \* resets so far
    phase,        \* stop(): "off", "polling", "drained", "timedOut", "stopped"
    quiet,        \* polls in a row that saw nothing pending
    left          \* polls before the deadline

wiringVars == <<definitions, wired>>
pageVars == <<overlay, activeModule, rendering, tornDown, tidy>>
contextVars == <<active, prev, who, ctx>>
nestVars == <<calm, nest>>
idleVars == <<phase, quiet, left>>

vars == <<wiringVars, pageVars, st, contextVars, threw, pending, nestVars, resets, idleVars>>

(* Per render, per call, and everything below them. *)
Layers == Modules \cup {"own", "base"}

TypeOK ==
    /\ definitions \in SUBSET Keys
    /\ wired \in BOOLEAN
    /\ overlay \in Modules \cup {NoModule}
    /\ activeModule \in Modules \cup {NoModule}
    /\ rendering \in SUBSET Modules
    /\ tornDown \in BOOLEAN
    /\ st \in [Calls -> {"idle", "running", "serving", "unwound", "done", "refused", "hung"}]
    /\ who \in [Calls -> Modules \cup {NoModule}]
    /\ ctx \in [Calls -> Layers]
    /\ active \in Calls \cup {NoCall}
    /\ prev \in [Calls -> Calls \cup {NoCall}]
    /\ threw \in [Calls -> BOOLEAN]
    /\ pending \in Nat
    /\ calm \in BOOLEAN
    /\ nest \in Seq(Calls)
    /\ tidy \in BOOLEAN
    /\ resets \in 0..MaxResets
    /\ phase \in {"off", "polling", "drained", "timedOut", "stopped"}
    /\ quiet \in 0..Quiet
    /\ left \in 0..Deadline

(* A deployed app, nothing rendered and nothing called yet. *)
Init ==
    /\ definitions = Keys \ WebTriggers
    /\ wired = TRUE
    /\ overlay = NoModule
    /\ activeModule = NoModule
    /\ rendering = {}
    /\ tornDown = FALSE
    /\ st = [c \in Calls |-> "idle"]
    /\ who = [c \in Calls |-> NoModule]
    /\ ctx = [c \in Calls |-> "base"]
    /\ active = NoCall
    /\ prev = [c \in Calls |-> NoCall]
    /\ threw = [c \in Calls |-> FALSE]
    /\ pending = 0
    /\ calm = TRUE
    /\ nest = << >>
    /\ tidy = TRUE
    /\ resets = 0
    /\ phase = "off"
    /\ quiet = 0
    /\ left = Deadline

-----------------------------------------------------------------------------
(* Deployment and reset *)

(* An app module evaluated by deploy() calls resolver.define(). *)
Define(k) ==
    /\ k \notin definitions \cup WebTriggers
    /\ definitions' = definitions \cup {k}
    /\ UNCHANGED <<wired, pageVars, st, contextVars, threw, pending, nestVars, resets, idleVars>>

(* The stretch of deploy() that registers routes, ownership and the manifest
   awaits nothing. *)
Wire ==
    /\ ~wired
    /\ wired' = TRUE
    /\ UNCHANGED <<definitions, pageVars, st, contextVars, threw, pending, nestVars, resets,
                   idleVars>>

Running == {c \in Calls : st[c] = "running"}

(* Mutant: the overlay of the last render stays. *)
ResetPageKeepsOverlay ==
    /\ activeModule' = NoModule
    /\ tornDown' = TRUE
    /\ UNCHANGED overlay

(* ui.reset() *)
ResetPage ==
    /\ overlay' = NoModule
    /\ activeModule' = NoModule
    /\ tornDown' = TRUE

(* What reset() forgets: the page, the app and the active context. *)
Forget ==
    /\ resets < MaxResets
    /\ resets' = resets + 1
    /\ ResetPage
    /\ tidy' = (rendering = {})
    /\ definitions' = {}
    /\ wired' = FALSE
    /\ active' = NoCall
    /\ calm' = (Running = {})
    /\ nest' = << >>
    /\ UNCHANGED <<rendering, st, who, ctx, prev, threw, idleVars>>

(* Mutant: invocations in flight are forgotten as well. *)
ResetForgetsPending == Forget /\ pending' = 0

(* reset() leaves the invocations in flight and their count alone. *)
Reset == Forget /\ UNCHANGED pending

-----------------------------------------------------------------------------
(* Rendering a UI module *)

(* render() connects the bridge and makes the module the active one before it
   awaits the module's context, which may take requests to the product. *)
RenderBegins(m) ==
    /\ wired
    /\ m \notin rendering
    /\ activeModule' = m
    /\ tornDown' = FALSE
    /\ rendering' = rendering \cup {m}
    /\ tidy' = (tidy /\ rendering = {})
    /\ UNCHANGED <<wiringVars, overlay, st, contextVars, threw, pending, nestVars, resets,
                   idleVars>>

(* The context is there: setRenderContext(). *)
RenderSets(m) ==
    /\ m \in rendering
    /\ overlay' = m
    /\ rendering' = rendering \ {m}
    /\ UNCHANGED <<wiringVars, activeModule, tornDown, tidy, st, contextVars, threw, pending,
                   nestVars, resets, idleVars>>

(* buildForgeContext() rejects the options. *)
RenderFails(m) ==
    /\ m \in rendering
    /\ rendering' = rendering \ {m}
    /\ tidy' = FALSE
    /\ UNCHANGED <<wiringVars, overlay, activeModule, tornDown, st, contextVars, threw, pending,
                   nestVars, resets, idleVars>>

-----------------------------------------------------------------------------
(* Invocations *)

OwnerOf(k) == IF wired THEN Owner[k] ELSE NoResolver

(* The calls that the handler of c awaits. *)
Awaited(c) == {d \in Calls : Parent[d] = c /\ st[d] \in {"running", "serving", "unwound"}}

(* handleInvoke() never answers a page that has been torn down. *)
FromTornPage(c) == tornDown /\ Request[c].scope # NoModule

CanCall(c) ==
    /\ st[c] = "idle"
    /\ Parent[c] # NoCall => st[Parent[c]] \in {"running", "serving"}

(* The refusal to invoke a web trigger, validateResolverAccess(), and that of
   fireWebTrigger() to call anything but a web trigger of the manifest. *)
Refused(c) ==
    LET r == Request[c] IN
    \/ r.via = "invoke" /\ wired /\ r.key \in WebTriggers
    \/ r.via = "fireWebTrigger" /\ ~(wired /\ r.key \in WebTriggers)
    \/ /\ r.via = "invoke"
       /\ r.module # NoModule
       /\ \/ ~wired
          \/ Route[r.module] = NoResolver
          \/ OwnerOf(r.key) \notin {NoResolver, Route[r.module]}

(* Mutant: the active module whatever page the call comes from. *)
ModuleOfActive(c) ==
    IF Request[c].module # NoModule THEN Request[c].module ELSE activeModule

(* resolveInvocationModuleKey(): the module given, else the only one that uses
   the key's resolver, else the one whose render scope the call comes from,
   else the active one. *)
ModuleOf(c) ==
    LET r == Request[c]
        users == {m \in Modules : wired /\ Route[m] = Owner[r.key]}
        sole == OwnerOf(r.key) # NoResolver /\ \E m \in users : users = {m}
    IN  IF r.module # NoModule THEN r.module
        ELSE IF sole THEN CHOOSE m \in users : TRUE
        ELSE IF r.scope # NoModule THEN r.scope
        ELSE activeModule

(* The layer that wins: per call > per render > the rest. *)
Merged(c) ==
    IF Request[c].patch THEN "own" ELSE IF overlay # NoModule THEN overlay ELSE "base"

(* The call whose context getActiveContext() should give. *)
Innermost == IF nest = << >> THEN NoCall ELSE nest[Len(nest)]

(* History of a handler that starts, and of one that settles. *)
Nest(c) ==
    /\ calm' = (calm /\ Innermost = Parent[c])
    /\ nest' = IF calm' THEN Append(nest, c) ELSE << >>
Unnest ==
    /\ nest' = IF calm THEN SubSeq(nest, 1, Len(nest) - 1) ELSE << >>
    /\ UNCHANGED calm

(* invoke() counts the call and finds its module, then the resolver makes its
   context the active one and starts the handler. *)
Invoke(c) ==
    /\ CanCall(c)
    /\ Request[c].via = "invoke"
    /\ ~FromTornPage(c)
    /\ ~Refused(c)
    /\ Request[c].key \in definitions
    /\ who' = [who EXCEPT ![c] = ModuleOf(c)]
    /\ pending' = pending + 1
    /\ ctx' = [ctx EXCEPT ![c] = Merged(c)]
    /\ prev' = [prev EXCEPT ![c] = active]
    /\ active' = c
    /\ st' = [st EXCEPT ![c] = "running"]
    /\ Nest(c)
    /\ UNCHANGED <<wiringVars, pageVars, threw, resets, idleVars>>

(* A key without a handler: the resolver rejects before it touches the active
   context. *)
InvokeMissing(c) ==
    /\ CanCall(c)
    /\ Request[c].via = "invoke"
    /\ ~FromTornPage(c)
    /\ ~Refused(c)
    /\ Request[c].key \notin definitions
    /\ who' = [who EXCEPT ![c] = ModuleOf(c)]
    /\ pending' = pending + 1
    /\ threw' = [threw EXCEPT ![c] = TRUE]
    /\ st' = [st EXCEPT ![c] = "unwound"]
    /\ UNCHANGED <<wiringVars, pageVars, ctx, active, prev, nestVars, resets, idleVars>>

(* fireWebTrigger() counts the call too, which has no resolver context. *)
FireWebTrigger(c) ==
    /\ CanCall(c)
    /\ ~FromTornPage(c)
    /\ Request[c].via = "fireWebTrigger"
    /\ ~Refused(c)
    /\ pending' = pending + 1
    /\ st' = [st EXCEPT ![c] = "serving"]
    /\ UNCHANGED <<wiringVars, pageVars, contextVars, threw, nestVars, resets, idleVars>>

WebTriggerEnds(c, throws) ==
    /\ st[c] = "serving"
    /\ Awaited(c) = {}
    /\ threw' = [threw EXCEPT ![c] = throws]
    /\ st' = [st EXCEPT ![c] = "unwound"]
    /\ UNCHANGED <<wiringVars, pageVars, contextVars, pending, nestVars, resets, idleVars>>

(* The call throws before it has changed anything. *)
Refuse(c) ==
    /\ CanCall(c)
    /\ ~FromTornPage(c)
    /\ Refused(c)
    /\ st' = [st EXCEPT ![c] = "refused"]
    /\ UNCHANGED <<wiringVars, pageVars, contextVars, threw, pending, nestVars, resets, idleVars>>

Hang(c) ==
    /\ CanCall(c)
    /\ FromTornPage(c)
    /\ st' = [st EXCEPT ![c] = "hung"]
    /\ UNCHANGED <<wiringVars, pageVars, contextVars, threw, pending, nestVars, resets, idleVars>>

(* Mutant: null instead of the previous context. *)
RestoredToNull(c) == NoCall

(* The active context when the handler of c has settled. *)
Restored(c) == prev[c]

(* The handler settles, one way or the other: the `finally` of the resolver. *)
HandlerEnds(c, throws) ==
    /\ st[c] = "running"
    /\ Awaited(c) = {}
    /\ threw' = [threw EXCEPT ![c] = throws]
    /\ active' = Restored(c)
    /\ st' = [st EXCEPT ![c] = "unwound"]
    /\ Unnest
    /\ UNCHANGED <<wiringVars, pageVars, who, ctx, prev, pending, resets, idleVars>>

(* The count of pending invocations when call c has settled. *)
Counted(c) == pending - 1

(* The `finally` of invoke() and fireWebTrigger(); their locals end with them. *)
Return(c) ==
    /\ st[c] = "unwound"
    /\ pending' = Counted(c)
    /\ st' = [st EXCEPT ![c] = "done"]
    /\ who' = [who EXCEPT ![c] = NoModule]
    /\ prev' = [prev EXCEPT ![c] = NoCall]
    /\ threw' = [threw EXCEPT ![c] = FALSE]
    /\ UNCHANGED <<wiringVars, pageVars, active, ctx, nestVars, resets, idleVars>>

-----------------------------------------------------------------------------
(* stop() and idle() *)

Stop ==
    /\ phase = "off"
    /\ phase' = "polling"
    /\ UNCHANGED <<wiringVars, pageVars, st, contextVars, threw, pending, nestVars, resets,
                   quiet, left>>

(* Mutant: idle() waits as long as it takes. *)
NeverExpires == FALSE

(* The deadline of idle() has passed. *)
Expired == left = 0

(* One turn of the loop of idle(). *)
Poll ==
    /\ phase = "polling"
    /\ \/ /\ pending = 0 /\ quiet = Quiet
          /\ phase' = "drained"
          /\ UNCHANGED <<quiet, left>>
       \/ /\ ~(pending = 0 /\ quiet = Quiet)
          /\ Expired
          /\ phase' = "timedOut"
          /\ UNCHANGED <<quiet, left>>
       \/ /\ ~(pending = 0 /\ quiet = Quiet)
          /\ ~Expired
          /\ quiet' = IF pending = 0 THEN quiet + 1 ELSE 0
          /\ left' = IF left > 0 THEN left - 1 ELSE 0
          /\ UNCHANGED phase
    /\ UNCHANGED <<wiringVars, pageVars, st, contextVars, threw, pending, nestVars, resets>>

(* The rest of stop(): the object store and the SQL server are stopped. *)
StopServices ==
    /\ phase \in {"drained", "timedOut"}
    /\ phase' = "stopped"
    /\ UNCHANGED <<wiringVars, pageVars, st, contextVars, threw, pending, nestVars, resets,
                   quiet, left>>

-----------------------------------------------------------------------------
Call(c) ==
    \/ Invoke(c)
    \/ InvokeMissing(c)
    \/ FireWebTrigger(c)
    \/ Refuse(c)
    \/ Hang(c)
    \/ \E throws \in BOOLEAN : HandlerEnds(c, throws) \/ WebTriggerEnds(c, throws)
    \/ Return(c)

Next ==
    \/ \E k \in Keys : Define(k)
    \/ Wire
    \/ Reset
    \/ \E m \in Modules : RenderBegins(m) \/ RenderSets(m) \/ RenderFails(m)
    \/ \E c \in Calls : Call(c)
    \/ Stop
    \/ Poll
    \/ StopServices

(* Timers fire and a continuation that is ready runs; a handler may hang. *)
Fairness ==
    /\ WF_vars(Poll)
    /\ WF_vars(StopServices)
    /\ \A c \in Calls : WF_vars(Return(c))

Spec == Init /\ [][Next]_vars /\ Fairness

-----------------------------------------------------------------------------
(* Properties *)

InFlight == {c \in Calls : st[c] \in {"running", "serving", "unwound"}}

(* pendingInvokes, which stop() relies on, counts the invocations in flight,
   however they settle and whatever is reset in between. *)
PendingCountsInFlight == pending = Cardinality(InFlight)

(* While calls nest, getActiveContext() gives the context of the innermost
   invocation, and null outside of any: a handler's authorize() and publish()
   act for the user it was invoked for, after a nested call too. *)
InvocationSeesItself == calm => active = Innermost

(* What identifies the channel that realtime.publish() of handler c uses: the
   module of the invocation context and the view of the active context. *)
PublishKey(c) == <<who[c], IF active = NoCall THEN "none" ELSE ctx[active]>>

(* A resolver invoked by an effect of a page publishes on the channel of that
   page, which its subscriptions are keyed by, even if another module has begun
   to render since: when the key is its module's own, or nobody's, and the view
   of the page was still the per-render overlay. *)
PublishReachesOwnPage ==
    \A c \in Calls : LET r == Request[c] IN
        (/\ calm /\ st[c] = "running" /\ c = Innermost
         /\ r.scope # NoModule /\ r.module \in {NoModule, r.scope}
         /\ Owner[r.key] \in {NoResolver, Route[r.scope]}
         /\ ctx[c] = r.scope) => PublishKey(c) = <<r.scope, r.scope>>

(* With no render under way, the resolver context shows the view of the module
   that calls from outside are attributed to, unless a render failed, was
   overtaken by another or outlived a reset. *)
ViewMatchesModule == (tidy /\ rendering = {}) => overlay = activeModule

(* Both what a call publishes to and what the page shows belong to the module
   that asked, whatever was rendered or reset in between. *)
PagesSeeTheirOwn == PublishReachesOwnPage /\ ViewMatchesModule

(* stop() stops the services at a moment with no invocation in flight, unless
   it has given up waiting. *)
DrainsBeforeStopping == [][(phase = "polling" /\ phase' = "drained") => InFlight = {}]_vars

(* stop() ends although a handler never does. *)
StopEnds == (phase = "polling") ~> (phase = "stopped")

=============================================================================
