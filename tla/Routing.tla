------------------------------- MODULE Routing -------------------------------
(***************************************************************************)
(* From the manifest to what runs: which functions an app has and of what  *)
(* type (parseManifestContent() of src/manifest.ts), what deploy() of      *)
(* src/deployer.ts registers of them, and what invoke() of                 *)
(* src/simulator.ts then runs for whom.  Deploys follow one another, with  *)
(* or without a reset between them; Deploy has those that overlap, and     *)
(* which version of the code runs.                                         *)
(*                                                                         *)
(* An app is a record of the keys that modules.function declares, its      *)
(* other modules in the order of the file, and what the handler of each    *)
(* function is: a function, the map of a Resolver, or nothing that loads.  *)
(* Every function has a file of its own.                                   *)
(*                                                                         *)
(* Bounds: the apps are those of Apps, installed MaxInstalls times.        *)
(***************************************************************************)
EXTENDS SequencesExt, FiniteSetsExt

CONSTANTS Apps, Names, MaxInstalls

NoName == "no name"
NoModule == <<"no module", "whole">>
NoApp == [declared |-> <<>>, modules |-> <<>>,
          exports |-> [n \in Names |-> [kind |-> "nothing", methods |-> {}]]]

VARIABLES app,       \* sim.manifest, with what the app exports, or NoApp
          installs,
          faulty,    \* the last deploy reported an error
          defined,   \* name -> the function that defined it in the resolver, or NoName
          registry,  \* name -> its type in the function registry, or NoName
          owner,     \* resolverOwnership: name -> the resolver it belongs to, or NoName
          route,     \* moduleRouting: UI module -> [resolver, endpoint]
          shown,     \* the UI module rendered last, or NoModule
          made        \* history: the invocation since the last deploy that ran last

rtVars == <<app, installs, faulty, defined, registry, owner, route, shown, made>>

NoInvocation == [name |-> NoName, from |-> NoModule, ran |-> NoName,
                 kind |-> "resolver", scope |-> NoModule]

-----------------------------------------------------------------------------
(* The manifest *)

\* The functions that a module brings along, each with its type; one that is known
\* already keeps what it has.
NamedBy(mod) ==
  LET Named(name, type) == IF name = NoName THEN <<>> ELSE <<[key |-> name, type |-> type]>>
      itsResolver == Named(mod.resolver, "resolver")
  IN CASE mod.type = "action" /\ mod.function # NoName ->
            Named(mod.function, "action") \o itsResolver
       [] mod.type = "workflow" -> Named(mod.function, "workflow") \o itsResolver
       [] mod.type = "custom field" -> Named(mod.function, "resolver")
       [] mod.type \in {"command", "macro"} -> itsResolver
       [] OTHER -> <<>>

FunctionsIn ==
  [a \in Apps \cup {NoApp} |->
     [i \in DOMAIN a.declared |-> [key |-> a.declared[i], type |-> "resolver"]]
       \o FlattenSeq([i \in DOMAIN a.modules |-> NamedBy(a.modules[i])])]
FunctionsOf(a) == FunctionsIn[a]

IsFunction(a, name) == \E i \in DOMAIN FunctionsOf(a) : FunctionsOf(a)[i].key = name

\* Where a function is first: its type is the one it has there, and its file is loaded in
\* that order.
PlaceOf(a, name) ==
  CHOOSE i \in DOMAIN FunctionsOf(a) :
    /\ FunctionsOf(a)[i].key = name
    /\ \A j \in 1..(i - 1) : FunctionsOf(a)[j].key # name

TypeOf(a, name) ==
  IF IsFunction(a, name) THEN FunctionsOf(a)[PlaceOf(a, name)].type ELSE "resolver"

\* The UI modules that a module becomes.
ViewsOf(mod) ==
  CASE mod.type \in {"command", "page"} ->
         IF "main" \in mod.resources \/ (mod.type = "page" /\ mod.function # NoName)
         THEN {"whole"} ELSE {}
    [] mod.type = "action" ->
         IF mod.function # NoName /\ "config" \in mod.resources THEN {"whole"} ELSE {}
    [] mod.type = "workflow" -> mod.resources \cap {"create", "edit", "view"}
    [] mod.type = "custom field" ->
         (IF mod.resources \cap {"view", "main"} # {} THEN {"view"} ELSE {})
           \cup (mod.resources \cap {"edit"})
    [] mod.type = "macro" ->
         IF "main" \notin mod.resources THEN {}
         ELSE IF "config" \in mod.resources THEN {"view", "config"} ELSE {"whole"}
    [] OTHER -> {}

UIModulesOf(a) ==
  UNION {{<<a.modules[i].key, v>> : v \in ViewsOf(a.modules[i])} : i \in DOMAIN a.modules}

RouteOf(a, m) ==
  LET mod == a.modules[CHOOSE i \in DOMAIN a.modules : a.modules[i].key = m[1]]
  IN [resolver |-> mod.resolver, endpoint |-> mod.endpoint]

EventTypes == {"trigger", "consumer", "scheduledTrigger", "webtrigger"}
ModulesOf(a, types) ==
  {a.modules[i] : i \in {j \in DOMAIN a.modules : a.modules[j].type \in types}}
BoundBy(a, types) == {mod.function : mod \in ModulesOf(a, types)}

\* Functions have names, a UI module a key of its own, an event module names its function,
\* and a method only if it is a consumer.
AppIsWellFormed(a) ==
  /\ Len(a.modules) \in Nat /\ DOMAIN a.modules = 1..Len(a.modules)
  /\ FunctionsOf(a) \in Seq([key : Names, type : {"resolver", "action", "workflow"}])
  /\ \A n \in Names : a.exports[n].kind \in {"function", "map", "nothing"}
  /\ \A i \in DOMAIN a.modules :
       LET mod == a.modules[i] IN
       /\ mod.resolver \in Names \cup {NoName}
       /\ ViewsOf(mod) # {} => \A j \in DOMAIN a.modules : a.modules[j].key = mod.key => j = i
       /\ mod.type \in EventTypes => mod.function \in Names
       /\ mod.type \in EventTypes \ {"consumer"} => mod.method = NoName

ASSUME RoutingAssumption ==
  NoName \notin Names /\ \A a \in Apps : a # NoApp /\ AppIsWellFormed(a)

-----------------------------------------------------------------------------
(* deploy() *)

Loads(a, name) == IsFunction(a, name) /\ a.exports[name].kind # "nothing"
IsMap(a, name) == Loads(a, name) /\ a.exports[name].kind = "map"
IsPlain(a, name) == Loads(a, name) /\ a.exports[name].kind = "function"

\* Mutant: the consumers are not looked at.
TriggersResolve(a) ==
  \A name \in BoundBy(a, EventTypes \ {"consumer"}) : IsFunction(a, name)

\* The reference check: of triggers, consumers, schedules and web triggers.
ReferencesResolve(a) == \A name \in BoundBy(a, EventTypes) : IsFunction(a, name)

\* A consumer of the old shape whose function is loaded names a method of it.
MethodsResolve(a) ==
  \A mod \in ModulesOf(a, {"consumer"}) :
    mod.method # NoName /\ Loads(a, mod.function) => mod.method \in a.exports[mod.function].methods

Faultless(a) ==
  /\ \A i \in DOMAIN FunctionsOf(a) : Loads(a, FunctionsOf(a)[i].key)
  /\ ReferencesResolve(a)
  /\ MethodsResolve(a)

\* A consumer is registered if its function is one, or, in the old shape, has its method.
Consumes(a, name) ==
  \E mod \in ModulesOf(a, {"consumer"}) :
    /\ mod.function = name
    /\ IF mod.method = NoName THEN IsPlain(a, name)
       ELSE Loads(a, name) /\ mod.method \in a.exports[name].methods

\* registerFunction(): a schedule's function overrides a consumer's, and that a trigger's;
\* the others are registered if nothing is there.
Registered(a) ==
  [n \in Names |->
     IF IsPlain(a, n) /\ n \in BoundBy(a, {"scheduledTrigger"}) THEN "scheduledTrigger"
     ELSE IF Consumes(a, n) THEN "consumer"
     ELSE IF IsPlain(a, n) /\ n \in BoundBy(a, {"trigger"}) THEN "trigger"
     ELSE IF ~IsPlain(a, n) \/ registry[n] # NoName THEN registry[n]
     ELSE IF n \in BoundBy(a, {"webtrigger"}) THEN "webTrigger" ELSE "generic"]

\* The UI modules whose resolver answers to a name, in the order of the file.
Claiming(a, name) ==
  {i \in DOMAIN a.modules :
     LET r == a.modules[i].resolver IN
       /\ ViewsOf(a.modules[i]) # {}
       /\ \/ IsMap(a, r) /\ name \in a.exports[r].methods
          \/ IsPlain(a, r) /\ name = r}

\* Mutant: a name stays with the resolver it belonged to.
KeepOwners(a) ==
  [n \in Names |-> IF Claiming(a, n) = {} \/ owner[n] # NoName THEN owner[n]
                   ELSE a.modules[Max(Claiming(a, n))].resolver]

\* registerResolverOwnership(): the last module counts, and nothing is forgotten.
Owners(a) ==
  [n \in Names |-> IF Claiming(a, n) = {} THEN owner[n]
                   ELSE a.modules[Max(Claiming(a, n))].resolver]

\* The maps define their methods as their files are loaded.  A plain function is defined
\* under its own key if a UI module has it for a resolver, or it was just registered as
\* generic, and no definition is there.
Defined(a) ==
  [n \in Names |->
     LET maps == {r \in Names : IsMap(a, r) /\ n \in a.exports[r].methods}
         plain == /\ IsPlain(a, n)
                  /\ \/ Claiming(a, n) # {}
                     \/ registry[n] = NoName /\ Registered(a)[n] = "generic"
     IN IF maps # {} THEN CHOOSE r \in maps : \A s \in maps : PlaceOf(a, s) <= PlaceOf(a, r)
        ELSE IF plain /\ defined[n] = NoName THEN n ELSE defined[n]]

Install(a) ==
  /\ installs < MaxInstalls
  /\ installs' = installs + 1
  /\ app' = a
  /\ faulty' = ~Faultless(a)
  /\ defined' = Defined(a)
  /\ registry' = Registered(a)
  /\ owner' = Owners(a)
  /\ route' = [m \in UIModulesOf(a) |-> RouteOf(a, m)]
  /\ made' = NoInvocation
  /\ UNCHANGED shown

\* reset() of the simulator.
ResetRouting ==
  /\ app' = NoApp /\ faulty' = FALSE
  /\ defined' = [n \in Names |-> NoName]
  /\ registry' = [n \in Names |-> NoName]
  /\ owner' = [n \in Names |-> NoName]
  /\ route' = [m \in {} |-> [resolver |-> NoName, endpoint |-> FALSE]]
  /\ shown' = NoModule
  /\ made' = NoInvocation
  /\ UNCHANGED installs

-----------------------------------------------------------------------------
(* invoke() *)

ShowModule(m) ==
  /\ m \in DOMAIN route
  /\ shown' = m
  /\ UNCHANGED <<app, installs, faulty, defined, registry, owner, route, made>>

IsWebTrigger(name) ==
  registry[name] = "webTrigger" \/ name \in BoundBy(app, {"webtrigger"})

\* validateResolverAccess()
Reachable(name, m) ==
  m # NoModule =>
    /\ m \in DOMAIN route
    /\ route[m].resolver # NoName
    /\ owner[name] \in {NoName, route[m].resolver}

\* resolveInvocationModuleKey()
ScopeOf(name, m) ==
  LET routed == {x \in DOMAIN route : route[x].resolver = owner[name]}
  IN IF m # NoModule THEN m
     ELSE IF owner[name] # NoName /\ Cardinality(routed) = 1 THEN CHOOSE x \in routed : TRUE
     ELSE shown

Invoke(name, m) ==
  /\ ~IsWebTrigger(name)
  /\ Reachable(name, m)
  /\ defined[name] # NoName
  /\ made' = [name |-> name, from |-> m, ran |-> defined[name],
              kind |-> TypeOf(app, name), scope |-> ScopeOf(name, m)]
  /\ UNCHANGED <<app, installs, faulty, defined, registry, owner, route, shown>>

RoutingInit ==
  /\ app = NoApp /\ installs = 0 /\ faulty = FALSE
  /\ defined = [n \in Names |-> NoName]
  /\ registry = [n \in Names |-> NoName]
  /\ owner = [n \in Names |-> NoName]
  /\ route = [m \in {} |-> [resolver |-> NoName, endpoint |-> FALSE]]
  /\ shown = NoModule
  /\ made = NoInvocation

RoutingNext ==
  \/ \E a \in Apps : Install(a)
  \/ ResetRouting
  \/ \E m \in DOMAIN route : ShowModule(m)
  \/ \E name \in Names, m \in DOMAIN route \cup {NoModule} : Invoke(name, m)

RoutingSpec == RoutingInit /\ [][RoutingNext]_rtVars

-----------------------------------------------------------------------------
(* Properties *)

DefinersOf(name) ==
  {r \in Names : \/ IsMap(app, r) /\ name \in app.exports[r].methods
                 \/ IsPlain(app, r) /\ name = r}

UIResolvers ==
  {r \in Names : \E m \in DOMAIN route : route[m].resolver = r}

\* "In Forge, each module can only invoke functions defined in its own resolver"
\* (src/simulator.ts): what a module invokes, under a name that one resolver of the UI
\* modules alone defines, is run by its own resolver, after any redeploys that moved names
\* from resolver to resolver.  A name that two resolvers define belongs to the last UI
\* module's and runs the last file's, which need not be the same.
OwnCodeOnly ==
  made.from # NoModule =>
    \A r \in UIResolvers :
      DefinersOf(made.name) = {r} /\ IsMap(app, r) =>
        made.ran = r /\ route[made.from].resolver = r

\* "a trigger pointing at a missing function deployed with errors: [] and firing the event
\* was a silent no-op" (src/deployer.ts): after a deploy without errors the function of
\* every trigger, consumer, schedule and web trigger is registered, unless it is the map of
\* a Resolver that nothing but the function's key names.
NoSilentSinks ==
  ~faulty =>
    \A mod \in ModulesOf(app, EventTypes) :
      \/ IsMap(app, mod.function) /\ mod.method = NoName
      \/ registry[mod.function] # NoName

\* "Rovo actions and workflow functions are NOT frontend invocation contexts in Forge, so
\* they don't get scoped realtime.publish()" (src/simulator.ts).
ActionsStayUnscoped ==
  made.name \in BoundBy(app, {"action", "workflow"}) /\ made.scope # NoModule =>
    made.kind # "resolver"

\* What is deployed is routed as it says: a module invokes its own resolver's code, and
\* events have somewhere to go.
RoutesAreHonest == OwnCodeOnly /\ NoSilentSinks
=============================================================================
