----------------------------- MODULE MCRuntime ------------------------------
(***************************************************************************)
(* An instance of Runtime for TLC.                                         *)
(*                                                                         *)
(* Console: a resolver, called from a test, publishes an event whose       *)
(* trigger it awaits; another handler overlaps them.                       *)
(* Storage: four rows of an entity, two of which share a range value,      *)
(* written, moved, hidden and deleted while a query reads them one at a    *)
(* time, and rewritten so that one, some or all lack a range value.        *)
(* Three programs, each awaiting its own calls, race for the slot `lock`   *)
(* and for a plain and an entity slot.                                     *)
(* Products: a product and a remote, a route that covers every path and    *)
(* one that covers the current user with a query, four calls that change   *)
(* who answers.                                                            *)
(* Web triggers: two hooks, two URLs, three deploys.                       *)
(* Routes: six versions of an app: methods move from one resolver to       *)
(* another, two resolvers define one, functions are declared or only       *)
(* named, references lead nowhere.                                         *)
(* Windows: two background scripts and an event; four modals, one of       *)
(* which opens another as it closes.                                       *)
(* Histories: two listeners, two navigations.                              *)
(* Texts: two apps with translations and one without, two lookups, two     *)
(* deploys, resets or overrides.                                           *)
(* Language model: an agent and two scripts, one of which calls a tool.    *)
(* Firings: three calls, two of which may be deploys, among three versions *)
(* of two apps; triggers and schedules change their functions, one of      *)
(* which does not load.                                                    *)
(* Forms: one call, with one field, two, or one that is unknown, and one   *)
(* node that a test holds on to.                                           *)
(* Database: three calls of six, two migrations, and a dump of one table.  *)
(***************************************************************************)
EXTENDS Runtime

CONSTANTS resolver, trigger, other, consumer, err

MCParent == [c \in Scopes |-> IF c = trigger THEN resolver ELSE NoScope]

CONSTANTS put1, put2, put3, strip, move, hide, add, drop,
          tx1, unlock, eset, edel, tx2, bset, bdel, oldTx,
          wset, wdel, sset, sdel, one, many, dmany,
          E, k1, k2, k3, badKey, low, high, hidden, bare, big

Slot(space, key) == [space |-> space, key |-> key]
Item(slot, value, ttl) == [slot |-> slot, value |-> value, ttl |-> ttl]
IfAbsent(slot) == [slot |-> slot, any |-> FALSE, tests |-> <<{Absent}>>]
HasOneOf(slot, v, w) == [slot |-> slot, any |-> TRUE, tests |-> <<{v}, {w}>>]

lock == Slot("kvs", k1)
note == Slot("kvs", k2)
row == Slot(E, k2)
secret == Slot("secret", k1)
spare == Slot("kvs", k3)

Ask(op, items, deletes, conditions, actions) ==
    [op |-> op, items |-> items, deletes |-> deletes, conditions |-> conditions,
     actions |-> actions, ifAbsent |-> op = "wireSet" /\ items[1].slot = lock]
Write(op, slot, value) == Ask(op, <<Item(slot, value, FALSE)>>, {}, {}, <<>>)
Removal(op, slot) == Ask(op, <<>>, {slot}, {}, <<>>)

MCPaged == {put1, put2, put3, strip, move, hide, add, drop}

Requests ==
    put1 :> Write("entitySet", Slot(E, k1), high)
    @@ put2 :> Write("entitySet", Slot(E, k2), low)
    @@ put3 :> Write("entitySet", Slot(E, k3), low)
    @@ strip :> Write("entitySet", Slot(E, k2), bare)
    @@ move :> Write("entitySet", Slot(E, k3), high)
    @@ hide :> Write("entitySet", Slot(E, k2), hidden)
    @@ add :> Write("wireSet", Slot(E, badKey), bare)
    @@ drop :> Removal("entityDelete", Slot(E, k1))
    @@ tx1 :> Ask("transaction", <<Item(row, low, FALSE), Item(lock, low, TRUE)>>, {},
                  {IfAbsent(lock)}, <<>>)
    @@ unlock :> Removal("delete", lock)
    @@ eset :> Write("entitySet", row, high)
    @@ edel :> Removal("entityDelete", row)
    @@ tx2 :> Ask("transaction", <<Item(lock, high, FALSE)>>, {},
                  {IfAbsent(lock), HasOneOf(row, Absent, low)}, <<>>)
    @@ bset :> Ask("batchSet", <<Item(note, low, TRUE), Item(Slot("kvs", badKey), big, FALSE)>>,
                   {}, {}, <<>>)
    @@ bdel :> Ask("batchDelete",
                   <<Item(note, low, FALSE), Item(Slot("kvs", badKey), low, FALSE)>>,
                   {}, {}, <<>>)
    @@ oldTx :> Ask("legacy", <<>>, {}, {},
                    <<[type |-> "delete", slot |-> lock, value |-> low],
                      [type |-> "set", slot |-> lock, value |-> high]>>)
    @@ wset :> Write("wireSet", lock, low)
    @@ wdel :> Removal("wireDelete", lock)
    @@ sset :> Write("secretSet", secret, Null)
    @@ sdel :> Removal("secretDelete", secret)
    @@ one :> Write("set", note, high)
    @@ many :> Ask("setMany", <<Item(spare, low, FALSE), Item(note, low, FALSE)>>, {}, {}, <<>>)
    @@ dmany :> Removal("deleteMany", note)

Order ==
    unlock :> {tx1} @@ eset :> {unlock} @@ edel :> {eset}
    @@ sset :> {edel} @@ sdel :> {sset}
    @@ one :> {tx2} @@ bset :> {one} @@ bdel :> {bset}
    @@ many :> {bdel} @@ dmany :> {many}
    @@ wdel :> {wset} @@ oldTx :> {wdel}
    @@ move :> {put1, put3} @@ add :> {strip} @@ drop :> {move}
    @@ hide :> {put2, put1, add}
    @@ [c \in Calls |-> {}]

MCRequest == [c \in Calls |-> Requests[c]]
MCNeeds == [c \in Calls |-> Order[c]]

MCAllowed == [e \in Entities |-> Values \ {big}]
MCRangeOf == low :> 1 @@ high :> 2 @@ hidden :> 1 @@ big :> 1 @@ bare :> NoRange @@ Null :> NoRange
MCKeyRank == [k \in Keys |-> CHOOSE i \in 1..4 : <<k1, k2, k3, badKey>>[i] = k]
MCCovers == [t \in Patterns |-> IF t = "any path" THEN Paths ELSE {"myself?expand"}]
MCWithoutQuery == [path \in Paths |-> IF path = "myself?expand" THEN "myself" ELSE path]

MCOpensNext == [m \in Modals |-> IF m = "m1" THEN "m3" ELSE NoModal]
MCFilesOf == [d \in Speaking |-> CASE d = "polyglot" -> {"fr", "ch"}
                                   [] d = "bilingual" -> {"en", "fr"}
                                   [] OTHER -> {}]
MCFallbacksOf == [d \in Speaking |-> [l \in Locales |-> IF l = "ch" THEN <<"fr">> ELSE <<>>]]

MCCallsOf == [i \in Scripts |-> IF i = 1 THEN {"c1"} ELSE {}]
MCApiReplies == {[calls |-> {"c1", "c2"}, text |-> FALSE], [calls |-> {}, text |-> TRUE],
                 [calls |-> {}, text |-> FALSE]}

-----------------------------------------------------------------------------
(* The versions of Triggers *)

On(body, events) == [body |-> body, events |-> events]
Every(key, body) == [key |-> key, body |-> body]

MCVersions ==
  LET ping == AnEvent("app", "ping")
      pong == AnEvent("app", "pong")
      issue == AnEvent("product", "issue")
  IN  { [uuid |-> "app", triggers |-> <<On("f", {issue, ping}), On("g", {issue})>>,
         schedules |-> <<Every("s1", "h"), Every("s2", "g")>>, loads |-> {"f", "g", "h"}],
        [uuid |-> "app", triggers |-> <<On("g", {issue, ping}), On("f", {ping, pong})>>,
         schedules |-> <<Every("s2", "f"), Every("s1", "g")>>, loads |-> {"f", "g"}],
        [uuid |-> "other", triggers |-> <<On("g", {issue, pong})>>,
         schedules |-> <<Every("s1", "h")>>, loads |-> {"h"}] }

MCPublishes == {<<"ping">>, <<"ping", BadKey, "pong">>}

-----------------------------------------------------------------------------
(* The apps of Routing *)

Module(type, key, function, res, parts) ==
    [type |-> type, key |-> key, function |-> function, resolver |-> res,
     method |-> NoName, endpoint |-> FALSE, resources |-> parts]
Panel(res) == Module("page", "panel", NoName, res, {"main"})
Macro(res) == Module("macro", "macro", NoName, res, {"main", "config"})
Event(type, function) == Module(type, type, function, NoName, {})
OldConsumer(function, method) == [Event("consumer", function) EXCEPT !.method = method]
Action == Module("action", "action", "act", "ra", {"config"})

Map(methods) == [kind |-> "map", methods |-> methods]
Plain == [kind |-> "function", methods |-> {}]
Nothing == [kind |-> "nothing", methods |-> {}]
Exports(ra, rb) == [n \in Names |-> CASE n = "ra" -> ra [] n = "rb" -> rb [] OTHER -> Plain]
App(keys, modules, exports) ==
    [declared |-> keys, modules |-> modules, exports |-> exports]

MCApps == {
    App(<<"ra", "rb", "job", "act">>,
        <<Panel("ra"), Macro("rb"), Event("trigger", "job"), Action>>,
        Exports(Map({"get"}), Map({"put"}))),
    App(<<"rb", "ra">>,
        <<Panel("ra"), Macro("rb"), Action,
          Module("workflow", "rule", "flow", "ra", {"create", "view"})>>,
        Exports(Map({"put"}), Map({"get"}))),
    App(<<"ra", "rb">>,
        <<Macro("rb"), Panel("ra"), OldConsumer("ra", "get"),
          Module("custom field", "field", "job", "rb", {"view", "edit"})>>,
        Exports(Map({"get"}), Map({"get", "put"}))),
    App(<<"act", "job">>,
        <<Event("consumer", "job"), Event("scheduledTrigger", "job"),
          Event("webtrigger", "hook"), Panel("act")>>,
        Exports(Plain, Plain)),
    App(<<"ra", "hook">>,
        <<Module("command", "command", NoName, "rb", {"main"}), Event("webtrigger", "hook"),
          OldConsumer("ra", "put"), [Panel(NoName) EXCEPT !.endpoint = TRUE]>>,
        Exports(Map({"get"}), Nothing)),
    App(<<"ra", "job">>,
        <<Panel("ra"), Event("trigger", "job"), Event("consumer", "flow")>>,
        Exports(Map({"get"}), Nothing)) }

-----------------------------------------------------------------------------
(* Forms: one field, two, and one that the form does not have *)

MCFill(name) == [name |-> name, input |-> "filled"]
MCFillLists == {<<MCFill("age")>>, <<MCFill("age"), MCFill("name")>>,
                <<MCFill("age"), MCFill("nickname")>>}

MCMigrations == <<"a", "b">>
MCProgramOf ==
  [q \in {"mig", "again", "query", "schema", "reset", "stop"} |->
     IF q \in {"mig", "again"} THEN "migrate" ELSE q]
=============================================================================
