# Verification of forge-sim

forge-sim is a local runtime for Forge apps: it deploys an unmodified app and
simulates the platform around it (resolvers, storage, queues, triggers,
product APIs, UI), for tests, for agents and for local development.  This
directory holds TLA+ models of its core logic, the TLC configurations that
check them on small instances, and proofs, checked by TLAPS, of what matters
most for every instance.

Paths below are relative to the repository (`src/queue.ts` is the program's
file; in `PROJECT.json` it is written `src/src/queue.ts`).

Contents:

1. The system: components, state, interaction
2. What is hard about it
3. The modules and how they correspond to the code
4. Checks: what each run shows, its bounds, fairness
5. Proofs
6. Where the program and its documentation disagree, and what else the models brought to light
7. What is not modelled
8. Plan


## 1. The system

Everything except MySQL, npm, tsc and the browser runs in Node processes, each of
which is one JavaScript thread.  Code runs undisturbed up to its next `await`; so
the unit of interleaving within a process is the synchronous stretch between two
awaits, and that is what a step of the modules is.  Where several processes share
files (dev servers on a state directory, daemons and commands, installs of the
renderer, the credentials), a step ends at each access to a file.

| Component | State it keeps | Operations | Properties that make it correct |
|---|---|---|---|
| **Event queue** `queue.ts` | jobs, their statistics and cancel flag, consumers, mode, event log, one keyed semaphore | `push`, `cancelJob`, `getStats`, `setMode`, `registerConsumer`, `clear`, `clearAll` | limit of a key respected; no permit leaked, doubled or idle; a push that returned has settled; retries capped; a cancel is final |
| **KVS, secrets, entities** `kvs.ts` | entries with value, createdAt, updatedAt, ttl; secrets; entities; schemas | single, many, batch, transaction, query builders, the wire endpoints | conditional transactions exclusive; all or nothing; answers truthful; paging complete and without repetition |
| **Resolver, invocations** `resolver.ts`, `simulator.ts` | definitions, active context, base and overlay contexts, ownership, routes, count of pending invocations | `define`, `invoke`, `fireWebTrigger`, `reset`, `idle`, `stop` | a handler sees its own context and page; stop waits and ends |
| **UI simulator and bridge** `ui/simulator-ui.ts`, `ui/bridge.ts` | documents per module, active module, waiters for a commit | `render`, `refresh`, `waitForContent`, commits | a render answers with what its own module shows |
| **Forms** `ui/simulator-ui.ts`, `ui/doc-utils.ts`, a tool of `mcp-server.ts` | documents, the values of a form | `fillField`, `submitForm`, `settle`, `interact` | what is submitted is what was filled |
| **Console capture** `console-capture.ts` | a stack of buffers, the patched console | `startCapture`, `stopCapture`, `withCapture` | each line in one place; scopes keep their lines |
| **State persistence** `persistence.ts`, `sql-dump.ts`, part of `dev-command.ts` | three files and a lock in the state directory | claim, check and release of the lock; save, load; autosave; exit | one owner; what is saved is what was; restart restores |
| **SQL server** `forge-sql.ts` | a MySQL process, its start, the dump to load, the migrations applied | start, query, migrate, `reset`, `stop` | started once; recorded migrations have run |
| **Realtime** `realtime.ts`, `realtime-channel-key.ts` | subscribers per channel, history, tokens | publish and subscribe, replay | each event to each subscriber of its channel once, in order |
| **Object store** `object-store.ts` | objects, pre-signed URLs, lazily started HTTP server | make URL, put, delete, dump, restore | a URL serves one object within its time and names a server that listens |
| **Variables** `variables.ts` | file of variables, snapshot of the environment | `set`, `inject`, `restoreEnv` | the environment is restored to what it was |
| **Deployer** `deployer.ts`, `function-registry.ts`, `loader/` | module cache, tables of registrations | deploy, reset before it | after a deploy its code runs |
| **Manifest and routing** `manifest.ts`, `deployer.ts`, `simulator.ts` | functions, owners, routes | parse, deploy, invoke | a call reaches the function the manifest says, or is refused |
| **Triggers** `simulator.ts`, `shims/forge-events.ts` | triggers, schedules | fire, publish, the schedules of a deploy | every handler of an event runs once; success is reported if they all did |
| **Web triggers** `web-trigger*.ts` | managed URLs | get, delete, requests | a URL means one hook |
| **Product APIs, remotes** `product-api.ts`, `remote-proxy.ts`, `property-store.ts`, `dev-server.ts` | handlers, mocked routes, account, acting user | mock, connect, disconnect, act as, request | who answers is what the app said |
| **External auth, OAuth** `external-auth-store.ts`, `auth/*.ts` | tokens, pending flows | begin, callback, exchange, refresh, revoke | a flow gets its own token, and settles |
| **Credentials** `auth/credentials.ts` | a file shared by processes | load, change, save | no account lost |
| **Daemon and client** `daemon.ts`, `daemon-client.ts` | pid and port files | start, find, use, stop, idle shutdown | one daemon; files name it |
| **MCP server** `mcp-server.ts`, `staleness.ts` | an app in memory, the build it runs | tool calls, warnings, exit | an agent that lost its app was told |
| **Dev server** `dev-server.ts`, `dev-command.ts` | chain of passes, sockets, configurations | hot redeploy, RPC, save of a configuration | after the passes the app that runs is the one saved last; views show what was saved |
| **Windows of a module** `dev-command.ts`, the renderer's bridge shim | listeners, modals | emit, relay, open, close | frames agree on events and modals |
| **Histories** bridge shims, `ui/bridge.ts`, `dev-command.ts` | location, listeners, blockers | push, go, listen, block | listeners know where they are |
| **Translations** `i18n-store.ts`, shims | resources, caches | lookups, overrides | texts are of the app that is deployed |
| **Language model** `llm.ts` | scripts, key, call history | `chat`, `mockResponse`, `reset` | what is sent is a conversation the API takes |
| **Materialized renderer** `renderer-deps.ts` | a directory per version | install, rename, prune | who is handed a renderer has a whole one |
| **Type checker** `type-checker.ts` | the watcher's last cycle | watch, check of a deploy | errors shown are those of the last cycle |
| **Contexts, templates, tokens, UI documents, shims, CLI** | data | | not modelled (7) |

How they interact:

- A call from a page goes shim -> bridge -> `simulator.invoke()` -> resolver ->
  the app's handler, and from there through the shims to the stores, to the
  queue (`push`), to realtime (`publish`), or back to `invoke()`.
- A queue delivers to a consumer that the deployer registered; the consumer is
  app code and may push again, and await it: deliveries nest.
- `invoke()` and `fireTrigger()` run the handler inside a captured console and
  append the lines to one combined log.
- `render()` decides, through the active module and the overlay context, what
  the resolvers that the page invokes will see.
- `reset()` clears all of these, whatever is in flight; `stop()` waits for
  invocations to drain and then ends servers.
- Instances of the dev server interact only through the state directory and
  the renderer's directories, daemons and commands only through two files.


## 2. What is hard about it

All 40 hazards, with file and line, are in `PROJECT.json`.  They come in five kinds:

- **Overlapping calls around shared variables.**  A permit count, a stack of
  buffers, one "active context", one "active module", one list of waiters for a
  commit: each is written before an await and used after it, by several calls.
  What is right when calls nest may be wrong when they overlap.
- **Every way out.**  A delivery ends by success, failure, exhausted retry, or
  cancel before or during the wait; an invocation by a result, a throw, a
  refusal or a hang; an OAuth flow by its token, an error, its timer or
  `cancelAll()`.  Each must give back exactly what was taken, once.
- **Reset and redeployment in the middle.**  `clear()`, `reset()`, a deploy, a
  hot redeploy or a kill while calls are in flight.
- **Stale reads.**  A cursor whose row is gone, a lock checked before the dump
  but not after, a file noted at boot and read at the first query, a form filled
  from a commit that the next one replaces.
- **Several processes, one directory.**  Claim, save, release, install, rename,
  prune and kill in any order, with torn files.


## 3. The modules

Twenty-seven modules model parts of the program, one part each.  Four of them are
composed for TLC and for the proofs by EXTENDS, and a behaviour of such a
composite uses one of its parts, chosen at the start: the parts share
nothing but the simulator's life, and their product would only multiply the
states.

| Module | Models | Composed in |
|---|---|---|
| `EventQueue` | `queue.ts` | alone |
| `QueueContract` | what the queue promises, without call stacks, waiters or modes | |
| `Invocation` | `resolver.ts`, invocation part of `simulator.ts`, render scope, order of deployment | alone |
| `ConsoleCapture` | `console-capture.ts` and its two callers | `Runtime` |
| `KVStore` | write paths of `kvs.ts`, and paged queries over them | `Runtime` |
| `ProductApi` | `product-api.ts`, `remote-proxy.ts`, `property-store.ts`, the acting user | `Runtime` |
| `WebTriggers` | `web-trigger-urls.ts`, `web-trigger.ts`, `fireWebTrigger()` | `Runtime` |
| `Routing` | functions of a manifest, what a deploy registers, what `invoke()` lets through | `Runtime` |
| `Frames` | events and modals between the windows of a module | `Runtime` |
| `History` | the four histories of a router | `Runtime` |
| `Translations` | `i18n-store.ts` and the shims in front of it | `Runtime` |
| `LanguageModel` | `llm.ts` | `Runtime` |
| `Triggers` | product events, app events, schedules | `Runtime` |
| `Forms` | filling and submitting a form | `Runtime` |
| `SqlServer` | `forge-sql.ts` and the migration tools | `Runtime` |
| `Realtime` | `realtime.ts`, `realtime-channel-key.ts` | `Services` |
| `ObjectStore` | `object-store.ts` | `Services` |
| `Deploy` | `variables.ts`, and `deploy()` with its awaits | `Services` |
| `Rendering` | `render()`, `waitForContent()`, the bridge's waiters | `Services` |
| `StatePersistence` | `persistence.ts`, `sql-dump.ts`, boot, autosave and exit | `Session` |
| `Materialize` | `renderer-deps.ts` | `Session` |
| `TypeCheck` | `type-checker.ts` | `Session` |
| `ExternalAuth` | OAuth flows, their registry, tokens | `Workbench` |
| `Daemon` | `daemon.ts`, `daemon-client.ts` | `Workbench` |
| `Credentials` | `auth/credentials.ts` and its commands | `Workbench` |
| `McpServer` | the MCP server's life and its notice of rebuilds | `Workbench` |
| `Redeploy` | watcher, passes, messages to live documents | `Workbench` |
| `Pages` | a macro's view and config over their sockets | `Workbench` |
| `Runtime`, `Services`, `Session`, `Workbench` | the composites | |
| `MCEventQueue`, `MCInvocation`, `MCRuntime`, `MCServices`, `MCSession`, `MCWorkbench` | instances for TLC | |
| `EventQueueProofs`, `InvocationProofs`, `PlatformProofs`, `RuntimeProofs`, `ServicesProofs`, `SessionProofs`, `WorkbenchProofs` | theorems about them | |
| `SequenceFacts` | lemmas on places, filters and functions built place by place | |

The operators whose comment begins with "Mutant:" are used by no specification.
Each is one mapped operator with a plausible slip in it, and `PROJECT.json`
names for every property one that breaks it: they show that the property
speaks about the code.

`PROJECT.json` maps each definition to lines of the source.  The conventions
common to all modules:

- a step is a synchronous stretch, named for the method or for the await it
  resumes from;
- variables have the source's names; those marked *history* in their comment
  exist only to state properties and influence no step;
- identifiers, contents and requests are model values; a request is a constant
  record attached to the identifier of a call, so that each call happens at
  most once and the number of calls is the bound.

### EventQueue

One closure per event, `pc[e]` naming the await at which it is suspended:
`waiting` (in `acquire()`, asleep), `woken` (released but not yet resumed: another
closure may barge in), `granted` (permit taken, `acquire()` not yet returned),
`delivering` (in the consumer), `finishing`, `done`.  The launch loop of
`processJobConcurrent()` calls each event's closure synchronously, so that a
consumer runs *inside* it and may push again; it is modelled event by event, with
the stack of such calls in `launching`, and nothing else runs while it is not
empty.  `Acquire`, `Release`, `Recheck` are the semaphore; `Succeed`, `Throw`,
`RetryLimitReached`, `Redeliver` what a consumer's end leads to;
`PushRejected`, `PushNothing`, `PushSequential`, `PushConcurrent` the branches of
`push()`.  Jobs may be nested in an event (`NestedIn`): its consumer then awaits
them.

`QueueContract` knows only the permits of the keys, attempts and outcomes of
events: an attempt needs a permit, attempts are at most one more than the retry cap,
an outcome is final; clearing voids permits.  `EventQueue!KeepsContract`
is the refinement, with `Attempts` and the held permits as the mapping.

### Invocation

A call is refused (wrong module, unknown key, web trigger called as a resolver),
hangs (it comes from a page that a reset tore down) or runs.  `Invoke` counts
it, saves the active context in `prev`, merges layers (own patch, overlay of the
render, base) into `ctx` and makes itself active; `HandlerEnds` restores;
`Return` is the `finally` that discounts it, one await later.  Web triggers are
counted but have no context.  `RenderBegins`, `RenderSets` and `RenderFails` are
the parts of `render()` around `await buildForgeContext()`: the module is active
from before it, the overlay is set after it.  `Reset` forgets everything
but the count.  `Stop`, `Poll`, `StopServices` are `stop()` with `idle()`.

History: `nest` is the chain of running calls in which each began in the last; it is
meaningful while `calm`.  A call that begins where another has just been active but
is not its parent, or ends out of order, or a reset while a handler runs, ends
the calm; a reset at rest restores it.  `tidy` is the like for renders.

### Runtime: what the code of an app meets

`ConsoleCapture`: a scope is one `withCapture()` and its caller.  `stack` holds the
buffers; `stopCapture()` pops the one on top, whoever opened it.  Lines leave
with the result, or on the error object, and the caller logs them one await
later.  Two scopes may throw the same error object.

`KVStore`: `store` maps each slot (a space - plain, secret or an entity - and a
key) to an entry or `Absent`.  Operations that begin with the simulated delay are a
`Begin` and the step that does the work, the others one step.  All eight write
paths are there separately, since each has its own copy of the code that
keeps `createdAt` (the old wire transaction's `delete` action drops the entry,
and the creation time with it).  Conditions of a transaction are evaluated
together, after the delay, before any item is written.  `Needs` orders calls of
one program.

A query of `KVStore` reads a page at a time (`GetMany`).  The cursor is the position
(sort value and key) of the last row returned; `Position` is the comparison the
code sorts by, and `BeyondCursor` the rows it keeps of a page.  Between pages any
call of the store may run.  History variables
`atStart` and `touched` tell the rows that were there all along unchanged;
a schema registration for the queried entity touches all of them, and so does a page that
is cut from a mixture of rows with and without the range attribute (`IsMixture`), of
which `sort()` may return anything.

`ProductApi`: a product's handler is the app's own, the one that asks the mocked
routes, the one of a connected site, or none; a request takes its turns (routes,
then site, then the override for `/myself`, then a remote) between the calls that
change it.  `Documented` is what the calls of `mockRoutes()`, taken as one, promise.  A path
has a form without its query: the routes match the whole of it, `HasMockRoute` only that form.

`WebTriggers`: URLs minted by the app, requests across their body and their handler,
deploys of newer versions, deletions.  `Routing`: an app is a record of what its
manifest declares and its files export; deploys follow one another.  `Triggers`:
firings walk their handlers one await at a time while versions are installed.

`Frames`, `History`: each window has a queue of posted messages; listeners are told
one by one and may navigate meanwhile.  `Translations`: a lookup awaits the files
it reads, with its fallbacks and two caches.  The shim modelled is that of `@forge/api`.  That of
`@forge/bridge` does the same with a cache of its own: its `getI18nStore()` looks in
`globalThis.__forgeSimulator`, which `connectSimulator()` assigns (`src/ui/bridge.ts:442`), called by
`ensureBridge()` before a UI is rendered (`src/ui/simulator-ui.ts:308`, 792); its texts before that
are none, and a translation function made then stays without.  `LanguageModel`: a conversation is a
sequence of who says what with which tool calls; `ToMessages` is the loop that the code runs
over it, a function of how many messages it has taken.

`Forms`: the steps of a filling are those of the tool (find the field, call its
handler, wait until no commit came, submit), against commits that come late and are
filed by scope.  The wait may give up at any time (`GivesUp`), however long an invocation
then takes; its answer is still put into the fields.  `SqlServer`: the calls share one start, each step of theirs is one
await; the tables of a server are a set, its log and what ran on it are sequences.

### Services: what one simulator owns

`Realtime`: `stack` holds the calls in progress; publish calls subscribers one by
one, and these may subscribe, unsubscribe, publish or reset.  `ObjectStore`: a call
for a URL awaits the server's start, which all share; an upload awaits its body.
`Deploy`: `process.env` is shared by the managers of variables; `inject()` reads the file
between its two halves.  The modules load one by one, then one stretch
registers them; `loaded` and the tables say which deploy's code each kind of
function runs.  `Rendering`: a render imports the bundle (once, if the loader caches), and
waits with two timeouts for a commit; commits settle all waiters, whoever made them.

### Session: a run of the dev server on its machine

`StatePersistence`: instances are numbered in the order in which they claim the lock.
A save goes entities, objects, then - if MySQL runs - table by table into a dump that is
written at the end.  Only the dump awaits; before it, other *processes* may interleave
but not the same one (`Busy`).  The lock is looked at once, when the save begins.
`releaseStateLock()` looks and then unlinks: two steps, since another process may
claim in between.  Any instance may be killed at any point, in the middle of a
write too (the file is then `Torn`); any write may fail.  `Restored` merges a file
over what the deployment has already written, as `restore()` does.

`Materialize`: a directory is absent, a husk without package.json, or has its sources,
its direct dependencies or the whole tree; copies, npm, renames and removals
are steps of processes that may be killed anywhere.  `TypeCheck`: tsc's output
arrives in chunks that may hold the end of one cycle and the beginning of the next.

### Workbench: what surrounds a simulator

`ExternalAuth`: flows wait in a registry for a browser that comes back with a state
and a code; the exchange takes several awaits.  `Daemon`: every access to one of the two
files is a step.  `Credentials`: each command loads, changes its copy and writes.
`McpServer`: a call, its answer, the check for a rebuild, the exit and the next process.
`Redeploy`: a save sets off a pass that drops all definitions and loads the files one by
one; passes are chained.  `Pages`: frames with a socket each, calls with a timeout,
saves that the page learns of.




## 4. Checks

`tlc -config X.cfg M` for each row; states are distinct states found.

| Run | Module, configuration | States | Shows |
|---|---|---|---|
| `queue_safety` | `MCEventQueue`, `MCEventQueue.cfg` | 430,759 | permits, waiters, cancel, contract |
| `queue_return` | `MCEventQueue`, `MCEventQueueReturn.cfg` | 57,910 | every accepted push returns |
| `invocation` | `MCInvocation`, `MCInvocation.cfg` | 841,046 | contexts, pages, draining |
| `session` | `MCSession`, `MCSession.cfg` | 574,651 | lock, saves, restart, renderer, type errors |
| `services` | `MCServices`, `MCServices.cfg` | 4,867,171 | delivery, signed URLs, deploys, environment, renders |
| `workbench` | `MCWorkbench`, `MCWorkbench.cfg` | 324,559 | flows, daemon, credentials, MCP server, redeploys, pages |
| `runtime` | `MCRuntime`, `MCRuntime.cfg` | 2,325,463 | what an app's code meets, in twelve parts |
| `state_restart` | `MCSession`, `MCSessionRestart.cfg` | - | violated: see 6 |
| `deploy_again` | `MCServices`, `MCServicesRedeploy.cfg` | - | violated: see 6 |
| `remote_mocks` | `MCRuntime`, `MCRuntimeRemotes.cfg` | - | violated: see 6 |
| `action_scope` | `MCRuntime`, `MCRuntimeActions.cfg` | - | violated: see 6 |
| `history_go` | `MCRuntime`, `MCRuntimeHistory.cfg` | - | violated: see 6 |

### Properties and bounds

**queue_safety.**  Two calls, of two and one events, on one key with limit 1;
one retry; batches up to two.  Three closures are the least with which one holds
the permit, one sleeps and a third barges in between release and wake-up; `clear()`,
`clearAll()`, `cancelJob()`, `setMode()` and `registerConsumer()` may happen at any
point, any number of times.  `PermitsAreSound` (the count is the number of closures between
acquire and release, the limit is kept, no waiter is asleep beside a free permit),
`ResolvedIsQuiescent` (a returned push has nothing waiting, held or running),
`CancelIsFinal` (no event of a cancelled job is handed to a consumer again; a retry that
the cancel overtook is counted but not delivered), `KeepsContract` (refinement).

**queue_return.**  Adds a job pushed and awaited by a consumer and one refused
for its size; no retries.  Property `PushReturns`.  *Fairness*: the event loop
runs each ready continuation (weak fairness on the resumption of every suspended
closure and push), and consumers settle.  The second is an assumption on apps:
one that never settles keeps its push pending, in Forge as here.  A `clear()` while
permits are held or awaited strands waiters (6) and is excepted.

**invocation.**  A chain effect -> resolver -> web trigger -> two refused calls,
two modules, renders in any number, one reset, one redeployment (`Define` and
`Wire` can run again after it), one stop.  A chain of three running calls is the
least in which a middle one restores what is neither null nor the last.
`Quiet` and `Deadline` are one poll of 5 ms each: both outcomes of `idle()` occur.
Handlers may hang.  `InvocationSeesItself` (while calls nest, the active context is that of
the innermost), `PagesSeeTheirOwn` (an invocation sees the page of the render it was made
in), `DrainsBeforeStopping`, `StopEnds`.  *Fairness*: the polling timer fires, `stop()`
goes on after `idle()`, and an invocation whose handler has settled goes on to its
`finally`; nothing is assumed of handlers.

**session.**  *State*: two instances, each with or without `--clean`, one item per
part, two changes: a change between two saves, and one before and one after a
restart.  Two instances are enough for every race in the directory, since a third
meets the files and the lock in states that two produce.  `LockIsNewest`;
`SaveMirrorsMemory` (after an undisturbed save files hold what memory holds, but for empty
parts); `RestartKeepsWhatWasSaved`; `OrphansFallSilent` (an instance that lost the
lock stops saving for good).  *Fairness*: a save that has begun goes on as long as its
process lives (weak fairness on the steps of a save and on the unlink), guarded by
`aspect = "state"`; nothing makes an instance start, save or exit.
*Renderer*: two processes of one version and one of another, or two in a checkout, and one
day, after which what looks abandoned is removed: `RenderersHold` (who is handed a
renderer has the whole tree; a start fails only if npm did; unless another version's
housekeeping interfered).  *Types*: two kinds of diagnostics, two changes, one tools UI, output
in any chunks: `TypeErrorsAreCurrent`.

**services.**  *Realtime*: two publications, three subscriptions of two callbacks, every way
to publish and subscribe among them; `DeliveryIsExact` (a publication is heard by those who are
subscribed to its channel when their turn comes, by each once for each time it joined, and by
everyone the channel has when `publish()` returns, whatever the callbacks subscribe, unsubscribe,
publish or replay; what is replayed does not count as hearing).
*Object store*: two calls for a URL, two uploads, one content as declared and one not, expiry,
reset; `SignedUrlsHold`.  *Deploys*: two, of an app with a function of each kind in two files,
one save, and another simulator that shares `process.env`; `CleanDeployRuns` (a deploy that was
alone leaves no function running code it did not load; without a reset before it, this is
claimed only of the kinds whose registration replaces the one before), `EnvIsRestored`.
*Renders*: two modules, two renders, one `waitForContent()`, a loader that caches, one late
re-render or reset; `OwnContent` (what a render that nothing disturbed answers with is
of its own mount).  Deploys and uploads begin in a fixed order, as they are interchangeable: this
leaves out no behaviour up to renaming.  Two of each are the least that overlap.

**workbench.**  *Flows*: two for one provider (one of the tools UI), one whose URL cannot be
built, two returns of the browser; `ReturnsItsOwnToken`.  *Daemon*: two commands, each a request
or a stop, two daemons, a pid that is reused; `FoundAgain`.  *Credentials*: two runs of
commands from six, each local or global where it may be, on a file of the old kind; `CredentialsSurvive`.
*MCP server*: three calls, two rebuilds; `ServerIsCandid` (an agent that counts on its app has a
process with it or has been told; it is warned once per build).  *Redeploy*: three functions in
two files, two saves, one viewer that drops once; `RedeploySettles`.  *Pages*: two saves, one lost
connection; `ViewShowsSavedConfig`.  `EverythingSettles`: flows settle, commands and unused daemons
end, what was sent over a socket is settled.  *Fairness*: timers of flows fire; a daemon and
a command that are in the middle of something go on; the server answers what it was sent.
Each is weak and stated once for all the actors of one concern, which is less
than fairness for each of them, and suffices because each has finitely many steps to
take.  Nothing makes a browser return, a provider answer, a user press a key, or a page reconnect.

**runtime.**  The bounds of the twelve parts are in the header of `MCRuntime`.

- *Console*: a resolver with a trigger nested in it and a third scope that overlaps both, one
  line printed from outside, one error object: `LinesAreAccountedFor` (each line in one
  buffer, hand or place of the log; lost only with a thrown non-error, and except when two
  scopes share an error).
- *Storage*: fifteen calls by three programs, so that at most three overlap: two transactions and a
  wire set race for one slot with "if absent" conditions, with deletions that set it free;
  batches with an item that is invalid, a `setMany()` that `clear()` may interrupt, entity and
  secret writes; or eight calls around a query that reads four rows, two with equal range values, or one, some or all without,
  one per page (so each row is once the cursor), up to paging through rows of which none has a
  range value.  `OneClaimWins`: of conditional claims
  on one slot only one succeeds, unless a call that frees it has.  `StorageTellsTheTruth`: what a
  call answered is what it did, and rows present and untouched throughout a query come exactly once, unless a
  page was cut from a mixture.
- *Products*: one product, one remote, two patterns (one of them `/myself` with a query), four calls
  that change who answers: `TheRightOneAnswers` (a mocked route answers whatever was connected,
  unless it is one for `/myself` mocked with its query while somebody is acted as; whoever is acted
  as answers for `/myself`, with a query or without).
- *Web triggers*: two hooks, two URLs, three deploys: `UrlsMeanOneHook`.
- *Routes*: six versions of an app, three deploys: `RoutesAreHonest` (a module reaches its own
  resolver's code; a deploy without errors has registered what events fire).
- *Windows*: two background scripts, an event, four modals, one of which opens another as it
  closes: `FramesAgree`.  *Histories*: two listeners, two navigations, all four kinds:
  `ListenersKnowWhere`.
- *Translations*: two apps with translations and one without, two lookups, two changes:
  `SpeaksTheApp`.  *Language model*: an agent, two scripts, five messages: `ConversationsHold`.
- *Triggers*: three firings among three versions: `TriggersAreAnswered`.  *Forms*: one filling of one
  field, two, or an unknown one, another module rendered once, the wait before the fields given up or
  not: `FormsAreFaithful`.  *Database*: three
  calls of six, two migrations, two servers: `DatabaseHolds`.

Deadlock is checked for the queue's runs.  Elsewhere the system may really stop: all
calls of the instance have been made, all instances are gone, or `stop()` is over.

Two tasks, one of which disturbs the other at a chosen await, are what nearly all the hazards
need; where a third is needed (the barging closure, the nested call that restores a
nested context, the version that prunes two that race) the bounds have three.


## 5. Proofs

Proved for all values of the constants that satisfy the named assumptions of the
modules: any number of calls, events, keys, slots, modules, scopes, instances,
flows, daemons, deploys, renders, requests, URLs, listeners, subscribers.  TLC evaluates the assumptions on
its instances (`QueueAssumption`, `InvocationAssumption`, `StoreAssumption`, `CaptureAssumption`,
`PersistenceAssumption`, `DaemonAssumption`, `RedeployAssumption`, `VariablesAssumption`,
`DeployAssumption`, `RenderingAssumption`, `ProductAssumption`, `FormsAssumption`,
`RoutingAssumption`, `RealtimeAssumption`, `FramesAssumption`, `SqlAssumption`, `QueryAssumption`,
`FilesAssumption`, `CallsAssumption`, `VersionsAssumption`, `DiagnosticsAssumption`,
`CredentialsAssumption`, `HooksAssumption`).  They say what the code takes for granted: a request has its shape
(a call that removes is given no items), limits are not zero, "no daemon" is none of the
daemons, each function of a manifest has a name, a filling is a list of fields, the page is no background script,
closing a modal is no event of the app, the credentials file there is at first is sound, an app's text is no
override.  Three are choices of scope: migrations have names of their own, which no
query makes a table of, and one query at most makes a table, so that a table that is there says who made it; and
the schedules of one version have keys of their own, since `deploy()` fires them by key, while nothing in the
code refuses a manifest that repeats one.

The theorems on paged queries assume one thing more: the keys of the store are finitely many, since a
page is a sorted sequence of the rows.

In the composites a theorem speaks about the composite's specification
(`SessionSpec => []RenderersHold`): a lemma shows that every step of the other parts leaves the
variables of this one unchanged.

| Module | Theorem | States | Inductive invariant |
|---|---|---|---|
| `EventQueueProofs` | `TypeCorrect` | | `TypeOK` and `Shape` |
| | `PermitsAreAccountedFor`, `LimitIsRespected`, `NoPermitIdles`, `PermitsStaySound` | `PermitsAreSound` and its parts | `Shape` |
| | `PushResolvesAtRest` | `ResolvedIsQuiescent` | `Shape`, `Quiet`, `InProgressOK` |
| | `CancelsAreFinal` | `CancelIsFinal` | `StatusOK`, `FlagsOK` |
| | `QueueKeepsContract` | `KeepsContract` | `ContractInv` |
| `InvocationProofs` | `TypeCorrect`, `PendingIsExact` | count of running calls | `CallInv` |
| | `ActiveContextIsOwn` | `InvocationSeesItself` | `CallInv` |
| | `PagesAreTheirOwn` | `PagesSeeTheirOwn` | `AttributedRight`, `OneRender` |
| | `StopsDrained` | `DrainsBeforeStopping` | `CallInv` |
| `RuntimeProofs` | `StorageIsTyped`, `CreationTimeIsKept` | `createdAt` survives writes | types |
| | `ClaimsAreExclusive` | `OneClaimWins` | `ClaimInv` |
| | `CaptureIsTyped`, `BuffersAreMatched`, `LinesStayInTheirScope` | as named | `BufferInv`, `NestInv` |
| | `LinesAreNeverLost` | `LinesAreAccountedFor` | `LineInv` |
| | `AnswersStayTrue` | `AnswersAreTrue`, of `StorageTellsTheTruth` | `TruthInv` |
| | `MocksAndUsersAnswer` | `TheRightOneAnswers` | `ProductInv` |
| | `UrlsKeepTheirHook` | `UrlsMeanOneHook` | `TriggersInv` |
| | `FormsStayFaithful` | `FormsAreFaithful` | `FormsInv` |
| | `RoutesStayHonest` | `RoutesAreHonest` | `RoutesInv` |
| | `EveryoneKnowsWhere` | `ListenersKnowWhere` | `HistoryInv` |
| | `EventsReachEveryone` | `EventsReachAll`, of `FramesAgree` | `EventsInv` |
| | `WindowsAgree` | `FramesAgree` | `EventsInv`, `ModalsInv` |
| | `PagesStayExact` | `PagesAreExact`, of `StorageTellsTheTruth` | `PagesInv` |
| | `StorageIsTruthful` | `StorageTellsTheTruth`, of `RuntimeSpec` | `TruthInv`, `QueriesOnly` |
| | `RuntimeIsItsParts`, `RuntimeKeepsPromises` | the above, of `RuntimeSpec` | |
| `PlatformProofs` | `DatabaseIsHeld` | `DatabaseHolds` | `SqlInv` |
| | `TranslationsSpeakTheApp` | `SpeaksTheApp` | `TranslationsInv` |
| | `ConversationsAreTaken` | `ConversationsHold` | `ModelInv` |
| | `TriggersStayAnswered` | `TriggersAreAnswered` | `FiringInv` |
| `ServicesProofs` | `EnvComesBack` | `EnvIsRestored` | `EnvInv` |
| | `CleanDeploysRun` | `CleanDeployRuns` | `DeployInv` |
| | `ContentIsOwn` | `OwnContent` | `RenderingInv` |
| | `UrlsAreGood` | `SignedUrlsHold` | `UrlsInv` |
| | `EveryoneHears` | `DeliveryIsExact` | `DeliveryInv` |
| `SessionProofs` | `TypeCorrect` | types, torn files included | |
| | `SavesMirrorMemory` | `SaveMirrorsMemory` | `SaveInv` |
| | `LockStaysNewest` | `LockIsNewest` | itself |
| | `RestartKeeps` | `RestartKeepsWhatWasSaved` | `RestartInv` |
| | `RenderersInvariant`, `RenderersAreHeld` | `RenderersHold` | `RendererInv` |
| | `TypeErrorsStayCurrent` | `TypeErrorsAreCurrent` | `CheckerInv` |
| `WorkbenchProofs` | `ViewsFollowSaves` | `ViewShowsSavedConfig` | `PagesInv` |
| | `ServerStaysCandid` | `ServerIsCandid` | `McpInv` |
| | `DaemonIsFoundAgain`, `OneDaemonAtATime` | `FoundAgain` | `DaemonInv` |
| | `TokensAreOnesOwn` | `ReturnsItsOwnToken` | `FlowInv` |
| | `RedeploysSettle` | `RedeploySettles` | `RedeployInv` |
| | `CredentialsStay` | `CredentialsSurvive` | `CredentialsInv` |

**Queue.**  That the counts are right is not inductive: it needs to know that who holds a
permit is at a place where it will give it back, and that nobody is in the list
of waiters twice.  `Shape` is `TypeOK` with `LaunchOK` (the stack of launch loops holds
distinct running concurrent jobs), `WaitersOK` (waiters are distinct, suspended,
and wait for their own key), `HoldersOK` (who holds a permit has a key and is between
acquire and release), `StackOK` (a consumer called from a launch loop is that of the
last event launched) and `SequentialOK` (events of a sequential job take no permits).
Lemma `SemaphoreSteps` classifies every step as leaving the semaphore alone, one closure
acquiring, one releasing, or forgetting all; each property is then shown for these four
kinds only.  The refinement `QueueKeepsContract` shows that initial states map to initial
states and that each step is, under the mapping, a delivery, a failed attempt, an
outcome, a cancel or a clearing of the contract, or a stutter; it needs
that an event whose outcome is final is at no place from which another could follow.

**Invocations.**  `CallInv` adds `Nested` to the exactness of the count: the running calls
form a chain in which each will restore the one before it, and a call settles only when it
awaits none, so it is the last of the chain.  `OneRender` says that as long as
renders are tidy at most one is between its two halves.

**Storage and console.**  `ClaimInv` adds to `OneClaimWins` that a claim that stands and was
not freed still has its slot occupied, and that what a wipe forgot had been answered, or
is a `setMany()` that had set something.  `TruthInv` says of the calls that have not ended what
the slots hold that only they aim at: nothing before the delay is over, and of a `setMany()`
the items before the one it is at.  A step writes only slots its call aims at
(`KeepsToItself`), so that it disturbs no answer of another call.  The attempt to prove it found
the model wrong: a `setMany()` interrupted by `clear()` answers "ok" for items that are gone, which
`wiped` now says, and the run now contains.
That the last of the items of a request for a slot decides its value is lemma `LastPlace`, by
well-founded choice over the set of places.  For the console, three invariants rest on one
another: `BufferInv` (as many buffers as open scopes, so that `stopCapture()` never pops an
empty stack); `LineInv` (each printed line is in exactly one of the four places, each line
not printed in none: said place by place, as a count it would not be inductive);
`NestInv` (while calm the i-th buffer belongs to the i-th open scope, and a scope that has
settled is awaited by nobody that is still open, so that it is the last and pops its own).

**Paged queries.**  `PagesInv` says of a query under way that a row nobody writes to stays
what it was at the start (`RowsStay`), that what was returned were rows (`ReturnedAreRows`),
and - the heart of it - that of the rows nobody writes to exactly those up to the cursor have been
returned (`ReadUpToCursor`).  For a page to keep that, the comparison of the code has to be a strict
total order, lexicographic in range value and key (`PastIs`, `PastOrders`): it is one among
values that are all there or all missing (`Alike`), so among the rows unless they are a
mixture (`RowsAreAlike`), and the cursor is alike to every row nobody wrote to (`CursorFits`).  What is
sorted between neighbours is then sorted altogether (`SortedRows`), a row beyond the
last one of a page is in no page so far, and a cursor whose row is gone still divides
the rows.  Of a mixture none of this is claimed: a row without a range value is equal to any
other before the key is looked at, so "beyond" is not transitive, and once a page was cut from
one every row counts as touched (`MixturesKeep`).
What other calls do between pages touches their slots, and touched rows are
not claimed (`StoreKeeps`).

**What an app meets.**  `ProductInv`: what `mockRoutes()` has accumulated in a product's table is
what its calls, taken as one, promise (`Amounts`: each pattern once, in the order of
its first call, with the reply of its last), and a request past a mocked route has its
reply.  `TriggersInv`: an id resolves or is dead, and the one that `getUrl()` returned last
without force is the oldest of its hook, unless it is dead.  `FormsInv` says for each
stage of a filling what the form holds and shows, given which update is due and how
far the load is; that a later input for a field overrides an earlier one is said by
places (`Holds`), not by a fold.  `RoutesInv`: the routes, owners and wrapped methods are
what the app installed last declares, or nothing is installed.  `HistoryInv`: who listens and has not
been told where the history is, is awaited by the one notification that is not broken
(`AllTold`); and the last location on its way to the page, or reported from it, is where the
stack points (`StackFollowed`), unless one was missed.  That a listener that leaves a list which
is being told shifts the places of those after it is the hard case: `Unlisten` either
freezes a copy for the notifications under way, or names who is passed over.
`EventsInv`: a window that has been subscribed since an event was emitted was told of it,
or has it on its way, in its own queue or in that of the page, whose broker sends it on
(`StillReaches`); and a message that is on its way lies in one queue, once, so that nobody is
told again (`PageHearsOnce`, `FramesHearOnce`).  `ModalsInv`: the overlays of the page are those of
the modals whose outcome is "open", each once, and the active modal's is among them (`PageHolds`).
An overlay that no modal answers for is one that a second opening stranded, and a modal that
was answered with another's answer was crossed by a message of one closed before it.

**Database.**  `SqlInv` is `SqlCore`, which holds always, and `SqlOrder`, which holds as long as no `stop()` met
a start.  `SqlCore`: each program asks for what its tool asks for and nothing else
(`SqlProgress`), who is alone meets nobody (`SqlAlone`), the table of the query is there only once it
is made (`QueryHeld`), what ran has its table and ran once (`DataHeld`).  `SqlOrder`: the pool is of the one server there
is, unless that is being stopped, and a start under way has no pool until it has connected (`ServerHeld`);
a call that is alone has the pool it asks (`CallHeld`); and a migration that is alone goes on
where the log ends, so that what it has left to do is the rest of the list, of
whose first it may have done half (`GoesOnAfterLog`).  The latter is what makes `RecordsHeld` inductive:
that what ran is what is recorded says nothing of what is run next.  What
`ToMigrate` computes for any log is known by places as well: of a log that is the first
k migrations, the rest (`MigratesTheRest`).

**Translations.**  `CacheHolds`: what is cached is the app's, unless a read that one app began was
stored under another (`mixed`).  `OnItsWay`: a lookup that no change has overtaken has found no
text before the part of its chain of locales that is left, so that the first text of
the rest is the first of all.  A lookup that was overtaken is claimed nothing of; a function that was
handed out says what its own change had (`SaysWell`).

**Language model.**  `Owing`: in what has been translated so far, the results of an answer's calls
are in the message right after it, but for those still open, which only the last answer may
have.  That is `WellFormed` with a debt; each of an agent's messages pays some, takes
up a new one or says nothing of it (`ToMessages` is a function of the number of messages, so the
lemma on one message suffices for the sequence).  `ScriptsInOrder`: what is queued is
the end of what was scripted, what was used was scripted before, in order.  The attempt to prove it
found a guard of `Say` bracketed wrongly.

**Events and schedules.**  `LiveHolds`: the code that runs for a function is of the newest version that
binds it, or of the first that loads it, among those since the last reset.  `FiringHolds` says of each
call what its place entails, that what has run for its n-th event with what is left for
it is what matched that event when it was fired (`EventsMatch`), and that each answer is of the
newest code at the time (`AnswersHold`), whichever versions were installed meanwhile; the same of
the schedules of a deploy and its own code (`DeploysMatch`), except that a deploy which another overtook
may run the other's.

`RuntimeIsItsParts` is the composition theorem: each step of `RuntimeNext` is a step of one part
and leaves the variables of the others alone (`PartsRest`), so that a behaviour of the runtime is one
of each of its twelve parts, and keeps what was proved of them.

**Services.**  `EnvInv`: unless one injection was laid over another, the snapshot of the one
manager that has injected, put over the environment, gives the host's.  `DeployInv`: what
a deploy that was alone so far has loaded is of its own (`Tidy`), and what the tables hold
after its registration was in that (`DeployHeld`).  `RenderingInv`: React's
trees belong to who mounted them (`ModulesOwn`), an undisturbed render is the only one
(`OneAtATime`, `Undisturbed`), and what is placed before its waiters is what it mounted
(`Placed`, `ItsOwn`, `WaitsHeld`).  `UrlsInv`: the server that the store names listens unless
the store was torn down, and every call that is past its await knows it.  `DeliveryInv`: a Set of
callbacks is that of one channel key for ever, a live entry of it has a live subscription
behind it, a live subscription that no twin ended has a live entry, and no more entries
of a callback are dead than subscriptions of it have ended (`MembersHold`); a publication is
told by one loop, which has called a callback at most as often as it passed entries of it, and
that of each live entry it passed (`TellingHolds`).  Lemma `TellingKept` shows once that entries added at the
end and entries that die keep this, whoever of the callbacks does it; `KeysMeet` shows that calls
which share a channel key are those the documentation pairs.

**Session.**  `SaveMirrorsMemory` speaks of saves that are over; `SaveInv` says what holds in
the middle of one: the files before the one to be written next hold what memory holds,
what the dump has read and what it has yet to read is all there is, an undisturbed save is
the only one of its instance, a server that does not run has no tables, a dump that was
noted is still there.  It is a conjunction over the instances, and lemma `Untouched` shows
once that a step of one instance keeps it for the others.  `RestartInv` carries what an
undisturbed exit left through the boot of the next instance, part by part.
`LockIsNewest` is inductive as it stands.  `RendererInv` knows that running processes
differ in their ids and so write directories of their own, and that what is renamed
is whole.  `CheckerInv` speaks of what tsc has printed that is not yet reported: there is a place in
it where the cycle before the last one ended, and after that there are no diagnostics
of a cycle under way, and exactly those found by one that has ended (`CycleFrom`).  Where a chunk mixes lines of
two cycles, which the checker gets wrong (6), `mixed` says so, until a cycle's end is read alone.

**Workbench.**  `PagesInv` counts updates on their way for each frame; `McpInv` ties what the
agent believes to the process and the notices on the pipe; `DaemonInv` says of
undisturbed histories which of the two files are written at each stage of a daemon's
life, from which there is one daemon at most; `FlowInv` ties a result to the return that
carried its state; `RedeployInv` says for the pass under way which files it has read
since the last save, and that whatever was saved later has a pass of its own in the chain.
`CredentialsInv` holds while no two commands overlap, and none was killed in a write or while it clears: what
the copy of a command will leave is what should be there (`CopyHolds`), stage by stage, through the
migration that drops accounts of the old kind; and a file that has replaced an account of
theirs has none of them left (`Unmixed`), or a later migration would drop the new account.

**Sequences.**  Much of the code filters lists, and a filter is a recursive definition.  `SequenceFacts`
proves what it needs of those without induction over data: a filter is written as a function of the
number of places read, `FilterExists` shows that such a function exists (a set of places that holds 0 and with
each place the next holds all of them, `AllPlaces`, by well-founded choice), and `FilterIs` that its value
consists of the elements in the set, from places that increase, none left out.  What removing
an element, taking the head, or listing a set does place by place is there as well.

Every safety and action property of the passing runs is thus stated by a theorem.  Not proved, and
checked by TLC only, is liveness: `PushReturns`, `StopEnds`, `OrphansFallSilent` and
`EverythingSettles` need fairness, that is ENABLED, which is beyond the prover.
The five properties of the runs that end in a violation (6) are false, so nothing about
them can be proved.

Four modules were corrected on the way.  Besides `Say` and what `wiped` says of a `setMany()`
interrupted by `clear()`: the cases of `Intended` in `Credentials` and of `ConnectFails` in `Pages` overlapped,
where the code's are taken in order; TLC takes the first, a proof can rely on none.


## 6. Where the program and its documentation disagree, and what else the models brought to light

Each of these five has a run that TLC ends with a counterexample.

- `RestartRestoresState` (`state_restart`): an app that keeps nothing but objects has them
  saved on exit and never restored, because `hasPersistedState()` does not look at
  `object-store.json` (`src/persistence.ts:263`).
- `DeployReplacesCode` (`deploy_again`): a second deploy without a reset keeps the old handlers
  of functions that are registered only if they are not yet there (`src/deployer.ts:815`, 822,
  716, 724), against its comment that re-evaluated code replaces them.
- `RemoteMocksAnswer` (`remote_mocks`): a route mocked for a remote while a site is connected is
  never asked, and the remote is called (`src/product-api.ts:413`, `src/remote-proxy.ts:78`).
- `ActionsStayUnscoped` (`action_scope`): a Rovo action that `modules.function` declares counts
  as a resolver and gets a scoped `realtime.publish()` (`src/simulator.ts:591`).
- `GoIsAcked` (`history_go`): `go()` of a headless render connected to a page times out though
  the page moved (`src/dev-command.ts:912`, `src/dev-server.ts:752`).

What follows has no run: the models contain it, and the properties say where they except it.
Most is what the code does where no document says otherwise.

*Queue.*  A limit of 0 waits for ever (excluded by `QueueAssumption`).  Events that give
different limits to one key may leave the waiter with the larger limit asleep (so the property
speaks of the smallest).  A consumer that awaits a push needing the permit it holds waits
for itself.  Sequential mode ignores concurrency settings, and serialises the events of one
push only.  `clear()` amid deliveries voids their permits and strands the waiters.

*Storage.*  `setMany()` is not atomic; `set()` drops a ttl; a call in flight writes after
`clear()`; rows without a range value compare equal to all, so the cursor's order is not total,
though the comment at `src/kvs.ts:979` says that cursor positions are: paging through rows of which only
some have the range attribute may skip rows nobody wrote to; `setSecret()`, the wire set and `executeTransaction()`
do not validate what the batch path does.

*Invocations.*  After two invocations that overlap, the first one's context stays active.
`idle()` polls, so a call that comes between two polls is missed.  Hot redeploy
leaves a window in which `invoke()` fails; wrappers of `dispatch` chain; shim calls of a
page that was torn down hang.  A handler that throws something other than an `Error` loses the lines
it printed (`src/console-capture.ts:145`).

*Products and routes.*  `hasMockRoute()` cuts off the query of a path (`src/product-api.ts:486`) while the
routes are matched with it (399): a route for `/myself` mocked with a query answers, and is then
overridden by the acting user, although the comment at 477 says that it mirrors the matching exactly.
`mockResponse(404)` on a connected product falls through to the site.  The
property store is asked first even when connected, though `property-store.ts:6` says bypassed.  A
comment of `remote-proxy.ts` says "not 404", the code looks for 501 only.  `mock()` for `/myself` loses
to the acting user.  `connectRealApis()` and its end drop a `mock()` handler.  A resolver key that two
resolvers define is owned by the last UI module but runs the last file's handler.  An undeclared
resolver of a page or custom field is neither loaded nor reported.  A trigger or consumer whose
function exports a map is registered nowhere without error.  A web trigger added by hot redeploy
answers 404.

*Triggers.*  `publish()` without a manifest and deployed since fires `event/unknown/...`, which is
told to nobody yet reported as a success.  A trigger whose function no longer loads runs an older
deploy's code.  A schedule of a deploy that another one overtook runs or reports the other's code.

*Renders and forms.*  The first render of a module mounts twice.  Overlapping renders mix their captured
elements (`ui/bridge.ts:75`).  A wait that another module's commit ends answers with a stale
document.  `settle()` does not count product requests and gives up on an invocation after five seconds
(`src/ui/simulator-ui.ts:542`), so that a late answer of either clobbers a fill, against `src/mcp-server.ts:730`.  Several
fields filled in one go on a controlled form lose all but the last; an unknown field name leaves
those before it filled.  Driving a module other than the one rendered last files its commits, and what
they invoke, under the latest one.  Saving an inline configuration without values undoes earlier saves.

*Windows and histories.*  Events echo to their sender (`dev-command.ts:998` says "except the sender") and
siblings hear them twice.  A message of a modal that was closed is taken for the next one's; an
overlay may be stranded when two open at once.  Listeners after one that navigates are told the older location
last; unlistening in a headless history skips the next listener; a late acknowledgement leaves the
server's location stale; `push` resolves before listeners are told.

*Translations and language model.*  An app without locales keeps the old app's texts on
`loadFromAppDir()`; translation functions outlive a deploy; `resetTranslationsCache()` clears the whole
store.  `callHistory` holds prompts by reference; the last of several system messages wins silently;
`setApiKey()` may store the environment's key.

*Database.*  A failed start is sticky.  `stop()` during a start leaves a server nobody stops; forgetting
the server after an await may forget a newer one; `reset()` while it starts does nothing, so the
dump's tables survive.  A migration's record is not checked, overlapping migrations run twice, and a
reset that overlaps one leaves a recorded migration whose table is gone.

*State and renderer.*  An instance that fails to boot has taken the lock from the one that runs, which
never saves again.  A claim between the look and the unlink of a release loses its lock file.  An orphan's
dump that was under way overwrites the newer instance's.  Changes made during the exit's dump are
lost.  Pruning deletes the renderer that a dev server of another version is using, two versions may
delete each other's; an interrupted prune leaves a directory without package.json that presents as
complete or that makes later renames fail; so may an interrupted install of a checkout.

*Machine.*  A refresh that overlaps a revocation restores the token.  Commands that overlap lose
each other's change of the credentials.  The MCP server's notice is not repeated while its
file is missing.  The type checker mixes two cycles that share a chunk, does not notice that tsc
died, nor a `tsconfig.json` added later.


## 7. What is not modelled

- **Data**: contexts, templates and types of trigger events, documents of the UI, component maps,
  HTML, validation of a manifest, conversion of HTTP requests, ranges of a download, escaping of realtime
  payloads; they compute values in one stretch, and no order of steps can get them wrong.
  They are the larger part of the source by lines (two files of trigger templates, the component map, the HTML
  of the tools UI and of the dev server come to more than 10,000), which is why the map covers less than a third
  of the source though most of what keeps state is modelled.
- **Cryptography**: invocation tokens are made per request from keys generated once.
- **Front ends**: HTTP routes of the dev server and the tools UI, most tools of the MCP server, the CLI:
  each call maps to operations that are modelled.
- **Shims and module loader**: adapters; the calls they make are the actions of the modules.
- Within modelled components: payload sizes of the queue; `restore()` and plain reads of KVS; sticky context
  overrides; GraphQL mocks; remotes called through an endpoint; flags, `view.onClose` and
  embedding pages; validation of form fields; streaming of the language model; torn reads of a file that
  another process is writing; reuse of process ids (but for the daemon's); autosave ticks longer than the interval.
- MySQL, npm, tsc, React, the browser, OAuth providers and product sites are external: what the code
  relies on is modelled as a choice among what they may do.


## 8. Plan

The order has been by importance to an app under test: first what all of an app's code runs through (queue,
storage, invocations), then what collects its traces and keeps its state, then the services, then what surrounds
a simulator.  All parts listed in 3 are modelled and checked.

The proofs have followed the same order, and reach every safety property that is checked.  What would come
next is reading more of the source into the parts that are only partly modelled (7).
