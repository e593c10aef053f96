----------------------------- MODULE EventQueue -----------------------------
(***************************************************************************)
(* The @forge/events simulator of src/src/queue.ts: SimulatedQueue.push(),  *)
(* its sequential and concurrent delivery loops, the retry cap, cancelJob() *)
(* and clear(), and the keyed ConcurrencySemaphore that the concurrent      *)
(* deliveries of every queue share.                                         *)
(*                                                                          *)
(* The program is one JavaScript thread.  A step of this module is a piece  *)
(* of code that runs to its next await, so the interleavings are those of   *)
(* the event loop: pc[e] names the await at which the closure of event e is *)
(* suspended.  The one synchronous stretch that calls user code in its      *)
(* middle, the launch loop of processJobConcurrent(), is one step per event *)
(* and `launching` is its call stack: while it is not empty only the launch *)
(* loop, or the consumer it has just called, can run.                       *)
(***************************************************************************)
EXTENDS Integers, Sequences, FiniteSets

CONSTANTS
    Jobs,        \* one identifier per call of push()
    Events,      \* the events of all those calls
    Batch,       \* Batch[j]: the sequence of events that call j pushes
    QueueKeys,   \* queue names
    QueueOf,     \* QueueOf[j]: the queue that call j pushes to
    Keys,        \* concurrency keys
    NoKey,       \* "the event has no concurrency setting"
    KeyOf,       \* KeyOf[e]: event.concurrency.key, or NoKey
    LimitOf,     \* LimitOf[e]: event.concurrency.limit
    NestedIn,    \* NestedIn[j]: the event whose consumer makes and awaits call j
    External,    \* "call j is made by code that no consumer awaits"
    MaxRetry,    \* MAX_RETRY_COUNT: 4 in the code
    MaxBatch     \* events in one push request: 50 in the code

Modes == {"sequential", "concurrent"}

(* Limits of zero are left out: such an event waits for ever (see README). *)
ASSUME QueueAssumption ==
    /\ IsFiniteSet(Events)
    /\ Batch \in [Jobs -> Seq(Events)]
    /\ \A e \in Events : \E j \in Jobs : \E i \in 1..Len(Batch[j]) : Batch[j][i] = e
    /\ \A j1, j2 \in Jobs : \A i1 \in 1..Len(Batch[j1]), i2 \in 1..Len(Batch[j2]) :
          Batch[j1][i1] = Batch[j2][i2] => j1 = j2 /\ i1 = i2
    /\ QueueOf \in [Jobs -> QueueKeys]
    /\ NoKey \notin Keys
    /\ KeyOf \in [Events -> Keys \cup {NoKey}]
    /\ LimitOf \in [Events -> Nat \ {0}]
    /\ External \notin Events
    /\ NestedIn \in [Jobs -> Events \cup {External}]
    /\ MaxRetry \in Nat
    /\ MaxBatch \in Nat

VARIABLES
    mode,        \* config.mode
    consumers,   \* the queues a consumer is registered for
    registered,  \* the keys of the jobs map
    cancelled,   \* the jobs whose `cancelled` flag is set
    push,        \* what the promise of each push() call is
    jobMode,     \* the delivery loop each call runs in
    launched,    \* how many events of a call its loop has started
    launching,   \* the stack of calls inside the launch loop, innermost first
    stats,       \* job.stats
    pc,          \* where the closure of each event is suspended
    status,      \* event.status
    retryCount,  \* event.retryCount
    eventLog,    \* the events recorded in eventLog
    active,      \* semaphore.active
    waiters,     \* semaphore.waiters
    holding,     \* the closures between acquire() and release()
    clearedBusy  \* history: clear() ran while permits were held or awaited

semaphoreVars == <<active, waiters, holding>>
deliveryVars == <<stats, status, eventLog>>
jobVars == <<push, jobMode, launched, launching, registered>>
configVars == <<mode, consumers, cancelled, clearedBusy>>
vars == <<mode, consumers, registered, cancelled, push, jobMode, launched, launching,
          stats, pc, status, retryCount, eventLog, active, waiters, holding, clearedBusy>>

PushStates == {"idle", "running", "resolved", "rejected"}
Places == {"idle", "waiting", "woken", "granted", "delivering", "finishing", "done"}
Statuses == {"pending", "processing", "success", "failed"}

TypeOK ==
    /\ mode \in Modes
    /\ consumers \subseteq QueueKeys
    /\ registered \subseteq Jobs
    /\ cancelled \subseteq Jobs
    /\ push \in [Jobs -> PushStates]
    /\ jobMode \in [Jobs -> Modes]
    /\ launched \in [Jobs -> Nat]
    /\ launching \in Seq(Jobs)
    /\ stats \in [Jobs -> [success : Int, failed : Int, inProgress : Int]]
    /\ pc \in [Events -> Places]
    /\ status \in [Events -> Statuses]
    /\ retryCount \in [Events -> Nat]
    /\ eventLog \subseteq Events
    /\ active \in [Keys -> Nat]
    /\ waiters \in [Keys -> Seq(Events)]
    /\ holding \subseteq Events
    /\ clearedBusy \in BOOLEAN

-----------------------------------------------------------------------------

EventsOf(j) == {Batch[j][i] : i \in 1..Len(Batch[j])}
JobOf(e) == CHOOSE j \in Jobs : e \in EventsOf(j)

HasKey(e) == KeyOf[e] # NoKey

Init ==
    /\ mode \in Modes
    /\ consumers = {}
    /\ registered = {}
    /\ cancelled = {}
    /\ push = [j \in Jobs |-> "idle"]
    /\ jobMode = [j \in Jobs |-> "sequential"]
    /\ launched = [j \in Jobs |-> 0]
    /\ launching = <<>>
    /\ stats = [j \in Jobs |-> [success |-> 0, failed |-> 0, inProgress |-> 0]]
    /\ pc = [e \in Events |-> "idle"]
    /\ status = [e \in Events |-> "pending"]
    /\ retryCount = [e \in Events |-> 0]
    /\ eventLog = {}
    /\ active = [k \in Keys |-> 0]
    /\ waiters = [k \in Keys |-> <<>>]
    /\ holding = {}
    /\ clearedBusy = FALSE

-----------------------------------------------------------------------------
(* Who may run.                                                             *)

(* A continuation runs from the event loop, on an empty stack. *)
FromEventLoop == launching = <<>>

(* The consumer that the innermost launch loop has just called, if any. *)
OnStack(e) ==
    /\ launching # <<>>
    /\ LET j == Head(launching)
       IN  launched[j] > 0 /\ e = Batch[j][launched[j]] /\ pc[e] = "delivering"

(* User code calls the queue from the event loop, or from inside a consumer. *)
UserCodeRuns == FromEventLoop \/ \E e \in Events : OnStack(e)

(* A nested call is made by its consumer, while that consumer is running. *)
CallerRuns(j) ==
    IF NestedIn[j] = External THEN UserCodeRuns
    ELSE LET e == NestedIn[j]
         IN  pc[e] = "delivering" /\ (FromEventLoop \/ OnStack(e))

-----------------------------------------------------------------------------
(* The keyed semaphore.                                                     *)

(* One turn of the while loop of acquire(): take a permit, or join the waiters. *)
TakePermit(e) ==
    /\ active[KeyOf[e]] < LimitOf[e]
    /\ active' = [active EXCEPT ![KeyOf[e]] = @ + 1]
    /\ holding' = holding \cup {e}
    /\ pc' = [pc EXCEPT ![e] = "granted"]
    /\ UNCHANGED waiters

JoinWaiters(e) ==
    /\ active[KeyOf[e]] >= LimitOf[e]
    /\ waiters' = [waiters EXCEPT ![KeyOf[e]] = Append(@, e)]
    /\ pc' = [pc EXCEPT ![e] = "waiting"]
    /\ UNCHANGED <<active, holding>>

Acquire(e) == TakePermit(e) \/ JoinWaiters(e)

(* Mutant: release() forgets to wake a waiter. *)
ReleaseSilently(e) ==
    /\ active' = [active EXCEPT ![KeyOf[e]] = IF @ > 0 THEN @ - 1 ELSE @]
    /\ holding' = holding \ {e}
    /\ pc' = [pc EXCEPT ![e] = "done"]
    /\ UNCHANGED waiters

(* release(): give the permit back and wake the first waiter, which has yet to
   look at the count again; the closure of e ends with it. *)
Release(e) ==
    LET k == KeyOf[e]
    IN  /\ active' = [active EXCEPT ![k] = IF @ > 0 THEN @ - 1 ELSE @]
        /\ holding' = holding \ {e}
        /\ \/ /\ waiters[k] = <<>>
              /\ pc' = [pc EXCEPT ![e] = "done"]
              /\ UNCHANGED waiters
           \/ /\ waiters[k] # <<>>
              /\ waiters' = [waiters EXCEPT ![k] = Tail(@)]
              /\ pc' = [pc EXCEPT ![e] = "done", ![Head(waiters[k])] = "woken"]

-----------------------------------------------------------------------------
(* processEvent().                                                          *)

(* The head of processEvent(), up to the first call of the consumer. `at` is
   what else the step does to the closures. *)
BeginDelivery(e, at) ==
    /\ status' = [status EXCEPT ![e] = "processing"]
    /\ stats' = [stats EXCEPT ![JobOf(e)].inProgress = @ + 1]
    /\ eventLog' = eventLog \cup {e}
    /\ pc' = [at EXCEPT ![e] = "delivering"]

(* The ways out of processEvent(); `finally` takes the event out of progress. *)
Leave(e, outcome) ==
    /\ pc' = [pc EXCEPT ![e] = "finishing"]
    /\ status' = [status EXCEPT ![e] = IF outcome = "abandoned" THEN @ ELSE outcome]
    /\ stats' = [stats EXCEPT ![JobOf(e)] =
                    [success    |-> @.success + (IF outcome = "success" THEN 1 ELSE 0),
                     failed     |-> @.failed + (IF outcome = "failed" THEN 1 ELSE 0),
                     inProgress |-> @.inProgress - 1]]

(* The consumer's promise settles; what it awaited has settled before. *)
ConsumerSettles(e) ==
    /\ FromEventLoop
    /\ pc[e] = "delivering"
    /\ \A j \in Jobs : NestedIn[j] = e => push[j] # "running"
    /\ UNCHANGED <<semaphoreVars, jobVars, configVars, eventLog>>

Succeed(e) ==
    /\ ConsumerSettles(e)
    /\ Leave(e, "success")
    /\ UNCHANGED retryCount

Throw(e) ==
    /\ ConsumerSettles(e)
    /\ Leave(e, "failed")
    /\ UNCHANGED retryCount

(* The consumer returned `{ _retry: true }`. *)
RetryLimitReached(e) ==
    /\ ConsumerSettles(e)
    /\ retryCount[e] >= MaxRetry
    /\ Leave(e, "failed")
    /\ UNCHANGED retryCount

(* Mutant: the retry cap is off by one. *)
RedeliverOnceMore(e) ==
    /\ ConsumerSettles(e)
    /\ retryCount[e] <= MaxRetry
    /\ JobOf(e) \notin cancelled
    /\ retryCount' = [retryCount EXCEPT ![e] = @ + 1]
    /\ UNCHANGED <<pc, status, stats>>

Redeliver(e) ==
    /\ ConsumerSettles(e)
    /\ retryCount[e] < MaxRetry
    /\ retryCount' = [retryCount EXCEPT ![e] = @ + 1]
    /\ \/ /\ JobOf(e) \in cancelled
          /\ Leave(e, "abandoned")
       \/ /\ JobOf(e) \notin cancelled
          /\ UNCHANGED <<pc, status, stats>>

-----------------------------------------------------------------------------
(* push().                                                                  *)

PushRejected(j) ==
    /\ push[j] = "idle"
    /\ CallerRuns(j)
    /\ Len(Batch[j]) > MaxBatch
    /\ push' = [push EXCEPT ![j] = "rejected"]
    /\ UNCHANGED <<configVars, registered, jobMode, launched, launching, deliveryVars,
                   pc, retryCount, semaphoreVars>>

(* What every accepted push() does before it enters a delivery loop. *)
Accept(j, state) ==
    /\ push[j] = "idle"
    /\ CallerRuns(j)
    /\ Len(Batch[j]) <= MaxBatch
    /\ registered' = registered \cup {j}
    /\ push' = [push EXCEPT ![j] = state]
    /\ jobMode' = [jobMode EXCEPT ![j] = mode]
    /\ UNCHANGED <<configVars, retryCount, semaphoreVars>>

HasWork(j) == QueueOf[j] \in consumers /\ Batch[j] # <<>>

PushNothing(j) ==
    /\ ~HasWork(j)
    /\ Accept(j, "resolved")
    /\ UNCHANGED <<launched, launching, deliveryVars, pc>>

PushSequential(j) ==
    /\ mode = "sequential"
    /\ HasWork(j)
    /\ Accept(j, "running")
    /\ launched' = [launched EXCEPT ![j] = 1]
    /\ BeginDelivery(Batch[j][1], pc)
    /\ UNCHANGED launching

PushConcurrent(j) ==
    /\ mode = "concurrent"
    /\ HasWork(j)
    /\ Accept(j, "running")
    /\ launching' = <<j>> \o launching
    /\ UNCHANGED <<launched, deliveryVars, pc>>

-----------------------------------------------------------------------------
(* processJobConcurrent().                                                  *)

(* The launch loop of call j reaches event e. *)
Launch(j, e) ==
    /\ launching # <<>>
    /\ j = Head(launching)
    /\ launched[j] < Len(Batch[j])
    /\ e = Batch[j][launched[j] + 1]
    /\ launched' = [launched EXCEPT ![j] = @ + 1]
    /\ launching' = IF launched[j] + 1 = Len(Batch[j]) THEN Tail(launching) ELSE launching
    /\ UNCHANGED <<configVars, push, jobMode, registered, retryCount>>

LaunchCancelled(j, e) ==
    /\ Launch(j, e)
    /\ j \in cancelled
    /\ pc' = [pc EXCEPT ![e] = "done"]
    /\ UNCHANGED <<deliveryVars, semaphoreVars>>

LaunchKeyed(j, e) ==
    /\ Launch(j, e)
    /\ j \notin cancelled
    /\ HasKey(e)
    /\ Acquire(e)
    /\ UNCHANGED deliveryVars

LaunchPlain(j, e) ==
    /\ Launch(j, e)
    /\ j \notin cancelled
    /\ ~HasKey(e)
    /\ BeginDelivery(e, pc)
    /\ UNCHANGED semaphoreVars

(* Mutant: acquire() waits in an `if` instead of a `while`. *)

(* A woken closure looks at the count again, and may have to wait again. *)
Recheck(e) ==
    /\ FromEventLoop
    /\ pc[e] = "woken"
    /\ Acquire(e)
    /\ UNCHANGED <<configVars, jobVars, deliveryVars, retryCount>>

(* Mutant: a cancel is not looked for again after the wait for a permit. *)
EnterRegardless(e) ==
    /\ FromEventLoop
    /\ pc[e] = "granted"
    /\ BeginDelivery(e, pc)
    /\ UNCHANGED <<configVars, jobVars, retryCount, semaphoreVars>>

(* Mutant: a cancel is looked for before the try, and the permit is kept. *)
EnterOrKeepPermit(e) ==
    /\ FromEventLoop
    /\ pc[e] = "granted"
    /\ \/ /\ JobOf(e) \in cancelled
          /\ pc' = [pc EXCEPT ![e] = "done"]
          /\ UNCHANGED deliveryVars
       \/ /\ JobOf(e) \notin cancelled
          /\ BeginDelivery(e, pc)
    /\ UNCHANGED <<configVars, jobVars, retryCount, semaphoreVars>>

(* Mutant: a cancel found after the wait gives the permit back at once, and the
   `finally` gives it back again. *)
EnterReleasesTwice(e) ==
    /\ FromEventLoop
    /\ pc[e] = "granted"
    /\ \/ /\ JobOf(e) \in cancelled
          /\ pc' = [pc EXCEPT ![e] = "finishing"]
          /\ active' = [active EXCEPT ![KeyOf[e]] = @ - 1]
          /\ UNCHANGED deliveryVars
       \/ /\ JobOf(e) \notin cancelled
          /\ BeginDelivery(e, pc)
          /\ UNCHANGED active
    /\ UNCHANGED <<configVars, jobVars, retryCount, waiters, holding>>

(* The continuation of `await acquire()` enters processEvent(). *)
EnterWithPermit(e) ==
    /\ FromEventLoop
    /\ pc[e] = "granted"
    /\ \/ /\ JobOf(e) \in cancelled
          /\ pc' = [pc EXCEPT ![e] = "finishing"]
          /\ UNCHANGED deliveryVars
       \/ /\ JobOf(e) \notin cancelled
          /\ BeginDelivery(e, pc)
    /\ UNCHANGED <<configVars, jobVars, retryCount, semaphoreVars>>

(* The closure's own `finally`. *)
FinishConcurrent(e) ==
    /\ FromEventLoop
    /\ pc[e] = "finishing"
    /\ jobMode[JobOf(e)] = "concurrent"
    /\ \/ /\ HasKey(e)
          /\ Release(e)
       \/ /\ ~HasKey(e)
          /\ pc' = [pc EXCEPT ![e] = "done"]
          /\ UNCHANGED semaphoreVars
    /\ UNCHANGED <<configVars, jobVars, deliveryVars, retryCount>>

(* Mutant: push() returns with the first closure that settles. *)
FirstSettled(j) ==
    /\ FromEventLoop
    /\ push[j] = "running"
    /\ jobMode[j] = "concurrent"
    /\ \E e \in EventsOf(j) : pc[e] = "done"
    /\ push' = [push EXCEPT ![j] = "resolved"]
    /\ UNCHANGED <<configVars, jobMode, launched, launching, registered, deliveryVars, pc,
                   retryCount, semaphoreVars>>

(* Promise.allSettled() over the closures of call j. *)
AllSettled(j) ==
    /\ FromEventLoop
    /\ push[j] = "running"
    /\ jobMode[j] = "concurrent"
    /\ \A e \in EventsOf(j) : pc[e] = "done"
    /\ push' = [push EXCEPT ![j] = "resolved"]
    /\ UNCHANGED <<configVars, jobMode, launched, launching, registered, deliveryVars, pc,
                   retryCount, semaphoreVars>>

-----------------------------------------------------------------------------
(* processJobSequential(): what follows `await this.processEvent(...)`.     *)

SequentialResumes(j) ==
    /\ FromEventLoop
    /\ push[j] = "running"
    /\ jobMode[j] = "sequential"
    /\ pc[Batch[j][launched[j]]] = "finishing"
    /\ UNCHANGED <<configVars, jobMode, launching, registered, retryCount, semaphoreVars>>

SequentialNext(j) ==
    /\ SequentialResumes(j)
    /\ launched[j] < Len(Batch[j])
    /\ j \notin cancelled
    /\ launched' = [launched EXCEPT ![j] = @ + 1]
    /\ BeginDelivery(Batch[j][launched[j] + 1], [pc EXCEPT ![Batch[j][launched[j]]] = "done"])
    /\ UNCHANGED push

SequentialEnd(j) ==
    /\ SequentialResumes(j)
    /\ launched[j] = Len(Batch[j]) \/ j \in cancelled
    /\ pc' = [pc EXCEPT ![Batch[j][launched[j]]] = "done"]
    /\ push' = [push EXCEPT ![j] = "resolved"]
    /\ UNCHANGED <<launched, deliveryVars>>

-----------------------------------------------------------------------------
(* The rest of the interface.                                               *)

SetMode(m) ==
    /\ UserCodeRuns
    /\ mode # m
    /\ mode' = m
    /\ UNCHANGED <<consumers, cancelled, clearedBusy, jobVars, deliveryVars, pc, retryCount,
                   semaphoreVars>>

RegisterConsumer(q) ==
    /\ UserCodeRuns
    /\ consumers' = consumers \cup {q}
    /\ UNCHANGED <<mode, cancelled, clearedBusy, jobVars, deliveryVars, pc, retryCount,
                   semaphoreVars>>

(* cancelJob(): a job that clear() has dropped can no longer be cancelled. *)
Cancel(j) ==
    /\ UserCodeRuns
    /\ j \in registered
    /\ cancelled' = cancelled \cup {j}
    /\ UNCHANGED <<mode, consumers, clearedBusy, jobVars, deliveryVars, pc, retryCount,
                   semaphoreVars>>

(* clear() forgets the permits and the waiters, whatever is in flight. *)
Forget ==
    /\ UserCodeRuns
    /\ registered' = {}
    /\ eventLog' = {}
    /\ active' = [k \in Keys |-> 0]
    /\ waiters' = [k \in Keys |-> <<>>]
    /\ clearedBusy' = (clearedBusy \/ holding # {} \/ \E k \in Keys : waiters[k] # <<>>)
    /\ UNCHANGED <<mode, cancelled, push, jobMode, launched, launching, stats, status, pc,
                   retryCount, holding>>

Clear == Forget /\ UNCHANGED consumers

ClearAll == Forget /\ consumers' = {}

-----------------------------------------------------------------------------

Deliver(e) == Succeed(e) \/ Throw(e) \/ RetryLimitReached(e) \/ Redeliver(e)

LaunchEvent(j, e) == LaunchCancelled(j, e) \/ LaunchKeyed(j, e) \/ LaunchPlain(j, e)

Continue(e) == Recheck(e) \/ EnterWithPermit(e) \/ FinishConcurrent(e)

Return(j) == AllSettled(j) \/ SequentialNext(j) \/ SequentialEnd(j)

Call(j) == PushRejected(j) \/ PushNothing(j) \/ PushSequential(j) \/ PushConcurrent(j)

Next ==
    \/ \E j \in Jobs : Call(j) \/ Return(j) \/ Cancel(j)
    \/ \E j \in Jobs, e \in Events : LaunchEvent(j, e)
    \/ \E e \in Events : Deliver(e) \/ Continue(e)
    \/ \E m \in Modes : SetMode(m)
    \/ \E q \in QueueKeys : RegisterConsumer(q)
    \/ Clear
    \/ ClearAll

Spec == Init /\ [][Next]_vars

(* The event loop runs every ready continuation; consumers terminate. *)
Fairness ==
    /\ \A j \in Jobs, e \in Events : WF_vars(LaunchEvent(j, e))
    /\ \A e \in Events : WF_vars(Deliver(e)) /\ WF_vars(Continue(e))
    /\ \A j \in Jobs : WF_vars(Return(j))

FairSpec == Spec /\ Fairness

-----------------------------------------------------------------------------
(* Properties.                                                              *)

Holders(k) == {e \in holding : KeyOf[e] = k}
Woken(k) == {e \in Events : pc[e] = "woken" /\ KeyOf[e] = k}

(* The count of a key is the number of closures between acquire() and
   release(), and a keyed event of a concurrent call reaches its consumer only
   inside that stretch: no path through processJobConcurrent() (cancelled,
   retried, failed or waiting twice) leaks a permit or returns one twice.  A
   clear() that ran mid-flight voids it; one that ran at rest does not. *)
PermitAccounting ==
    /\ ~clearedBusy => \A k \in Keys : active[k] = Cardinality(Holders(k))
    /\ \A e \in Events :
          /\ pc[e] \in {"granted", "delivering", "finishing"}
          /\ HasKey(e)
          /\ jobMode[JobOf(e)] = "concurrent"
          => e \in holding

(* "Max events processing under this key at once": when every event of a key
   names the same limit, no more than that many hold a permit of the key. *)
LimitRespected ==
    ~clearedBusy =>
        \A e \in Events : HasKey(e) /\ (\A f \in Events : KeyOf[f] = KeyOf[e] => LimitOf[f] = LimitOf[e])
                            => Cardinality(Holders(KeyOf[e])) <= LimitOf[e]

(* No lost wake-up and no idle permit: while closures queue for a key, the
   permits taken and the closures woken but not yet rechecked together reach
   the key's smallest limit, so release() never leaves a waiter asleep beside a
   free permit, whoever barges in between. *)
NoIdlePermit ==
    \A k \in Keys : waiters[k] # <<>> =>
        \E e \in Events : KeyOf[e] = k /\ active[k] + Cardinality(Woken(k)) >= LimitOf[e]

(* What acquire() and release() promise together: counts that are exact, a
   limit that is kept, and nobody asleep beside a free permit. *)
PermitsAreSound == PermitAccounting /\ LimitRespected /\ NoIdlePermit

(* push() resolves only after every event of the job has settled, in both
   modes and after a cancel: nothing of a resolved call is waiting, holds a
   permit or is inside a consumer. *)
ResolvedIsQuiescent ==
    \A j \in Jobs : push[j] = "resolved" =>
        /\ \A e \in EventsOf(j) : pc[e] \in {"idle", "done"}
        /\ stats[j].inProgress = 0

Attempts(e) == IF status[e] = "pending" THEN 0 ELSE retryCount[e] + 1

(* Once a job is cancelled none of its events is handed to a consumer again,
   be it a launch, a permit granted late or a retry. *)
CancelIsFinal ==
    [][\A e \in Events : JobOf(e) \in cancelled =>
          \/ Attempts(e)' = Attempts(e)
          \/ pc'[e] = "finishing"]_vars

(* The queue implements its contract: see QueueContract. A retry that a cancel
   has overtaken is counted but never handed to the consumer. *)
Contract == INSTANCE QueueContract WITH
    attempts <- [e \in Events |-> Attempts(e)],
    outcome <- [e \in Events |-> IF status[e] \in {"success", "failed"} THEN status[e] ELSE "open"],
    permits <- holding,
    void <- clearedBusy

KeepsContract == Contract!Spec

(* Every accepted push() returns, if no clear() runs while permits are held or
   awaited and no consumer awaits a call that needs the consumer's own permit. *)
PushReturns ==
    \A j \in Jobs : push[j] = "running" ~> (push[j] = "resolved" \/ clearedBusy)

-----------------------------------------------------------------------------
(* The parts of the inductive invariant that EventQueueProofs works with.   *)

(* The events a delivery loop has not reached yet are untouched. *)
LaunchOK ==
    \A j \in Jobs :
        /\ launched[j] <= Len(Batch[j])
        /\ push[j] = "idle" => launched[j] = 0
        /\ \A i \in 1..Len(Batch[j]) : i > launched[j] => pc[Batch[j][i]] = "idle"

(* Who waits for a key waits once, for that key. *)
WaitersOK ==
    /\ \A k \in Keys : \A i \in 1..Len(waiters[k]) :
          /\ pc[waiters[k][i]] = "waiting"
          /\ KeyOf[waiters[k][i]] = k
          /\ \A h \in 1..Len(waiters[k]) : waiters[k][h] = waiters[k][i] => h = i
    /\ \A e \in Events : pc[e] \in {"waiting", "woken"} =>
          HasKey(e) /\ jobMode[JobOf(e)] = "concurrent"

(* Who holds a permit is between acquire() and release() of a concurrent call. *)
HoldersOK ==
    \A e \in holding :
        /\ HasKey(e)
        /\ pc[e] \in {"granted", "delivering", "finishing"}
        /\ jobMode[JobOf(e)] = "concurrent"

(* The calls on the launch stack are running ones. *)
StackOK ==
    \A i \in 1..Len(launching) :
        push[launching[i]] = "running" /\ jobMode[launching[i]] = "concurrent"

(* A running sequential call is at one event, behind it all are done. *)
SequentialOK ==
    \A j \in Jobs : push[j] = "running" /\ jobMode[j] = "sequential" =>
        /\ launched[j] >= 1
        /\ \A i \in 1..Len(Batch[j]) : i < launched[j] => pc[Batch[j][i]] = "done"

=============================================================================
