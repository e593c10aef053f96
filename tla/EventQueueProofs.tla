-------------------------- MODULE EventQueueProofs --------------------------
(* Proofs about EventQueue, for every set of calls, events, keys and limits. *)
EXTENDS EventQueue, FiniteSetTheorems, TLAPS

(* An event belongs to the one call that pushes it. *)
LEMMA JobOfEvent ==
    \A e \in Events : JobOf(e) \in Jobs /\ e \in EventsOf(JobOf(e))
PROOF
  <1>1. \A e \in Events : \E j \in Jobs : \E i \in 1..Len(Batch[j]) : Batch[j][i] = e
    BY QueueAssumption
  <1>2. \A e \in Events : \E j \in Jobs : e \in EventsOf(j)
    BY <1>1 DEF EventsOf
  <1> QED BY <1>2 DEF JobOf

(* An event belongs to one job. *)
LEMMA JobOfUnique ==
    \A j \in Jobs : \A e \in EventsOf(j) : e \in Events /\ JobOf(e) = j
PROOF
  <1> SUFFICES ASSUME NEW j \in Jobs, NEW e \in EventsOf(j)
               PROVE  e \in Events /\ JobOf(e) = j
    OBVIOUS
  <1>1. PICK i \in 1..Len(Batch[j]) : e = Batch[j][i]
    BY DEF EventsOf
  <1>2. e \in Events
    <2>1. Batch[j] \in Seq(Events)
      BY QueueAssumption
    <2> QED BY <1>1, <2>1
  <1>3. PICK i2 \in 1..Len(Batch[JobOf(e)]) : e = Batch[JobOf(e)][i2]
    BY <1>2, JobOfEvent DEF EventsOf
  <1>4. JobOf(e) \in Jobs
    BY <1>2, JobOfEvent
  <1>5. JobOf(e) = j
    BY <1>1, <1>3, <1>4, QueueAssumption
  <1> QED BY <1>2, <1>5

(* The events of a batch are events of its job. *)
LEMMA BatchElements ==
    \A j \in Jobs : /\ Batch[j] \in Seq(Events)
                    /\ Len(Batch[j]) \in Nat
                    /\ \A i \in 1..Len(Batch[j]) :
                         Batch[j][i] \in Events /\ JobOf(Batch[j][i]) = j
PROOF
  <1> SUFFICES ASSUME NEW j \in Jobs
               PROVE  /\ Batch[j] \in Seq(Events)
                      /\ Len(Batch[j]) \in Nat
                      /\ \A i \in 1..Len(Batch[j]) :
                           Batch[j][i] \in Events /\ JobOf(Batch[j][i]) = j
    OBVIOUS
  <1>1. Batch[j] \in Seq(Events)
    BY QueueAssumption
  <1>2. \A i \in 1..Len(Batch[j]) : Batch[j][i] \in EventsOf(j)
    BY DEF EventsOf
  <1>3. \A i \in 1..Len(Batch[j]) : Batch[j][i] \in Events /\ JobOf(Batch[j][i]) = j
    BY <1>2, JobOfUnique
  <1>4. Len(Batch[j]) \in Nat
    BY <1>1
  <1> QED BY <1>1, <1>3, <1>4

-----------------------------------------------------------------------------
(* Type correctness.                                                        *)

(* A delivery that begins keeps the types it touches. *)
LEMMA TypeOfBeginDelivery ==
    ASSUME TypeOK, NEW e \in Events, NEW at \in [Events -> Places], BeginDelivery(e, at)
    PROVE  /\ status' \in [Events -> Statuses]
           /\ stats' \in [Jobs -> [success : Int, failed : Int, inProgress : Int]]
           /\ eventLog' \subseteq Events
           /\ pc' \in [Events -> Places]
PROOF
  <1>1. status' \in [Events -> Statuses]
    BY DEF TypeOK, BeginDelivery, Statuses
  <1>2. stats' \in [Jobs -> [success : Int, failed : Int, inProgress : Int]]
    <2>1. /\ JobOf(e) \in Jobs
          /\ stats \in [Jobs -> [success : Int, failed : Int, inProgress : Int]]
      BY JobOfEvent DEF TypeOK
    <2> QED BY <2>1 DEF BeginDelivery
  <1>3. eventLog' \subseteq Events
    BY DEF TypeOK, BeginDelivery
  <1>4. pc' \in [Events -> Places]
    BY DEF BeginDelivery, Places
  <1> QED BY <1>1, <1>2, <1>3, <1>4

(* A delivery that ends keeps the types it touches. *)
LEMMA TypeOfLeave ==
    ASSUME TypeOK, NEW e \in Events, NEW outcome \in {"success", "failed", "abandoned"},
           Leave(e, outcome)
    PROVE  /\ status' \in [Events -> Statuses]
           /\ stats' \in [Jobs -> [success : Int, failed : Int, inProgress : Int]]
           /\ pc' \in [Events -> Places]
PROOF
  <1>1. status' \in [Events -> Statuses]
    BY DEF TypeOK, Leave, Statuses
  <1>2. stats' \in [Jobs -> [success : Int, failed : Int, inProgress : Int]]
    <2>1. /\ JobOf(e) \in Jobs
          /\ stats \in [Jobs -> [success : Int, failed : Int, inProgress : Int]]
      BY JobOfEvent DEF TypeOK
    <2> QED BY <2>1 DEF Leave
  <1>3. pc' \in [Events -> Places]
    BY DEF TypeOK, Leave, Places
  <1> QED BY <1>1, <1>2, <1>3

(* acquire() keeps the types of the semaphore. *)
LEMMA TypeOfAcquire ==
    ASSUME TypeOK, NEW e \in Events, Acquire(e)
    PROVE  /\ active' \in [Keys -> Nat]
           /\ waiters' \in [Keys -> Seq(Events)]
           /\ holding' \subseteq Events
           /\ pc' \in [Events -> Places]
PROOF
  <1>1. active' \in [Keys -> Nat]
    <2>1. active \in [Keys -> Nat]
      BY DEF TypeOK
    <2>2. ASSUME active' = [active EXCEPT ![KeyOf[e]] = @ + 1], NEW k \in Keys
          PROVE  active'[k] \in Nat
      BY <2>1, <2>2
    <2> QED BY <2>1, <2>2 DEF Acquire, TakePermit, JoinWaiters
  <1>2. waiters' \in [Keys -> Seq(Events)]
    <2>1. waiters \in [Keys -> Seq(Events)]
      BY DEF TypeOK
    <2>2. ASSUME waiters' = [waiters EXCEPT ![KeyOf[e]] = Append(@, e)], NEW k \in Keys
          PROVE  waiters'[k] \in Seq(Events)
      <3>1. waiters[k] \in Seq(Events) /\ Append(waiters[k], e) \in Seq(Events)
        BY <2>1
      <3> QED BY <2>1, <2>2, <3>1
    <2> QED BY <2>1, <2>2 DEF Acquire, TakePermit, JoinWaiters
  <1>3. holding' \subseteq Events
    BY DEF TypeOK, Acquire, TakePermit, JoinWaiters
  <1>4. pc' \in [Events -> Places]
    BY DEF TypeOK, Acquire, TakePermit, JoinWaiters, Places
  <1> QED BY <1>1, <1>2, <1>3, <1>4

(* release() keeps the types of the semaphore. *)
LEMMA TypeOfRelease ==
    ASSUME TypeOK, NEW e \in Events, HasKey(e), Release(e)
    PROVE  /\ active' \in [Keys -> Nat]
           /\ waiters' \in [Keys -> Seq(Events)]
           /\ holding' \subseteq Events
           /\ pc' \in [Events -> Places]
PROOF
  <1>0. KeyOf[e] \in Keys
    BY QueueAssumption DEF HasKey
  <1>1. active' \in [Keys -> Nat]
    <2>1. active' = [active EXCEPT ![KeyOf[e]] = IF @ > 0 THEN @ - 1 ELSE @]
      BY DEF Release
    <2>2. active \in [Keys -> Nat]
      BY DEF TypeOK
    <2> QED BY <1>0, <2>1, <2>2
  <1>2. holding' \subseteq Events
    BY DEF TypeOK, Release
  <1>3. waiters' \in [Keys -> Seq(Events)]
    <2>1. waiters \in [Keys -> Seq(Events)]
      BY DEF TypeOK
    <2>2. CASE waiters' = waiters
      BY <2>1, <2>2
    <2>3. CASE waiters[KeyOf[e]] # <<>> /\ waiters' = [waiters EXCEPT ![KeyOf[e]] = Tail(@)]
      BY <1>0, <2>1, <2>3
    <2> QED BY <2>2, <2>3 DEF Release
  <1>4. pc' \in [Events -> Places]
    BY DEF TypeOK, Release, Places
  <1> QED BY <1>1, <1>2, <1>3, <1>4

(* The queue starts with variables of their types. *)
LEMMA TypeOKInit == Init => TypeOK
PROOF
  <1> SUFFICES ASSUME Init PROVE TypeOK
    OBVIOUS
  <1>1. stats \in [Jobs -> [success : Int, failed : Int, inProgress : Int]]
    BY DEF Init
  <1>2. launching \in Seq(Jobs) /\ waiters \in [Keys -> Seq(Events)]
    BY DEF Init
  <1> QED BY <1>1, <1>2 DEF Init, TypeOK, PushStates, Modes, Places, Statuses

(* Every step of the queue keeps the types. *)
LEMMA TypeOKNext == TypeOK /\ [Next]_vars => TypeOK'
PROOF
  <1> SUFFICES ASSUME TypeOK, [Next]_vars
               PROVE  TypeOK'
    OBVIOUS
  <1> USE DEF configVars, jobVars, deliveryVars, semaphoreVars
  <1>1. ASSUME NEW j \in Jobs, PushRejected(j) PROVE TypeOK'
    BY <1>1 DEF PushRejected, TypeOK, PushStates
  <1>2. ASSUME NEW j \in Jobs, PushNothing(j) PROVE TypeOK'
    BY <1>2 DEF PushNothing, Accept, TypeOK, PushStates
  <1>3. ASSUME NEW j \in Jobs, PushSequential(j) PROVE TypeOK'
    <2>1. Batch[j][1] \in Events
      <3>1. Batch[j] \in Seq(Events) /\ Batch[j] # <<>>
        BY <1>3, BatchElements DEF PushSequential, HasWork
      <3> QED BY <3>1
    <2>2. BeginDelivery(Batch[j][1], pc) /\ pc \in [Events -> Places]
      BY <1>3 DEF PushSequential, TypeOK
    <2>3. /\ status' \in [Events -> Statuses]
          /\ stats' \in [Jobs -> [success : Int, failed : Int, inProgress : Int]]
          /\ eventLog' \subseteq Events
          /\ pc' \in [Events -> Places]
      BY <2>1, <2>2, TypeOfBeginDelivery
    <2> QED BY <1>3, <2>3 DEF PushSequential, Accept, TypeOK, PushStates
  <1>4. ASSUME NEW j \in Jobs, PushConcurrent(j) PROVE TypeOK'
    BY <1>4 DEF PushConcurrent, Accept, TypeOK, PushStates
  <1>5. ASSUME NEW j \in Jobs, NEW e \in Events, LaunchEvent(j, e) PROVE TypeOK'
    <2>1. ASSUME Launch(j, e)
          PROVE  launched' \in [Jobs -> Nat] /\ launching' \in Seq(Jobs)
      BY <2>1 DEF Launch, TypeOK
    <2>2. CASE LaunchCancelled(j, e)
      BY <2>1, <2>2 DEF LaunchCancelled, Launch, TypeOK, Places
    <2>3. CASE LaunchKeyed(j, e)
      BY <2>1, <2>3, TypeOfAcquire DEF LaunchKeyed, Launch, TypeOK
    <2>4. CASE LaunchPlain(j, e)
      BY <2>1, <2>4, TypeOfBeginDelivery DEF LaunchPlain, Launch, TypeOK
    <2> QED BY <1>5, <2>2, <2>3, <2>4 DEF LaunchEvent
  <1>6. ASSUME NEW e \in Events, Recheck(e) PROVE TypeOK'
    BY <1>6, TypeOfAcquire DEF Recheck, TypeOK
  <1>7. ASSUME NEW e \in Events, EnterWithPermit(e) PROVE TypeOK'
    <2>1. CASE BeginDelivery(e, pc)
      BY <1>7, <2>1, TypeOfBeginDelivery DEF EnterWithPermit, TypeOK
    <2>2. CASE pc' = [pc EXCEPT ![e] = "finishing"] /\ UNCHANGED deliveryVars
      BY <1>7, <2>2 DEF EnterWithPermit, TypeOK, Places
    <2> QED BY <1>7, <2>1, <2>2 DEF EnterWithPermit
  <1>8. ASSUME NEW e \in Events, FinishConcurrent(e) PROVE TypeOK'
    <2>1. CASE HasKey(e) /\ Release(e)
      BY <1>8, <2>1, TypeOfRelease DEF FinishConcurrent, TypeOK
    <2>2. CASE pc' = [pc EXCEPT ![e] = "done"] /\ UNCHANGED semaphoreVars
      BY <1>8, <2>2 DEF FinishConcurrent, TypeOK, Places
    <2> QED BY <1>8, <2>1, <2>2 DEF FinishConcurrent
  <1>9. ASSUME NEW j \in Jobs, AllSettled(j) PROVE TypeOK'
    BY <1>9 DEF AllSettled, TypeOK, PushStates
  <1>10. ASSUME NEW j \in Jobs, SequentialNext(j) PROVE TypeOK'
    <2> DEFINE at == [pc EXCEPT ![Batch[j][launched[j]]] = "done"]
               e == Batch[j][launched[j] + 1]
    <2>1. e \in Events
      <3>1. launched[j] \in Nat /\ launched[j] < Len(Batch[j])
        BY <1>10 DEF SequentialNext, TypeOK
      <3> QED BY <3>1, BatchElements
    <2>2. at \in [Events -> Places]
      BY DEF TypeOK, Places
    <2>3. BeginDelivery(e, at)
      BY <1>10 DEF SequentialNext
    <2> HIDE DEF e, at
    <2>4. /\ status' \in [Events -> Statuses]
          /\ stats' \in [Jobs -> [success : Int, failed : Int, inProgress : Int]]
          /\ eventLog' \subseteq Events
          /\ pc' \in [Events -> Places]
      BY <2>1, <2>2, <2>3, TypeOfBeginDelivery
    <2>5. launched' \in [Jobs -> Nat]
      BY <1>10 DEF SequentialNext, TypeOK
    <2> QED BY <1>10, <2>4, <2>5 DEF SequentialNext, SequentialResumes, TypeOK
  <1>11. ASSUME NEW j \in Jobs, SequentialEnd(j) PROVE TypeOK'
    BY <1>11 DEF SequentialEnd, SequentialResumes, TypeOK, PushStates, Places
  <1>12. ASSUME NEW e \in Events, Deliver(e) PROVE TypeOK'
    <2>1. CASE Succeed(e)
      BY <2>1, TypeOfLeave DEF Succeed, ConsumerSettles, TypeOK
    <2>2. CASE Throw(e)
      BY <2>2, TypeOfLeave DEF Throw, ConsumerSettles, TypeOK
    <2>3. CASE RetryLimitReached(e)
      BY <2>3, TypeOfLeave DEF RetryLimitReached, ConsumerSettles, TypeOK
    <2>4. CASE Redeliver(e)
      <3>1. retryCount' \in [Events -> Nat]
        BY <2>4 DEF Redeliver, TypeOK
      <3>2. CASE Leave(e, "abandoned")
        BY <2>4, <3>1, <3>2, TypeOfLeave DEF Redeliver, ConsumerSettles, TypeOK
      <3>3. CASE UNCHANGED <<pc, status, stats>>
        BY <2>4, <3>1, <3>3 DEF Redeliver, ConsumerSettles, TypeOK
      <3> QED BY <2>4, <3>2, <3>3 DEF Redeliver
    <2> QED BY <1>12, <2>1, <2>2, <2>3, <2>4 DEF Deliver
  <1>13. ASSUME NEW m \in Modes, SetMode(m) PROVE TypeOK'
    BY <1>13 DEF SetMode, TypeOK
  <1>14. ASSUME NEW q \in QueueKeys, RegisterConsumer(q) PROVE TypeOK'
    BY <1>14 DEF RegisterConsumer, TypeOK
  <1>15. ASSUME NEW j \in Jobs, Cancel(j) PROVE TypeOK'
    BY <1>15 DEF Cancel, TypeOK
  <1>16. CASE Clear \/ ClearAll
    <2>1. active' \in [Keys -> Nat] /\ waiters' \in [Keys -> Seq(Events)]
      <3>1. active' = [k \in Keys |-> 0] /\ waiters' = [k \in Keys |-> <<>>]
        BY <1>16 DEF Clear, ClearAll, Forget
      <3>2. 0 \in Nat /\ <<>> \in Seq(Events)
        OBVIOUS
      <3> QED BY <3>1, <3>2
    <2>2. clearedBusy' \in BOOLEAN
      BY <1>16 DEF Clear, ClearAll, Forget, TypeOK
    <2> QED BY <1>16, <2>1, <2>2 DEF Clear, ClearAll, Forget, TypeOK
  <1>17. CASE UNCHANGED vars
    BY <1>17 DEF vars, TypeOK
  <1> QED
    BY <1>1, <1>2, <1>3, <1>4, <1>5, <1>6, <1>7, <1>8, <1>9, <1>10, <1>11, <1>12, <1>13,
       <1>14, <1>15, <1>16, <1>17
    DEF Next, Call, Return, Continue

(* Every variable keeps its type: in particular the count of permits in use
   never drops below zero, although clear() may reset it under its holders. *)
THEOREM TypeCorrect == Spec => []TypeOK
PROOF
  BY TypeOKInit, TypeOKNext, PTL DEF Spec

-----------------------------------------------------------------------------
(* The shape of the deliveries: which events a loop has reached, who waits,  *)
(* who holds a permit.                                                      *)

Shape == LaunchOK /\ WaitersOK /\ HoldersOK /\ StackOK /\ SequentialOK

(* No event occurs twice, in one call or in two. *)
LEMMA BatchInjective ==
    \A j1, j2 \in Jobs : \A i1 \in 1..Len(Batch[j1]), i2 \in 1..Len(Batch[j2]) :
        Batch[j1][i1] = Batch[j2][i2] => j1 = j2 /\ i1 = i2
PROOF
  BY QueueAssumption

(* A step that starts no event keeps LaunchOK if idle closures stay idle. *)
LEMMA LaunchStays ==
    ASSUME TypeOK, LaunchOK, launched' = launched,
           \A j \in Jobs : push'[j] = "idle" => push[j] = "idle",
           \A x \in Events : pc[x] = "idle" => pc'[x] = "idle"
    PROVE  LaunchOK'
PROOF
  BY BatchElements DEF LaunchOK

(* A step that starts the next event of call j keeps LaunchOK. *)
LEMMA LaunchAdvances ==
    ASSUME TypeOK, LaunchOK, NEW j \in Jobs,
           launched[j] < Len(Batch[j]),
           launched' = [launched EXCEPT ![j] = @ + 1],
           push'[j] # "idle",
           \A i \in Jobs : push'[i] = "idle" => push[i] = "idle",
           \A x \in Events : /\ pc[x] = "idle"
                             /\ x # Batch[j][launched[j] + 1]
                             => pc'[x] = "idle"
    PROVE  LaunchOK'
PROOF
  <1>1. launched \in [Jobs -> Nat]
    BY DEF TypeOK
  <1>2. ASSUME NEW i \in Jobs
        PROVE  /\ launched'[i] <= Len(Batch[i])
               /\ push'[i] = "idle" => launched'[i] = 0
    BY <1>1, <1>2, BatchElements DEF LaunchOK
  <1>3. ASSUME NEW i \in Jobs, NEW h \in 1..Len(Batch[i]), h > launched'[i]
        PROVE  pc'[Batch[i][h]] = "idle"
    <2>1. h > launched[i] /\ (i = j => h # launched[j] + 1)
      BY <1>1, <1>3, BatchElements
    <2>2. pc[Batch[i][h]] = "idle" /\ Batch[i][h] \in Events
      BY <2>1, BatchElements DEF LaunchOK
    <2>3. launched[j] + 1 \in 1..Len(Batch[j])
      BY <1>1, BatchElements
    <2>4. Batch[i][h] # Batch[j][launched[j] + 1]
      BY <2>1, <2>3, BatchInjective
    <2> QED BY <2>2, <2>4
  <1> QED BY <1>2, <1>3 DEF LaunchOK

(* What a step of the semaphore does to the closures. *)
LEMMA PcOfAcquire ==
    ASSUME TypeOK, NEW e \in Events, Acquire(e)
    PROVE  \A x \in Events : x # e => pc'[x] = pc[x]
PROOF
  BY DEF Acquire, TakePermit, JoinWaiters, TypeOK

(* release() moves nobody but the waiter that it wakes. *)
LEMMA PcOfRelease ==
    ASSUME TypeOK, WaitersOK, NEW e \in Events, HasKey(e), pc[e] = "finishing", Release(e)
    PROVE  /\ pc'[e] = "done"
           /\ \A x \in Events : x # e =>
                pc'[x] = pc[x] \/ (pc[x] = "waiting" /\ pc'[x] = "woken")
PROOF
  <1>1. KeyOf[e] \in Keys
    BY QueueAssumption DEF HasKey
  <1>2. CASE pc' = [pc EXCEPT ![e] = "done"]
    BY <1>2 DEF TypeOK
  <1>3. CASE /\ waiters[KeyOf[e]] # <<>>
             /\ pc' = [pc EXCEPT ![e] = "done", ![Head(waiters[KeyOf[e]])] = "woken"]
    <2>1. /\ Head(waiters[KeyOf[e]]) \in Events
          /\ pc[Head(waiters[KeyOf[e]])] = "waiting"
      <3>1. waiters[KeyOf[e]] \in Seq(Events) /\ 1 \in 1..Len(waiters[KeyOf[e]])
        BY <1>1, <1>3 DEF TypeOK
      <3>2. Head(waiters[KeyOf[e]]) = waiters[KeyOf[e]][1]
        BY <1>3, <3>1
      <3> QED BY <1>1, <3>1, <3>2 DEF WaitersOK
    <2> QED BY <1>3, <2>1 DEF TypeOK
  <1> QED BY <1>2, <1>3 DEF Release

(* A launch starts the next event of a running concurrent call. *)
LEMMA LaunchFacts ==
    ASSUME TypeOK, LaunchOK, StackOK, NEW j \in Jobs, NEW e \in Events, Launch(j, e)
    PROVE  /\ push[j] = "running" /\ jobMode[j] = "concurrent"
           /\ launched[j] + 1 \in 1..Len(Batch[j])
           /\ pc[e] = "idle" /\ JobOf(e) = j
PROOF
  <1>1. launching # <<>> /\ launching \in Seq(Jobs) /\ j = Head(launching)
    BY DEF Launch, TypeOK
  <1>2. 1 \in 1..Len(launching) /\ launching[1] = j
    BY <1>1
  <1>3. push[j] = "running" /\ jobMode[j] = "concurrent"
    BY <1>2 DEF StackOK
  <1>4. launched[j] \in Nat /\ launched[j] < Len(Batch[j]) /\ e = Batch[j][launched[j] + 1]
    BY DEF Launch, TypeOK
  <1>5. launched[j] + 1 \in 1..Len(Batch[j])
    BY <1>4, BatchElements
  <1> QED BY <1>3, <1>4, <1>5, BatchElements DEF LaunchOK

(* Every step keeps the stack of launch loops in order. *)
LEMMA LaunchOKNext == TypeOK /\ LaunchOK /\ StackOK /\ WaitersOK /\ [Next]_vars => LaunchOK'
PROOF
  <1> SUFFICES ASSUME TypeOK, LaunchOK, StackOK, WaitersOK, [Next]_vars
               PROVE  LaunchOK'
    OBVIOUS
  <1> USE DEF configVars, jobVars, deliveryVars, semaphoreVars
  <1>1. ASSUME NEW j \in Jobs, PushRejected(j) \/ PushNothing(j) \/ PushConcurrent(j) \/ AllSettled(j)
        PROVE  LaunchOK'
    BY <1>1, LaunchStays DEF PushRejected, PushNothing, PushConcurrent, AllSettled, Accept, TypeOK
  <1>2. ASSUME NEW j \in Jobs, PushSequential(j) PROVE LaunchOK'
    <2>1. launched[j] = 0 /\ launched[j] < Len(Batch[j])
      <3>1. Batch[j] \in Seq(Events) /\ Batch[j] # <<>>
        BY <1>2, BatchElements DEF PushSequential, HasWork
      <3> QED BY <1>2, <3>1 DEF PushSequential, Accept, LaunchOK
    <2>2. launched' = [launched EXCEPT ![j] = @ + 1]
      BY <1>2, <2>1 DEF PushSequential, TypeOK
    <2>3. \A x \in Events : x # Batch[j][launched[j] + 1] => pc'[x] = pc[x]
      BY <1>2, <2>1 DEF PushSequential, BeginDelivery, TypeOK
    <2>4. push' = [push EXCEPT ![j] = "running"]
      BY <1>2 DEF PushSequential, Accept
    <2>5. push'[j] # "idle" /\ \A i \in Jobs : push'[i] = "idle" => push[i] = "idle"
      BY <2>4 DEF TypeOK
    <2> QED BY <2>1, <2>2, <2>3, <2>5, LaunchAdvances
  <1>3. ASSUME NEW j \in Jobs, NEW e \in Events, LaunchEvent(j, e) PROVE LaunchOK'
    <2>1. Launch(j, e)
      BY <1>3 DEF LaunchEvent, LaunchCancelled, LaunchKeyed, LaunchPlain
    <2>2. \A x \in Events : x # e => pc'[x] = pc[x]
      BY <1>3, PcOfAcquire
      DEF LaunchEvent, LaunchCancelled, LaunchKeyed, LaunchPlain, BeginDelivery, TypeOK
    <2>3. push[j] = "running"
      BY <2>1, LaunchFacts
    <2> QED BY <2>1, <2>2, <2>3, LaunchAdvances DEF Launch
  <1>4. ASSUME NEW e \in Events, Recheck(e) PROVE LaunchOK'
    BY <1>4, LaunchStays, PcOfAcquire DEF Recheck
  <1>5. ASSUME NEW e \in Events, EnterWithPermit(e) PROVE LaunchOK'
    <2>1. \A x \in Events : x # e => pc'[x] = pc[x]
      BY <1>5 DEF EnterWithPermit, BeginDelivery, TypeOK
    <2> QED BY <1>5, <2>1, LaunchStays DEF EnterWithPermit
  <1>6. ASSUME NEW e \in Events, FinishConcurrent(e) PROVE LaunchOK'
    <2>1. \A x \in Events : pc[x] = "idle" => pc'[x] = "idle"
      BY <1>6, PcOfRelease DEF FinishConcurrent, TypeOK
    <2> QED BY <1>6, <2>1, LaunchStays DEF FinishConcurrent
  <1>7. ASSUME NEW e \in Events, Deliver(e) PROVE LaunchOK'
    <2>1. pc[e] = "delivering" /\ launched' = launched /\ push' = push
      BY <1>7 DEF Deliver, Succeed, Throw, RetryLimitReached, Redeliver, ConsumerSettles
    <2>2. \A x \in Events : x # e => pc'[x] = pc[x]
      BY <1>7 DEF Deliver, Succeed, Throw, RetryLimitReached, Redeliver, Leave, TypeOK
    <2> QED BY <2>1, <2>2, LaunchStays
  <1>8. ASSUME NEW j \in Jobs, SequentialNext(j) PROVE LaunchOK'
    <2>1. \A x \in Events : pc[x] = "idle" /\ x # Batch[j][launched[j] + 1] => pc'[x] = "idle"
      BY <1>8 DEF SequentialNext, SequentialResumes, BeginDelivery, TypeOK
    <2>2. /\ launched' = [launched EXCEPT ![j] = @ + 1]
          /\ launched[j] < Len(Batch[j])
          /\ push[j] = "running" /\ push' = push
      BY <1>8 DEF SequentialNext, SequentialResumes
    <2> QED BY <2>1, <2>2, LaunchAdvances
  <1>9. ASSUME NEW j \in Jobs, SequentialEnd(j) PROVE LaunchOK'
    BY <1>9, LaunchStays DEF SequentialEnd, SequentialResumes, TypeOK
  <1>10. ASSUME UNCHANGED <<pc, launched, push>> PROVE LaunchOK'
    BY <1>10, LaunchStays
  <1>11. ASSUME NEW j \in Jobs, Cancel(j) PROVE LaunchOK'
    BY <1>10, <1>11 DEF Cancel
  <1>12. ASSUME NEW m \in Modes, SetMode(m) PROVE LaunchOK'
    BY <1>10, <1>12 DEF SetMode
  <1>13. ASSUME NEW q \in QueueKeys, RegisterConsumer(q) PROVE LaunchOK'
    BY <1>10, <1>13 DEF RegisterConsumer
  <1>14. CASE Clear \/ ClearAll
    BY <1>10, <1>14 DEF Clear, ClearAll, Forget
  <1>15. CASE UNCHANGED vars
    BY <1>10, <1>15 DEF vars
  <1> QED
    BY <1>1, <1>2, <1>3, <1>4, <1>5, <1>6, <1>7, <1>8, <1>9, <1>11, <1>12, <1>13, <1>14, <1>15
    DEF Next, Call, Return, Continue

(* The loop a call runs in is chosen once. *)
LEMMA ModeIsChosenOnce ==
    ASSUME TypeOK, LaunchOK, [Next]_vars
    PROVE  /\ \A i \in Jobs : push[i] # "idle" => jobMode'[i] = jobMode[i]
           /\ \A x \in Events : pc[x] # "idle" => jobMode'[JobOf(x)] = jobMode[JobOf(x)]
PROOF
  <1> USE DEF configVars, jobVars, deliveryVars, semaphoreVars
  <1>1. \A i \in Jobs : push[i] # "idle" => jobMode'[i] = jobMode[i]
    <2>1. CASE jobMode' = jobMode
      BY <2>1
    <2>2. CASE \E j \in Jobs : push[j] = "idle" /\ jobMode' = [jobMode EXCEPT ![j] = mode]
      BY <2>2 DEF TypeOK
    <2>3. ASSUME NEW j \in Jobs, Call(j)
          PROVE  jobMode' = jobMode \/ (push[j] = "idle" /\ jobMode' = [jobMode EXCEPT ![j] = mode])
      BY <2>3 DEF Call, PushRejected, PushNothing, PushSequential, PushConcurrent, Accept
    <2>4. ASSUME NEW j \in Jobs, Return(j) \/ Cancel(j) PROVE jobMode' = jobMode
      BY <2>4 DEF Return, Cancel, AllSettled, SequentialNext, SequentialEnd, SequentialResumes
    <2>5. ASSUME NEW j \in Jobs, NEW e \in Events, LaunchEvent(j, e) PROVE jobMode' = jobMode
      BY <2>5 DEF LaunchEvent, LaunchCancelled, LaunchKeyed, LaunchPlain, Launch
    <2>6. ASSUME NEW e \in Events, Deliver(e) \/ Continue(e) PROVE jobMode' = jobMode
      BY <2>6 DEF Deliver, Continue, Succeed, Throw, RetryLimitReached, Redeliver,
         ConsumerSettles, Recheck, EnterWithPermit, FinishConcurrent
    <2>7. ASSUME NEW m \in Modes, SetMode(m) PROVE jobMode' = jobMode
      BY <2>7 DEF SetMode
    <2>8. ASSUME NEW q \in QueueKeys, RegisterConsumer(q) PROVE jobMode' = jobMode
      BY <2>8 DEF RegisterConsumer
    <2>9. CASE Clear \/ ClearAll
      BY <2>1, <2>9 DEF Clear, ClearAll, Forget
    <2>10. CASE UNCHANGED vars
      BY <2>1, <2>10 DEF vars
    <2> QED BY <2>1, <2>2, <2>3, <2>4, <2>5, <2>6, <2>7, <2>8, <2>9, <2>10 DEF Next
  <1>2. ASSUME NEW x \in Events, pc[x] # "idle"
        PROVE  push[JobOf(x)] # "idle" /\ JobOf(x) \in Jobs
    <2>1. PICK i \in 1..Len(Batch[JobOf(x)]) : x = Batch[JobOf(x)][i]
      BY JobOfEvent DEF EventsOf
    <2>2. JobOf(x) \in Jobs
      BY JobOfEvent
    <2>3. ~(i > launched[JobOf(x)])
      BY <1>2, <2>1, <2>2 DEF LaunchOK
    <2> QED BY <2>1, <2>2, <2>3 DEF LaunchOK
  <1> QED BY <1>1, <1>2

(* Every step keeps each nested launch loop in the consumer that called it. *)
LEMMA StackOKNext == TypeOK /\ LaunchOK /\ StackOK /\ [Next]_vars => StackOK'
PROOF
  <1> SUFFICES ASSUME TypeOK, LaunchOK, StackOK, [Next]_vars
               PROVE  StackOK'
    OBVIOUS
  <1> USE DEF configVars, jobVars, deliveryVars, semaphoreVars
  <1>0. launching \in Seq(Jobs) /\ \A i \in 1..Len(launching) : launching[i] \in Jobs
    BY DEF TypeOK
  <1>1. ASSUME \A i \in Jobs : push[i] = "running" => push'[i] = "running",
               launching' = launching
        PROVE  StackOK'
    BY <1>0, <1>1, ModeIsChosenOnce DEF StackOK
  <1>2. ASSUME NEW j \in Jobs, PushRejected(j) \/ PushNothing(j) \/ PushSequential(j)
        PROVE  StackOK'
    <2>1. launching' = launching /\ \A i \in Jobs : push[i] = "running" => push'[i] = "running"
      BY <1>2 DEF PushRejected, PushNothing, PushSequential, Accept, TypeOK
    <2> QED BY <1>1, <2>1
  <1>3. ASSUME NEW j \in Jobs, PushConcurrent(j) PROVE StackOK'
    <2>1. /\ push' = [push EXCEPT ![j] = "running"]
          /\ jobMode' = [jobMode EXCEPT ![j] = "concurrent"]
          /\ launching' = <<j>> \o launching
          /\ push[j] = "idle"
      BY <1>3 DEF PushConcurrent, Accept
    <2>2. Len(launching') = Len(launching) + 1
      BY <1>0, <2>1
    <2>3. ASSUME NEW i \in 1..Len(launching')
          PROVE  push'[launching'[i]] = "running" /\ jobMode'[launching'[i]] = "concurrent"
      <3>1. CASE i = 1
        BY <1>0, <2>1, <3>1 DEF TypeOK
      <3>2. CASE i # 1
        <4>1. launching'[i] = launching[i - 1] /\ i - 1 \in 1..Len(launching)
          BY <1>0, <2>1, <2>2, <3>2
        <4> QED BY <1>0, <2>1, <4>1 DEF StackOK, TypeOK
      <3> QED BY <3>1, <3>2
    <2> QED BY <2>3 DEF StackOK
  <1>4. ASSUME NEW j \in Jobs, NEW e \in Events, LaunchEvent(j, e) PROVE StackOK'
    <2>1. Launch(j, e)
      BY <1>4 DEF LaunchEvent, LaunchCancelled, LaunchKeyed, LaunchPlain
    <2>2. push' = push /\ jobMode' = jobMode
      BY <2>1 DEF Launch
    <2>3. CASE launching' = launching
      BY <1>1, <2>2, <2>3
    <2>4. CASE launching' = Tail(launching)
      <3>1. launching # <<>>
        BY <2>1 DEF Launch
      <3>2. \A i \in 1..Len(launching') :
               launching'[i] = launching[i + 1] /\ i + 1 \in 1..Len(launching)
        BY <1>0, <2>4, <3>1
      <3> QED BY <2>2, <3>2 DEF StackOK
    <2> QED BY <2>1, <2>3, <2>4 DEF Launch
  <1>5. ASSUME NEW j \in Jobs, Return(j) PROVE StackOK'
    <2>1. launching = <<>> /\ launching' = launching
      BY <1>5 DEF Return, AllSettled, SequentialNext, SequentialEnd, SequentialResumes, FromEventLoop
    <2> QED BY <2>1 DEF StackOK
  <1>6. ASSUME NEW e \in Events, Deliver(e) \/ Continue(e) PROVE StackOK'
    <2>1. launching' = launching /\ push' = push
      BY <1>6 DEF Deliver, Continue, Succeed, Throw, RetryLimitReached, Redeliver,
         ConsumerSettles, Recheck, EnterWithPermit, FinishConcurrent
    <2> QED BY <1>1, <2>1
  <1>7. ASSUME NEW j \in Jobs, Cancel(j) PROVE StackOK'
    BY <1>1, <1>7 DEF Cancel
  <1>8. ASSUME NEW m \in Modes, SetMode(m) PROVE StackOK'
    BY <1>1, <1>8 DEF SetMode
  <1>9. ASSUME NEW q \in QueueKeys, RegisterConsumer(q) PROVE StackOK'
    BY <1>1, <1>9 DEF RegisterConsumer
  <1>10. CASE Clear \/ ClearAll
    BY <1>1, <1>10 DEF Clear, ClearAll, Forget
  <1>11. CASE UNCHANGED vars
    BY <1>1, <1>11 DEF vars
  <1> QED
    BY <1>2, <1>3, <1>4, <1>5, <1>6, <1>7, <1>8, <1>9, <1>10, <1>11 DEF Next, Call

(* The first event of a call that has just been made. *)
LEMMA FirstEvent ==
    ASSUME TypeOK, LaunchOK, NEW j \in Jobs, PushSequential(j)
    PROVE  /\ 1 \in 1..Len(Batch[j]) /\ Batch[j][1] \in Events
           /\ launched[j] = 0 /\ pc[Batch[j][1]] = "idle"
PROOF
  <1>1. Batch[j] \in Seq(Events) /\ Batch[j] # <<>>
    BY BatchElements DEF PushSequential, HasWork
  <1>2. 1 \in 1..Len(Batch[j]) /\ Batch[j][1] \in Events
    BY <1>1
  <1>3. launched[j] = 0
    BY DEF PushSequential, Accept, LaunchOK
  <1> QED BY <1>2, <1>3 DEF LaunchOK

(* The event that a sequential call turns to. *)
LEMMA NextEvent ==
    ASSUME TypeOK, LaunchOK, SequentialOK, NEW j \in Jobs, SequentialNext(j)
    PROVE  /\ launched[j] \in 1..Len(Batch[j]) /\ launched[j] + 1 \in 1..Len(Batch[j])
           /\ Batch[j][launched[j]] \in Events /\ Batch[j][launched[j] + 1] \in Events
           /\ pc[Batch[j][launched[j]]] = "finishing"
           /\ pc[Batch[j][launched[j] + 1]] = "idle"
           /\ Batch[j][launched[j]] # Batch[j][launched[j] + 1]
PROOF
  <1>1. /\ launched[j] \in Nat /\ launched[j] < Len(Batch[j]) /\ Len(Batch[j]) \in Nat
        /\ launched[j] >= 1
    BY BatchElements DEF SequentialNext, SequentialResumes, SequentialOK, TypeOK
  <1>2. launched[j] \in 1..Len(Batch[j]) /\ launched[j] + 1 \in 1..Len(Batch[j])
    BY <1>1
  <1>3. pc[Batch[j][launched[j]]] = "finishing"
    BY DEF SequentialNext, SequentialResumes
  <1>4. pc[Batch[j][launched[j] + 1]] = "idle"
    BY <1>1, <1>2 DEF LaunchOK
  <1> QED BY <1>2, <1>3, <1>4, BatchElements

(* A closure that has ended never runs again. *)
LEMMA DoneIsFinal ==
    ASSUME TypeOK, LaunchOK, StackOK, WaitersOK, SequentialOK, [Next]_vars
    PROVE  \A x \in Events : pc[x] = "done" => pc'[x] = "done"
PROOF
  <1> USE DEF configVars, jobVars, deliveryVars, semaphoreVars
  <1> DEFINE Stays == \A x \in Events : pc[x] = "done" => pc'[x] = "done"
  <1>1. ASSUME NEW j \in Jobs, PushRejected(j) \/ PushNothing(j) \/ PushConcurrent(j)
        PROVE  Stays
    BY <1>1 DEF PushRejected, PushNothing, PushConcurrent
  <1>2. ASSUME NEW j \in Jobs, PushSequential(j) PROVE Stays
    BY <1>2, FirstEvent DEF PushSequential, BeginDelivery, TypeOK
  <1>3. ASSUME NEW j \in Jobs, NEW e \in Events, LaunchEvent(j, e) PROVE Stays
    <2>1. Launch(j, e)
      BY <1>3 DEF LaunchEvent, LaunchCancelled, LaunchKeyed, LaunchPlain
    <2>2. \A x \in Events : x # e => pc'[x] = pc[x]
      BY <1>3, PcOfAcquire
      DEF LaunchEvent, LaunchCancelled, LaunchKeyed, LaunchPlain, BeginDelivery, TypeOK
    <2> QED BY <2>1, <2>2, LaunchFacts
  <1>4. ASSUME NEW e \in Events, Recheck(e) PROVE Stays
    BY <1>4, PcOfAcquire DEF Recheck
  <1>5. ASSUME NEW e \in Events, EnterWithPermit(e) PROVE Stays
    BY <1>5 DEF EnterWithPermit, BeginDelivery, TypeOK
  <1>6. ASSUME NEW e \in Events, FinishConcurrent(e) PROVE Stays
    BY <1>6, PcOfRelease DEF FinishConcurrent, TypeOK
  <1>7. ASSUME NEW e \in Events, Deliver(e) PROVE Stays
    <2>1. pc[e] = "delivering"
      BY <1>7 DEF Deliver, Succeed, Throw, RetryLimitReached, Redeliver, ConsumerSettles
    <2>2. \A x \in Events : x # e => pc'[x] = pc[x]
      BY <1>7 DEF Deliver, Succeed, Throw, RetryLimitReached, Redeliver, Leave, TypeOK
    <2> QED BY <2>1, <2>2
  <1>8. ASSUME NEW j \in Jobs, SequentialNext(j) PROVE Stays
    BY <1>8, NextEvent DEF SequentialNext, BeginDelivery, TypeOK
  <1>9. ASSUME NEW j \in Jobs, SequentialEnd(j) \/ AllSettled(j) PROVE Stays
    BY <1>9 DEF SequentialEnd, AllSettled, TypeOK
  <1>10. ASSUME NEW j \in Jobs, Cancel(j) PROVE Stays
    BY <1>10 DEF Cancel
  <1>11. ASSUME NEW m \in Modes, SetMode(m) PROVE Stays
    BY <1>11 DEF SetMode
  <1>12. ASSUME NEW q \in QueueKeys, RegisterConsumer(q) PROVE Stays
    BY <1>12 DEF RegisterConsumer
  <1>13. CASE Clear \/ ClearAll
    BY <1>13 DEF Clear, ClearAll, Forget
  <1>14. CASE UNCHANGED vars
    BY <1>14 DEF vars
  <1> QED
    BY <1>1, <1>2, <1>3, <1>4, <1>5, <1>6, <1>7, <1>8, <1>9, <1>10, <1>11, <1>12, <1>13, <1>14
    DEF Next, Call, Return, Continue

(* Every step keeps the events of sequential jobs away from the semaphore. *)
LEMMA SequentialOKNext ==
    TypeOK /\ LaunchOK /\ StackOK /\ WaitersOK /\ SequentialOK /\ [Next]_vars => SequentialOK'
PROOF
  <1> SUFFICES ASSUME TypeOK, LaunchOK, StackOK, WaitersOK, SequentialOK, [Next]_vars
               PROVE  SequentialOK'
    OBVIOUS
  <1> USE DEF configVars, jobVars, deliveryVars, semaphoreVars
  <1>0. \A j \in Jobs : \A i \in 1..Len(Batch[j]) : pc[Batch[j][i]] = "done" => pc'[Batch[j][i]] = "done"
    BY DoneIsFinal, BatchElements
  <1>1. ASSUME NEW i \in Jobs, launched'[i] = launched[i],
               push'[i] = "running" /\ jobMode'[i] = "sequential" =>
                   push[i] = "running" /\ jobMode[i] = "sequential",
               push'[i] = "running" /\ jobMode'[i] = "sequential"
        PROVE  /\ launched'[i] >= 1
               /\ \A h \in 1..Len(Batch[i]) : h < launched'[i] => pc'[Batch[i][h]] = "done"
    BY <1>0, <1>1 DEF SequentialOK
  <1>2. ASSUME NEW j \in Jobs, PushRejected(j) \/ PushNothing(j) \/ PushConcurrent(j)
        PROVE  SequentialOK'
    <2>1. /\ launched' = launched
          /\ \A i \in Jobs : push'[i] = "running" /\ jobMode'[i] = "sequential" =>
                push[i] = "running" /\ jobMode[i] = "sequential"
      BY <1>2 DEF PushRejected, PushNothing, PushConcurrent, Accept, TypeOK
    <2> QED BY <1>1, <2>1 DEF SequentialOK
  <1>3. ASSUME NEW j \in Jobs, PushSequential(j) PROVE SequentialOK'
    <2>1. /\ push' = [push EXCEPT ![j] = "running"]
          /\ jobMode' = [jobMode EXCEPT ![j] = "sequential"]
          /\ launched' = [launched EXCEPT ![j] = 1]
      BY <1>3 DEF PushSequential, Accept
    <2>2. \A i \in Jobs : i # j =>
             launched'[i] = launched[i] /\ push'[i] = push[i] /\ jobMode'[i] = jobMode[i]
      BY <2>1 DEF TypeOK
    <2>3. launched'[j] = 1
      BY <2>1 DEF TypeOK
    <2> QED BY <1>1, <2>2, <2>3 DEF SequentialOK
  <1>4. ASSUME NEW j \in Jobs, NEW e \in Events, LaunchEvent(j, e) PROVE SequentialOK'
    <2>1. Launch(j, e)
      BY <1>4 DEF LaunchEvent, LaunchCancelled, LaunchKeyed, LaunchPlain
    <2>2. /\ jobMode[j] = "concurrent" /\ jobMode' = jobMode /\ push' = push
          /\ \A i \in Jobs : i # j => launched'[i] = launched[i]
      BY <2>1, LaunchFacts DEF Launch, TypeOK
    <2> QED BY <1>1, <2>2 DEF SequentialOK
  <1>5. ASSUME NEW e \in Events, Deliver(e) \/ Continue(e) PROVE SequentialOK'
    <2>1. launched' = launched /\ push' = push /\ jobMode' = jobMode
      BY <1>5 DEF Deliver, Continue, Succeed, Throw, RetryLimitReached, Redeliver,
         ConsumerSettles, Recheck, EnterWithPermit, FinishConcurrent
    <2> QED BY <1>1, <2>1 DEF SequentialOK
  <1>6. ASSUME NEW j \in Jobs, SequentialNext(j) PROVE SequentialOK'
    <2>1. /\ push' = push /\ jobMode' = jobMode
          /\ launched' = [launched EXCEPT ![j] = @ + 1]
          /\ pc' = [[pc EXCEPT ![Batch[j][launched[j]]] = "done"]
                      EXCEPT ![Batch[j][launched[j] + 1]] = "delivering"]
      BY <1>6 DEF SequentialNext, SequentialResumes, BeginDelivery
    <2>2. \A i \in Jobs : i # j => launched'[i] = launched[i]
      BY <2>1 DEF TypeOK
    <2>3. launched'[j] = launched[j] + 1 /\ launched[j] \in Nat /\ launched[j] >= 1
      BY <1>6, <2>1, NextEvent DEF TypeOK
    <2>4. pc'[Batch[j][launched[j]]] = "done"
      BY <1>6, <2>1, NextEvent DEF TypeOK
    <2>5. ASSUME NEW h \in 1..Len(Batch[j]), h < launched'[j]
          PROVE  pc'[Batch[j][h]] = "done"
      <3>1. CASE h = launched[j]
        BY <2>4, <3>1
      <3>2. CASE h < launched[j]
        BY <1>0, <1>6, <3>2 DEF SequentialOK, SequentialNext, SequentialResumes
      <3> QED BY <2>3, <2>5, <3>1, <3>2
    <2>6. ASSUME NEW i \in Jobs, i # j,
                 push'[i] = "running" /\ jobMode'[i] = "sequential"
          PROVE  /\ launched'[i] >= 1
                 /\ \A h \in 1..Len(Batch[i]) : h < launched'[i] => pc'[Batch[i][h]] = "done"
      BY <1>1, <2>1, <2>2, <2>6
    <2>7. launched'[j] >= 1
      BY <2>3
    <2> QED BY <2>5, <2>6, <2>7 DEF SequentialOK
  <1>7. ASSUME NEW j \in Jobs, SequentialEnd(j) \/ AllSettled(j) PROVE SequentialOK'
    <2>1. /\ launched' = launched /\ jobMode' = jobMode
          /\ push' = [push EXCEPT ![j] = "resolved"]
      BY <1>7 DEF SequentialEnd, SequentialResumes, AllSettled
    <2>2. \A i \in Jobs : push'[i] = "running" => push[i] = "running"
      BY <2>1 DEF TypeOK
    <2> QED BY <1>1, <2>1, <2>2 DEF SequentialOK
  <1>8. ASSUME UNCHANGED <<launched, push, jobMode>> PROVE SequentialOK'
    BY <1>1, <1>8 DEF SequentialOK
  <1>9. ASSUME NEW j \in Jobs, Cancel(j) PROVE SequentialOK'
    BY <1>8, <1>9 DEF Cancel
  <1>10. ASSUME NEW m \in Modes, SetMode(m) PROVE SequentialOK'
    BY <1>8, <1>10 DEF SetMode
  <1>11. ASSUME NEW q \in QueueKeys, RegisterConsumer(q) PROVE SequentialOK'
    BY <1>8, <1>11 DEF RegisterConsumer
  <1>12. CASE Clear \/ ClearAll
    BY <1>8, <1>12 DEF Clear, ClearAll, Forget
  <1>13. CASE UNCHANGED vars
    BY <1>8, <1>13 DEF vars
  <1> QED
    BY <1>2, <1>3, <1>4, <1>5, <1>6, <1>7, <1>9, <1>10, <1>11, <1>12, <1>13 DEF Next, Call, Return

(* A step that leaves the semaphore alone keeps the waiters and the holders if
   no waiter moves, nobody starts to wait and no holder leaves. *)
LEMMA SemaphoreStays ==
    ASSUME TypeOK, LaunchOK, WaitersOK, HoldersOK, [Next]_vars,
           UNCHANGED <<waiters, holding>>,
           \A x \in Events : pc[x] = "waiting" => pc'[x] = "waiting",
           \A x \in Events : pc'[x] \in {"waiting", "woken"} => pc'[x] = pc[x],
           \A x \in holding : pc'[x] \in {"granted", "delivering", "finishing"}
    PROVE  WaitersOK' /\ HoldersOK'
PROOF
  <1>1. \A x \in Events : pc[x] # "idle" => jobMode'[JobOf(x)] = jobMode[JobOf(x)]
    BY ModeIsChosenOnce
  <1>2. \A k \in Keys : \A i \in 1..Len(waiters[k]) : waiters[k][i] \in Events
    BY DEF TypeOK
  <1>3. WaitersOK'
    BY <1>1, <1>2 DEF WaitersOK, HasKey
  <1>4. HoldersOK'
    BY <1>1 DEF HoldersOK, TypeOK, HasKey
  <1> QED BY <1>3, <1>4

(* What WaitersOK says of one waiter. *)
LEMMA WaitersFacts ==
    ASSUME TypeOK, WaitersOK
    PROVE  /\ \A k \in Keys : waiters[k] \in Seq(Events)
           /\ \A k \in Keys : \A i \in 1..Len(waiters[k]) :
                 waiters[k][i] \in Events /\ pc[waiters[k][i]] = "waiting"
PROOF
  <1>1. \A k \in Keys : waiters[k] \in Seq(Events)
    BY DEF TypeOK
  <1>2. ASSUME NEW k \in Keys, NEW i \in 1..Len(waiters[k])
        PROVE  waiters[k][i] \in Events /\ pc[waiters[k][i]] = "waiting"
    <2>1. waiters[k][i] \in Events
      BY <1>1
    <2> QED BY <2>1 DEF WaitersOK
  <1> QED BY <1>1, <1>2

(* acquire() keeps waiters and holders in order. *)
LEMMA AcquireKeeps ==
    ASSUME TypeOK, WaitersOK, HoldersOK, NEW e \in Events, HasKey(e), Acquire(e),
           pc[e] \in {"idle", "woken"},
           jobMode' = jobMode, jobMode[JobOf(e)] = "concurrent"
    PROVE  WaitersOK' /\ HoldersOK'
PROOF
  <1>0. /\ KeyOf[e] \in Keys
        /\ \A k \in Keys : waiters[k] \in Seq(Events)
        /\ \A k \in Keys : \A i \in 1..Len(waiters[k]) :
              waiters[k][i] \in Events /\ waiters[k][i] # e
    <2>1. KeyOf[e] \in Keys
      BY QueueAssumption DEF HasKey
    <2> QED BY <2>1, WaitersFacts
  <1>1. CASE TakePermit(e)
    <2>1. /\ waiters' = waiters /\ holding' = holding \cup {e}
          /\ pc'[e] = "granted" /\ \A x \in Events : x # e => pc'[x] = pc[x]
      BY <1>1 DEF TakePermit, TypeOK
    <2>2. WaitersOK'
      BY <1>0, <2>1 DEF WaitersOK, HasKey
    <2>3. HoldersOK'
      BY <2>1 DEF HoldersOK, TypeOK, HasKey
    <2> QED BY <2>2, <2>3
  <1>2. CASE JoinWaiters(e)
    <2>1. /\ waiters' = [waiters EXCEPT ![KeyOf[e]] = Append(@, e)] /\ holding' = holding
          /\ pc'[e] = "waiting" /\ \A x \in Events : x # e => pc'[x] = pc[x]
      BY <1>2 DEF JoinWaiters, TypeOK
    <2>2. \A k \in Keys : k # KeyOf[e] => waiters'[k] = waiters[k]
      BY <2>1 DEF TypeOK
    <2>3. waiters'[KeyOf[e]] = Append(waiters[KeyOf[e]], e)
      BY <1>0, <2>1 DEF TypeOK
    <2>4. /\ Len(waiters'[KeyOf[e]]) = Len(waiters[KeyOf[e]]) + 1
          /\ waiters'[KeyOf[e]][Len(waiters[KeyOf[e]]) + 1] = e
          /\ \A i \in 1..Len(waiters[KeyOf[e]]) :
                waiters'[KeyOf[e]][i] = waiters[KeyOf[e]][i]
          /\ Len(waiters[KeyOf[e]]) \in Nat
      BY <1>0, <2>3
    <2>5. ASSUME NEW k \in Keys, NEW i \in 1..Len(waiters'[k])
          PROVE  /\ pc'[waiters'[k][i]] = "waiting"
                 /\ KeyOf[waiters'[k][i]] = k
                 /\ \A h \in 1..Len(waiters'[k]) : waiters'[k][h] = waiters'[k][i] => h = i
      <3>1. CASE k # KeyOf[e]
        BY <1>0, <2>1, <2>2, <3>1 DEF WaitersOK
      <3>2. CASE k = KeyOf[e]
        <4>1. \A h \in 1..Len(waiters'[k]) :
                 h \in 1..Len(waiters[k]) \/ h = Len(waiters[k]) + 1
          BY <2>4, <3>2
        <4>2. CASE i \in 1..Len(waiters[k])
          BY <1>0, <2>1, <2>4, <3>2, <4>1, <4>2 DEF WaitersOK
        <4>3. CASE i = Len(waiters[k]) + 1
          BY <1>0, <2>1, <2>4, <3>2, <4>1, <4>3
        <4> QED BY <4>1, <4>2, <4>3
      <3> QED BY <3>1, <3>2
    <2>6. \A x \in Events : pc'[x] \in {"waiting", "woken"} =>
             HasKey(x) /\ jobMode'[JobOf(x)] = "concurrent"
      BY <2>1 DEF WaitersOK
    <2>7. WaitersOK'
      BY <2>5, <2>6 DEF WaitersOK, HasKey
    <2>8. HoldersOK'
      BY <2>1 DEF HoldersOK, TypeOK, HasKey
    <2> QED BY <2>7, <2>8
  <1> QED BY <1>1, <1>2 DEF Acquire

(* release() keeps waiters and holders in order. *)
LEMMA ReleaseKeeps ==
    ASSUME TypeOK, WaitersOK, HoldersOK, NEW e \in Events, HasKey(e), Release(e),
           pc[e] = "finishing", jobMode' = jobMode
    PROVE  WaitersOK' /\ HoldersOK'
PROOF
  <1>0. /\ KeyOf[e] \in Keys
        /\ \A k \in Keys : waiters[k] \in Seq(Events)
        /\ \A k \in Keys : \A i \in 1..Len(waiters[k]) :
              waiters[k][i] \in Events /\ waiters[k][i] # e
    <2>1. KeyOf[e] \in Keys
      BY QueueAssumption DEF HasKey
    <2> QED BY <2>1, WaitersFacts
  <1>1. HoldersOK'
    <2>1. holding' = holding \ {e}
      BY DEF Release
    <2> QED BY <2>1, PcOfRelease DEF HoldersOK, TypeOK, HasKey
  <1>2. \A x \in Events : pc'[x] \in {"waiting", "woken"} =>
           HasKey(x) /\ jobMode'[JobOf(x)] = "concurrent"
    BY PcOfRelease DEF WaitersOK
  <1>3. CASE waiters[KeyOf[e]] = <<>>
    <2>1. waiters' = waiters /\ pc' = [pc EXCEPT ![e] = "done"]
      BY <1>3 DEF Release
    <2> QED BY <1>0, <1>1, <1>2, <2>1 DEF WaitersOK, HasKey, TypeOK
  <1>4. CASE waiters[KeyOf[e]] # <<>>
    <2> DEFINE w == waiters[KeyOf[e]]
    <2>1. /\ waiters' = [waiters EXCEPT ![KeyOf[e]] = Tail(@)]
          /\ pc' = [pc EXCEPT ![e] = "done", ![Head(w)] = "woken"]
      BY <1>4 DEF Release
    <2>2. /\ Len(w) \in Nat /\ Len(w) >= 1 /\ Head(w) = w[1]
          /\ Len(Tail(w)) = Len(w) - 1
          /\ \A i \in 1..Len(Tail(w)) : Tail(w)[i] = w[i + 1] /\ i + 1 \in 1..Len(w)
      BY <1>0, <1>4
    <2>3. \A x \in Events : x # e /\ x # Head(w) => pc'[x] = pc[x]
      BY <2>1 DEF TypeOK
    <2>4. ASSUME NEW k \in Keys, NEW i \in 1..Len(waiters'[k])
          PROVE  /\ pc'[waiters'[k][i]] = "waiting"
                 /\ KeyOf[waiters'[k][i]] = k
                 /\ \A h \in 1..Len(waiters'[k]) : waiters'[k][h] = waiters'[k][i] => h = i
      <3>1. CASE k # KeyOf[e]
        <4>1. waiters'[k] = waiters[k]
          BY <2>1, <3>1 DEF TypeOK
        <4>2. KeyOf[Head(w)] = KeyOf[e]
          BY <1>0, <2>2 DEF WaitersOK
        <4> QED BY <1>0, <2>3, <3>1, <4>1, <4>2 DEF WaitersOK
      <3>2. CASE k = KeyOf[e]
        <4>1. waiters'[k] = Tail(w)
          BY <1>0, <2>1, <3>2 DEF TypeOK
        <4>2. /\ waiters'[k][i] = w[i + 1] /\ i + 1 \in 1..Len(w)
              /\ \A h \in 1..Len(waiters'[k]) : waiters'[k][h] = w[h + 1] /\ h + 1 \in 1..Len(w)
          BY <2>2, <4>1
        <4>3. w[i + 1] # Head(w)
          <5>1. 1 \in 1..Len(w) /\ i + 1 # 1
            BY <2>2, <4>1
          <5> QED BY <1>0, <2>2, <4>2, <5>1 DEF WaitersOK
        <4>4. pc'[waiters'[k][i]] = "waiting" /\ KeyOf[waiters'[k][i]] = k
          BY <1>0, <2>3, <3>2, <4>2, <4>3 DEF WaitersOK
        <4>5. \A h \in 1..Len(waiters'[k]) : waiters'[k][h] = waiters'[k][i] => h + 1 = i + 1
          <5>1. \A a, b \in 1..Len(w) : w[a] = w[b] => a = b
            BY <1>0 DEF WaitersOK
          <5> QED BY <4>2, <5>1
        <4> QED BY <4>4, <4>5
      <3> QED BY <3>1, <3>2
    <2> QED BY <1>1, <1>2, <2>4 DEF WaitersOK, HasKey
  <1> QED BY <1>3, <1>4

(* Every step keeps waiters and holders in order. *)
LEMMA WaitersAndHoldersNext == TypeOK /\ Shape /\ [Next]_vars => WaitersOK' /\ HoldersOK'
PROOF
  <1> SUFFICES ASSUME TypeOK, Shape, [Next]_vars
               PROVE  WaitersOK' /\ HoldersOK'
    OBVIOUS
  <1> USE DEF configVars, jobVars, deliveryVars, semaphoreVars, Shape
  <1>0. \A x \in holding : x \in Events /\ pc[x] \in {"granted", "delivering", "finishing"}
                           /\ HasKey(x) /\ jobMode[JobOf(x)] = "concurrent"
    BY DEF HoldersOK, TypeOK
  <1>1. ASSUME NEW e \in Events, UNCHANGED <<waiters, holding>>,
               pc[e] # "waiting",
               pc'[e] \notin {"waiting", "woken"},
               e \in holding => pc'[e] \in {"granted", "delivering", "finishing"},
               \A x \in Events : x # e => pc'[x] = pc[x]
        PROVE  WaitersOK' /\ HoldersOK'
    <2>1. /\ \A x \in Events : pc[x] = "waiting" => pc'[x] = "waiting"
          /\ \A x \in Events : pc'[x] \in {"waiting", "woken"} => pc'[x] = pc[x]
          /\ \A x \in holding : pc'[x] \in {"granted", "delivering", "finishing"}
      BY <1>0, <1>1
    <2> QED BY <1>1, <2>1, SemaphoreStays
  <1>2. ASSUME UNCHANGED <<waiters, holding, pc>>
        PROVE  WaitersOK' /\ HoldersOK'
    BY <1>0, <1>2, SemaphoreStays
  <1>3. ASSUME NEW j \in Jobs, PushRejected(j) \/ PushNothing(j) \/ PushConcurrent(j) \/ AllSettled(j)
        PROVE  WaitersOK' /\ HoldersOK'
    BY <1>2, <1>3 DEF PushRejected, PushNothing, PushConcurrent, AllSettled, Accept
  <1>4. ASSUME NEW j \in Jobs, PushSequential(j) PROVE WaitersOK' /\ HoldersOK'
    <2> DEFINE e == Batch[j][1]
    <2>1. e \in Events /\ pc[e] = "idle"
      BY <1>4, FirstEvent
    <2>2. /\ UNCHANGED <<waiters, holding>>
          /\ pc' = [pc EXCEPT ![e] = "delivering"]
      BY <1>4 DEF PushSequential, Accept, BeginDelivery
    <2>3. pc'[e] = "delivering" /\ \A x \in Events : x # e => pc'[x] = pc[x]
      BY <2>1, <2>2 DEF TypeOK
    <2> HIDE DEF e
    <2> QED BY <1>1, <2>1, <2>2, <2>3
  <1>5. ASSUME NEW j \in Jobs, NEW e \in Events, LaunchEvent(j, e) PROVE WaitersOK' /\ HoldersOK'
    <2>1. Launch(j, e) /\ jobMode' = jobMode
      BY <1>5 DEF LaunchEvent, LaunchCancelled, LaunchKeyed, LaunchPlain, Launch
    <2>2. pc[e] = "idle" /\ jobMode[JobOf(e)] = "concurrent" /\ e \notin holding
      BY <1>0, <2>1, LaunchFacts
    <2>3. CASE LaunchCancelled(j, e)
      BY <1>1, <2>2, <2>3 DEF LaunchCancelled, TypeOK
    <2>4. CASE LaunchKeyed(j, e)
      BY <2>1, <2>2, <2>4, AcquireKeeps DEF LaunchKeyed
    <2>5. CASE LaunchPlain(j, e)
      BY <1>1, <2>2, <2>5 DEF LaunchPlain, BeginDelivery, TypeOK
    <2> QED BY <1>5, <2>3, <2>4, <2>5 DEF LaunchEvent
  <1>6. ASSUME NEW e \in Events, Recheck(e) PROVE WaitersOK' /\ HoldersOK'
    <2>1. HasKey(e) /\ jobMode[JobOf(e)] = "concurrent" /\ jobMode' = jobMode
          /\ pc[e] = "woken" /\ Acquire(e)
      BY <1>6 DEF Recheck, WaitersOK
    <2> QED BY <2>1, AcquireKeeps
  <1>7. ASSUME NEW e \in Events, EnterWithPermit(e) PROVE WaitersOK' /\ HoldersOK'
    <2>1. /\ pc[e] = "granted" /\ UNCHANGED <<waiters, holding>>
          /\ pc'[e] \in {"delivering", "finishing"}
          /\ \A x \in Events : x # e => pc'[x] = pc[x]
      BY <1>7 DEF EnterWithPermit, BeginDelivery, TypeOK
    <2> QED BY <1>1, <2>1
  <1>8. ASSUME NEW e \in Events, FinishConcurrent(e) PROVE WaitersOK' /\ HoldersOK'
    <2>1. pc[e] = "finishing" /\ jobMode' = jobMode
      BY <1>8 DEF FinishConcurrent
    <2>2. CASE HasKey(e) /\ Release(e)
      BY <2>1, <2>2, ReleaseKeeps
    <2>3. CASE ~HasKey(e) /\ pc' = [pc EXCEPT ![e] = "done"] /\ UNCHANGED semaphoreVars
      <3>1. e \notin holding
        BY <1>0, <2>3
      <3>2. pc'[e] = "done" /\ \A x \in Events : x # e => pc'[x] = pc[x]
        BY <2>3 DEF TypeOK
      <3> QED BY <1>1, <2>1, <2>3, <3>1, <3>2
    <2> QED BY <1>8, <2>2, <2>3 DEF FinishConcurrent
  <1>9. ASSUME NEW e \in Events, Deliver(e) PROVE WaitersOK' /\ HoldersOK'
    <2>1. pc[e] = "delivering" /\ UNCHANGED <<waiters, holding>>
      BY <1>9 DEF Deliver, Succeed, Throw, RetryLimitReached, Redeliver, ConsumerSettles
    <2>2. /\ pc'[e] \in {"delivering", "finishing"}
          /\ \A x \in Events : x # e => pc'[x] = pc[x]
      BY <1>9, <2>1 DEF Deliver, Succeed, Throw, RetryLimitReached, Redeliver, Leave, TypeOK
    <2> QED BY <1>1, <2>1, <2>2
  <1>10. ASSUME NEW j \in Jobs, SequentialNext(j) PROVE WaitersOK' /\ HoldersOK'
    <2> DEFINE e == Batch[j][launched[j]]
               f == Batch[j][launched[j] + 1]
    <2>1. /\ e \in Events /\ f \in Events /\ e # f
          /\ pc[e] = "finishing" /\ pc[f] = "idle"
      BY <1>10, NextEvent
    <2>2. JobOf(e) = j /\ jobMode[j] = "sequential"
      BY <1>10, NextEvent, BatchElements DEF SequentialNext, SequentialResumes
    <2>3. /\ pc' = [[pc EXCEPT ![e] = "done"] EXCEPT ![f] = "delivering"]
          /\ UNCHANGED <<waiters, holding>>
      BY <1>10 DEF SequentialNext, SequentialResumes, BeginDelivery
    <2> HIDE DEF e, f
    <2>4. e \notin holding /\ f \notin holding
      BY <1>0, <2>1, <2>2
    <2>5. /\ pc'[e] = "done" /\ pc'[f] = "delivering"
          /\ \A x \in Events : x # e /\ x # f => pc'[x] = pc[x]
      BY <2>1, <2>3 DEF TypeOK
    <2>6. /\ \A x \in Events : pc[x] = "waiting" => pc'[x] = "waiting"
          /\ \A x \in Events : pc'[x] \in {"waiting", "woken"} => pc'[x] = pc[x]
          /\ \A x \in holding : pc'[x] \in {"granted", "delivering", "finishing"}
      BY <1>0, <2>1, <2>4, <2>5
    <2> QED BY <2>3, <2>6, SemaphoreStays
  <1>11. ASSUME NEW j \in Jobs, SequentialEnd(j) PROVE WaitersOK' /\ HoldersOK'
    <2> DEFINE e == Batch[j][launched[j]]
    <2>1. /\ launched[j] \in Nat /\ launched[j] >= 1 /\ launched[j] <= Len(Batch[j])
          /\ jobMode[j] = "sequential" /\ pc[e] = "finishing"
          /\ pc' = [pc EXCEPT ![e] = "done"] /\ UNCHANGED <<waiters, holding>>
      BY <1>11 DEF SequentialEnd, SequentialResumes, SequentialOK, LaunchOK, TypeOK
    <2>2. e \in Events /\ JobOf(e) = j
      BY <2>1, BatchElements
    <2> HIDE DEF e
    <2>3. e \notin holding
      BY <1>0, <2>1, <2>2
    <2>4. pc'[e] = "done" /\ \A x \in Events : x # e => pc'[x] = pc[x]
      BY <2>1, <2>2 DEF TypeOK
    <2> QED BY <1>1, <2>1, <2>2, <2>3, <2>4
  <1>12. ASSUME NEW j \in Jobs, Cancel(j) PROVE WaitersOK' /\ HoldersOK'
    BY <1>2, <1>12 DEF Cancel
  <1>13. ASSUME NEW m \in Modes, SetMode(m) PROVE WaitersOK' /\ HoldersOK'
    BY <1>2, <1>13 DEF SetMode
  <1>14. ASSUME NEW q \in QueueKeys, RegisterConsumer(q) PROVE WaitersOK' /\ HoldersOK'
    BY <1>2, <1>14 DEF RegisterConsumer
  <1>15. CASE Clear \/ ClearAll
    <2>1. /\ waiters' = [k \in Keys |-> <<>>]
          /\ UNCHANGED <<pc, holding, jobMode>>
      BY <1>15 DEF Clear, ClearAll, Forget
    <2>2. WaitersOK'
      BY <2>1 DEF WaitersOK, HasKey
    <2> QED BY <2>1, <2>2 DEF HoldersOK, HasKey
  <1>16. CASE UNCHANGED vars
    BY <1>2, <1>16 DEF vars
  <1> QED
    BY <1>3, <1>4, <1>5, <1>6, <1>7, <1>8, <1>9, <1>10, <1>11, <1>12, <1>13, <1>14, <1>15, <1>16
    DEF Next, Call, Return, Continue

(* The queue starts without launch loops, waiters or holders. *)
LEMMA ShapeInit == Init => Shape
PROOF
  <1> SUFFICES ASSUME Init PROVE Shape
    OBVIOUS
  <1>1. LaunchOK
    BY BatchElements DEF Init, LaunchOK
  <1>2. WaitersOK
    BY DEF Init, WaitersOK
  <1>3. HoldersOK /\ StackOK /\ SequentialOK
    BY DEF Init, HoldersOK, StackOK, SequentialOK
  <1> QED BY <1>1, <1>2, <1>3 DEF Shape

(* Every step keeps the shape: launch loops, waiters, holders. *)
LEMMA ShapeNext == TypeOK /\ Shape /\ [Next]_vars => Shape'
PROOF
  BY LaunchOKNext, StackOKNext, SequentialOKNext, WaitersAndHoldersNext DEF Shape

(* In every reachable state the queue has its shape. *)
LEMMA ShapeInvariant == Spec => [](TypeOK /\ Shape)
PROOF
  BY TypeOKInit, TypeOKNext, ShapeInit, ShapeNext, PTL DEF Spec

-----------------------------------------------------------------------------
(* The semaphore.                                                           *)

(* Between acquire() and release(). *)
Permitted(x) ==
    /\ pc[x] \in {"granted", "delivering", "finishing"}
    /\ HasKey(x)
    /\ jobMode[JobOf(x)] = "concurrent"

(* A step that does not touch the semaphore wakes nobody and lets nobody in. *)
Aside ==
    /\ UNCHANGED <<active, waiters, holding, clearedBusy>>
    /\ \A x \in Events : (pc'[x] = "woken") <=> (pc[x] = "woken")
    /\ \A x \in Events : Permitted(x)' => Permitted(x)

Acquires(e) ==
    /\ Acquire(e)
    /\ HasKey(e) /\ e \notin holding /\ pc[e] \in {"idle", "woken"}
    /\ jobMode' = jobMode /\ clearedBusy' = clearedBusy

Releases(e) ==
    /\ Release(e)
    /\ HasKey(e) /\ Permitted(e) /\ pc[e] = "finishing"
    /\ jobMode' = jobMode /\ clearedBusy' = clearedBusy

(* Every step acquires, releases, forgets, or leaves the semaphore alone. *)
LEMMA SemaphoreSteps ==
    ASSUME TypeOK, Shape, [Next]_vars
    PROVE  \/ Aside
           \/ \E e \in Events : Acquires(e) \/ Releases(e)
           \/ Forget
PROOF
  <1> USE DEF configVars, jobVars, deliveryVars, semaphoreVars, Shape
  <1> DEFINE Goal == Aside \/ (\E e \in Events : Acquires(e) \/ Releases(e)) \/ Forget
  <1>0. /\ \A x \in Events : pc[x] # "idle" => jobMode'[JobOf(x)] = jobMode[JobOf(x)]
        /\ \A x \in holding : pc[x] \in {"granted", "delivering", "finishing"}
    BY ModeIsChosenOnce DEF HoldersOK
  <1>1. ASSUME NEW e \in Events, UNCHANGED <<active, waiters, holding, clearedBusy>>,
               pc[e] # "woken", pc'[e] # "woken",
               Permitted(e)' => Permitted(e),
               \A x \in Events : x # e => pc'[x] = pc[x]
        PROVE  Goal
    <2>1. \A x \in Events : x # e => (Permitted(x)' => Permitted(x))
      BY <1>0, <1>1 DEF Permitted, HasKey
    <2> QED BY <1>1, <2>1 DEF Aside
  <1>2. ASSUME UNCHANGED <<active, waiters, holding, clearedBusy, pc>>
        PROVE  Goal
    <2>1. \A x \in Events : Permitted(x)' => Permitted(x)
      BY <1>0, <1>2 DEF Permitted, HasKey
    <2> QED BY <1>2, <2>1 DEF Aside
  <1>3. ASSUME NEW j \in Jobs, PushRejected(j) \/ PushNothing(j) \/ PushConcurrent(j) \/ AllSettled(j)
        PROVE  Goal
    BY <1>2, <1>3 DEF PushRejected, PushNothing, PushConcurrent, AllSettled, Accept
  <1>4. ASSUME NEW j \in Jobs, PushSequential(j) PROVE Goal
    <2> DEFINE e == Batch[j][1]
    <2>1. e \in Events /\ pc[e] = "idle" /\ JobOf(e) = j
      BY <1>4, FirstEvent, BatchElements
    <2>2. /\ UNCHANGED <<active, waiters, holding, clearedBusy>>
          /\ pc' = [pc EXCEPT ![e] = "delivering"]
          /\ jobMode' = [jobMode EXCEPT ![j] = "sequential"]
      BY <1>4 DEF PushSequential, Accept, BeginDelivery
    <2> HIDE DEF e
    <2>3. pc'[e] = "delivering" /\ \A x \in Events : x # e => pc'[x] = pc[x]
      BY <2>1, <2>2 DEF TypeOK
    <2>4. ~Permitted(e)'
      BY <2>1, <2>2 DEF Permitted, TypeOK
    <2> QED BY <1>1, <2>1, <2>2, <2>3, <2>4
  <1>5. ASSUME NEW j \in Jobs, NEW e \in Events, LaunchEvent(j, e) PROVE Goal
    <2>1. Launch(j, e) /\ jobMode' = jobMode /\ clearedBusy' = clearedBusy
      BY <1>5 DEF LaunchEvent, LaunchCancelled, LaunchKeyed, LaunchPlain, Launch
    <2>2. pc[e] = "idle" /\ e \notin holding
      BY <1>0, <2>1, LaunchFacts
    <2>3. CASE LaunchCancelled(j, e)
      <3>1. /\ pc'[e] = "done" /\ \A x \in Events : x # e => pc'[x] = pc[x]
            /\ UNCHANGED <<active, waiters, holding>>
        BY <2>3 DEF LaunchCancelled, TypeOK
      <3>2. ~Permitted(e)'
        BY <3>1 DEF Permitted
      <3> QED BY <1>1, <2>1, <2>2, <3>1, <3>2
    <2>4. CASE LaunchKeyed(j, e)
      BY <2>1, <2>2, <2>4 DEF LaunchKeyed, Acquires
    <2>5. CASE LaunchPlain(j, e)
      <3>1. /\ pc'[e] = "delivering" /\ \A x \in Events : x # e => pc'[x] = pc[x]
            /\ UNCHANGED <<active, waiters, holding>>
        BY <2>5 DEF LaunchPlain, BeginDelivery, TypeOK
      <3>2. ~Permitted(e)'
        BY <2>5 DEF LaunchPlain, Permitted, HasKey
      <3> QED BY <1>1, <2>1, <2>2, <3>1, <3>2
    <2> QED BY <1>5, <2>3, <2>4, <2>5 DEF LaunchEvent
  <1>6. ASSUME NEW e \in Events, Recheck(e) PROVE Goal
    <2>1. HasKey(e) /\ e \notin holding
      BY <1>0, <1>6 DEF Recheck, WaitersOK
    <2> QED BY <1>6, <2>1 DEF Recheck, Acquires
  <1>7. ASSUME NEW e \in Events, EnterWithPermit(e) PROVE Goal
    <2>1. /\ pc[e] = "granted" /\ UNCHANGED <<active, waiters, holding, clearedBusy, jobMode>>
          /\ pc'[e] \in {"delivering", "finishing"}
          /\ \A x \in Events : x # e => pc'[x] = pc[x]
      BY <1>7 DEF EnterWithPermit, BeginDelivery, TypeOK
    <2>2. Permitted(e)' => Permitted(e)
      BY <2>1 DEF Permitted, HasKey
    <2> QED BY <1>1, <2>1, <2>2
  <1>8. ASSUME NEW e \in Events, FinishConcurrent(e) PROVE Goal
    <2>1. pc[e] = "finishing" /\ jobMode' = jobMode /\ clearedBusy' = clearedBusy
          /\ jobMode[JobOf(e)] = "concurrent"
      BY <1>8 DEF FinishConcurrent
    <2>2. CASE HasKey(e) /\ Release(e)
      BY <2>1, <2>2 DEF Releases, Permitted
    <2>3. CASE ~HasKey(e) /\ pc' = [pc EXCEPT ![e] = "done"] /\ UNCHANGED semaphoreVars
      <3>1. pc'[e] = "done" /\ \A x \in Events : x # e => pc'[x] = pc[x]
        BY <2>3 DEF TypeOK
      <3>2. ~Permitted(e)'
        BY <3>1 DEF Permitted
      <3> QED BY <1>1, <2>1, <2>3, <3>1, <3>2
    <2> QED BY <1>8, <2>2, <2>3 DEF FinishConcurrent
  <1>9. ASSUME NEW e \in Events, Deliver(e) PROVE Goal
    <2>1. pc[e] = "delivering" /\ UNCHANGED <<active, waiters, holding, clearedBusy, jobMode>>
      BY <1>9 DEF Deliver, Succeed, Throw, RetryLimitReached, Redeliver, ConsumerSettles
    <2>2. /\ pc'[e] \in {"delivering", "finishing"}
          /\ \A x \in Events : x # e => pc'[x] = pc[x]
      BY <1>9, <2>1 DEF Deliver, Succeed, Throw, RetryLimitReached, Redeliver, Leave, TypeOK
    <2>3. Permitted(e)' => Permitted(e)
      BY <2>1 DEF Permitted, HasKey
    <2> QED BY <1>1, <2>1, <2>2, <2>3
  <1>10. ASSUME NEW j \in Jobs, SequentialNext(j) PROVE Goal
    <2>1. PICK e \in Events, f \in Events :
             /\ e = Batch[j][launched[j]] /\ f = Batch[j][launched[j] + 1]
             /\ e # f /\ JobOf(f) = j
             /\ pc[e] = "finishing" /\ pc[f] = "idle"
      BY <1>10, NextEvent, BatchElements
    <2>2. /\ pc' = [[pc EXCEPT ![e] = "done"] EXCEPT ![f] = "delivering"]
          /\ jobMode[j] = "sequential"
          /\ UNCHANGED <<active, waiters, holding, clearedBusy, jobMode>>
      BY <1>10, <2>1 DEF SequentialNext, SequentialResumes, BeginDelivery
    <2>3. /\ pc'[e] = "done" /\ pc'[f] = "delivering"
          /\ \A x \in Events : x # e /\ x # f => pc'[x] = pc[x]
      BY <2>1, <2>2 DEF TypeOK
    <2>4. \A x \in Events : (pc'[x] = "woken") <=> (pc[x] = "woken")
      BY <2>1, <2>3
    <2>5. ~Permitted(e)' /\ ~Permitted(f)'
      BY <2>1, <2>2, <2>3 DEF Permitted
    <2>6. \A x \in Events : Permitted(x)' => Permitted(x)
      BY <2>2, <2>3, <2>5 DEF Permitted, HasKey
    <2> QED BY <2>2, <2>4, <2>6 DEF Aside
  <1>11. ASSUME NEW j \in Jobs, SequentialEnd(j) PROVE Goal
    <2>1. /\ launched[j] \in Nat /\ launched[j] >= 1 /\ launched[j] <= Len(Batch[j])
          /\ pc[Batch[j][launched[j]]] = "finishing"
          /\ pc' = [pc EXCEPT ![Batch[j][launched[j]]] = "done"]
          /\ UNCHANGED <<active, waiters, holding, clearedBusy, jobMode>>
      BY <1>11 DEF SequentialEnd, SequentialResumes, SequentialOK, LaunchOK, TypeOK
    <2>2. PICK e \in Events : e = Batch[j][launched[j]]
      BY <2>1, BatchElements
    <2>3. pc'[e] = "done" /\ \A x \in Events : x # e => pc'[x] = pc[x]
      BY <2>1, <2>2 DEF TypeOK
    <2>4. ~Permitted(e)'
      BY <2>3 DEF Permitted
    <2> QED BY <1>1, <2>1, <2>2, <2>3, <2>4
  <1>12. ASSUME NEW j \in Jobs, Cancel(j) PROVE Goal
    BY <1>2, <1>12 DEF Cancel
  <1>13. ASSUME NEW m \in Modes, SetMode(m) PROVE Goal
    BY <1>2, <1>13 DEF SetMode
  <1>14. ASSUME NEW q \in QueueKeys, RegisterConsumer(q) PROVE Goal
    BY <1>2, <1>14 DEF RegisterConsumer
  <1>15. CASE Clear \/ ClearAll
    BY <1>15 DEF Clear, ClearAll
  <1>16. CASE UNCHANGED vars
    BY <1>2, <1>16 DEF vars
  <1> QED
    BY <1>3, <1>4, <1>5, <1>6, <1>7, <1>8, <1>9, <1>10, <1>11, <1>12, <1>13, <1>14, <1>15, <1>16
    DEF Next, Call, Return, Continue

(* The counts below are of finite sets, and a step that acquires or releases
   changes the sets of one key only. *)
LEMMA FiniteCounts ==
    ASSUME TypeOK, NEW k
    PROVE  /\ IsFiniteSet(Holders(k)) /\ Cardinality(Holders(k)) \in Nat
           /\ IsFiniteSet(Woken(k)) /\ Cardinality(Woken(k)) \in Nat
PROOF
  <1>1. Holders(k) \subseteq Events /\ Woken(k) \subseteq Events
    BY DEF Holders, Woken, TypeOK
  <1>2. IsFiniteSet(Events)
    BY QueueAssumption
  <1> QED BY <1>1, <1>2, FS_Subset, FS_CardinalityType

(* One that takes a permit is one more holder of its key. *)
LEMMA HoldersAfterTake ==
    ASSUME TypeOK, NEW e \in Events, Acquires(e), TakePermit(e)
    PROVE  /\ KeyOf[e] \in Keys
           /\ active'[KeyOf[e]] = active[KeyOf[e]] + 1
           /\ Cardinality(Holders(KeyOf[e])') = Cardinality(Holders(KeyOf[e])) + 1
           /\ \A k \in Keys : k # KeyOf[e] =>
                active'[k] = active[k] /\ Holders(k)' = Holders(k)
PROOF
  <1>1. KeyOf[e] \in Keys
    BY QueueAssumption DEF Acquires, HasKey
  <1>2. holding' = holding \cup {e} /\ e \notin holding
    BY DEF Acquires, TakePermit
  <1>3. Holders(KeyOf[e])' = Holders(KeyOf[e]) \cup {e} /\ e \notin Holders(KeyOf[e])
    BY <1>2 DEF Holders
  <1>4. Cardinality(Holders(KeyOf[e])') = Cardinality(Holders(KeyOf[e])) + 1
    BY <1>3, FiniteCounts, FS_AddElement
  <1>5. \A k \in Keys : k # KeyOf[e] => Holders(k)' = Holders(k)
    BY <1>2 DEF Holders
  <1> QED BY <1>1, <1>4, <1>5 DEF TakePermit, TypeOK

(* One that gives a permit back is one holder less of its key. *)
LEMMA HoldersAfterRelease ==
    ASSUME TypeOK, PermitAccounting, NEW e \in Events, Releases(e)
    PROVE  /\ KeyOf[e] \in Keys
           /\ active'[KeyOf[e]] = IF active[KeyOf[e]] > 0 THEN active[KeyOf[e]] - 1 ELSE 0
           /\ Cardinality(Holders(KeyOf[e])') = Cardinality(Holders(KeyOf[e])) - 1
           /\ \A k \in Keys : k # KeyOf[e] =>
                active'[k] = active[k] /\ Holders(k)' = Holders(k)
PROOF
  <1>1. KeyOf[e] \in Keys
    BY QueueAssumption DEF Releases, HasKey
  <1>2. holding' = holding \ {e} /\ e \in holding
    BY DEF Releases, Release, Permitted, PermitAccounting
  <1>3. Holders(KeyOf[e])' = Holders(KeyOf[e]) \ {e} /\ e \in Holders(KeyOf[e])
    BY <1>2 DEF Holders
  <1>4. Cardinality(Holders(KeyOf[e])') = Cardinality(Holders(KeyOf[e])) - 1
    BY <1>3, FiniteCounts, FS_RemoveElement
  <1>5. \A k \in Keys : k # KeyOf[e] => Holders(k)' = Holders(k)
    BY <1>2 DEF Holders
  <1>6. active' = [active EXCEPT ![KeyOf[e]] = IF @ > 0 THEN @ - 1 ELSE @]
    BY DEF Releases, Release
  <1>7. active'[KeyOf[e]] = IF active[KeyOf[e]] > 0 THEN active[KeyOf[e]] - 1 ELSE 0
    BY <1>1, <1>6 DEF TypeOK
  <1> QED BY <1>1, <1>4, <1>5, <1>6, <1>7 DEF TypeOK

(* Every step of the semaphore keeps the count of permits right. *)
LEMMA PermitAccountingNext ==
    TypeOK /\ Shape /\ PermitAccounting /\ [Next]_vars => PermitAccounting'
PROOF
  <1> SUFFICES ASSUME TypeOK, Shape, PermitAccounting, [Next]_vars
               PROVE  PermitAccounting'
    OBVIOUS
  <1>0. (\A e \in Events : Permitted(e)' => e \in holding')
        /\ (~clearedBusy' => \A k \in Keys : active'[k] = Cardinality(Holders(k)'))
        => PermitAccounting'
    BY DEF PermitAccounting, Permitted, HasKey
  <1>1. CASE Aside
    <2>1. \A k \in Keys : Holders(k)' = Holders(k)
      BY <1>1 DEF Aside, Holders
    <2> QED BY <1>0, <1>1, <2>1 DEF Aside, PermitAccounting, Permitted
  <1>2. ASSUME NEW e \in Events, Acquires(e), TakePermit(e) PROVE PermitAccounting'
    <2>1. ~clearedBusy' => \A k \in Keys : active'[k] = Cardinality(Holders(k)')
      BY <1>2, HoldersAfterTake DEF PermitAccounting, Acquires
    <2>2. ASSUME NEW x \in Events, Permitted(x)' PROVE x \in holding'
      <3>1. CASE x = e
        BY <1>2, <3>1 DEF TakePermit
      <3>2. CASE x # e
        BY <1>2, <2>2, <3>2 DEF TakePermit, Acquires, PermitAccounting, Permitted, HasKey, TypeOK
      <3> QED BY <3>1, <3>2
    <2> QED BY <1>0, <2>1, <2>2
  <1>3. ASSUME NEW e \in Events, Acquires(e), JoinWaiters(e) PROVE PermitAccounting'
    <2>1. UNCHANGED <<active, holding, clearedBusy, jobMode>> /\ pc' = [pc EXCEPT ![e] = "waiting"]
      BY <1>3 DEF Acquires, JoinWaiters
    <2>2. \A k \in Keys : Holders(k)' = Holders(k)
      BY <2>1 DEF Holders
    <2>3. \A x \in Events : Permitted(x)' => Permitted(x)
      BY <2>1 DEF Permitted, HasKey, TypeOK
    <2> QED BY <1>0, <2>1, <2>2, <2>3 DEF PermitAccounting, Permitted
  <1>4. ASSUME NEW e \in Events, Releases(e) PROVE PermitAccounting'
    <2>1. ASSUME ~clearedBusy', NEW k \in Keys PROVE active'[k] = Cardinality(Holders(k)')
      <3>1. active[k] = Cardinality(Holders(k)) /\ active[k] \in Nat
        BY <1>4, <2>1 DEF Releases, PermitAccounting, TypeOK
      <3>2. e \in holding
        BY <1>4 DEF Releases, Permitted, PermitAccounting
      <3>3. k = KeyOf[e] => Cardinality(Holders(k)) # 0
        <4>1. e \in Holders(KeyOf[e])
          BY <3>2 DEF Holders
        <4>2. IsFiniteSet(Holders(KeyOf[e])) /\ Holders(KeyOf[e]) # {}
          BY <4>1, FiniteCounts
        <4> QED BY <4>2, FS_EmptySet
      <3> QED BY <1>4, <3>1, <3>3, HoldersAfterRelease
    <2>2. ASSUME NEW x \in Events, Permitted(x)' PROVE x \in holding'
      <3>1. x # e /\ Permitted(x)
        BY <1>4, <2>2, PcOfRelease DEF Releases, Permitted, HasKey, Shape
      <3> QED BY <1>4, <3>1 DEF Releases, Release, PermitAccounting, Permitted
    <2> QED BY <1>0, <2>1, <2>2
  <1>5. CASE Forget
    <2>1. ASSUME ~clearedBusy', NEW k \in Keys PROVE active'[k] = Cardinality(Holders(k)')
      <3>1. holding = {} /\ holding' = {} /\ active'[k] = 0
        BY <1>5, <2>1 DEF Forget
      <3>2. Holders(k)' = {}
        BY <3>1 DEF Holders
      <3> QED BY <3>1, <3>2, FS_EmptySet
    <2>2. \A x \in Events : Permitted(x)' => x \in holding'
      BY <1>5 DEF Forget, Permitted, HasKey, PermitAccounting
    <2> QED BY <1>0, <2>1, <2>2
  <1> QED BY <1>1, <1>2, <1>3, <1>4, <1>5, SemaphoreSteps DEF Acquires, Acquire

(* No permit is held at first. *)
LEMMA PermitAccountingInit == Init => PermitAccounting
PROOF
  <1> SUFFICES ASSUME Init PROVE PermitAccounting
    OBVIOUS
  <1>1. \A k \in Keys : Holders(k) = {} /\ active[k] = 0
    BY DEF Init, Holders
  <1> QED BY <1>1, FS_EmptySet DEF Init, PermitAccounting

(* The count of a key is the number of closures between acquire() and release(),
   for any number of calls, events, keys and limits, until a clear() runs while
   permits are in use. *)
THEOREM PermitsAreAccountedFor == Spec => []PermitAccounting
PROOF
  BY TypeOKInit, TypeOKNext, ShapeInit, ShapeNext, PermitAccountingInit, PermitAccountingNext,
     PTL DEF Spec

(* Every step of the semaphore keeps to the limit. *)
LEMMA LimitRespectedNext ==
    TypeOK /\ Shape /\ PermitAccounting /\ LimitRespected /\ [Next]_vars => LimitRespected'
PROOF
  <1> SUFFICES ASSUME TypeOK, Shape, PermitAccounting, LimitRespected, [Next]_vars,
                      ~clearedBusy', NEW e \in Events, HasKey(e),
                      \A f \in Events : KeyOf[f] = KeyOf[e] => LimitOf[f] = LimitOf[e]
               PROVE  Cardinality(Holders(KeyOf[e])') <= LimitOf[e]
    BY DEF LimitRespected, HasKey, Holders
  <1>1. LimitOf[e] \in Nat /\ KeyOf[e] \in Keys
    BY QueueAssumption DEF HasKey
  <1>2. ~clearedBusy => Cardinality(Holders(KeyOf[e])) <= LimitOf[e]
    BY DEF LimitRespected
  <1>3. CASE Aside
    BY <1>2, <1>3 DEF Aside, Holders
  <1>4. ASSUME NEW x \in Events, Acquires(x), TakePermit(x)
        PROVE  Cardinality(Holders(KeyOf[e])') <= LimitOf[e]
    <2>1. CASE KeyOf[x] = KeyOf[e]
      <3>1. active[KeyOf[e]] = Cardinality(Holders(KeyOf[e])) /\ active[KeyOf[e]] \in Nat
        BY <1>1, <1>4 DEF Acquires, PermitAccounting, TypeOK
      <3>2. active[KeyOf[e]] < LimitOf[e]
        BY <1>4, <2>1 DEF TakePermit
      <3> QED BY <1>1, <1>4, <2>1, <3>1, <3>2, HoldersAfterTake
    <2>2. CASE KeyOf[x] # KeyOf[e]
      BY <1>1, <1>2, <1>4, <2>2, HoldersAfterTake DEF Acquires
    <2> QED BY <2>1, <2>2
  <1>5. ASSUME NEW x \in Events, Acquires(x), JoinWaiters(x)
        PROVE  Cardinality(Holders(KeyOf[e])') <= LimitOf[e]
    <2>1. Holders(KeyOf[e])' = Holders(KeyOf[e]) /\ clearedBusy' = clearedBusy
      BY <1>5 DEF Acquires, JoinWaiters, Holders
    <2> QED BY <1>2, <2>1
  <1>6. ASSUME NEW x \in Events, Releases(x)
        PROVE  Cardinality(Holders(KeyOf[e])') <= LimitOf[e]
    <2>1. ~clearedBusy /\ Cardinality(Holders(KeyOf[e])) \in Nat
      BY <1>6, FiniteCounts DEF Releases
    <2>2. CASE KeyOf[x] = KeyOf[e]
      BY <1>1, <1>2, <1>6, <2>1, <2>2, HoldersAfterRelease
    <2>3. CASE KeyOf[x] # KeyOf[e]
      BY <1>1, <1>2, <1>6, <2>1, <2>3, HoldersAfterRelease
    <2> QED BY <2>2, <2>3
  <1>7. CASE Forget
    <2>1. ~clearedBusy /\ holding' = holding
      BY <1>7 DEF Forget
    <2>2. Holders(KeyOf[e])' = Holders(KeyOf[e])
      BY <2>1 DEF Holders
    <2> QED BY <1>2, <2>1, <2>2
  <1> QED BY <1>3, <1>4, <1>5, <1>6, <1>7, SemaphoreSteps DEF Acquires, Acquire

(* No permit is taken at first. *)
LEMMA LimitRespectedInit == Init => LimitRespected
PROOF
  <1> SUFFICES ASSUME Init, NEW e \in Events PROVE Cardinality(Holders(KeyOf[e])) <= LimitOf[e]
    BY DEF LimitRespected
  <1>1. Holders(KeyOf[e]) = {}
    BY DEF Init, Holders
  <1>2. LimitOf[e] \in Nat
    BY QueueAssumption
  <1> QED BY <1>1, <1>2, FS_EmptySet

(* A concurrency limit that all events of a key agree on is never exceeded by
   the deliveries of concurrent calls, across queues and calls. *)
THEOREM LimitIsRespected == Spec => []LimitRespected
PROOF
  BY TypeOKInit, TypeOKNext, ShapeInit, ShapeNext, PermitAccountingInit, PermitAccountingNext,
     LimitRespectedInit, LimitRespectedNext, PTL DEF Spec

-----------------------------------------------------------------------------
(* No lost wake-up.                                                         *)

(* No step of the semaphore leaves a waiter asleep beside a free permit. *)
LEMMA NoIdlePermitNext ==
    TypeOK /\ Shape /\ NoIdlePermit /\ [Next]_vars => NoIdlePermit'
PROOF
  <1> SUFFICES ASSUME TypeOK, Shape, NoIdlePermit, [Next]_vars,
                      NEW k \in Keys, waiters'[k] # <<>>
               PROVE  \E f \in Events : /\ KeyOf[f] = k
                                        /\ active'[k] + Cardinality(Woken(k)') >= LimitOf[f]
    BY DEF NoIdlePermit
  <1> DEFINE Goal == \E f \in Events : /\ KeyOf[f] = k
                                       /\ active'[k] + Cardinality(Woken(k)') >= LimitOf[f]
  <1>1. /\ active[k] \in Nat /\ Cardinality(Woken(k)) \in Nat /\ IsFiniteSet(Woken(k))
        /\ \A f \in Events : LimitOf[f] \in Nat
    BY FiniteCounts, QueueAssumption DEF TypeOK
  <1>2. CASE waiters[k] # <<>> /\ active'[k] = active[k] /\ Woken(k)' = Woken(k)
    BY <1>2 DEF NoIdlePermit
  <1>3. CASE Aside
    <2>1. Woken(k)' = Woken(k)
      BY <1>3 DEF Aside, Woken
    <2> QED BY <1>2, <1>3, <2>1 DEF Aside
  <1>4. ASSUME NEW e \in Events, Acquires(e), TakePermit(e) PROVE Goal
    <2>1. waiters[k] # <<>> /\ pc' = [pc EXCEPT ![e] = "granted"] /\ pc[e] \in {"idle", "woken"}
      BY <1>4 DEF TakePermit, Acquires
    <2>2. CASE KeyOf[e] # k
      <3>1. Woken(k)' = Woken(k)
        BY <2>1, <2>2 DEF Woken, TypeOK
      <3> QED BY <1>2, <1>4, <2>1, <2>2, <3>1, HoldersAfterTake
    <2>3. CASE KeyOf[e] = k
      <3>1. Woken(k)' = Woken(k) \ {e}
        BY <2>1 DEF Woken, TypeOK
      <3>2. Cardinality(Woken(k)') >= Cardinality(Woken(k)) - 1
        <4>1. CASE e \in Woken(k)
          <5>1. Cardinality(Woken(k) \ {e}) = Cardinality(Woken(k)) - 1
            BY <1>1, <4>1, FS_RemoveElement
          <5> QED BY <1>1, <3>1, <5>1
        <4>2. CASE e \notin Woken(k)
          <5>1. Woken(k)' = Woken(k)
            BY <3>1, <4>2
          <5> QED BY <1>1, <5>1
        <4> QED BY <4>1, <4>2
      <3>3. Cardinality(Woken(k)') \in Nat
        BY <1>1, <3>1, FS_RemoveElement, FS_CardinalityType
      <3>4. active'[k] = active[k] + 1
        BY <1>4, <2>3, HoldersAfterTake
      <3>5. PICK f \in Events : KeyOf[f] = k /\ active[k] + Cardinality(Woken(k)) >= LimitOf[f]
        BY <2>1 DEF NoIdlePermit
      <3> QED BY <1>1, <3>2, <3>3, <3>4, <3>5
    <2> QED BY <2>2, <2>3
  <1>5. ASSUME NEW e \in Events, Acquires(e), JoinWaiters(e) PROVE Goal
    <2>1. /\ active' = active /\ pc' = [pc EXCEPT ![e] = "waiting"]
          /\ waiters' = [waiters EXCEPT ![KeyOf[e]] = Append(@, e)]
          /\ active[KeyOf[e]] >= LimitOf[e]
      BY <1>5 DEF JoinWaiters
    <2>2. CASE KeyOf[e] # k
      <3>1. Woken(k)' = Woken(k) /\ waiters'[k] = waiters[k]
        BY <2>1, <2>2 DEF Woken, TypeOK
      <3> QED BY <1>2, <2>1, <3>1
    <2>3. CASE KeyOf[e] = k
      <3>1. Woken(k)' \subseteq Woken(k)
        BY <2>1 DEF Woken, TypeOK
      <3>2. Cardinality(Woken(k)') \in Nat
        BY <1>1, <3>1, FS_Subset, FS_CardinalityType
      <3> QED BY <1>1, <2>1, <2>3, <3>2
    <2> QED BY <2>2, <2>3
  <1>6. ASSUME NEW e \in Events, Releases(e) PROVE Goal
    <2>1. /\ KeyOf[e] \in Keys /\ pc[e] = "finishing"
          /\ active' = [active EXCEPT ![KeyOf[e]] = IF @ > 0 THEN @ - 1 ELSE @]
      BY <1>6, QueueAssumption DEF Releases, Release, HasKey
    <2>2. CASE waiters[KeyOf[e]] = <<>>
      <3>1. waiters' = waiters /\ pc' = [pc EXCEPT ![e] = "done"]
        BY <1>6, <2>2 DEF Releases, Release
      <3>2. k # KeyOf[e] /\ active'[k] = active[k]
        BY <2>1, <2>2, <3>1 DEF TypeOK
      <3>3. Woken(k)' = Woken(k)
        BY <2>1, <3>1 DEF Woken, TypeOK
      <3> QED BY <1>2, <3>1, <3>2, <3>3
    <2>3. CASE waiters[KeyOf[e]] # <<>>
      <3> DEFINE h == waiters[KeyOf[e]][1]
      <3>1. 1 \in 1..Len(waiters[KeyOf[e]]) /\ h = Head(waiters[KeyOf[e]])
        BY <2>1, <2>3, WaitersFacts DEF Shape
      <3>2. h \in Events /\ pc[h] = "waiting" /\ KeyOf[h] = KeyOf[e]
        BY <2>1, <3>1, WaitersFacts DEF Shape, WaitersOK
      <3>3. PICK w \in Events : w = h
        BY <3>2
      <3>4. /\ pc' = [pc EXCEPT ![e] = "done", ![w] = "woken"]
            /\ waiters' = [waiters EXCEPT ![KeyOf[e]] = Tail(@)]
        BY <1>6, <2>3, <3>1, <3>3 DEF Releases, Release
      <3>5. pc[w] = "waiting" /\ KeyOf[w] = KeyOf[e] /\ w # e
        BY <2>1, <3>2, <3>3
      <3> HIDE DEF h
      <3>6. CASE k # KeyOf[e]
        <4>1. Woken(k)' = Woken(k)
          BY <2>1, <3>4, <3>5, <3>6 DEF Woken, TypeOK
        <4>2. active'[k] = active[k] /\ waiters'[k] = waiters[k]
          BY <2>1, <3>4, <3>6 DEF TypeOK
        <4> QED BY <1>2, <4>1, <4>2
      <3>7. CASE k = KeyOf[e]
        <4>1. Woken(k)' = Woken(k) \cup {w} /\ w \notin Woken(k)
          BY <2>1, <3>4, <3>5, <3>7 DEF Woken, TypeOK
        <4>2. Cardinality(Woken(k)') = Cardinality(Woken(k)) + 1
          BY <1>1, <4>1, FS_AddElement
        <4>3. active'[k] \in Nat /\ active'[k] >= active[k] - 1
          BY <1>1, <2>1, <3>7 DEF TypeOK
        <4>4. PICK f \in Events : KeyOf[f] = k /\ active[k] + Cardinality(Woken(k)) >= LimitOf[f]
          BY <2>3, <3>7 DEF NoIdlePermit
        <4> QED BY <1>1, <4>2, <4>3, <4>4
      <3> QED BY <3>6, <3>7
    <2> QED BY <2>2, <2>3
  <1>7. CASE Forget
    BY <1>7 DEF Forget
  <1> QED BY <1>3, <1>4, <1>5, <1>6, <1>7, SemaphoreSteps DEF Acquires, Acquire

(* release() loses no wake-up: nobody sleeps beside a permit that even the most
   modest limit of the key would grant, not even after clear() and not even if
   a woken closure finds its permit taken. *)
THEOREM NoPermitIdles == Spec => []NoIdlePermit
PROOF
  <1>1. Init => NoIdlePermit
    BY DEF Init, NoIdlePermit
  <1> QED BY <1>1, TypeOKInit, TypeOKNext, ShapeInit, ShapeNext, NoIdlePermitNext, PTL DEF Spec

(* The permits of every key are sound whatever the calls, their limits and the
   order in which their closures run. *)
THEOREM PermitsStaySound == Spec => []PermitsAreSound
PROOF
  <1>1. PermitAccounting /\ LimitRespected /\ NoIdlePermit => PermitsAreSound
    BY DEF PermitsAreSound
  <1> QED BY <1>1, PermitsAreAccountedFor, LimitIsRespected, NoPermitIdles, PTL

-----------------------------------------------------------------------------
(* push() resolves on a quiescent call.                                     *)

Quiet ==
    \A j \in Jobs : push[j] = "resolved" =>
        \A i \in 1..Len(Batch[j]) : pc[Batch[j][i]] \in {"idle", "done"}

(* Nothing starts for a call that has returned. *)
LEMMA ReturnedStartsNothing ==
    ASSUME TypeOK, Shape, [Next]_vars
    PROVE  \A x \in Events : pc[x] = "idle" /\ push[JobOf(x)] = "resolved" => pc'[x] = "idle"
PROOF
  <1> USE DEF configVars, jobVars, deliveryVars, semaphoreVars, Shape
  <1> DEFINE Goal == \A x \in Events : pc[x] = "idle" /\ push[JobOf(x)] = "resolved" => pc'[x] = "idle"
  <1>1. ASSUME NEW j \in Jobs, PushRejected(j) \/ PushNothing(j) \/ PushConcurrent(j)
        PROVE  Goal
    BY <1>1 DEF PushRejected, PushNothing, PushConcurrent
  <1>2. ASSUME NEW j \in Jobs, PushSequential(j) PROVE Goal
    <2>1. JobOf(Batch[j][1]) = j /\ push[j] = "idle" /\ pc' = [pc EXCEPT ![Batch[j][1]] = "delivering"]
      BY <1>2, FirstEvent, BatchElements DEF PushSequential, Accept, BeginDelivery
    <2> QED BY <2>1 DEF TypeOK
  <1>3. ASSUME NEW j \in Jobs, NEW e \in Events, LaunchEvent(j, e) PROVE Goal
    <2>1. Launch(j, e)
      BY <1>3 DEF LaunchEvent, LaunchCancelled, LaunchKeyed, LaunchPlain
    <2>2. \A x \in Events : x # e => pc'[x] = pc[x]
      BY <1>3, PcOfAcquire
      DEF LaunchEvent, LaunchCancelled, LaunchKeyed, LaunchPlain, BeginDelivery, TypeOK
    <2> QED BY <2>1, <2>2, LaunchFacts
  <1>4. ASSUME NEW e \in Events, Recheck(e) PROVE Goal
    BY <1>4, PcOfAcquire DEF Recheck
  <1>5. ASSUME NEW e \in Events, EnterWithPermit(e) PROVE Goal
    BY <1>5 DEF EnterWithPermit, BeginDelivery, TypeOK
  <1>6. ASSUME NEW e \in Events, FinishConcurrent(e) PROVE Goal
    BY <1>6, PcOfRelease DEF FinishConcurrent, TypeOK
  <1>7. ASSUME NEW e \in Events, Deliver(e) PROVE Goal
    <2>1. pc[e] = "delivering"
      BY <1>7 DEF Deliver, Succeed, Throw, RetryLimitReached, Redeliver, ConsumerSettles
    <2>2. \A x \in Events : x # e => pc'[x] = pc[x]
      BY <1>7 DEF Deliver, Succeed, Throw, RetryLimitReached, Redeliver, Leave, TypeOK
    <2> QED BY <2>1, <2>2
  <1>8. ASSUME NEW j \in Jobs, SequentialNext(j) PROVE Goal
    <2>1. PICK e \in Events, f \in Events :
             /\ e = Batch[j][launched[j]] /\ f = Batch[j][launched[j] + 1]
             /\ JobOf(f) = j /\ push[j] = "running" /\ pc[e] = "finishing"
             /\ pc' = [[pc EXCEPT ![e] = "done"] EXCEPT ![f] = "delivering"]
      BY <1>8, NextEvent, BatchElements DEF SequentialNext, SequentialResumes, BeginDelivery
    <2> QED BY <2>1 DEF TypeOK
  <1>9. ASSUME NEW j \in Jobs, SequentialEnd(j) \/ AllSettled(j) PROVE Goal
    BY <1>9 DEF SequentialEnd, SequentialResumes, AllSettled, TypeOK
  <1>10. ASSUME NEW j \in Jobs, Cancel(j) PROVE Goal
    BY <1>10 DEF Cancel
  <1>11. ASSUME NEW m \in Modes, SetMode(m) PROVE Goal
    BY <1>11 DEF SetMode
  <1>12. ASSUME NEW q \in QueueKeys, RegisterConsumer(q) PROVE Goal
    BY <1>12 DEF RegisterConsumer
  <1>13. CASE Clear \/ ClearAll
    BY <1>13 DEF Clear, ClearAll, Forget
  <1>14. CASE UNCHANGED vars
    BY <1>14 DEF vars
  <1> QED
    BY <1>1, <1>2, <1>3, <1>4, <1>5, <1>6, <1>7, <1>8, <1>9, <1>10, <1>11, <1>12, <1>13, <1>14
    DEF Next, Call, Return, Continue

(* Every step leaves the events of a returned push at rest. *)
LEMMA QuietNext == TypeOK /\ Shape /\ Quiet /\ [Next]_vars => Quiet'
PROOF
  <1> SUFFICES ASSUME TypeOK, Shape, Quiet, [Next]_vars PROVE Quiet'
    OBVIOUS
  <1> USE DEF configVars, jobVars, deliveryVars, semaphoreVars
  <1> DEFINE AtRest(j) == \A i \in 1..Len(Batch[j]) : pc[Batch[j][i]] \in {"idle", "done"}
  <1>1. ASSUME NEW j \in Jobs, push[j] = "resolved" PROVE AtRest(j)'
    BY <1>1, ReturnedStartsNothing, DoneIsFinal, BatchElements DEF Quiet, Shape
  <1>2. CASE \A i \in Jobs : push'[i] = "resolved" => push[i] = "resolved"
    BY <1>1, <1>2 DEF Quiet
  <1>3. ASSUME NEW j \in Jobs, push' = [push EXCEPT ![j] = "resolved"], AtRest(j)'
        PROVE  Quiet'
    <2>1. \A i \in Jobs : i # j => push'[i] = push[i]
      BY <1>3 DEF TypeOK
    <2> QED BY <1>1, <1>3, <2>1 DEF Quiet
  <1>4. ASSUME NEW j \in Jobs, PushNothing(j) PROVE Quiet'
    <2>1. push[j] = "idle" /\ push' = [push EXCEPT ![j] = "resolved"] /\ pc' = pc
      BY <1>4 DEF PushNothing, Accept
    <2>2. launched[j] = 0
      BY <2>1 DEF Shape, LaunchOK
    <2>3. AtRest(j)
      BY <2>2 DEF Shape, LaunchOK
    <2> QED BY <1>3, <2>1, <2>3
  <1>5. ASSUME NEW j \in Jobs, AllSettled(j) PROVE Quiet'
    <2>1. \A e \in EventsOf(j) : pc'[e] = "done"
      BY <1>5 DEF AllSettled
    <2>2. AtRest(j)'
      BY <2>1 DEF EventsOf
    <2> QED BY <1>3, <1>5, <2>2 DEF AllSettled
  <1>6. ASSUME NEW j \in Jobs, SequentialEnd(j) PROVE Quiet'
    <2>1. /\ push[j] = "running" /\ jobMode[j] = "sequential"
          /\ pc' = [pc EXCEPT ![Batch[j][launched[j]]] = "done"]
          /\ push' = [push EXCEPT ![j] = "resolved"]
      BY <1>6 DEF SequentialEnd, SequentialResumes
    <2>2. launched[j] \in Nat /\ launched[j] \in 1..Len(Batch[j])
      BY <2>1, BatchElements DEF Shape, SequentialOK, LaunchOK, TypeOK
    <2>3. ASSUME NEW i \in 1..Len(Batch[j]) PROVE pc'[Batch[j][i]] \in {"idle", "done"}
      <3>1. CASE i < launched[j]
        BY <2>1, <3>1, BatchElements DEF Shape, SequentialOK, TypeOK
      <3>2. CASE i = launched[j]
        BY <2>1, <3>2, BatchElements DEF TypeOK
      <3>3. CASE i > launched[j]
        BY <2>1, <3>3, BatchElements DEF Shape, LaunchOK, TypeOK
      <3> QED BY <2>2, <3>1, <3>2, <3>3
    <2> QED BY <1>3, <2>1, <2>3
  <1>7. ASSUME NEW j \in Jobs, PushRejected(j) \/ PushSequential(j) \/ PushConcurrent(j) PROVE Quiet'
    BY <1>2, <1>7 DEF PushRejected, PushSequential, PushConcurrent, Accept, TypeOK
  <1>8. ASSUME push' = push PROVE Quiet'
    BY <1>2, <1>8
  <1>9. ASSUME NEW j \in Jobs, NEW e \in Events, LaunchEvent(j, e) PROVE Quiet'
    BY <1>8, <1>9 DEF LaunchEvent, LaunchCancelled, LaunchKeyed, LaunchPlain, Launch
  <1>10. ASSUME NEW e \in Events, Deliver(e) \/ Continue(e) PROVE Quiet'
    BY <1>8, <1>10 DEF Deliver, Continue, Succeed, Throw, RetryLimitReached, Redeliver,
         ConsumerSettles, Recheck, EnterWithPermit, FinishConcurrent
  <1>11. ASSUME NEW j \in Jobs, SequentialNext(j) \/ Cancel(j) PROVE Quiet'
    BY <1>8, <1>11 DEF SequentialNext, Cancel
  <1>12. ASSUME NEW m \in Modes, SetMode(m) PROVE Quiet'
    BY <1>8, <1>12 DEF SetMode
  <1>13. ASSUME NEW q \in QueueKeys, RegisterConsumer(q) PROVE Quiet'
    BY <1>8, <1>13 DEF RegisterConsumer
  <1>14. CASE Clear \/ ClearAll
    BY <1>8, <1>14 DEF Clear, ClearAll, Forget
  <1>15. CASE UNCHANGED vars
    BY <1>8, <1>15 DEF vars
  <1> QED
    BY <1>4, <1>5, <1>6, <1>7, <1>9, <1>10, <1>11, <1>12, <1>13, <1>14, <1>15
    DEF Next, Call, Return

(* The deliveries that are running, counted. *)
Delivering(j) == {x \in EventsOf(j) : pc[x] = "delivering"}

InProgressOK == \A j \in Jobs : stats[j].inProgress = Cardinality(Delivering(j))

(* There are finitely many deliveries under way. *)
LEMMA FiniteDeliveries ==
    \A j \in Jobs : IsFiniteSet(Delivering(j)) /\ Cardinality(Delivering(j)) \in Nat
PROOF
  <1>1. \A j \in Jobs : Delivering(j) \subseteq Events
    BY JobOfUnique DEF Delivering
  <1>2. IsFiniteSet(Events)
    BY QueueAssumption
  <1> QED BY <1>1, <1>2, FS_Subset, FS_CardinalityType

(* A step that neither begins nor ends a delivery keeps the count. *)
LEMMA InProgressStays ==
    ASSUME InProgressOK, stats' = stats,
           \A x \in Events : (pc'[x] = "delivering") <=> (pc[x] = "delivering")
    PROVE  InProgressOK'
PROOF
  <1>1. \A j \in Jobs : Delivering(j)' = Delivering(j)
    BY JobOfUnique DEF Delivering, EventsOf
  <1> QED BY <1>1 DEF InProgressOK

(* A delivery that begins is counted. *)
LEMMA InProgressBegins ==
    ASSUME TypeOK, InProgressOK, NEW e \in Events, NEW at \in [Events -> Places],
           BeginDelivery(e, at), pc[e] # "delivering",
           \A x \in Events : x # e => ((at[x] = "delivering") <=> (pc[x] = "delivering"))
    PROVE  InProgressOK'
PROOF
  <1>1. JobOf(e) \in Jobs /\ e \in EventsOf(JobOf(e))
    BY JobOfEvent
  <1>2. stats' = [stats EXCEPT ![JobOf(e)].inProgress = @ + 1] /\ pc' = [at EXCEPT ![e] = "delivering"]
    BY DEF BeginDelivery
  <1>3. pc'[e] = "delivering" /\ \A x \in Events : x # e => pc'[x] = at[x]
    BY <1>2
  <1>4. Delivering(JobOf(e))' = Delivering(JobOf(e)) \cup {e} /\ e \notin Delivering(JobOf(e))
    BY <1>1, <1>3, JobOfUnique DEF Delivering, EventsOf
  <1>5. Cardinality(Delivering(JobOf(e))') = Cardinality(Delivering(JobOf(e))) + 1
    BY <1>1, <1>4, FiniteDeliveries, FS_AddElement
  <1>6. ASSUME NEW j \in Jobs, j # JobOf(e)
        PROVE  Delivering(j)' = Delivering(j) /\ stats'[j].inProgress = stats[j].inProgress
    <2>1. e \notin EventsOf(j)
      BY <1>6, JobOfUnique
    <2>2. Delivering(j)' = Delivering(j)
      BY <1>3, <2>1, JobOfUnique DEF Delivering, EventsOf
    <2> QED BY <1>2, <1>6, <2>2 DEF TypeOK
  <1>7. stats'[JobOf(e)].inProgress = stats[JobOf(e)].inProgress + 1
    BY <1>1, <1>2 DEF TypeOK
  <1>8. ASSUME NEW j \in Jobs PROVE stats'[j].inProgress = Cardinality(Delivering(j)')
    <2>1. CASE j = JobOf(e)
      BY <1>5, <1>7, <2>1 DEF InProgressOK
    <2>2. CASE j # JobOf(e)
      BY <1>6, <2>2 DEF InProgressOK
    <2> QED BY <2>1, <2>2
  <1> QED BY <1>8 DEF InProgressOK

(* A delivery that ends is discounted. *)
LEMMA InProgressLeaves ==
    ASSUME TypeOK, InProgressOK, NEW e \in Events, NEW outcome, Leave(e, outcome),
           pc[e] = "delivering"
    PROVE  InProgressOK'
PROOF
  <1>1. JobOf(e) \in Jobs /\ e \in EventsOf(JobOf(e))
    BY JobOfEvent
  <1>3. pc'[e] = "finishing" /\ \A x \in Events : x # e => pc'[x] = pc[x]
    BY DEF Leave, TypeOK
  <1>4. Delivering(JobOf(e))' = Delivering(JobOf(e)) \ {e} /\ e \in Delivering(JobOf(e))
    BY <1>1, <1>3, JobOfUnique DEF Delivering, EventsOf
  <1>5. Cardinality(Delivering(JobOf(e))') = Cardinality(Delivering(JobOf(e))) - 1
    BY <1>1, <1>4, FiniteDeliveries, FS_RemoveElement
  <1>6. ASSUME NEW j \in Jobs, j # JobOf(e)
        PROVE  Delivering(j)' = Delivering(j) /\ stats'[j].inProgress = stats[j].inProgress
    <2>1. e \notin EventsOf(j)
      BY <1>6, JobOfUnique
    <2>2. Delivering(j)' = Delivering(j)
      BY <1>3, <2>1, JobOfUnique DEF Delivering, EventsOf
    <2> QED BY <1>6, <2>2 DEF TypeOK, Leave
  <1>7. stats'[JobOf(e)].inProgress = stats[JobOf(e)].inProgress - 1
    BY <1>1 DEF TypeOK, Leave
  <1>8. ASSUME NEW j \in Jobs PROVE stats'[j].inProgress = Cardinality(Delivering(j)')
    <2>1. CASE j = JobOf(e)
      BY <1>5, <1>7, <2>1 DEF InProgressOK
    <2>2. CASE j # JobOf(e)
      BY <1>6, <2>2 DEF InProgressOK
    <2> QED BY <2>1, <2>2
  <1> QED BY <1>8 DEF InProgressOK

(* Every step keeps the count of deliveries of each job right. *)
LEMMA InProgressNext == TypeOK /\ Shape /\ InProgressOK /\ [Next]_vars => InProgressOK'
PROOF
  <1> SUFFICES ASSUME TypeOK, Shape, InProgressOK, [Next]_vars PROVE InProgressOK'
    OBVIOUS
  <1> USE DEF configVars, jobVars, deliveryVars, semaphoreVars
  <1>0. pc \in [Events -> Places]
    BY DEF TypeOK
  <1>1. ASSUME UNCHANGED <<pc, stats>> PROVE InProgressOK'
    BY <1>1, InProgressStays
  <1>2. ASSUME NEW j \in Jobs, PushRejected(j) \/ PushNothing(j) \/ PushConcurrent(j) \/ AllSettled(j)
        PROVE  InProgressOK'
    BY <1>1, <1>2 DEF PushRejected, PushNothing, PushConcurrent, AllSettled
  <1>3. ASSUME NEW j \in Jobs, PushSequential(j) PROVE InProgressOK'
    BY <1>0, <1>3, FirstEvent, InProgressBegins DEF PushSequential, Shape
  <1>4. ASSUME NEW j \in Jobs, NEW e \in Events, LaunchEvent(j, e) PROVE InProgressOK'
    <2>1. pc[e] = "idle"
      BY <1>4, LaunchFacts
      DEF LaunchEvent, LaunchCancelled, LaunchKeyed, LaunchPlain, Shape
    <2>2. CASE LaunchPlain(j, e)
      BY <1>0, <2>1, <2>2, InProgressBegins DEF LaunchPlain
    <2>3. CASE LaunchCancelled(j, e)
      BY <2>1, <2>3, InProgressStays DEF LaunchCancelled, TypeOK
    <2>4. CASE LaunchKeyed(j, e)
      BY <2>1, <2>4, InProgressStays DEF LaunchKeyed, Acquire, TakePermit, JoinWaiters, TypeOK
    <2> QED BY <1>4, <2>2, <2>3, <2>4 DEF LaunchEvent
  <1>5. ASSUME NEW e \in Events, Recheck(e) PROVE InProgressOK'
    BY <1>5, InProgressStays DEF Recheck, Acquire, TakePermit, JoinWaiters, TypeOK
  <1>6. ASSUME NEW e \in Events, EnterWithPermit(e) PROVE InProgressOK'
    <2>1. CASE BeginDelivery(e, pc)
      BY <1>0, <1>6, <2>1, InProgressBegins DEF EnterWithPermit
    <2>2. CASE pc' = [pc EXCEPT ![e] = "finishing"] /\ UNCHANGED deliveryVars
      BY <1>6, <2>2, InProgressStays DEF EnterWithPermit, TypeOK
    <2> QED BY <1>6, <2>1, <2>2 DEF EnterWithPermit
  <1>7. ASSUME NEW e \in Events, FinishConcurrent(e) PROVE InProgressOK'
    <2>1. \A x \in Events : (pc'[x] = "delivering") <=> (pc[x] = "delivering")
      BY <1>7, PcOfRelease DEF FinishConcurrent, TypeOK, Shape
    <2> QED BY <1>7, <2>1, InProgressStays DEF FinishConcurrent
  <1>8. ASSUME NEW e \in Events, Deliver(e) PROVE InProgressOK'
    <2>1. pc[e] = "delivering"
      BY <1>8 DEF Deliver, Succeed, Throw, RetryLimitReached, Redeliver, ConsumerSettles
    <2>2. (\E outcome \in {"success", "failed", "abandoned"} : Leave(e, outcome))
          \/ UNCHANGED <<pc, stats>>
      BY <1>8 DEF Deliver, Succeed, Throw, RetryLimitReached, Redeliver
    <2> QED BY <1>1, <2>1, <2>2, InProgressLeaves
  <1>9. ASSUME NEW j \in Jobs, SequentialNext(j) PROVE InProgressOK'
    <2>1. PICK e \in Events, f \in Events :
             /\ e = Batch[j][launched[j]] /\ f = Batch[j][launched[j] + 1]
             /\ pc[e] = "finishing" /\ pc[f] = "idle"
      BY <1>9, NextEvent DEF Shape
    <2>2. PICK at \in [Events -> Places] : at = [pc EXCEPT ![e] = "done"]
      BY <1>0 DEF Places
    <2>3. BeginDelivery(f, at)
      BY <1>9, <2>1, <2>2 DEF SequentialNext
    <2>4. \A x \in Events : (at[x] = "delivering") <=> (pc[x] = "delivering")
      BY <1>0, <2>1, <2>2
    <2> QED BY <2>1, <2>3, <2>4, InProgressBegins
  <1>10. ASSUME NEW j \in Jobs, SequentialEnd(j) PROVE InProgressOK'
    <2>1. \A x \in Events : (pc'[x] = "delivering") <=> (pc[x] = "delivering")
      BY <1>10 DEF SequentialEnd, SequentialResumes, TypeOK
    <2> QED BY <1>10, <2>1, InProgressStays DEF SequentialEnd
  <1>11. ASSUME NEW j \in Jobs, Cancel(j) PROVE InProgressOK'
    BY <1>1, <1>11 DEF Cancel
  <1>12. ASSUME NEW m \in Modes, SetMode(m) PROVE InProgressOK'
    BY <1>1, <1>12 DEF SetMode
  <1>13. ASSUME NEW q \in QueueKeys, RegisterConsumer(q) PROVE InProgressOK'
    BY <1>1, <1>13 DEF RegisterConsumer
  <1>14. CASE Clear \/ ClearAll
    BY <1>1, <1>14 DEF Clear, ClearAll, Forget
  <1>15. CASE UNCHANGED vars
    BY <1>1, <1>15 DEF vars
  <1> QED
    BY <1>2, <1>3, <1>4, <1>5, <1>6, <1>7, <1>8, <1>9, <1>10, <1>11, <1>12, <1>13, <1>14, <1>15
    DEF Next, Call, Return, Continue

(* With exact counts, a job whose events are at rest has none in progress. *)
LEMMA QuietMeansQuiescent == TypeOK /\ Quiet /\ InProgressOK => ResolvedIsQuiescent
PROOF
  <1> SUFFICES ASSUME TypeOK, Quiet, InProgressOK, NEW j \in Jobs, push[j] = "resolved"
               PROVE  /\ \A e \in EventsOf(j) : pc[e] \in {"idle", "done"}
                      /\ stats[j].inProgress = 0
    BY DEF ResolvedIsQuiescent
  <1>1. \A e \in EventsOf(j) : pc[e] \in {"idle", "done"}
    BY DEF Quiet, EventsOf
  <1>2. Delivering(j) = {}
    BY <1>1 DEF Delivering
  <1> QED BY <1>1, <1>2, FS_EmptySet DEF InProgressOK

(* When push() resolves nothing of the call is running, waiting or holding a
   permit, in either mode and whatever was cancelled or cleared meanwhile. *)
THEOREM PushResolvesAtRest == Spec => []ResolvedIsQuiescent
PROOF
  <1>1. Init => Quiet /\ InProgressOK
    <2> SUFFICES ASSUME Init PROVE Quiet /\ InProgressOK
      OBVIOUS
    <2>1. \A j \in Jobs : Delivering(j) = {} /\ stats[j].inProgress = 0
      BY JobOfUnique DEF Init, Delivering
    <2> QED BY <2>1, FS_EmptySet DEF Init, Quiet, InProgressOK
  <1> QED
    BY <1>1, TypeOKInit, TypeOKNext, ShapeInit, ShapeNext, QuietNext, InProgressNext,
       QuietMeansQuiescent, PTL DEF Spec

-----------------------------------------------------------------------------
(* What becomes of an event: its attempts and its outcome.                  *)

Untried == {"idle", "waiting", "woken", "granted"}

(* Who has not reached its consumer is pending and was never retried; who is in
   it is processing. *)
StatusOK ==
    \A x \in Events :
        /\ pc[x] \in Untried => status[x] = "pending" /\ retryCount[x] = 0
        /\ pc[x] = "delivering" => status[x] = "processing"

(* Only a job that was pushed can be found and cancelled. *)
FlagsOK == \A j \in Jobs : push[j] = "idle" => j \notin registered /\ j \notin cancelled

KeepsPlace(x) ==
    /\ pc'[x] \in Untried => pc[x] \in Untried
    /\ pc'[x] = "delivering" => pc[x] = "delivering"

Rests == /\ UNCHANGED <<status, retryCount>>
         /\ \A x \in Events : KeepsPlace(x)

OthersKeep(e) == /\ \A x \in Events : x # e => KeepsPlace(x)
                 /\ UNCHANGED <<holding, clearedBusy>>

HandsOver(e) ==
    /\ pc[e] \in Untried /\ pc'[e] = "delivering" /\ JobOf(e) \notin cancelled
    /\ status' = [status EXCEPT ![e] = "processing"] /\ retryCount' = retryCount
    /\ OthersKeep(e)

Retries(e) ==
    /\ pc[e] = "delivering" /\ pc'[e] \in {"delivering", "finishing"}
    /\ JobOf(e) \in cancelled => pc'[e] = "finishing"
    /\ retryCount[e] < MaxRetry
    /\ retryCount' = [retryCount EXCEPT ![e] = @ + 1] /\ status' = status
    /\ OthersKeep(e)

Concludes(e, outcome) ==
    /\ pc[e] = "delivering" /\ pc'[e] = "finishing"
    /\ status' = [status EXCEPT ![e] = outcome] /\ retryCount' = retryCount
    /\ OthersKeep(e)

(* Every step hands one event over, has one retried or concluded, or none of it. *)
LEMMA DeliverySteps ==
    ASSUME TypeOK, Shape, FlagsOK, [Next]_vars
    PROVE  \/ Rests
           \/ \E e \in Events : \/ HandsOver(e) \/ Retries(e)
                                \/ Concludes(e, "success") \/ Concludes(e, "failed")
PROOF
  <1> USE DEF configVars, jobVars, deliveryVars, semaphoreVars, Shape
  <1> DEFINE Goal == \/ Rests
                     \/ \E e \in Events : \/ HandsOver(e) \/ Retries(e)
                                          \/ Concludes(e, "success") \/ Concludes(e, "failed")
  <1>1. ASSUME UNCHANGED <<status, retryCount, pc>> PROVE Goal
    BY <1>1 DEF Rests, KeepsPlace
  <1>2. ASSUME NEW e \in Events, UNCHANGED <<status, retryCount>>,
               \A x \in Events : x # e => pc'[x] = pc[x], KeepsPlace(e)
        PROVE  Goal
    <2>1. \A x \in Events : x # e => KeepsPlace(x)
      BY <1>2 DEF KeepsPlace
    <2> QED BY <1>2, <2>1 DEF Rests
  <1>3. ASSUME NEW j \in Jobs, PushRejected(j) \/ PushNothing(j) \/ PushConcurrent(j) \/ AllSettled(j)
        PROVE  Goal
    BY <1>1, <1>3 DEF PushRejected, PushNothing, PushConcurrent, AllSettled, Accept
  <1>4. ASSUME NEW j \in Jobs, PushSequential(j) PROVE Goal
    <2>1. PICK e \in Events : e = Batch[j][1] /\ pc[e] = "idle" /\ JobOf(e) = j
      BY <1>4, FirstEvent, BatchElements
    <2>2. /\ UNCHANGED <<retryCount, holding, clearedBusy>>
          /\ pc' = [pc EXCEPT ![e] = "delivering"]
          /\ status' = [status EXCEPT ![e] = "processing"]
          /\ j \notin cancelled
      BY <1>4, <2>1 DEF PushSequential, Accept, BeginDelivery, FlagsOK
    <2>3. OthersKeep(e)
      BY <2>2 DEF OthersKeep, KeepsPlace, TypeOK
    <2>4. HandsOver(e)
      BY <2>1, <2>2, <2>3 DEF HandsOver, Untried, TypeOK
    <2> QED BY <2>4
  <1>5. ASSUME NEW j \in Jobs, NEW e \in Events, LaunchEvent(j, e) PROVE Goal
    <2>1. Launch(j, e) /\ retryCount' = retryCount /\ clearedBusy' = clearedBusy
      BY <1>5 DEF LaunchEvent, LaunchCancelled, LaunchKeyed, LaunchPlain, Launch
    <2>2. pc[e] = "idle" /\ JobOf(e) = j
      BY <2>1, LaunchFacts
    <2>3. CASE LaunchCancelled(j, e)
      BY <1>2, <2>1, <2>2, <2>3 DEF LaunchCancelled, TypeOK, KeepsPlace, Untried
    <2>4. CASE LaunchKeyed(j, e)
      <3>1. pc'[e] \in {"granted", "waiting"} /\ status' = status
        BY <2>4 DEF LaunchKeyed, Acquire, TakePermit, JoinWaiters, TypeOK
      <3>2. \A x \in Events : x # e => pc'[x] = pc[x]
        BY <2>4, PcOfAcquire DEF LaunchKeyed
      <3> QED BY <1>2, <2>1, <2>2, <3>1, <3>2 DEF KeepsPlace, Untried
    <2>5. CASE LaunchPlain(j, e)
      <3>1. /\ pc' = [pc EXCEPT ![e] = "delivering"]
            /\ status' = [status EXCEPT ![e] = "processing"]
            /\ j \notin cancelled /\ holding' = holding
        BY <2>5 DEF LaunchPlain, BeginDelivery
      <3>2. OthersKeep(e)
        BY <2>1, <3>1 DEF OthersKeep, KeepsPlace, TypeOK
      <3>3. HandsOver(e)
        BY <2>1, <2>2, <3>1, <3>2 DEF HandsOver, Untried, TypeOK
      <3> QED BY <3>3
    <2> QED BY <1>5, <2>3, <2>4, <2>5 DEF LaunchEvent
  <1>6. ASSUME NEW e \in Events, Recheck(e) PROVE Goal
    <2>1. /\ pc[e] = "woken" /\ pc'[e] \in {"granted", "waiting"}
          /\ UNCHANGED <<status, retryCount>>
      BY <1>6 DEF Recheck, Acquire, TakePermit, JoinWaiters, TypeOK
    <2>2. \A x \in Events : x # e => pc'[x] = pc[x]
      BY <1>6, PcOfAcquire DEF Recheck
    <2> QED BY <1>2, <2>1, <2>2 DEF KeepsPlace, Untried
  <1>7. ASSUME NEW e \in Events, EnterWithPermit(e) PROVE Goal
    <2>1. pc[e] = "granted" /\ UNCHANGED <<retryCount, holding, clearedBusy>>
      BY <1>7 DEF EnterWithPermit
    <2>2. CASE pc' = [pc EXCEPT ![e] = "finishing"] /\ UNCHANGED deliveryVars
      BY <1>2, <2>1, <2>2 DEF KeepsPlace, Untried, TypeOK
    <2>3. CASE JobOf(e) \notin cancelled /\ BeginDelivery(e, pc)
      <3>1. OthersKeep(e)
        BY <2>1, <2>3 DEF BeginDelivery, OthersKeep, KeepsPlace, TypeOK
      <3>2. HandsOver(e)
        BY <2>1, <2>3, <3>1 DEF HandsOver, BeginDelivery, Untried, TypeOK
      <3> QED BY <3>2
    <2> QED BY <1>7, <2>2, <2>3 DEF EnterWithPermit
  <1>8. ASSUME NEW e \in Events, FinishConcurrent(e) PROVE Goal
    <2>1. pc[e] = "finishing" /\ UNCHANGED <<status, retryCount>>
      BY <1>8 DEF FinishConcurrent
    <2>2. CASE HasKey(e) /\ Release(e)
      BY <2>1, <2>2, PcOfRelease DEF Rests, KeepsPlace, Untried
    <2>3. CASE ~HasKey(e) /\ pc' = [pc EXCEPT ![e] = "done"]
      BY <1>2, <2>1, <2>3 DEF KeepsPlace, Untried, TypeOK
    <2> QED BY <1>8, <2>2, <2>3 DEF FinishConcurrent
  <1>9. ASSUME NEW e \in Events, Deliver(e) PROVE Goal
    <2>1. pc[e] = "delivering" /\ UNCHANGED <<holding, clearedBusy>>
      BY <1>9 DEF Deliver, Succeed, Throw, RetryLimitReached, Redeliver, ConsumerSettles
    <2>2. /\ pc'[e] \in {"delivering", "finishing"}
          /\ \A x \in Events : x # e => pc'[x] = pc[x]
      BY <1>9, <2>1 DEF Deliver, Succeed, Throw, RetryLimitReached, Redeliver, Leave, TypeOK
    <2>3. OthersKeep(e)
      BY <2>1, <2>2 DEF OthersKeep, KeepsPlace
    <2>4. CASE Succeed(e)
      <3>1. Concludes(e, "success")
        BY <2>1, <2>3, <2>4 DEF Succeed, Leave, Concludes, TypeOK
      <3> QED BY <3>1
    <2>5. CASE Throw(e) \/ RetryLimitReached(e)
      <3>1. Concludes(e, "failed")
        BY <2>1, <2>3, <2>5 DEF Throw, RetryLimitReached, Leave, Concludes, TypeOK
      <3> QED BY <3>1
    <2>6. CASE Redeliver(e)
      <3>1. /\ retryCount[e] < MaxRetry /\ retryCount' = [retryCount EXCEPT ![e] = @ + 1]
            /\ JobOf(e) \in cancelled => pc'[e] = "finishing"
        BY <2>6 DEF Redeliver, Leave, TypeOK
      <3>2. status' = status
        BY <2>6 DEF Redeliver, Leave, TypeOK
      <3>3. Retries(e)
        BY <2>1, <2>2, <2>3, <3>1, <3>2 DEF Retries
      <3> QED BY <3>3
    <2> QED BY <1>9, <2>4, <2>5, <2>6 DEF Deliver
  <1>10. ASSUME NEW j \in Jobs, SequentialNext(j) PROVE Goal
    <2>1. PICK e \in Events, f \in Events :
             /\ e = Batch[j][launched[j]] /\ f = Batch[j][launched[j] + 1]
             /\ e # f /\ JobOf(f) = j
             /\ pc[e] = "finishing" /\ pc[f] = "idle"
      BY <1>10, NextEvent, BatchElements
    <2>2. /\ pc' = [[pc EXCEPT ![e] = "done"] EXCEPT ![f] = "delivering"]
          /\ status' = [status EXCEPT ![f] = "processing"]
          /\ j \notin cancelled
          /\ UNCHANGED <<retryCount, holding, clearedBusy>>
      BY <1>10, <2>1 DEF SequentialNext, SequentialResumes, BeginDelivery
    <2>3. /\ pc'[e] = "done" /\ pc'[f] = "delivering"
          /\ \A x \in Events : x # e /\ x # f => pc'[x] = pc[x]
      BY <2>1, <2>2 DEF TypeOK
    <2>4. OthersKeep(f)
      BY <2>1, <2>2, <2>3 DEF OthersKeep, KeepsPlace, Untried
    <2>5. HandsOver(f)
      BY <2>1, <2>2, <2>3, <2>4 DEF HandsOver, Untried
    <2> QED BY <2>5
  <1>11. ASSUME NEW j \in Jobs, SequentialEnd(j) PROVE Goal
    <2>1. /\ launched[j] \in Nat /\ launched[j] >= 1 /\ launched[j] <= Len(Batch[j])
          /\ pc[Batch[j][launched[j]]] = "finishing"
          /\ pc' = [pc EXCEPT ![Batch[j][launched[j]]] = "done"]
          /\ UNCHANGED <<status, retryCount>>
      BY <1>11 DEF SequentialEnd, SequentialResumes, SequentialOK, LaunchOK, TypeOK
    <2>2. PICK e \in Events : e = Batch[j][launched[j]]
      BY <2>1, BatchElements
    <2>3. pc'[e] = "done" /\ \A x \in Events : x # e => pc'[x] = pc[x]
      BY <2>1, <2>2 DEF TypeOK
    <2> QED BY <1>2, <2>1, <2>2, <2>3 DEF KeepsPlace, Untried
  <1>12. ASSUME NEW j \in Jobs, Cancel(j) PROVE Goal
    BY <1>1, <1>12 DEF Cancel
  <1>13. ASSUME NEW m \in Modes, SetMode(m) PROVE Goal
    BY <1>1, <1>13 DEF SetMode
  <1>14. ASSUME NEW q \in QueueKeys, RegisterConsumer(q) PROVE Goal
    BY <1>1, <1>14 DEF RegisterConsumer
  <1>15. CASE Clear \/ ClearAll
    BY <1>1, <1>15 DEF Clear, ClearAll, Forget
  <1>16. CASE UNCHANGED vars
    BY <1>1, <1>16 DEF vars
  <1> QED
    BY <1>3, <1>4, <1>5, <1>6, <1>7, <1>8, <1>9, <1>10, <1>11, <1>12, <1>13, <1>14, <1>15, <1>16
    DEF Next, Call, Return, Continue

(* Every step keeps an event's status in line with its place. *)
LEMMA StatusOKNext == TypeOK /\ Shape /\ FlagsOK /\ StatusOK /\ [Next]_vars => StatusOK'
PROOF
  <1> SUFFICES ASSUME TypeOK, Shape, FlagsOK, StatusOK, [Next]_vars PROVE StatusOK'
    OBVIOUS
  <1>1. CASE Rests
    BY <1>1 DEF Rests, KeepsPlace, StatusOK
  <1>2. ASSUME NEW e \in Events, OthersKeep(e), HandsOver(e) \/ Retries(e)
               \/ Concludes(e, "success") \/ Concludes(e, "failed")
        PROVE  StatusOK'
    <2>1. ASSUME NEW x \in Events, x # e
          PROVE  KeepsPlace(x) /\ status'[x] = status[x] /\ retryCount'[x] = retryCount[x]
      BY <1>2, <2>1 DEF OthersKeep, HandsOver, Retries, Concludes, TypeOK
    <2>2. ASSUME NEW x \in Events, x # e
          PROVE  /\ pc'[x] \in Untried => status'[x] = "pending" /\ retryCount'[x] = 0
                 /\ pc'[x] = "delivering" => status'[x] = "processing"
      BY <2>1, <2>2 DEF KeepsPlace, StatusOK
    <2>3. pc'[e] \notin Untried /\ (pc'[e] = "delivering" => status'[e] = "processing")
      BY <1>2 DEF HandsOver, Retries, Concludes, Untried, StatusOK, TypeOK
    <2> QED BY <2>2, <2>3 DEF StatusOK
  <1>3. \A e \in Events : HandsOver(e) \/ Retries(e)
               \/ Concludes(e, "success") \/ Concludes(e, "failed") => OthersKeep(e)
    BY DEF HandsOver, Retries, Concludes
  <1> QED BY <1>1, <1>2, <1>3, DeliverySteps

(* Every step keeps the unpushed jobs out of the tables. *)
LEMMA FlagsOKNext == TypeOK /\ FlagsOK /\ [Next]_vars => FlagsOK'
PROOF
  <1> SUFFICES ASSUME TypeOK, FlagsOK, [Next]_vars PROVE FlagsOK'
    OBVIOUS
  <1> USE DEF configVars, jobVars, deliveryVars, semaphoreVars
  <1>1. ASSUME NEW j \in Jobs, Call(j) PROVE FlagsOK'
    BY <1>1 DEF Call, PushRejected, PushNothing, PushSequential, PushConcurrent, Accept,
         FlagsOK, TypeOK
  <1>2. ASSUME NEW j \in Jobs, Return(j) PROVE FlagsOK'
    BY <1>2 DEF Return, AllSettled, SequentialNext, SequentialEnd, SequentialResumes,
         FlagsOK, TypeOK
  <1>3. ASSUME NEW j \in Jobs, Cancel(j) PROVE FlagsOK'
    BY <1>3 DEF Cancel, FlagsOK
  <1>4. ASSUME UNCHANGED <<push, registered, cancelled>> PROVE FlagsOK'
    BY <1>4 DEF FlagsOK
  <1>5. ASSUME NEW j \in Jobs, NEW e \in Events, LaunchEvent(j, e) PROVE FlagsOK'
    BY <1>4, <1>5 DEF LaunchEvent, LaunchCancelled, LaunchKeyed, LaunchPlain, Launch
  <1>6. ASSUME NEW e \in Events, Deliver(e) \/ Continue(e) PROVE FlagsOK'
    BY <1>4, <1>6 DEF Deliver, Continue, Succeed, Throw, RetryLimitReached, Redeliver,
         ConsumerSettles, Recheck, EnterWithPermit, FinishConcurrent
  <1>7. ASSUME NEW m \in Modes, SetMode(m) PROVE FlagsOK'
    BY <1>4, <1>7 DEF SetMode
  <1>8. ASSUME NEW q \in QueueKeys, RegisterConsumer(q) PROVE FlagsOK'
    BY <1>4, <1>8 DEF RegisterConsumer
  <1>9. CASE Clear \/ ClearAll
    BY <1>9 DEF Clear, ClearAll, Forget, FlagsOK
  <1>10. CASE UNCHANGED vars
    BY <1>4, <1>10 DEF vars
  <1> QED BY <1>1, <1>2, <1>3, <1>5, <1>6, <1>7, <1>8, <1>9, <1>10 DEF Next

(* No event has been handed over at first. *)
LEMMA StatusInit == Init => StatusOK /\ FlagsOK
PROOF
  BY DEF Init, StatusOK, FlagsOK, Untried

(* One step of CancelIsFinal. *)
NotHandedAgain ==
    \A e \in Events : JobOf(e) \in cancelled =>
        \/ Attempts(e)' = Attempts(e)
        \/ pc'[e] = "finishing"

(* An event of a cancelled job is not handed to a consumer again, whatever launch, permit
   or retry was under way: for any number of jobs, events, keys and retries. *)
THEOREM CancelsAreFinal == Spec => CancelIsFinal
PROOF
  <1>1. ASSUME TypeOK, Shape, FlagsOK, StatusOK, [Next]_vars PROVE NotHandedAgain
    <2> SUFFICES ASSUME NEW e \in Events, JobOf(e) \in cancelled
                 PROVE  Attempts(e)' = Attempts(e) \/ pc'[e] = "finishing"
      BY DEF NotHandedAgain
    <2>1. CASE Rests
      BY <2>1 DEF Rests, Attempts
    <2>2. ASSUME NEW f \in Events, HandsOver(f) PROVE Attempts(e)' = Attempts(e)
      BY <1>1, <2>2 DEF HandsOver, Attempts, TypeOK
    <2>3. ASSUME NEW f \in Events, Retries(f)
          PROVE  Attempts(e)' = Attempts(e) \/ pc'[e] = "finishing"
      BY <1>1, <2>3 DEF Retries, Attempts, TypeOK
    <2>4. ASSUME NEW f \in Events, Concludes(f, "success") \/ Concludes(f, "failed")
          PROVE  Attempts(e)' = Attempts(e)
      BY <1>1, <2>4 DEF Concludes, Attempts, StatusOK, TypeOK
    <2> QED BY <1>1, <2>1, <2>2, <2>3, <2>4, DeliverySteps
  <1>2. TypeOK /\ Shape /\ FlagsOK /\ StatusOK /\ [Next]_vars => [NotHandedAgain]_vars
    BY <1>1
  <1> QED
    BY <1>2, TypeOKInit, TypeOKNext, ShapeInit, ShapeNext, StatusInit, StatusOKNext,
       FlagsOKNext, PTL DEF Spec, CancelIsFinal, NotHandedAgain

-----------------------------------------------------------------------------
(* The queue implements its contract.                                       *)

(* The refinement mapping: what QueueContract's variables stand for. *)
AttemptsMade == [e \in Events |-> Attempts(e)]
Outcome(e) == IF status[e] \in {"success", "failed"} THEN status[e] ELSE "open"
Outcomes == [e \in Events |-> Outcome(e)]

ContractInv == TypeOK /\ Shape /\ FlagsOK /\ StatusOK /\ PermitAccounting

(* The parts of the mapping that a step may leave as they are. *)
LEMMA MappingRests ==
    ASSUME ContractInv, Rests
    PROVE  AttemptsMade' = AttemptsMade /\ Outcomes' = Outcomes
PROOF
  BY DEF Rests, AttemptsMade, Attempts, Outcomes, Outcome

(* Of the mapping, a hand-over or a retry changes the attempts at one event, by one. *)
LEMMA MappingAttempts ==
    ASSUME ContractInv, NEW e \in Events, HandsOver(e) \/ Retries(e)
    PROVE  /\ AttemptsMade' = [AttemptsMade EXCEPT ![e] = @ + 1]
           /\ Outcomes' = Outcomes
           /\ Outcomes[e] = "open" /\ AttemptsMade[e] <= MaxRetry
PROOF
  <1>1. /\ status[e] = IF HandsOver(e) THEN "pending" ELSE "processing"
        /\ HandsOver(e) => retryCount[e] = 0
        /\ ~HandsOver(e) => retryCount[e] < MaxRetry
        /\ retryCount[e] \in Nat /\ MaxRetry \in Nat
    BY QueueAssumption DEF ContractInv, StatusOK, HandsOver, Retries, TypeOK
  <1>2. Outcomes[e] = "open" /\ AttemptsMade[e] <= MaxRetry
    BY <1>1 DEF Outcomes, Outcome, AttemptsMade, Attempts
  <1>3. ASSUME NEW x \in Events, x # e
        PROVE  Attempts(x)' = Attempts(x) /\ Outcome(x)' = Outcome(x)
    BY <1>3 DEF ContractInv, HandsOver, Retries, TypeOK, Attempts, Outcome
  <1>4. Attempts(e)' = Attempts(e) + 1 /\ Outcome(e)' = Outcome(e)
    BY <1>1 DEF ContractInv, HandsOver, Retries, TypeOK, Attempts, Outcome
  <1>5. AttemptsMade' = [AttemptsMade EXCEPT ![e] = @ + 1]
    BY <1>3, <1>4 DEF AttemptsMade
  <1>6. Outcomes' = Outcomes
    BY <1>3, <1>4 DEF Outcomes
  <1> QED BY <1>2, <1>5, <1>6

(* Of the mapping, a conclusion changes the outcome of one event that was attempted. *)
LEMMA MappingOutcome ==
    ASSUME ContractInv, NEW e \in Events, NEW r \in {"success", "failed"}, Concludes(e, r)
    PROVE  /\ Outcomes' = [Outcomes EXCEPT ![e] = r]
           /\ AttemptsMade' = AttemptsMade
           /\ Outcomes[e] = "open" /\ AttemptsMade[e] > 0
PROOF
  <1>1. status[e] = "processing" /\ retryCount[e] \in Nat
    BY DEF ContractInv, StatusOK, Concludes, TypeOK
  <1>2. Outcomes[e] = "open" /\ AttemptsMade[e] > 0
    BY <1>1 DEF Outcomes, Outcome, AttemptsMade, Attempts
  <1>3. ASSUME NEW x \in Events
        PROVE  Attempts(x)' = Attempts(x) /\ Outcome(x)' = IF x = e THEN r ELSE Outcome(x)
    BY <1>1 DEF ContractInv, Concludes, TypeOK, Attempts, Outcome
  <1>4. AttemptsMade' = AttemptsMade
    BY <1>3 DEF AttemptsMade
  <1>5. Outcomes' = [Outcomes EXCEPT ![e] = r]
    BY <1>3 DEF Outcomes
  <1> QED BY <1>2, <1>4, <1>5

(* What a step of the semaphore leaves alone. *)
LEMMA SemaphoreOrDelivery ==
    ASSUME ContractInv, [Next]_vars, ~UNCHANGED <<holding, clearedBusy>>
    PROVE  Rests
PROOF
  <1>1. \A e \in Events : HandsOver(e) \/ Retries(e) \/ Concludes(e, "success")
               \/ Concludes(e, "failed") => UNCHANGED <<holding, clearedBusy>>
    BY DEF HandsOver, Retries, Concludes, OthersKeep
  <1> QED BY <1>1, DeliverySteps DEF ContractInv

(* A step that takes or returns a permit, or voids them all, does so in the contract. *)
LEMMA PermitsMap ==
    ASSUME ContractInv, [Next]_vars, ~UNCHANGED <<holding, clearedBusy>>
    PROVE  Contract!Next
PROOF
  <1>1. AttemptsMade' = AttemptsMade /\ Outcomes' = Outcomes
    BY SemaphoreOrDelivery, MappingRests
  <1>2. ASSUME NEW e \in Events, Acquires(e) PROVE Contract!Grant(e)
    <2>1. TakePermit(e) /\ clearedBusy' = clearedBusy
      BY <1>2 DEF Acquires, Acquire, JoinWaiters
    <2>2. KeyOf[e] \in Keys /\ KeyOf[e] # NoKey
      BY <1>2, QueueAssumption DEF Acquires, HasKey
    <2>3. clearedBusy \/ Cardinality({f \in holding : KeyOf[f] = KeyOf[e]}) < LimitOf[e]
      BY <2>1, <2>2 DEF ContractInv, PermitAccounting, Holders, TakePermit
    <2>4. \A S : Contract!Cardinality(S) = Cardinality(S)
      BY DEF Contract!Cardinality, Cardinality
    <2> QED BY <1>1, <1>2, <2>1, <2>2, <2>3, <2>4
            DEF Contract!Grant, TakePermit, Acquires, AttemptsMade, Outcomes, Outcome
  <1>3. ASSUME NEW e \in Events, Releases(e) PROVE Contract!GiveBack(e)
    <2>1. e \in holding /\ holding' = holding \ {e} /\ clearedBusy' = clearedBusy
      BY <1>3 DEF Releases, Release, Permitted, ContractInv, PermitAccounting
    <2> QED BY <1>1, <2>1 DEF Contract!GiveBack, AttemptsMade, Outcomes, Outcome
  <1>4. ASSUME Forget PROVE Contract!VoidPermits
    <2>1. holding' = holding
      BY <1>4 DEF Forget
    <2>2. clearedBusy' = TRUE
      BY <1>4, <2>1 DEF Forget, ContractInv, TypeOK
    <2> QED BY <1>1, <2>1, <2>2 DEF Contract!VoidPermits, AttemptsMade, Outcomes, Outcome
  <1> QED BY <1>2, <1>3, <1>4, SemaphoreSteps DEF ContractInv, Contract!Next, Aside

(* A step that touches no permit is a step of the contract too, or a stutter. *)
LEMMA DeliveriesMap ==
    ASSUME ContractInv, [Next]_vars, UNCHANGED <<holding, clearedBusy>>
    PROVE  [Contract!Next]_(Contract!contractVars)
PROOF
  <1>1. CASE Rests
    BY <1>1, MappingRests DEF Contract!contractVars, AttemptsMade, Outcomes, Outcome
  <1>2. ASSUME NEW e \in Events, HandsOver(e) \/ Retries(e) PROVE Contract!Attempt(e)
    BY <1>2, MappingAttempts DEF Contract!Attempt, AttemptsMade, Outcomes, Outcome
  <1>3. ASSUME NEW e \in Events, NEW r \in {"success", "failed"}, Concludes(e, r)
        PROVE  Contract!Conclude(e, r)
    BY <1>3, MappingOutcome DEF Contract!Conclude, AttemptsMade, Outcomes, Outcome
  <1> QED BY <1>1, <1>2, <1>3, DeliverySteps DEF ContractInv, Contract!Next

(* The queue implements QueueContract: attempts, outcomes and permits of its events are
   those that the contract allows, step by step, for every batch, mode, cancel and clear. *)
THEOREM QueueKeepsContract == Spec => KeepsContract
PROOF
  <1>1. Init => Contract!Init
    BY DEF Init, Contract!Init, Attempts
  <1>2. ContractInv /\ [Next]_vars => [Contract!Next]_(Contract!contractVars)
    BY PermitsMap, DeliveriesMap
  <1>3. Init => ContractInv
    BY TypeOKInit, ShapeInit, StatusInit, PermitAccountingInit DEF ContractInv
  <1>4. ContractInv /\ [Next]_vars => ContractInv'
    BY TypeOKNext, ShapeNext, StatusOKNext, FlagsOKNext, PermitAccountingNext DEF ContractInv
  <1> QED BY <1>1, <1>2, <1>3, <1>4, PTL DEF Spec, KeepsContract, Contract!Spec

=============================================================================
