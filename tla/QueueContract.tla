---------------------------- MODULE QueueContract ----------------------------
(***************************************************************************)
(* What the queue of src/src/queue.ts promises to a test, without its       *)
(* closures, calls and waiting lists:                                       *)
(*                                                                          *)
(*   - an event is handed to its consumer at most MaxRetry + 1 times, never *)
(*     again once it has an outcome, and an outcome never changes;          *)
(*   - a concurrency permit is granted only below the limit its event names *)
(*     ("named semaphore, shared across queues") and is returned once;      *)
(*   - only clear() may void the promise about permits.                     *)
(***************************************************************************)
EXTENDS Integers, FiniteSets

CONSTANTS Events, Keys, NoKey, KeyOf, LimitOf, MaxRetry

VARIABLES
    attempts,  \* how often each event has been handed to its consumer
    outcome,   \* what became of it
    permits,   \* the events that hold a permit of their key
    void       \* clear() has dropped permits that were in use

contractVars == <<attempts, outcome, permits, void>>

Init ==
    /\ attempts = [e \in Events |-> 0]
    /\ outcome = [e \in Events |-> "open"]
    /\ permits = {}
    /\ void = FALSE

Grant(e) ==
    /\ KeyOf[e] # NoKey
    /\ e \notin permits
    /\ void \/ Cardinality({f \in permits : KeyOf[f] = KeyOf[e]}) < LimitOf[e]
    /\ permits' = permits \cup {e}
    /\ UNCHANGED <<attempts, outcome, void>>

GiveBack(e) ==
    /\ e \in permits
    /\ permits' = permits \ {e}
    /\ UNCHANGED <<attempts, outcome, void>>

Attempt(e) ==
    /\ outcome[e] = "open"
    /\ attempts[e] <= MaxRetry
    /\ attempts' = [attempts EXCEPT ![e] = @ + 1]
    /\ UNCHANGED <<outcome, permits, void>>

Conclude(e, result) ==
    /\ outcome[e] = "open"
    /\ attempts[e] > 0
    /\ outcome' = [outcome EXCEPT ![e] = result]
    /\ UNCHANGED <<attempts, permits, void>>

VoidPermits ==
    /\ void' = TRUE
    /\ UNCHANGED <<attempts, outcome, permits>>

Next ==
    \/ \E e \in Events :
          Grant(e) \/ GiveBack(e) \/ Attempt(e) \/ Conclude(e, "success") \/ Conclude(e, "failed")
    \/ VoidPermits

Spec == Init /\ [][Next]_contractVars

=============================================================================
