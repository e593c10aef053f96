---------------------------- MODULE MCEventQueue ----------------------------
(* Instances of EventQueue for TLC.  Calls j1 and j2 compete for one key with
   three events, so that a permit is held, one closure waits and another barges
   in; j3 is made and awaited by the consumer of e1, which then has no key and
   is called inside the launch loop of j1; j4 is one event too long. *)
EXTENDS EventQueue, TLC

CONSTANTS j1, j2, j3, j4, e1, e2, e3, e4, e5, e6, e7, k1, q1

MCBatch ==
    [j \in Jobs |-> CASE j = j1 -> <<e1, e2>>
                      [] j = j2 -> <<e3>>
                      [] j = j3 -> <<e4>>
                      [] j = j4 -> <<e5, e6, e7>>]
MCQueueOf == [j \in Jobs |-> q1]
MCKeyOf == [e \in Events |-> IF e \in {e1, e2, e3} THEN k1 ELSE NoKey]
MCKeyOfNested == [e \in Events |-> IF e \in {e2, e4} THEN k1 ELSE NoKey]
MCLimitOf == [e \in Events |-> 1]
MCNestedIn == [j \in Jobs |-> IF j = j3 THEN e1 ELSE External]

=============================================================================
