-------------------------- MODULE InvocationProofs --------------------------
(***************************************************************************)
(* Theorems about Invocation, for any calls, modules and bounds.           *)
(*                                                                         *)
(* The inductive invariant CallInv adds to the types that the count of     *)
(* pending invocations is that of the calls in flight, and Nested: while   *)
(* calls have only nested, the running calls are a chain in which each was *)
(* made by the one before it and will restore the context of that one.     *)
(* A call settles only when it awaits no other, so it is the last of the   *)
(* chain, and what it restores is the context of the one that becomes last *)
(* in its place.                                                           *)
(***************************************************************************)
EXTENDS Invocation, FiniteSetTheorems, SequenceTheorems, TLAPS

(* The call before the i-th of the chain. *)
Before(i) == IF i = 1 THEN NoCall ELSE nest[i - 1]

Nested ==
    calm =>
       /\ active = Innermost
       /\ \A c \in Calls : st[c] = "running" <=> \E i \in 1..Len(nest) : nest[i] = c
       /\ \A i, j \in 1..Len(nest) : nest[i] = nest[j] => i = j
       /\ \A i \in 1..Len(nest) : Parent[nest[i]] = Before(i) /\ prev[nest[i]] = Before(i)

CallInv == TypeOK /\ PendingCountsInFlight /\ Nested

-----------------------------------------------------------------------------
(* The calls in flight are finitely many, so that they can be counted. *)
LEMMA InFlightIsFinite == IsFiniteSet(InFlight)
  BY InvocationAssumption, FS_Subset DEF InFlight

(* One call more, or one less, in flight. *)
LEMMA CountChanges ==
  ASSUME NEW c \in Calls, PendingCountsInFlight
  PROVE  /\ c \notin InFlight => Cardinality(InFlight \cup {c}) = pending + 1
         /\ c \in InFlight => /\ Cardinality(InFlight \ {c}) = pending - 1
                              /\ pending \in Nat /\ pending >= 1
<1>1. IsFiniteSet(InFlight)
  BY InFlightIsFinite
<1>2. c \notin InFlight => Cardinality(InFlight \cup {c}) = pending + 1
  BY <1>1, FS_AddElement DEF PendingCountsInFlight
<1>3. ASSUME c \in InFlight
      PROVE  Cardinality(InFlight \ {c}) = pending - 1 /\ pending \in Nat /\ pending >= 1
  <2>1. Cardinality(InFlight \ {c}) = Cardinality(InFlight) - 1
    BY <1>1, <1>3, FS_RemoveElement
  <2>2. Cardinality(InFlight) \in Nat
    BY <1>1, FS_CardinalityType
  <2>3. Cardinality(InFlight) # 0
    BY <1>1, <1>3, FS_EmptySet
  <2>. QED
    BY <2>1, <2>2, <2>3 DEF PendingCountsInFlight
<1>. QED
  BY <1>2, <1>3

(* The chain after a call has joined it or has left it. *)
LEMMA ChainGrows ==
  ASSUME NEW s \in Seq(Calls), NEW c \in Calls
  PROVE  /\ Append(s, c) \in Seq(Calls)
         /\ Len(Append(s, c)) = Len(s) + 1
         /\ \A i \in 1..Len(s) : Append(s, c)[i] = s[i]
         /\ Append(s, c)[Len(s) + 1] = c
  OBVIOUS

(* The chain of running calls without its last one. *)
LEMMA ChainShrinks ==
  ASSUME NEW s \in Seq(Calls), s # << >>
  PROVE  /\ Len(s) \in Nat /\ Len(s) >= 1
         /\ SubSeq(s, 1, Len(s) - 1) \in Seq(Calls)
         /\ Len(SubSeq(s, 1, Len(s) - 1)) = Len(s) - 1
         /\ \A i \in 1..(Len(s) - 1) : SubSeq(s, 1, Len(s) - 1)[i] = s[i]
<1>1. Len(s) \in Nat /\ Len(s) >= 1
  OBVIOUS
<1>2. \A i \in 1..(Len(s) - 1) : s[i] \in Calls
  BY <1>1
<1>. DEFINE m == 1
            n == Len(s) - 1
<1>3. m \in Int /\ n \in Int /\ \A i \in m..n : s[i] \in Calls
  BY <1>1, <1>2
<1>. HIDE DEF m, n
<1>4. /\ SubSeq(s, m, n) \in Seq(Calls)
      /\ Len(SubSeq(s, m, n)) = IF m <= n THEN n - m + 1 ELSE 0
      /\ \A i \in 1..(n - m + 1) : SubSeq(s, m, n)[i] = s[m + i - 1]
  BY <1>3, SubSeqProperties
<1>5. m = 1 /\ n = Len(s) - 1
  BY DEF m, n
<1>6. \A i \in 1..(Len(s) - 1) : SubSeq(s, m, n)[i] = s[i]
  BY <1>1, <1>4, <1>5
<1>7. SubSeq(s, m, n) \in Seq(Calls) /\ Len(SubSeq(s, m, n)) = Len(s) - 1
  BY <1>1, <1>4, <1>5
<1>8. SubSeq(s, m, n) = SubSeq(s, 1, Len(s) - 1)
  BY <1>5
<1>. QED
  BY <1>1, <1>6, <1>7, <1>8

-----------------------------------------------------------------------------
(* Nothing runs at first and no invocation is counted. *)
LEMMA InitHolds == Init => CallInv
<1>. SUFFICES ASSUME Init PROVE CallInv
  OBVIOUS
<1>1. TypeOK
  <2>1. nest \in Seq(Calls)
    BY DEF Init
  <2>2. /\ resets \in 0..MaxResets
        /\ quiet \in 0..Quiet
        /\ left \in 0..Deadline
    BY InvocationAssumption DEF Init
  <2>. QED
    BY <2>1, <2>2 DEF Init, TypeOK, Layers
<1>2. InFlight = {}
  BY DEF Init, InFlight
<1>3. PendingCountsInFlight
  BY <1>2, FS_EmptySet DEF Init, PendingCountsInFlight
<1>4. Nested
  BY DEF Init, Nested, Innermost
<1>. QED
  BY <1>1, <1>3, <1>4 DEF CallInv

(* Where a call that is not refused is attributed to, and what it sees. *)
LEMMA ModuleOfType ==
  ASSUME TypeOK, NEW c \in Calls
  PROVE  ModuleOf(c) \in Modules \cup {NoModule} /\ Merged(c) \in Layers
<1>1. Request[c] \in Requests
  BY InvocationAssumption
<1>2. ModuleOf(c) \in Modules \cup {NoModule}
  BY <1>1 DEF ModuleOf, Requests, TypeOK
<1>3. Merged(c) \in Layers
  BY DEF Merged, Layers, TypeOK
<1>. QED
  BY <1>2, <1>3

(* Steps that touch neither calls nor contexts keep everything but types. *)
LEMMA AsideStep ==
  ASSUME CallInv, TypeOK', UNCHANGED <<st, contextVars, threw, pending, nestVars>>
  PROVE  CallInv'
<1>1. InFlight' = InFlight
  BY DEF InFlight
<1>2. PendingCountsInFlight'
  BY <1>1 DEF CallInv, PendingCountsInFlight
<1>3. Nested'
  BY DEF CallInv, Nested, Innermost, Before, contextVars, nestVars
<1>. QED
  BY <1>2, <1>3 DEF CallInv

(* A call that is refused or hangs was not running and is not afterwards. *)
LEMMA NothingStarts ==
  ASSUME CallInv, NEW c \in Calls, NEW s \in {"refused", "hung"}, st[c] = "idle",
         st' = [st EXCEPT ![c] = s],
         UNCHANGED <<wiringVars, pageVars, contextVars, threw, pending, nestVars, resets,
                     idleVars>>
  PROVE  CallInv'
<1>1. TypeOK'
  BY DEF CallInv, TypeOK, wiringVars, pageVars, contextVars, nestVars, idleVars
<1>2. \A d \in Calls : st'[d] = IF d = c THEN s ELSE st[d]
  BY DEF CallInv, TypeOK
<1>3. InFlight' = InFlight
  BY <1>2 DEF InFlight
<1>4. PendingCountsInFlight'
  BY <1>3 DEF CallInv, PendingCountsInFlight
<1>5. Nested'
  BY <1>2 DEF CallInv, Nested, Innermost, Before, contextVars, nestVars
<1>. QED
  BY <1>1, <1>4, <1>5 DEF CallInv

(* invoke() of a known key counts the call and puts it at the end of the chain. *)
LEMMA InvokeKeeps ==
  ASSUME CallInv, NEW c \in Calls, Invoke(c)
  PROVE  CallInv'
<1>. TypeOK /\ Nested /\ PendingCountsInFlight
  BY DEF CallInv
<1>1. /\ st[c] = "idle"
      /\ \A d \in Calls : st'[d] = IF d = c THEN "running" ELSE st[d]
      /\ \A d \in Calls : prev'[d] = IF d = c THEN active ELSE prev[d]
  BY DEF Invoke, CanCall, TypeOK
<1>2. nest' \in Seq(Calls) /\ calm' \in BOOLEAN
  BY ChainGrows DEF Invoke, Nest, TypeOK
<1>3. TypeOK'
  BY <1>2, ModuleOfType DEF Invoke, TypeOK, wiringVars, pageVars, idleVars
<1>4. InFlight' = InFlight \cup {c} /\ c \notin InFlight
  BY <1>1 DEF InFlight
<1>5. pending' = Cardinality(InFlight \cup {c})
  BY <1>4, CountChanges DEF Invoke
<1>6. PendingCountsInFlight'
  BY <1>4, <1>5 DEF PendingCountsInFlight
<1>7. ASSUME calm'
      PROVE  /\ active' = Innermost'
             /\ \A d \in Calls : st'[d] = "running" <=> \E i \in 1..Len(nest') : nest'[i] = d
             /\ \A i, j \in 1..Len(nest') : nest'[i] = nest'[j] => i = j
             /\ \A i \in 1..Len(nest') : Parent[nest'[i]] = Before(i)' /\ prev'[nest'[i]] = Before(i)'
  <2>1. calm /\ Innermost = Parent[c] /\ nest' = Append(nest, c)
    BY <1>7 DEF Invoke, Nest
  <2>2. /\ nest \in Seq(Calls) /\ Len(nest) \in Nat
        /\ Len(nest') = Len(nest) + 1
        /\ \A i \in 1..Len(nest) : nest'[i] = nest[i] /\ nest[i] \in Calls
        /\ nest'[Len(nest) + 1] = c
    BY <2>1, ChainGrows DEF TypeOK
  <2>3. \A i \in 1..Len(nest) : nest[i] # c
    BY <1>1, <2>1, <2>2 DEF Nested
  <2>4. active' = Innermost'
    BY <2>1, <2>2 DEF Innermost, Invoke
  <2>5. ASSUME NEW d \in Calls
        PROVE  st'[d] = "running" <=> \E i \in 1..Len(nest') : nest'[i] = d
    <3>1. st[d] = "running" <=> \E i \in 1..Len(nest) : nest[i] = d
      BY <2>1 DEF Nested
    <3>. QED
      BY <1>1, <2>2, <3>1
  <2>6. ASSUME NEW i \in 1..Len(nest'), NEW j \in 1..Len(nest'), nest'[i] = nest'[j]
        PROVE  i = j
    BY <2>1, <2>2, <2>3, <2>6 DEF Nested
  <2>7. ASSUME NEW i \in 1..Len(nest')
        PROVE  Parent[nest'[i]] = Before(i)' /\ prev'[nest'[i]] = Before(i)'
    <3>1. CASE i \in 1..Len(nest)
      <4>1. Before(i)' = Before(i)
        BY <2>2, <3>1 DEF Before
      <4>2. prev'[nest'[i]] = prev[nest[i]]
        BY <1>1, <2>2, <2>3, <3>1
      <4>. QED
        BY <2>1, <2>2, <3>1, <4>1, <4>2 DEF Nested
    <3>2. CASE i = Len(nest) + 1
      <4>1. Before(i)' = Innermost
        BY <2>2, <3>2 DEF Before, Innermost
      <4>2. active = Innermost
        BY <2>1 DEF Nested
      <4>. QED
        BY <1>1, <2>1, <2>2, <3>2, <4>1, <4>2
    <3>. QED
      BY <2>2, <3>1, <3>2
  <2>. QED
    BY <2>4, <2>5, <2>6, <2>7
<1>8. Nested'
  BY <1>7 DEF Nested
<1>. QED
  BY <1>3, <1>6, <1>8 DEF CallInv

(* invoke() of an unknown key throws and leaves nothing behind. *)
LEMMA InvokeMissingKeeps ==
  ASSUME CallInv, NEW c \in Calls, InvokeMissing(c)
  PROVE  CallInv'
<1>. TypeOK /\ Nested /\ PendingCountsInFlight
  BY DEF CallInv
<1>1. st[c] = "idle" /\ \A d \in Calls : st'[d] = IF d = c THEN "unwound" ELSE st[d]
  BY DEF InvokeMissing, CanCall, TypeOK
<1>2. TypeOK'
  BY ModuleOfType DEF InvokeMissing, TypeOK, wiringVars, pageVars, nestVars, idleVars
<1>3. InFlight' = InFlight \cup {c} /\ c \notin InFlight
  BY <1>1 DEF InFlight
<1>4. pending' = Cardinality(InFlight \cup {c})
  BY <1>3, CountChanges DEF InvokeMissing
<1>5. PendingCountsInFlight'
  BY <1>3, <1>4 DEF PendingCountsInFlight
<1>6. Nested'
  BY <1>1 DEF InvokeMissing, Nested, Innermost, Before, nestVars
<1>. QED
  BY <1>2, <1>5, <1>6 DEF CallInv

(* fireWebTrigger() counts the call and leaves the context alone. *)
LEMMA FireWebTriggerKeeps ==
  ASSUME CallInv, NEW c \in Calls, FireWebTrigger(c)
  PROVE  CallInv'
<1>. TypeOK /\ Nested /\ PendingCountsInFlight
  BY DEF CallInv
<1>1. st[c] = "idle" /\ \A d \in Calls : st'[d] = IF d = c THEN "serving" ELSE st[d]
  BY DEF FireWebTrigger, CanCall, TypeOK
<1>2. TypeOK'
  BY DEF FireWebTrigger, TypeOK, wiringVars, pageVars, contextVars, nestVars, idleVars
<1>3. InFlight' = InFlight \cup {c} /\ c \notin InFlight
  BY <1>1 DEF InFlight
<1>4. pending' = Cardinality(InFlight \cup {c})
  BY <1>3, CountChanges DEF FireWebTrigger
<1>5. PendingCountsInFlight'
  BY <1>3, <1>4 DEF PendingCountsInFlight
<1>6. Nested'
  BY <1>1 DEF FireWebTrigger, Nested, Innermost, Before, contextVars, nestVars
<1>. QED
  BY <1>2, <1>5, <1>6 DEF CallInv

(* A web trigger that ends discounts itself. *)
LEMMA WebTriggerEndsKeeps ==
  ASSUME CallInv, NEW c \in Calls, NEW throws \in BOOLEAN, WebTriggerEnds(c, throws)
  PROVE  CallInv'
<1>. TypeOK /\ Nested /\ PendingCountsInFlight
  BY DEF CallInv
<1>1. st[c] = "serving" /\ \A d \in Calls : st'[d] = IF d = c THEN "unwound" ELSE st[d]
  BY DEF WebTriggerEnds, TypeOK
<1>2. TypeOK'
  BY DEF WebTriggerEnds, TypeOK, wiringVars, pageVars, contextVars, nestVars, idleVars
<1>3. InFlight' = InFlight
  BY <1>1 DEF InFlight
<1>4. PendingCountsInFlight'
  BY <1>3 DEF WebTriggerEnds, PendingCountsInFlight
<1>5. Nested'
  BY <1>1 DEF WebTriggerEnds, Nested, Innermost, Before, contextVars, nestVars
<1>. QED
  BY <1>2, <1>4, <1>5 DEF CallInv

(* A handler that settles restores the context of the call before it. *)
LEMMA HandlerEndsKeeps ==
  ASSUME CallInv, NEW c \in Calls, NEW throws \in BOOLEAN, HandlerEnds(c, throws)
  PROVE  CallInv'
<1>. TypeOK /\ Nested /\ PendingCountsInFlight
  BY DEF CallInv
<1>1. st[c] = "running" /\ \A d \in Calls : st'[d] = IF d = c THEN "unwound" ELSE st[d]
  BY DEF HandlerEnds, TypeOK
<1>2. InFlight' = InFlight
  BY <1>1 DEF InFlight
<1>3. PendingCountsInFlight'
  BY <1>2 DEF PendingCountsInFlight, HandlerEnds
<1>4. ASSUME calm
      PROVE  nest # << >> /\ c = nest[Len(nest)]
  <2>1. PICK i \in 1..Len(nest) : nest[i] = c
    BY <1>1, <1>4 DEF Nested
  <2>2. Len(nest) \in Nat /\ \A k \in 1..Len(nest) : nest[k] \in Calls
    BY DEF TypeOK
  <2>3. ASSUME i # Len(nest) PROVE FALSE
    <3>1. i + 1 \in 1..Len(nest)
      BY <2>2, <2>3
    <3>2. nest[i + 1] \in Calls /\ st[nest[i + 1]] = "running"
      BY <1>4, <2>2, <3>1 DEF Nested
    <3>3. Before(i + 1) = nest[i]
      BY <2>2, <3>1 DEF Before
    <3>4. Parent[nest[i + 1]] = c
      BY <1>4, <2>1, <3>1, <3>3 DEF Nested
    <3>. QED
      BY <3>2, <3>4 DEF HandlerEnds, Awaited
  <2>4. nest # << >>
    BY <2>1, <2>2
  <2>. QED
    BY <2>1, <2>3, <2>4
<1>5. nest' \in Seq(Calls)
  <2>1. CASE calm
    <3>1. nest # << >> /\ nest \in Seq(Calls)
      BY <1>4, <2>1 DEF TypeOK
    <3>. QED
      BY <2>1, <3>1, ChainShrinks DEF HandlerEnds, Unnest
  <2>2. CASE ~calm
    BY <2>2 DEF HandlerEnds, Unnest
  <2>. QED
    BY <2>1, <2>2
<1>6. TypeOK'
  BY <1>5 DEF HandlerEnds, Restored, Unnest, TypeOK, wiringVars, pageVars, idleVars
<1>7. ASSUME calm'
      PROVE  /\ active' = Innermost'
             /\ \A d \in Calls : st'[d] = "running" <=> \E i \in 1..Len(nest') : nest'[i] = d
             /\ \A i, j \in 1..Len(nest') : nest'[i] = nest'[j] => i = j
             /\ \A i \in 1..Len(nest') : Parent[nest'[i]] = Before(i)' /\ prev'[nest'[i]] = Before(i)'
  <2>1. calm /\ nest' = SubSeq(nest, 1, Len(nest) - 1)
    BY <1>7 DEF HandlerEnds, Unnest
  <2>2. nest \in Seq(Calls) /\ nest # << >> /\ c = nest[Len(nest)]
    BY <1>4, <2>1 DEF TypeOK
  <2>3. /\ Len(nest) \in Nat /\ Len(nest) >= 1
        /\ Len(nest') = Len(nest) - 1
        /\ \A i \in 1..(Len(nest) - 1) : nest'[i] = nest[i]
        /\ nest' \in Seq(Calls)
    BY <2>1, <2>2, ChainShrinks
  <2>4. /\ \A i, j \in 1..Len(nest) : nest[i] = nest[j] => i = j
        /\ \A i \in 1..Len(nest) : Parent[nest[i]] = Before(i) /\ prev[nest[i]] = Before(i)
    BY <2>1 DEF Nested
  <2>5. active' = Innermost'
    <3>1. active' = Before(Len(nest))
      BY <2>2, <2>3, <2>4 DEF HandlerEnds, Restored
    <3>2. CASE Len(nest) = 1
      <4>1. nest' = << >>
        BY <2>3, <3>2
      <4>. QED
        BY <3>1, <3>2, <4>1 DEF Innermost, Before
    <3>3. CASE Len(nest) # 1
      <4>1. nest' # << >> /\ nest'[Len(nest')] = nest[Len(nest) - 1]
        BY <2>3, <3>3
      <4>. QED
        BY <3>1, <3>3, <4>1 DEF Innermost, Before
    <3>. QED
      BY <3>2, <3>3
  <2>6. ASSUME NEW d \in Calls
        PROVE  st'[d] = "running" <=> \E i \in 1..Len(nest') : nest'[i] = d
    <3>1. st[d] = "running" <=> \E i \in 1..Len(nest) : nest[i] = d
      BY <2>1 DEF Nested
    <3>2. CASE d = c
      <4>1. \A i \in 1..Len(nest') : nest'[i] # c
        BY <2>2, <2>3, <2>4
      <4>. QED
        BY <1>1, <3>2, <4>1
    <3>3. CASE d # c
      BY <1>1, <2>2, <2>3, <3>1, <3>3
    <3>. QED
      BY <3>2, <3>3
  <2>7. ASSUME NEW i \in 1..Len(nest'), NEW j \in 1..Len(nest'), nest'[i] = nest'[j]
        PROVE  i = j
    BY <2>3, <2>4, <2>7
  <2>8. ASSUME NEW i \in 1..Len(nest')
        PROVE  Parent[nest'[i]] = Before(i)' /\ prev'[nest'[i]] = Before(i)'
    <3>1. Before(i)' = Before(i)
      BY <2>3 DEF Before
    <3>2. nest'[i] = nest[i] /\ i \in 1..Len(nest) /\ prev' = prev
      BY <2>3 DEF HandlerEnds
    <3>. QED
      BY <2>4, <3>1, <3>2
  <2>. QED
    BY <2>5, <2>6, <2>7, <2>8
<1>8. Nested'
  BY <1>7 DEF Nested
<1>. QED
  BY <1>3, <1>6, <1>8 DEF CallInv

(* The finally of invoke() discounts the call. *)
LEMMA ReturnKeeps ==
  ASSUME CallInv, NEW c \in Calls, Return(c)
  PROVE  CallInv'
<1>. TypeOK /\ Nested /\ PendingCountsInFlight
  BY DEF CallInv
<1>1. /\ st[c] = "unwound"
      /\ \A d \in Calls : st'[d] = IF d = c THEN "done" ELSE st[d]
      /\ \A d \in Calls : prev'[d] = IF d = c THEN NoCall ELSE prev[d]
  BY DEF Return, TypeOK
<1>2. InFlight' = InFlight \ {c} /\ c \in InFlight
  BY <1>1 DEF InFlight
<1>3. pending' = Cardinality(InFlight \ {c}) /\ pending' \in Nat
  <2>1. Cardinality(InFlight \ {c}) = pending - 1 /\ pending \in Nat /\ pending >= 1
    BY <1>2, CountChanges
  <2>2. pending' = pending - 1
    BY DEF Return, Counted
  <2>. QED
    BY <2>1, <2>2
<1>4. PendingCountsInFlight'
  BY <1>2, <1>3 DEF PendingCountsInFlight
<1>5. TypeOK'
  BY <1>3 DEF Return, TypeOK, wiringVars, pageVars, nestVars, idleVars
<1>6. \A i \in 1..Len(nest) : calm => nest[i] \in Calls /\ nest[i] # c
  BY <1>1 DEF TypeOK, Nested
<1>7. Nested'
  BY <1>1, <1>6 DEF Return, Nested, Innermost, Before, nestVars
<1>. QED
  BY <1>4, <1>5, <1>7 DEF CallInv

(* reset() with a call running voids the chain; at rest it starts it anew. *)
LEMMA ResetKeeps ==
  ASSUME CallInv, Reset
  PROVE  CallInv'
<1>. TypeOK /\ PendingCountsInFlight
  BY DEF CallInv
<1>1. TypeOK'
  <2>1. resets' \in 0..MaxResets
    BY InvocationAssumption DEF Reset, Forget, TypeOK
  <2>2. calm' \in BOOLEAN /\ tidy' \in BOOLEAN
    BY Zenon DEF Reset, Forget
  <2>3. nest' \in Seq(Calls)
    BY DEF Reset, Forget
  <2>. QED
    BY <2>1, <2>2, <2>3 DEF Reset, Forget, ResetPage, TypeOK, idleVars
<1>2. InFlight' = InFlight
  BY DEF Reset, Forget, InFlight
<1>3. PendingCountsInFlight'
  BY <1>2 DEF Reset, PendingCountsInFlight
<1>4. ASSUME calm'
      PROVE  /\ active' = Innermost'
             /\ \A d \in Calls : st'[d] # "running"
             /\ Len(nest') = 0
  <2>1. Running = {} /\ nest' = << >> /\ active' = NoCall /\ st' = st
    BY <1>4 DEF Reset, Forget
  <2>. QED
    BY <2>1 DEF Running, Innermost
<1>5. Nested'
  BY <1>4 DEF Nested
<1>. QED
  BY <1>1, <1>3, <1>5 DEF CallInv

(* Every step of a call keeps the invariant. *)
LEMMA CallKeeps ==
  ASSUME CallInv, NEW c \in Calls, Call(c)
  PROVE  CallInv'
<1>1. CASE Invoke(c)
  BY <1>1, InvokeKeeps
<1>2. CASE InvokeMissing(c)
  BY <1>2, InvokeMissingKeeps
<1>3. CASE Refuse(c)
  BY <1>3, NothingStarts DEF Refuse, CanCall
<1>4. CASE Hang(c)
  BY <1>4, NothingStarts DEF Hang, CanCall
<1>5. ASSUME NEW throws \in BOOLEAN, HandlerEnds(c, throws) PROVE CallInv'
  BY <1>5, HandlerEndsKeeps
<1>6. CASE Return(c)
  BY <1>6, ReturnKeeps
<1>7. CASE FireWebTrigger(c)
  BY <1>7, FireWebTriggerKeeps
<1>8. ASSUME NEW throws \in BOOLEAN, WebTriggerEnds(c, throws) PROVE CallInv'
  BY <1>8, WebTriggerEndsKeeps
<1>. QED
  BY <1>1, <1>2, <1>3, <1>4, <1>5, <1>6, <1>7, <1>8 DEF Call

(* Every step keeps the invariant. *)
LEMMA NextKeeps == CallInv /\ [Next]_vars => CallInv'
<1>. SUFFICES ASSUME CallInv, [Next]_vars PROVE CallInv'
  OBVIOUS
<1>. TypeOK
  BY DEF CallInv
<1>1. ASSUME NEW k \in Keys, Define(k) PROVE CallInv'
  <2>1. TypeOK'
    BY <1>1 DEF Define, TypeOK, pageVars, contextVars, nestVars, idleVars
  <2>. QED
    BY <1>1, <2>1, AsideStep DEF Define
<1>2. CASE Wire
  <2>1. TypeOK'
    BY <1>2 DEF Wire, TypeOK, pageVars, contextVars, nestVars, idleVars
  <2>. QED
    BY <1>2, <2>1, AsideStep DEF Wire
<1>3. CASE Reset
  BY <1>3, ResetKeeps
<1>4. ASSUME NEW m \in Modules, RenderBegins(m) \/ RenderSets(m) \/ RenderFails(m)
      PROVE  CallInv'
  <2>1. CASE RenderBegins(m)
    <3>1. TypeOK'
      BY <2>1 DEF RenderBegins, TypeOK, wiringVars, contextVars, nestVars, idleVars
    <3>. QED
      BY <2>1, <3>1, AsideStep DEF RenderBegins
  <2>2. CASE RenderSets(m)
    <3>1. TypeOK'
      BY <2>2 DEF RenderSets, TypeOK, wiringVars, contextVars, nestVars, idleVars
    <3>. QED
      BY <2>2, <3>1, AsideStep DEF RenderSets
  <2>3. CASE RenderFails(m)
    <3>1. TypeOK'
      BY <2>3 DEF RenderFails, TypeOK, wiringVars, contextVars, nestVars, idleVars
    <3>. QED
      BY <2>3, <3>1, AsideStep DEF RenderFails
  <2>. QED
    BY <1>4, <2>1, <2>2, <2>3
<1>5. ASSUME NEW c \in Calls, Call(c) PROVE CallInv'
  BY <1>5, CallKeeps
<1>6. CASE Stop
  <2>1. TypeOK'
    BY <1>6 DEF Stop, TypeOK, wiringVars, pageVars, contextVars, nestVars
  <2>. QED
    BY <1>6, <2>1, AsideStep DEF Stop
<1>7. CASE Poll
  <2>1. quiet' \in 0..Quiet /\ left' \in 0..Deadline
    BY <1>7, InvocationAssumption DEF Poll, TypeOK, Expired
  <2>2. TypeOK'
    BY <1>7, <2>1 DEF Poll, TypeOK, wiringVars, pageVars, contextVars, nestVars
  <2>. QED
    BY <1>7, <2>2, AsideStep DEF Poll
<1>8. CASE StopServices
  <2>1. TypeOK'
    BY <1>8 DEF StopServices, TypeOK, wiringVars, pageVars, contextVars, nestVars
  <2>. QED
    BY <1>8, <2>1, AsideStep DEF StopServices
<1>9. CASE UNCHANGED vars
  <2>1. TypeOK'
    BY <1>9 DEF vars, TypeOK, wiringVars, pageVars, contextVars, nestVars, idleVars
  <2>. QED
    BY <1>9, <2>1, AsideStep DEF vars
<1>. QED
  BY <1>1, <1>2, <1>3, <1>4, <1>5, <1>6, <1>7, <1>8, <1>9 DEF Next

-----------------------------------------------------------------------------
(* In every reachable state the count is exact and, while calm, the running calls
   form a chain whose last one is the active one. *)
THEOREM CallInvariant == Spec => []CallInv
  BY InitHolds, NextKeeps, PTL DEF Spec

(* Whatever is invoked, rendered, reset and stopped, the state of the simulator
   and of the invocations keeps its types; the count never goes below zero. *)
THEOREM TypeCorrect == Spec => []TypeOK
<1>1. CallInv => TypeOK
  BY DEF CallInv
<1>. QED
  BY <1>1, CallInvariant, PTL

(* stop() can rely on pendingInvokes: it is the number of invocations in flight
   at any time, resets and handlers that throw included. *)
THEOREM PendingIsExact == Spec => []PendingCountsInFlight
<1>1. CallInv => PendingCountsInFlight
  BY DEF CallInv
<1>. QED
  BY <1>1, CallInvariant, PTL

(* As long as calls only nest, to any depth, the active context is that of the
   innermost call, and null when none runs. *)
THEOREM ActiveContextIsOwn == Spec => []InvocationSeesItself
<1>1. CallInv => InvocationSeesItself
  BY DEF CallInv, Nested, InvocationSeesItself
<1>. QED
  BY <1>1, CallInvariant, PTL

-----------------------------------------------------------------------------
(* A call of a page whose key is its module's own, or nobody's. *)
OfItsPage(c) ==
    LET r == Request[c] IN
    /\ r.scope # NoModule /\ r.module \in {NoModule, r.scope}
    /\ Owner[r.key] \in {NoResolver, Route[r.scope]}

(* Such a call keeps the module it was attributed to. *)
AttributedRight == \A c \in Calls : st[c] = "running" /\ OfItsPage(c) => who[c] = Request[c].scope

(* While renders are tidy, at most one is under way, and it is the active module's. *)
OneRender ==
    tidy => IF rendering = {} THEN overlay = activeModule ELSE rendering = {activeModule}

(* The page that such a call is attributed to. *)
LEMMA OwnModule ==
  ASSUME NEW c \in Calls, OfItsPage(c)
  PROVE  ModuleOf(c) = Request[c].scope
<1>1. Request[c] \in Requests
  BY InvocationAssumption
<1>. DEFINE r == Request[c]
            users == {m \in Modules : wired /\ Route[m] = Owner[r.key]}
<1>2. r.scope \in Modules /\ r.key \in Keys
  BY <1>1 DEF Requests, OfItsPage
<1>3. ASSUME OwnerOf(r.key) # NoResolver PROVE r.scope \in users
  BY <1>2, <1>3 DEF OwnerOf, OfItsPage
<1>4. ASSUME OwnerOf(r.key) # NoResolver, NEW m \in users, users = {m}
      PROVE  (CHOOSE x \in users : TRUE) = r.scope
  BY <1>3, <1>4
<1>. QED
  BY <1>4 DEF ModuleOf, OfItsPage

(* Every step keeps running calls attributed to their page. *)
LEMMA AttributionKept == TypeOK /\ AttributedRight /\ [Next]_vars => AttributedRight'
<1>. SUFFICES ASSUME TypeOK, AttributedRight, [Next]_vars PROVE AttributedRight'
  OBVIOUS
<1>1. ASSUME NEW c \in Calls, Invoke(c) PROVE AttributedRight'
  <2>1. ASSUME NEW d \in Calls, d # c PROVE st'[d] = st[d] /\ who'[d] = who[d]
    BY <1>1, <2>1 DEF Invoke, TypeOK
  <2>2. OfItsPage(c) => who'[c] = Request[c].scope
    BY <1>1, OwnModule DEF Invoke, TypeOK
  <2>. QED
    BY <2>1, <2>2 DEF AttributedRight, OfItsPage
<1>2. ASSUME NEW c \in Calls, InvokeMissing(c) \/ Return(c) PROVE AttributedRight'
  <2>1. ASSUME NEW d \in Calls, d # c PROVE st'[d] = st[d] /\ who'[d] = who[d]
    BY <1>2, <2>1 DEF InvokeMissing, Return, TypeOK
  <2>2. st'[c] # "running"
    BY <1>2 DEF InvokeMissing, Return, TypeOK
  <2>. QED
    BY <2>1, <2>2 DEF AttributedRight, OfItsPage
<1>3. ASSUME UNCHANGED who, \A d \in Calls : st'[d] = "running" => st[d] = "running"
      PROVE  AttributedRight'
  BY <1>3 DEF AttributedRight, OfItsPage
<1>4. ASSUME NEW c \in Calls, Call(c) PROVE AttributedRight'
  <2>1. CASE Refuse(c) \/ Hang(c) \/ FireWebTrigger(c)
    BY <1>3, <2>1 DEF Refuse, Hang, FireWebTrigger, TypeOK, contextVars
  <2>2. ASSUME NEW throws \in BOOLEAN, HandlerEnds(c, throws) \/ WebTriggerEnds(c, throws)
        PROVE  AttributedRight'
    BY <1>3, <2>2 DEF HandlerEnds, WebTriggerEnds, TypeOK, contextVars
  <2>. QED
    BY <1>1, <1>2, <1>4, <2>1, <2>2 DEF Call
<1>5. CASE UNCHANGED <<st, contextVars>>
  BY <1>3, <1>5 DEF contextVars
<1>6. CASE \/ \E k \in Keys : Define(k)
           \/ Wire
           \/ \E m \in Modules : RenderBegins(m) \/ RenderSets(m) \/ RenderFails(m)
           \/ Stop \/ Poll \/ StopServices
           \/ UNCHANGED vars
  BY <1>5, <1>6 DEF Define, Wire, RenderBegins, RenderSets, RenderFails, Stop, Poll,
     StopServices, vars
<1>7. CASE Reset
  BY <1>3, <1>7 DEF Reset, Forget
<1>. QED
  BY <1>4, <1>6, <1>7 DEF Next

(* Every step keeps renders one by one, while they are tidy. *)
LEMMA OneRenderKept == TypeOK /\ OneRender /\ [Next]_vars => OneRender'
<1>. SUFFICES ASSUME TypeOK, OneRender, [Next]_vars PROVE OneRender'
  OBVIOUS
<1>1. CASE UNCHANGED pageVars
  BY <1>1 DEF pageVars, OneRender
<1>2. ASSUME NEW m \in Modules, RenderBegins(m) PROVE OneRender'
  BY <1>2 DEF RenderBegins, OneRender
<1>3. ASSUME NEW m \in Modules, RenderSets(m) PROVE OneRender'
  BY <1>3 DEF RenderSets, OneRender
<1>4. ASSUME NEW m \in Modules, RenderFails(m) PROVE OneRender'
  BY <1>4 DEF RenderFails, OneRender
<1>5. CASE Reset
  BY <1>5 DEF Reset, Forget, ResetPage, OneRender
<1>6. ASSUME NEW c \in Calls, Call(c) PROVE OneRender'
  BY <1>1, <1>6 DEF Call, Invoke, InvokeMissing, Refuse, Hang, FireWebTrigger, HandlerEnds,
     WebTriggerEnds, Return
<1>7. CASE (\E k \in Keys : Define(k)) \/ Wire \/ Stop \/ Poll \/ StopServices \/ UNCHANGED vars
  BY <1>1, <1>7 DEF Define, Wire, Stop, Poll, StopServices, vars
<1>. QED
  BY <1>2, <1>3, <1>4, <1>5, <1>6, <1>7 DEF Next

(* The channel a handler publishes to and the view it is given are those of the page that
   asked, for any modules, renders, resets and depth of nesting. *)
THEOREM PagesAreTheirOwn == Spec => []PagesSeeTheirOwn
<1>1. Init => AttributedRight /\ OneRender
  BY DEF Init, AttributedRight, OneRender
<1>2. CallInv /\ AttributedRight /\ OneRender => PagesSeeTheirOwn
  <2>. SUFFICES ASSUME CallInv, AttributedRight, OneRender PROVE PagesSeeTheirOwn
    OBVIOUS
  <2>1. ViewMatchesModule
    BY DEF OneRender, ViewMatchesModule
  <2>2. ASSUME NEW c \in Calls, calm, st[c] = "running", c = Innermost, OfItsPage(c),
               ctx[c] = Request[c].scope
        PROVE  PublishKey(c) = <<Request[c].scope, Request[c].scope>>
    <3>1. who[c] = Request[c].scope
      BY <2>2 DEF AttributedRight
    <3>2. active = c /\ c # NoCall
      BY <2>2, InvocationAssumption DEF CallInv, Nested
    <3>. QED
      BY <2>2, <3>1, <3>2 DEF PublishKey
  <2>3. PublishReachesOwnPage
    BY <2>2 DEF PublishReachesOwnPage, OfItsPage
  <2>. QED
    BY <2>1, <2>3 DEF PagesSeeTheirOwn
<1>. QED
  BY <1>1, <1>2, CallInvariant, TypeCorrect, AttributionKept, OneRenderKept, PTL DEF Spec

(* One step of DrainsBeforeStopping. *)
DrainsFirst == (phase = "polling" /\ phase' = "drained") => InFlight = {}

(* stop() goes on to its services with no invocation in flight, unless its time is up: for
   any number of calls, resets and polls. *)
THEOREM StopsDrained == Spec => DrainsBeforeStopping
<1>1. ASSUME CallInv, [Next]_vars PROVE DrainsFirst
  <2>. SUFFICES ASSUME phase = "polling", phase' = "drained" PROVE InFlight = {}
    BY DEF DrainsFirst
  <2>1. Poll
    BY <1>1 DEF Next, Call, Invoke, InvokeMissing, Refuse, Hang, FireWebTrigger, HandlerEnds,
       WebTriggerEnds, Return, Define, Wire, Reset, Forget, RenderBegins, RenderSets,
       RenderFails, Stop, StopServices, idleVars, vars
  <2>2. pending = 0
    BY <2>1 DEF Poll
  <2>. QED
    BY <1>1, <2>2, InFlightIsFinite, FS_EmptySet DEF CallInv, PendingCountsInFlight
<1>2. CallInv /\ [Next]_vars => [DrainsFirst]_vars
  BY <1>1
<1>. QED
  BY <1>2, CallInvariant, PTL DEF Spec, DrainsBeforeStopping, DrainsFirst

=============================================================================
