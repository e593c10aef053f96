---------------------------- MODULE RuntimeProofs ----------------------------
(***************************************************************************)
(* Theorems about the parts of Runtime - its storage, console, products,   *)
(* web triggers, routing, forms, histories and windows - for any calls,    *)
(* keys, scopes, hooks, ..., and about the runtime they make up.           *)
(***************************************************************************)
EXTENDS Runtime, PlatformProofs, FiniteSetTheorems, SequenceTheorems, TLAPS

-----------------------------------------------------------------------------
(* Storage (KVStore) *)

(* What a request asks for is a sequence of items. *)
LEMMA ItemsAreItems ==
    ASSUME NEW c \in Calls
    PROVE  /\ Request[c].items \in Seq(Items)
           /\ Len(Request[c].items) \in Nat
           /\ \A i \in 1..Len(Request[c].items) : Request[c].items[i] \in Items
           /\ ItemsOf[c] \subseteq Items
           /\ SlotsOf(ItemsOf[c]) \subseteq Slots
           /\ Request[c].deletes \subseteq Slots
PROOF
  <1>1. Request[c].items \in Seq(Items)
    BY StoreAssumption
  <1>2. /\ Len(Request[c].items) \in Nat
        /\ \A i \in 1..Len(Request[c].items) : Request[c].items[i] \in Items
    BY <1>1
  <1>3. ItemsOf[c] \subseteq Items
    BY <1>2 DEF ItemsOf
  <1>4. SlotsOf(ItemsOf[c]) \subseteq Slots
    BY <1>3 DEF SlotsOf, Items
  <1>5. Request[c].deletes \subseteq Slots
    BY StoreAssumption
  <1> QED BY <1>1, <1>2, <1>3, <1>4, <1>5

(* The call of a single item has one. *)
LEMMA SingleItem ==
    ASSUME NEW c \in Calls,
           Request[c].op \in {"set", "secretSet", "entitySet", "wireSet"}
    PROVE  /\ Request[c].items[1] \in Items
           /\ ItemsOf[c] = {Request[c].items[1]}
PROOF
  <1>1. Len(Request[c].items) = 1
    BY StoreAssumption
  <1> QED BY <1>1, ItemsAreItems DEF ItemsOf

(* No entry is mistaken for none. *)
LEMMA AbsentIsNoEntry == Absent \notin Entries
BY StoreAssumption DEF Entries

StoreType == store \in [Slots -> Entries \cup {Absent}]

(* What a write path makes is an entry. *)
LEMMA EntryIsEntry ==
    ASSUME TypeOK, NEW item \in Items, NEW hasTtl \in BOOLEAN
    PROVE  /\ Entry(item, hasTtl) \in Entries
           /\ store[item.slot] # Absent =>
                 Entry(item, hasTtl).createdAt = store[item.slot].createdAt
PROOF
  <1>1. item.slot \in Slots /\ item.value \in Values /\ item.ttl \in BOOLEAN
    BY DEF Items
  <1>2. store[item.slot] \in Entries \cup {Absent} /\ clock \in Nat
    BY <1>1 DEF TypeOK
  <1>3. store[item.slot] # Absent =>
           store[item.slot].createdAt \in Nat /\ store[item.slot].expires \in BOOLEAN
    BY <1>2 DEF Entries
  <1>4. Entry(item, hasTtl).createdAt \in Nat
    BY <1>2, <1>3 DEF Entry
  <1>5. Entry(item, hasTtl).expires \in BOOLEAN
    BY <1>1, <1>3 DEF Entry
  <1> QED BY <1>1, <1>2, <1>4, <1>5 DEF Entry, Entries

(* What Put() does to a slot. *)
LEMMA PutSlots ==
    ASSUME TypeOK, NEW S \in SUBSET Items, NEW hasTtl \in BOOLEAN, Put(S, hasTtl)
    PROVE  /\ StoreType'
           /\ \A s \in Slots :
                 IF s \in SlotsOf(S)
                 THEN /\ store'[s] # Absent
                      /\ store[s] # Absent => store'[s].createdAt = store[s].createdAt
                 ELSE store'[s] = store[s]
PROOF
  <1>1. ASSUME NEW s \in Slots, s \in SlotsOf(S)
        PROVE  /\ store'[s] \in Entries
               /\ store[s] # Absent => store'[s].createdAt = store[s].createdAt
    <2> DEFINE x == CHOOSE y \in S : y.slot = s
    <2>1. \E y \in S : y.slot = s
      BY <1>1 DEF SlotsOf
    <2>2. x \in S /\ x.slot = s
      BY <2>1
    <2>3. store'[s] = Entry(x, hasTtl)
      BY <1>1 DEF Put
    <2> HIDE DEF x
    <2> QED BY <2>2, <2>3, EntryIsEntry
  <1>2. ASSUME NEW s \in Slots, s \notin SlotsOf(S)
        PROVE  store'[s] = store[s]
    BY <1>2 DEF Put
  <1>3. store' = [s \in Slots |-> store'[s]]
    BY DEF Put
  <1>4. \A s \in Slots : store'[s] \in Entries \cup {Absent}
    BY <1>1, <1>2 DEF TypeOK
  <1> QED BY <1>1, <1>2, <1>3, <1>4, AbsentIsNoEntry DEF StoreType

(* Erasing touches one slot. *)
LEMMA EraseSlots ==
    ASSUME TypeOK, NEW S, Erase(S)
    PROVE  /\ StoreType'
           /\ \A s \in Slots : store'[s] = IF s \in S THEN Absent ELSE store[s]
BY DEF Erase, TypeOK, StoreType

(* A committed transaction touches only slots that it sets or deletes. *)
LEMMA CommitSlots ==
    ASSUME TypeOK, NEW c \in Calls, Commit(c)
    PROVE  /\ StoreType'
           /\ \A s \in Slots :
                 CASE s \in Request[c].deletes -> store'[s] = Absent
                   [] s \in SlotsOf(ItemsOf[c]) \ Request[c].deletes ->
                        /\ store'[s] # Absent
                        /\ store[s] # Absent => store'[s].createdAt = store[s].createdAt
                   [] OTHER -> store'[s] = store[s]
PROOF
  <1>1. ASSUME NEW s \in Slots, s \in SlotsOf(ItemsOf[c]) \ Request[c].deletes
        PROVE  /\ store'[s] \in Entries
               /\ store[s] # Absent => store'[s].createdAt = store[s].createdAt
    <2> DEFINE x == CHOOSE y \in ItemsOf[c] : y.slot = s
    <2>1. \E y \in ItemsOf[c] : y.slot = s
      BY <1>1 DEF SlotsOf
    <2>2. x \in ItemsOf[c] /\ x.slot = s
      BY <2>1
    <2>3. store'[s] = Entry(x, TRUE)
      BY <1>1 DEF Commit
    <2>4. x \in Items
      BY <2>2, ItemsAreItems
    <2> HIDE DEF x
    <2> QED BY <2>2, <2>3, <2>4, EntryIsEntry
  <1>2. ASSUME NEW s \in Slots, s \in Request[c].deletes
        PROVE  store'[s] = Absent
    BY <1>2 DEF Commit
  <1>3. ASSUME NEW s \in Slots, s \notin Request[c].deletes, s \notin SlotsOf(ItemsOf[c])
        PROVE  store'[s] = store[s]
    BY <1>3 DEF Commit
  <1>4. store' = [s \in Slots |-> store'[s]]
    BY DEF Commit
  <1>5. \A s \in Slots : store'[s] \in Entries \cup {Absent}
    BY <1>1, <1>2, <1>3 DEF TypeOK
  <1>6. StoreType'
    BY <1>4, <1>5 DEF StoreType
  <1> QED BY <1>1, <1>2, <1>3, <1>6, AbsentIsNoEntry

(* The wire transaction spares what it may not remove, creation times included. *)
LEMMA LegacySlots ==
    ASSUME TypeOK, NEW c \in Calls, Legacy(c)
    PROVE  /\ StoreType'
           /\ \A s \in Slots :
                 s \notin MayRemove[c] =>
                    /\ store[s] # Absent => store'[s] # Absent
                    /\ \/ store[s] = Absent \/ store'[s] = Absent
                       \/ store'[s].createdAt = store[s].createdAt
PROOF
  <1> DEFINE actions == Request[c].actions
             On(s) == {i \in 1..Len(actions) : actions[i].slot = s}
             LastOn(s) == CHOOSE i \in On(s) : \A j \in On(s) : j <= i
             Renewed(s) == store[s] = Absent \/ \E i \in On(s) : actions[i].type = "delete"
             New(s) == [value     |-> actions[LastOn(s)].value,
                        createdAt |-> IF Renewed(s) THEN clock ELSE store[s].createdAt,
                        updatedAt |-> clock,
                        expires   |-> FALSE]
  <1>1. store' = [s \in Slots |->
                    CASE On(s) = {} -> store[s]
                      [] On(s) # {} /\ actions[LastOn(s)].type = "delete" -> Absent
                      [] OTHER -> New(s)]
    BY DEF Legacy
  <1>2. actions \in Seq(Actions)
    BY StoreAssumption
  <1>3. ASSUME NEW s \in Slots, On(s) # {}
        PROVE  /\ LastOn(s) \in On(s)
               /\ LastOn(s) \in 1..Len(actions)
               /\ actions[LastOn(s)] \in Actions
    <2>1. Len(actions) \in Nat /\ On(s) \in SUBSET (1..Len(actions))
      BY <1>2
    <2>2. LastOn(s) \in On(s)
      <3> HIDE DEF On
      <3>1. \E i \in On(s) : \A j \in On(s) : j <= i
        BY <1>3, <2>1, LastPlace
      <3> QED BY <3>1
    <2> HIDE DEF LastOn, On
    <2> QED BY <1>2, <2>1, <2>2
  <1>4. ASSUME NEW s \in Slots, On(s) # {}
        PROVE  New(s) \in Entries
    <2>1. actions[LastOn(s)].value \in Values
      BY <1>3, <1>4 DEF Actions
    <2>2. clock \in Nat /\ (store[s] # Absent => store[s].createdAt \in Nat)
      BY DEF TypeOK, Entries
    <2>3. (IF Renewed(s) THEN clock ELSE store[s].createdAt) \in Nat
      BY <2>2
    <2> HIDE DEF LastOn, Renewed
    <2> QED BY <2>1, <2>2, <2>3 DEF Entries
  <1>5. ASSUME NEW s \in Slots
        PROVE  /\ store'[s] \in Entries \cup {Absent}
               /\ store'[s] = Absent /\ store[s] # Absent =>
                     On(s) # {} /\ actions[LastOn(s)].type = "delete"
               /\ \/ store[s] = Absent \/ store'[s] = Absent \/ Renewed(s)
                  \/ store'[s].createdAt = store[s].createdAt
    <2> HIDE DEF New, On, LastOn
    <2>1. store[s] \in Entries \cup {Absent}
      BY DEF TypeOK
    <2>2. On(s) = {} => store'[s] = store[s]
      BY <1>1
    <2>3. On(s) # {} /\ actions[LastOn(s)].type = "delete" => store'[s] = Absent
      BY <1>1
    <2>4. On(s) # {} /\ actions[LastOn(s)].type # "delete" => store'[s] = New(s)
      BY <1>1
    <2>5. ~Renewed(s) => New(s).createdAt = store[s].createdAt
      BY DEF New
    <2> HIDE DEF Renewed
    <2> QED BY <1>4, <2>1, <2>2, <2>3, <2>4, <2>5, AbsentIsNoEntry
  <1>6. StoreType'
    <2>1. store' = [s \in Slots |-> store'[s]]
      BY <1>1
    <2> QED BY <1>5, <2>1 DEF StoreType
  <1>7. ASSUME NEW s \in Slots, On(s) # {}, actions[LastOn(s)].type = "delete"
        PROVE  s \in MayRemove[c]
    <2>1. LastOn(s) \in On(s)
      BY <1>3, <1>7
    <2>2. actions[LastOn(s)].slot = s
      BY <2>1
    <2>3. LastOn(s) \in {h \in 1..Len(Request[c].actions) : Request[c].actions[h].type = "delete"}
      BY <1>3, <1>7
    <2> HIDE DEF LastOn
    <2> QED BY <2>2, <2>3 DEF MayRemove
  <1>8. ASSUME NEW s \in Slots, s \notin MayRemove[c], store[s] # Absent
        PROVE  ~Renewed(s)
    BY <1>8 DEF MayRemove
  <1> HIDE DEF On, LastOn, New, Renewed
  <1> QED BY <1>5, <1>6, <1>7, <1>8

-----------------------------------------------------------------------------
(* What a step of a call does.                                              *)

(* Call c moves on: it removes only what it may remove, and only on success;
   it succeeds only if the slots it claims were empty, and takes them; it keeps
   createdAt, unless it is an old wire transaction; only setMany() counts. *)
MovesOn(c) ==
    /\ at[c] \in {"idle", "delayed"}
    /\ \E r \in Progress : at' = [at EXCEPT ![c] = r]
    /\ UNCHANGED <<schemas, clock, wiped>>
    /\ \A d \in Calls : next'[d] # next[d] => Request[d].op = "setMany"
    /\ \A s \in Slots :
          store[s] # Absent /\ store'[s] = Absent => at'[c] = "ok" /\ s \in MayRemove[c]
    /\ at'[c] = "ok" => \A s \in Claims[c] : store[s] = Absent /\ store'[s] # Absent
    /\ \A s \in Slots :
          \/ store[s] = Absent
          \/ store'[s] = Absent
          \/ store'[s].createdAt = store[s].createdAt
          \/ at'[c] = "ok" /\ Request[c].op = "legacy" /\ s \in MayRemove[c]

(* Only a transaction and the wire set claim slots. *)
LEMMA NoClaims ==
    ASSUME NEW c \in Calls, Request[c].op \notin {"transaction", "wireSet"}
    PROVE  Claims[c] = {}
BY DEF Claims

(* A request claims only slots of its items. *)
LEMMA ClaimsAreItems ==
    ASSUME NEW c \in Calls
    PROVE  Claims[c] \subseteq SlotsOf(ItemsOf[c])
BY DEF Claims

(* A request that deletes a slot is one that may free it. *)
LEMMA DeletesMayRemove ==
    ASSUME NEW c \in Calls
    PROVE  /\ Request[c].deletes \subseteq MayRemove[c]
           /\ Request[c].op = "batchDelete" => SlotsOf(ItemsOf[c]) \subseteq MayRemove[c]
BY DEF MayRemove

(* An answer is given to one call, the others keep theirs. *)
LEMMA AnswerMoves ==
    ASSUME TypeOK, NEW c \in Calls, NEW r \in Progress, Answer(c, r)
    PROVE  /\ at' \in [Calls -> Progress]
           /\ at'[c] = r
           /\ \E q \in Progress : at' = [at EXCEPT ![c] = q]
           /\ UNCHANGED <<schemas, clock, wiped>>
BY DEF Answer, TypeOK

(* A refused call leaves the store as it is. *)
LEMMA RejectMoves ==
    ASSUME TypeOK, NEW c \in Calls, at[c] \in {"idle", "delayed"}, Reject(c)
    PROVE  TypeOK' /\ MovesOn(c)
PROOF
  <1>1. "rejected" \in Progress
    BY DEF Progress
  <1>2. Answer(c, "rejected") /\ UNCHANGED <<store, next, failed>>
    BY DEF Reject
  <1>3. /\ at' \in [Calls -> Progress] /\ at'[c] = "rejected"
        /\ \E q \in Progress : at' = [at EXCEPT ![c] = q]
        /\ UNCHANGED <<schemas, clock, wiped>>
    BY <1>1, <1>2, AnswerMoves
  <1>4. TypeOK'
    BY <1>2, <1>3 DEF TypeOK
  <1> QED BY <1>2, <1>3, <1>4 DEF MovesOn

(* Putting items is a move of one call. *)
LEMMA PutMoves ==
    ASSUME TypeOK, NEW c \in Calls, at[c] \in {"idle", "delayed"},
           NEW S \in SUBSET Items, NEW hasTtl \in BOOLEAN, Put(S, hasTtl),
           Answer(c, "ok"),
           \A s \in Claims[c] : store[s] = Absent /\ s \in SlotsOf(S),
           next' = next,
           failed' \in [Calls -> SUBSET Slots]
    PROVE  TypeOK' /\ MovesOn(c)
PROOF
  <1>1. "ok" \in Progress
    BY DEF Progress
  <1>2. /\ at' \in [Calls -> Progress] /\ at'[c] = "ok"
        /\ \E q \in Progress : at' = [at EXCEPT ![c] = q]
        /\ UNCHANGED <<schemas, clock, wiped>>
    BY <1>1, AnswerMoves
  <1>3. /\ StoreType'
        /\ \A s \in Slots :
              IF s \in SlotsOf(S)
              THEN /\ store'[s] # Absent
                   /\ store[s] # Absent => store'[s].createdAt = store[s].createdAt
              ELSE store'[s] = store[s]
    BY PutSlots
  <1>4. TypeOK'
    BY <1>2, <1>3 DEF TypeOK, StoreType
  <1>5. Claims[c] \subseteq Slots
    BY ClaimsAreItems, ItemsAreItems
  <1> QED BY <1>2, <1>3, <1>4, <1>5 DEF MovesOn

(* Erasing slots is a move of one call. *)
LEMMA EraseMoves ==
    ASSUME TypeOK, NEW c \in Calls, at[c] \in {"idle", "delayed"},
           NEW S \in SUBSET MayRemove[c], Erase(S),
           Answer(c, "ok"),
           Request[c].op \notin {"transaction", "wireSet"},
           next' = next,
           failed' \in [Calls -> SUBSET Slots]
    PROVE  TypeOK' /\ MovesOn(c)
PROOF
  <1>1. "ok" \in Progress
    BY DEF Progress
  <1>2. /\ at' \in [Calls -> Progress] /\ at'[c] = "ok"
        /\ \E q \in Progress : at' = [at EXCEPT ![c] = q]
        /\ UNCHANGED <<schemas, clock, wiped>>
    BY <1>1, AnswerMoves
  <1>3. /\ StoreType'
        /\ \A s \in Slots : store'[s] = IF s \in S THEN Absent ELSE store[s]
    BY EraseSlots
  <1>4. TypeOK'
    BY <1>2, <1>3 DEF TypeOK, StoreType
  <1>5. Claims[c] = {}
    BY NoClaims
  <1> QED BY <1>2, <1>3, <1>4, <1>5 DEF MovesOn

(* The calls of one item. *)
LEMMA SingleWrites ==
    ASSUME TypeOK, NEW c \in Calls, Set(c) \/ SecretSet(c) \/ EntitySet(c)
    PROVE  TypeOK' /\ MovesOn(c)
PROOF
  <1>1. /\ at[c] \in {"idle", "delayed"}
        /\ Request[c].op \in {"set", "secretSet", "entitySet"}
        /\ \/ Reject(c)
           \/ /\ Put({Request[c].items[1]}, FALSE)
              /\ Answer(c, "ok")
              /\ UNCHANGED <<next, failed>>
    BY DEF Set, SecretSet, EntitySet, After, Now
  <1>2. CASE Reject(c)
    BY <1>1, <1>2, RejectMoves
  <1>3. CASE Put({Request[c].items[1]}, FALSE) /\ Answer(c, "ok") /\ UNCHANGED <<next, failed>>
    <2>1. {Request[c].items[1]} \in SUBSET Items
      BY <1>1, SingleItem
    <2>2. Claims[c] = {}
      BY <1>1, NoClaims
    <2>3. failed' \in [Calls -> SUBSET Slots]
      BY <1>3 DEF TypeOK
    <2> QED BY <1>1, <1>3, <2>1, <2>2, <2>3, PutMoves
  <1> QED BY <1>1, <1>2, <1>3

(* Each deleting call is a move of one call. *)
LEMMA Removals ==
    ASSUME TypeOK, NEW c \in Calls,
           \/ Delete(c) \/ DeleteMany(c) \/ SecretDelete(c)
           \/ EntityDelete(c) \/ WireDelete(c)
    PROVE  TypeOK' /\ MovesOn(c)
PROOF
  <1>1. /\ at[c] \in {"idle", "delayed"}
        /\ Request[c].op \notin {"transaction", "wireSet"}
        /\ \/ Reject(c)
           \/ /\ Erase(Request[c].deletes)
              /\ Answer(c, "ok")
              /\ UNCHANGED <<next, failed>>
    BY DEF Delete, DeleteMany, SecretDelete, EntityDelete, WireDelete, After, Now
  <1>2. CASE Reject(c)
    BY <1>1, <1>2, RejectMoves
  <1>3. CASE Erase(Request[c].deletes) /\ Answer(c, "ok") /\ UNCHANGED <<next, failed>>
    <2>1. Request[c].deletes \in SUBSET MayRemove[c]
      BY DeletesMayRemove
    <2>2. failed' \in [Calls -> SUBSET Slots]
      BY <1>3 DEF TypeOK
    <2> QED BY <1>1, <1>3, <2>1, <2>2, EraseMoves
  <1> QED BY <1>1, <1>2, <1>3

(* setMany() is a move of one call. *)
LEMMA SetManyMoves ==
    ASSUME TypeOK, NEW c \in Calls, SetMany(c)
    PROVE  TypeOK' /\ MovesOn(c)
PROOF
  <1> DEFINE items == Request[c].items
  <1>1. at[c] = "delayed" /\ Request[c].op = "setMany" /\ Claims[c] = {}
    BY NoClaims DEF SetMany, After
  <1>2. CASE Reject(c)
    BY <1>1, <1>2, RejectMoves
  <1>3. CASE Answer(c, "ok") /\ UNCHANGED <<store, next, failed>>
    <2>1. "ok" \in Progress
      BY DEF Progress
    <2>2. /\ at' \in [Calls -> Progress] /\ at'[c] = "ok"
          /\ \E q \in Progress : at' = [at EXCEPT ![c] = q]
          /\ UNCHANGED <<schemas, clock, wiped>>
      BY <1>3, <2>1, AnswerMoves
    <2>3. TypeOK'
      BY <1>3, <2>2 DEF TypeOK
    <2> QED BY <1>1, <1>3, <2>2, <2>3 DEF MovesOn
  <1>4. CASE /\ next[c] <= Len(items)
             /\ Put({items[next[c]]}, FALSE)
             /\ next' = [next EXCEPT ![c] = @ + 1]
             /\ UNCHANGED <<schemas, clock, at, failed, wiped>>
    <2>1. next[c] \in 1..Len(items)
      BY <1>4, ItemsAreItems DEF TypeOK
    <2>2. {items[next[c]]} \in SUBSET Items
      BY <2>1, ItemsAreItems
    <2>3. /\ StoreType'
          /\ \A s \in Slots :
                IF s \in SlotsOf({items[next[c]]})
                THEN /\ store'[s] # Absent
                     /\ store[s] # Absent => store'[s].createdAt = store[s].createdAt
                ELSE store'[s] = store[s]
      BY <1>4, <2>2, PutSlots
    <2>4. next' \in [Calls -> Nat \ {0}]
      BY <1>4 DEF TypeOK
    <2>5. TypeOK'
      BY <1>4, <2>3, <2>4 DEF TypeOK, StoreType
    <2>6. at' = [at EXCEPT ![c] = "delayed"] /\ "delayed" \in Progress /\ at'[c] = "delayed"
      BY <1>1, <1>4 DEF TypeOK, Progress
    <2>7. \A d \in Calls : next'[d] # next[d] => Request[d].op = "setMany"
      BY <1>1, <1>4 DEF TypeOK
    <2>8. UNCHANGED <<schemas, clock, wiped>>
      BY <1>4
    <2>9. \A s \in Slots : store[s] # Absent =>
             store'[s] # Absent /\ store'[s].createdAt = store[s].createdAt
      BY <2>3
    <2> QED BY <1>1, <2>5, <2>6, <2>7, <2>8, <2>9 DEF MovesOn
  <1> QED BY <1>2, <1>3, <1>4 DEF SetMany

(* batchSet() is a move of one call. *)
LEMMA BatchSetMoves ==
    ASSUME TypeOK, NEW c \in Calls, BatchSet(c)
    PROVE  TypeOK' /\ MovesOn(c)
PROOF
  <1>1. at[c] = "delayed" /\ Request[c].op = "batchSet" /\ Claims[c] = {}
    BY NoClaims DEF BatchSet, After
  <1>2. CASE Reject(c)
    BY <1>1, <1>2, RejectMoves
  <1>3. CASE ~Reject(c)
    <2> DEFINE S == {x \in ItemsOf[c] : Storable(x)}
               F == {x \in ItemsOf[c] : ~Storable(x)}
    <2>1. /\ Put(S, TRUE)
          /\ failed' = [failed EXCEPT ![c] = SlotsOf(F)]
          /\ Answer(c, "ok")
          /\ next' = next
      BY <1>3 DEF BatchSet
    <2>2. S \in SUBSET Items /\ F \in SUBSET Items
      BY ItemsAreItems
    <2>3. SlotsOf(F) \in SUBSET Slots
      <3> HIDE DEF F
      <3> QED BY <2>2 DEF SlotsOf, Items
    <2>4. failed' \in [Calls -> SUBSET Slots]
      BY <2>1, <2>3 DEF TypeOK
    <2> HIDE DEF S
    <2> QED BY <1>1, <2>1, <2>2, <2>4, PutMoves
  <1> QED BY <1>2, <1>3

(* batchDelete() is a move of one call. *)
LEMMA BatchDeleteMoves ==
    ASSUME TypeOK, NEW c \in Calls, BatchDelete(c)
    PROVE  TypeOK' /\ MovesOn(c)
PROOF
  <1>1. at[c] = "delayed" /\ Request[c].op = "batchDelete"
    BY DEF BatchDelete, After
  <1>2. CASE Reject(c)
    BY <1>1, <1>2, RejectMoves
  <1>3. CASE ~Reject(c)
    <2> DEFINE S == {s \in SlotsOf(ItemsOf[c]) : s.key \in ValidKeys}
               F == {s \in SlotsOf(ItemsOf[c]) : s.key \notin ValidKeys}
    <2>1. /\ Erase(S)
          /\ failed' = [failed EXCEPT ![c] = F]
          /\ Answer(c, "ok")
          /\ next' = next
      BY <1>3 DEF BatchDelete
    <2>2. S \in SUBSET MayRemove[c]
      BY <1>1, DeletesMayRemove
    <2>3. F \in SUBSET Slots
      BY ItemsAreItems
    <2>4. failed' \in [Calls -> SUBSET Slots]
      BY <2>1, <2>3 DEF TypeOK
    <2> HIDE DEF S
    <2> QED BY <1>1, <2>1, <2>2, <2>4, EraseMoves
  <1> QED BY <1>2, <1>3

(* A transaction that claims a slot finds it empty when it commits. *)
LEMMA TransactionMoves ==
    ASSUME TypeOK, NEW c \in Calls, Transaction(c)
    PROVE  TypeOK' /\ MovesOn(c)
PROOF
  <1>1. at[c] = "delayed" /\ Request[c].op = "transaction"
    BY DEF Transaction, After
  <1>2. CASE Reject(c)
    BY <1>1, <1>2, RejectMoves
  <1>3. CASE ~Reject(c)
    <2>1. /\ ValidTransaction(c)
          /\ \A q \in Request[c].conditions : Met(q)
          /\ Commit(c)
          /\ Answer(c, "ok")
          /\ UNCHANGED <<next, failed>>
      BY <1>3 DEF Transaction
    <2>2. "ok" \in Progress
      BY DEF Progress
    <2>3. /\ at' \in [Calls -> Progress] /\ at'[c] = "ok"
          /\ \E q \in Progress : at' = [at EXCEPT ![c] = q]
          /\ UNCHANGED <<schemas, clock, wiped>>
      BY <2>1, <2>2, AnswerMoves
    <2>4. /\ StoreType'
          /\ \A s \in Slots :
                CASE s \in Request[c].deletes -> store'[s] = Absent
                  [] s \in SlotsOf(ItemsOf[c]) \ Request[c].deletes ->
                       /\ store'[s] # Absent
                       /\ store[s] # Absent => store'[s].createdAt = store[s].createdAt
                  [] OTHER -> store'[s] = store[s]
      BY <2>1, CommitSlots
    <2>5. TypeOK'
      BY <2>1, <2>3, <2>4 DEF TypeOK, StoreType
    <2>6. ASSUME NEW s \in Slots
          PROVE  \/ s \in Request[c].deletes /\ store'[s] = Absent
                 \/ /\ s \in SlotsOf(ItemsOf[c]) \ Request[c].deletes
                    /\ store'[s] # Absent
                    /\ store[s] # Absent => store'[s].createdAt = store[s].createdAt
                 \/ s \notin SlotsOf(ItemsOf[c]) /\ store'[s] = store[s]
      BY <2>4
    <2>7. ASSUME NEW s \in Claims[c]
          PROVE  store[s] = Absent /\ store'[s] # Absent
      <3>1. s \in Slots /\ s \in SlotsOf(ItemsOf[c]) /\ s \notin Request[c].deletes
        BY <2>1, ClaimsAreItems, ItemsAreItems DEF ValidTransaction
      <3>2. PICK q \in Request[c].conditions :
               /\ q.slot = s
               /\ ~q.any
               /\ \E i \in 1..Len(q.tests) : q.tests[i] = {Absent}
        BY <1>1, <2>7 DEF Claims
      <3>3. PICK i \in 1..Len(q.tests) : q.tests[i] = {Absent}
        BY <3>2
      <3>4. q.tests # <<>>
        BY <3>3
      <3>5. Met(q)
        BY <2>1
      <3>6. ValueAt(s) \in q.tests[i]
        BY <3>2, <3>3, <3>4, <3>5 DEF Met
      <3>7. ValueAt(s) = Absent
        BY <3>3, <3>6
      <3>8. store[s] \in Entries => store[s].value \in Values
        BY DEF Entries
      <3>9. store[s] = Absent
        BY <3>1, <3>7, <3>8, StoreAssumption DEF ValueAt, TypeOK
      <3> QED BY <2>6, <3>1, <3>9
    <2>8. ASSUME NEW s \in Slots, store[s] # Absent, store'[s] = Absent
          PROVE  s \in MayRemove[c]
      BY <2>6, <2>8, DeletesMayRemove
    <2>9. \A s \in Slots : \/ store[s] = Absent \/ store'[s] = Absent
                           \/ store'[s].createdAt = store[s].createdAt
      BY <2>6
    <2>10. next' = next
      BY <2>1
    <2>11. \A s \in Slots : store[s] # Absent /\ store'[s] = Absent =>
              at'[c] = "ok" /\ s \in MayRemove[c]
      BY <2>3, <2>8
    <2> QED BY <1>1, <2>3, <2>5, <2>7, <2>9, <2>10, <2>11 DEF MovesOn
  <1> QED BY <1>2, <1>3

(* The wire set is a move of one call. *)
LEMMA WireSetMoves ==
    ASSUME TypeOK, NEW c \in Calls, WireSet(c)
    PROVE  TypeOK' /\ MovesOn(c)
PROOF
  <1> DEFINE item == Request[c].items[1]
  <1>1. at[c] = "idle" /\ Request[c].op = "wireSet"
    BY DEF WireSet, Now
  <1>2. CASE Reject(c)
    BY <1>1, <1>2, RejectMoves
  <1>3. CASE ~Reject(c)
    <2>1. /\ ~(Request[c].ifAbsent /\ store[item.slot] # Absent)
          /\ Put({item}, TRUE)
          /\ Answer(c, "ok")
          /\ UNCHANGED <<next, failed>>
      BY <1>3 DEF WireSet
    <2>2. item \in Items /\ ItemsOf[c] = {item}
      BY <1>1, SingleItem
    <2>3. SlotsOf(ItemsOf[c]) = {item.slot} /\ SlotsOf({item}) = {item.slot}
      BY <2>2 DEF SlotsOf
    <2>4. ASSUME NEW s \in Claims[c]
          PROVE  store[s] = Absent /\ s \in SlotsOf({item})
      <3>1. s = item.slot
        BY <2>3, ClaimsAreItems
      <3>2. Request[c].ifAbsent
        BY <1>1, <2>4 DEF Claims
      <3> QED BY <2>1, <2>3, <3>1, <3>2
    <2>5. failed' \in [Calls -> SUBSET Slots]
      BY <2>1 DEF TypeOK
    <2>6. {item} \in SUBSET Items
      BY <2>2
    <2> HIDE DEF item
    <2> QED BY <1>1, <2>1, <2>4, <2>5, <2>6, PutMoves
  <1> QED BY <1>2, <1>3

(* The wire transaction is a move of one call. *)
LEMMA LegacyMoves ==
    ASSUME TypeOK, NEW c \in Calls, Legacy(c)
    PROVE  TypeOK' /\ MovesOn(c)
PROOF
  <1>1. /\ at[c] = "idle" /\ Request[c].op = "legacy" /\ Claims[c] = {}
        /\ Answer(c, "ok")
        /\ UNCHANGED <<next, failed>>
    BY NoClaims DEF Legacy, Now
  <1>2. "ok" \in Progress
    BY DEF Progress
  <1>3. /\ at' \in [Calls -> Progress] /\ at'[c] = "ok"
        /\ \E q \in Progress : at' = [at EXCEPT ![c] = q]
        /\ UNCHANGED <<schemas, clock, wiped>>
    BY <1>1, <1>2, AnswerMoves
  <1>4. /\ StoreType'
        /\ \A s \in Slots :
              s \notin MayRemove[c] =>
                 /\ store[s] # Absent => store'[s] # Absent
                 /\ \/ store[s] = Absent \/ store'[s] = Absent
                    \/ store'[s].createdAt = store[s].createdAt
    BY LegacySlots
  <1>5. TypeOK'
    BY <1>1, <1>3, <1>4 DEF TypeOK, StoreType
  <1> QED BY <1>1, <1>3, <1>4, <1>5 DEF MovesOn

(* A call that begins its delay is a move of one call. *)
LEMMA BeginMoves ==
    ASSUME TypeOK, NEW c \in Calls, Begin(c)
    PROVE  TypeOK' /\ MovesOn(c)
PROOF
  <1>1. "delayed" \in Progress
    BY DEF Progress
  <1>2. at' \in [Calls -> Progress] /\ at'[c] = "delayed"
    BY <1>1 DEF Begin, TypeOK
  <1>3. TypeOK'
    BY <1>2 DEF Begin, TypeOK
  <1> QED BY <1>1, <1>2, <1>3 DEF Begin, MovesOn

(* Every step of a call is a move of one call. *)
LEMMA CallMoves ==
    ASSUME TypeOK, NEW c \in Calls, Begin(c) \/ Work(c)
    PROVE  TypeOK' /\ MovesOn(c)
PROOF
  <1>1. CASE Begin(c)
    BY <1>1, BeginMoves
  <1>2. CASE Set(c) \/ SecretSet(c) \/ EntitySet(c)
    BY <1>2, SingleWrites
  <1>3. CASE \/ Delete(c) \/ DeleteMany(c) \/ SecretDelete(c)
             \/ EntityDelete(c) \/ WireDelete(c)
    BY <1>3, Removals
  <1>4. CASE SetMany(c)
    BY <1>4, SetManyMoves
  <1>5. CASE BatchSet(c)
    BY <1>5, BatchSetMoves
  <1>6. CASE BatchDelete(c)
    BY <1>6, BatchDeleteMoves
  <1>7. CASE Transaction(c)
    BY <1>7, TransactionMoves
  <1>8. CASE WireSet(c)
    BY <1>8, WireSetMoves
  <1>9. CASE Legacy(c)
    BY <1>9, LegacyMoves
  <1> QED BY <1>1, <1>2, <1>3, <1>4, <1>5, <1>6, <1>7, <1>8, <1>9 DEF Work

-----------------------------------------------------------------------------
(* The other steps.                                                         *)

(* Wiping the store keeps the types. *)
LEMMA WipeKeepsTypes ==
    ASSUME TypeOK, Wipe, schemas' \subseteq Entities
    PROVE  TypeOK'
BY DEF TypeOK, Wipe

(* Schemas and the clock leave the store and the calls alone. *)
Aside == UNCHANGED <<store, at, next, failed, wiped>>

(* A step is a move of one call, a wipe, or changes neither store nor answers. *)
LEMMA StepKinds ==
    ASSUME TypeOK, [Next]_vars
    PROVE  TypeOK' /\ ((\E c \in Calls : MovesOn(c)) \/ Wipe \/ Aside)
PROOF
  <1>1. CASE \E c \in Pending : Begin(c) \/ Work(c)
    BY <1>1, CallMoves DEF Pending
  <1>2. CASE \E e \in Entities : RegisterSchema(e)
    BY <1>2 DEF RegisterSchema, TypeOK, Aside
  <1>3. CASE Clear
    BY <1>3, WipeKeepsTypes DEF Clear, TypeOK
  <1>4. CASE ClearAll
    BY <1>4, WipeKeepsTypes DEF ClearAll
  <1>5. CASE Tick
    BY <1>5 DEF Tick, TypeOK, Aside
  <1>6. CASE UNCHANGED vars
    BY <1>6 DEF vars, TypeOK, Aside
  <1> QED BY <1>1, <1>2, <1>3, <1>4, <1>5, <1>6 DEF Next

(* The store, the schemas and the calls keep their types: in particular an
   entry is always whole, with both its time stamps, and there is no trace of a
   removed one. *)
THEOREM StorageIsTyped == Spec => []TypeOK
PROOF
  <1>1. Init => TypeOK
    BY DEF Init, TypeOK, Progress
  <1>2. TypeOK /\ [Next]_vars => TypeOK'
    BY StepKinds
  <1> QED BY <1>1, <1>2, PTL DEF Spec

-----------------------------------------------------------------------------
(* Claims.                                                                  *)

(* Whoever claimed a slot has it, unless a call has removed it since. *)
ClaimsHold ==
    \A a \in Calls : Stands(a) =>
        \A s \in Claims[a] :
            store[s] # Absent \/ \E d \in Calls : Stands(d) /\ s \in MayRemove[d]

(* What a wipe made void was answered, or is a setMany() that had begun to set. *)
WipedHadWritten ==
    /\ \A c \in wiped : at[c] = "ok" \/ Request[c].op = "setMany"
    /\ \A c \in Calls : next[c] > 1 => Request[c].op = "setMany"

ClaimInv == TypeOK /\ WipedHadWritten /\ ClaimsHold /\ OneClaimWins

(* setMany() removes nothing. *)
LEMMA SetManyRemovesNone ==
    ASSUME NEW c \in Calls, Request[c].op = "setMany"
    PROVE  MayRemove[c] = {}
BY StoreAssumption DEF MayRemove, Removing

(* A move of one call leaves at most one claim standing. *)
LEMMA ClaimsAfterMove ==
    ASSUME ClaimInv, TypeOK', NEW c \in Calls, MovesOn(c)
    PROVE  WipedHadWritten' /\ ClaimsHold' /\ OneClaimWins'
PROOF
  <1> USE DEF ClaimInv
  <1>1. /\ \A d \in Calls \ {c} : at'[d] = at[d]
        /\ at[c] # "ok"
        /\ wiped' = wiped
    BY DEF MovesOn, TypeOK
  <1>2. \A d \in Calls : Stands(d) => Stands(d)'
    BY <1>1 DEF Stands
  <1>3. \A d \in Calls : Stands(d)' => Stands(d) \/ (d = c /\ at'[c] = "ok")
    BY <1>1 DEF Stands
  <1>4. at'[c] = "ok" /\ Request[c].op # "setMany" => Stands(c)'
    BY <1>1 DEF Stands, WipedHadWritten
  <1>5. WipedHadWritten'
    <2>1. \A d \in wiped' : at'[d] = "ok" \/ Request[d].op = "setMany"
      BY <1>1 DEF WipedHadWritten, TypeOK
    <2>2. \A d \in Calls : next'[d] > 1 => Request[d].op = "setMany"
      BY DEF MovesOn, WipedHadWritten
    <2> QED BY <2>1, <2>2 DEF WipedHadWritten
  <1>6. ASSUME NEW a \in Calls, Stands(a)', NEW s \in Claims[a]
        PROVE  store'[s] # Absent \/ \E d \in Calls : Stands(d)' /\ s \in MayRemove[d]
    <2>1. s \in Slots
      BY ClaimsAreItems, ItemsAreItems
    <2>2. CASE a = c /\ at'[c] = "ok"
      BY <1>6, <2>2 DEF MovesOn
    <2>3. CASE Stands(a)
      <3>1. CASE store[s] = Absent
        BY <1>2, <1>6, <2>3, <3>1 DEF ClaimsHold
      <3>2. CASE store[s] # Absent
        BY <1>4, <2>1, <3>2, SetManyRemovesNone DEF MovesOn
      <3> QED BY <3>1, <3>2
    <2> QED BY <1>3, <1>6, <2>2, <2>3
  <1>7. ClaimsHold'
    BY <1>6 DEF ClaimsHold
  <1>8. ASSUME NEW a \in Calls, NEW s \in Claims[a] \cap Claims[c],
               Stands(a), at'[c] = "ok"
        PROVE  \E d \in Calls : Stands(d)' /\ s \in MayRemove[d]
    <2>1. store[s] = Absent
      BY <1>8 DEF MovesOn
    <2> QED BY <1>2, <1>8, <2>1 DEF ClaimsHold
  <1>9. ASSUME NEW a \in Calls, NEW b \in Calls, Stands(a)', Stands(b)', a # b,
               NEW s \in Claims[a] \cap Claims[b]
        PROVE  \E d \in Calls : Stands(d)' /\ s \in MayRemove[d]
    <2>1. CASE Stands(a) /\ Stands(b)
      BY <1>2, <1>9, <2>1 DEF OneClaimWins
    <2>2. CASE ~Stands(a)
      <3>1. a = c /\ at'[c] = "ok" /\ Stands(b)
        BY <1>3, <1>9, <2>2
      <3> QED BY <1>8, <3>1
    <2>3. CASE ~Stands(b)
      <3>1. b = c /\ at'[c] = "ok" /\ Stands(a)
        BY <1>3, <1>9, <2>3
      <3> QED BY <1>8, <3>1
    <2> QED BY <2>1, <2>2, <2>3
  <1>10. OneClaimWins'
    BY <1>9 DEF OneClaimWins
  <1> QED BY <1>5, <1>7, <1>10

(* Every step leaves at most one claim of a slot standing. *)
LEMMA ClaimStep == ClaimInv /\ [Next]_vars => ClaimInv'
PROOF
  <1> SUFFICES ASSUME ClaimInv, [Next]_vars
               PROVE  ClaimInv'
    OBVIOUS
  <1>1. TypeOK' /\ ((\E c \in Calls : MovesOn(c)) \/ Wipe \/ Aside)
    BY StepKinds DEF ClaimInv
  <1>2. CASE \E c \in Calls : MovesOn(c)
    BY <1>1, <1>2, ClaimsAfterMove DEF ClaimInv
  <1>3. CASE Wipe
    <2>1. \A c \in Calls : ~Stands(c)'
      BY <1>3 DEF Wipe, Stands
    <2>2. WipedHadWritten'
      BY <1>3 DEF Wipe, WipedHadWritten, ClaimInv
    <2> QED BY <1>1, <2>1, <2>2 DEF ClaimInv, ClaimsHold, OneClaimWins
  <1>4. CASE Aside
    BY <1>1, <1>4 DEF Aside, ClaimInv, WipedHadWritten, ClaimsHold, OneClaimWins, Stands
  <1> QED BY <1>1, <1>2, <1>3, <1>4

(* Of two calls that take one slot on the condition that it is empty, only one
   succeeds, unless one that removes the slot has succeeded: a lock built on a
   transaction or on keyPolicy FAIL_IF_EXISTS is exclusive. *)
THEOREM ClaimsAreExclusive == Spec => []OneClaimWins
PROOF
  <1>1. Init => ClaimInv
    BY DEF Init, ClaimInv, TypeOK, Progress, WipedHadWritten, ClaimsHold, OneClaimWins, Stands
  <1>2. ClaimInv => OneClaimWins
    BY DEF ClaimInv
  <1> QED BY <1>1, <1>2, ClaimStep, PTL DEF Spec

-----------------------------------------------------------------------------
(* Time stamps.                                                             *)

(* One step of CreatedAtIsKept. *)
CreatedAtKept ==
    \A s \in Slots :
        \/ store[s] = Absent
        \/ store'[s] = Absent
        \/ store'[s].createdAt = store[s].createdAt
        \/ \E c \in Calls : /\ at[c] # at'[c]
                            /\ Request[c].op = "legacy"
                            /\ s \in MayRemove[c]

(* No write path makes an entry look newer than it is. *)
THEOREM CreationTimeIsKept == Spec => CreatedAtIsKept
PROOF
  <1>1. ASSUME TypeOK, [Next]_vars
        PROVE  CreatedAtKept
    <2>1. (\E c \in Calls : MovesOn(c)) \/ Wipe \/ Aside
      BY <1>1, StepKinds
    <2>2. CASE \E c \in Calls : MovesOn(c)
      BY <1>1, <2>2 DEF MovesOn, CreatedAtKept, TypeOK
    <2>3. CASE Wipe
      BY <2>3 DEF Wipe, CreatedAtKept
    <2>4. CASE Aside
      BY <2>4 DEF Aside, CreatedAtKept
    <2> QED BY <2>1, <2>2, <2>3, <2>4
  <1>2. TypeOK /\ [Next]_vars => [CreatedAtKept]_vars
    BY <1>1
  <1> QED BY <1>2, StorageIsTyped, PTL DEF Spec, CreatedAtIsKept, CreatedAtKept

-----------------------------------------------------------------------------
(* Answers.                                                                 *)

Batches == {"batchSet", "batchDelete"}

(* No other call that was made aims at the slot. *)
OnlyFor(c, s) == \A d \in Calls \ {c} : at[d] = "idle" \/ s \notin Targets[d]

(* The slot holds what an item of c says. *)
HoldsItem(c, s) ==
    /\ store[s] # Absent
    /\ \E y \in ItemsOf[c] : y.slot = s /\ y.value = store[s].value

(* Calls that were not made have left no trace. *)
IdleHeld ==
    /\ \A c \in Calls : at[c] = "idle" => next[c] = 1
    /\ \A s \in Slots :
          (\A c \in Calls : at[c] = "idle" \/ s \notin Targets[c]) => store[s] = Absent

(* Nor has one that waits out its delay, or was rejected. *)
UnwrittenHeld ==
    \A c \in Calls :
        at[c] \in {"delayed", "rejected"} /\ Request[c].op # "setMany" =>
            \A s \in Slots : OnlyFor(c, s) => store[s] = Absent

(* A setMany() has set the items before the one it is at. *)
SetSoFar ==
    \A c \in Calls :
        at[c] = "delayed" /\ c \notin wiped /\ Request[c].op = "setMany" =>
            \A i \in 1..Len(Request[c].items) :
                i < next[c] /\ OnlyFor(c, Request[c].items[i].slot) =>
                    HoldsItem(c, Request[c].items[i].slot)

(* What was answered is so. *)
AnswerHeld ==
    \A c \in Calls :
        Stands(c) /\ Request[c].op # "batchDelete" =>
            \A x \in ItemsOf[c] :
                OnlyFor(c, x.slot) =>
                    IF x.slot \in failed[c] THEN store[x.slot] = Absent
                    ELSE HoldsItem(c, x.slot)

FailedHeld == \A c \in Calls : Request[c].op \notin Batches => failed[c] = {}

TruthInv == TypeOK /\ IdleHeld /\ UnwrittenHeld /\ SetSoFar /\ AnswerHeld /\ FailedHeld

(* A step of c waits or refuses, or ... *)
LooksOnly(c) ==
    /\ store' = store
    /\ next'[c] = next[c]
    /\ at'[c] = "rejected" \/ (at[c] = "idle" /\ at'[c] = "delayed")

(* ... ends with an answer, or ... *)
Finishes(c) ==
    /\ Request[c].op # "setMany"
    /\ at'[c] = "ok"
    /\ next'[c] = next[c]
    /\ Request[c].op # "batchDelete" =>
          \A x \in ItemsOf[c] : IF x.slot \in failed'[c] THEN store'[x.slot] = store[x.slot]
                                ELSE HoldsItem(c, x.slot)'

(* ... sets an item of many, or ... *)
SetsNext(c) ==
    /\ Request[c].op = "setMany"
    /\ at[c] = "delayed" /\ at'[c] = "delayed"
    /\ \E i \in 1..Len(Request[c].items) :
          /\ next[c] = i /\ next'[c] = i + 1
          /\ HoldsItem(c, Request[c].items[i].slot)'
          /\ \A s \in Slots : s # Request[c].items[i].slot => store'[s] = store[s]

(* ... has set all of them. *)
HasSetAll(c) ==
    /\ Request[c].op = "setMany"
    /\ at[c] = "delayed" /\ at'[c] = "ok"
    /\ next[c] > Len(Request[c].items)
    /\ next'[c] = next[c]
    /\ store' = store

(* It changes its own slots and its own progress, nothing else. *)
KeepsToItself(c) ==
    /\ at[c] \in {"idle", "delayed"}
    /\ \A d \in Calls \ {c} : at'[d] = at[d] /\ next'[d] = next[d] /\ failed'[d] = failed[d]
    /\ wiped' = wiped
    /\ \A s \in Slots \ Targets[c] : store'[s] = store[s]
    /\ Request[c].op \notin Batches => failed'[c] = failed[c]

WritesOwn(c) ==
    /\ KeepsToItself(c)
    /\ LooksOnly(c) \/ Finishes(c) \/ SetsNext(c) \/ HasSetAll(c)

(* What a call may aim at. *)
LEMMA AimsAt ==
    ASSUME NEW c \in Calls
    PROVE  /\ SlotsOf(ItemsOf[c]) \subseteq Targets[c]
           /\ Request[c].deletes \subseteq Targets[c]
           /\ \A i \in 1..Len(Request[c].actions) : Request[c].actions[i].slot \in Targets[c]
BY DEF Targets

(* An answer says how far one call is. *)
LEMMA AnswersOne ==
    ASSUME TypeOK, NEW c \in Calls, NEW r \in Progress, Answer(c, r)
    PROVE  at'[c] = r /\ wiped' = wiped /\ \A d \in Calls \ {c} : at'[d] = at[d]
BY DEF Answer, TypeOK

(* Put() leaves the values of its items. *)
LEMMA PutHolds ==
    ASSUME TypeOK, NEW c \in Calls, NEW S \in SUBSET ItemsOf[c], NEW hasTtl \in BOOLEAN,
           Put(S, hasTtl), NEW s \in SlotsOf(S)
    PROVE  HoldsItem(c, s)'
PROOF
  <1> DEFINE x == CHOOSE y \in S : y.slot = s
  <1>1. \E y \in S : y.slot = s
    BY DEF SlotsOf
  <1>2. x \in S /\ x.slot = s
    BY <1>1
  <1>3. x \in Items /\ x \in ItemsOf[c]
    BY <1>2, ItemsAreItems
  <1>4. s \in Slots
    BY <1>2, <1>3 DEF Items
  <1>5. store'[s] = Entry(x, hasTtl)
    BY <1>4 DEF Put
  <1> HIDE DEF x
  <1>6. Entry(x, hasTtl) # Absent /\ Entry(x, hasTtl).value = x.value
    BY <1>3, EntryIsEntry, AbsentIsNoEntry DEF Entry
  <1> QED BY <1>2, <1>3, <1>5, <1>6 DEF HoldsItem

(* A refused call leaves no trace. *)
LEMMA RejectKeeps ==
    ASSUME TypeOK, NEW c \in Calls, at[c] \in {"idle", "delayed"}, Reject(c)
    PROVE  WritesOwn(c)
PROOF
  <1>1. "rejected" \in Progress /\ Answer(c, "rejected") /\ UNCHANGED <<store, next, failed>>
    BY DEF Reject, Progress
  <1>2. at'[c] = "rejected" /\ wiped' = wiped /\ \A d \in Calls \ {c} : at'[d] = at[d]
    BY <1>1, AnswersOne
  <1> QED BY <1>1, <1>2 DEF WritesOwn, KeepsToItself, LooksOnly

(* Putting items is what a call ends with. *)
LEMMA PutFinishes ==
    ASSUME TypeOK, NEW c \in Calls, at[c] \in {"idle", "delayed"},
           Request[c].op # "setMany",
           NEW S \in SUBSET ItemsOf[c], NEW hasTtl \in BOOLEAN, Put(S, hasTtl),
           Answer(c, "ok"), next' = next,
           \A d \in Calls \ {c} : failed'[d] = failed[d],
           Request[c].op \notin Batches => failed'[c] = failed[c],
           \A x \in ItemsOf[c] : IF x.slot \in failed'[c] THEN x.slot \notin SlotsOf(S)
                                 ELSE x.slot \in SlotsOf(S)
    PROVE  WritesOwn(c)
PROOF
  <1>1. at'[c] = "ok" /\ wiped' = wiped /\ \A d \in Calls \ {c} : at'[d] = at[d]
    BY AnswersOne DEF Progress
  <1>2. S \in SUBSET Items /\ SlotsOf(S) \subseteq SlotsOf(ItemsOf[c])
    BY ItemsAreItems DEF SlotsOf
  <1>3. \A s \in Slots \ SlotsOf(S) : store'[s] = store[s]
    BY <1>2, PutSlots
  <1>4. \A s \in Slots \ Targets[c] : store'[s] = store[s]
    BY <1>2, <1>3, AimsAt
  <1>5. \A s \in SlotsOf(S) : HoldsItem(c, s)'
    BY PutHolds
  <1>6. \A x \in ItemsOf[c] : x.slot \in Slots
    BY ItemsAreItems DEF Items
  <1>7. \A x \in ItemsOf[c] : IF x.slot \in failed'[c] THEN store'[x.slot] = store[x.slot]
                              ELSE HoldsItem(c, x.slot)'
    BY <1>3, <1>5, <1>6
  <1> QED BY <1>1, <1>4, <1>7 DEF WritesOwn, KeepsToItself, Finishes

(* So is erasing slots. *)
LEMMA EraseFinishes ==
    ASSUME TypeOK, NEW c \in Calls, at[c] \in {"idle", "delayed"},
           Request[c].op \in Removing \cup {"batchDelete"},
           NEW S \in SUBSET Targets[c], Erase(S),
           Answer(c, "ok"), next' = next,
           \A d \in Calls \ {c} : failed'[d] = failed[d],
           Request[c].op \notin Batches => failed'[c] = failed[c]
    PROVE  WritesOwn(c)
PROOF
  <1>1. at'[c] = "ok" /\ wiped' = wiped /\ \A d \in Calls \ {c} : at'[d] = at[d]
    BY AnswersOne DEF Progress
  <1>2. \A s \in Slots \ Targets[c] : store'[s] = store[s]
    BY EraseSlots
  <1>3. Request[c].op # "batchDelete" => ItemsOf[c] = {}
    BY StoreAssumption DEF ItemsOf
  <1>4. Request[c].op # "setMany"
    BY DEF Removing
  <1> QED BY <1>1, <1>2, <1>3, <1>4 DEF WritesOwn, KeepsToItself, Finishes

(* The calls of one item. *)
LEMMA SingleFinishes ==
    ASSUME TypeOK, FailedHeld, NEW c \in Calls,
           Set(c) \/ SecretSet(c) \/ EntitySet(c) \/ WireSet(c)
    PROVE  WritesOwn(c)
PROOF
  <1> DEFINE item == Request[c].items[1]
  <1>1. /\ at[c] \in {"idle", "delayed"}
        /\ Request[c].op \in {"set", "secretSet", "entitySet", "wireSet"}
        /\ \/ Reject(c)
           \/ /\ \E t \in BOOLEAN : Put({item}, t)
              /\ Answer(c, "ok")
              /\ UNCHANGED <<next, failed>>
    BY DEF Set, SecretSet, EntitySet, WireSet, After, Now
  <1>2. CASE Reject(c)
    BY <1>1, <1>2, RejectKeeps
  <1>3. CASE ~Reject(c)
    <2>1. PICK t \in BOOLEAN : Put({item}, t)
      BY <1>1, <1>3
    <2>2. ItemsOf[c] = {item}
      BY <1>1, SingleItem
    <2>3. Request[c].op \notin Batches /\ Request[c].op # "setMany"
      BY <1>1 DEF Batches
    <2>4. failed' = failed /\ next' = next /\ Answer(c, "ok") /\ failed[c] = {}
      BY <1>1, <1>3, <2>3 DEF FailedHeld
    <2> HIDE DEF item
    <2>5. item.slot \in SlotsOf({item})
      BY DEF SlotsOf
    <2> QED BY <1>1, <2>1, <2>2, <2>3, <2>4, <2>5, PutFinishes
  <1> QED BY <1>2, <1>3

(* The calls that delete. *)
LEMMA RemovalFinishes ==
    ASSUME TypeOK, NEW c \in Calls,
           \/ Delete(c) \/ DeleteMany(c) \/ SecretDelete(c)
           \/ EntityDelete(c) \/ WireDelete(c)
    PROVE  WritesOwn(c)
PROOF
  <1>1. /\ at[c] \in {"idle", "delayed"}
        /\ Request[c].op \in Removing
        /\ \/ Reject(c)
           \/ /\ Erase(Request[c].deletes)
              /\ Answer(c, "ok")
              /\ UNCHANGED <<next, failed>>
    BY DEF Delete, DeleteMany, SecretDelete, EntityDelete, WireDelete, After, Now, Removing
  <1>2. CASE Reject(c)
    BY <1>1, <1>2, RejectKeeps
  <1>3. CASE ~Reject(c)
    <2>1. Request[c].deletes \in SUBSET Targets[c]
      BY AimsAt
    <2> QED BY <1>1, <1>3, <2>1, EraseFinishes
  <1> QED BY <1>2, <1>3

(* setMany() sets one item at a time. *)
LEMMA SetManyWrites ==
    ASSUME TypeOK, NEW c \in Calls, SetMany(c)
    PROVE  WritesOwn(c)
PROOF
  <1> DEFINE items == Request[c].items
  <1>1. at[c] = "delayed" /\ Request[c].op = "setMany"
    BY DEF SetMany, After
  <1>2. CASE Reject(c)
    BY <1>1, <1>2, RejectKeeps
  <1>3. CASE next[c] > Len(items) /\ Answer(c, "ok") /\ UNCHANGED <<store, next, failed>>
    <2>1. at'[c] = "ok" /\ wiped' = wiped /\ \A d \in Calls \ {c} : at'[d] = at[d]
      BY <1>3, AnswersOne DEF Progress
    <2> QED BY <1>1, <1>3, <2>1 DEF WritesOwn, KeepsToItself, HasSetAll
  <1>4. CASE /\ next[c] <= Len(items)
             /\ Put({items[next[c]]}, FALSE)
             /\ next' = [next EXCEPT ![c] = @ + 1]
             /\ UNCHANGED <<schemas, clock, at, failed, wiped>>
    <2>1. next[c] \in 1..Len(items)
      BY <1>4, ItemsAreItems DEF TypeOK
    <2>10. PICK i \in 1..Len(items) : i = next[c]
      BY <2>1
    <2> DEFINE item == items[i]
    <2>2. item \in Items /\ item \in ItemsOf[c]
      BY ItemsAreItems DEF ItemsOf
    <2>3. next'[c] = i + 1 /\ \A d \in Calls \ {c} : next'[d] = next[d]
      BY <1>4, <2>10 DEF TypeOK
    <2>4. Put({item}, FALSE)
      BY <1>4, <2>10
    <2> HIDE DEF item
    <2>5. SlotsOf({item}) = {item.slot} /\ item.slot \in Targets[c]
      BY <2>2, AimsAt DEF SlotsOf
    <2>6. HoldsItem(c, item.slot)'
      <3>1. {item} \in SUBSET ItemsOf[c] /\ item.slot \in SlotsOf({item})
        BY <2>2, <2>5
      <3> QED BY <2>4, <3>1, PutHolds
    <2>7. \A s \in Slots : s # item.slot => store'[s] = store[s]
      <3>1. {item} \in SUBSET Items
        BY <2>2
      <3> QED BY <2>4, <2>5, <3>1, PutSlots
    <2>8. SetsNext(c)
      BY <1>1, <1>4, <2>10, <2>3, <2>6, <2>7 DEF SetsNext, item
    <2>9. KeepsToItself(c)
      BY <1>1, <1>4, <2>3, <2>5, <2>7 DEF KeepsToItself
    <2> QED BY <2>8, <2>9 DEF WritesOwn
  <1> QED BY <1>2, <1>3, <1>4 DEF SetMany

(* A batch puts what it does not name in failedKeys. *)
LEMMA BatchSetFinishes ==
    ASSUME TypeOK, NEW c \in Calls, BatchSet(c)
    PROVE  WritesOwn(c)
PROOF
  <1>1. at[c] = "delayed" /\ Request[c].op = "batchSet"
    BY DEF BatchSet, After
  <1>2. CASE Reject(c)
    BY <1>1, <1>2, RejectKeeps
  <1>3. CASE ~Reject(c)
    <2> DEFINE S == {x \in ItemsOf[c] : Storable(x)}
               F == {x \in ItemsOf[c] : ~Storable(x)}
    <2>1. /\ ValidBatch(ItemSlots(c))
          /\ Put(S, TRUE)
          /\ failed' = [failed EXCEPT ![c] = SlotsOf(F)]
          /\ Answer(c, "ok")
          /\ next' = next
      BY <1>3 DEF BatchSet
    <2>2. failed'[c] = SlotsOf(F) /\ \A d \in Calls \ {c} : failed'[d] = failed[d]
      BY <2>1 DEF TypeOK
    <2>3. \A x, y \in ItemsOf[c] : x.slot = y.slot => x = y
      <3>1. ASSUME NEW x \in ItemsOf[c], NEW y \in ItemsOf[c], x.slot = y.slot
            PROVE  x = y
        <4>1. PICK i \in 1..Len(Request[c].items) : x = Request[c].items[i]
          BY DEF ItemsOf
        <4>2. PICK j \in 1..Len(Request[c].items) : y = Request[c].items[j]
          BY DEF ItemsOf
        <4>3. Len(ItemSlots(c)) = Len(Request[c].items)
          BY ItemsAreItems DEF ItemSlots
        <4>4. ItemSlots(c)[i] = x.slot /\ ItemSlots(c)[j] = y.slot
          BY <4>1, <4>2 DEF ItemSlots
        <4>5. i = j
          BY <2>1, <3>1, <4>3, <4>4 DEF ValidBatch
        <4> QED BY <4>1, <4>2, <4>5
      <3> QED BY <3>1
    <2>4. \A x \in ItemsOf[c] : IF x.slot \in SlotsOf(F) THEN x.slot \notin SlotsOf(S)
                                ELSE x.slot \in SlotsOf(S)
      BY <2>3 DEF SlotsOf
    <2>5. S \in SUBSET ItemsOf[c]
      OBVIOUS
    <2> HIDE DEF S, F
    <2> QED BY <1>1, <2>1, <2>2, <2>4, <2>5, PutFinishes DEF Batches
  <1> QED BY <1>2, <1>3

(* A batch removes what it aims at. *)
LEMMA BatchDeleteFinishes ==
    ASSUME TypeOK, NEW c \in Calls, BatchDelete(c)
    PROVE  WritesOwn(c)
PROOF
  <1>1. at[c] = "delayed" /\ Request[c].op = "batchDelete"
    BY DEF BatchDelete, After
  <1>2. CASE Reject(c)
    BY <1>1, <1>2, RejectKeeps
  <1>3. CASE ~Reject(c)
    <2> DEFINE S == {s \in SlotsOf(ItemsOf[c]) : s.key \in ValidKeys}
               F == {s \in SlotsOf(ItemsOf[c]) : s.key \notin ValidKeys}
    <2>1. /\ Erase(S)
          /\ failed' = [failed EXCEPT ![c] = F]
          /\ Answer(c, "ok")
          /\ next' = next
      BY <1>3 DEF BatchDelete
    <2>2. S \in SUBSET Targets[c]
      BY AimsAt
    <2>3. \A d \in Calls \ {c} : failed'[d] = failed[d]
      BY <2>1 DEF TypeOK
    <2> HIDE DEF S, F
    <2> QED BY <1>1, <2>1, <2>2, <2>3, EraseFinishes DEF Batches
  <1> QED BY <1>2, <1>3

(* A transaction is applied as a whole. *)
LEMMA TransactionFinishes ==
    ASSUME TypeOK, FailedHeld, NEW c \in Calls, Transaction(c)
    PROVE  WritesOwn(c)
PROOF
  <1>1. at[c] = "delayed" /\ Request[c].op = "transaction"
    BY DEF Transaction, After
  <1>2. CASE Reject(c)
    BY <1>1, <1>2, RejectKeeps
  <1>3. CASE ~Reject(c)
    <2>1. ValidTransaction(c) /\ Commit(c) /\ Answer(c, "ok") /\ UNCHANGED <<next, failed>>
      BY <1>3 DEF Transaction
    <2>2. at'[c] = "ok" /\ wiped' = wiped /\ \A d \in Calls \ {c} : at'[d] = at[d]
      BY <2>1, AnswersOne DEF Progress
    <2>3. \A s \in Slots \ Targets[c] : store'[s] = store[s]
      BY <2>1, CommitSlots, AimsAt
    <2>4. ASSUME NEW z \in ItemsOf[c]
          PROVE  HoldsItem(c, z.slot)'
      <3> DEFINE s == z.slot
                 x == CHOOSE y \in ItemsOf[c] : y.slot = s
      <3>1. s \in Slots /\ s \in SlotsOf(ItemsOf[c])
        BY <2>4, ItemsAreItems DEF Items, SlotsOf
      <3>2. s \notin Request[c].deletes
        BY <2>1, <3>1 DEF ValidTransaction
      <3>3. x \in ItemsOf[c] /\ x.slot = s
        BY <2>4
      <3>4. store'[s] = Entry(x, TRUE)
        BY <2>1, <3>1, <3>2 DEF Commit
      <3>5. x \in Items
        BY <3>3, ItemsAreItems
      <3> HIDE DEF x
      <3>6. Entry(x, TRUE) # Absent /\ Entry(x, TRUE).value = x.value
        BY <3>5, EntryIsEntry, AbsentIsNoEntry DEF Entry
      <3> QED BY <3>3, <3>4, <3>6 DEF HoldsItem
    <2>5. failed[c] = {} /\ Request[c].op \notin Batches
      BY <1>1 DEF FailedHeld, Batches
    <2>6. Finishes(c)
      BY <1>1, <2>1, <2>2, <2>4, <2>5 DEF Finishes
    <2>7. KeepsToItself(c)
      BY <1>1, <2>1, <2>2, <2>3 DEF KeepsToItself
    <2> QED BY <2>6, <2>7 DEF WritesOwn
  <1> QED BY <1>2, <1>3

(* The old format touches the slots of its actions. *)
LEMMA LegacyFinishes ==
    ASSUME TypeOK, NEW c \in Calls, Legacy(c)
    PROVE  WritesOwn(c)
PROOF
  <1>1. /\ at[c] = "idle" /\ Request[c].op = "legacy" /\ Answer(c, "ok")
        /\ UNCHANGED <<next, failed>>
    BY DEF Legacy, Now
  <1>2. at'[c] = "ok" /\ wiped' = wiped /\ \A d \in Calls \ {c} : at'[d] = at[d]
    BY <1>1, AnswersOne DEF Progress
  <1>3. ASSUME NEW s \in Slots, s \notin Targets[c]
        PROVE  store'[s] = store[s]
    <2>1. {i \in 1..Len(Request[c].actions) : Request[c].actions[i].slot = s} = {}
      BY <1>3, AimsAt
    <2> QED BY <1>3, <2>1 DEF Legacy
  <1>4. ItemsOf[c] = {}
    BY <1>1, StoreAssumption DEF ItemsOf, Removing
  <1> QED BY <1>1, <1>2, <1>3, <1>4 DEF WritesOwn, KeepsToItself, Finishes

(* So each step of a call writes its own slots and ends as it says. *)
LEMMA CallWrites ==
    ASSUME TypeOK, FailedHeld, NEW c \in Calls, Begin(c) \/ Work(c)
    PROVE  WritesOwn(c)
PROOF
  <1>1. CASE Begin(c)
    BY <1>1 DEF Begin, TypeOK, WritesOwn, KeepsToItself, LooksOnly
  <1>2. CASE Set(c) \/ SecretSet(c) \/ EntitySet(c) \/ WireSet(c)
    BY <1>2, SingleFinishes
  <1>3. CASE \/ Delete(c) \/ DeleteMany(c) \/ SecretDelete(c)
             \/ EntityDelete(c) \/ WireDelete(c)
    BY <1>3, RemovalFinishes
  <1>4. CASE SetMany(c)
    BY <1>4, SetManyWrites
  <1>5. CASE BatchSet(c)
    BY <1>5, BatchSetFinishes
  <1>6. CASE BatchDelete(c)
    BY <1>6, BatchDeleteFinishes
  <1>7. CASE Transaction(c)
    BY <1>7, TransactionFinishes
  <1>8. CASE Legacy(c)
    BY <1>8, LegacyFinishes
  <1> QED BY <1>1, <1>2, <1>3, <1>4, <1>5, <1>6, <1>7, <1>8 DEF Work

(* A slot that is not written holds what it held. *)
LEMMA HoldsStill ==
    ASSUME NEW c \in Calls, NEW s \in Slots, store'[s] = store[s], HoldsItem(c, s)
    PROVE  HoldsItem(c, s)'
BY DEF HoldsItem

(* The slots of a request are slots. *)
LEMMA ItemSlot ==
    ASSUME NEW c \in Calls
    PROVE  /\ \A i \in 1..Len(Request[c].items) : /\ Request[c].items[i] \in ItemsOf[c]
                                                  /\ Request[c].items[i].slot \in Slots
           /\ \A x \in ItemsOf[c] :
                 x.slot \in Slots /\ \E i \in 1..Len(Request[c].items) : x = Request[c].items[i]
BY ItemsAreItems DEF ItemsOf, Items

(* A step of a call keeps true what was answered, and answers what is true. *)
LEMMA TruthAfterCall ==
    ASSUME TruthInv, NEW c \in Calls, WritesOwn(c)
    PROVE  (IdleHeld /\ UnwrittenHeld /\ SetSoFar /\ AnswerHeld /\ FailedHeld)'
PROOF
  <1> USE DEF TruthInv
  <1>1. at'[c] \in {"delayed", "ok", "rejected"} /\ at[c] \in {"idle", "delayed"}
    BY DEF WritesOwn, KeepsToItself, LooksOnly, Finishes, SetsNext, HasSetAll
  <1>2. /\ \A d \in Calls \ {c} : at'[d] = at[d] /\ next'[d] = next[d] /\ failed'[d] = failed[d]
        /\ wiped' = wiped
        /\ \A s \in Slots \ Targets[c] : store'[s] = store[s]
        /\ Request[c].op \notin Batches => failed'[c] = failed[c]
    BY DEF WritesOwn, KeepsToItself
  <1>3. ASSUME NEW d \in Calls \ {c}, NEW s \in Slots, OnlyFor(d, s)'
        PROVE  OnlyFor(d, s) /\ store'[s] = store[s]
    <2>1. s \notin Targets[c]
      BY <1>1, <1>3 DEF OnlyFor
    <2>2. OnlyFor(d, s)
      BY <1>2, <1>3, <2>1 DEF OnlyFor
    <2> QED BY <1>2, <2>1, <2>2
  <1>4. \A s : OnlyFor(c, s)' => OnlyFor(c, s)
    BY <1>2 DEF OnlyFor
  <1>5. ASSUME NEW s \in Slots, OnlyFor(c, s), Request[c].op # "setMany"
        PROVE  store[s] = Absent
    <2>1. CASE at[c] = "delayed"
      BY <1>5, <2>1 DEF UnwrittenHeld
    <2>2. CASE at[c] = "idle"
      BY <1>5, <2>2 DEF IdleHeld, OnlyFor
    <2> QED BY <1>1, <2>1, <2>2
  <1>6. IdleHeld'
    <2>1. \A d \in Calls : at'[d] = "idle" => next'[d] = 1
      BY <1>1, <1>2 DEF IdleHeld
    <2>2. ASSUME NEW s \in Slots, \A d \in Calls : at'[d] = "idle" \/ s \notin Targets[d]
          PROVE  store'[s] = Absent
      <3>1. s \notin Targets[c] /\ \A d \in Calls : at[d] = "idle" \/ s \notin Targets[d]
        BY <1>1, <1>2, <2>2
      <3> QED BY <1>2, <3>1 DEF IdleHeld
    <2> QED BY <2>1, <2>2 DEF IdleHeld
  <1>7. UnwrittenHeld'
    <2>1. ASSUME NEW d \in Calls, at'[d] \in {"delayed", "rejected"}, Request[d].op # "setMany",
                 NEW s \in Slots, OnlyFor(d, s)'
          PROVE  store'[s] = Absent
      <3>1. CASE d # c
        BY <1>2, <1>3, <2>1, <3>1 DEF UnwrittenHeld
      <3>2. CASE d = c
        <4>1. store' = store
          BY <2>1, <3>2 DEF WritesOwn, LooksOnly, Finishes, SetsNext, HasSetAll
        <4> QED BY <1>4, <1>5, <2>1, <3>2, <4>1
      <3> QED BY <3>1, <3>2
    <2> QED BY <2>1 DEF UnwrittenHeld
  <1>8. SetSoFar'
    <2>1. ASSUME NEW d \in Calls, at'[d] = "delayed", d \notin wiped', Request[d].op = "setMany",
                 NEW i \in 1..Len(Request[d].items), i < next'[d],
                 OnlyFor(d, Request[d].items[i].slot)'
          PROVE  HoldsItem(d, Request[d].items[i].slot)'
      <3> DEFINE s == Request[d].items[i].slot
      <3>1. s \in Slots
        BY ItemSlot
      <3>2. CASE d # c
        <4>1. OnlyFor(d, s) /\ store'[s] = store[s]
          BY <1>3, <2>1, <3>1, <3>2
        <4>2. HoldsItem(d, s)
          BY <1>2, <2>1, <3>2, <4>1 DEF SetSoFar
        <4> QED BY <3>1, <4>1, <4>2, HoldsStill
      <3>3. CASE d = c /\ SetsNext(c)
        <4>1. PICK j \in 1..Len(Request[c].items) :
                 /\ next[c] = j /\ next'[c] = j + 1
                 /\ HoldsItem(c, Request[c].items[j].slot)'
                 /\ \A t \in Slots : t # Request[c].items[j].slot => store'[t] = store[t]
          BY <3>3 DEF SetsNext
        <4>2. CASE s = Request[c].items[j].slot
          BY <3>3, <4>1, <4>2
        <4>3. CASE s # Request[c].items[j].slot
          <5>1. i < next[c]
            BY <2>1, <3>3, <4>1, <4>3
          <5>2. OnlyFor(c, s)
            BY <1>4, <2>1, <3>3
          <5>3. at[c] = "delayed" /\ c \notin wiped
            BY <1>2, <2>1, <3>3 DEF SetsNext
          <5>4. HoldsItem(c, s)
            BY <2>1, <3>3, <5>1, <5>2, <5>3 DEF SetSoFar
          <5> QED BY <3>1, <3>3, <4>1, <4>3, <5>4, HoldsStill
        <4> QED BY <4>2, <4>3
      <3>4. CASE d = c /\ ~SetsNext(c)
        <4>1. at[c] = "idle" /\ next'[c] = next[c]
          BY <2>1, <3>4 DEF WritesOwn, LooksOnly, Finishes, HasSetAll
        <4> QED BY <2>1, <3>4, <4>1 DEF IdleHeld
      <3> QED BY <3>2, <3>3, <3>4
    <2> QED BY <2>1 DEF SetSoFar
  <1>9. AnswerHeld'
    <2>1. ASSUME NEW d \in Calls, Stands(d)', Request[d].op # "batchDelete",
                 NEW x \in ItemsOf[d], OnlyFor(d, x.slot)'
          PROVE  IF x.slot \in failed'[d] THEN store'[x.slot] = Absent
                 ELSE HoldsItem(d, x.slot)'
      <3>1. x.slot \in Slots
        BY ItemSlot
      <3>2. CASE d # c
        <4>1. OnlyFor(d, x.slot) /\ store'[x.slot] = store[x.slot] /\ failed'[d] = failed[d]
          BY <1>2, <1>3, <2>1, <3>1, <3>2
        <4>2. Stands(d)
          BY <1>2, <2>1, <3>2 DEF Stands
        <4>3. IF x.slot \in failed[d] THEN store[x.slot] = Absent ELSE HoldsItem(d, x.slot)
          BY <2>1, <4>1, <4>2 DEF AnswerHeld
        <4> QED BY <3>1, <4>1, <4>3, HoldsStill
      <3>3. CASE d = c /\ Finishes(c)
        BY <1>4, <1>5, <2>1, <3>1, <3>3 DEF Finishes
      <3>4. CASE d = c /\ HasSetAll(c)
        <4>1. failed'[c] = {}
          BY <1>2, <3>4 DEF HasSetAll, FailedHeld, Batches
        <4>2. PICK i \in 1..Len(Request[c].items) : x = Request[c].items[i]
          BY <3>4, ItemSlot
        <4>3. i < next[c] /\ at[c] = "delayed" /\ c \notin wiped
          <5>1. next[c] > Len(Request[c].items) /\ at[c] = "delayed" /\ next[c] \in Nat
            BY <3>4 DEF HasSetAll, TypeOK
          <5>2. c \notin wiped
            BY <1>2, <2>1, <3>4 DEF Stands
          <5> QED BY <5>1, <5>2, ItemsAreItems
        <4>4. HoldsItem(c, x.slot)
          BY <1>4, <2>1, <3>4, <4>2, <4>3 DEF SetSoFar, HasSetAll
        <4>5. store'[x.slot] = store[x.slot]
          BY <3>4 DEF HasSetAll
        <4> QED BY <3>1, <3>4, <4>1, <4>4, <4>5, HoldsStill
      <3>5. CASE d = c /\ ~Finishes(c) /\ ~HasSetAll(c)
        BY <2>1, <3>5 DEF WritesOwn, LooksOnly, SetsNext, Stands
      <3> QED BY <3>2, <3>3, <3>4, <3>5
    <2> QED BY <2>1 DEF AnswerHeld
  <1>10. FailedHeld'
    BY <1>2 DEF FailedHeld
  <1> QED BY <1>6, <1>7, <1>8, <1>9, <1>10

(* So does every step. *)
LEMMA TruthStep == TruthInv /\ [Next]_vars => TruthInv'
PROOF
  <1> SUFFICES ASSUME TruthInv, [Next]_vars
               PROVE  TruthInv'
    OBVIOUS
  <1>1. TypeOK'
    BY StepKinds DEF TruthInv
  <1>2. CASE \E c \in Pending : Begin(c) \/ Work(c)
    <2>1. PICK c \in Calls : Begin(c) \/ Work(c)
      BY <1>2 DEF Pending
    <2>2. WritesOwn(c)
      BY <2>1, CallWrites DEF TruthInv
    <2>3. (IdleHeld /\ UnwrittenHeld /\ SetSoFar /\ AnswerHeld /\ FailedHeld)'
      BY <2>2, TruthAfterCall
    <2> QED BY <1>1, <2>3 DEF TruthInv
  <1>3. CASE Clear \/ ClearAll
    <2>1. /\ \A s \in Slots : store'[s] = Absent
          /\ at' = at /\ next' = next /\ failed' = failed
          /\ wiped' = {c \in Calls : at[c] = "ok" \/ next[c] > 1}
      BY <1>3 DEF Clear, ClearAll, Wipe
    <2>2. IdleHeld' /\ UnwrittenHeld' /\ FailedHeld'
      BY <2>1 DEF TruthInv, IdleHeld, UnwrittenHeld, FailedHeld
    <2>3. SetSoFar'
      <3>1. \A c \in Calls : c \notin wiped' => next'[c] = 1
        BY <2>1 DEF TruthInv, TypeOK
      <3> QED BY <3>1 DEF SetSoFar
    <2>4. AnswerHeld'
      BY <2>1 DEF AnswerHeld, Stands
    <2> QED BY <1>1, <2>2, <2>3, <2>4 DEF TruthInv
  <1>4. CASE (\E e \in Entities : RegisterSchema(e)) \/ Tick \/ UNCHANGED vars
    <2>1. UNCHANGED <<store, at, next, failed, wiped>>
      BY <1>4 DEF RegisterSchema, Tick, vars
    <2> QED BY <1>1, <2>1
         DEF TruthInv, IdleHeld, UnwrittenHeld, SetSoFar, AnswerHeld, FailedHeld, OnlyFor,
             HoldsItem, Stands
  <1> QED BY <1>2, <1>3, <1>4 DEF Next

(* What a call answered is what the store holds, unless another call that was made
   aims at the slot: a rejected call left nothing, an answered one all its items but
   those named in failedKeys - whatever else runs, is wiped or registered. *)
THEOREM AnswersStayTrue == Spec => []AnswersAreTrue
PROOF
  <1>1. Init => TruthInv
    BY DEF Init, TruthInv, TypeOK, Progress, IdleHeld, UnwrittenHeld, SetSoFar, AnswerHeld,
           FailedHeld, Stands
  <1>2. TruthInv => AnswersAreTrue
    <2> SUFFICES ASSUME TruthInv,
                        NEW c \in Calls, at[c] = "rejected" \/ Stands(c),
                        NEW x \in ItemsOf[c],
                        \A d \in Calls \ {c} : at[d] = "idle" \/ x.slot \notin Targets[d]
                 PROVE  /\ at[c] = "rejected" /\ Request[c].op # "setMany" => store[x.slot] = Absent
                        /\ at[c] = "ok" /\ Request[c].op # "batchDelete" =>
                              IF x.slot \in failed[c] THEN store[x.slot] = Absent
                              ELSE /\ store[x.slot] # Absent
                                   /\ \E y \in ItemsOf[c] : /\ y.slot = x.slot
                                                            /\ y.value = store[x.slot].value
      BY DEF AnswersAreTrue
    <2>1. OnlyFor(c, x.slot) /\ x.slot \in Slots
      BY ItemSlot DEF OnlyFor
    <2>2. at[c] = "ok" => Stands(c)
      BY DEF Stands
    <2> QED BY <2>1, <2>2 DEF TruthInv, UnwrittenHeld, AnswerHeld, HoldsItem
  <1> QED BY <1>1, <1>2, TruthStep, PTL DEF Spec

-----------------------------------------------------------------------------
(* Paged queries (KVStore) *)

\* What a row may be sorted by, and two rows that either both have it or both lack it.
SortValues == Nat \cup {NoRange}
Alike(a, b) == a \in SortValues /\ b \in SortValues /\ (a = NoRange <=> b = NoRange)

\* Rows that lack it are sorted as if it were the same for all.
Weight(a) == IF a = NoRange THEN 0 ELSE a

\* Position (a, k) is beyond position (b, l).
Past(a, k, b, l) == Position(a, k, b, l) > 0

(* Among positions that are alike the order is the lexicographic one. *)
LEMMA PastIs ==
    ASSUME NEW a, NEW b, Alike(a, b), NEW k \in Keys, NEW l \in Keys
    PROVE  /\ KeyRank[k] \in Nat /\ KeyRank[l] \in Nat
           /\ Past(a, k, b, l) <=>
                IF Descending
                THEN Weight(a) < Weight(b) \/ (Weight(a) = Weight(b) /\ KeyRank[k] < KeyRank[l])
                ELSE Weight(b) < Weight(a) \/ (Weight(a) = Weight(b) /\ KeyRank[l] < KeyRank[k])
           /\ Position(a, k, b, l) <= 0 <=> ~Past(a, k, b, l)
PROOF
  <1>1. KeyRank[k] \in Nat /\ KeyRank[l] \in Nat /\ NoRange \notin Nat /\ Descending \in BOOLEAN
    BY QueryAssumption
  <1>2. PICK m \in Nat : m = KeyRank[k]
    BY <1>1
  <1>3. PICK n \in Nat : n = KeyRank[l]
    BY <1>1
  <1>4. PICK v, w : v = Weight(a) /\ w = Weight(b)
    OBVIOUS
  <1>5. v \in Nat /\ w \in Nat
    BY <1>4 DEF Weight, Alike, SortValues
  <1>6. Compare(a, b) = IF v < w THEN -1 ELSE IF v > w THEN 1 ELSE 0
    <2>1. CASE a = NoRange
      <3>1. b = NoRange
        BY <2>1 DEF Alike
      <3>2. v = 0 /\ w = 0
        BY <1>4, <2>1, <3>1 DEF Weight
      <3> QED BY <2>1, <3>2 DEF Compare
    <2>2. CASE a # NoRange
      <3>1. b # NoRange
        BY <2>2 DEF Alike
      <3>2. v = a /\ w = b
        BY <1>4, <2>2, <3>1 DEF Weight
      <3> QED BY <1>5, <2>2, <3>1, <3>2 DEF Compare
    <2> QED BY <2>1, <2>2
  <1>7. Compare(m, n) = IF m < n THEN -1 ELSE IF m > n THEN 1 ELSE 0
    BY <1>1 DEF Compare
  <1>8. Position(a, k, b, l) =
          LET cmp == IF Compare(a, b) = 0 THEN Compare(m, n) ELSE Compare(a, b)
          IN  IF Descending THEN -cmp ELSE cmp
    BY <1>2, <1>3 DEF Position
  <1>9. PICK cab \in Int : cab = Compare(a, b) /\ cab = IF v < w THEN -1 ELSE IF v > w THEN 1 ELSE 0
    BY <1>6
  <1>10. PICK cmn \in Int : cmn = Compare(m, n) /\ cmn = IF m < n THEN -1 ELSE IF m > n THEN 1 ELSE 0
    BY <1>7
  <1>11. Position(a, k, b, l) =
          IF Descending THEN -(IF cab = 0 THEN cmn ELSE cab) ELSE IF cab = 0 THEN cmn ELSE cab
    BY <1>8, <1>9, <1>10
  <1>12. PICK p \in Int : p = Position(a, k, b, l)
    BY <1>11
  <1>13. /\ p > 0 <=> IF Descending THEN v < w \/ (v = w /\ m < n) ELSE w < v \/ (v = w /\ n < m)
         /\ p <= 0 <=> ~(p > 0)
    BY <1>1, <1>5, <1>9, <1>10, <1>11, <1>12
  <1> QED BY <1>1, <1>2, <1>3, <1>4, <1>12, <1>13 DEF Past

(* It is a strict and total order of the positions of keys. *)
LEMMA PastOrders ==
    ASSUME NEW a, NEW b, NEW c, Alike(a, b), Alike(b, c),
           NEW k \in Keys, NEW l \in Keys, NEW m \in Keys
    PROVE  /\ k # l => Past(a, k, b, l) \/ Past(b, l, a, k)
           /\ ~(Past(a, k, b, l) /\ Past(b, l, a, k))
           /\ ~Past(a, k, a, k)
           /\ Past(a, k, b, l) /\ Past(b, l, c, m) => Past(a, k, c, m)
           /\ Past(a, k, b, l) /\ ~Past(c, m, b, l) => Past(a, k, c, m)
PROOF
  <1>1. KeyRank[k] = KeyRank[l] => k = l
    BY QueryAssumption
  <1>2. PICK x, y, z : x = KeyRank[k] /\ y = KeyRank[l] /\ z = KeyRank[m]
    OBVIOUS
  <1>3. PICK d, e, f : d = Weight(a) /\ e = Weight(b) /\ f = Weight(c)
    OBVIOUS
  <1>4. Alike(b, a) /\ Alike(a, a) /\ Alike(c, b) /\ Alike(a, c)
    BY DEF Alike
  <1>5. /\ x \in Nat /\ y \in Nat /\ z \in Nat
        /\ d \in Nat /\ e \in Nat /\ f \in Nat
    <2>1. x \in Nat /\ y \in Nat /\ z \in Nat
      BY <1>2, QueryAssumption
    <2> QED BY <1>3, <2>1 DEF Weight, Alike, SortValues
  <1> DEFINE Lex(u, r, v, s) == IF Descending THEN u < v \/ (u = v /\ r < s)
                                ELSE v < u \/ (u = v /\ s < r)
  <1>6. /\ Past(a, k, b, l) <=> Lex(d, x, e, y)
        /\ Past(b, l, a, k) <=> Lex(e, y, d, x)
        /\ Past(a, k, a, k) <=> Lex(d, x, d, x)
        /\ Past(b, l, c, m) <=> Lex(e, y, f, z)
        /\ Past(c, m, b, l) <=> Lex(f, z, e, y)
        /\ Past(a, k, c, m) <=> Lex(d, x, f, z)
    BY <1>2, <1>3, <1>4, PastIs
  <1>7. /\ x # y => Lex(d, x, e, y) \/ Lex(e, y, d, x)
        /\ ~(Lex(d, x, e, y) /\ Lex(e, y, d, x))
        /\ ~Lex(d, x, d, x)
        /\ Lex(d, x, e, y) /\ Lex(e, y, f, z) => Lex(d, x, f, z)
        /\ Lex(d, x, e, y) /\ ~Lex(f, z, e, y) => Lex(d, x, f, z)
    BY <1>5
  <1> HIDE DEF Lex
  <1> QED BY <1>1, <1>2, <1>6, <1>7

(* Every row has a sort value, or lacks it as all others do. *)
LEMMA RowsAreAlike ==
    ASSUME NEW k \in Rows
    PROVE  /\ k \in Keys /\ SortValue(k) \in SortValues
           /\ ~IsMixture => \A l \in Rows : Alike(SortValue(k), SortValue(l))
PROOF
  <1>1. ASSUME NEW l \in Rows
        PROVE  /\ l \in Keys /\ SortValue(l) \in SortValues
               /\ ~ByRange => SortValue(l) # NoRange
    <2>1. l \in Keys /\ KeyRank[l] \in Nat /\ NoRange \notin Nat
      BY <1>1, QueryAssumption DEF Rows
    <2>2. PICK v : v = store[SlotOf(l)].value
      OBVIOUS
    <2>3. v \in Filtered
      BY <1>1, <2>2 DEF Rows
    <2>4. RangeOf[v] \in SortValues
      BY <2>3, QueryAssumption DEF SortValues
    <2> QED BY <2>1, <2>2, <2>4 DEF SortValue, SortValues
  <1>2. ASSUME ~IsMixture, NEW l \in Rows PROVE Alike(SortValue(k), SortValue(l))
    <2>1. SortValue(k) = NoRange <=> SortValue(l) = NoRange
      BY <1>1, <1>2 DEF IsMixture
    <2> QED BY <1>1, <1>2, <2>1 DEF Alike
  <1> QED BY <1>1, <1>2

\* Row k is beyond row l.
RowPast(k, l) == Past(SortValue(k), k, SortValue(l), l)

(* So they are in a strict and total order. *)
LEMMA RowsAreOrdered ==
    ASSUME ~IsMixture
    PROVE  /\ \A k, l \in Rows : k # l => RowPast(k, l) \/ RowPast(l, k)
           /\ \A k, l \in Rows : ~(RowPast(k, l) /\ RowPast(l, k))
           /\ \A k \in Rows : ~RowPast(k, k)
           /\ \A k, l, m \in Rows : RowPast(k, l) /\ RowPast(l, m) => RowPast(k, m)
           /\ \A k, l \in Rows : RowCompare(k, l) <= 0 <=> ~RowPast(k, l)
BY RowsAreAlike, PastOrders, PastIs DEF RowPast, RowCompare

(* A sorted answer has each row, once, and the later ones are beyond the earlier. *)
LEMMA SortedRows ==
    ASSUME IsFiniteSet(Keys), NEW q \in Sortings(Rows)
    PROVE  /\ q \in Seq(Rows)
           /\ \A k \in Rows : \E i \in 1..Len(q) : q[i] = k
           /\ ~IsMixture => \A i, j \in 1..Len(q) : i < j => RowPast(q[j], q[i])
PROOF
  <1>1. IsFiniteSet(Rows)
    BY FS_Subset DEF Rows
  <1>2. PICK n : n = Cardinality(Rows)
    OBVIOUS
  <1>3. n \in Nat
    BY <1>1, <1>2, FS_CardinalityType
  <1>4. /\ q \in [1..n -> Rows] /\ \A i, j \in 1..n : i # j => q[i] # q[j]
        /\ IsMixture \/ \A i \in 1..Len(q) - 1 : RowCompare(q[i], q[i + 1]) <= 0
    BY <1>2, Zenon DEF Sortings, SetToSeqs
  <1>5. q \in Seq(Rows) /\ Len(q) = n
    BY <1>3, <1>4
  <1>6. q \in Injection(1..n, Rows)
    BY <1>4 DEF Injection, IsInjective
  <1>7. IsFiniteSet(1..n) /\ Cardinality(1..n) = n
    BY <1>3, FS_Interval
  <1>8. q \in Surjection(1..n, Rows)
    BY <1>1, <1>2, <1>6, <1>7, FS_Injection
  <1>9. \A k \in Rows : \E i \in 1..n : q[i] = k
    BY <1>8 DEF Surjection
  <1>10. ASSUME ~IsMixture, NEW i \in 1..n, i < n PROVE RowPast(q[i + 1], q[i])
    <2>1. i \in 1..Len(q) - 1 /\ i + 1 \in 1..n /\ i + 1 # i
      BY <1>3, <1>5, <1>10
    <2>2. RowCompare(q[i], q[i + 1]) <= 0 /\ q[i] # q[i + 1] /\ q[i] \in Rows /\ q[i + 1] \in Rows
      BY <1>4, <1>10, <2>1
    <2> QED BY <1>10, <2>2, RowsAreOrdered
  <1>11. ASSUME ~IsMixture, NEW i \in 1..n, NEW j \in 1..n, i < j, ~RowPast(q[j], q[i])
         PROVE  FALSE
    <2> DEFINE Bad == {h \in 1..n : i < h /\ ~RowPast(q[h], q[i])}
    <2>1. j \in Bad /\ Bad \in SUBSET (1..n)
      BY <1>11
    <2>2. PICK h \in Bad : \A m \in Bad : h <= m
      <3> HIDE DEF Bad
      <3> QED BY <1>3, <2>1, FirstPlace
    <2>3. h \in 1..n /\ i < h /\ ~RowPast(q[h], q[i])
      OBVIOUS
    <2>4. PICK g \in Nat : h = g + 1 /\ g \in 1..n /\ g < n /\ i <= g
      BY <1>3, <2>3
    <2>5. RowPast(q[h], q[g])
      BY <1>10, <1>11, <2>4
    <2>6. i # g
      BY <2>3, <2>5
    <2>7. i < g /\ g < h
      BY <2>3, <2>4, <2>6
    <2>8. g \notin Bad
      <3> HIDE DEF Bad
      <3> QED BY <2>2, <2>3, <2>4, <2>7
    <2>9. RowPast(q[g], q[i])
      BY <2>4, <2>7, <2>8
    <2>10. q[h] \in Rows /\ q[g] \in Rows /\ q[i] \in Rows
      BY <1>4, <2>3, <2>4
    <2> QED BY <1>11, <2>3, <2>5, <2>9, <2>10, RowsAreOrdered
  <1> QED BY <1>5, <1>9, <1>11

\* The row is not behind the cursor, if there is one.
IsAhead(k) == cursor = NoCursor \/ k \in BeyondCursor

(* The rows that a page is cut from: those ahead, each once, in their order. *)
LEMMA AheadOnly ==
    ASSUME IsFiniteSet(Keys), NEW q \in Sortings(Rows), NEW r, r = Beyond(q)
    PROVE  /\ r \in Seq(Rows)
           /\ \A k \in Rows : IsAhead(k) <=> \E i \in 1..Len(r) : r[i] = k
           /\ ~IsMixture => \A i, j \in 1..Len(r) : i < j => RowPast(r[j], r[i])
PROOF
  <1>1. /\ q \in Seq(Rows)
        /\ \A k \in Rows : \E i \in 1..Len(q) : q[i] = k
        /\ ~IsMixture => \A i, j \in 1..Len(q) : i < j => RowPast(q[j], q[i])
    BY SortedRows
  <1>2. CASE cursor = NoCursor
    BY <1>1, <1>2 DEF Beyond, IsAhead
  <1>3. CASE cursor # NoCursor
    <2>1. r = Filtering(q, BeyondCursor)[Len(q)]
      BY <1>3 DEF Beyond, KeysIn, Filtering, Filters
    <2>2. r \in Seq(Rows) /\ \E g : PicksUpTo(Len(q), g, r, q, BeyondCursor)
      BY <1>1, <2>1, FilterIs
    <2>3. PICK g : PicksUpTo(Len(q), g, r, q, BeyondCursor)
      BY <2>2
    <2>4. Len(r) \in Nat
      BY <2>2
    <2>5. \A k \in Rows : IsAhead(k) <=> \E i \in 1..Len(r) : r[i] = k
      <3>1. q \in Seq(Rows) /\ \A k \in Rows : \E i \in 1..Len(q) : q[i] = k
        BY <1>1
      <3>2. \A i \in 1..Len(r) : IsAhead(r[i])
        BY <2>3 DEF PicksUpTo, IsAhead
      <3>3. ASSUME NEW k \in Rows, IsAhead(k)
            PROVE  \E i \in 1..Len(r) : r[i] = k
        <4>1. PICK j \in 1..Len(q) : q[j] = k
          BY <3>1
        <4>2. PICK i \in 1..Len(r) : g[i] = j
          BY <1>3, <2>3, <3>3, <4>1 DEF PicksUpTo, IsAhead
        <4> QED BY <2>3, <4>1, <4>2 DEF PicksUpTo
      <3> QED BY <3>2, <3>3
    <2>6. ASSUME ~IsMixture, NEW i \in 1..Len(r), NEW j \in 1..Len(r), i < j
          PROVE  RowPast(r[j], r[i])
      <3>1. /\ g[i] \in 1..Len(q) /\ g[j] \in 1..Len(q) /\ g[i] < g[j]
            /\ r[i] = q[g[i]] /\ r[j] = q[g[j]]
        BY <2>3, <2>6 DEF PicksUpTo
      <3>2. RowPast(q[g[j]], q[g[i]])
        BY <1>1, <2>6, <3>1
      <3> QED BY <3>1, <3>2
    <2> QED BY <2>2, <2>5, <2>6
  <1> QED BY <1>2, <1>3

\* The rows that a page returns: all that are ahead, or those up to a last one.
IsPage(pg) ==
    /\ pg \in Seq(Rows)
    /\ ~IsMixture => \A i, j \in 1..Len(pg) : pg[i] = pg[j] => i = j
    /\ \A i \in 1..Len(pg) : IsAhead(pg[i])
    /\ returned' = (IF paging = "on" THEN returned ELSE <<>>) \o pg

EndsThere(pg) ==
    /\ paging' = "off" /\ cursor' = NoCursor
    /\ \A k \in Rows : IsAhead(k) => \E i \in 1..Len(pg) : pg[i] = k

GoesOnAt(pg, last) ==
    /\ paging' = "on" /\ cursor' = [k |-> last, s |-> CursorValue(last)]
    /\ pg # <<>>
    /\ IsAhead(last)
    /\ ~IsMixture =>
         \A k \in Rows : IsAhead(k) => (RowPast(k, last) <=> ~\E i \in 1..Len(pg) : pg[i] = k)

(* A page returns them. *)
LEMMA PageReads ==
    ASSUME IsFiniteSet(Keys), NEW q \in Sortings(Rows), Page(q)
    PROVE  \E pg : IsPage(pg) /\ (EndsThere(pg) \/ \E last \in Rows : GoesOnAt(pg, last))
PROOF
  <1>1. PICK r : r = Beyond(q)
    OBVIOUS
  <1>2. /\ r \in Seq(Rows)
        /\ \A k \in Rows : IsAhead(k) <=> \E i \in 1..Len(r) : r[i] = k
        /\ ~IsMixture => \A i, j \in 1..Len(r) : i < j => RowPast(r[j], r[i])
    BY <1>1, AheadOnly
  <1>3. Len(r) \in Nat /\ Limit \in Nat /\ Limit > 0
    BY <1>2, QueryAssumption
  <1>4. PICK n : n = IF Len(r) < Limit THEN Len(r) ELSE Limit
    OBVIOUS
  <1>5. PICK pg : pg = SubSeq(r, 1, n)
    OBVIOUS
  <1>6. /\ returned' = (IF paging = "on" THEN returned ELSE <<>>) \o pg
        /\ cursor' = IF Len(r) > Limit THEN [k |-> Last(pg), s |-> CursorValue(Last(pg))]
                     ELSE NoCursor
        /\ paging' = IF Len(r) > Limit THEN "on" ELSE "off"
    BY <1>1, <1>4, <1>5 DEF Page
  <1>7. n \in 0..Len(r) /\ (n = 0 => Len(r) = 0) /\ n <= Limit /\ (Len(r) <= Limit => n = Len(r))
        /\ (Len(r) > Limit => n = Limit)
    BY <1>3, <1>4
  <1>8. pg \in Seq(Rows) /\ Len(pg) = n /\ \A i \in 1..n : pg[i] = r[i]
    <2>1. CASE n = 0
      <3>1. Len(r) = 0
        BY <1>7, <2>1
      <3>2. r = <<>> /\ pg = <<>>
        BY <1>2, <1>5, <2>1, <3>1
      <3> QED BY <2>1, <3>2
    <2>2. CASE n # 0
      <3>1. n \in 1..Len(r)
        BY <1>3, <1>7, <2>2
      <3> QED BY <1>2, <1>5, <3>1, FrontAndRest
    <2> QED BY <2>1, <2>2
  <1>9. \A i \in 1..n : i \in 1..Len(r) /\ r[i] \in Rows
    BY <1>2, <1>3, <1>7
  <1>10. ASSUME ~IsMixture, NEW i \in 1..Len(r), NEW j \in 1..Len(r), r[i] = r[j]
         PROVE  i = j
    <2>1. r[i] \in Rows
      BY <1>2
    <2>2. ~(i < j) /\ ~(j < i)
      BY <1>2, <1>10, <2>1, RowsAreOrdered
    <2> QED BY <1>3, <2>2
  <1>11. IsPage(pg)
    <2>1. ~IsMixture => \A i, j \in 1..Len(pg) : pg[i] = pg[j] => i = j
      BY <1>8, <1>9, <1>10
    <2>2. \A i \in 1..Len(pg) : IsAhead(pg[i])
      BY <1>2, <1>8, <1>9
    <2> QED BY <1>6, <1>8, <2>1, <2>2 DEF IsPage
  <1>12. CASE Len(r) <= Limit
    <2>1. ~(Len(r) > Limit)
      BY <1>3, <1>12
    <2>2. paging' = "off" /\ cursor' = NoCursor
      BY <1>6, <2>1
    <2>3. n = Len(r)
      BY <1>7, <1>12
    <2>4. \A k \in Rows : IsAhead(k) => \E i \in 1..Len(pg) : pg[i] = k
      BY <1>2, <1>8, <2>3
    <2>5. EndsThere(pg)
      BY <2>2, <2>4 DEF EndsThere
    <2> QED BY <1>11, <2>5
  <1>13. CASE Len(r) > Limit
    <2>1. n \in 1..Len(r) /\ n = Limit
      BY <1>3, <1>7, <1>13
    <2>2. PICK last \in Rows : last = r[n]
      BY <1>9, <2>1
    <2>3. Last(pg) = last
      BY <1>8, <2>1, <2>2 DEF Last
    <2>4. paging' = "on" /\ cursor' = [k |-> last, s |-> CursorValue(last)]
      BY <1>6, <1>13, <2>3
    <2>5. pg # <<>> /\ IsAhead(last)
      BY <1>2, <1>8, <2>1, <2>2
    <2>6. ASSUME ~IsMixture, NEW k \in Rows, IsAhead(k)
          PROVE  RowPast(k, last) <=> ~\E i \in 1..Len(pg) : pg[i] = k
      <3>1. PICK h \in 1..Len(r) : r[h] = k
        BY <1>2, <2>6
      <3>2. CASE h <= n
        <4>1. h \in 1..Len(pg) /\ pg[h] = k
          BY <1>3, <1>8, <2>1, <3>1, <3>2
        <4>2. ~RowPast(k, last)
          <5>1. CASE h = n
            BY <2>2, <2>6, <3>1, <5>1, RowsAreOrdered
          <5>2. CASE h < n
            <6>1. RowPast(last, k)
              BY <1>2, <2>1, <2>2, <2>6, <3>1, <5>2
            <6> QED BY <2>6, <6>1, RowsAreOrdered
          <5> QED BY <1>3, <2>1, <3>1, <3>2, <5>1, <5>2
        <4> QED BY <4>1, <4>2
      <3>3. CASE n < h
        <4>1. RowPast(k, last)
          BY <1>2, <2>1, <2>2, <2>6, <3>1, <3>3
        <4>2. ASSUME NEW i \in 1..Len(pg), pg[i] = k PROVE FALSE
          <5>1. i \in 1..Len(r) /\ r[i] = k /\ i <= n
            BY <1>3, <1>8, <1>9, <4>2
          <5>2. i = h
            BY <1>10, <2>6, <3>1, <5>1
          <5> QED BY <1>3, <2>1, <3>3, <5>1, <5>2
        <4> QED BY <4>1, <4>2
      <3> QED BY <1>3, <2>1, <3>1, <3>2, <3>3
    <2>7. GoesOnAt(pg, last)
      BY <2>4, <2>5, <2>6 DEF GoesOnAt
    <2> QED BY <1>11, <2>7
  <1> QED BY <1>3, <1>12, <1>13

-----------------------------------------------------------------------------
(* From page to page. *)

PagingTyped ==
    /\ touched \subseteq Keys /\ atStart \subseteq Keys
    /\ returned \in Seq(Keys)
    /\ paging \in {"off", "on"}
    /\ paging = "off" => cursor = NoCursor
    /\ paging = "on" => cursor # NoCursor /\ cursor.k \in Keys /\ returned # <<>>

\* A query has begun, and what it returned is kept.
UnderWay == paging = "on" \/ returned # <<>>

\* The cursor has a range value just if the rows that nobody writes to have one.
CursorFits ==
    paging = "on" =>
        /\ cursor.s \in SortValues
        /\ ByRange => \A k \in Rows \ touched : Alike(SortValue(k), cursor.s)

\* A row that nobody writes to stays as it was when the query began.
RowsStay ==
    UnderWay => \A k \in Keys \ touched : k \in atStart <=> k \in Rows

\* What is returned was a row.
ReturnedAreRows ==
    \A i \in 1..Len(returned) : returned[i] \in touched \/ returned[i] \in Rows

\* Of the rows nobody writes to, those up to the cursor have been returned, and no other.
ReadUpToCursor ==
    paging = "on" =>
        \A k \in Rows \ touched :
            (\E i \in 1..Len(returned) : returned[i] = k) <=> k \notin BeyondCursor

PagesInv ==
    /\ PagingTyped /\ CursorFits /\ RowsStay /\ ReturnedAreRows /\ ReadUpToCursor
    /\ PagesNeverRepeat /\ PagesMissNothing

\* What is in one of two sequences that follow each other.
IsOfBoth(s, a, p) ==
    /\ s \in Seq(Keys) /\ Len(s) = Len(a) + Len(p)
    /\ \A i \in 1..Len(s) : s[i] = IF i <= Len(a) THEN a[i] ELSE p[i - Len(a)]
    /\ \A k \in Keys :
          (\E i \in 1..Len(s) : s[i] = k) <=>
             (\E i \in 1..Len(a) : a[i] = k) \/ (\E i \in 1..Len(p) : p[i] = k)

(* A page after the others. *)
LEMMA OneAfterTheOther ==
    ASSUME NEW a \in Seq(Keys), NEW p \in Seq(Keys), NEW s, s = a \o p
    PROVE  IsOfBoth(s, a, p)
PROOF
  <1>1. /\ Len(a) \in Nat /\ Len(p) \in Nat
        /\ s \in Seq(Keys) /\ Len(s) = Len(a) + Len(p)
        /\ \A i \in 1..Len(s) : s[i] = IF i <= Len(a) THEN a[i] ELSE p[i - Len(a)]
    OBVIOUS
  <1>2. PICK m, n : m = Len(a) /\ n = Len(p)
    OBVIOUS
  <1>3. m \in Nat /\ n \in Nat /\ Len(s) = m + n
        /\ \A i \in 1..(m + n) : s[i] = IF i <= m THEN a[i] ELSE p[i - m]
    BY <1>1, <1>2
  <1>4. ASSUME NEW k \in Keys, NEW i \in 1..(m + n), s[i] = k
        PROVE  (\E j \in 1..m : a[j] = k) \/ (\E j \in 1..n : p[j] = k)
    <2>1. CASE i <= m
      <3>1. i \in 1..m /\ a[i] = k
        BY <1>3, <1>4, <2>1
      <3> QED BY <3>1
    <2>2. CASE ~(i <= m)
      <3>1. i - m \in 1..n /\ p[i - m] = k
        BY <1>3, <1>4, <2>2
      <3> QED BY <3>1
    <2> QED BY <2>1, <2>2
  <1>5. ASSUME NEW k \in Keys, NEW j \in 1..m, a[j] = k
        PROVE  \E i \in 1..(m + n) : s[i] = k
    <2>1. j \in 1..(m + n) /\ s[j] = k
      BY <1>3, <1>5
    <2> QED BY <2>1
  <1>6. ASSUME NEW k \in Keys, NEW j \in 1..n, p[j] = k
        PROVE  \E i \in 1..(m + n) : s[i] = k
    <2>1. j + m \in 1..(m + n) /\ ~(j + m <= m) /\ (j + m) - m = j
      BY <1>3
    <2>2. s[j + m] = k
      BY <1>3, <1>6, <2>1
    <2> QED BY <2>1, <2>2
  <1>7. \A k \in Keys :
          (\E i \in 1..(m + n) : s[i] = k) <=>
             (\E i \in 1..m : a[i] = k) \/ (\E i \in 1..n : p[i] = k)
    BY <1>4, <1>5, <1>6
  <1> QED BY <1>1, <1>2, <1>3, <1>7 DEF IsOfBoth

(* What a page says of the cursor and of the rows it read, in the state after it. *)
LEMMA RowsAfterPage ==
    ASSUME vars' = vars
    PROVE  /\ Rows' = Rows
           /\ ByRange' = ByRange
           /\ \A k \in Keys : SortValue(k)' = SortValue(k)
BY DEF vars, Rows, ByRange, HasIndex, Present, SlotOf, SortValue

(* Beyond the new cursor are the rows that are beyond the last one of the page. *)
LEMMA BeyondTheLast ==
    ASSUME vars' = vars, NEW last \in Rows,
           cursor' = [k |-> last, s |-> CursorValue(last)]
    PROVE  /\ BeyondCursor' = {k \in Rows : RowPast(k, last)}
           /\ cursor' # NoCursor /\ cursor'.k = last /\ last \in Keys
           /\ cursor'.s \in SortValues
           /\ ByRange => cursor'.s = SortValue(last)
PROOF
  <1>1. last \in Keys /\ SortValue(last) \in SortValues /\ NoRange \in SortValues
    BY RowsAreAlike DEF SortValues
  <1>2. cursor'.k = last /\ cursor'.s = CursorValue(last)
    OBVIOUS
  <1>3. cursor' # NoCursor
    BY DEF NoCursor
  <1>4. (IF ByRange THEN cursor'.s ELSE KeyRank[cursor'.k]) = SortValue(last)
    BY <1>2 DEF CursorValue, SortValue
  <1>5. BeyondCursor' = {k \in Rows : RowPast(k, last)}
    <2>1. PICK c : c = cursor'
      OBVIOUS
    <2>2. BeyondCursor' = {k \in Rows : Position(SortValue(k), k, SortValue(last), last) > 0}
      BY <1>2, <1>4, RowsAfterPage DEF BeyondCursor, Rows
    <2> QED BY <2>2 DEF RowPast, Past
  <1>6. cursor'.s \in SortValues /\ (ByRange => cursor'.s = SortValue(last))
    BY <1>1, <1>2 DEF CursorValue
  <1> QED BY <1>1, <1>2, <1>3, <1>5, <1>6

(* A row that is not ahead, and that nobody writes to, is not beyond one that is. *)
LEMMA BehindStaysBehind ==
    ASSUME ~IsMixture, PagingTyped, CursorFits,
           NEW k \in Rows \ touched, NEW last \in Rows, ~IsAhead(k), IsAhead(last)
    PROVE  ~RowPast(k, last)
PROOF
  <1>1. cursor # NoCursor /\ k \notin BeyondCursor /\ last \in BeyondCursor
    BY DEF IsAhead
  <1>2. /\ cursor.k \in Keys /\ cursor.s \in SortValues
        /\ ByRange => Alike(SortValue(k), cursor.s)
    BY <1>1 DEF PagingTyped, CursorFits
  <1>3. PICK s : s = IF ByRange THEN cursor.s ELSE KeyRank[cursor.k]
    OBVIOUS
  <1>4. k \in Keys /\ last \in Keys /\ Alike(SortValue(last), SortValue(k))
    BY RowsAreAlike
  <1>5. Alike(SortValue(k), s)
    <2>1. CASE ByRange
      BY <1>2, <1>3, <2>1
    <2>2. CASE ~ByRange
      <3>1. SortValue(k) = KeyRank[k] /\ s = KeyRank[cursor.k]
        BY <1>3, <2>2 DEF SortValue
      <3>2. SortValue(k) \in Nat /\ s \in Nat /\ NoRange \notin Nat
        BY <1>2, <1>4, <3>1, QueryAssumption
      <3> QED BY <3>2 DEF Alike, SortValues
    <2> QED BY <2>1, <2>2
  <1>6. Alike(SortValue(last), s) /\ Alike(s, SortValue(k))
    BY <1>4, <1>5 DEF Alike
  <1>7. Past(SortValue(last), last, s, cursor.k) /\ ~Past(SortValue(k), k, s, cursor.k)
    BY <1>1, <1>3 DEF BeyondCursor, Past
  <1>8. Past(SortValue(last), last, SortValue(k), k)
    BY <1>2, <1>4, <1>6, <1>7, PastOrders
  <1>9. RowPast(last, k)
    BY <1>8 DEF RowPast
  <1> QED BY <1>9, RowsAreOrdered

\* What had been returned when a page is read, of rows nobody writes to.
HadRead(a) ==
    /\ a \in Seq(Keys)
    /\ \A i \in 1..Len(a) : a[i] \in touched' \/ a[i] \in Rows
    /\ \A i, j \in 1..Len(a) : i # j /\ a[i] = a[j] => a[i] \in touched'
    /\ \A k \in Rows \ touched' : (\E i \in 1..Len(a) : a[i] = k) <=> ~IsAhead(k)

(* The page that is read is appended to what had been returned. *)
LEMMA PageFollows ==
    ASSUME PagesInv, GetMany, ~IsMixture, NEW a, a = IF paging = "on" THEN returned ELSE <<>>
    PROVE  /\ HadRead(a)
           /\ touched' \subseteq Keys /\ atStart' \subseteq Keys
           /\ \A k \in Keys \ touched' : k \in atStart' <=> k \in Rows
           /\ paging = "on" => touched' = touched
           /\ paging # "on" => \A k \in Rows : IsAhead(k)
PROOF
  <1>1. /\ atStart' = IF paging = "on" THEN atStart ELSE Rows
        /\ touched' = IF paging = "on" THEN touched ELSE {}
    BY DEF GetMany
  <1>2. CASE paging = "on"
    <2>1. a = returned /\ atStart' = atStart /\ touched' = touched /\ cursor # NoCursor
      BY <1>1, <1>2 DEF PagesInv, PagingTyped
    <2>2. a \in Seq(Keys) /\ touched \subseteq Keys /\ atStart \subseteq Keys
      BY <2>1 DEF PagesInv, PagingTyped
    <2>3. \A k \in Keys \ touched : k \in atStart <=> k \in Rows
      BY <1>2 DEF PagesInv, RowsStay, UnderWay
    <2>4. \A k \in Rows \ touched : (\E i \in 1..Len(a) : a[i] = k) <=> ~IsAhead(k)
      BY <1>2, <2>1 DEF PagesInv, ReadUpToCursor, IsAhead
    <2>5. /\ \A i \in 1..Len(a) : a[i] \in touched \/ a[i] \in Rows
          /\ \A i, j \in 1..Len(a) : i # j /\ a[i] = a[j] => a[i] \in touched
      BY <2>1 DEF PagesInv, ReturnedAreRows, PagesNeverRepeat
    <2> QED BY <1>2, <2>1, <2>2, <2>3, <2>4, <2>5 DEF HadRead
  <1>3. CASE paging # "on"
    <2>1. a = <<>> /\ atStart' = Rows /\ touched' = {}
      BY <1>1, <1>3
    <2>2. cursor = NoCursor
      BY <1>3 DEF PagesInv, PagingTyped
    <2>3. Len(a) = 0 /\ a \in Seq(Keys)
      <3>1. Len(<<>>) = 0 /\ <<>> \in Seq(Keys)
        BY EmptySeq
      <3>2. a = <<>>
        BY <2>1
      <3> QED BY <3>1, <3>2, Zenon
    <2>4. Rows \subseteq Keys
      BY DEF Rows
    <2> QED BY <1>3, <2>1, <2>2, <2>3, <2>4 DEF HadRead, IsAhead
  <1> QED BY <1>2, <1>3

(* A page that is cut from a mixture promises nothing. *)
LEMMA MixturesKeep ==
    ASSUME IsFiniteSet(Keys), PagesInv, GetMany, IsMixture
    PROVE  PagesInv'
PROOF
  <1>1. PICK q \in Sortings(Rows) : Page(q)
    BY DEF GetMany
  <1>2. vars' = vars /\ touched' = Keys /\ atStart' = IF paging = "on" THEN atStart ELSE Rows
    BY DEF GetMany
  <1>3. PICK p : IsPage(p) /\ (EndsThere(p) \/ \E last \in Rows : GoesOnAt(p, last))
    BY <1>1, PageReads
  <1>4. PICK a : a = IF paging = "on" THEN returned ELSE <<>>
    OBVIOUS
  <1>5. Rows' = Rows /\ Rows \subseteq Keys
    BY <1>2, RowsAfterPage DEF Rows
  <1>6. a \in Seq(Keys) /\ p \in Seq(Keys)
    <2>1. returned \in Seq(Keys) /\ <<>> \in Seq(Keys)
      BY DEF PagesInv, PagingTyped
    <2>2. p \in Seq(Rows)
      BY <1>3 DEF IsPage
    <2> QED BY <1>4, <1>5, <2>1, <2>2
  <1>7. returned' = a \o p
    BY <1>3, <1>4 DEF IsPage
  <1>8. returned' \in Seq(Keys) /\ (p # <<>> => returned' # <<>>)
    BY <1>6, <1>7
  <1>9. \A i \in 1..Len(returned') : returned'[i] \in touched'
    BY <1>2, <1>8
  <1>10. touched' \subseteq Keys /\ atStart' \subseteq touched' /\ Rows' \subseteq touched'
    BY <1>2, <1>5 DEF PagesInv, PagingTyped
  <1>11. PagingTyped' /\ CursorFits'
    <2>1. CASE EndsThere(p)
      BY <1>2, <1>8, <1>10, <2>1 DEF EndsThere, PagingTyped, CursorFits
    <2>2. CASE \E last \in Rows : GoesOnAt(p, last)
      <3>1. PICK last \in Rows : GoesOnAt(p, last)
        BY <2>2
      <3>2. /\ paging' = "on" /\ cursor' = [k |-> last, s |-> CursorValue(last)]
            /\ p # <<>>
        BY <3>1 DEF GoesOnAt
      <3>3. cursor' # NoCursor /\ cursor'.k \in Keys /\ cursor'.s \in SortValues
        BY <1>2, <3>2, BeyondTheLast
      <3>4. PagingTyped'
        BY <1>2, <1>8, <1>10, <3>2, <3>3 DEF PagingTyped
      <3>5. CursorFits'
        BY <1>10, <3>3 DEF CursorFits
      <3> QED BY <3>4, <3>5
    <2> QED BY <1>3, <2>1, <2>2
  <1>12. RowsStay' /\ ReturnedAreRows' /\ ReadUpToCursor'
    BY <1>2, <1>9, <1>10 DEF RowsStay, ReturnedAreRows, ReadUpToCursor
  <1>13. PagesNeverRepeat' /\ PagesMissNothing'
    BY <1>9, <1>10 DEF PagesNeverRepeat, PagesMissNothing
  <1> QED BY <1>11, <1>12, <1>13 DEF PagesInv

(* A page that is cut from rows that are alike keeps the promise. *)
LEMMA PagesOfRowsKeep ==
    ASSUME IsFiniteSet(Keys), PagesInv, GetMany, ~IsMixture
    PROVE  PagesInv'
PROOF
  <1>1. PICK q \in Sortings(Rows) : Page(q)
    BY DEF GetMany
  <1>2. vars' = vars
    BY DEF GetMany
  <1>3. PICK p : IsPage(p) /\ (EndsThere(p) \/ \E last \in Rows : GoesOnAt(p, last))
    BY <1>1, PageReads
  <1>4. PICK a : a = IF paging = "on" THEN returned ELSE <<>>
    OBVIOUS
  <1>5. /\ HadRead(a)
        /\ touched' \subseteq Keys /\ atStart' \subseteq Keys
        /\ \A k \in Keys \ touched' : k \in atStart' <=> k \in Rows
        /\ paging = "on" => touched' = touched
        /\ paging # "on" => \A k \in Rows : IsAhead(k)
    BY <1>4, PageFollows
  <1>6. PICK s : s = returned'
    OBVIOUS
  <1>7. /\ p \in Seq(Rows) /\ p \in Seq(Keys) /\ s = a \o p
        /\ \A i, j \in 1..Len(p) : p[i] = p[j] => i = j
        /\ \A i \in 1..Len(p) : p[i] \in Rows /\ IsAhead(p[i])
    <2>1. Rows \subseteq Keys
      BY DEF Rows
    <2>2. p \in Seq(Rows)
      BY <1>3 DEF IsPage
    <2>3. p \in Seq(Keys) /\ \A i \in 1..Len(p) : p[i] \in Rows
      BY <2>1, <2>2
    <2> QED BY <1>3, <1>4, <1>6, <2>2, <2>3 DEF IsPage
  <1>8. IsOfBoth(s, a, p) /\ a \in Seq(Keys)
    BY <1>5, <1>7, OneAfterTheOther DEF HadRead
  <1>9. /\ s \in Seq(Keys) /\ Len(s) = Len(a) + Len(p) /\ Len(a) \in Nat /\ Len(p) \in Nat
        /\ \A i \in 1..Len(s) : IF i <= Len(a) THEN i \in 1..Len(a) /\ s[i] = a[i]
                                ELSE i - Len(a) \in 1..Len(p) /\ s[i] = p[i - Len(a)]
    <2>1. /\ s \in Seq(Keys) /\ Len(s) = Len(a) + Len(p)
          /\ \A i \in 1..Len(s) : s[i] = IF i <= Len(a) THEN a[i] ELSE p[i - Len(a)]
      BY <1>8 DEF IsOfBoth
    <2>2. Len(a) \in Nat /\ Len(p) \in Nat
      BY <1>7, <1>8
    <2>3. \A i \in 1..Len(s) : IF i <= Len(a) THEN i \in 1..Len(a) ELSE i - Len(a) \in 1..Len(p)
      BY <2>1, <2>2
    <2> QED BY <2>1, <2>2, <2>3
  <1>10. \A k \in Rows \ touched' :
           (\E i \in 1..Len(s) : s[i] = k) <=> ~IsAhead(k) \/ (\E i \in 1..Len(p) : p[i] = k)
    <2>1. Rows \subseteq Keys
      BY DEF Rows
    <2>2. \A k \in Keys :
            (\E i \in 1..Len(s) : s[i] = k) <=>
               (\E i \in 1..Len(a) : a[i] = k) \/ (\E i \in 1..Len(p) : p[i] = k)
      BY <1>8 DEF IsOfBoth
    <2>3. \A k \in Rows \ touched' : (\E i \in 1..Len(a) : a[i] = k) <=> ~IsAhead(k)
      BY <1>5 DEF HadRead
    <2> QED BY <2>1, <2>2, <2>3
  <1>11. Rows' = Rows
    BY <1>2, RowsAfterPage
  <1>12. ReturnedAreRows'
    <2>1. \A i \in 1..Len(a) : a[i] \in touched' \/ a[i] \in Rows
      BY <1>5 DEF HadRead
    <2>2. \A i \in 1..Len(s) : s[i] \in touched' \/ s[i] \in Rows
      BY <1>7, <1>9, <2>1
    <2> QED BY <1>6, <1>11, <2>2 DEF ReturnedAreRows
  <1>13. PagesNeverRepeat'
    <2>1. ASSUME NEW i \in 1..Len(s), NEW j \in 1..Len(s), i # j, s[i] = s[j], s[i] \notin touched'
          PROVE  FALSE
      <3>1. ASSUME NEW m \in 1..Len(a), NEW n \in 1..Len(p), a[m] = p[n], a[m] \notin touched'
            PROVE  FALSE
        <4>1. a[m] \in Rows \ touched'
          BY <1>5, <3>1 DEF HadRead
        <4>2. ~IsAhead(a[m])
          BY <1>5, <4>1 DEF HadRead
        <4> QED BY <1>7, <3>1, <4>2
      <3>2. CASE i <= Len(a) /\ j <= Len(a)
        BY <1>5, <1>9, <2>1, <3>2 DEF HadRead
      <3>3. CASE i <= Len(a) /\ ~(j <= Len(a))
        BY <1>9, <2>1, <3>1, <3>3
      <3>4. CASE ~(i <= Len(a)) /\ j <= Len(a)
        BY <1>9, <2>1, <3>1, <3>4
      <3>5. CASE ~(i <= Len(a)) /\ ~(j <= Len(a))
        <4>1. i - Len(a) = j - Len(a)
          BY <1>7, <1>9, <2>1, <3>5
        <4> QED BY <1>9, <2>1, <4>1
      <3> QED BY <3>2, <3>3, <3>4, <3>5
    <2> QED BY <1>6, <2>1 DEF PagesNeverRepeat
  <1>14. RowsStay'
    BY <1>5, <1>11 DEF RowsStay
  <1>15. CASE EndsThere(p)
    <2>1. /\ paging' = "off" /\ cursor' = NoCursor
          /\ \A k \in Rows : IsAhead(k) => \E i \in 1..Len(p) : p[i] = k
      BY <1>15 DEF EndsThere
    <2>2. PagingTyped' /\ CursorFits' /\ ReadUpToCursor'
      BY <1>5, <1>6, <1>9, <2>1 DEF PagingTyped, CursorFits, ReadUpToCursor
    <2>3. ASSUME NEW k \in atStart' \ touched' PROVE k \in Range(s)
      <3>1. k \in Rows \ touched'
        BY <1>5, <2>3
      <3>2. \E i \in 1..Len(s) : s[i] = k
        BY <1>10, <2>1, <3>1
      <3>3. DOMAIN s = 1..Len(s)
        BY <1>9
      <3> QED BY <3>2, <3>3 DEF Range
    <2>4. PagesMissNothing'
      BY <1>6, <2>3 DEF PagesMissNothing
    <2> QED BY <1>12, <1>13, <1>14, <2>2, <2>4 DEF PagesInv
  <1>16. CASE \E last \in Rows : GoesOnAt(p, last)
    <2>1. PICK last \in Rows : GoesOnAt(p, last)
      BY <1>16
    <2>2. /\ paging' = "on" /\ cursor' = [k |-> last, s |-> CursorValue(last)]
          /\ p # <<>> /\ IsAhead(last)
          /\ \A k \in Rows :
                IsAhead(k) => (RowPast(k, last) <=> ~\E i \in 1..Len(p) : p[i] = k)
      BY <2>1 DEF GoesOnAt
    <2>3. /\ BeyondCursor' = {k \in Rows : RowPast(k, last)}
          /\ cursor' # NoCursor /\ cursor'.k = last
          /\ cursor'.s \in SortValues
          /\ ByRange => cursor'.s = SortValue(last)
      BY <1>2, <2>2, BeyondTheLast
    <2>4. last \in Keys /\ ByRange' = ByRange
      BY <1>2, RowsAfterPage DEF Rows
    <2>5. s # <<>>
      <3>1. Len(p) # 0
        BY <1>7, <2>2
      <3>2. Len(s) # 0
        BY <1>9, <3>1
      <3> QED BY <3>2
    <2>6. PagingTyped' /\ CursorFits' /\ PagesMissNothing'
      <3>1. PagingTyped'
        BY <1>5, <1>6, <1>9, <2>2, <2>3, <2>4, <2>5 DEF PagingTyped
      <3>2. CursorFits'
        <4>1. \A k \in Rows : /\ SortValue(k)' = SortValue(k)
                              /\ Alike(SortValue(k), SortValue(last))
          BY <1>2, RowsAfterPage, RowsAreAlike
        <4> QED BY <1>11, <2>3, <2>4, <4>1 DEF CursorFits
      <3>3. PagesMissNothing'
        BY <2>2 DEF PagesMissNothing
      <3> QED BY <3>1, <3>2, <3>3
    <2>7. ASSUME NEW k \in Rows \ touched'
          PROVE  (\E i \in 1..Len(s) : s[i] = k) <=> ~RowPast(k, last)
      <3>1. CASE IsAhead(k)
        BY <1>10, <2>2, <3>1
      <3>2. CASE ~IsAhead(k)
        <4>1. k \in Rows \ touched
          BY <1>5, <2>7, <3>2
        <4>2. ~RowPast(k, last)
          BY <2>2, <3>2, <4>1, BehindStaysBehind DEF PagesInv
        <4> QED BY <1>10, <3>2, <4>2
      <3> QED BY <3>1, <3>2
    <2>8. ReadUpToCursor'
      BY <1>6, <1>11, <2>3, <2>7 DEF ReadUpToCursor
    <2> QED BY <1>12, <1>13, <1>14, <2>6, <2>8 DEF PagesInv
  <1> QED BY <1>3, <1>15, <1>16

(* A page keeps the promise. *)
LEMMA PageKeeps ==
    ASSUME IsFiniteSet(Keys), PagesInv, GetMany
    PROVE  PagesInv'
BY MixturesKeep, PagesOfRowsKeep

(* What the storage does between two pages leaves the rows it does not write to. *)
LEMMA StoreKeeps ==
    ASSUME PagesInv, StoreStep
    PROVE  PagesInv'
PROOF
  <1>1. /\ touched' = IF HasIndex # HasIndex' THEN Keys
                      ELSE touched \cup {k \in Keys : store'[SlotOf(k)] # store[SlotOf(k)]}
        /\ paging' = paging /\ cursor' = cursor /\ returned' = returned /\ atStart' = atStart
    BY DEF StoreStep, HasIndex
  <1>2. touched \subseteq touched' /\ touched' \subseteq Keys
    BY <1>1 DEF PagesInv, PagingTyped
  <1>3. ASSUME NEW k \in Keys, k \notin touched'
        PROVE  /\ HasIndex' = HasIndex /\ ByRange' = ByRange
               /\ k \in Rows' <=> k \in Rows
               /\ SortValue(k)' = SortValue(k)
    <2>1. HasIndex' = HasIndex /\ store'[SlotOf(k)] = store[SlotOf(k)]
      BY <1>1, <1>3
    <2>2. ByRange' = ByRange
      BY <2>1 DEF ByRange
    <2>3. k \in Rows' <=> k \in Rows
      BY <2>1 DEF Rows, Present, SlotOf
    <2>4. SortValue(k)' = SortValue(k)
      BY <2>1, <2>2 DEF SortValue, SlotOf
    <2> QED BY <2>1, <2>2, <2>3, <2>4
  <1>4. PagingTyped'
    BY <1>1, <1>2 DEF PagesInv, PagingTyped
  <1>5. CursorFits'
    <2> SUFFICES ASSUME paging = "on"
                 PROVE  /\ cursor.s \in SortValues
                        /\ ByRange' => \A k \in Rows' \ touched' : Alike(SortValue(k)', cursor.s)
      BY <1>1 DEF CursorFits
    <2>1. /\ cursor.s \in SortValues
          /\ ByRange => \A k \in Rows \ touched : Alike(SortValue(k), cursor.s)
      BY DEF PagesInv, CursorFits
    <2>2. \A k \in Rows' \ touched' : /\ ByRange' = ByRange /\ SortValue(k)' = SortValue(k)
                                      /\ k \in Rows \ touched
      BY <1>2, <1>3 DEF Rows
    <2> QED BY <2>1, <2>2
  <1>6. RowsStay'
    BY <1>1, <1>2, <1>3 DEF PagesInv, RowsStay, UnderWay
  <1>7. ReturnedAreRows'
    <2>1. \A i \in 1..Len(returned) : returned[i] \in Keys
      BY DEF PagesInv, PagingTyped
    <2>2. \A i \in 1..Len(returned) : returned[i] \in touched \/ returned[i] \in Rows
      BY DEF PagesInv, ReturnedAreRows
    <2>3. \A i \in 1..Len(returned) : returned[i] \in touched' \/ returned[i] \in Rows'
      BY <1>2, <1>3, <2>1, <2>2
    <2> QED BY <1>1, <2>3 DEF ReturnedAreRows
  <1>8. ReadUpToCursor'
    <2> SUFFICES ASSUME paging = "on", NEW k \in Rows' \ touched'
                 PROVE  (\E i \in 1..Len(returned) : returned[i] = k) <=> k \notin BeyondCursor'
      BY <1>1 DEF ReadUpToCursor
    <2>1. k \in Keys /\ k \notin touched' /\ k \notin touched
      BY <1>2 DEF Rows
    <2>2. k \in Rows /\ SortValue(k)' = SortValue(k) /\ ByRange' = ByRange
      BY <1>3, <2>1
    <2>3. k \in BeyondCursor' <=> k \in BeyondCursor
      BY <1>1, <2>2 DEF BeyondCursor
    <2>4. (\E i \in 1..Len(returned) : returned[i] = k) <=> k \notin BeyondCursor
      BY <2>1, <2>2 DEF PagesInv, ReadUpToCursor
    <2> QED BY <2>3, <2>4
  <1>9. PagesNeverRepeat'
    BY <1>1, <1>2 DEF PagesInv, PagesNeverRepeat
  <1>10. PagesMissNothing'
    BY <1>1, <1>2 DEF PagesInv, PagesMissNothing
  <1> QED BY <1>4, <1>5, <1>6, <1>7, <1>8, <1>9, <1>10 DEF PagesInv

(* There is no query at first. *)
LEMMA NoPagesAtFirst == QueryInit => PagesInv
PROOF
  <1> SUFFICES ASSUME QueryInit PROVE PagesInv
    OBVIOUS
  <1>1. paging = "off" /\ cursor = NoCursor /\ returned = <<>> /\ atStart = {} /\ touched = {}
    BY DEF QueryInit
  <1>2. returned \in Seq(Keys) /\ Len(returned) = 0
    BY <1>1
  <1> QED BY <1>1, <1>2
       DEF PagesInv, PagingTyped, CursorFits, RowsStay, UnderWay, ReturnedAreRows,
           ReadUpToCursor, PagesNeverRepeat, PagesMissNothing

(* Nothing happens to it while nothing happens. *)
LEMMA PagesRest ==
    ASSUME PagesInv, UNCHANGED allVars
    PROVE  PagesInv'
BY DEF allVars, vars, queryVars, PagesInv, PagingTyped, CursorFits, RowsStay, UnderWay,
       ReturnedAreRows, ReadUpToCursor, PagesNeverRepeat, PagesMissNothing, ByRange, HasIndex,
       Rows, Present, SlotOf, BeyondCursor, SortValue

(* All pages of a query together are what a reader expects, whatever is written or
   deleted meanwhile: each row that nobody writes to, once, unless a page was cut from a
   mixture of rows with and without the range attribute - for finitely many keys. *)
THEOREM PagesStayExact ==
    ASSUME IsFiniteSet(Keys)
    PROVE  QuerySpec => []PagesAreExact
PROOF
  <1>1. PagesInv /\ [QueryNext]_allVars => PagesInv'
    BY PageKeeps, StoreKeeps, PagesRest DEF QueryNext
  <1>2. PagesInv => PagesAreExact
    BY DEF PagesInv, PagesAreExact
  <1> QED BY <1>1, <1>2, NoPagesAtFirst, PTL DEF QuerySpec

-----------------------------------------------------------------------------
(* The captured console (ConsoleCapture) *)

BufferInv == CaptureTypeOK /\ BuffersMatchScopes /\ Len(opened) = Len(stack)

InBuffers(l) == {i \in DOMAIN stack : l \in stack[i]}
InHands(l) == {c \in Scopes : st[c] = "stopped" /\ l \in InHand(c)}
One(S) == \E x : S = {x}

Nowhere(l) == InBuffers(l) = {} /\ InHands(l) = {} /\ logged[l] = 0 /\ l \notin swallowed

InOnePlace(l) ==
    \/ One(InBuffers(l)) /\ InHands(l) = {} /\ logged[l] = 0 /\ l \notin swallowed
    \/ InBuffers(l) = {} /\ One(InHands(l)) /\ logged[l] = 0 /\ l \notin swallowed
    \/ InBuffers(l) = {} /\ InHands(l) = {} /\ logged[l] = 1 /\ l \notin swallowed
    \/ InBuffers(l) = {} /\ InHands(l) = {} /\ logged[l] = 0 /\ l \in swallowed

Located == ~shared => \A l \in Lines : IF l \in printed THEN InOnePlace(l) ELSE Nowhere(l)

LineInv == BufferInv /\ Located

(* The scope that was open before the i-th. *)
Before(i) == IF i = 1 THEN NoScope ELSE opened[i - 1]

Nested ==
    calm =>
       /\ \A c \in Scopes : c \in Open <=> \E i \in 1..Len(opened) : opened[i] = c
       /\ \A i, j \in 1..Len(opened) : opened[i] = opened[j] => i = j
       /\ \A i \in 1..Len(opened) : Parent[opened[i]] = Before(i)
       /\ \A i \in 1..Len(opened) : stack[i] \subseteq {opened[i]} \cup Outside

SettledLast == \A c, d \in Scopes : st[c] = "settled" /\ d \in Open => Parent[d] # c

NestInv == BufferInv /\ SettledLast /\ Nested /\ ScopesKeepTheirLines

-----------------------------------------------------------------------------
(* Sequences that grow and shrink at their end. *)
LEMMA Grows ==
  ASSUME NEW T, NEW s \in Seq(T), NEW x \in T
  PROVE  /\ Append(s, x) \in Seq(T)
         /\ Len(Append(s, x)) = Len(s) + 1
         /\ \A i \in 1..Len(s) : Append(s, x)[i] = s[i]
         /\ Append(s, x)[Len(s) + 1] = x
  OBVIOUS

(* The same for Pop(). *)
LEMMA Shrinks ==
  ASSUME NEW T, NEW s \in Seq(T), Len(s) >= 1
  PROVE  /\ Pop(s) \in Seq(T)
         /\ Len(Pop(s)) = Len(s) - 1
         /\ \A i \in 1..(Len(s) - 1) : Pop(s)[i] = s[i]
<1>1. Len(s) \in Nat /\ \A i \in 1..(Len(s) - 1) : s[i] \in T
  OBVIOUS
<1>. DEFINE m == 1
            n == Len(s) - 1
<1>2. m \in Int /\ n \in Int /\ \A i \in m..n : s[i] \in T
  BY <1>1
<1>. HIDE DEF m, n
<1>3. /\ SubSeq(s, m, n) \in Seq(T)
      /\ Len(SubSeq(s, m, n)) = IF m <= n THEN n - m + 1 ELSE 0
      /\ \A i \in 1..(n - m + 1) : SubSeq(s, m, n)[i] = s[m + i - 1]
  BY <1>2, SubSeqProperties
<1>4. m = 1 /\ n = Len(s) - 1
  BY DEF m, n
<1>5. Pop(s) = SubSeq(s, m, n)
  BY <1>4 DEF Pop
<1>6. Len(SubSeq(s, m, n)) = Len(s) - 1
  BY <1>1, <1>3, <1>4
<1>7. \A i \in 1..(Len(s) - 1) : SubSeq(s, m, n)[i] = s[i]
  BY <1>1, <1>3, <1>4
<1>. QED
  BY <1>3, <1>5, <1>6, <1>7

(* The same for a sequence in which one element is replaced. *)
LEMMA Replaces ==
  ASSUME NEW T, NEW s \in Seq(T), NEW n \in 1..Len(s), NEW x \in T
  PROVE  /\ [s EXCEPT ![n] = x] \in Seq(T)
         /\ Len([s EXCEPT ![n] = x]) = Len(s)
         /\ \A i \in 1..Len(s) : [s EXCEPT ![n] = x][i] = IF i = n THEN x ELSE s[i]
  OBVIOUS

(* There are finitely many scopes, hence finitely many open ones. *)
LEMMA OpenIsFinite == IsFiniteSet(Open)
  BY CaptureAssumption, FS_Subset DEF Open

(* One scope more, or one less, is open. *)
LEMMA CountChanges ==
  ASSUME BufferInv, NEW c \in Scopes
  PROVE  /\ c \notin Open => Cardinality(Open \cup {c}) = Len(stack) + 1
         /\ c \in Open => Cardinality(Open \ {c}) = Len(stack) - 1 /\ Len(stack) >= 1
<1>1. Len(stack) \in Nat /\ Len(stack) = Cardinality(Open)
  BY DEF BufferInv, BuffersMatchScopes, CaptureTypeOK
<1>2. c \notin Open => Cardinality(Open \cup {c}) = Cardinality(Open) + 1
  BY OpenIsFinite, FS_AddElement
<1>3. ASSUME c \in Open
      PROVE  Cardinality(Open \ {c}) = Cardinality(Open) - 1 /\ Cardinality(Open) # 0
  BY <1>3, OpenIsFinite, FS_RemoveElement, FS_EmptySet
<1>. QED
  BY <1>1, <1>2, <1>3

(* The buffer on top, and what is in hand, are sets of lines. *)
LEMMA HandsHoldLines ==
  ASSUME CaptureTypeOK, NEW c \in Scopes
  PROVE  Popped(c) \in SUBSET Lines /\ InHand(c) \in SUBSET Lines
<1>1. Popped(c) \in SUBSET Lines
  <2>1. CASE stack = << >>
    BY <2>1 DEF Popped
  <2>2. CASE stack # << >>
    <3>1. stack \in Seq(SUBSET Lines) /\ Len(stack) \in 1..Len(stack)
      BY <2>2 DEF CaptureTypeOK
    <3>. QED
      BY <2>2, <3>1 DEF Popped, Top
  <2>. QED
    BY <2>1, <2>2
<1>2. InHand(c) \in SUBSET Lines
  BY DEF InHand, CaptureTypeOK
<1>. QED
  BY <1>1, <1>2

-----------------------------------------------------------------------------
(* Buffers *)

(* No scope is open at first and there is no buffer. *)
LEMMA InitBuffers == CaptureInit => BufferInv
<1>. SUFFICES ASSUME CaptureInit PROVE BufferInv
  OBVIOUS
<1>1. CaptureTypeOK
  <2>1. stack \in Seq(SUBSET Lines) /\ opened \in Seq(Scopes)
    BY DEF CaptureInit
  <2>. QED
    BY <2>1 DEF CaptureInit, CaptureTypeOK, Outcomes
<1>2. Open = {}
  BY DEF CaptureInit, Open
<1>. QED
  BY <1>1, <1>2, FS_EmptySet DEF CaptureInit, BufferInv, BuffersMatchScopes

(* startCapture() opens a scope and pushes a buffer. *)
LEMMA StartBuffers ==
  ASSUME BufferInv, NEW c \in Scopes, StartCapture(c)
  PROVE  BufferInv'
<1>. CaptureTypeOK
  BY DEF BufferInv
<1>1. /\ stack' \in Seq(SUBSET Lines) /\ Len(stack') = Len(stack) + 1
      /\ opened' \in Seq(Scopes) /\ Len(opened') = Len(opened) + 1
  <2>1. {} \in SUBSET Lines
    OBVIOUS
  <2>2. stack' = Append(stack, {}) /\ opened' = Append(opened, c)
    BY DEF StartCapture
  <2>3. stack \in Seq(SUBSET Lines) /\ opened \in Seq(Scopes)
    BY DEF CaptureTypeOK
  <2>. QED
    BY <2>1, <2>2, <2>3, Grows
<1>2. CaptureTypeOK'
  BY <1>1 DEF StartCapture, CaptureTypeOK
<1>3. c \notin Open /\ Open' = Open \cup {c}
  BY DEF Open, StartCapture, CaptureTypeOK
<1>4. BuffersMatchScopes'
  BY <1>1, <1>3, CountChanges DEF BuffersMatchScopes
<1>. QED
  BY <1>1, <1>2, <1>4 DEF BufferInv

(* A printed line goes into a buffer and changes no number of buffers. *)
LEMMA CatchBuffers ==
  ASSUME BufferInv, NEW l \in Lines, stack # << >>, Catch(l), printed' = printed \cup {l},
         UNCHANGED <<st, outcome, result, attached, logged, swallowed, shared, opened, calm>>
  PROVE  /\ BufferInv'
         /\ Len(stack) \in Nat /\ Len(stack) >= 1 /\ Len(stack') = Len(stack)
         /\ \A i \in 1..Len(stack) :
               stack'[i] = IF i = Len(stack) THEN stack[i] \cup {l} ELSE stack[i]
<1>. CaptureTypeOK
  BY DEF BufferInv
<1>1. stack \in Seq(SUBSET Lines) /\ Len(stack) \in Nat /\ Len(stack) >= 1
  BY DEF CaptureTypeOK
<1>2. stack[Len(stack)] \cup {l} \in SUBSET Lines
  BY <1>1
<1>3. /\ stack' \in Seq(SUBSET Lines) /\ Len(stack') = Len(stack)
      /\ \A i \in 1..Len(stack) :
            stack'[i] = IF i = Len(stack) THEN stack[i] \cup {l} ELSE stack[i]
  <2>1. stack' = [stack EXCEPT ![Len(stack)] = stack[Len(stack)] \cup {l}]
    BY DEF Catch
  <2>. DEFINE x == stack[Len(stack)] \cup {l}
  <2>2. Len(stack) \in 1..Len(stack) /\ x \in SUBSET Lines /\ stack \in Seq(SUBSET Lines)
    BY <1>1, <1>2
  <2>3. stack' = [stack EXCEPT ![Len(stack)] = x]
    BY <2>1
  <2>. HIDE DEF x
  <2>4. /\ stack' \in Seq(SUBSET Lines) /\ Len(stack') = Len(stack)
        /\ \A i \in 1..Len(stack) : stack'[i] = IF i = Len(stack) THEN x ELSE stack[i]
    BY <2>2, <2>3, Replaces
  <2>. QED
    BY <2>4 DEF x
<1>4. CaptureTypeOK'
  BY <1>3 DEF CaptureTypeOK
<1>5. Open' = Open
  BY DEF Open
<1>. QED
  BY <1>1, <1>3, <1>4, <1>5 DEF BufferInv, BuffersMatchScopes

(* A handler that settles leaves its buffer where it is. *)
LEMMA SettleBuffers ==
  ASSUME BufferInv, NEW c \in Scopes, NEW how \in Outcomes, Settle(c, how)
  PROVE  BufferInv'
<1>1. CaptureTypeOK'
  BY DEF BufferInv, Settle, CaptureTypeOK
<1>2. Open' = Open
  BY DEF Open, Settle, CanAct, BufferInv, CaptureTypeOK
<1>. QED
  BY <1>1, <1>2 DEF BufferInv, BuffersMatchScopes, Settle

(* stopCapture() closes a scope and pops a buffer, whoever opened that. *)
LEMMA StopBuffers ==
  ASSUME BufferInv, NEW c \in Scopes, StopCapture(c)
  PROVE  /\ BufferInv'
         /\ Len(stack) \in Nat /\ Len(stack) >= 1
         /\ Len(stack') = Len(stack) - 1
         /\ \A i \in 1..(Len(stack) - 1) : stack'[i] = stack[i] /\ opened'[i] = opened[i]
<1>. CaptureTypeOK
  BY DEF BufferInv
<1>1. c \in Open /\ Open' = Open \ {c}
  BY DEF Open, StopCapture, CaptureTypeOK
<1>2. Len(stack) \in Nat /\ Len(stack) >= 1 /\ Len(opened) = Len(stack)
  <2>1. Len(stack) >= 1
    BY <1>1, CountChanges
  <2>. QED
    BY <2>1 DEF BufferInv, CaptureTypeOK
<1>3. stack \in Seq(SUBSET Lines) /\ opened \in Seq(Scopes)
  BY DEF CaptureTypeOK
<1>4. stack' = Pop(stack) /\ opened' = Pop(opened)
  BY DEF StopCapture, Unwind
<1>5. /\ stack' \in Seq(SUBSET Lines) /\ Len(stack') = Len(stack) - 1
      /\ \A i \in 1..(Len(stack) - 1) : stack'[i] = stack[i]
  BY <1>2, <1>3, <1>4, Shrinks
<1>6. /\ opened' \in Seq(Scopes) /\ Len(opened') = Len(stack) - 1
      /\ \A i \in 1..(Len(stack) - 1) : opened'[i] = opened[i]
  BY <1>2, <1>3, <1>4, Shrinks
<1>7. CaptureTypeOK'
  <2>1. Popped(c) \in SUBSET Lines
    BY HandsHoldLines
  <2>2. result' \in [Scopes -> SUBSET Lines] /\ swallowed' \in SUBSET Lines
    BY <2>1 DEF StopCapture, CaptureTypeOK
  <2>3. attached' \in [Errors -> SUBSET Lines]
    BY <2>1 DEF StopCapture, CaptureTypeOK
  <2>4. shared' \in BOOLEAN
    BY DEF StopCapture, CaptureTypeOK
  <2>5. st' \in [Scopes -> {"idle", "running", "settled", "stopped", "done"}]
    BY DEF StopCapture, CaptureTypeOK
  <2>. QED
    BY <1>5, <1>6, <2>2, <2>3, <2>4, <2>5 DEF StopCapture, CaptureTypeOK
<1>8. BuffersMatchScopes'
  BY <1>1, <1>5, CountChanges DEF BuffersMatchScopes
<1>. QED
  BY <1>2, <1>5, <1>6, <1>7, <1>8 DEF BufferInv

(* Logging the lines in hand concerns no buffer. *)
LEMMA LogBuffers ==
  ASSUME BufferInv, NEW c \in Scopes, Log(c)
  PROVE  BufferInv'
<1>1. CaptureTypeOK'
  BY DEF BufferInv, Log, CaptureTypeOK
<1>2. Open' = Open
  BY DEF Open, Log, BufferInv, CaptureTypeOK
<1>. QED
  BY <1>1, <1>2 DEF BufferInv, BuffersMatchScopes, Log

(* Clearing the log concerns no buffer. *)
LEMMA ClearBuffers == BufferInv /\ ClearLogs => BufferInv'
<1>. SUFFICES ASSUME BufferInv, ClearLogs PROVE BufferInv'
  OBVIOUS
<1>1. CaptureTypeOK'
  BY DEF BufferInv, ClearLogs, CaptureTypeOK
<1>2. Open' = Open
  BY DEF Open, ClearLogs
<1>. QED
  BY <1>1, <1>2 DEF BufferInv, BuffersMatchScopes, ClearLogs

(* Whoever prints, what happens is Catch. *)
LEMMA PrintIsCatch ==
  ASSUME \/ \E c \in Scopes : PrintLine(c)
         \/ \E l \in Outside : PrintOutside(l)
  PROVE  \E l \in Lines :
            /\ l \in Scopes => CanAct(l)
            /\ stack # << >> /\ l \notin printed
            /\ Catch(l) /\ printed' = printed \cup {l}
            /\ UNCHANGED <<st, outcome, result, attached, logged, swallowed, shared, opened, calm>>
<1>1. ASSUME NEW c \in Scopes, PrintLine(c)
      PROVE  /\ c \in Lines /\ CanAct(c) /\ stack # << >> /\ c \notin printed
             /\ Catch(c) /\ printed' = printed \cup {c}
             /\ UNCHANGED <<st, outcome, result, attached, logged, swallowed, shared, opened, calm>>
  BY <1>1 DEF PrintLine, Lines
<1>2. ASSUME NEW l \in Outside, PrintOutside(l)
      PROVE  /\ l \in Lines /\ l \notin Scopes /\ stack # << >> /\ l \notin printed
             /\ Catch(l) /\ printed' = printed \cup {l}
             /\ UNCHANGED <<st, outcome, result, attached, logged, swallowed, shared, opened, calm>>
  BY <1>2, CaptureAssumption DEF PrintOutside, Lines
<1>. QED
  BY <1>1, <1>2

(* Every step keeps a buffer for each open scope. *)
LEMMA NextBuffers == BufferInv /\ [CaptureNext]_captureVars => BufferInv'
<1>. SUFFICES ASSUME BufferInv, [CaptureNext]_captureVars PROVE BufferInv'
  OBVIOUS
<1>1. ASSUME NEW c \in Scopes, StartCapture(c) PROVE BufferInv'
  BY <1>1, StartBuffers
<1>2. CASE (\E c \in Scopes : PrintLine(c)) \/ (\E l \in Outside : PrintOutside(l))
  BY <1>2, PrintIsCatch, CatchBuffers
<1>3. ASSUME NEW c \in Scopes, NEW how \in Outcomes, Settle(c, how) PROVE BufferInv'
  BY <1>3, SettleBuffers
<1>4. ASSUME NEW c \in Scopes, StopCapture(c) PROVE BufferInv'
  BY <1>4, StopBuffers
<1>5. ASSUME NEW c \in Scopes, Log(c) PROVE BufferInv'
  BY <1>5, LogBuffers
<1>6. CASE ClearLogs
  BY <1>6, ClearBuffers
<1>7. CASE UNCHANGED captureVars
  <2>1. CaptureTypeOK' /\ Open' = Open
    BY <1>7 DEF captureVars, CaptureTypeOK, Open, BufferInv
  <2>. QED
    BY <1>7, <2>1 DEF BufferInv, BuffersMatchScopes, captureVars
<1>. QED
  BY <1>1, <1>2, <1>3, <1>4, <1>5, <1>6, <1>7 DEF CaptureNext

(* In every reachable state of the capture there is a buffer for each open scope,
   and the history of opened scopes is as long as the stack. *)
THEOREM BufferInvariant == CaptureSpec => []BufferInv
  BY InitBuffers, NextBuffers, PTL DEF CaptureSpec

-----------------------------------------------------------------------------
(* Lines *)

(* Nothing is printed at first and no line is anywhere. *)
LEMMA InitLines == CaptureInit => Located
<1>. SUFFICES ASSUME CaptureInit, NEW l \in Lines PROVE l \notin printed /\ Nowhere(l)
  BY DEF Located
<1>1. InBuffers(l) = {}
  BY DEF CaptureInit, InBuffers
<1>2. InHands(l) = {}
  BY DEF CaptureInit, InHands
<1>. QED
  BY <1>1, <1>2 DEF CaptureInit, Nowhere

(* A step that moves no line. *)
LEMMA SamePlaces ==
  ASSUME Located, shared' = shared, printed' = printed, logged' = logged,
         swallowed' = swallowed,
         \A l \in Lines : InBuffers(l)' = InBuffers(l) /\ InHands(l)' = InHands(l)
  PROVE  Located'
<1>. SUFFICES ASSUME ~shared, NEW l \in Lines
              PROVE  IF l \in printed THEN InOnePlace(l)' ELSE Nowhere(l)'
  BY DEF Located
<1>1. IF l \in printed THEN InOnePlace(l) ELSE Nowhere(l)
  BY DEF Located
<1>2. InBuffers(l)' = InBuffers(l) /\ InHands(l)' = InHands(l)
  OBVIOUS
<1>3. InOnePlace(l) => InOnePlace(l)'
  BY <1>2 DEF InOnePlace, One
<1>4. Nowhere(l) => Nowhere(l)'
  BY <1>2 DEF Nowhere
<1>. QED
  BY <1>1, <1>3, <1>4

(* A new buffer is empty: all lines stay where they are. *)
LEMMA StartLines ==
  ASSUME LineInv, NEW c \in Scopes, StartCapture(c)
  PROVE  Located'
<1>. BufferInv /\ CaptureTypeOK /\ Located
  BY DEF LineInv, BufferInv
<1>1. ASSUME NEW l \in Lines
      PROVE  InBuffers(l)' = InBuffers(l)
  <2>1. /\ DOMAIN stack' = 1..(Len(stack) + 1) /\ DOMAIN stack = 1..Len(stack)
        /\ Len(stack) \in Nat
        /\ \A i \in 1..Len(stack) : stack'[i] = stack[i]
        /\ stack'[Len(stack) + 1] = {}
    <3>1. stack \in Seq(SUBSET Lines) /\ {} \in SUBSET Lines /\ stack' = Append(stack, {})
      BY DEF CaptureTypeOK, StartCapture
    <3>. QED
      BY <3>1
  <2>. QED
    BY <2>1 DEF InBuffers
<1>2. ASSUME NEW l \in Lines
      PROVE  InHands(l)' = InHands(l)
  <2>1. \A d \in Scopes : InHand(d)' = InHand(d)
    BY DEF InHand, StartCapture
  <2>2. \A d \in Scopes : st'[d] = "stopped" <=> st[d] = "stopped"
    BY DEF StartCapture, CaptureTypeOK
  <2>. QED
    BY <2>1, <2>2 DEF InHands
<1>. QED
  BY <1>1, <1>2, SamePlaces DEF StartCapture

(* A line that is printed comes into the buffer on top, and into no other. *)
LEMMA CatchLines ==
  ASSUME LineInv, NEW l \in Lines, stack # << >>, Catch(l), l \notin printed,
         printed' = printed \cup {l},
         UNCHANGED <<st, outcome, result, attached, logged, swallowed, shared, opened, calm>>
  PROVE  Located'
<1>. BufferInv /\ CaptureTypeOK /\ Located
  BY DEF LineInv, BufferInv
<1>1. /\ Len(stack) \in Nat /\ Len(stack) >= 1 /\ Len(stack') = Len(stack)
      /\ \A i \in 1..Len(stack) :
            stack'[i] = IF i = Len(stack) THEN stack[i] \cup {l} ELSE stack[i]
  BY CatchBuffers
<1>2. stack \in Seq(SUBSET Lines) /\ stack' \in Seq(SUBSET Lines)
  <2>1. BufferInv'
    BY CatchBuffers
  <2>. QED
    BY <2>1 DEF BufferInv, CaptureTypeOK
<1>3. DOMAIN stack = 1..Len(stack) /\ DOMAIN stack' = 1..Len(stack)
  BY <1>1, <1>2
<1>. SUFFICES ASSUME ~shared, NEW k \in Lines
              PROVE  IF k \in printed' THEN InOnePlace(k)' ELSE Nowhere(k)'
  BY DEF Located
<1>4. InHands(k)' = InHands(k)
  BY DEF InHands, InHand
<1>5. CASE k = l
  <2>1. Nowhere(l)
    BY DEF Located
  <2>2. \A i \in 1..Len(stack) : l \notin stack[i]
    BY <2>1, <1>3 DEF Nowhere, InBuffers
  <2>3. InBuffers(l)' = {Len(stack)}
    <3>1. InBuffers(l)' = {i \in 1..Len(stack) : l \in stack'[i]}
      BY <1>3 DEF InBuffers
    <3>2. \A i \in 1..Len(stack) : l \in stack'[i] <=> i = Len(stack)
      BY <1>1, <2>2
    <3>. QED
      BY <1>1, <3>1, <3>2
  <2>4. InHands(l) = {} /\ logged[l] = 0 /\ l \notin swallowed
    BY <2>1 DEF Nowhere
  <2>. QED
    BY <1>4, <1>5, <2>3, <2>4 DEF InOnePlace, One
<1>6. CASE k # l
  <2>1. InBuffers(k)' = InBuffers(k)
    <3>1. /\ InBuffers(k)' = {i \in 1..Len(stack) : k \in stack'[i]}
          /\ InBuffers(k) = {i \in 1..Len(stack) : k \in stack[i]}
      BY <1>3 DEF InBuffers
    <3>2. \A i \in 1..Len(stack) : k \in stack'[i] <=> k \in stack[i]
      BY <1>1, <1>6
    <3>. QED
      BY <3>1, <3>2
  <2>2. k \in printed' <=> k \in printed
    BY <1>6
  <2>3. IF k \in printed THEN InOnePlace(k) ELSE Nowhere(k)
    BY DEF Located
  <2>4. InOnePlace(k) => InOnePlace(k)'
    BY <1>4, <2>1 DEF InOnePlace, One
  <2>5. Nowhere(k) => Nowhere(k)'
    BY <1>4, <2>1 DEF Nowhere
  <2>. QED
    BY <2>2, <2>3, <2>4, <2>5
<1>. QED
  BY <1>5, <1>6

(* A handler that settles leaves all lines where they are. *)
LEMMA SettleLines ==
  ASSUME LineInv, NEW c \in Scopes, NEW how \in Outcomes, Settle(c, how)
  PROVE  Located'
<1>. CaptureTypeOK /\ Located
  BY DEF LineInv, BufferInv
<1>1. ASSUME NEW l \in Lines
      PROVE  InBuffers(l)' = InBuffers(l) /\ InHands(l)' = InHands(l)
  <2>1. InBuffers(l)' = InBuffers(l)
    BY DEF InBuffers, Settle
  <2>2. \A d \in Scopes \ {c} : InHand(d)' = InHand(d) /\ st'[d] = st[d]
    BY DEF InHand, Settle, CaptureTypeOK
  <2>3. st[c] # "stopped" /\ st'[c] # "stopped"
    BY DEF Settle, CanAct, CaptureTypeOK
  <2>. QED
    BY <2>1, <2>2, <2>3 DEF InHands
<1>. QED
  BY <1>1, SamePlaces DEF Settle

(* A scope that closes takes the buffer on top into its hands, or drops it; no
   other scope's hands change, unless two carry one error. *)
LEMMA StopHands ==
  ASSUME BufferInv, NEW c \in Scopes, StopCapture(c), ~shared'
  PROVE  /\ st[c] = "settled" /\ st'[c] = "stopped" /\ outcome' = outcome
         /\ \A d \in Scopes \ {c} : st'[d] = st[d]
         /\ Len(stack) \in Nat /\ Len(stack) >= 1
         /\ Popped(c) = stack[Len(stack)]
         /\ InHand(c)' = IF outcome[c] = Thrown THEN {} ELSE Popped(c)
         /\ \A d \in Scopes \ {c} : st[d] = "stopped" => InHand(d)' = InHand(d)
<1>. CaptureTypeOK
  BY DEF BufferInv
<1>1. Len(stack) \in Nat /\ Len(stack) >= 1 /\ stack \in Seq(SUBSET Lines)
  BY StopBuffers DEF CaptureTypeOK
<1>2. Popped(c) = stack[Len(stack)]
  BY <1>1 DEF Popped, Top
<1>3. /\ st[c] = "settled" /\ st'[c] = "stopped" /\ outcome' = outcome
      /\ \A d \in Scopes \ {c} : st'[d] = st[d]
  BY DEF StopCapture, CaptureTypeOK
<1>4. InHand(c)' = IF outcome[c] = Thrown THEN {} ELSE Popped(c)
  <2>1. CASE outcome[c] = Ok
    BY <1>3, <2>1, CaptureAssumption DEF StopCapture, InHand, CaptureTypeOK
  <2>2. CASE outcome[c] \in Errors
    BY <1>3, <2>2, CaptureAssumption DEF StopCapture, InHand, CaptureTypeOK
  <2>3. CASE outcome[c] = Thrown
    BY <1>3, <2>3, CaptureAssumption DEF StopCapture, InHand, CaptureTypeOK
  <2>. QED
    BY <2>1, <2>2, <2>3 DEF CaptureTypeOK, Outcomes
<1>5. ASSUME NEW d \in Scopes \ {c}, st[d] = "stopped"
      PROVE  InHand(d)' = InHand(d)
  <2>1. result'[d] = result[d]
    BY DEF StopCapture, CaptureTypeOK
  <2>2. ASSUME outcome[d] \in Errors
        PROVE  attached'[outcome[d]] = attached[outcome[d]]
    <3>1. outcome[c] # outcome[d]
      BY <1>5, <2>2 DEF StopCapture
    <3>. QED
      BY <2>2, <3>1 DEF StopCapture, CaptureTypeOK
  <2>. QED
    BY <1>3, <2>1, <2>2 DEF InHand
<1>. QED
  BY <1>1, <1>2, <1>3, <1>4, <1>5

(* Where a line is after that. *)
LEMMA StopMoves ==
  ASSUME LineInv, NEW c \in Scopes, StopCapture(c), ~shared', NEW l \in Lines
  PROVE  /\ l \in Popped(c) <=> Len(stack) \in InBuffers(l)
         /\ InBuffers(l)' = InBuffers(l) \ {Len(stack)}
         /\ outcome[c] # Thrown /\ l \in Popped(c) => InHands(l)' = InHands(l) \cup {c}
         /\ outcome[c] = Thrown \/ l \notin Popped(c) => InHands(l)' = InHands(l)
         /\ l \in swallowed' <=> l \in swallowed \/ (outcome[c] = Thrown /\ l \in Popped(c))
<1>. BufferInv /\ CaptureTypeOK
  BY DEF LineInv, BufferInv
<1>1. /\ BufferInv'
      /\ Len(stack) \in Nat /\ Len(stack) >= 1
      /\ Len(stack') = Len(stack) - 1
      /\ \A i \in 1..(Len(stack) - 1) : stack'[i] = stack[i]
  BY StopBuffers
<1>2. stack \in Seq(SUBSET Lines) /\ stack' \in Seq(SUBSET Lines)
  BY <1>1 DEF BufferInv, CaptureTypeOK
<1>3. DOMAIN stack = 1..Len(stack) /\ DOMAIN stack' = 1..(Len(stack) - 1)
  BY <1>1, <1>2
<1>4. Popped(c) = stack[Len(stack)]
  BY <1>1, <1>2 DEF Popped, Top
<1>5. l \in Popped(c) <=> Len(stack) \in InBuffers(l)
  BY <1>1, <1>3, <1>4 DEF InBuffers
<1>6. InBuffers(l)' = InBuffers(l) \ {Len(stack)}
  BY <1>1, <1>3 DEF InBuffers
<1>7. /\ st[c] = "settled" /\ st'[c] = "stopped"
      /\ \A d \in Scopes \ {c} : st'[d] = st[d]
      /\ InHand(c)' = IF outcome[c] = Thrown THEN {} ELSE Popped(c)
      /\ \A d \in Scopes \ {c} : st[d] = "stopped" => InHand(d)' = InHand(d)
  BY StopHands
<1>8. InHands(l)' = IF l \in InHand(c)' THEN InHands(l) \cup {c} ELSE InHands(l)
  BY <1>7 DEF InHands
<1>9. l \in swallowed' <=> l \in swallowed \/ (outcome[c] = Thrown /\ l \in Popped(c))
  BY DEF StopCapture
<1>. QED
  BY <1>5, <1>6, <1>7, <1>8, <1>9

(* The lines of the popped buffer come into the hands of who popped it, or are
   swallowed. *)
LEMMA StopLines ==
  ASSUME LineInv, NEW c \in Scopes, StopCapture(c)
  PROVE  Located'
<1>. BufferInv /\ CaptureTypeOK /\ Located
  BY DEF LineInv, BufferInv
<1>. SUFFICES ASSUME ~shared', NEW l \in Lines
              PROVE  IF l \in printed' THEN InOnePlace(l)' ELSE Nowhere(l)'
  BY DEF Located
<1>1. ~shared /\ printed' = printed /\ logged' = logged
  BY DEF StopCapture
<1>2. IF l \in printed THEN InOnePlace(l) ELSE Nowhere(l)
  BY <1>1 DEF Located
<1>3. /\ l \in Popped(c) <=> Len(stack) \in InBuffers(l)
      /\ InBuffers(l)' = InBuffers(l) \ {Len(stack)}
      /\ outcome[c] # Thrown /\ l \in Popped(c) => InHands(l)' = InHands(l) \cup {c}
      /\ outcome[c] = Thrown \/ l \notin Popped(c) => InHands(l)' = InHands(l)
      /\ l \in swallowed' <=> l \in swallowed \/ (outcome[c] = Thrown /\ l \in Popped(c))
  BY StopMoves
<1>4. CASE l \notin Popped(c)
  <2>1. /\ InBuffers(l)' = InBuffers(l) /\ InHands(l)' = InHands(l)
        /\ l \in swallowed' <=> l \in swallowed
    BY <1>3, <1>4
  <2>2. InOnePlace(l) => InOnePlace(l)'
    BY <1>1, <2>1 DEF InOnePlace, One
  <2>3. Nowhere(l) => Nowhere(l)'
    BY <1>1, <2>1 DEF Nowhere
  <2>. QED
    BY <1>1, <1>2, <2>2, <2>3
<1>5. CASE l \in Popped(c)
  <2>1. InBuffers(l) # {}
    BY <1>3, <1>5
  <2>2. l \in printed /\ InOnePlace(l)
    BY <1>2, <2>1 DEF Nowhere
  <2>3. One(InBuffers(l)) /\ InHands(l) = {} /\ logged[l] = 0 /\ l \notin swallowed
    BY <2>1, <2>2 DEF InOnePlace
  <2>4. InBuffers(l)' = {}
    BY <1>3, <1>5, <2>3 DEF One
  <2>5. CASE outcome[c] = Thrown
    <3>1. InHands(l)' = {} /\ l \in swallowed' /\ logged'[l] = 0
      BY <1>1, <1>3, <1>5, <2>3, <2>5
    <3>2. InOnePlace(l)'
      BY <2>4, <3>1 DEF InOnePlace
    <3>. QED
      BY <1>1, <2>2, <3>2
  <2>6. CASE outcome[c] # Thrown
    <3>1. InHands(l)' = {c}
      BY <1>3, <1>5, <2>3, <2>6
    <3>2. One(InHands(l))'
      BY <3>1 DEF One
    <3>3. l \notin swallowed' /\ logged'[l] = 0
      BY <1>1, <1>3, <2>3, <2>6
    <3>. QED
      BY <1>1, <2>2, <2>4, <3>2, <3>3 DEF InOnePlace
  <2>. QED
    BY <1>1, <2>2, <2>5, <2>6
<1>. QED
  BY <1>4, <1>5

(* The lines in hand come into the log, each once. *)
LEMMA LogLines ==
  ASSUME LineInv, NEW c \in Scopes, Log(c)
  PROVE  Located'
<1>. CaptureTypeOK /\ Located
  BY DEF LineInv, BufferInv
<1>. SUFFICES ASSUME ~shared, NEW l \in Lines
              PROVE  IF l \in printed THEN InOnePlace(l)' ELSE Nowhere(l)'
  BY DEF Located, Log
<1>1. IF l \in printed THEN InOnePlace(l) ELSE Nowhere(l)
  BY DEF Located
<1>2. InBuffers(l)' = InBuffers(l) /\ swallowed' = swallowed
  BY DEF InBuffers, Log
<1>3. /\ st[c] = "stopped" /\ st'[c] = "done"
      /\ \A d \in Scopes \ {c} : st'[d] = st[d]
      /\ \A d \in Scopes : InHand(d)' = InHand(d)
  BY DEF Log, InHand, CaptureTypeOK
<1>4. InHands(l)' = InHands(l) \ {c}
  BY <1>3 DEF InHands
<1>5. logged'[l] = IF l \in InHand(c) THEN logged[l] + 1 ELSE logged[l]
  BY DEF Log
<1>6. l \in InHand(c) <=> c \in InHands(l)
  BY <1>3 DEF InHands
<1>7. CASE c \in InHands(l)
  <2>1. l \in printed /\ InOnePlace(l)
    BY <1>1, <1>7 DEF Nowhere
  <2>2. InBuffers(l) = {} /\ One(InHands(l)) /\ logged[l] = 0 /\ l \notin swallowed
    BY <1>7, <2>1 DEF InOnePlace
  <2>3. InHands(l)' = {}
    BY <1>4, <1>7, <2>2 DEF One
  <2>4. logged'[l] = 1
    BY <1>5, <1>6, <1>7, <2>2
  <2>. QED
    BY <1>2, <2>1, <2>2, <2>3, <2>4 DEF InOnePlace
<1>8. CASE c \notin InHands(l)
  <2>1. InHands(l)' = InHands(l) /\ logged'[l] = logged[l]
    BY <1>4, <1>5, <1>6, <1>8
  <2>2. InOnePlace(l) => InOnePlace(l)'
    BY <1>2, <2>1 DEF InOnePlace, One
  <2>3. Nowhere(l) => Nowhere(l)'
    BY <1>2, <2>1 DEF Nowhere
  <2>. QED
    BY <1>1, <2>2, <2>3
<1>. QED
  BY <1>7, <1>8

(* Lines cleared from the log are forgotten, no other is. *)
LEMMA ClearLines == LineInv /\ ClearLogs => Located'
<1>. SUFFICES ASSUME LineInv, ClearLogs, ~shared, NEW l \in Lines
              PROVE  IF l \in printed' THEN InOnePlace(l)' ELSE Nowhere(l)'
  BY DEF Located, ClearLogs
<1>. CaptureTypeOK /\ Located
  BY DEF LineInv, BufferInv
<1>1. IF l \in printed THEN InOnePlace(l) ELSE Nowhere(l)
  BY DEF Located
<1>2. /\ InBuffers(l)' = InBuffers(l) /\ InHands(l)' = InHands(l)
      /\ swallowed' = swallowed /\ logged'[l] = 0
  BY DEF InBuffers, InHands, InHand, ClearLogs
<1>3. l \in printed' <=> l \in printed /\ logged[l] = 0
  BY DEF ClearLogs
<1>4. CASE l \in printed'
  BY <1>1, <1>2, <1>3, <1>4 DEF InOnePlace, One
<1>5. CASE l \in printed /\ logged[l] # 0
  BY <1>1, <1>2, <1>3, <1>5 DEF InOnePlace, Nowhere
<1>6. CASE l \notin printed
  BY <1>1, <1>2, <1>3, <1>6 DEF Nowhere
<1>. QED
  BY <1>3, <1>4, <1>5, <1>6

(* Every step keeps each printed line in one place. *)
LEMMA NextLines == LineInv /\ [CaptureNext]_captureVars => LineInv'
<1>. SUFFICES ASSUME LineInv, [CaptureNext]_captureVars PROVE Located'
  BY NextBuffers DEF LineInv
<1>1. ASSUME NEW c \in Scopes, StartCapture(c) PROVE Located'
  BY <1>1, StartLines
<1>2. CASE (\E c \in Scopes : PrintLine(c)) \/ (\E l \in Outside : PrintOutside(l))
  BY <1>2, PrintIsCatch, CatchLines
<1>3. ASSUME NEW c \in Scopes, NEW how \in Outcomes, Settle(c, how) PROVE Located'
  BY <1>3, SettleLines
<1>4. ASSUME NEW c \in Scopes, StopCapture(c) PROVE Located'
  BY <1>4, StopLines
<1>5. ASSUME NEW c \in Scopes, Log(c) PROVE Located'
  BY <1>5, LogLines
<1>6. CASE ClearLogs
  BY <1>6, ClearLines
<1>7. CASE UNCHANGED captureVars
  <2>1. \A l \in Lines : InBuffers(l)' = InBuffers(l) /\ InHands(l)' = InHands(l)
    BY <1>7 DEF captureVars, InBuffers, InHands, InHand
  <2>. QED
    BY <1>7, <2>1, SamePlaces DEF LineInv, captureVars
<1>. QED
  BY <1>1, <1>2, <1>3, <1>4, <1>5, <1>6, <1>7 DEF CaptureNext

(* In every reachable state of the capture each printed line is in one place, as
   long as no two scopes share an error. *)
THEOREM LineInvariant == CaptureSpec => []LineInv
<1>1. CaptureInit => LineInv
  BY InitBuffers, InitLines DEF LineInv
<1>. QED
  BY <1>1, NextLines, PTL DEF CaptureSpec

(* What is in one place is counted once. *)
LEMMA OnePlaceIsOne ==
  ASSUME CaptureTypeOK, NEW l \in Lines, InOnePlace(l)
  PROVE  PlacesOf(l) = 1
<1>1. Cardinality({}) = 0
  BY FS_EmptySet
<1>2. ASSUME NEW S, One(S) PROVE Cardinality(S) = 1
  BY <1>2, FS_Singleton DEF One
<1>3. PlacesOf(l) = Cardinality(InBuffers(l)) + Cardinality(InHands(l)) + logged[l]
                       + (IF l \in swallowed THEN 1 ELSE 0)
  BY DEF PlacesOf, InBuffers, InHands
<1>. QED
  BY <1>1, <1>2, <1>3 DEF InOnePlace

-----------------------------------------------------------------------------
(* Nesting *)

(* No scope is open at first: there is nothing to nest. *)
LEMMA InitNests == CaptureInit => SettledLast /\ Nested /\ ScopesKeepTheirLines
<1>. SUFFICES ASSUME CaptureInit PROVE SettledLast /\ Nested /\ ScopesKeepTheirLines
  OBVIOUS
<1>1. Open = {} /\ Len(opened) = 0
  BY DEF CaptureInit, Open
<1>2. Nested
  BY <1>1 DEF Nested
<1>3. SettledLast /\ ScopesKeepTheirLines
  BY DEF CaptureInit, SettledLast, ScopesKeepTheirLines
<1>. QED
  BY <1>2, <1>3

(* Steps that open and close no scope and move no line between hands. *)
LEMMA SameScopes ==
  ASSUME NestInv, stack' = stack, opened' = opened, calm' = calm, shared' = shared,
         Open' = Open,
         \A c \in Scopes : st'[c] = "stopped" => st[c] = "stopped" /\ InHand(c)' = InHand(c)
  PROVE  Nested' /\ ScopesKeepTheirLines'
<1>1. Nested'
  BY DEF NestInv, Nested, Before
<1>2. ScopesKeepTheirLines'
  BY DEF NestInv, ScopesKeepTheirLines
<1>. QED
  BY <1>1, <1>2

(* The open scope that awaits no open one is the one opened last. *)
LEMMA LastIsOwn ==
  ASSUME NestInv, calm, NEW c \in Scopes, c \in Open,
         \A d \in Scopes : d \in Open => Parent[d] # c
  PROVE  /\ Len(opened) \in Nat /\ Len(opened) >= 1 /\ Len(opened) = Len(stack)
         /\ c = opened[Len(opened)]
<1>1. PICK i \in 1..Len(opened) : opened[i] = c
  BY DEF NestInv, Nested
<1>2. Len(opened) \in Nat /\ \A k \in 1..Len(opened) : opened[k] \in Scopes
  BY DEF NestInv, BufferInv, CaptureTypeOK
<1>3. ASSUME i # Len(opened) PROVE FALSE
  <2>1. i + 1 \in 1..Len(opened)
    BY <1>2, <1>3
  <2>2. opened[i + 1] \in Scopes /\ opened[i + 1] \in Open
    BY <1>2, <2>1 DEF NestInv, Nested
  <2>3. Before(i + 1) = c
    BY <1>1, <1>2, <2>1 DEF Before
  <2>4. Parent[opened[i + 1]] = c
    BY <2>1, <2>3 DEF NestInv, Nested
  <2>. QED
    BY <2>2, <2>4
<1>4. Len(opened) = Len(stack)
  BY DEF NestInv, BufferInv
<1>. QED
  BY <1>1, <1>2, <1>3, <1>4

(* A scope that starts while calm is opened by the last of the open ones. *)
LEMMA StartNests ==
  ASSUME NestInv, NEW c \in Scopes, StartCapture(c)
  PROVE  SettledLast' /\ Nested' /\ ScopesKeepTheirLines'
<1>. BufferInv /\ CaptureTypeOK
  BY DEF NestInv, BufferInv
<1>1. /\ st[c] = "idle" /\ st'[c] = "running"
      /\ \A d \in Scopes \ {c} : st'[d] = st[d]
  BY DEF StartCapture, CaptureTypeOK
<1>2. c \notin Open /\ Open' = Open \cup {c}
  BY <1>1 DEF Open
<1>3. SettledLast'
  <2>. SUFFICES ASSUME NEW b \in Scopes, NEW d \in Scopes, st'[b] = "settled", d \in Open'
                PROVE  Parent[d] # b
    BY DEF SettledLast
  <2>1. st[b] = "settled" /\ b # c
    BY <1>1
  <2>2. CASE d = c
    BY <2>1, <2>2, CaptureAssumption DEF StartCapture
  <2>3. CASE d # c
    BY <1>2, <2>1, <2>3 DEF NestInv, SettledLast
  <2>. QED
    BY <2>2, <2>3
<1>4. ScopesKeepTheirLines'
  <2>1. \A d \in Scopes : st'[d] = "stopped" => st[d] = "stopped"
    BY <1>1
  <2>2. \A d \in Scopes : InHand(d)' = InHand(d)
    BY DEF InHand, StartCapture
  <2>3. (calm' => calm) /\ shared' = shared
    BY DEF StartCapture
  <2>. QED
    BY <2>1, <2>2, <2>3 DEF NestInv, ScopesKeepTheirLines
<1>5. Nested'
  <2>. SUFFICES ASSUME calm'
                PROVE /\ \A d \in Scopes : d \in Open' <=> \E i \in 1..Len(opened') : opened'[i] = d
                      /\ \A i, j \in 1..Len(opened') : opened'[i] = opened'[j] => i = j
                      /\ \A i \in 1..Len(opened') : Parent[opened'[i]] = Before(i)'
                      /\ \A i \in 1..Len(opened') : stack'[i] \subseteq {opened'[i]} \cup Outside
    BY DEF Nested
  <2>1. calm /\ LastOpened = Parent[c]
    BY DEF StartCapture
  <2>2. /\ \A d \in Scopes : d \in Open <=> \E i \in 1..Len(opened) : opened[i] = d
        /\ \A i, j \in 1..Len(opened) : opened[i] = opened[j] => i = j
        /\ \A i \in 1..Len(opened) : Parent[opened[i]] = Before(i)
        /\ \A i \in 1..Len(opened) : stack[i] \subseteq {opened[i]} \cup Outside
    BY <2>1 DEF NestInv, Nested
  <2>3. opened \in Seq(Scopes) /\ opened' = Append(opened, c) /\ Len(opened) \in Nat
    BY DEF StartCapture, CaptureTypeOK
  <2>4. /\ Len(opened') = Len(opened) + 1 /\ opened'[Len(opened) + 1] = c
        /\ \A i \in 1..Len(opened) : opened'[i] = opened[i]
    BY <2>3, Grows
  <2>5. Len(stack) = Len(opened) /\ stack \in Seq(SUBSET Lines) /\ stack' = Append(stack, {})
    BY DEF StartCapture, BufferInv, CaptureTypeOK
  <2>6. {} \in SUBSET Lines
    OBVIOUS
  <2>7. stack'[Len(opened) + 1] = {} /\ \A i \in 1..Len(opened) : stack'[i] = stack[i]
    BY <2>5, <2>6, Grows
  <2>8. \A i \in 1..Len(opened) : opened[i] # c
    BY <1>2, <2>2
  <2>9. ASSUME NEW i \in Nat, i = Len(opened) + 1
        PROVE  Before(i)' = Parent[c]
    <3>1. CASE opened = << >>
      BY <2>1, <2>9, <3>1 DEF LastOpened, Before
    <3>2. CASE opened # << >>
      <4>1. Len(opened) >= 1
        BY <2>3, <3>2
      <4>2. Before(i)' = opened'[Len(opened)]
        BY <2>3, <2>9, <4>1 DEF Before
      <4>. QED
        BY <2>1, <2>3, <2>4, <3>2, <4>1, <4>2 DEF LastOpened
    <3>. QED
      BY <3>1, <3>2
  <2>10. \A i \in 1..Len(opened) : Before(i)' = Before(i)
    BY <2>3, <2>4 DEF Before
  <2>11. \A i \in 1..Len(opened') : i \in 1..Len(opened) \/ i = Len(opened) + 1
    BY <2>3, <2>4
  <2>12. ASSUME NEW d \in Scopes
         PROVE  d \in Open' <=> \E i \in 1..Len(opened') : opened'[i] = d
    BY <1>2, <2>2, <2>3, <2>4
  <2>13. ASSUME NEW i \in 1..Len(opened'), NEW j \in 1..Len(opened'), opened'[i] = opened'[j]
         PROVE  i = j
    BY <2>2, <2>4, <2>8, <2>11, <2>13
  <2>14. ASSUME NEW i \in 1..Len(opened')
         PROVE  Parent[opened'[i]] = Before(i)'
    <3>1. CASE i \in 1..Len(opened)
      BY <2>2, <2>4, <2>10, <3>1
    <3>2. CASE i = Len(opened) + 1
      BY <2>3, <2>4, <2>9, <3>2
    <3>. QED
      BY <2>11, <3>1, <3>2
  <2>15. ASSUME NEW i \in 1..Len(opened')
         PROVE  stack'[i] \subseteq {opened'[i]} \cup Outside
    BY <2>2, <2>4, <2>7, <2>11
  <2>. QED
    BY <2>12, <2>13, <2>14, <2>15
<1>. QED
  BY <1>3, <1>4, <1>5

(* While calm a scope that prints is the last open one: the line goes into its buffer. *)
LEMMA CatchNests ==
  ASSUME NestInv, NEW l \in Lines, l \in Scopes => CanAct(l), stack # << >>, Catch(l),
         printed' = printed \cup {l},
         UNCHANGED <<st, outcome, result, attached, logged, swallowed, shared, opened, calm>>
  PROVE  SettledLast' /\ Nested' /\ ScopesKeepTheirLines'
<1>. BufferInv /\ CaptureTypeOK
  BY DEF NestInv, BufferInv
<1>1. Open' = Open
  BY DEF Open
<1>2. SettledLast'
  BY <1>1 DEF NestInv, SettledLast
<1>3. ScopesKeepTheirLines'
  BY DEF NestInv, ScopesKeepTheirLines, InHand
<1>4. /\ Len(stack) \in Nat /\ Len(stack) >= 1 /\ Len(opened) = Len(stack)
      /\ \A i \in 1..Len(stack) :
            stack'[i] = IF i = Len(stack) THEN stack[i] \cup {l} ELSE stack[i]
  BY CatchBuffers DEF BufferInv
<1>5. ASSUME calm
      PROVE  l \in {opened[Len(opened)]} \cup Outside
  <2>1. CASE l \in Outside
    BY <2>1
  <2>2. CASE l \in Scopes
    <3>1. l \in Open /\ \A d \in Scopes : d \in Open => Parent[d] # l
      BY <2>2 DEF CanAct, Awaited, Open
    <3>. QED
      BY <1>5, <2>2, <3>1, LastIsOwn
  <2>. QED
    BY <2>1, <2>2 DEF Lines
<1>6. ASSUME calm, NEW i \in 1..Len(opened)
      PROVE  stack'[i] \subseteq {opened[i]} \cup Outside
  <2>1. stack[i] \subseteq {opened[i]} \cup Outside
    BY <1>6 DEF NestInv, Nested
  <2>. QED
    BY <1>4, <1>5, <1>6, <2>1
<1>7. Nested'
  BY <1>1, <1>6 DEF NestInv, Nested, Before
<1>. QED
  BY <1>2, <1>3, <1>7

(* A scope that settles while calm is the last one. *)
LEMMA SettleNests ==
  ASSUME NestInv, NEW c \in Scopes, NEW how \in Outcomes, Settle(c, how)
  PROVE  SettledLast' /\ Nested' /\ ScopesKeepTheirLines'
<1>. BufferInv /\ CaptureTypeOK
  BY DEF NestInv, BufferInv
<1>1. /\ st[c] = "running" /\ st'[c] = "settled" /\ Awaited(c) = {}
      /\ \A d \in Scopes \ {c} : st'[d] = st[d] /\ outcome'[d] = outcome[d]
  BY DEF Settle, CanAct, CaptureTypeOK
<1>2. Open' = Open
  BY <1>1 DEF Open
<1>3. SettledLast'
  <2>1. \A d \in Scopes : d \in Open => Parent[d] # c
    BY <1>1 DEF Awaited, Open
  <2>. QED
    BY <1>1, <1>2, <2>1 DEF NestInv, SettledLast
<1>4. \A d \in Scopes : st'[d] = "stopped" => st[d] = "stopped" /\ InHand(d)' = InHand(d)
  BY <1>1 DEF InHand, Settle
<1>5. Nested' /\ ScopesKeepTheirLines'
  BY <1>2, <1>4, SameScopes DEF Settle
<1>. QED
  BY <1>3, <1>5

(* The scope that stops while calm pops its own buffer. *)
LEMMA StopNests ==
  ASSUME NestInv, NEW c \in Scopes, StopCapture(c)
  PROVE  SettledLast' /\ Nested' /\ ScopesKeepTheirLines'
<1>. BufferInv /\ CaptureTypeOK
  BY DEF NestInv, BufferInv
<1>1. /\ st[c] = "settled" /\ st'[c] = "stopped" /\ calm' = calm
      /\ \A d \in Scopes \ {c} : st'[d] = st[d]
  BY DEF StopCapture, CaptureTypeOK
<1>2. c \in Open /\ Open' = Open \ {c}
  BY <1>1 DEF Open
<1>3. SettledLast'
  BY <1>1, <1>2 DEF NestInv, SettledLast
<1>4. ASSUME calm
      PROVE  /\ Len(opened) \in Nat /\ Len(opened) >= 1 /\ Len(opened) = Len(stack)
             /\ c = opened[Len(opened)]
  BY <1>1, <1>2, <1>4, LastIsOwn DEF NestInv, SettledLast
<1>5. /\ Len(stack) \in Nat /\ Len(stack) >= 1
      /\ Len(stack') = Len(stack) - 1 /\ Len(opened') = Len(stack')
      /\ \A i \in 1..(Len(stack) - 1) : stack'[i] = stack[i] /\ opened'[i] = opened[i]
  BY StopBuffers DEF BufferInv
<1>6. ScopesKeepTheirLines'
  <2>. SUFFICES ASSUME NEW d \in Scopes, calm, ~shared', st'[d] = "stopped"
                PROVE  InHand(d)' \subseteq {d} \cup Outside
    BY <1>1 DEF ScopesKeepTheirLines
  <2>1. ~shared
    BY DEF StopCapture
  <2>2. CASE d = c
    <3>1. Popped(c) = stack[Len(stack)]
      BY StopHands
    <3>2. Len(opened) \in 1..Len(opened) /\ Len(stack) = Len(opened) /\ c = opened[Len(opened)]
      BY <1>4
    <3>3. stack[Len(opened)] \subseteq {opened[Len(opened)]} \cup Outside
      BY <3>2 DEF NestInv, Nested
    <3>4. InHand(c)' = IF outcome[c] = Thrown THEN {} ELSE Popped(c)
      BY StopHands
    <3>5. Popped(c) \subseteq {c} \cup Outside
      BY <3>1, <3>2, <3>3
    <3>. QED
      BY <2>2, <3>4, <3>5
  <2>3. CASE d # c
    <3>1. st[d] = "stopped" /\ InHand(d)' = InHand(d)
      BY <1>1, <2>3, StopHands
    <3>. QED
      BY <2>1, <3>1 DEF NestInv, ScopesKeepTheirLines
  <2>. QED
    BY <2>2, <2>3
<1>7. Nested'
  <2>. SUFFICES ASSUME calm
                PROVE /\ \A d \in Scopes : d \in Open' <=> \E i \in 1..Len(opened') : opened'[i] = d
                      /\ \A i, j \in 1..Len(opened') : opened'[i] = opened'[j] => i = j
                      /\ \A i \in 1..Len(opened') : Parent[opened'[i]] = Before(i)'
                      /\ \A i \in 1..Len(opened') : stack'[i] \subseteq {opened'[i]} \cup Outside
    BY <1>1 DEF Nested
  <2>1. /\ \A d \in Scopes : d \in Open <=> \E i \in 1..Len(opened) : opened[i] = d
        /\ \A i, j \in 1..Len(opened) : opened[i] = opened[j] => i = j
        /\ \A i \in 1..Len(opened) : Parent[opened[i]] = Before(i)
        /\ \A i \in 1..Len(opened) : stack[i] \subseteq {opened[i]} \cup Outside
    BY DEF NestInv, Nested
  <2>2. \A i \in 1..Len(opened') : i \in 1..(Len(opened) - 1) /\ i \in 1..Len(opened)
    BY <1>4, <1>5
  <2>3. \A i \in 1..Len(opened') : Before(i)' = Before(i)
    BY <1>4, <1>5, <2>2 DEF Before
  <2>4. ASSUME NEW d \in Scopes
        PROVE  d \in Open' <=> \E i \in 1..Len(opened') : opened'[i] = d
    <3>1. CASE d = c
      <4>1. \A i \in 1..Len(opened') : opened'[i] # c
        BY <1>4, <1>5, <2>1, <2>2
      <4>. QED
        BY <1>2, <3>1, <4>1
    <3>2. CASE d # c
      <4>1. d \in Open' <=> \E i \in 1..Len(opened) : opened[i] = d
        BY <1>2, <2>1, <3>2
      <4>. QED
        BY <1>4, <1>5, <3>2, <4>1
    <3>. QED
      BY <3>1, <3>2
  <2>5. ASSUME NEW i \in 1..Len(opened'), NEW j \in 1..Len(opened'), opened'[i] = opened'[j]
        PROVE  i = j
    BY <1>4, <1>5, <2>1, <2>2, <2>5
  <2>6. ASSUME NEW i \in 1..Len(opened')
        PROVE  /\ Parent[opened'[i]] = Before(i)'
               /\ stack'[i] \subseteq {opened'[i]} \cup Outside
    BY <1>4, <1>5, <2>1, <2>2, <2>3
  <2>. QED
    BY <2>4, <2>5, <2>6
<1>. QED
  BY <1>3, <1>6, <1>7

(* Logging the lines in hand changes no nesting. *)
LEMMA LogNests ==
  ASSUME NestInv, NEW c \in Scopes, Log(c)
  PROVE  SettledLast' /\ Nested' /\ ScopesKeepTheirLines'
<1>. CaptureTypeOK
  BY DEF NestInv, BufferInv
<1>1. /\ st[c] = "stopped" /\ st'[c] = "done"
      /\ \A d \in Scopes \ {c} : st'[d] = st[d]
      /\ \A d \in Scopes : InHand(d)' = InHand(d)
  BY DEF Log, InHand, CaptureTypeOK
<1>2. Open' = Open
  BY <1>1 DEF Open
<1>3. SettledLast'
  BY <1>1, <1>2 DEF NestInv, SettledLast
<1>4. Nested' /\ ScopesKeepTheirLines'
  BY <1>1, <1>2, SameScopes DEF Log
<1>. QED
  BY <1>3, <1>4

(* Every step keeps the buffers with their scopes, while calm. *)
LEMMA NextNests == NestInv /\ [CaptureNext]_captureVars => NestInv'
<1>. SUFFICES ASSUME NestInv, [CaptureNext]_captureVars
              PROVE  SettledLast' /\ Nested' /\ ScopesKeepTheirLines'
  BY NextBuffers DEF NestInv
<1>1. ASSUME NEW c \in Scopes, StartCapture(c)
      PROVE  SettledLast' /\ Nested' /\ ScopesKeepTheirLines'
  BY <1>1, StartNests
<1>2. CASE (\E c \in Scopes : PrintLine(c)) \/ (\E l \in Outside : PrintOutside(l))
  BY <1>2, PrintIsCatch, CatchNests
<1>3. ASSUME NEW c \in Scopes, NEW how \in Outcomes, Settle(c, how)
      PROVE  SettledLast' /\ Nested' /\ ScopesKeepTheirLines'
  BY <1>3, SettleNests
<1>4. ASSUME NEW c \in Scopes, StopCapture(c)
      PROVE  SettledLast' /\ Nested' /\ ScopesKeepTheirLines'
  BY <1>4, StopNests
<1>5. ASSUME NEW c \in Scopes, Log(c)
      PROVE  SettledLast' /\ Nested' /\ ScopesKeepTheirLines'
  BY <1>5, LogNests
<1>6. CASE ClearLogs \/ UNCHANGED captureVars
  <2>1. UNCHANGED <<st, outcome, stack, result, attached, shared, opened, calm>>
    BY <1>6 DEF ClearLogs, captureVars
  <2>2. Open' = Open /\ \A d \in Scopes : InHand(d)' = InHand(d)
    BY <2>1 DEF Open, InHand
  <2>3. SettledLast'
    BY <2>1, <2>2 DEF NestInv, SettledLast
  <2>. QED
    BY <2>1, <2>2, <2>3, SameScopes
<1>. QED
  BY <1>1, <1>2, <1>3, <1>4, <1>5, <1>6 DEF CaptureNext

(* In every reachable state of the capture, while scopes only nest, the buffers
   belong to the open scopes in the order in which they were opened. *)
THEOREM NestInvariant == CaptureSpec => []NestInv
<1>1. CaptureInit => NestInv
  BY InitBuffers, InitNests DEF NestInv
<1>. QED
  BY <1>1, NextNests, PTL DEF CaptureSpec

-----------------------------------------------------------------------------
(* The variables of the capture keep their types: the stack never holds
   anything but sets of lines, whoever pops it. *)
THEOREM CaptureIsTyped == CaptureSpec => []CaptureTypeOK
<1>1. BufferInv => CaptureTypeOK
  BY DEF BufferInv
<1>. QED
  BY <1>1, BufferInvariant, PTL

(* startCapture() and stopCapture() keep the stack as deep as there are open
   scopes, so that the console is given back when the last one closes. *)
THEOREM BuffersAreMatched == CaptureSpec => []BuffersMatchScopes
<1>1. BufferInv => BuffersMatchScopes
  BY DEF BufferInv
<1>. QED
  BY <1>1, BufferInvariant, PTL

(* No line is logged twice or lost, but those of a handler that throws a
   non-Error and of two that throw the same Error. *)
THEOREM LinesAreNeverLost == CaptureSpec => []LinesAreAccountedFor
<1>1. LineInv => LinesAreAccountedFor
  <2>. SUFFICES ASSUME LineInv, ~shared, NEW l \in printed PROVE PlacesOf(l) = 1
    BY DEF LinesAreAccountedFor
  <2>1. CaptureTypeOK /\ l \in Lines
    BY DEF LineInv, BufferInv, CaptureTypeOK
  <2>2. InOnePlace(l)
    BY <2>1 DEF LineInv, Located
  <2>. QED
    BY <2>1, <2>2, OnePlaceIsOne
<1>. QED
  BY <1>1, LineInvariant, PTL

(* While scopes only nest, to any depth, each is handed its own lines. *)
THEOREM LinesStayInTheirScope == CaptureSpec => []ScopesKeepTheirLines
<1>1. NestInv => ScopesKeepTheirLines
  BY DEF NestInv
<1>. QED
  BY <1>1, NestInvariant, PTL

-----------------------------------------------------------------------------
(* Products (ProductApi) *)

MockedRoute == [pattern : Patterns, reply : Replies]

ProductTyped ==
  /\ handler \in [ApiKeys -> {"own", "routes", "real", "unmocked", "none"}]
  /\ table \in [ApiKeys -> Seq(MockedRoute)]
  /\ calls \in [ApiKeys -> Seq(MockedRoute)]

(* Who has no mocked routes, and who is connected. *)
HandlersHeld ==
  \A p \in Products :
    /\ handler[p] # "none"
    /\ handler[p] = "unmocked" => table[p] = <<>>
    /\ account # Nobody => handler[p] \in {"own", "real"}

(* The table t is what the calls c amount to if they are taken as one: each
   pattern once, in the order of the first calls, with the reply of the last. *)
Amounts(t, c) ==
  /\ \A i, k \in DOMAIN t : t[i].pattern = t[k].pattern => i = k
  /\ \A m \in DOMAIN c : \E i \in DOMAIN t : t[i].pattern = c[m].pattern
  /\ \A i \in DOMAIN t : \E m \in DOMAIN c :
       /\ c[m] = t[i]
       /\ \A n \in DOMAIN c : n > m => c[n].pattern # t[i].pattern
  /\ \A i, k \in DOMAIN t, n \in DOMAIN c :
       i < k /\ c[n].pattern = t[k].pattern =>
         \E m \in DOMAIN c : m < n /\ c[m].pattern = t[i].pattern

TablesHeld == \A p \in ApiKeys : Amounts(table[p], calls[p])

(* What a request that a route was mocked for has been answered so far. *)
IsAsk(a) == a = [at |-> a.at, product |-> a.product, path |-> a.path, answer |-> a.answer,
                 mock |-> a.mock]

AsksHeld ==
  /\ asks = [r \in Asks |-> asks[r]]
  /\ \A r \in Asks :
    LET a == asks[r] IN
    /\ IsAsk(a)
    /\ a.at = "new" => a.path = Nobody /\ a.mock = Nobody
    /\ a.at = "at remote" => a.product \in Remotes
    /\ (a.product \in Products /\ a.mock \in Replies \ {"not found"}) =>
         a.at \in {"answered", "done"} /\ (a.at = "answered" => a.answer = a.mock)

ProductInv == ProductTyped /\ HandlersHeld /\ TablesHeld /\ AsksHeld

(* One more call of mockRoutes(), and the merge of its route. *)
LEMMA MergeAmounts ==
    ASSUME NEW t \in Seq(MockedRoute), NEW c \in Seq(MockedRoute),
           NEW way \in MockedRoute, Amounts(t, c)
    PROVE  /\ Merge(t, way) \in Seq(MockedRoute)
           /\ Merge(t, way) # <<>>
           /\ Append(c, way) \in Seq(MockedRoute)
           /\ Amounts(Merge(t, way), Append(c, way))
PROOF
  <1> DEFINE d == Append(c, way)
             u == Merge(t, way)
             N == Len(c) + 1
  <1>1. /\ Len(c) \in Nat /\ Len(t) \in Nat
        /\ DOMAIN c = 1..Len(c) /\ DOMAIN t = 1..Len(t)
        /\ d \in Seq(MockedRoute) /\ DOMAIN d = 1..N
        /\ d[N] = way /\ \A m \in DOMAIN c : d[m] = c[m]
    OBVIOUS
  <1>2. \A m \in DOMAIN d : m \in DOMAIN c \/ m = N
    BY <1>1
  <1>3. \A m \in DOMAIN c : m \in DOMAIN d /\ m < N
    BY <1>1
  <1>4. N \in DOMAIN d /\ N \in Nat
    BY <1>1
  <1>5. CASE \E i \in DOMAIN t : t[i].pattern = way.pattern
    <2>1. PICK k \in DOMAIN t : t[k].pattern = way.pattern
      BY <1>5
    <2>2. u = [i \in DOMAIN t |-> IF t[i].pattern = way.pattern THEN way ELSE t[i]]
      BY <1>5 DEF Merge
    <2>3. \A i \in DOMAIN t : t[i].pattern = way.pattern => i = k
      BY <2>1 DEF Amounts
    <2>4. /\ DOMAIN u = DOMAIN t /\ u[k] = way
          /\ \A i \in DOMAIN t : /\ u[i].pattern = t[i].pattern
                                 /\ i # k => u[i] = t[i]
      BY <2>1, <2>2, <2>3
    <2>5. u \in Seq(MockedRoute) /\ u # <<>>
      <3>1. \A i \in 1..Len(t) : u[i] \in MockedRoute
        BY <1>1, <2>4
      <3>2. u = [i \in 1..Len(t) |-> u[i]]
        BY <1>1, <2>2
      <3> HIDE DEF u
      <3> QED BY <3>1, <3>2, <1>1, <2>1, <2>4, SeqDef, EmptySeq
    <2> HIDE DEF u, d
    <2>6. \A i, j \in DOMAIN u : u[i].pattern = u[j].pattern => i = j
      BY <2>4 DEF Amounts
    <2>7. \A m \in DOMAIN d : \E i \in DOMAIN u : u[i].pattern = d[m].pattern
      BY <1>1, <1>2, <2>1, <2>4 DEF Amounts
    <2>8. ASSUME NEW i \in DOMAIN u
          PROVE  \E m \in DOMAIN d : /\ d[m] = u[i]
                                     /\ \A n \in DOMAIN d : n > m => d[n].pattern # u[i].pattern
      <3>1. CASE i = k
        BY <3>1, <1>1, <1>4, <2>4
      <3>2. CASE i # k
        <4>1. PICK m \in DOMAIN c : /\ c[m] = t[i]
                                    /\ \A n \in DOMAIN c : n > m => c[n].pattern # t[i].pattern
          BY <2>4, <2>8 DEF Amounts
        <4>2. way.pattern # t[i].pattern
          BY <3>2, <2>3, <2>4, <2>8
        <4> QED BY <4>1, <4>2, <3>2, <1>1, <1>2, <1>3, <2>4, <2>8
      <3> QED BY <3>1, <3>2
    <2>9. ASSUME NEW i \in DOMAIN u, NEW j \in DOMAIN u, NEW n \in DOMAIN d,
                 i < j, d[n].pattern = u[j].pattern
          PROVE  \E m \in DOMAIN d : m < n /\ d[m].pattern = u[i].pattern
      <3>1. CASE n \in DOMAIN c
        <4>0. /\ i \in DOMAIN t /\ j \in DOMAIN t /\ i < j
              /\ c[n].pattern = t[j].pattern
          BY <3>1, <1>1, <2>4, <2>9
        <4>1. PICK m \in DOMAIN c : m < n /\ c[m].pattern = t[i].pattern
          BY <3>1, <4>0 DEF Amounts
        <4> QED BY <4>1, <1>1, <1>3, <2>4, <2>9
      <3>2. CASE n = N
        <4>1. PICK m \in DOMAIN c : c[m] = t[i]
          BY <2>4, <2>9 DEF Amounts
        <4> QED BY <4>1, <3>2, <1>1, <1>3, <2>4, <2>9
      <3> QED BY <3>1, <3>2, <1>2
    <2>10. Amounts(u, d)
      BY <2>6, <2>7, <2>8, <2>9 DEF Amounts
    <2> QED BY <2>5, <2>10, <1>1 DEF u, d
  <1>6. CASE \A i \in DOMAIN t : t[i].pattern # way.pattern
    <2> DEFINE M == Len(t) + 1
    <2>1. u = Append(t, way)
      BY <1>6 DEF Merge
    <2>2. /\ u \in Seq(MockedRoute) /\ DOMAIN u = 1..M /\ u[M] = way /\ u # <<>>
          /\ \A i \in DOMAIN t : u[i] = t[i]
      BY <2>1, <1>1
    <2>3. \A i \in DOMAIN u : i \in DOMAIN t \/ i = M
      BY <2>2, <1>1
    <2>4. \A i \in DOMAIN t : i \in DOMAIN u /\ i < M
      BY <2>2, <1>1
    <2>5. M \in DOMAIN u
      BY <2>2, <1>1
    <2> HIDE DEF u, d, M
    <2>6. \A i, j \in DOMAIN u : u[i].pattern = u[j].pattern => i = j
      <3>1. \A i, j \in DOMAIN t : t[i].pattern = t[j].pattern => i = j
        BY DEF Amounts
      <3> QED BY <3>1, <2>2, <2>3, <1>6
    <2>7. \A m \in DOMAIN d : \E i \in DOMAIN u : u[i].pattern = d[m].pattern
      <3>1. \A m \in DOMAIN c : \E i \in DOMAIN t : t[i].pattern = c[m].pattern
        BY DEF Amounts
      <3> QED BY <3>1, <1>1, <1>2, <2>2, <2>4, <2>5
    <2>8. ASSUME NEW i \in DOMAIN u
          PROVE  \E m \in DOMAIN d : /\ d[m] = u[i]
                                     /\ \A n \in DOMAIN d : n > m => d[n].pattern # u[i].pattern
      <3>1. CASE i = M
        BY <3>1, <1>1, <1>4, <2>2
      <3>2. CASE i \in DOMAIN t
        <4>1. PICK m \in DOMAIN c : /\ c[m] = t[i]
                                    /\ \A n \in DOMAIN c : n > m => c[n].pattern # t[i].pattern
          BY <3>2 DEF Amounts
        <4>2. way.pattern # t[i].pattern
          BY <3>2, <1>6
        <4> QED BY <4>1, <4>2, <3>2, <1>1, <1>2, <1>3, <2>2
      <3> QED BY <3>1, <3>2, <2>3, <2>8
    <2>9. ASSUME NEW i \in DOMAIN u, NEW j \in DOMAIN u, NEW n \in DOMAIN d,
                 i < j, d[n].pattern = u[j].pattern
          PROVE  \E m \in DOMAIN d : m < n /\ d[m].pattern = u[i].pattern
      <3>1. i \in DOMAIN t
        <4>1. j \in 1..M /\ i \in 1..M /\ M = Len(t) + 1
          BY <2>9, <2>2 DEF M
        <4> QED BY <4>1, <2>9, <1>1
      <3>2. CASE n \in DOMAIN c
        <4>1. PICK k \in DOMAIN t : t[k].pattern = c[n].pattern
          BY <3>2 DEF Amounts
        <4>2. k = j
          BY <4>1, <3>2, <1>1, <2>2, <2>4, <2>6, <2>9
        <4>3. PICK m \in DOMAIN c : m < n /\ c[m].pattern = t[i].pattern
          BY <3>1, <3>2, <4>1, <4>2, <2>9 DEF Amounts
        <4> QED BY <4>3, <3>1, <1>1, <1>3, <2>2
      <3>3. CASE n = N
        <4>1. PICK m \in DOMAIN c : c[m] = t[i]
          BY <3>1 DEF Amounts
        <4> QED BY <4>1, <3>1, <3>3, <1>1, <1>3, <2>2
      <3> QED BY <3>2, <3>3, <1>2, <2>9
    <2>10. Amounts(u, d)
      BY <2>6, <2>7, <2>8, <2>9 DEF Amounts
    <2> QED BY <2>2, <2>10, <1>1 DEF u, d
  <1> QED BY <1>5, <1>6

(* What is documented is what the table answers. *)
LEMMA TablesAnswer ==
    ASSUME ProductTyped, NEW p \in ApiKeys, NEW path, Amounts(table[p], calls[p])
    PROVE  /\ Matching(table[p], path) = {} <=> Matching(calls[p], path) = {}
           /\ Matching(calls[p], path) # {} => Documented(p, path) = RouteAnswer(p, path)
           /\ Matching(calls[p], path) = {} => /\ Documented(p, path) = Nobody
                                               /\ RouteAnswer(p, path) = "no route"
PROOF
  <1> DEFINE t == table[p]
             c == calls[p]
             H == Matching(t, path)
             K == Matching(c, path)
  <1>1. /\ t \in Seq(MockedRoute) /\ c \in Seq(MockedRoute)
        /\ Len(t) \in Nat /\ Len(c) \in Nat /\ DOMAIN t = 1..Len(t) /\ DOMAIN c = 1..Len(c)
    BY DEF ProductTyped
  <1>2. /\ H = {i \in DOMAIN t : path \in Covers[t[i].pattern]}
        /\ K = {m \in DOMAIN c : path \in Covers[c[m].pattern]}
    BY DEF Matching
  <1>3. \A i \in H : \E m \in K : c[m] = t[i]
    BY <1>2 DEF Amounts
  <1>4. \A m \in K : \E i \in H : t[i].pattern = c[m].pattern
    BY <1>2 DEF Amounts
  <1>5. H = {} <=> K = {}
    BY <1>3, <1>4
  <1>6. K = {} => Documented(p, path) = Nobody /\ RouteAnswer(p, path) = "no route"
    BY <1>5 DEF Documented, RouteAnswer
  <1>7. ASSUME K # {} PROVE Documented(p, path) = RouteAnswer(p, path)
    <2>1. H \in SUBSET (1..Len(t)) /\ H # {} /\ K \in SUBSET (1..Len(c))
      BY <1>1, <1>2, <1>5, <1>7
    <2> DEFINE i0 == CHOOSE i \in H : \A k \in H : i <= k
               n0 == CHOOSE i \in K : \A k \in K : i <= k
               IsNewest(i) == /\ c[i].pattern = c[n0].pattern
                              /\ \A k \in DOMAIN c : c[k].pattern = c[n0].pattern => k <= i
               m0 == CHOOSE i \in DOMAIN c : IsNewest(i)
    <2>2. RouteAnswer(p, path) = t[i0].reply /\ Documented(p, path) = c[m0].reply
      BY <1>5, <1>7 DEF RouteAnswer, Documented
    <2>3. \E i \in H : \A k \in H : i <= k
      <3> HIDE DEF H, K
      <3> QED BY <2>1, <1>1, FirstPlace
    <2>4. \E i \in K : \A k \in K : i <= k
      <3> HIDE DEF H, K
      <3> QED BY <2>1, <1>1, <1>7, FirstPlace
    <2>5. i0 \in H /\ \A k \in H : i0 <= k
      <3> HIDE DEF H
      <3> QED BY <2>3
    <2>6. n0 \in K /\ \A k \in K : n0 <= k
      <3> HIDE DEF K
      <3> QED BY <2>4
    <2> HIDE DEF i0, n0
    <2>7. i0 \in DOMAIN t /\ i0 \in Nat /\ n0 \in DOMAIN c /\ n0 \in Nat
      BY <2>5, <2>6, <1>1, <1>2
    <2>8. t[i0].pattern = c[n0].pattern
      <3>1. PICK k \in H : t[k].pattern = c[n0].pattern
        BY <2>6, <1>4
      <3>2. k \in DOMAIN t /\ k \in Nat /\ i0 <= k
        BY <2>5, <1>1, <1>2
      <3>3. ASSUME i0 < k PROVE FALSE
        <4>1. PICK m \in DOMAIN c : m < n0 /\ c[m].pattern = t[i0].pattern
          BY <3>1, <3>2, <3>3, <2>7 DEF Amounts
        <4>2. m \in K
          BY <4>1, <2>5, <1>2
        <4> QED BY <4>1, <4>2, <2>6, <2>7, <1>1
      <3> QED BY <3>1, <3>2, <3>3, <2>7
    <2>9. PICK m \in DOMAIN c : /\ c[m] = t[i0]
                                /\ \A n \in DOMAIN c : n > m => c[n].pattern # t[i0].pattern
      BY <2>7 DEF Amounts
    <2>10. IsNewest(m)
      BY <2>8, <2>9, <1>1
    <2>11. m0 \in DOMAIN c /\ IsNewest(m0)
      <3> HIDE DEF IsNewest
      <3> QED BY <2>10
    <2>12. m0 = m
      <3> HIDE DEF m0
      <3> QED BY <2>8, <2>9, <2>10, <2>11, <1>1
    <2> QED BY <2>2, <2>9, <2>12
  <1> QED BY <1>5, <1>6, <1>7

(* Nothing was mocked: nothing is documented, and nothing matches. *)
LEMMA NothingMocked ==
  Amounts(<<>>, <<>>) /\ \A path : Matching(<<>>, path) = {}
PROOF
  <1>1. DOMAIN <<>> = {}
    OBVIOUS
  <1>2. Amounts(<<>>, <<>>)
    BY <1>1, Zenon DEF Amounts
  <1>3. \A path : Matching(<<>>, path) = {}
    BY <1>1, Zenon DEF Matching
  <1> QED BY <1>2, <1>3

(* Every step is one that switches something or one of a request. *)
SwitchStep ==
  \/ \E p \in ApiKeys, t \in Patterns, v \in Replies : MockRoute(p, t, v)
  \/ \E p \in ApiKeys : MockHandler(p)
  \/ \E a \in Accounts : ConnectRealApis(a)
  \/ DisconnectRealApis \/ ClearApis \/ SeedActingUser
  \/ \E u \in Seeded \cup People \cup {Nobody} : SetActingUser(u)

AskStep(r) ==
  \/ \E p \in ApiKeys, path \in Paths : AskApi(r, p, path)
  \/ CallSite(r) \/ SiteAnswers(r) \/ ReturnAnswer(r) \/ RemoteAnswers(r)

(* These are all the steps there are. *)
LEMMA ProductSteps ==
  ProductNext <=> SwitchStep \/ \E r \in Asks : AskStep(r)
BY DEF ProductNext, SwitchStep, AskStep

(* No switch touches a request that is on its way. *)
LEMMA SwitchesKeepAsks ==
    ASSUME SwitchStep
    PROVE  asks' = asks
BY DEF SwitchStep, MockRoute, MockHandler, ConnectRealApis, DisconnectRealApis, ClearApis,
       SeedActingUser, SetActingUser

(* No request touches what was mocked and connected. *)
LEMMA AsksKeepSwitches ==
    ASSUME NEW r \in Asks, AskStep(r)
    PROVE  UNCHANGED <<handler, table, calls, account, acting>>
BY DEF AskStep, AskApi, CallSite, SiteAnswers, ReturnAnswer, RemoteAnswers, Step

(* The mocked routes and the handlers through a switch. *)
LEMMA SwitchesHold ==
    ASSUME ProductTyped, HandlersHeld, TablesHeld, SwitchStep
    PROVE  ProductTyped' /\ HandlersHeld' /\ TablesHeld'
PROOF
  <1> USE ProductAssumption
  <1>1. ASSUME NEW p \in ApiKeys, NEW t \in Patterns, NEW v \in Replies, MockRoute(p, t, v)
        PROVE  ProductTyped' /\ HandlersHeld' /\ TablesHeld'
    <2> DEFINE way == [pattern |-> t, reply |-> v]
    <2>1. way \in MockedRoute
      BY DEF MockedRoute
    <2>2. /\ table[p] \in Seq(MockedRoute) /\ calls[p] \in Seq(MockedRoute)
          /\ Amounts(table[p], calls[p])
      BY DEF ProductTyped, TablesHeld
    <2>3. /\ table' = [table EXCEPT ![p] = Merge(table[p], way)]
          /\ calls' = [calls EXCEPT ![p] = Append(calls[p], way)]
          /\ handler' = IF account = Nobody THEN [handler EXCEPT ![p] = "routes"] ELSE handler
          /\ account' = account
      BY <1>1 DEF MockRoute
    <2> HIDE DEF way
    <2>4. /\ Merge(table[p], way) \in Seq(MockedRoute)
          /\ Merge(table[p], way) # <<>>
          /\ Append(calls[p], way) \in Seq(MockedRoute)
          /\ Amounts(Merge(table[p], way), Append(calls[p], way))
      BY <2>1, <2>2, MergeAmounts
    <2>5. ProductTyped'
      BY <2>3, <2>4 DEF ProductTyped
    <2>6. HandlersHeld'
      <3>1. ASSUME NEW q \in Products
            PROVE  /\ handler'[q] # "none"
                   /\ handler'[q] = "unmocked" => table'[q] = <<>>
                   /\ account' # Nobody => handler'[q] \in {"own", "real"}
        <4>1. q \in ApiKeys
          BY DEF ApiKeys
        <4>2. /\ handler[q] # "none"
              /\ handler[q] = "unmocked" => table[q] = <<>>
              /\ account # Nobody => handler[q] \in {"own", "real"}
          BY DEF HandlersHeld
        <4>3. CASE account = Nobody
          BY <4>1, <4>2, <4>3, <2>3 DEF ProductTyped
        <4>4. CASE account # Nobody
          BY <4>1, <4>2, <4>4, <2>3 DEF ProductTyped
        <4> QED BY <4>3, <4>4
      <3> QED BY <3>1 DEF HandlersHeld
    <2>7. TablesHeld'
      <3>1. ASSUME NEW q \in ApiKeys PROVE Amounts(table'[q], calls'[q])
        <4>1. CASE q = p
          <5>1. table'[q] = Merge(table[p], way) /\ calls'[q] = Append(calls[p], way)
            BY <4>1, <2>3 DEF ProductTyped
          <5> QED BY <5>1, <2>4
        <4>2. CASE q # p
          <5>1. table'[q] = table[q] /\ calls'[q] = calls[q]
            BY <4>2, <2>3 DEF ProductTyped
          <5> QED BY <5>1 DEF TablesHeld
        <4> QED BY <4>1, <4>2
      <3> QED BY <3>1 DEF TablesHeld
    <2> QED BY <2>5, <2>6, <2>7
  <1>2. ASSUME NEW p \in ApiKeys, MockHandler(p)
        PROVE  ProductTyped' /\ HandlersHeld' /\ TablesHeld'
    <2>1. /\ table' = table /\ calls' = calls /\ account' = account
          /\ handler' = [handler EXCEPT ![p] = "own"]
      BY <1>2 DEF MockHandler
    <2>2. ProductTyped'
      BY <2>1 DEF ProductTyped
    <2>3. HandlersHeld'
      BY <2>1 DEF HandlersHeld, ProductTyped, ApiKeys
    <2> QED BY <2>1, <2>2, <2>3 DEF TablesHeld
  <1>3. ASSUME NEW a \in Accounts, ConnectRealApis(a)
        PROVE  ProductTyped' /\ HandlersHeld' /\ TablesHeld'
    <2>1. /\ table' = table /\ calls' = calls
          /\ handler' = [p \in ApiKeys |-> IF p \in Products THEN "real" ELSE handler[p]]
      BY <1>3 DEF ConnectRealApis
    <2>2. ProductTyped'
      BY <2>1 DEF ProductTyped
    <2>3. HandlersHeld'
      BY <2>1 DEF HandlersHeld, ApiKeys
    <2> QED BY <2>1, <2>2, <2>3 DEF TablesHeld
  <1>4. CASE DisconnectRealApis
    <2>1. /\ table' = table /\ calls' = calls /\ account' = Nobody
          /\ handler' = [p \in ApiKeys |-> IF p \in Products THEN AfterDisconnect(p)
                                           ELSE handler[p]]
      BY <1>4 DEF DisconnectRealApis
    <2>2. ProductTyped'
      BY <2>1 DEF ProductTyped, AfterDisconnect
    <2>3. HandlersHeld'
      BY <2>1 DEF HandlersHeld, ApiKeys, AfterDisconnect
    <2> QED BY <2>1, <2>2, <2>3 DEF TablesHeld
  <1>5. CASE ClearApis
    <2>1. /\ table' = [p \in ApiKeys |-> <<>>] /\ calls' = [p \in ApiKeys |-> <<>>]
          /\ handler' = Unmocked /\ account' = Nobody
      BY <1>5 DEF ClearApis
    <2>2. ProductTyped'
      BY <2>1, EmptySeq DEF ProductTyped, Unmocked
    <2>3. HandlersHeld'
      BY <2>1 DEF HandlersHeld, ApiKeys, Unmocked
    <2>4. TablesHeld'
      BY <2>1, NothingMocked DEF TablesHeld
    <2> QED BY <2>2, <2>3, <2>4
  <1>6. ASSUME UNCHANGED <<handler, table, calls, account>>
        PROVE  ProductTyped' /\ HandlersHeld' /\ TablesHeld'
    BY <1>6 DEF ProductTyped, HandlersHeld, TablesHeld
  <1>7. ASSUME SeedActingUser \/ \E u \in Seeded \cup People \cup {Nobody} : SetActingUser(u)
        PROVE  UNCHANGED <<handler, table, calls, account>>
    BY <1>7 DEF SeedActingUser, SetActingUser
  <1> QED BY <1>1, <1>2, <1>3, <1>4, <1>5, <1>6, <1>7 DEF SwitchStep

(* What is written down of a request that sets out. *)
LEMMA SettingOut ==
    ASSUME ProductTyped, HandlersHeld, TablesHeld, NEW r \in Asks, NEW p \in ApiKeys, NEW path,
           asks = [q \in Asks |-> asks[q]],
           AskHandler(r, p, path) \/ AskProperty(r, p) \/ \E v \in Replies : PutProperty(r, p, v)
    PROVE  \E stage, answer, mock, asked :
             /\ asks' = [asks EXCEPT ![r] = [at |-> stage, product |-> p, path |-> asked,
                                             answer |-> answer, mock |-> mock]]
             /\ stage \in {"answered", "to site", "done"}
             /\ (p \in Products /\ mock \in Replies \ {"not found"}) =>
                  stage # "to site" /\ (stage = "answered" => answer = mock)
PROOF
  <1> USE ProductAssumption
  <1>1. ASSUME NEW answer, Goes(r, p, "property", "done", answer)
        PROVE  \E stage, a, mock, asked :
             /\ asks' = [asks EXCEPT ![r] = [at |-> stage, product |-> p, path |-> asked,
                                             answer |-> a, mock |-> mock]]
             /\ stage \in {"answered", "to site", "done"}
             /\ (p \in Products /\ mock \in Replies \ {"not found"}) =>
                  stage # "to site" /\ (stage = "answered" => a = mock)
    BY <1>1, Zenon DEF Goes
  <1>2. ASSUME AskHandler(r, p, path)
        PROVE  \E stage, answer, mock, asked :
             /\ asks' = [asks EXCEPT ![r] = [at |-> stage, product |-> p, path |-> asked,
                                             answer |-> answer, mock |-> mock]]
             /\ stage \in {"answered", "to site", "done"}
             /\ (p \in Products /\ mock \in Replies \ {"not found"}) =>
                  stage # "to site" /\ (stage = "answered" => answer = mock)
    <2> DEFINE mocked == IF handler[p] = "own" THEN "own" ELSE Documented(p, path)
    <2>1. PICK stage, answer :
            /\ Goes(r, p, path, stage, answer)
            /\ \/ handler[p] = "none" /\ stage = "answered"
               \/ handler[p] = "unmocked" /\ stage = "answered"
               \/ handler[p] = "own" /\ stage = "answered"
               \/ handler[p] = "routes" /\ stage = "answered" /\ answer = RouteAnswer(p, path)
               \/ /\ handler[p] \notin {"none", "unmocked", "own", "routes"}
                  /\ answer = RoutesFirst(p, path)
                  /\ stage = IF answer = "to site" THEN "to site" ELSE "answered"
      BY <1>2, Zenon DEF AskHandler
    <2>2. asks' = [asks EXCEPT ![r] = [at |-> stage, product |-> p, path |-> path,
                                       answer |-> answer, mock |-> mocked]]
      BY <2>1 DEF Goes
    <2>3. Amounts(table[p], calls[p])
      BY DEF TablesHeld
    <2>4. /\ Matching(table[p], path) = {} <=> Matching(calls[p], path) = {}
          /\ Matching(calls[p], path) # {} => Documented(p, path) = RouteAnswer(p, path)
          /\ Matching(calls[p], path) = {} => Documented(p, path) = Nobody
      BY <2>3, TablesAnswer
    <2>5. ASSUME p \in Products, mocked \in Replies \ {"not found"}
          PROVE  stage # "to site" /\ (stage = "answered" => answer = mocked)
      <3>1. handler[p] # "own" /\ mocked = Documented(p, path)
        BY <2>5
      <3>2. Documented(p, path) # Nobody
        BY <2>5, <3>1 DEF Nobody
      <3>3. Documented(p, path) = RouteAnswer(p, path) /\ Matching(table[p], path) # {}
        BY <3>2, <2>4
      <3>4. table[p] # <<>>
        <4>1. Matching(<<>>, path) = {}
          BY NothingMocked
        <4> QED BY <3>3, <4>1
      <3>5. handler[p] \notin {"none", "unmocked"}
        BY <2>5, <3>4 DEF HandlersHeld
      <3>6. RoutesFirst(p, path) = RouteAnswer(p, path) /\ RouteAnswer(p, path) # "to site"
        BY <2>5, <3>1, <3>3, <3>4 DEF RoutesFirst
      <3> QED BY <2>1, <3>1, <3>3, <3>5, <3>6
    <2>6. stage \in {"answered", "to site", "done"}
      BY <2>1
    <2> HIDE DEF mocked
    <2> QED BY <2>2, <2>5, <2>6, Zenon
  <1> QED BY <1>1, <1>2, Zenon DEF AskProperty, PutProperty

(* One more thing is known of a request. *)
LEMMA AskGoesOn ==
    ASSUME NEW a, IsAsk(a), NEW stage, NEW answer
    PROVE  [a EXCEPT !.at = stage, !.answer = answer] =
             [at |-> stage, product |-> a.product, path |-> a.path, answer |-> answer,
              mock |-> a.mock]
PROOF
  <1>1. PICK p0, q0, a0, b0, m0 :
          a = [at |-> a0, product |-> p0, path |-> q0, answer |-> b0, mock |-> m0]
    BY Zenon DEF IsAsk
  <1>2. [a EXCEPT !.at = stage] =
          [at |-> stage, product |-> p0, path |-> q0, answer |-> b0, mock |-> m0]
    BY <1>1
  <1>3. ASSUME NEW b, b = [at |-> stage, product |-> p0, path |-> q0, answer |-> b0, mock |-> m0]
        PROVE  [b EXCEPT !.answer = answer] =
                 [at |-> stage, product |-> p0, path |-> q0, answer |-> answer, mock |-> m0]
    BY <1>3
  <1>4. a.product = p0 /\ a.path = q0 /\ a.mock = m0
    BY <1>1
  <1>5. [[a EXCEPT !.at = stage] EXCEPT !.answer = answer] =
          [at |-> stage, product |-> p0, path |-> q0, answer |-> answer, mock |-> m0]
    BY <1>2, <1>3, Zenon
  <1> QED BY <1>4, <1>5, Zenon

(* The requests through a step of one of them. *)
LEMMA AsksHold ==
    ASSUME ProductInv, NEW r \in Asks, AskStep(r)
    PROVE  AsksHeld'
PROOF
  <1> USE ProductAssumption
  <1> DEFINE Held(a) ==
        /\ IsAsk(a)
        /\ a.at = "new" => a.path = Nobody /\ a.mock = Nobody
        /\ a.at = "at remote" => a.product \in Remotes
        /\ (a.product \in Products /\ a.mock \in Replies \ {"not found"}) =>
             a.at \in {"answered", "done"} /\ (a.at = "answered" => a.answer = a.mock)
  <1>1. asks = [q \in Asks |-> asks[q]] /\ \A q \in Asks : Held(asks[q])
    BY DEF ProductInv, AsksHeld
  <1>2. ASSUME NEW new, asks' = [asks EXCEPT ![r] = new], Held(new)
        PROVE  AsksHeld'
    <2>1. /\ asks' = [q \in Asks |-> asks'[q]] /\ asks'[r] = new
          /\ \A q \in Asks : q # r => asks'[q] = asks[q]
      <3> HIDE DEF Held
      <3> QED BY <1>1, <1>2
    <2>2. \A q \in Asks : Held(asks'[q])
      <3> HIDE DEF Held
      <3> QED BY <1>1, <1>2, <2>1, Zenon
    <2> QED BY <2>1, <2>2 DEF AsksHeld, IsAsk
  <1>3. ASSUME NEW p \in ApiKeys, NEW path \in Paths, AskApi(r, p, path)
        PROVE  AsksHeld'
    <2>1. PICK stage, answer, mock, asked :
             /\ asks' = [asks EXCEPT ![r] = [at |-> stage, product |-> p, path |-> asked,
                                             answer |-> answer, mock |-> mock]]
             /\ stage \in {"answered", "to site", "done"}
             /\ (p \in Products /\ mock \in Replies \ {"not found"}) =>
                  stage # "to site" /\ (stage = "answered" => answer = mock)
      <3>1. AskHandler(r, p, path) \/ AskProperty(r, p) \/ \E v \in Replies : PutProperty(r, p, v)
        BY <1>3, Zenon DEF AskApi
      <3> QED BY <3>1, <1>1, SettingOut, Zenon DEF ProductInv
    <2>2. Held([at |-> stage, product |-> p, path |-> asked, answer |-> answer, mock |-> mock])
      BY <2>1 DEF IsAsk
    <2> HIDE DEF Held
    <2> QED BY <1>2, <2>1, <2>2
  <1>4. ASSUME NEW stage, NEW answer, Step(r, stage, answer),
               stage = "at remote" => asks[r].product \in Remotes,
               stage \in {"answered", "at site", "at remote", "done"},
               \/ asks[r].at \in {"to site", "at site", "at remote"}
               \/ asks[r].at = "answered" /\ stage = "done"
               \/ asks[r].at = "answered" /\ stage = "at remote"
        PROVE  AsksHeld'
    <2>1. asks' = [asks EXCEPT ![r] = [asks[r] EXCEPT !.at = stage, !.answer = answer]]
      BY <1>1, <1>4, Zenon DEF Step
    <2>2. [asks[r] EXCEPT !.at = stage, !.answer = answer] =
            [at |-> stage, product |-> asks[r].product, path |-> asks[r].path,
             answer |-> answer, mock |-> asks[r].mock]
      BY <1>1, AskGoesOn, Zenon
    <2>3. Held([at |-> stage, product |-> asks[r].product, path |-> asks[r].path,
                answer |-> answer, mock |-> asks[r].mock])
      BY <1>1, <1>4 DEF IsAsk
    <2> HIDE DEF Held
    <2> QED BY <1>2, <2>1, <2>2, <2>3, Zenon
  <1>5. ASSUME CallSite(r) PROVE AsksHeld'
    <2>1. \E stage \in {"answered", "at site"} : \E a : Step(r, stage, a) /\ asks[r].at = "to site"
      BY <1>5, Zenon DEF CallSite
    <2> QED BY <2>1, <1>4
  <1>6. ASSUME SiteAnswers(r) PROVE AsksHeld'
    <2>1. PICK a : Step(r, "answered", a) /\ asks[r].at = "at site"
      BY <1>6, Zenon DEF SiteAnswers
    <2> QED BY <2>1, <1>4
  <1>7. ASSUME ReturnAnswer(r) PROVE AsksHeld'
    <2>1. /\ asks[r].at = "answered"
          /\ \/ \E a : Step(r, "done", a)
             \/ asks[r].product \in Remotes /\ \E a : Step(r, "at remote", a)
      BY <1>7, Zenon DEF ReturnAnswer
    <2> QED BY <2>1, <1>4
  <1>8. ASSUME RemoteAnswers(r) PROVE AsksHeld'
    <2>1. PICK a : Step(r, "done", a) /\ asks[r].at = "at remote"
      BY <1>8, Zenon DEF RemoteAnswers
    <2> QED BY <2>1, <1>4
  <1> QED BY <1>3, <1>5, <1>6, <1>7, <1>8 DEF AskStep

(* What was mocked, what the handlers answer by and what a request holds belong together
   in every state. *)
LEMMA ProductInvariant == ProductSpec => []ProductInv
PROOF
  <1>1. ProductInit => ProductInv
    <2> SUFFICES ASSUME ProductInit PROVE ProductInv
      OBVIOUS
    <2>1. ProductTyped
      BY EmptySeq DEF ProductInit, ProductTyped, Unmocked
    <2>2. HandlersHeld
      BY DEF ProductInit, HandlersHeld, Unmocked, ApiKeys
    <2>4. TablesHeld
      BY NothingMocked DEF ProductInit, TablesHeld
    <2>5. AsksHeld
      <3>1. /\ IsAsk(NoAsk) /\ NoAsk.path = Nobody /\ NoAsk.mock = Nobody
            /\ NoAsk.at = "new"
        BY DEF IsAsk, NoAsk
      <3>2. Nobody \notin Replies
        BY ProductAssumption DEF Nobody
      <3>3. asks = [r \in Asks |-> NoAsk]
        BY DEF ProductInit
      <3> QED BY <3>1, <3>2, <3>3 DEF AsksHeld
    <2> QED BY <2>1, <2>2, <2>4, <2>5 DEF ProductInv
  <1>2. ProductInv /\ [ProductNext]_paVars => ProductInv'
    <2> SUFFICES ASSUME ProductInv, [ProductNext]_paVars PROVE ProductInv'
      OBVIOUS
    <2>1. CASE SwitchStep
      <3>1. AsksHeld'
        BY <2>1, SwitchesKeepAsks DEF ProductInv, AsksHeld
      <3>2. ProductTyped' /\ HandlersHeld' /\ TablesHeld'
        BY <2>1, SwitchesHold DEF ProductInv
      <3> QED BY <3>1, <3>2 DEF ProductInv
    <2>2. ASSUME NEW r \in Asks, AskStep(r) PROVE ProductInv'
      <3>1. AsksHeld'
        BY <2>2, AsksHold
      <3>2. UNCHANGED <<handler, table, calls, account, acting>>
        BY <2>2, AsksKeepSwitches
      <3>3. ProductTyped' /\ HandlersHeld' /\ TablesHeld'
        BY <3>2 DEF ProductInv, ProductTyped, HandlersHeld, TablesHeld
      <3> QED BY <3>1, <3>3 DEF ProductInv
    <2>3. CASE UNCHANGED paVars
      BY <2>3 DEF paVars, ProductInv, ProductTyped, HandlersHeld, TablesHeld, AsksHeld
    <2> QED BY <2>1, <2>2, <2>3, ProductSteps
  <1> QED BY <1>1, <1>2, PTL DEF ProductSpec

(* The last step of a request to a product: it is returned as it was answered,
   or as the user that is acted as. *)
LEMMA LastStep ==
    ASSUME ProductInv, [ProductNext]_paVars, NEW r \in Asks, Settles(r),
           asks[r].product \in Products, asks[r].at # "new"
    PROVE  /\ asks[r].at = "answered"
           /\ asks'[r].answer = IF Overridden(asks[r].product, asks[r].path)
                                THEN acting ELSE asks[r].answer
PROOF
  <1> USE ProductAssumption
  <1>1. asks[r].at # "done" /\ asks[r].path # "property" /\ asks'[r].at = "done"
    BY Zenon DEF Settles
  <1>2. /\ asks = [q \in Asks |-> asks[q]]
        /\ IsAsk(asks[r])
        /\ asks[r].at = "at remote" => asks[r].product \in Remotes
    BY DEF ProductInv, AsksHeld
  <1>3. ASSUME NEW stage, NEW answer, Step(r, stage, answer)
        PROVE  asks'[r].at = stage /\ asks'[r].answer = answer
    <2>1. asks' = [asks EXCEPT ![r] = [asks[r] EXCEPT !.at = stage, !.answer = answer]]
      BY <1>2, <1>3, Zenon DEF Step
    <2>2. asks'[r] = [asks[r] EXCEPT !.at = stage, !.answer = answer]
      BY <2>1, <1>2
    <2>3. asks'[r] = [at |-> stage, product |-> asks[r].product, path |-> asks[r].path,
                      answer |-> answer, mock |-> asks[r].mock]
      BY <1>2, <2>2, AskGoesOn, Zenon
    <2>4. ASSUME NEW b, NEW p, NEW path, NEW mock,
                 b = [at |-> stage, product |-> p, path |-> path, answer |-> answer, mock |-> mock]
          PROVE  b.at = stage /\ b.answer = answer
      BY <2>4
    <2> QED BY <2>3, <2>4, Zenon
  <1>4. ~ SwitchStep /\ ~ UNCHANGED paVars
    BY <1>1, SwitchesKeepAsks DEF paVars
  <1>5. PICK q \in Asks : AskStep(q)
    BY <1>4, ProductSteps
  <1>6. q = r
    <2>1. ASSUME q # r PROVE asks'[r] = asks[r]
      <3>1. \E new : asks' = [asks EXCEPT ![q] = new]
        BY <1>5, Zenon DEF AskStep, AskApi, AskHandler, AskProperty, PutProperty, Goes,
             CallSite, SiteAnswers, ReturnAnswer, RemoteAnswers, Step
      <3> QED BY <3>1, <2>1, <1>2
    <2> QED BY <2>1, <1>1
  <1>7. CASE \E p \in ApiKeys, path \in Paths : AskApi(r, p, path)
    BY <1>7 DEF AskApi
  <1>8. CASE CallSite(r) \/ SiteAnswers(r)
    <2>1. \E stage \in {"answered", "at site"} : \E a : Step(r, stage, a)
      BY <1>8, Zenon DEF CallSite, SiteAnswers
    <2> QED BY <2>1, <1>1, <1>3
  <1>9. CASE ReturnAnswer(r)
    <2>1. asks[r].at = "answered"
      BY <1>9 DEF ReturnAnswer
    <2>2. CASE Overridden(asks[r].product, asks[r].path)
      BY <2>1, <2>2, <1>3, <1>9, Zenon DEF ReturnAnswer
    <2>3. CASE ~Overridden(asks[r].product, asks[r].path)
      <3>1. Step(r, "done", asks[r].answer)
        BY <2>3, <1>9 DEF ReturnAnswer
      <3> QED BY <2>1, <2>3, <3>1, <1>3
    <2> QED BY <2>2, <2>3
  <1>10. CASE RemoteAnswers(r)
    BY <1>2, <1>10 DEF RemoteAnswers
  <1> QED BY <1>5, <1>6, <1>7, <1>8, <1>9, <1>10 DEF AskStep

(* A route that matches a path without its query matches the path. *)
LEMMA QueriesMatchMore ==
    ASSUME ProductTyped, NEW p \in ApiKeys, NEW path \in Paths,
           Matching(table[p], path) = {}
    PROVE  Matching(table[p], WithoutQuery[path]) = {}
PROOF
  <1>1. \A i \in DOMAIN table[p] : table[p][i].pattern \in Patterns
    <2>1. table[p] \in Seq(MockedRoute)
      BY DEF ProductTyped
    <2>2. \A i \in DOMAIN table[p] : table[p][i] \in MockedRoute
      BY <2>1
    <2> QED BY <2>2 DEF MockedRoute
  <1> QED BY <1>1, ProductAssumption DEF Matching

(* A request to a product is answered by the route that was mocked for it, unless
   hasMockRoute() takes it for another; and while somebody is acted as, requests for
   the current user are answered by that user: for any products, paths, queries,
   routes and accounts, in whatever order the app connected, mocked and signed in. *)
THEOREM MocksAndUsersAnswer == ProductSpec => TheRightOneAnswers
PROOF
  <1> USE ProductAssumption
  <1>1. ASSUME ProductInv, [ProductNext]_paVars, NEW r \in Asks, Settles(r), IsMocked(r),
               asks[r].product \in Products, ~IsMistaken(r)
        PROVE  asks'[r].answer = asks[r].mock
    <2>1. /\ asks[r].mock \in Replies \ {"not found"}
          /\ Matching(calls[asks[r].product], asks[r].path) # {}
      BY <1>1, Zenon DEF IsMocked
    <2>2. asks[r].at # "new"
      BY <1>1, <2>1 DEF ProductInv, AsksHeld, Nobody
    <2>3. /\ asks[r].at = "answered"
          /\ asks'[r].answer = IF Overridden(asks[r].product, asks[r].path)
                               THEN acting ELSE asks[r].answer
      BY <1>1, <2>2, LastStep
    <2>4. asks[r].answer = asks[r].mock
      BY <1>1, <2>1, <2>3 DEF ProductInv, AsksHeld
    <2>5. ASSUME Overridden(asks[r].product, asks[r].path) PROVE FALSE
      <3>1. /\ acting # Nobody /\ asks[r].path \in SelfPaths
            /\ Matching(table[asks[r].product], WithoutQuery[asks[r].path]) = {}
        BY <2>5, Zenon DEF Overridden, HasMockRoute
      <3>2. asks[r].product \in ApiKeys
        BY <1>1 DEF ApiKeys
      <3>3. Amounts(table[asks[r].product], calls[asks[r].product])
        BY <1>1, <3>2 DEF ProductInv, TablesHeld
      <3>4. Matching(calls[asks[r].product], WithoutQuery[asks[r].path]) = {}
        BY <1>1, <3>1, <3>2, <3>3, TablesAnswer, Zenon DEF ProductInv
      <3> QED BY <1>1, <3>1, <3>4, Zenon DEF IsMistaken
    <2> QED BY <2>3, <2>4, <2>5
  <1>2. ASSUME ProductInv, [ProductNext]_paVars, NEW r \in Asks, Settles(r),
               asks[r].path \in SelfPaths, asks[r].product \in Products,
               acting # Nobody, Matching(calls[asks[r].product], asks[r].path) = {}
        PROVE  asks'[r].answer = acting
    <2>1. asks[r].at # "new"
      BY <1>2 DEF ProductInv, AsksHeld, Nobody
    <2>2. asks'[r].answer = IF Overridden(asks[r].product, asks[r].path)
                            THEN acting ELSE asks[r].answer
      BY <1>2, <2>1, LastStep
    <2>3. Matching(table[asks[r].product], asks[r].path) = {}
      <3>1. asks[r].product \in ApiKeys
        BY <1>2 DEF ApiKeys
      <3>2. Amounts(table[asks[r].product], calls[asks[r].product])
        BY <1>2, <3>1 DEF ProductInv, TablesHeld
      <3> QED BY <1>2, <3>1, <3>2, TablesAnswer, Zenon DEF ProductInv
    <2>4. ~HasMockRoute(asks[r].product, asks[r].path)
      <3>1. asks[r].product \in ApiKeys /\ asks[r].path \in Paths
        BY <1>2 DEF ApiKeys
      <3> QED BY <1>2, <2>3, <3>1, QueriesMatchMore DEF ProductInv, HasMockRoute
    <2> QED BY <1>2, <2>2, <2>4 DEF Overridden
  <1>3. ProductInv /\ [ProductNext]_paVars =>
          [\A r \in Asks :
             Settles(r) /\ IsMocked(r) /\ asks[r].product \in Products /\ ~IsMistaken(r)
               => asks'[r].answer = asks[r].mock]_paVars
    BY <1>1
  <1>4. ProductInv /\ [ProductNext]_paVars =>
          [\A r \in Asks :
             LET a == asks[r] IN
             /\ Settles(r) /\ a.path \in SelfPaths /\ a.product \in Products
             /\ acting # Nobody /\ Matching(calls[a.product], a.path) = {}
             => asks'[r].answer = acting]_paVars
    BY <1>2
  <1> QED BY <1>3, <1>4, ProductInvariant, PTL
       DEF ProductSpec, TheRightOneAnswers, MockedRoutesAnswer, ActingUserIsMyself

-----------------------------------------------------------------------------
(* Web triggers (WebTriggers) *)

HitStates == {"new", "reading", "not found", "not loaded", "running", "200", "204", "500"}
HitRecord == [at : HitStates, hook : Hooks \cup {"no hook"}, id : Nat, late : BOOLEAN, ran : Nat]

UrlsTyped ==
  /\ minted \in Seq(Hooks) /\ declared \subseteq Hooks /\ deploys \in Nat
  /\ loaded \in [Hooks -> Nat]
  /\ urls \subseteq Ids /\ dead \subseteq Ids
  /\ plain \in [Hooks -> {NoUrl} \cup Ids]
  /\ hits \in [Hits -> HitRecord]

(* An id resolves or it is dead, and what getUrl() returned last without force
   is the oldest of its hook, unless it is dead. *)
UrlsHeld ==
  /\ urls \cap dead = {}
  /\ \A h \in Hooks :
       plain[h] # NoUrl /\ plain[h] \notin dead =>
         /\ plain[h] \in urls /\ minted[plain[h]] = h
         /\ \A id \in urls : minted[id] = h => plain[h] <= id

(* A request at a dead id is never read, and one that is read has a hook. *)
HitsHeld ==
  \A q \in Hits : /\ hits[q].late => hits[q].at # "reading" /\ hits[q].ran = 0
                  /\ hits[q].at = "reading" => hits[q].hook \in Hooks

TriggersInv == UrlsTyped /\ UrlsHeld /\ HitsHeld

(* The oldest URL of a hook. *)
LEMMA OldestUrl ==
    ASSUME UrlsTyped, NEW h \in Hooks, LiveOf(h) # {}
    PROVE  /\ Chosen(LiveOf(h)) \in urls /\ minted[Chosen(LiveOf(h))] = h
           /\ \A id \in urls : minted[id] = h => Chosen(LiveOf(h)) <= id
PROOF
  <1>1. Len(minted) \in Nat /\ LiveOf(h) \in SUBSET (1..Len(minted))
    BY DEF UrlsTyped, LiveOf, Ids
  <1>2. \E i \in LiveOf(h) : \A j \in LiveOf(h) : i <= j
    BY <1>1, FirstPlace
  <1>3. /\ Chosen(LiveOf(h)) \in LiveOf(h)
        /\ \A j \in LiveOf(h) : Chosen(LiveOf(h)) <= j
    BY <1>2 DEF Chosen, Min
  <1> QED BY <1>3 DEF LiveOf

(* One more URL. *)
LEMMA MintMoves ==
    ASSUME UrlsTyped, NEW h \in Hooks, Mint(h)
    PROVE  LET new == Len(minted) + 1 IN
           /\ minted' \in Seq(Hooks) /\ Ids' = Ids \cup {new} /\ new \notin Ids /\ new # NoUrl
           /\ \A id \in Ids : minted'[id] = minted[id] /\ id <= new
           /\ minted'[new] = h /\ urls' = urls \cup {new} /\ new \in Nat
PROOF
  <1>1. /\ minted \in Seq(Hooks) /\ Len(minted) \in Nat
        /\ minted' = Append(minted, h) /\ urls' = urls \cup {Len(minted) + 1}
    BY DEF UrlsTyped, Mint
  <1>2. /\ minted' \in Seq(Hooks) /\ Len(minted') = Len(minted) + 1
        /\ DOMAIN minted = 1..Len(minted) /\ DOMAIN minted' = 1..Len(minted) + 1
        /\ minted'[Len(minted) + 1] = h
        /\ \A id \in 1..Len(minted) : minted'[id] = minted[id]
    BY <1>1
  <1> QED BY <1>1, <1>2 DEF Ids, NoUrl

(* A request is typed and held through what becomes of it. *)
LEMMA HitMoves ==
    ASSUME TriggersInv, NEW q \in Hits, NEW hit, Becomes(q, hit),
           hit \in HitRecord, hit.late => hit.at # "reading" /\ hit.ran = 0,
           hit.at = "reading" => hit.hook \in Hooks
    PROVE  TriggersInv' /\ plain' = plain
PROOF
  <1>1. /\ hits' = [hits EXCEPT ![q] = hit]
        /\ UNCHANGED <<declared, loaded, deploys, urls, minted, dead, plain>>
    BY DEF Becomes
  <1>2. hits' \in [Hits -> HitRecord] /\ HitsHeld'
    BY <1>1 DEF TriggersInv, UrlsTyped, HitsHeld
  <1>3. UrlsTyped' /\ UrlsHeld'
    BY <1>1, <1>2 DEF TriggersInv, UrlsTyped, UrlsHeld, Ids
  <1> QED BY <1>1, <1>2, <1>3 DEF TriggersInv

(* A request goes on: in another state, with what it ran, or of another hook. *)
LEMMA HitGoesOn ==
    ASSUME NEW r \in HitRecord, NEW when \in HitStates
    PROVE  /\ [r EXCEPT !.at = when] \in HitRecord
           /\ [r EXCEPT !.at = when].at = when /\ [r EXCEPT !.at = when].ran = r.ran
           /\ [r EXCEPT !.at = when].late = r.late
PROOF
  <1>1. [r EXCEPT !.at = when] \in HitRecord
    BY Zenon DEF HitRecord
  <1>2. [r EXCEPT !.at = when].at = when /\ [r EXCEPT !.at = when].ran = r.ran
    BY Zenon DEF HitRecord
  <1>3. [r EXCEPT !.at = when].late = r.late
    BY Zenon DEF HitRecord
  <1> QED BY <1>1, <1>2, <1>3

(* A request that runs a handler is one still. *)
LEMMA HitRuns ==
    ASSUME NEW r \in HitRecord, NEW ran \in Nat
    PROVE  /\ [r EXCEPT !.ran = ran] \in HitRecord
           /\ [r EXCEPT !.ran = ran].at = r.at /\ [r EXCEPT !.ran = ran].late = r.late
PROOF
  <1>1. [r EXCEPT !.ran = ran] \in HitRecord /\ [r EXCEPT !.ran = ran].at = r.at
    BY Zenon DEF HitRecord
  <1>2. [r EXCEPT !.ran = ran].late = r.late
    BY Zenon DEF HitRecord
  <1> QED BY <1>1, <1>2

(* A request that has found its web trigger is one still. *)
LEMMA HitOfHook ==
    ASSUME NEW r \in HitRecord, NEW h \in Hooks
    PROVE  /\ [r EXCEPT !.hook = h] \in HitRecord
           /\ [r EXCEPT !.hook = h].hook = h /\ [r EXCEPT !.hook = h].late = r.late
PROOF
  <1>1. [r EXCEPT !.hook = h] \in HitRecord /\ [r EXCEPT !.hook = h].hook = h
    BY Zenon DEF HitRecord
  <1>2. [r EXCEPT !.hook = h].late = r.late
    BY Zenon DEF HitRecord
  <1> QED BY <1>1, <1>2

(* A request that has not arrived. *)
LEMMA NewHit == NoHit \in HitRecord /\ ~NoHit.late /\ NoHit.at = "new"
PROOF
  <1>1. NoUrl \in Nat /\ "new" \in HitStates /\ 0 \in Nat
    BY DEF NoUrl, HitStates
  <1>4. NoHit \in HitRecord
    BY <1>1, Zenon DEF HitRecord, NoHit
  <1>2. NoHit.late = FALSE
    BY Zenon DEF NoHit
  <1>3. NoHit.at = "new"
    BY DEF NoHit
  <1> QED BY <1>4, <1>2, <1>3

(* What is alive of the URLs changes only what getUrl() returned last by a
   getUrl() that finds none. *)
Stable == \A h \in Hooks : plain[h] # NoUrl /\ plain[h] \notin dead => plain'[h] = plain[h]

(* No step gives a URL to another web trigger, or takes one that is alive from getUrl(). *)
LEMMA UrlsStep ==
    ASSUME TriggersInv, TriggersNext
    PROVE  TriggersInv' /\ Stable
PROOF
  <1>0. /\ UrlsTyped /\ UrlsHeld /\ HitsHeld
        /\ minted \in Seq(Hooks) /\ Len(minted) \in Nat /\ Ids = 1..Len(minted)
        /\ Ids \subseteq Nat \ {0} /\ \A id \in Ids : minted[id] \in Hooks
    BY DEF TriggersInv, UrlsTyped, Ids
  <1>1. ASSUME NEW hs \in SUBSET Hooks, LoadManifest(hs)
        PROVE  TriggersInv' /\ Stable
    <2>1. /\ deploys' = deploys + 1 /\ declared' = hs
          /\ urls' = {id \in urls : minted[id] \in hs}
          /\ dead' = dead \cup {id \in Ids : minted[id] \in Hooks \ hs}
          /\ UNCHANGED <<loaded, minted, plain, hits>>
      BY <1>1 DEF LoadManifest, Surviving, IdsOf
    <2>2. UrlsTyped'
      BY <2>1 DEF TriggersInv, UrlsTyped, Ids
    <2>3. UrlsHeld'
      BY <2>1, <1>0 DEF UrlsHeld, UrlsTyped
    <2> QED BY <2>1, <2>2, <2>3 DEF TriggersInv, HitsHeld, Stable
  <1>2. ASSUME NEW h \in Hooks, LoadHook(h)
        PROVE  TriggersInv' /\ Stable
    <2>1. /\ loaded' = [loaded EXCEPT ![h] = deploys]
          /\ UNCHANGED <<declared, deploys, urls, minted, dead, plain, hits>>
      BY <1>2 DEF LoadHook
    <2>2. UrlsTyped'
      BY <2>1 DEF TriggersInv, UrlsTyped, Ids
    <2> QED BY <2>1, <2>2 DEF TriggersInv, UrlsHeld, HitsHeld, Stable
  <1>3. CASE ResetTriggers
    <2>1. /\ declared' = {} /\ urls' = {} /\ dead' = Ids
          /\ loaded' = [h \in Hooks |-> 0]
          /\ UNCHANGED <<deploys, minted, plain, hits>>
      BY <1>3 DEF ResetTriggers
    <2>2. UrlsTyped'
      BY <2>1 DEF TriggersInv, UrlsTyped, Ids
    <2>3. UrlsHeld'
      BY <2>1, <1>0 DEF UrlsHeld, UrlsTyped
    <2> QED BY <2>1, <2>2, <2>3 DEF TriggersInv, HitsHeld, Stable
  <1>4. CASE Serve
    <2>1. UNCHANGED <<declared, deploys, loaded, urls, minted, dead, plain, hits>>
      BY <1>4 DEF Serve
    <2> QED BY <2>1 DEF TriggersInv, UrlsTyped, UrlsHeld, HitsHeld, Stable, Ids
  <1>5. ASSUME NEW h \in Hooks, NEW force \in BOOLEAN, GetUrl(h, force)
        PROVE  TriggersInv' /\ Stable
    <2>1. UNCHANGED <<declared, loaded, deploys, dead, hits>>
      BY <1>5 DEF GetUrl
    <2>2. CASE LiveOf(h) = {} \/ force
      <3> DEFINE new == Len(minted) + 1
      <3>1. /\ Mint(h)
            /\ plain' = IF force THEN plain ELSE [plain EXCEPT ![h] = new]
        BY <1>5, <2>2 DEF GetUrl
      <3>2. /\ minted' \in Seq(Hooks) /\ Ids' = Ids \cup {new} /\ new \notin Ids /\ new # NoUrl
            /\ \A id \in Ids : minted'[id] = minted[id] /\ id <= new
            /\ minted'[new] = h /\ urls' = urls \cup {new} /\ new \in Nat
        BY <1>0, <3>1, MintMoves
      <3> HIDE DEF new
      <3>3. UrlsTyped'
        <4>1. plain' \in [Hooks -> {NoUrl} \cup Ids']
          BY <1>0, <3>1, <3>2 DEF UrlsTyped
        <4>2. urls' \subseteq Ids' /\ dead' \subseteq Ids'
          BY <1>0, <2>1, <3>2 DEF UrlsTyped
        <4> QED BY <1>0, <2>1, <3>2, <4>1, <4>2 DEF UrlsTyped
      <3>4. urls' \cap dead' = {}
        BY <1>0, <2>1, <3>2 DEF UrlsTyped, UrlsHeld
      <3>5. ASSUME NEW g \in Hooks, plain'[g] # NoUrl, plain'[g] \notin dead'
            PROVE  /\ plain'[g] \in urls' /\ minted'[plain'[g]] = g
                   /\ \A id \in urls' : minted'[id] = g => plain'[g] <= id
        <4>1. CASE plain'[g] = plain[g]
          <5>1. /\ plain[g] \in urls /\ minted[plain[g]] = g /\ plain[g] \in Ids
                /\ \A id \in urls : minted[id] = g => plain[g] <= id
            BY <1>0, <2>1, <3>5, <4>1 DEF UrlsHeld, UrlsTyped
          <5>2. \A id \in urls' : minted'[id] = g => plain[g] <= id
            BY <1>0, <3>2, <5>1 DEF UrlsTyped
          <5> QED BY <3>2, <4>1, <5>1, <5>2
        <4>2. CASE plain'[g] # plain[g]
          <5>1. g = h /\ plain'[g] = new /\ ~force
            BY <1>0, <3>1, <4>2 DEF UrlsTyped
          <5>2. \A id \in urls : minted[id] # h
            BY <2>2, <5>1 DEF LiveOf
          <5>3. \A id \in urls' : minted'[id] = h => id = new
            BY <1>0, <3>2, <5>2 DEF UrlsTyped
          <5> QED BY <3>2, <5>1, <5>3
        <4> QED BY <4>1, <4>2
      <3>6. UrlsHeld'
        BY <3>4, <3>5 DEF UrlsHeld
      <3>7. ASSUME NEW g \in Hooks, plain[g] # NoUrl, plain[g] \notin dead
            PROVE  plain'[g] = plain[g]
        <4>1. plain[g] \in LiveOf(g)
          BY <1>0, <3>7 DEF UrlsHeld, LiveOf
        <4>2. g # h \/ force
          BY <2>2, <4>1
        <4> QED BY <1>0, <3>1, <4>2 DEF UrlsTyped
      <3> QED BY <1>0, <2>1, <3>3, <3>6, <3>7 DEF TriggersInv, HitsHeld, Stable
    <2>3. CASE LiveOf(h) # {} /\ ~force
      <3> DEFINE old == Chosen(LiveOf(h))
      <3>1. plain' = [plain EXCEPT ![h] = old] /\ UNCHANGED <<minted, urls>>
        BY <1>5, <2>3 DEF GetUrl
      <3>2. /\ old \in urls /\ minted[old] = h
            /\ \A id \in urls : minted[id] = h => old <= id
        BY <1>0, <2>3, OldestUrl
      <3> HIDE DEF old
      <3>3. UrlsTyped'
        BY <1>0, <2>1, <3>1, <3>2 DEF UrlsTyped, Ids
      <3>4. UrlsHeld'
        BY <1>0, <2>1, <3>1, <3>2 DEF UrlsTyped, UrlsHeld
      <3>5. ASSUME NEW g \in Hooks, plain[g] # NoUrl, plain[g] \notin dead
            PROVE  plain'[g] = plain[g]
        <4>1. CASE g # h
          BY <1>0, <3>1, <4>1 DEF UrlsTyped
        <4>2. CASE g = h
          <5>1. /\ plain[h] \in urls /\ minted[plain[h]] = h
                /\ \A id \in urls : minted[id] = h => plain[h] <= id
            BY <1>0, <3>5, <4>2 DEF UrlsHeld
          <5>2. old <= plain[h] /\ plain[h] <= old /\ old \in Nat /\ plain[h] \in Nat
            BY <1>0, <3>2, <5>1 DEF UrlsTyped
          <5> QED BY <1>0, <3>1, <4>2, <5>2 DEF UrlsTyped
        <4> QED BY <4>1, <4>2
      <3> QED BY <1>0, <2>1, <3>3, <3>4, <3>5 DEF TriggersInv, HitsHeld, Stable
    <2> QED BY <2>2, <2>3
  <1>6. ASSUME NEW id \in Ids, DeleteUrl(id)
        PROVE  TriggersInv' /\ Stable
    <2>1. /\ urls' = urls \ {id} /\ dead' = dead \cup {id}
          /\ UNCHANGED <<declared, loaded, deploys, minted, plain, hits>>
      BY <1>6 DEF DeleteUrl
    <2>2. UrlsTyped'
      BY <2>1, <1>6 DEF TriggersInv, UrlsTyped, Ids
    <2>3. UrlsHeld'
      BY <2>1, <1>0 DEF UrlsHeld
    <2> QED BY <2>1, <2>2, <2>3 DEF TriggersInv, HitsHeld, Stable
  <1>7. ASSUME NEW q \in Hits, NEW h \in Hooks, NEW id \in {NoUrl} \cup Ids, Arrives(q, h, id)
        PROVE  TriggersInv' /\ Stable
    <2> DEFINE when == IF h \in served /\ (id = NoUrl \/ id \in urls)
                     THEN "reading" ELSE "not found"
               late == id \in dead
               hit == [at |-> when, hook |-> h, id |-> id, late |-> late, ran |-> 0]
    <2>1. Becomes(q, hit)
      BY <1>7, Zenon DEF Arrives
    <2>2. late => when # "reading"
      BY <1>0 DEF UrlsHeld, UrlsTyped, NoUrl
    <2>3. when \in HitStates
      BY DEF HitStates
    <2>4. late \in BOOLEAN
      OBVIOUS
    <2>5. id \in Nat
      BY <1>0 DEF NoUrl
    <2> HIDE DEF late, when
    <2>6. hit \in HitRecord
      <3>1. 0 \in Nat
        OBVIOUS
      <3> QED BY <2>3, <2>4, <2>5, <3>1, Zenon DEF HitRecord
    <2>7. hit.at = when /\ hit.ran = 0 /\ hit.hook = h
      OBVIOUS
    <2>8. hit.late = late
      BY Zenon
    <2> HIDE DEF hit
    <2>9. TriggersInv' /\ plain' = plain
      BY <2>1, <2>2, <2>6, <2>7, <2>8, HitMoves
    <2> QED BY <2>9 DEF Stable
  <1>8. ASSUME NEW q \in Hits, NEW hit \in HitRecord, Runs(q, hit), ~hit.late,
               hit.hook \in Hooks
        PROVE  TriggersInv' /\ Stable
    <2> DEFINE when == IF loaded[hit.hook] = 0 THEN "not loaded" ELSE "running"
               ran == loaded[hit.hook]
               one == [hit EXCEPT !.at = when]
               two == [one EXCEPT !.ran = ran]
    <2>1. Becomes(q, two)
      BY <1>8, Zenon DEF Runs
    <2>2. ran \in Nat
      BY <1>0, <1>8 DEF UrlsTyped
    <2>3. when \in HitStates /\ when # "reading"
      BY DEF HitStates
    <2> HIDE DEF when, ran
    <2>4. one \in HitRecord /\ one.late = hit.late /\ one.at = when
      BY <1>8, <2>3, HitGoesOn, Zenon
    <2> HIDE DEF one
    <2>5. two \in HitRecord /\ two.late = one.late /\ two.at = one.at
      BY <2>2, <2>4, HitRuns, Zenon
    <2> HIDE DEF two
    <2>6. TriggersInv' /\ plain' = plain
      BY <1>8, <2>1, <2>3, <2>4, <2>5, HitMoves
    <2> QED BY <2>6 DEF Stable
  <1>9. ASSUME NEW q \in Hits, NEW status \in HitStates, status # "reading",
               Becomes(q, [hits[q] EXCEPT !.at = status])
        PROVE  TriggersInv' /\ Stable
    <2> DEFINE one == [hits[q] EXCEPT !.at = status]
    <2>1. hits[q] \in HitRecord
      BY <1>0 DEF UrlsTyped
    <2>2. /\ one \in HitRecord /\ one.late = hits[q].late /\ one.at = status
          /\ one.ran = hits[q].ran
      BY <2>1, <1>9, HitGoesOn, Zenon
    <2>3. hits[q].late => hits[q].ran = 0
      BY <1>0 DEF HitsHeld
    <2> HIDE DEF one
    <2>4. Becomes(q, one)
      BY <1>9 DEF one
    <2> QED BY <1>9, <2>2, <2>3, <2>4, HitMoves DEF Stable
  <1>10. ASSUME NEW q \in Hits, Preflight(q) \/ HandlerReturns(q)
         PROVE  TriggersInv' /\ Stable
    <2>1. PICK status \in {"204", "500", "200"} : Becomes(q, [hits[q] EXCEPT !.at = status])
      BY <1>10, Zenon DEF Preflight, HandlerReturns
    <2>2. status \in HitStates /\ status # "reading"
      BY DEF HitStates
    <2> QED BY <2>1, <2>2, <1>9
  <1>11. ASSUME NEW q \in Hits, BodyRead(q)
         PROVE  TriggersInv' /\ Stable
    <2>1. /\ Runs(q, hits[q]) /\ hits[q].at = "reading" /\ hits[q] \in HitRecord
          /\ ~hits[q].late
      BY <1>0, <1>11 DEF BodyRead, HitsHeld, UrlsTyped
    <2>2. hits[q].hook \in Hooks
      BY <1>0, <2>1 DEF HitsHeld
    <2> QED BY <2>1, <2>2, <1>8
  <1>12. ASSUME NEW q \in Hits, NEW h \in Hooks, FireWebTrigger(q, h)
         PROVE  TriggersInv' /\ Stable
    <2> DEFINE hit == [NoHit EXCEPT !.hook = h]
    <2>1. hit \in HitRecord /\ ~hit.late /\ hit.hook = h
      BY NewHit, HitOfHook, Zenon
    <2>2. Runs(q, hit)
      BY <1>12 DEF FireWebTrigger
    <2> HIDE DEF hit
    <2> QED BY <2>1, <2>2, <1>8
  <1> QED
    <2>1. \A id \in Ids : minted[id] \in Hooks
      BY <1>0
    <2> QED BY <2>1, <1>1, <1>2, <1>3, <1>4, <1>5, <1>6, <1>7, <1>10, <1>11, <1>12, Zenon
         DEF TriggersNext

(* A URL runs its hook until it is deleted, dropped by a deploy or reset, and
   then never again; and getUrl() without force keeps to the one it returned:
   for any hooks, and any deploys, deletions and requests. *)
THEOREM UrlsKeepTheirHook == TriggersSpec => UrlsMeanOneHook
PROOF
  <1>1. TriggersInit => TriggersInv
    <2> SUFFICES ASSUME TriggersInit PROVE TriggersInv
      OBVIOUS
    <2>2. UrlsTyped
      BY NewHit, EmptySeq DEF TriggersInit, UrlsTyped, Ids
    <2>3. UrlsHeld
      BY DEF TriggersInit, UrlsHeld
    <2>4. HitsHeld
      BY NewHit DEF TriggersInit, HitsHeld
    <2> QED BY <2>2, <2>3, <2>4 DEF TriggersInv
  <1>2. TriggersInv /\ [TriggersNext]_wtVars => TriggersInv'
    <2>1. ASSUME TriggersInv, UNCHANGED wtVars PROVE TriggersInv'
      BY <2>1 DEF wtVars, TriggersInv, UrlsTyped, UrlsHeld, HitsHeld, Ids
    <2> QED BY <2>1, UrlsStep
  <1>3. TriggersInv => DeadUrlsNeverRun
    BY DEF TriggersInv, HitsHeld, DeadUrlsNeverRun
  <1>4. TriggersInv /\ [TriggersNext]_wtVars =>
          [\A h \in Hooks : plain[h] # NoUrl /\ plain[h] \notin dead
             => plain'[h] = plain[h]]_wtVars
    BY UrlsStep DEF Stable
  <1> QED BY <1>1, <1>2, <1>3, <1>4, PTL DEF TriggersSpec, UrlsMeanOneHook, PlainUrlIsStable

-----------------------------------------------------------------------------
(* Forms (Forms) *)

(* The form holds, or shows, what the list filled in. *)
Holds(values, list) ==
  \A i \in DOMAIN list :
    (\A j \in DOMAIN list : j > i => list[j].name # list[i].name)
      => values[list[i].name] = list[i].input

IsForm(values) == values = [f \in FormFields |-> values[f]]
IsFilling(x) ==
  /\ x = [at |-> x.at, list |-> x.list, handed |-> x.handed, excused |-> x.excused]
  /\ x.excused \in BOOLEAN

(* What is known of a call x, of the form that holds e and shows f, with the
   update u due and the load l; g says that its settle() gave up. *)
FillHeld(x, e, f, u, l, g) ==
  /\ IsFilling(x)
  /\ x.at \in {"filling", "ticking", "submitting", "ending"} =>
       l \in {"request", "done"} \/ (l = "invoke" /\ g)
  /\ x.at = "ticking" /\ ~x.excused =>
       Holds(e, x.list) /\ (u = "none" => Holds(f, x.list))
  /\ x.at = "submitting" /\ ~x.excused => Holds(e, x.list) /\ Holds(f, x.list)
  /\ x.handed # NotHanded /\ ~x.excused => Holds(x.handed, x.list)

FormsTyped ==
  /\ IsForm(entered) /\ IsForm(filed) /\ style \in {"registered", "controlled"}
  /\ fillings = [c \in Fillings |-> fillings[c]]
  /\ nodes = [n \in HeldNodes |-> nodes[n]]
  /\ \A n \in HeldNodes : nodes[n] # NotHanded => IsForm(nodes[n])
  /\ outOfScope \in BOOLEAN /\ update \in {"none", "own", "latest"}
  /\ load \in {"effect", "invoke", "request", "done"}

FillsHeld ==
  \A c \in Fillings : FillHeld(fillings[c], entered, filed, update, load, c \in gaveUp)

(* The other module's doc. *)
ScopeHeld ==
  /\ update = "latest" /\ ~inFront => outOfScope
  /\ inFront => otherDoc # "form"
  /\ DocsStayApart

FormsInv == FormsTyped /\ FillsHeld /\ ScopeHeld

(* A call fills in a sequence, and what it fills in is in the form. *)
LEMMA ListsAreSequences ==
    ASSUME NEW list \in FillLists
    PROVE  Len(list) \in Nat /\ DOMAIN list = 1..Len(list)
BY FormsAssumption

(* A list that is known to its end names fields of the form only. *)
LEMMA KnownNames ==
    ASSUME NEW list \in FillLists, Known(list) = list, NEW i \in DOMAIN list
    PROVE  list[i].name \in FormFields
PROOF
  <1> DEFINE wrong == {k \in DOMAIN list : list[k].name \notin FormFields}
             first == CHOOSE k \in wrong : \A j \in wrong : k <= j
             S == {list[k] : k \in DOMAIN list}
  <1>1. list \in Seq(S) /\ Len(list) \in Nat /\ DOMAIN list = 1..Len(list)
    BY FormsAssumption
  <1>2. ASSUME wrong # {} PROVE FALSE
    <2>1. wrong \in SUBSET (1..Len(list))
      BY <1>1
    <2>2. \E k \in wrong : \A j \in wrong : k <= j
      <3> HIDE DEF wrong
      <3> QED BY <1>1, <1>2, <2>1, FirstPlace
    <2>3. first \in wrong
      <3> HIDE DEF wrong
      <3> QED BY <2>2
    <2> HIDE DEF first
    <2>4. first \in 1..Len(list)
      BY <2>1, <2>3
    <2>5. Known(list) = SubSeq(list, 1, first - 1)
      BY <1>2 DEF Known, first
    <2>6. Len(SubSeq(list, 1, first - 1)) = first - 1
      <3> HIDE DEF S
      <3> QED BY <1>1, <2>4
    <2> QED BY <1>1, <2>4, <2>5, <2>6
  <1> QED BY <1>2

(* Typing into a form leaves a form. *)
LEMMA TypedIsForm ==
    ASSUME NEW values, NEW seen, NEW list, IsForm(values), IsForm(seen)
    PROVE  IsForm(Typed(values, seen, list))
BY DEF IsForm, Typed

(* What is typed holds the last input of every field the list names. *)
LEMMA TypedHolds ==
    ASSUME NEW list \in FillLists, Known(list) = list, NEW values, NEW seen,
           IsForm(values), IsForm(seen), style = "registered" \/ ~(Len(list) > 1)
    PROVE  Holds(Typed(values, seen, list), list)
PROOF
  <1>1. Len(list) \in Nat /\ DOMAIN list = 1..Len(list)
    BY ListsAreSequences
  <1> SUFFICES ASSUME NEW i \in DOMAIN list,
                      \A j \in DOMAIN list : j > i => list[j].name # list[i].name
               PROVE  Typed(values, seen, list)[list[i].name] = list[i].input
    BY DEF Holds
  <1>2. list[i].name \in FormFields /\ i \in 1..Len(list)
    BY <1>1, KnownNames
  <1>3. list # <<>>
    BY <1>1, <1>2
  <1>4. CASE style = "registered"
    <2> DEFINE P == Places(list, list[i].name)
    <2>1. i \in P /\ P \subseteq 1..Len(list) /\ \A j \in P : j <= i
      BY <1>1, <1>2 DEF Places
    <2> HIDE DEF P
    <2>2. (CHOOSE k \in P : \A j \in P : j <= k) = i
      <3>1. \A k \in P : (\A j \in P : j <= k) => k = i
        BY <2>1
      <3> QED BY <2>1, <3>1
    <2>3. LastInput(list, list[i].name) = list[i].input
      BY <2>2 DEF LastInput, P
    <2>4. Typed(values, seen, list)[list[i].name] = LastInput(list, list[i].name)
      BY <1>2, <1>3, <1>4, <2>1 DEF Typed, P
    <2> QED BY <2>3, <2>4
  <1>5. CASE style # "registered"
    <2>1. Len(list) = i
      BY <1>1, <1>2, <1>5
    <2>2. Typed(values, seen, list) = [seen EXCEPT ![list[i].name] = list[i].input]
      BY <1>3, <1>5, <2>1 DEF Typed, Last
    <2> QED BY <1>2, <2>2 DEF IsForm
  <1> QED BY <1>4, <1>5

(* What is known of a call when it is excused. *)
LEMMA ExcusedHolds ==
    ASSUME NEW x, IsFilling(x)
    PROVE  /\ IsFilling([x EXCEPT !.excused = TRUE])
           /\ [x EXCEPT !.excused = TRUE].excused
           /\ [x EXCEPT !.excused = TRUE].at = x.at
PROOF
  <1>1. PICK a, l, h, e :
          x = [at |-> a, list |-> l, handed |-> h, excused |-> e]
    BY Zenon DEF IsFilling
  <1>2. ASSUME NEW t
        PROVE  [x EXCEPT !.excused = t] = [at |-> a, list |-> l, handed |-> h, excused |-> t]
    BY <1>1
  <1>3. [x EXCEPT !.excused = TRUE] = [at |-> a, list |-> l, handed |-> h, excused |-> TRUE]
    BY <1>2, Zenon
  <1>4. x.at = a
    BY <1>1
  <1> QED BY <1>3, <1>4, Zenon DEF IsFilling

(* The calls that are disturbed, and those that are not. *)
LEMMA DisturbedCalls ==
    ASSUME FormsTyped, FillsHeld, NEW S, NEW c \in Fillings
    PROVE  LET y == Disturbed(S)[c] IN
           /\ IsFilling(y) /\ y.at = fillings[c].at
           /\ y.excused \/ y = fillings[c]
           /\ c \in S /\ y.at \in {"ticking", "submitting"} => y.excused
PROOF
  <1>1. IsFilling(fillings[c])
    BY DEF FillsHeld, FillHeld
  <1>2. Disturbed(S)[c] = IF c \in S /\ BetweenSteps(c)
                          THEN [fillings[c] EXCEPT !.excused = TRUE] ELSE fillings[c]
    BY Zenon DEF Disturbed
  <1>3. CASE c \in S /\ BetweenSteps(c)
    BY <1>1, <1>2, <1>3, ExcusedHolds, Zenon
  <1>4. CASE ~(c \in S /\ BetweenSteps(c))
    BY <1>1, <1>2, <1>4, Zenon DEF BetweenSteps
  <1> QED BY <1>3, <1>4

(* One call goes on, and the others are disturbed or not. *)
LEMMA OneGoesOn ==
    ASSUME FormsTyped, FillsHeld, NEW c \in Fillings, NEW S, NEW new,
           fillings' = [Disturbed(S) EXCEPT ![c] = new],
           FillHeld(new, entered', filed', update', load', c \in gaveUp'),
           load' = load, filed' = filed,
           \A d \in Fillings : d # c => (d \in gaveUp' <=> d \in gaveUp),
           S = Fillings \ {c} \/ (entered' = entered /\ update' = update)
    PROVE  /\ FillsHeld'
           /\ fillings' = [d \in Fillings |-> fillings'[d]]
PROOF
  <1>1. /\ fillings'[c] = new /\ fillings' = [d \in Fillings |-> fillings'[d]]
        /\ \A d \in Fillings : d # c => fillings'[d] = Disturbed(S)[d]
    BY DEF Disturbed
  <1>2. ASSUME NEW d \in Fillings, d # c
        PROVE  FillHeld(fillings'[d], entered', filed', update', load', d \in gaveUp')
    <2>1. PICK y : y = Disturbed(S)[d]
      OBVIOUS
    <2>2. /\ IsFilling(y) /\ y.at = fillings[d].at
          /\ y.excused \/ y = fillings[d]
          /\ d \in S /\ y.at \in {"ticking", "submitting"} => y.excused
      BY <2>1, DisturbedCalls
    <2>3. FillHeld(fillings[d], entered, filed, update, load, d \in gaveUp)
      BY DEF FillsHeld
    <2>4. PICK x, e, f, u, l : x = fillings[d] /\ e = entered' /\ f = filed' /\ u = update' /\ l = load'
      OBVIOUS
    <2>5. d \in S \/ (e = entered /\ u = update)
      BY <1>2, <2>4
    <2>6. FillHeld(y, e, f, u, l, d \in gaveUp)
      BY <2>2, <2>3, <2>4, <2>5 DEF FillHeld
    <2>7. FillHeld(y, e, f, u, l, d \in gaveUp')
      BY <1>2, <2>6 DEF FillHeld
    <2> QED BY <1>1, <1>2, <2>1, <2>4, <2>7
  <1> QED BY <1>1, <1>2 DEF FillsHeld

(* Nobody goes on, and the calls are disturbed or not: all of them, or those that did
   not wait for the invocation that now answers. *)
LEMMA NobodyGoesOn ==
    ASSUME FormsTyped, FillsHeld, NEW S, fillings' = Disturbed(S), gaveUp' = gaveUp,
           load' = load \/ load' = "done" \/ load = "effect",
           \/ S = Fillings
           \/ load = "effect"
           \/ load = "invoke" /\ S = gaveUp
           \/ entered' = entered /\ filed' = filed /\ update' = update
           \/ entered' = entered /\ filed' = entered
    PROVE  /\ FillsHeld'
           /\ fillings' = [d \in Fillings |-> fillings'[d]]
PROOF
  <1>1. fillings' = [d \in Fillings |-> fillings'[d]]
    BY DEF Disturbed
  <1>2. ASSUME NEW d \in Fillings
        PROVE  FillHeld(fillings'[d], entered', filed', update', load', d \in gaveUp')
    <2>1. PICK y : y = Disturbed(S)[d]
      OBVIOUS
    <2>2. /\ IsFilling(y) /\ y.at = fillings[d].at
          /\ y.excused \/ y = fillings[d]
          /\ d \in S /\ y.at \in {"ticking", "submitting"} => y.excused
      BY <2>1, DisturbedCalls
    <2>3. FillHeld(fillings[d], entered, filed, update, load, d \in gaveUp)
      BY DEF FillsHeld
    <2>4. PICK x, e, f, u, l : x = fillings[d] /\ e = entered' /\ f = filed' /\ u = update' /\ l = load'
      OBVIOUS
    <2>5. \/ d \in S
          \/ load = "effect"
          \/ load = "invoke" /\ d \notin gaveUp
          \/ e = entered /\ f = filed /\ u = update
          \/ e = entered /\ f = entered
      BY <2>4
    <2>6. FillHeld(y, e, f, u, l, d \in gaveUp)
      BY <2>2, <2>3, <2>4, <2>5 DEF FillHeld
    <2> QED BY <2>1, <2>4, <2>6
  <1> QED BY <1>1, <1>2 DEF FillsHeld

(* A step that disturbs no call leaves them all. *)
LEMMA Undisturbed ==
    ASSUME FormsTyped
    PROVE  Disturbed({}) = fillings
PROOF
  <1>1. Disturbed({}) = [c \in Fillings |-> fillings[c]]
    BY DEF Disturbed
  <1> QED BY <1>1 DEF FormsTyped

(* One more thing is known of a call. *)
LEMMA FillGoesOn ==
    ASSUME NEW x, IsFilling(x), NEW when, NEW handed
    PROVE  /\ [x EXCEPT !.at = when] =
                [at |-> when, list |-> x.list, handed |-> x.handed, excused |-> x.excused]
           /\ [x EXCEPT !.at = when, !.handed = handed] =
                [at |-> when, list |-> x.list, handed |-> handed, excused |-> x.excused]
PROOF
  <1>1. PICK a, l, h, e : x = [at |-> a, list |-> l, handed |-> h, excused |-> e]
    BY Zenon DEF IsFilling
  <1>2. [x EXCEPT !.at = when] = [at |-> when, list |-> l, handed |-> h, excused |-> e]
    BY <1>1
  <1>3. ASSUME NEW b, b = [at |-> when, list |-> l, handed |-> h, excused |-> e]
        PROVE  [b EXCEPT !.handed = handed] =
                 [at |-> when, list |-> l, handed |-> handed, excused |-> e]
    BY <1>3
  <1>4. x.list = l /\ x.handed = h
    BY <1>1
  <1>5. x.excused = e
    BY <1>1, Zenon
  <1>6. [[x EXCEPT !.at = when] EXCEPT !.handed = handed] =
          [at |-> when, list |-> l, handed |-> handed, excused |-> e]
    BY <1>2, <1>3, Zenon
  <1> QED BY <1>2, <1>4, <1>5, <1>6, Zenon

(* The steps of the app, of React and of a held node. *)
LEMMA AppSteps ==
    ASSUME FormsInv,
           \/ FlushEffect \/ LoadArrives \/ CommitForm \/ RenderOther
           \/ \E n \in HeldNodes : HoldNode(n) \/ Interact(n)
    PROVE  FormsInv'
PROOF
  <1>0. FormsTyped /\ FillsHeld /\ ScopeHeld
    BY DEF FormsInv
  <1>1. CASE FlushEffect
    <2>1. /\ load = "effect" /\ load' \in {"invoke", "request"}
          /\ fillings' = Disturbed({})
          /\ UNCHANGED <<entered, filed, update, style, inFront, nodes, otherDoc, outOfScope, gaveUp>>
      BY <1>0, <1>1, Undisturbed DEF FlushEffect
    <2>2. FillsHeld' /\ fillings' = [d \in Fillings |-> fillings'[d]]
      BY <1>0, <2>1, NobodyGoesOn
    <2> QED BY <1>0, <2>1, <2>2 DEF FormsInv, FormsTyped, ScopeHeld, DocsStayApart, IsForm
  <1>2. CASE LoadArrives
    <2>1. /\ load \in {"invoke", "request"} /\ load' = "done"
          /\ fillings' = Disturbed(IF load = "request" THEN Fillings ELSE gaveUp)
          /\ entered' = [f \in FormFields |-> Loaded]
          /\ update' = IF update = "none" THEN "own" ELSE update
          /\ UNCHANGED <<filed, style, inFront, nodes, otherDoc, outOfScope, gaveUp>>
      BY <1>2 DEF LoadArrives
    <2>2. FillsHeld' /\ fillings' = [d \in Fillings |-> fillings'[d]]
      BY <1>0, <2>1, NobodyGoesOn
    <2>3. IsForm(entered')
      BY <2>1 DEF IsForm
    <2> QED BY <1>0, <2>1, <2>2, <2>3 DEF FormsInv, FormsTyped, ScopeHeld, DocsStayApart, IsForm
  <1>4. CASE CommitForm
    <2>1. /\ update # "none" /\ update' = "none"
          /\ IF FilesWithTheForm THEN filed' = entered /\ UNCHANGED otherDoc
             ELSE otherDoc' = "form" /\ UNCHANGED filed
          /\ fillings' = Disturbed(IF FilesWithTheForm THEN {} ELSE Fillings)
          /\ UNCHANGED <<entered, style, load, inFront, nodes, outOfScope, gaveUp>>
      BY <1>4 DEF CommitForm
    <2>2. FillsHeld' /\ fillings' = [d \in Fillings |-> fillings'[d]]
      <3>1. CASE FilesWithTheForm
        BY <1>0, <2>1, <3>1, NobodyGoesOn
      <3>2. CASE ~FilesWithTheForm
        BY <1>0, <2>1, <3>2, NobodyGoesOn
      <3> QED BY <3>1, <3>2
    <2>3. FormsTyped'
      BY <1>0, <2>1, <2>2 DEF FormsTyped, IsForm
    <2>4. ScopeHeld'
      BY <1>0, <2>1 DEF FormsTyped, ScopeHeld, DocsStayApart, FilesWithTheForm
    <2> QED BY <2>2, <2>3, <2>4 DEF FormsInv
  <1>5. CASE RenderOther
    <2>1. /\ inFront /\ inFront' = FALSE /\ outOfScope' = (update = "latest")
          /\ fillings' = Disturbed({})
          /\ UNCHANGED <<entered, filed, update, style, load, nodes, otherDoc, gaveUp>>
      BY <1>0, <1>5, Undisturbed DEF RenderOther
    <2>2. FillsHeld' /\ fillings' = [d \in Fillings |-> fillings'[d]]
      BY <1>0, <2>1, NobodyGoesOn
    <2> QED BY <1>0, <2>1, <2>2 DEF FormsInv, FormsTyped, ScopeHeld, DocsStayApart, IsForm
  <1>6. ASSUME NEW n \in HeldNodes, HoldNode(n) PROVE FormsInv'
    <2>1. /\ nodes' = [nodes EXCEPT ![n] = filed] /\ fillings' = Disturbed({})
          /\ UNCHANGED <<entered, filed, update, style, load, inFront, otherDoc, outOfScope, gaveUp>>
      BY <1>0, <1>6, Undisturbed DEF HoldNode
    <2>2. FillsHeld' /\ fillings' = [d \in Fillings |-> fillings'[d]]
      BY <1>0, <2>1, NobodyGoesOn
    <2>3. /\ nodes' = [m \in HeldNodes |-> nodes'[m]]
          /\ \A m \in HeldNodes : nodes'[m] # NotHanded => IsForm(nodes'[m])
      BY <1>0, <2>1 DEF FormsTyped
    <2> QED BY <1>0, <2>1, <2>2, <2>3 DEF FormsInv, FormsTyped, ScopeHeld, DocsStayApart, IsForm
  <1>7. ASSUME NEW n \in HeldNodes, Interact(n) PROVE FormsInv'
    <2>1. PICK f \in FormFields :
            /\ nodes[n] # NotHanded
            /\ entered' = Typed(entered, nodes[n], <<[name |-> f, input |-> Blank]>>)
            /\ Driven
            /\ nodes' = [nodes EXCEPT ![n] = NotHanded]
            /\ fillings' = Disturbed(Fillings)
            /\ UNCHANGED <<filed, style, load, inFront, otherDoc, gaveUp>>
      BY <1>7 DEF Interact
    <2>2. FillsHeld' /\ fillings' = [d \in Fillings |-> fillings'[d]]
      BY <1>0, <2>1, NobodyGoesOn
    <2>3. /\ nodes' = [m \in HeldNodes |-> nodes'[m]]
          /\ \A m \in HeldNodes : nodes'[m] # NotHanded => IsForm(nodes'[m])
      BY <1>0, <2>1 DEF FormsTyped
    <2>4. IsForm(entered')
      <3>1. IsForm(entered) /\ IsForm(nodes[n])
        BY <1>0, <2>1 DEF FormsTyped
      <3>2. IsForm(Typed(entered, nodes[n], <<[name |-> f, input |-> Blank]>>))
        BY <3>1, TypedIsForm
      <3> QED BY <2>1, <3>2, Zenon
    <2>5. FormsTyped'
      <3>1. IsForm(filed') /\ style' \in {"registered", "controlled"} /\ outOfScope' \in BOOLEAN
            /\ update' \in {"none", "own", "latest"}
            /\ load' \in {"effect", "invoke", "request", "done"}
        BY <1>0, <2>1 DEF FormsTyped, Driven, IsForm
      <3> QED BY <3>1, <2>2, <2>3, <2>4 DEF FormsTyped, IsForm
    <2>6. ScopeHeld'
      BY <1>0, <2>1 DEF ScopeHeld, DocsStayApart, Driven
    <2> QED BY <2>2, <2>5, <2>6 DEF FormsInv
  <1> QED BY <1>1, <1>2, <1>4, <1>5, <1>6, <1>7

(* The steps of a call. *)
LEMMA FillSteps ==
    ASSUME FormsInv, NEW c \in Fillings, FillStep(c)
    PROVE  FormsInv'
PROOF
  <1>0. /\ FormsTyped /\ FillsHeld /\ ScopeHeld
        /\ FillHeld(fillings[c], entered, filed, update, load, c \in gaveUp)
        /\ IsFilling(fillings[c]) /\ Disturbed({}) = fillings
    BY Undisturbed DEF FormsInv, FillsHeld, FillHeld
  <1>1. ASSUME NEW new, fillings' = [fillings EXCEPT ![c] = new],
               FillHeld(new, entered, filed, update, load, c \in gaveUp'),
               \A d \in Fillings : d # c => (d \in gaveUp' <=> d \in gaveUp),
               UNCHANGED <<entered, filed, update, style, load, inFront, nodes, otherDoc,
                           outOfScope>>
        PROVE  FormsInv'
    <2>1. fillings' = [Disturbed({}) EXCEPT ![c] = new]
      BY <1>0, <1>1
    <2>2. FillHeld(new, entered', filed', update', load', c \in gaveUp')
      BY <1>1
    <2>3. FillsHeld' /\ fillings' = [d \in Fillings |-> fillings'[d]]
      BY <1>0, <1>1, <2>1, <2>2, OneGoesOn
    <2> QED BY <1>0, <1>1, <2>3 DEF FormsInv, FormsTyped, ScopeHeld, DocsStayApart, IsForm
  <1>2. ASSUME NEW when, fillings' = [fillings EXCEPT ![c].at = when],
               UNCHANGED <<entered, filed, update, style, load, inFront, nodes, otherDoc,
                           outOfScope>>,
               FillHeld([at |-> when, list |-> fillings[c].list, handed |-> fillings[c].handed,
                         excused |-> fillings[c].excused],
                        entered, filed, update, load, c \in gaveUp'),
               \A d \in Fillings : d # c => (d \in gaveUp' <=> d \in gaveUp)
        PROVE  FormsInv'
    <2>1. [fillings[c] EXCEPT !.at = when] =
            [at |-> when, list |-> fillings[c].list, handed |-> fillings[c].handed,
             excused |-> fillings[c].excused]
      BY <1>0, FillGoesOn, Zenon
    <2>2. fillings' = [fillings EXCEPT ![c] = [at |-> when, list |-> fillings[c].list,
                         handed |-> fillings[c].handed, excused |-> fillings[c].excused]]
      BY <1>2, <2>1
    <2> QED BY <1>1, <1>2, <2>2
  <1>3. CASE BeginFill(c)
    <2>1. fillings' = [fillings EXCEPT ![c].at = "settling"]
      BY <1>3 DEF BeginFill
    <2> QED BY <1>0, <1>2, <1>3, <2>1 DEF BeginFill, FillHeld, IsFilling
  <1>4. CASE SettleBefore(c)
    <2>1. /\ fillings' = [fillings EXCEPT ![c].at = "filling"]
          /\ load \in {"request", "done"} \/ (load = "invoke" /\ c \in gaveUp')
          /\ gaveUp' = gaveUp \/ gaveUp' = gaveUp \cup {c}
      BY <1>0, <1>4 DEF SettleBefore, IsQuiet, GivesUp, FormsTyped
    <2>2. \A d \in Fillings : d # c => (d \in gaveUp' <=> d \in gaveUp)
      BY <2>1
    <2> QED BY <1>0, <1>2, <1>4, <2>1, <2>2 DEF SettleBefore, FillHeld, IsFilling
  <1>5. CASE Beat(c)
    <2>1. /\ fillings' = [fillings EXCEPT ![c].at = "submitting"]
          /\ fillings[c].at = "ticking" /\ update = "none"
      BY <1>5 DEF Beat
    <2> QED BY <1>0, <1>2, <1>5, <2>1 DEF Beat, FillHeld, IsFilling
  <1>6. CASE Submit(c)
    <2> DEFINE handed == IF style = "registered" THEN entered ELSE filed
               new == [at |-> "ending", list |-> fillings[c].list, handed |-> handed,
                       excused |-> fillings[c].excused]
    <2>1. /\ fillings[c].at = "submitting"
          /\ fillings' = [fillings EXCEPT ![c].at = "ending", ![c].handed = handed]
          /\ UNCHANGED <<entered, filed, update, style, load, inFront, nodes, otherDoc,
                         outOfScope, gaveUp>>
      BY <1>6 DEF Submit
    <2>2. [fillings[c] EXCEPT !.at = "ending", !.handed = handed] = new
      BY <1>0, FillGoesOn, Zenon
    <2>3. fillings' = [fillings EXCEPT ![c] = [fillings[c] EXCEPT !.at = "ending", !.handed = handed]]
      <3> HIDE DEF handed
      <3> QED BY <1>0, <2>1, Zenon DEF FormsTyped
    <2>4. FillHeld(new, entered, filed, update, load, c \in gaveUp')
      BY <1>0, <2>1 DEF FillHeld, IsFilling
    <2> HIDE DEF new, handed
    <2> QED BY <1>1, <2>1, <2>2, <2>3, <2>4
  <1>7. CASE SettleAfter(c)
    <2> DEFINE new == [NoFilling EXCEPT !.at = "done"]
    <2>1. /\ fillings' = [fillings EXCEPT ![c] = new]
          /\ UNCHANGED <<entered, filed, update, style, load, inFront, nodes, otherDoc,
                         outOfScope, gaveUp>>
      BY <1>7 DEF SettleAfter
    <2>2. IsFilling(NoFilling) /\ NoFilling.list = <<>> /\ NoFilling.handed = NotHanded
      BY DEF NoFilling, IsFilling
    <2>3. new = [at |-> "done", list |-> <<>>, handed |-> NotHanded,
                 excused |-> NoFilling.excused] /\ NoFilling.excused \in BOOLEAN
      BY <2>2, FillGoesOn, Zenon DEF IsFilling
    <2>4. FillHeld(new, entered, filed, update, load, c \in gaveUp')
      <3> HIDE DEF new
      <3> QED BY <2>3 DEF FillHeld, IsFilling
    <2> HIDE DEF new
    <2> QED BY <1>1, <2>1, <2>4
  <1>8. ASSUME NEW list \in FillLists, NEW submits \in BOOLEAN, FillFields(c, list, submits)
        PROVE  FormsInv'
    <2> DEFINE knew == Known(list)
               grown == IF knew # list THEN "failed"
                       ELSE IF submits THEN AfterFilling(c) ELSE "ending"
               filled == IF grown = "failed" THEN <<>> ELSE list
               spared == style = "controlled" /\ Len(list) > 1
               new == [at |-> grown, list |-> filled, handed |-> NotHanded, excused |-> spared]
    <2>1. /\ fillings[c].at = "filling"
          /\ entered' = Typed(entered, filed, knew)
          /\ fillings' = [Disturbed(IF knew = <<>> THEN {} ELSE Fillings \ {c}) EXCEPT ![c] = new]
          /\ UNCHANGED <<filed, style, load, inFront, nodes, otherDoc, gaveUp>>
      BY <1>8 DEF FillFields
    <2>2. IF knew = <<>> THEN UNCHANGED <<update, outOfScope>> ELSE Driven
      BY <1>8 DEF FillFields
    <2>3. IsForm(entered) /\ IsForm(filed)
      BY <1>0 DEF FormsTyped
    <2> HIDE DEF knew
    <2>4. IsForm(entered')
      BY <2>1, <2>3, TypedIsForm, Zenon
    <2>5. knew = <<>> => entered' = entered /\ update' = update
      BY <2>1, <2>2 DEF Typed
    <2>6. knew # <<>> => update' # "none"
      BY <2>2 DEF Driven
    <2>7. ASSUME grown = "ticking", ~spared
          PROVE  Holds(entered', list) /\ (update' = "none" => Holds(filed', list))
      <3>1. knew = list /\ Known(list) = list
        BY <2>7 DEF knew
      <3>2. style = "registered" \/ ~(Len(list) > 1)
        BY <1>0, <2>7 DEF FormsTyped
      <3>3. Holds(Typed(entered, filed, list), list)
        BY <2>3, <3>1, <3>2, TypedHolds
      <3>4. list = <<>> => Holds(filed', list)
        <4>1. DOMAIN <<>> = {}
          OBVIOUS
        <4> QED BY <4>1, Zenon DEF Holds
      <3> QED BY <2>1, <2>6, <3>1, <3>3, <3>4
    <2>8. FillHeld(new, entered', filed', update', load', c \in gaveUp')
      <3>1. load' \in {"request", "done"} \/ (load' = "invoke" /\ c \in gaveUp')
        BY <1>0, <2>1 DEF FillHeld
      <3>2. grown \in {"failed", "ticking", "ending"} /\ (grown # "failed" => filled = list)
        BY DEF AfterFilling
      <3>3. spared \in BOOLEAN
        OBVIOUS
      <3> HIDE DEF grown, filled, spared
      <3>4. new.at = grown /\ new.list = filled /\ new.handed = NotHanded
        OBVIOUS
      <3>5. new.excused = spared
        BY Zenon
      <3>6. IsFilling(new)
        BY <3>3, <3>4, <3>5, Zenon DEF IsFilling
      <3> HIDE DEF new
      <3> QED BY <2>7, <3>1, <3>2, <3>4, <3>5, <3>6 DEF FillHeld
    <2> HIDE DEF new
    <2>9. FillsHeld' /\ fillings' = [d \in Fillings |-> fillings'[d]]
      <3>1. CASE knew = <<>>
        <4>1. fillings' = [Disturbed({}) EXCEPT ![c] = new]
          BY <2>1, <3>1
        <4> QED BY <1>0, <2>1, <2>5, <2>8, <3>1, <4>1, OneGoesOn
      <3>2. CASE knew # <<>>
        <4>1. fillings' = [Disturbed(Fillings \ {c}) EXCEPT ![c] = new]
          BY <2>1, <3>2
        <4> QED BY <1>0, <2>1, <2>8, <4>1, OneGoesOn
      <3> QED BY <3>1, <3>2
    <2>10. /\ outOfScope' \in BOOLEAN /\ update' \in {"none", "own", "latest"}
           /\ ScopeHeld'
      BY <1>0, <2>1, <2>2 DEF FormsTyped, ScopeHeld, DocsStayApart, Driven
    <2>11. FormsTyped'
      BY <1>0, <2>1, <2>4, <2>9, <2>10 DEF FormsTyped, IsForm
    <2> QED BY <2>9, <2>10, <2>11 DEF FormsInv
  <1> QED BY <1>3, <1>4, <1>5, <1>6, <1>7, <1>8 DEF FillStep

(* What a call filled in is what the app is handed, and a doc is filed under
   its own module: for any fields, lists, calls and held nodes, and for a form
   that keeps its values in a store or in a state. *)
THEOREM FormsStayFaithful == FormsSpec => []FormsAreFaithful
PROOF
  <1>1. FormsInit => FormsInv
    <2> SUFFICES ASSUME FormsInit PROVE FormsInv
      OBVIOUS
    <2>1. FormsTyped
      BY DEF FormsInit, FormsTyped, IsForm
    <2>2. /\ IsFilling(NoFilling) /\ NoFilling.at = "free" /\ NoFilling.handed = NotHanded
      BY DEF NoFilling, IsFilling
    <2>3. \A c \in Fillings : fillings[c] = NoFilling
      BY DEF FormsInit
    <2>4. FillsHeld
      BY <2>2, <2>3 DEF FillsHeld, FillHeld
    <2>5. ScopeHeld
      BY DEF FormsInit, ScopeHeld, DocsStayApart
    <2> QED BY <2>1, <2>4, <2>5 DEF FormsInv
  <1>2. FormsInv /\ [FormsNext]_fmVars => FormsInv'
    <2>1. ASSUME FormsInv, UNCHANGED fmVars PROVE FormsInv'
      <3>1. FormsTyped' /\ ScopeHeld'
        BY <2>1 DEF FormsInv, FormsTyped, ScopeHeld, DocsStayApart, IsForm, fmVars
      <3>2. FillsHeld'
        BY <2>1 DEF FormsInv, FillsHeld, fmVars
      <3> QED BY <3>1, <3>2 DEF FormsInv
    <2> QED BY <2>1, AppSteps, FillSteps DEF FormsNext
  <1>3. FormsInv => FormsAreFaithful
    <2> SUFFICES ASSUME FormsInv PROVE FormsAreFaithful
      OBVIOUS
    <2>1. \A c \in Fillings : fillings[c].handed # NotHanded /\ ~fillings[c].excused
                                => Holds(fillings[c].handed, fillings[c].list)
      BY DEF FormsInv, FillsHeld, FillHeld
    <2>2. HandsOverWhatWasFilled
      BY <2>1, Zenon DEF HandsOverWhatWasFilled, Holds
    <2> QED BY <2>2 DEF FormsInv, ScopeHeld, FormsAreFaithful
  <1> QED BY <1>1, <1>2, <1>3, PTL DEF FormsSpec

-----------------------------------------------------------------------------
(* Routing (Routing) *)

MapsOf(a, name) == {x \in Names : IsMap(a, x) /\ name \in a.exports[x].methods}

AppInstalled ==
  /\ app \in Apps
  /\ DOMAIN route = UIModulesOf(app)
  /\ \A m \in DOMAIN route : route[m] = RouteOf(app, m)
  /\ \A n \in Names : Claiming(app, n) # {} =>
       owner[n] = app.modules[Max(Claiming(app, n))].resolver
  /\ \A n, r \in Names : MapsOf(app, n) = {r} => defined[n] = r

NothingInstalled == app = NoApp /\ DOMAIN route = {}

(* What is routed is what the last app says, or nothing is installed. *)
RoutesInv ==
  /\ AppInstalled \/ NothingInstalled
  /\ OwnCodeOnly
  /\ NoSilentSinks

(* A function has a name, and a place in the list. *)
LEMMA FunctionsHaveNames ==
    ASSUME NEW a \in Apps, NEW name, IsFunction(a, name)
    PROVE  name \in Names /\ PlaceOf(a, name) \in Nat
PROOF
  <1> DEFINE list == FunctionsOf(a)
             P == {i \in DOMAIN list : list[i].key = name}
             IsFirst(i) == list[i].key = name /\ \A j \in 1..(i - 1) : list[j].key # name
  <1>1. list \in Seq([key : Names, type : {"resolver", "action", "workflow"}])
    BY RoutingAssumption DEF AppIsWellFormed
  <1> HIDE DEF list
  <1>2. /\ Len(list) \in Nat /\ DOMAIN list = 1..Len(list)
        /\ \A i \in DOMAIN list : list[i].key \in Names
    <2>1. Len(list) \in Nat /\ DOMAIN list = 1..Len(list)
      BY <1>1
    <2>2. ASSUME NEW i \in DOMAIN list
          PROVE  list[i] \in [key : Names, type : {"resolver", "action", "workflow"}]
      <3> DEFINE S == [key : Names, type : {"resolver", "action", "workflow"}]
      <3>1. list \in Seq(S) /\ i \in 1..Len(list)
        BY <1>1, <2>1, <2>2
      <3> HIDE DEF S
      <3>2. list[i] \in S
        BY <3>1
      <3> QED BY <3>2 DEF S
    <2>3. \A i \in DOMAIN list : list[i].key \in Names
      BY <2>2
    <2> QED BY <2>1, <2>3
  <1>3. P # {} /\ P \in SUBSET (1..Len(list))
    BY <1>2 DEF IsFunction, list
  <1>4. PICK i \in P : \A j \in P : i <= j
    <2> HIDE DEF P
    <2> QED BY <1>2, <1>3, FirstPlace
  <1>5. i \in DOMAIN list /\ IsFirst(i)
    BY <1>2, <1>4
  <1>6. PlaceOf(a, name) = CHOOSE k \in DOMAIN list : IsFirst(k)
    BY DEF PlaceOf, list
  <1>7. PlaceOf(a, name) \in DOMAIN list
    <2> HIDE DEF IsFirst
    <2> QED BY <1>5, <1>6
  <1> QED BY <1>2, <1>3, <1>7

(* A resolver that alone defines a name, and that a UI module has, owns it. *)
LEMMA LoneDefinerOwns ==
    ASSUME NEW a \in Apps, NEW name \in Names, NEW r \in Names, NEW m \in UIModulesOf(a),
           RouteOf(a, m).resolver = r, IsMap(a, r), name \in a.exports[r].methods,
           \A x \in Names : (\/ IsMap(a, x) /\ name \in a.exports[x].methods
                             \/ IsPlain(a, x) /\ name = x) => x = r
    PROVE  /\ Claiming(a, name) # {}
           /\ a.modules[Max(Claiming(a, name))].resolver = r
PROOF
  <1> DEFINE C == Claiming(a, name)
  <1>1. AppIsWellFormed(a)
    BY RoutingAssumption
  <1>2. Len(a.modules) \in Nat /\ DOMAIN a.modules = 1..Len(a.modules)
    BY <1>1 DEF AppIsWellFormed
  <1>3. PICK i \in DOMAIN a.modules : \E v \in ViewsOf(a.modules[i]) : m = <<a.modules[i].key, v>>
    BY DEF UIModulesOf
  <1>4. \A j \in DOMAIN a.modules : a.modules[j].key = a.modules[i].key => j = i
    BY <1>1, <1>3 DEF AppIsWellFormed
  <1>5. m[1] = a.modules[i].key
    BY <1>3
  <1>6. (CHOOSE j \in DOMAIN a.modules : a.modules[j].key = m[1]) = i
    BY <1>4, <1>5
  <1>7. a.modules[i].resolver = r
    BY <1>6 DEF RouteOf
  <1>8. i \in C
    BY <1>3, <1>7 DEF Claiming
  <1>9. C \in SUBSET (1..Len(a.modules)) /\ C # {}
    BY <1>2, <1>8 DEF Claiming
  <1>10. \E j \in C : \A k \in C : k <= j
    <2> HIDE DEF C
    <2> QED BY <1>2, <1>9, LastPlace
  <1>11. Max(C) \in C
    <2>1. \E j \in C : \A k \in C : j >= k
      <3> HIDE DEF C
      <3> QED BY <1>2, <1>9, <1>10
    <2> HIDE DEF C
    <2> QED BY <2>1 DEF Max
  <1>12. PICK j : j = Max(C)
    OBVIOUS
  <1> DEFINE q == a.modules[j].resolver
  <1>13. \/ IsMap(a, q) /\ name \in a.exports[q].methods
         \/ IsPlain(a, q) /\ name = q
    BY <1>11, <1>12 DEF Claiming
  <1>14. q \in Names
    BY <1>13, FunctionsHaveNames DEF IsMap, IsPlain, Loads
  <1>15. q = r
    BY <1>13, <1>14
  <1> QED BY <1>8, <1>12, <1>15

(* What the registry has of an app's triggers when nothing is faulty. *)
LEMMA FaultlessIsRegistered ==
    ASSUME NEW a \in Apps, Faultless(a), NEW mod \in ModulesOf(a, EventTypes)
    PROVE  \/ IsMap(a, mod.function) /\ mod.method = NoName
           \/ Registered(a)[mod.function] # NoName
PROOF
  <1>1. AppIsWellFormed(a) /\ NoName \notin Names
    BY RoutingAssumption
  <1>2. PICK i \in DOMAIN a.modules : mod = a.modules[i] /\ mod.type \in EventTypes
    BY DEF ModulesOf
  <1> DEFINE f == mod.function
  <1>3. /\ f \in Names
        /\ mod.type # "consumer" => mod.method = NoName
        /\ a.exports[f].kind \in {"function", "map", "nothing"}
    BY <1>1, <1>2 DEF AppIsWellFormed
  <1>4. Loads(a, f)
    <2>1. f \in BoundBy(a, EventTypes)
      BY DEF BoundBy
    <2>2. IsFunction(a, f)
      BY <2>1 DEF Faultless, ReferencesResolve
    <2>3. PICK k \in DOMAIN FunctionsOf(a) : FunctionsOf(a)[k].key = f
      BY <2>2 DEF IsFunction
    <2> QED BY <2>3 DEF Faultless
  <1>5. IsMap(a, f) \/ IsPlain(a, f)
    BY <1>3, <1>4 DEF IsMap, IsPlain, Loads
  <1>6. \A type \in EventTypes : mod.type = type => mod \in ModulesOf(a, {type})
    BY <1>2 DEF ModulesOf
  <1>7. CASE mod.type = "consumer"
    <2>1. mod \in ModulesOf(a, {"consumer"})
      BY <1>6, <1>7 DEF EventTypes
    <2>2. mod.method # NoName => mod.method \in a.exports[f].methods
      BY <1>4, <2>1 DEF Faultless, MethodsResolve
    <2>3. (mod.method = NoName /\ IsMap(a, f)) \/ Consumes(a, f)
      BY <1>4, <1>5, <2>1, <2>2 DEF Consumes
    <2>4. Consumes(a, f) => Registered(a)[f] # NoName
      BY <1>3 DEF Registered, NoName
    <2> QED BY <2>3, <2>4
  <1>8. CASE mod.type # "consumer"
    <2>1. mod.type \in {"trigger", "scheduledTrigger", "webtrigger"}
      BY <1>2, <1>8 DEF EventTypes
    <2>2. f \in BoundBy(a, {mod.type})
      BY <1>2, <1>6 DEF BoundBy
    <2>3. IsPlain(a, f) => Registered(a)[f] # NoName
      BY <1>3, <2>1, <2>2 DEF Registered, NoName
    <2> QED BY <1>3, <1>5, <1>8, <2>3
  <1> QED BY <1>7, <1>8

(* An install routes what it says, whatever was installed before. *)
LEMMA InstallRoutes ==
    ASSUME NEW a \in Apps, Install(a)
    PROVE  AppInstalled' /\ OwnCodeOnly' /\ NoSilentSinks'
PROOF
  <1>1. /\ app' = a /\ faulty' = ~Faultless(a) /\ defined' = Defined(a)
        /\ registry' = Registered(a) /\ owner' = Owners(a) /\ made' = NoInvocation
        /\ route' = [m \in UIModulesOf(a) |-> RouteOf(a, m)]
    BY DEF Install
  <1>2. ASSUME NEW n \in Names, Claiming(a, n) # {}
        PROVE  owner'[n] = a.modules[Max(Claiming(a, n))].resolver
    BY <1>1, <1>2 DEF Owners
  <1>3. ASSUME NEW n \in Names, NEW r \in Names, MapsOf(a, n) = {r}
        PROVE  defined'[n] = r
    <2> DEFINE maps == {x \in Names : IsMap(a, x) /\ n \in a.exports[x].methods}
               First(x) == \A s \in maps : PlaceOf(a, s) <= PlaceOf(a, x)
    <2>1. maps = {r}
      BY <1>3 DEF MapsOf
    <2>2. Defined(a)[n] = CHOOSE x \in maps : First(x)
      BY <2>1 DEF Defined
    <2>3. PlaceOf(a, r) \in Nat
      BY <2>1, FunctionsHaveNames DEF IsMap, Loads
    <2>4. First(r)
      BY <2>1, <2>3
    <2>5. (CHOOSE x \in {r} : First(x)) = r
      <3> HIDE DEF First
      <3> QED BY <2>4
    <2> QED BY <1>1, <2>1, <2>2, <2>5
  <1>4. AppInstalled'
    BY <1>1, <1>2, <1>3 DEF AppInstalled
  <1>5. OwnCodeOnly'
    BY <1>1 DEF OwnCodeOnly, NoInvocation
  <1>6. NoSilentSinks'
    <2>1. SUFFICES ASSUME Faultless(a), NEW mod \in ModulesOf(a, EventTypes)
                   PROVE  \/ IsMap(a, mod.function) /\ mod.method = NoName
                          \/ Registered(a)[mod.function] # NoName
      BY <1>1 DEF NoSilentSinks
    <2> QED BY <2>1, FaultlessIsRegistered
  <1> QED BY <1>4, <1>5, <1>6

(* An invocation from a module runs its own resolver's code. *)
LEMMA InvokeRoutes ==
    ASSUME RoutesInv, NEW name \in Names, NEW m \in DOMAIN route \cup {NoModule},
           Invoke(name, m)
    PROVE  RoutesInv'
PROOF
  <1>1. /\ UNCHANGED <<app, faulty, defined, registry, owner, route>>
        /\ made' = [name |-> name, from |-> m, ran |-> defined[name],
                    kind |-> TypeOf(app, name), scope |-> ScopeOf(name, m)]
        /\ Reachable(name, m)
    BY DEF Invoke
  <1>2. (AppInstalled \/ NothingInstalled)'
    BY <1>1 DEF RoutesInv, AppInstalled, NothingInstalled
  <1>3. NoSilentSinks'
    BY <1>1 DEF RoutesInv, NoSilentSinks
  <1>4. made'.name = name /\ made'.from = m /\ made'.ran = defined[name]
    BY <1>1
  <1>5. ASSUME m # NoModule, NEW r \in UIResolvers, DefinersOf(name) = {r}, IsMap(app, r)
        PROVE  defined[name] = r /\ route[m].resolver = r
    <2>1. AppInstalled
      BY <1>5 DEF RoutesInv, NothingInstalled
    <2>2. PICK a \in Apps : a = app
      BY <2>1 DEF AppInstalled
    <2>3. r \in Names /\ \E x \in DOMAIN route : route[x].resolver = r
      BY <1>5 DEF UIResolvers
    <2>4. PICK own \in DOMAIN route : route[own].resolver = r
      BY <2>3
    <2>5. \A x \in Names : (\/ IsMap(a, x) /\ name \in a.exports[x].methods
                            \/ IsPlain(a, x) /\ name = x) <=> x = r
      BY <1>5, <2>2, <2>3 DEF DefinersOf
    <2>6. IsMap(a, r) /\ name \in a.exports[r].methods
      BY <1>5, <2>2, <2>3, <2>5 DEF IsMap, IsPlain
    <2>7. MapsOf(a, name) = {r}
      BY <2>3, <2>5, <2>6 DEF MapsOf
    <2>8. defined[name] = r
      BY <2>1, <2>2, <2>3, <2>7 DEF AppInstalled
    <2>9. own \in UIModulesOf(a) /\ RouteOf(a, own).resolver = r
      BY <2>1, <2>2, <2>4 DEF AppInstalled
    <2>10. Claiming(a, name) # {} /\ a.modules[Max(Claiming(a, name))].resolver = r
      BY <2>3, <2>5, <2>6, <2>9, LoneDefinerOwns
    <2>11. owner[name] = r
      BY <2>1, <2>2, <2>10 DEF AppInstalled
    <2>12. r # NoName
      BY <2>3, RoutingAssumption
    <2> QED BY <1>1, <1>5, <2>8, <2>11, <2>12 DEF Reachable
  <1>6. OwnCodeOnly'
    <2>1. UIResolvers' = UIResolvers /\ DefinersOf(made.name)' = DefinersOf(name)
      BY <1>1, <1>4 DEF UIResolvers, DefinersOf
    <2> QED BY <1>1, <1>4, <1>5, <2>1 DEF OwnCodeOnly
  <1> QED BY <1>2, <1>3, <1>6 DEF RoutesInv

(* An app installed, and none, are routed as they say, whatever is shown or invoked. *)
LEMMA RoutingInvariant == RoutingSpec => []RoutesInv
PROOF
  <1>1. RoutingInit => RoutesInv
    <2>1. SUFFICES ASSUME RoutingInit PROVE RoutesInv
      OBVIOUS
    <2>2. NothingInstalled
      BY <2>1 DEF RoutingInit, NothingInstalled
    <2>3. OwnCodeOnly
      BY <2>1 DEF RoutingInit, OwnCodeOnly, NoInvocation
    <2>4. ModulesOf(app, EventTypes) = {}
      BY <2>1 DEF RoutingInit, ModulesOf, NoApp
    <2> QED BY <2>2, <2>3, <2>4 DEF RoutesInv, NoSilentSinks
  <1>2. RoutesInv /\ [RoutingNext]_rtVars => RoutesInv'
    <2>1. SUFFICES ASSUME RoutesInv, [RoutingNext]_rtVars PROVE RoutesInv'
      OBVIOUS
    <2>2. ASSUME NEW a \in Apps, Install(a) PROVE RoutesInv'
      BY <2>2, InstallRoutes DEF RoutesInv
    <2>3. CASE ResetRouting
      <3>1. NothingInstalled'
        BY <2>3 DEF ResetRouting, NothingInstalled
      <3>2. OwnCodeOnly'
        BY <2>3 DEF ResetRouting, OwnCodeOnly, NoInvocation
      <3>3. ModulesOf(app, EventTypes)' = {}
        BY <2>3 DEF ResetRouting, ModulesOf, NoApp
      <3> QED BY <3>1, <3>2, <3>3 DEF RoutesInv, NoSilentSinks
    <2>4. ASSUME UNCHANGED <<app, faulty, defined, registry, owner, route, made>>
          PROVE  RoutesInv'
      <3>1. (AppInstalled \/ NothingInstalled)'
        BY <2>1, <2>4 DEF RoutesInv, AppInstalled, NothingInstalled
      <3>2. OwnCodeOnly'
        BY <2>1, <2>4 DEF RoutesInv, OwnCodeOnly, UIResolvers, DefinersOf
      <3>3. NoSilentSinks'
        BY <2>1, <2>4 DEF RoutesInv, NoSilentSinks
      <3> QED BY <3>1, <3>2, <3>3 DEF RoutesInv
    <2>5. ASSUME NEW m \in DOMAIN route, ShowModule(m) PROVE RoutesInv'
      BY <2>4, <2>5 DEF ShowModule
    <2>6. ASSUME NEW name \in Names, NEW m \in DOMAIN route \cup {NoModule},
                 Invoke(name, m)
          PROVE  RoutesInv'
      BY <2>1, <2>6, InvokeRoutes
    <2>7. CASE UNCHANGED rtVars
      BY <2>4, <2>7 DEF rtVars
    <2> QED BY <2>1, <2>2, <2>3, <2>5, <2>6, <2>7 DEF RoutingNext
  <1> QED BY <1>1, <1>2, PTL DEF RoutingSpec

(* Routes are honest for every app and every sequence of installs: what a module invokes *)
(* is run by its own resolver, and after a clean deploy no event goes nowhere.           *)
THEOREM RoutesStayHonest == RoutingSpec => []RoutesAreHonest
PROOF
  <1>1. RoutesInv => RoutesAreHonest
    BY DEF RoutesInv, RoutesAreHonest
  <1> QED BY <1>1, RoutingInvariant, PTL

-----------------------------------------------------------------------------
(* Histories (History) *)

TellingRecord ==
  [loc : Nat, next : Nat \ {0}, stop : Nat, copy : Seq(Listeners), pop : BOOLEAN, broken : BOOLEAN]
ReportRecord == [ack : BOOLEAN, loc : Nat, of : Nat]
CommandRecord == [id : Nat, do : {"push", "replace", "go"}, delta : Int]

(* A notification will tell a listener what it tells. *)
ListIn(f, list) == IF f.copy = Live THEN list ELSE f.copy
Awaits(f, list, k, l) ==
  /\ ~f.broken
  /\ \E p \in DOMAIN ListIn(f, list) : /\ ListIn(f, list)[p] = l
                                       /\ p >= f.next
                                       /\ k = "window" => p <= f.stop

(* Who is told: everyone who listens knows where the history is, or the one
   notification that is not broken has still to tell. *)
TellTyped ==
  /\ kind \in {"memory", "headless", "window", "proxied"}
  /\ known \in Nat /\ told \in [Listeners -> Nat]
  /\ listeners \in Seq(Listeners)
  /\ telling \in Seq(TellingRecord)
ListenOnce == \A i, j \in DOMAIN listeners : listeners[i] = listeners[j] => i = j
CopiesHeld ==
  kind \notin {"memory", "window"} => \A n \in DOMAIN telling : telling[n].copy = Live
UnbrokenHeld == \A n \in DOMAIN telling : ~telling[n].broken => telling[n].loc = known
AllTold ==
  \A l \in ToSet(listeners) \ excused :
    \/ told[l] = known
    \/ \E n \in DOMAIN telling : Awaits(telling[n], listeners, kind, l)

TellHeld == TellTyped /\ ListenOnce /\ CopiesHeld /\ UnbrokenHeld /\ AllTold

(* A notification that is broken tells nobody any more what is so. *)
LEMMA TellingBreaks ==
    ASSUME NEW f \in TellingRecord
    PROVE  /\ [f EXCEPT !.broken = TRUE] \in TellingRecord
           /\ [f EXCEPT !.broken = TRUE].broken = TRUE
           /\ [f EXCEPT !.broken = TRUE].copy = f.copy
PROOF
  <1>1. [f EXCEPT !.broken = TRUE] \in TellingRecord
    BY Zenon DEF TellingRecord
  <1>2. [f EXCEPT !.broken = TRUE].broken = TRUE
    BY Zenon DEF TellingRecord
  <1>3. [f EXCEPT !.broken = TRUE].copy = f.copy
    BY Zenon DEF TellingRecord
  <1> QED BY <1>1, <1>2, <1>3

(* A notification goes on to the next listener. *)
LEMMA TellingGoesOn ==
    ASSUME NEW f \in TellingRecord, NEW n \in Nat \ {0}
    PROVE  /\ [f EXCEPT !.next = n] \in TellingRecord
           /\ [f EXCEPT !.next = n].next = n
           /\ [f EXCEPT !.next = n].copy = f.copy
           /\ [f EXCEPT !.next = n].loc = f.loc
           /\ [f EXCEPT !.next = n].stop = f.stop
           /\ [f EXCEPT !.next = n].broken = f.broken
PROOF
  <1>1. [f EXCEPT !.next = n] \in TellingRecord
    BY Zenon DEF TellingRecord
  <1>2. [f EXCEPT !.next = n].next = n /\ [f EXCEPT !.next = n].loc = f.loc
    BY Zenon DEF TellingRecord
  <1>3. [f EXCEPT !.next = n].copy = f.copy /\ [f EXCEPT !.next = n].stop = f.stop
    BY Zenon DEF TellingRecord
  <1>4. [f EXCEPT !.next = n].broken = f.broken
    BY Zenon DEF TellingRecord
  <1> QED BY <1>1, <1>2, <1>3, <1>4

(* The list that a notification tells is set apart from the one that changes. *)
LEMMA TellingCopies ==
    ASSUME NEW f \in TellingRecord, NEW list \in Seq(Listeners)
    PROVE  /\ [f EXCEPT !.copy = list] \in TellingRecord
           /\ [f EXCEPT !.copy = list].copy = list
           /\ [f EXCEPT !.copy = list].loc = f.loc
           /\ [f EXCEPT !.copy = list].next = f.next
           /\ [f EXCEPT !.copy = list].stop = f.stop
           /\ [f EXCEPT !.copy = list].broken = f.broken
PROOF
  <1>1. [f EXCEPT !.copy = list] \in TellingRecord
    BY Zenon DEF TellingRecord
  <1>2. [f EXCEPT !.copy = list].next = f.next /\ [f EXCEPT !.copy = list].loc = f.loc
    BY Zenon DEF TellingRecord
  <1>3. [f EXCEPT !.copy = list].copy = list /\ [f EXCEPT !.copy = list].stop = f.stop
    BY Zenon DEF TellingRecord
  <1>4. [f EXCEPT !.copy = list].broken = f.broken
    BY Zenon DEF TellingRecord
  <1> QED BY <1>1, <1>2, <1>3, <1>4

(* A sequence of other elements over the same places. *)
LEMMA SeqOver ==
    ASSUME NEW S, NEW N \in Nat, NEW t, DOMAIN t = 1..N, t = [i \in 1..N |-> t[i]],
           \A i \in 1..N : t[i] \in S
    PROVE  t \in Seq(S) /\ Len(t) = N
PROOF
  <1>1. t \in [1..N -> S]
    OBVIOUS
  <1>2. t \in Seq(S)
    BY <1>1, SeqDef
  <1> QED BY <1>2, LenProperties

(* What is under way when the history moves on is broken. *)
LEMMA BrokenTelling ==
    ASSUME TellTyped
    PROVE  /\ Broken \in Seq(TellingRecord) /\ Len(Broken) = Len(telling)
           /\ \A n \in DOMAIN Broken : Broken[n].broken /\ Broken[n].copy = telling[n].copy
           /\ DOMAIN Broken = DOMAIN telling
PROOF
  <1>1. Len(telling) \in Nat /\ DOMAIN telling = 1..Len(telling)
        /\ \A n \in DOMAIN telling : telling[n] \in TellingRecord
    <2> HIDE DEF TellingRecord
    <2> QED BY DEF TellTyped
  <1>2. /\ DOMAIN Broken = 1..Len(telling)
        /\ \A n \in 1..Len(telling) : Broken[n] = [telling[n] EXCEPT !.broken = TRUE]
        /\ Broken = [n \in 1..Len(telling) |-> Broken[n]]
    BY <1>1 DEF Broken
  <1>3. ASSUME NEW n \in 1..Len(telling)
        PROVE  /\ Broken[n] \in TellingRecord
               /\ Broken[n].broken /\ Broken[n].copy = telling[n].copy
    <2>1. PICK f : f = telling[n]
      OBVIOUS
    <2>2. f \in TellingRecord
      BY <1>1, <2>1
    <2>3. Broken[n] = [f EXCEPT !.broken = TRUE]
      BY <1>2, <2>1
    <2> QED BY <2>1, <2>2, <2>3, TellingBreaks, Zenon
  <1>4. PICK b : b = Broken
    OBVIOUS
  <1>5. PICK N : N = Len(telling)
    OBVIOUS
  <1>6. b \in Seq(TellingRecord) /\ Len(b) = N
    <2>1. N \in Nat /\ DOMAIN b = 1..N /\ b = [i \in 1..N |-> b[i]]
      BY <1>1, <1>2, <1>4, <1>5
    <2>2. \A i \in 1..N : b[i] \in TellingRecord
      BY <1>3, <1>4, <1>5
    <2> HIDE DEF TellingRecord
    <2> QED BY <2>1, <2>2, SeqOver
  <1> QED BY <1>1, <1>2, <1>3, <1>4, <1>5, <1>6

(* What is under way with a notification that begins. *)
LEMMA NotifyTells ==
    ASSUME TellHeld, NEW loc \in Nat, NEW pop \in BOOLEAN, Notify(loc, pop),
           UNCHANGED <<kind, listeners>>
    PROVE  TellHeld'
PROOF
  <1> DEFINE f == [loc |-> loc, next |-> 2, stop |-> Len(listeners), copy |-> Live,
                   pop |-> pop, broken |-> FALSE]
             N == Len(telling)
  <1>1. /\ TellTyped /\ ListenOnce /\ CopiesHeld
        /\ known' = loc /\ kind' = kind /\ listeners' = listeners
    BY DEF TellHeld, Notify
  <1>2. /\ N \in Nat /\ DOMAIN telling = 1..N
        /\ Len(listeners) \in Nat /\ DOMAIN listeners = 1..Len(listeners)
        /\ \A i \in DOMAIN listeners : listeners[i] \in Listeners
    <2> HIDE DEF TellingRecord
    <2> QED BY <1>1 DEF TellTyped
  <1>3. ListenOnce'
    BY <1>1 DEF ListenOnce
  <1>4. CASE listeners = <<>>
    <2>1. telling' = Broken /\ UNCHANGED <<told, excused>>
      BY <1>4 DEF Notify
    <2>2. TellTyped'
      BY <1>1, <2>1, BrokenTelling DEF TellTyped
    <2>3. CopiesHeld' /\ UnbrokenHeld'
      BY <1>1, <2>1, BrokenTelling DEF CopiesHeld, UnbrokenHeld
    <2>4. AllTold'
      BY <1>1, <1>4 DEF AllTold, ToSet
    <2> QED BY <1>3, <2>2, <2>3, <2>4 DEF TellHeld
  <1>5. CASE listeners # <<>>
    <2>1. telling' = Append(Broken, f) /\ Tell(Head(listeners), f)
      BY <1>5 DEF Notify
    <2>2. Len(listeners) # 0 /\ Head(listeners) = listeners[1] /\ listeners[1] \in Listeners
      BY <1>2, <1>5
    <2>3. f.loc = loc /\ f.next = 2 /\ f.stop = Len(listeners) /\ f.copy = Live
      BY Zenon
    <2>4. f.broken = FALSE
      BY Zenon
    <2>5. f \in TellingRecord
      <3>1. Live \in Seq(Listeners) /\ 2 \in Nat \ {0}
        BY EmptySeq DEF Live
      <3> QED BY <1>2, <3>1, Zenon DEF TellingRecord
    <2> HIDE DEF f
    <2>6. /\ telling' \in Seq(TellingRecord) /\ Len(telling') = N + 1
          /\ \A n \in 1..N : telling'[n] = Broken[n]
          /\ telling'[N + 1] = f
      <3> HIDE DEF TellingRecord
      <3> QED BY <1>1, <1>2, <2>1, <2>5, BrokenTelling, AppendProperties
    <2>7. DOMAIN telling' = 1..(N + 1)
      <3> HIDE DEF TellingRecord
      <3> QED BY <1>2, <2>6
    <2>8. told' = [told EXCEPT ![listeners[1]] = loc]
      BY <1>1, <2>1, <2>2, <2>3 DEF Tell
    <2>9. TellTyped'
      BY <1>1, <2>2, <2>6, <2>8 DEF TellTyped
    <2>10. ASSUME NEW n \in DOMAIN telling', n # N + 1
           PROVE  telling'[n].broken /\ telling'[n].copy = telling[n].copy /\ n \in DOMAIN telling
      <3>1. n \in 1..N
        BY <1>2, <2>7, <2>10
      <3> QED BY <1>1, <1>2, <2>6, <3>1, BrokenTelling
    <2>11. CopiesHeld'
      BY <1>1, <2>3, <2>6, <2>10 DEF CopiesHeld
    <2>12. UnbrokenHeld'
      BY <1>1, <2>3, <2>6, <2>10 DEF UnbrokenHeld
    <2>13. ASSUME NEW l \in ToSet(listeners)
           PROVE  told'[l] = loc \/ \E n \in DOMAIN telling' : Awaits(telling'[n], listeners, kind, l)
      <3>1. PICK p \in DOMAIN listeners : listeners[p] = l
        BY DEF ToSet
      <3>2. CASE p = 1
        BY <1>1, <2>2, <2>8, <3>1, <3>2 DEF TellTyped
      <3>3. CASE p # 1
        <4>1. p >= 2 /\ p <= Len(listeners)
          BY <1>2, <3>3
        <4>2. ListIn(f, listeners) = listeners
          BY <2>3 DEF ListIn
        <4>3. Awaits(f, listeners, kind, l)
          BY <1>1, <2>3, <2>4, <3>1, <4>1, <4>2 DEF Awaits
        <4>4. N + 1 \in DOMAIN telling' /\ Awaits(telling'[N + 1], listeners, kind, l)
          BY <1>2, <2>6, <2>7, <4>3
        <4> QED BY <4>4
      <3> QED BY <3>2, <3>3
    <2>14. AllTold'
      BY <1>1, <2>13 DEF AllTold
    <2> QED BY <1>3, <2>9, <2>11, <2>12, <2>14 DEF TellHeld
  <1> QED BY <1>4, <1>5

(* The next listener is told, or all of them were. *)
LEMMA ReturnsTells ==
    ASSUME TellHeld, Returns
    PROVE  TellHeld'
PROOF
  <1> DEFINE N == Len(telling)
             f == telling[N]
             l0 == ListOf(f)[f.next]
  <1>1. /\ TellTyped /\ ListenOnce /\ CopiesHeld /\ UnbrokenHeld /\ AllTold
        /\ UNCHANGED <<kind, listeners, known>> /\ telling # <<>>
    BY DEF TellHeld, Returns, stackVars
  <1>2. /\ N \in Nat \ {0} /\ DOMAIN telling = 1..N
        /\ Len(listeners) \in Nat /\ DOMAIN listeners = 1..Len(listeners)
        /\ \A i \in DOMAIN listeners : listeners[i] \in Listeners
        /\ \A n \in DOMAIN telling : telling[n] \in TellingRecord
    <2> HIDE DEF TellingRecord
    <2> QED BY <1>1 DEF TellTyped
  <1>3. /\ f \in TellingRecord /\ f.next \in Nat \ {0} /\ f.copy \in Seq(Listeners)
        /\ f.loc \in Nat
    BY <1>2 DEF TellingRecord
  <1>4. ListenOnce'
    BY <1>1 DEF ListenOnce
  <1>6. Innermost = f
    BY DEF Innermost
  <1> HIDE DEF f
  <1>7. CASE HasNext(f)
    <2>1. /\ telling' = [telling EXCEPT ![N].next = @ + 1]
          /\ Tell(l0, f)
      BY <1>6, <1>7 DEF Returns
    <2> DEFINE g == [f EXCEPT !.next = f.next + 1]
    <2>2. telling' = [telling EXCEPT ![N] = g]
      BY <2>1 DEF f
    <2>3. /\ g \in TellingRecord /\ g.next = f.next + 1 /\ g.copy = f.copy
          /\ g.loc = f.loc /\ g.stop = f.stop /\ g.broken = f.broken
      <3>1. f.next + 1 \in Nat \ {0}
        BY <1>3
      <3> QED BY <1>3, <3>1, TellingGoesOn
    <2> HIDE DEF g
    <2>4. /\ telling' \in Seq(TellingRecord) /\ DOMAIN telling' = DOMAIN telling
          /\ telling'[N] = g /\ \A n \in DOMAIN telling : n # N => telling'[n] = telling[n]
      <3> HIDE DEF TellingRecord
      <3> QED BY <1>1, <1>2, <2>2, <2>3 DEF TellTyped
    <2>5. l0 \in Listeners
      <3>1. ListOf(f) \in Seq(Listeners)
        BY <1>1, <1>3 DEF ListOf, TellTyped
      <3>2. f.next <= Len(ListOf(f))
        BY <1>7 DEF HasNext
      <3>3. PICK L : L = ListOf(f)
        OBVIOUS
      <3>4. L \in Seq(Listeners) /\ f.next \in 1..Len(L)
        BY <1>3, <3>1, <3>2, <3>3
      <3>5. L[f.next] \in Listeners
        BY <3>4
      <3> QED BY <3>3, <3>5
    <2>6. told' = [told EXCEPT ![l0] = IF f.pop /\ kind = "window" THEN known ELSE f.loc]
      BY <1>1, <2>1 DEF Tell
    <2>7. TellTyped'
      BY <1>1, <1>3, <2>4, <2>5, <2>6 DEF TellTyped
    <2>8. CopiesHeld'
      BY <1>1, <1>2, <2>3, <2>4 DEF CopiesHeld, f
    <2>9. UnbrokenHeld'
      BY <1>1, <1>2, <2>3, <2>4 DEF UnbrokenHeld, f
    <2>10. ASSUME NEW l \in ToSet(listeners) \ excused'
           PROVE  \/ told'[l] = known
                  \/ \E n \in DOMAIN telling' : Awaits(telling'[n], listeners, kind, l)
      <3>1. l \in Listeners
        BY <1>2 DEF ToSet
      <3>2. CASE l = l0
        <4>1. CASE f.pop /\ kind = "window"
          BY <1>1, <2>5, <2>6, <3>2, <4>1 DEF TellTyped
        <4>2. CASE ~(f.pop /\ kind = "window")
          <5>1. ~f.broken
            BY <1>1, <2>1, <2>10, <3>2, <4>2 DEF Tell
          <5>2. f.loc = known
            BY <1>1, <1>2, <5>1 DEF UnbrokenHeld, f
          <5> QED BY <1>1, <2>5, <2>6, <3>2, <4>2, <5>2 DEF TellTyped
        <4> QED BY <4>1, <4>2
      <3>3. CASE l # l0
        <4>1. l \notin excused
          BY <2>1, <2>10, <3>3 DEF Tell
        <4>2. told'[l] = told[l]
          BY <1>1, <2>6, <3>1, <3>3 DEF TellTyped
        <4>3. ASSUME NEW n \in DOMAIN telling, Awaits(telling[n], listeners, kind, l)
              PROVE  Awaits(telling'[n], listeners, kind, l)
          <5>1. CASE n # N
            BY <2>4, <4>3, <5>1
          <5>2. CASE n = N
            <6>1. PICK p \in DOMAIN ListIn(f, listeners) :
                    /\ ListIn(f, listeners)[p] = l
                    /\ p >= f.next /\ (kind = "window" => p <= f.stop)
              BY <4>3, <5>2 DEF Awaits, f
            <6>2. ListIn(f, listeners) = ListOf(f) /\ ListIn(g, listeners) = ListOf(f)
              BY <2>3 DEF ListIn, ListOf
            <6>3. p # f.next
              BY <3>3, <6>1, <6>2
            <6>4. p \in Nat
              <7>1. ListIn(f, listeners) \in Seq(Listeners)
                BY <1>1, <1>3 DEF ListIn, TellTyped
              <7>2. PICK L : L = ListIn(f, listeners)
                OBVIOUS
              <7>3. L \in Seq(Listeners) /\ p \in DOMAIN L
                BY <7>1, <7>2
              <7>4. p \in Nat
                BY <7>3
              <7> QED BY <7>4
            <6>5. p >= g.next
              BY <1>3, <2>3, <6>1, <6>3, <6>4
            <6>6. ~g.broken
              BY <2>3, <4>3, <5>2 DEF Awaits, f
            <6>7. Awaits(g, listeners, kind, l)
              BY <2>3, <6>1, <6>2, <6>5, <6>6 DEF Awaits
            <6> QED BY <2>4, <5>2, <6>7
          <5> QED BY <5>1, <5>2
        <4> QED BY <1>1, <2>4, <2>10, <4>1, <4>2, <4>3 DEF AllTold
      <3> QED BY <3>2, <3>3
    <2>11. AllTold'
      BY <1>1, <2>10 DEF AllTold
    <2> QED BY <1>4, <2>7, <2>8, <2>9, <2>11 DEF TellHeld
  <1>8. CASE ~HasNext(f)
    <2>1. telling' = Front(telling) /\ UNCHANGED <<told, excused>>
      BY <1>6, <1>8 DEF Returns
    <2>2. /\ telling' \in Seq(TellingRecord) /\ DOMAIN telling' = 1..(N - 1)
          /\ \A n \in 1..(N - 1) : telling'[n] = telling[n]
      <3> HIDE DEF TellingRecord
      <3>1. telling' = SubSeq(telling, 1, N - 1)
        BY <2>1 DEF Front
      <3>2. \A n \in 1..(N - 1) : telling[n] \in TellingRecord
        BY <1>2
      <3>3. /\ telling' \in Seq(TellingRecord) /\ Len(telling') = N - 1
            /\ \A n \in 1..(N - 1) : telling'[n] = telling[n]
        BY <1>2, <3>1, <3>2, SubSeqProperties
      <3> QED BY <1>2, <3>3
    <2>3. TellTyped'
      BY <1>1, <2>1, <2>2 DEF TellTyped
    <2>4. CopiesHeld'
      BY <1>1, <1>2, <2>2 DEF CopiesHeld
    <2>5. UnbrokenHeld'
      BY <1>1, <1>2, <2>2 DEF UnbrokenHeld
    <2>6. ASSUME NEW l, Awaits(f, listeners, kind, l)
          PROVE  FALSE
      <3>1. PICK L : L = ListOf(f)
        OBVIOUS
      <3>2. L = ListIn(f, listeners) /\ L \in Seq(Listeners)
        BY <1>1, <1>3, <3>1 DEF ListOf, ListIn, TellTyped
      <3>3. PICK p \in DOMAIN L : p >= f.next /\ (kind = "window" => p <= f.stop)
        BY <2>6, <3>2 DEF Awaits
      <3>4. p \in Nat /\ p <= Len(L) /\ Len(L) \in Nat
        BY <3>2, <3>3
      <3>5. f.next <= Len(L)
        BY <1>3, <3>3, <3>4
      <3>6. f.stop \in Nat
        BY <1>3 DEF TellingRecord
      <3>7. kind = "window" => f.next <= f.stop
        BY <1>3, <3>3, <3>4, <3>6
      <3> QED BY <1>8, <3>1, <3>5, <3>7 DEF HasNext
    <2>7. AllTold'
      <3>1. ASSUME NEW l \in ToSet(listeners) \ excused, told[l] # known
            PROVE  \E n \in DOMAIN telling' : Awaits(telling'[n], listeners, kind, l)
        <4>1. PICK n \in DOMAIN telling : Awaits(telling[n], listeners, kind, l)
          BY <1>1, <3>1 DEF AllTold
        <4>2. n # N
          BY <2>6, <4>1 DEF f
        <4>3. n \in 1..(N - 1)
          BY <1>2, <4>2
        <4> QED BY <2>2, <4>1, <4>3
      <3> QED BY <1>1, <2>1, <3>1 DEF AllTold
    <2> QED BY <1>4, <2>3, <2>4, <2>5, <2>7 DEF TellHeld
  <1> QED BY <1>7, <1>8

(* Whoever begins to listen knows where the history is. *)
LEMMA ListenTells ==
    ASSUME TellHeld, NEW l0 \in Listeners, Listen(l0)
    PROVE  TellHeld'
PROOF
  <1> DEFINE M == Len(listeners)
  <1>1. /\ TellTyped /\ ListenOnce /\ CopiesHeld /\ UnbrokenHeld /\ AllTold
        /\ UNCHANGED <<kind, known, telling>>
        /\ l0 \notin ToSet(listeners) /\ listeners' = Append(listeners, l0)
        /\ told' = [told EXCEPT ![l0] = known] /\ excused' = excused \ {l0}
    BY DEF TellHeld, Listen
  <1>2. M \in Nat /\ DOMAIN listeners = 1..M
    BY <1>1 DEF TellTyped
  <1>3. /\ listeners' \in Seq(Listeners) /\ DOMAIN listeners' = 1..(M + 1)
        /\ \A i \in 1..M : listeners'[i] = listeners[i]
        /\ listeners'[M + 1] = l0
    <2>1. /\ listeners' \in Seq(Listeners) /\ Len(listeners') = M + 1
          /\ \A i \in 1..M : listeners'[i] = listeners[i]
          /\ listeners'[M + 1] = l0
      BY <1>1, AppendProperties DEF TellTyped
    <2> QED BY <1>2, <2>1
  <1>4. TellTyped'
    BY <1>1, <1>3 DEF TellTyped
  <1>5. ListenOnce'
    <2>1. \A i \in 1..M : listeners[i] # l0
      BY <1>1, <1>2 DEF ToSet
    <2> QED BY <1>1, <1>2, <1>3, <2>1 DEF ListenOnce
  <1>6. CopiesHeld' /\ UnbrokenHeld'
    BY <1>1 DEF CopiesHeld, UnbrokenHeld
  <1>7. ASSUME NEW l \in ToSet(listeners') \ excused'
        PROVE  \/ told'[l] = known
               \/ \E n \in DOMAIN telling : Awaits(telling[n], listeners', kind, l)
    <2>1. CASE l = l0
      BY <1>1, <2>1 DEF TellTyped
    <2>2. CASE l # l0
      <3>1. l \in ToSet(listeners) \ excused
        BY <1>1, <1>2, <1>3, <1>7, <2>2 DEF ToSet
      <3>2. told'[l] = told[l]
        <4>1. l \in Listeners
          BY <1>3, <1>7 DEF ToSet
        <4> QED BY <1>1, <2>2, <4>1 DEF TellTyped
      <3>3. ASSUME NEW n \in DOMAIN telling, Awaits(telling[n], listeners, kind, l)
            PROVE  Awaits(telling[n], listeners', kind, l)
        <4>1. PICK f : f = telling[n]
          OBVIOUS
        <4>2. CASE f.copy = Live
          BY <1>2, <1>3, <3>3, <4>1, <4>2 DEF Awaits, ListIn
        <4>3. CASE f.copy # Live
          BY <3>3, <4>1, <4>3 DEF Awaits, ListIn
        <4> QED BY <4>2, <4>3
      <3> QED BY <1>1, <3>1, <3>2, <3>3 DEF AllTold
    <2> QED BY <2>1, <2>2
  <1>8. AllTold'
    BY <1>1, <1>7 DEF AllTold
  <1> QED BY <1>4, <1>5, <1>6, <1>8 DEF TellHeld

(* A notification that tells a copy tells it whoever leaves the list. *)
LEMMA CopyAwaits ==
    ASSUME NEW f \in TellingRecord, NEW list \in Seq(Listeners), list # <<>>, NEW other,
           NEW k, NEW l, Awaits(f, list, k, l)
    PROVE  Awaits([f EXCEPT !.copy = IF f.copy = Live THEN list ELSE f.copy], other, k, l)
PROOF
  <1> DEFINE c == IF f.copy = Live THEN list ELSE f.copy
             g == [f EXCEPT !.copy = c]
  <1>1. c \in Seq(Listeners) /\ c # Live
    BY DEF TellingRecord, Live
  <1>2. /\ g.copy = c /\ g.next = f.next /\ g.stop = f.stop /\ g.broken = f.broken
    <2> HIDE DEF c
    <2> QED BY <1>1, TellingCopies
  <1>3. ListIn(f, list) = c
    BY DEF ListIn
  <1> HIDE DEF c, g
  <1>4. ListIn(g, other) = c
    BY <1>1, <1>2 DEF ListIn
  <1>5. Awaits(g, other, k, l)
    BY <1>2, <1>3, <1>4 DEF Awaits
  <1> QED BY <1>5 DEF g, c

(* Whoever stops to listen is told no more, and the others are, but for the one
   that a notification passes over. *)
LEMMA UnlistenTells ==
    ASSUME TellHeld, NEW l0 \in Listeners, Unlisten(l0)
    PROVE  TellHeld'
PROOF
  <1> DEFINE M == Len(listeners)
             N == Len(telling)
  <1>1. /\ TellTyped /\ ListenOnce /\ CopiesHeld /\ UnbrokenHeld /\ AllTold
        /\ UNCHANGED <<kind, known, told>> /\ excused \subseteq excused'
        /\ l0 \in ToSet(listeners) /\ listeners' = RemoveAt(listeners, SeatOf(l0))
    BY DEF TellHeld, Unlisten
  <1>2. /\ M \in Nat /\ DOMAIN listeners = 1..M
        /\ N \in Nat /\ DOMAIN telling = 1..N
        /\ \A n \in DOMAIN telling : telling[n] \in TellingRecord
    <2> HIDE DEF TellingRecord
    <2> QED BY <1>1 DEF TellTyped
  <1>3. PICK s, i : s = listeners /\ i = SeatOf(l0)
    OBVIOUS
  <1>4. i \in 1..M /\ listeners[i] = l0
    <2>1. \E k \in DOMAIN listeners : listeners[k] = l0
      BY <1>1 DEF ToSet
    <2> QED BY <1>2, <1>3, <2>1 DEF SeatOf
  <1>5. /\ listeners' \in Seq(Listeners) /\ DOMAIN listeners' = 1..(M - 1)
        /\ \A j \in 1..(M - 1) :
             listeners'[j] = IF j < i THEN listeners[j] ELSE listeners[j + 1]
    <2>1. s \in Seq(Listeners) /\ i \in 1..Len(s)
      BY <1>1, <1>3, <1>4 DEF TellTyped
    <2>2. /\ RemoveAt(s, i) \in Seq(Listeners) /\ Len(RemoveAt(s, i)) = Len(s) - 1
          /\ \A j \in 1..(Len(s) - 1) :
               RemoveAt(s, i)[j] = IF j < i THEN s[j] ELSE s[j + 1]
      BY <2>1, RemoveAtPlaces
    <2>3. listeners' = RemoveAt(s, i)
      BY <1>1, <1>3
    <2> QED BY <1>2, <1>3, <1>4, <2>2, <2>3
  <1>6. ListenOnce'
    BY <1>1, <1>2, <1>4, <1>5 DEF ListenOnce
  <1>7. ASSUME NEW l \in ToSet(listeners')
        PROVE  /\ l \in ToSet(listeners)
               /\ \A p \in DOMAIN listeners : listeners[p] = l =>
                    /\ p < i => p \in DOMAIN listeners' /\ listeners'[p] = l
                    /\ p > i => p - 1 \in DOMAIN listeners' /\ listeners'[p - 1] = l
                    /\ p # i
    <2>1. PICK j \in 1..(M - 1) : listeners'[j] = l
      BY <1>5 DEF ToSet
    <2>2. PICK q \in 1..M : q # i /\ listeners[q] = l
      <3>1. CASE j < i
        BY <1>2, <1>4, <1>5, <2>1, <3>1
      <3>2. CASE j >= i
        <4>1. j + 1 \in 1..M /\ j + 1 # i
          BY <1>2, <1>4, <3>2
        <4> QED BY <1>5, <2>1, <3>2, <4>1
      <3>3. j < i \/ j >= i
        BY <1>4
      <3> QED BY <3>1, <3>2, <3>3
    <2>3. ASSUME NEW p \in DOMAIN listeners, listeners[p] = l
          PROVE  p = q
      BY <1>1, <1>2, <2>2, <2>3 DEF ListenOnce
    <2>4. q < i => q \in 1..(M - 1) /\ listeners'[q] = l
      BY <1>2, <1>4, <1>5, <2>2
    <2>5. q > i => q - 1 \in 1..(M - 1) /\ listeners'[q - 1] = l
      <3>1. ASSUME q > i
            PROVE  q - 1 \in 1..(M - 1) /\ ~(q - 1 < i) /\ (q - 1) + 1 = q
        BY <1>2, <1>4, <2>2, <3>1
      <3> QED BY <1>5, <2>2, <3>1
    <2>6. l \in ToSet(listeners)
      BY <1>2, <2>2 DEF ToSet
    <2> QED BY <1>5, <2>2, <2>3, <2>4, <2>5, <2>6
  <1>8. CASE kind \in {"memory", "window"}
    <2> DEFINE c(n) == IF telling[n].copy = Live THEN listeners ELSE telling[n].copy
    <2>1. telling' = [n \in DOMAIN telling |-> [telling[n] EXCEPT !.copy = c(n)]]
      BY <1>8 DEF Unlisten, CopiesOnUnlisten
    <2>2. ASSUME NEW n \in DOMAIN telling
          PROVE  /\ telling'[n] \in TellingRecord
                 /\ telling'[n].loc = telling[n].loc /\ telling'[n].broken = telling[n].broken
                 /\ \A l : Awaits(telling[n], listeners, kind, l) =>
                           Awaits(telling'[n], listeners', kind, l)
      <3>1. PICK f, k, other : f = telling[n] /\ k = kind /\ other = listeners'
        OBVIOUS
      <3>2. f \in TellingRecord /\ s \in Seq(Listeners) /\ s # <<>>
        <4>1. listeners # <<>>
          BY <1>1 DEF ToSet
        <4> QED BY <1>1, <1>2, <1>3, <3>1, <4>1 DEF TellTyped
      <3>3. telling'[n] = [f EXCEPT !.copy = IF f.copy = Live THEN s ELSE f.copy]
        BY <1>3, <2>1, <2>2, <3>1
      <3>4. f.copy \in Seq(Listeners)
        BY <3>2 DEF TellingRecord
      <3>5. PICK new : new = IF f.copy = Live THEN s ELSE f.copy
        OBVIOUS
      <3>6. new \in Seq(Listeners)
        BY <3>2, <3>4, <3>5
      <3>7. telling'[n] = [f EXCEPT !.copy = new]
        BY <3>3, <3>5
      <3>8. /\ telling'[n] \in TellingRecord
            /\ telling'[n].loc = f.loc /\ telling'[n].broken = f.broken
        BY <3>2, <3>6, <3>7, TellingCopies
      <3>9. \A l : Awaits(f, s, k, l) => Awaits(telling'[n], other, k, l)
        BY <3>2, <3>3, CopyAwaits
      <3> QED BY <1>3, <3>1, <3>8, <3>9
    <2>3. DOMAIN telling' = DOMAIN telling /\ telling' \in Seq(TellingRecord)
      <3>1. PICK t, m : t = telling' /\ m = N
        OBVIOUS
      <3>2. m \in Nat /\ DOMAIN t = 1..m /\ t = [n \in 1..m |-> t[n]]
        BY <1>2, <2>1, <3>1
      <3>3. \A n \in 1..m : t[n] \in TellingRecord
        BY <1>2, <2>2, <3>1
      <3> HIDE DEF TellingRecord
      <3>4. t \in Seq(TellingRecord)
        BY <3>2, <3>3, SeqOver
      <3> QED BY <1>2, <3>1, <3>2, <3>4
    <2>4. TellTyped'
      BY <1>1, <1>5, <2>3 DEF TellTyped
    <2>5. CopiesHeld'
      BY <1>1, <1>8 DEF CopiesHeld
    <2>6. UnbrokenHeld'
      BY <1>1, <2>2, <2>3 DEF UnbrokenHeld
    <2>7. AllTold'
      BY <1>1, <1>7, <2>2, <2>3 DEF AllTold
    <2> QED BY <1>6, <2>4, <2>5, <2>6, <2>7 DEF TellHeld
  <1>9. CASE kind \notin {"memory", "window"}
    <2>1. telling' = telling /\ excused' = excused \cup PassedOver(SeatOf(l0))
      BY <1>9 DEF Unlisten, CopiesOnUnlisten
    <2>2. TellTyped'
      BY <1>1, <1>5, <2>1 DEF TellTyped
    <2>3. CopiesHeld' /\ UnbrokenHeld'
      BY <1>1, <2>1 DEF CopiesHeld, UnbrokenHeld
    <2>4. ASSUME NEW l \in ToSet(listeners') \ excused', NEW n \in DOMAIN telling,
                 Awaits(telling[n], listeners, kind, l)
          PROVE  Awaits(telling[n], listeners', kind, l)
      <3>1. PICK f : f = telling[n]
        OBVIOUS
      <3>2. f \in TellingRecord /\ f.copy = Live /\ f.next \in Nat \ {0}
        <4>1. f \in TellingRecord
          BY <1>2, <3>1
        <4> QED BY <1>1, <1>9, <3>1, <4>1 DEF CopiesHeld, TellingRecord
      <3>3. ~f.broken /\ ListIn(f, listeners) = listeners /\ ListIn(f, listeners') = listeners'
        BY <2>4, <3>1, <3>2 DEF Awaits, ListIn
      <3>4. PICK p \in DOMAIN listeners : listeners[p] = l /\ p >= f.next
        BY <2>4, <3>1, <3>3 DEF Awaits
      <3>5. ~(p > i /\ p = f.next)
        <4>1. ASSUME p > i, p = f.next
              PROVE  l \in PassedOver(SeatOf(l0))
          <5>1. telling[n].next > i /\ telling[n].next <= M /\ listeners[telling[n].next] = l
            BY <1>2, <3>1, <3>4, <4>1
          <5> QED BY <1>3, <5>1 DEF PassedOver
        <4> QED BY <2>1, <2>4, <4>1
      <3>6. \E q \in DOMAIN listeners' : listeners'[q] = l /\ q >= f.next
        <4>1. CASE p < i
          BY <1>7, <3>4, <4>1
        <4>2. CASE p > i
          <5>1. p - 1 >= f.next
            BY <1>2, <3>2, <3>4, <3>5, <4>2
          <5> QED BY <1>7, <3>4, <4>2, <5>1
        <4>3. p # i
          BY <1>7, <3>4
        <4>4. p < i \/ p > i
          BY <1>2, <1>4, <4>3
        <4> QED BY <4>1, <4>2, <4>4
      <3>7. kind # "window"
        BY <1>9
      <3>8. Awaits(f, listeners', kind, l)
        BY <3>3, <3>6, <3>7 DEF Awaits
      <3> QED BY <3>1, <3>8
    <2>5. AllTold'
      BY <1>1, <1>7, <2>1, <2>4 DEF AllTold
    <2> QED BY <1>6, <2>2, <2>3, <2>5 DEF TellHeld
  <1> QED BY <1>8, <1>9

(* Where the history is: the last location on its way is that of the stack,
   unless one was missed. *)
StackTyped ==
  /\ entries \in Seq(Nat) /\ index \in DOMAIN entries
  /\ known \in Nat /\ navs \in Nat
  /\ pops \in Seq(Int)
  /\ arriving \in Seq(Nat)
  /\ reports \in Seq(ReportRecord) /\ commands \in Seq(CommandRecord)
WaysHeld ==
  /\ kind # "proxied" => commands = <<>> /\ reports = <<>> /\ arriving = <<>>
  /\ kind # "window" => pops = <<>>
Latest == IF reports # <<>> THEN reports[Len(reports)].loc
          ELSE IF arriving # <<>> THEN arriving[Len(arriving)] ELSE known
StackFollowed == missed \/ Latest = Here

StackHeld == StackTyped /\ WaysHeld /\ StackFollowed
HistoryInv == TellHeld /\ StackHeld

(* A new entry is where the history is then. *)
LEMMA PushedIsHere ==
    ASSUME StackTyped, NEW loc \in Nat, PushEntry(loc)
    PROVE  entries' \in Seq(Nat) /\ index' \in DOMAIN entries' /\ Here' = loc
PROOF
  <1>1. PICK s, i : s = entries /\ i = index
    OBVIOUS
  <1>2. s \in Seq(Nat) /\ i \in 1..Len(s)
    BY <1>1 DEF StackTyped
  <1> DEFINE t == SubSeq(s, 1, i)
  <1>3. t \in Seq(Nat) /\ Len(t) = i
    <2>1. /\ t \in Seq(Nat) /\ Len(t) = IF 1 <= i THEN i - 1 + 1 ELSE 0
      <3>1. \A j \in 1..i : s[j] \in Nat
        BY <1>2
      <3> QED BY <1>2, <3>1, SubSeqProperties
    <2> HIDE DEF t
    <2> QED BY <1>2, <2>1
  <1> HIDE DEF t
  <1>4. /\ Append(t, loc) \in Seq(Nat) /\ Len(Append(t, loc)) = i + 1
        /\ Append(t, loc)[i + 1] = loc
    BY <1>3, AppendProperties
  <1>5. entries' = Append(t, loc) /\ index' = i + 1
    BY <1>1 DEF PushEntry, t
  <1>6. i + 1 \in DOMAIN Append(t, loc)
    BY <1>2, <1>4
  <1> QED BY <1>4, <1>5, <1>6 DEF Here

(* An entry that is replaced is where the history is then. *)
LEMMA ReplacedIsHere ==
    ASSUME StackTyped, NEW loc \in Nat, ReplaceEntry(loc)
    PROVE  entries' \in Seq(Nat) /\ index' \in DOMAIN entries' /\ Here' = loc
BY DEF StackTyped, ReplaceEntry, Here

(* Whoever is told by a history of its own, is told where it is. *)
LEMMA NotifyFollows ==
    ASSUME StackHeld, NEW loc \in Nat, known' = loc, Here' = loc, kind # "proxied",
           entries' \in Seq(Nat), index' \in DOMAIN entries', navs' \in Nat,
           pops' \in Seq(Int), kind # "window" => pops' = <<>>,
           UNCHANGED <<kind, proxyVars>>
    PROVE  StackHeld'
PROOF
  <1>1. UNCHANGED <<commands, reports, arriving, missed>>
    BY DEF proxyVars
  <1>2. StackTyped' /\ WaysHeld'
    BY <1>1 DEF StackHeld, StackTyped, WaysHeld
  <1>3. reports = <<>> /\ arriving = <<>>
    BY DEF StackHeld, WaysHeld
  <1>4. StackFollowed'
    BY <1>1, <1>3 DEF StackFollowed, Latest
  <1> QED BY <1>2, <1>4 DEF StackHeld

(* What the page does is reported, and what is reported last is where it is. *)
LEMMA PageObeysFollows ==
    ASSUME StackHeld, PageObeys
    PROVE  StackHeld'
PROOF
  <1>1. /\ StackTyped /\ WaysHeld /\ StackFollowed
        /\ commands # <<>> /\ commands' = Tail(commands)
        /\ UNCHANGED <<kind, known, navs, pops, arriving, missed>>
    BY DEF StackHeld, PageObeys, ForProxy, tellVars
  <1> DEFINE c == Head(commands)
  <1>2. /\ c \in CommandRecord /\ commands' \in Seq(CommandRecord)
    <2> HIDE DEF CommandRecord
    <2> QED BY <1>1, HeadTailProperties DEF StackTyped
  <1>3. kind = "proxied"
    BY <1>1 DEF WaysHeld
  <1>4. WaysHeld'
    BY <1>1, <1>3 DEF WaysHeld
  <1>5. ASSUME NEW ack \in BOOLEAN, NEW loc \in Nat, NEW id \in Nat, Report(ack, loc, id)
        PROVE  /\ reports' \in Seq(ReportRecord) /\ reports' # <<>>
               /\ reports'[Len(reports')].loc = loc
    <2> DEFINE r == [ack |-> ack, loc |-> loc, of |-> id]
    <2>1. r \in ReportRecord
      BY <1>5, Zenon DEF ReportRecord
    <2>2. r.loc = loc
      BY Zenon
    <2>3. reports' = Append(reports, r) /\ reports \in Seq(ReportRecord)
      BY <1>1, <1>5 DEF Report, StackTyped
    <2> HIDE DEF r, ReportRecord
    <2>4. /\ reports' \in Seq(ReportRecord) /\ reports' # <<>>
          /\ Len(reports') = Len(reports) + 1 /\ reports'[Len(reports) + 1] = r
      BY <2>1, <2>3, AppendProperties
    <2> QED BY <2>2, <2>4
  <1>6. ASSUME NEW loc \in Nat, entries' \in Seq(Nat), index' \in DOMAIN entries', Here' = loc,
               NEW ack \in BOOLEAN, NEW id \in Nat, Report(ack, loc, id)
        PROVE  StackHeld'
    <2>1. StackTyped'
      BY <1>1, <1>2, <1>5, <1>6 DEF StackTyped
    <2>2. StackFollowed'
      BY <1>5, <1>6 DEF StackFollowed, Latest
    <2> QED BY <1>4, <2>1, <2>2 DEF StackHeld
  <1>7. c.id \in Nat /\ c.delta \in Int /\ c.do \in {"push", "replace", "go"}
    BY <1>2 DEF CommandRecord
  <1> HIDE DEF c
  <1>8. CASE c.do = "push"
    <2>1. PushEntry(c.id) /\ Report(TRUE, c.id, c.id)
      BY <1>8 DEF PageObeys, c
    <2>2. PICK id : id = c.id
      OBVIOUS
    <2>3. entries' \in Seq(Nat) /\ index' \in DOMAIN entries' /\ Here' = id
      BY <1>1, <1>7, <2>1, <2>2, PushedIsHere
    <2> QED BY <1>6, <1>7, <2>1, <2>2, <2>3
  <1>9. CASE c.do = "replace"
    <2>1. ReplaceEntry(c.id) /\ Report(TRUE, c.id, c.id)
      BY <1>9 DEF PageObeys, c
    <2>2. PICK id : id = c.id
      OBVIOUS
    <2>3. entries' \in Seq(Nat) /\ index' \in DOMAIN entries' /\ Here' = id
      BY <1>1, <1>7, <2>1, <2>2, ReplacedIsHere
    <2> QED BY <1>6, <1>7, <2>1, <2>2, <2>3
  <1>10. CASE c.do = "go"
    <2>1. CASE index + c.delta \in DOMAIN entries
      <3>1. /\ index' = index + c.delta /\ entries' = entries
            /\ Report(FALSE, entries[index'], c.id)
        BY <1>10, <2>1 DEF PageObeys, c
      <3>2. PICK id, loc : id = c.id /\ loc = entries[index']
        OBVIOUS
      <3>3. /\ loc \in Nat /\ Here' = loc
            /\ entries' \in Seq(Nat) /\ index' \in DOMAIN entries'
        BY <1>1, <2>1, <3>1, <3>2 DEF StackTyped, Here
      <3> QED BY <1>6, <1>7, <3>1, <3>2, <3>3
    <2>2. CASE index + c.delta \notin DOMAIN entries
      <3>1. UNCHANGED <<entries, index, reports>>
        BY <1>10, <2>2 DEF PageObeys, c, stackVars
      <3>2. StackTyped'
        BY <1>1, <1>2, <3>1 DEF StackTyped
      <3>3. StackFollowed'
        BY <1>1, <3>1 DEF StackFollowed, Latest, Here
      <3> QED BY <1>4, <3>2, <3>3 DEF StackHeld
    <2> QED BY <2>1, <2>2
  <1> QED BY <1>7, <1>8, <1>9, <1>10

(* A report that the server heeds is on its way to the listeners; one that it
   drops is missed. *)
LEMMA ServerHearsFollows ==
    ASSUME StackHeld, ServerHears
    PROVE  StackHeld'
PROOF
  <1> DEFINE r == Head(reports)
             N == Len(reports)
  <1>1. /\ StackTyped /\ WaysHeld /\ StackFollowed
        /\ reports # <<>> /\ reports' = Tail(reports)
        /\ UNCHANGED <<kind, entries, index, known, navs, pops, commands>>
    BY DEF StackHeld, ServerHears, ForProxy, tellVars, stackVars
  <1>2. /\ arriving' = IF Heeded(r) THEN Append(arriving, r.loc) ELSE arriving
        /\ missed' = (missed \/ (r.ack /\ ~(acks[r.of] = "pending")))
    BY DEF ServerHears
  <1>3. /\ N \in Nat \ {0} /\ r \in ReportRecord /\ r = reports[1]
        /\ reports' \in Seq(ReportRecord) /\ Len(reports') = N - 1
        /\ \A i \in 1..(N - 1) : reports'[i] = reports[i + 1]
    <2> HIDE DEF ReportRecord
    <2>1. N \in Nat /\ N # 0 /\ r = reports[1]
      BY <1>1 DEF StackTyped
    <2>2. /\ r \in ReportRecord
          /\ reports' \in Seq(ReportRecord) /\ Len(reports') = N - 1
          /\ \A i \in 1..Len(reports') : reports'[i] = reports[i + 1]
      BY <1>1, HeadTailProperties DEF StackTyped
    <2> QED BY <2>1, <2>2
  <1>4. r.loc \in Nat
    BY <1>3 DEF ReportRecord
  <1> HIDE DEF r
  <1>5. Heeded(r) => arriving' # <<>> /\ arriving'[Len(arriving')] = r.loc
    <2>1. arriving \in Seq(Nat)
      BY <1>1 DEF StackTyped
    <2>2. /\ Append(arriving, r.loc) \in Seq(Nat)
          /\ Append(arriving, r.loc) # <<>>
          /\ Append(arriving, r.loc)[Len(Append(arriving, r.loc))] = r.loc
      BY <1>4, <2>1, AppendProperties
    <2> QED BY <1>2, <2>1, <2>2
  <1>6. arriving' \in Seq(Nat)
    <2>1. arriving \in Seq(Nat) /\ Append(arriving, r.loc) \in Seq(Nat)
      BY <1>1, <1>4, AppendProperties DEF StackTyped
    <2> QED BY <1>2, <2>1
  <1>7. StackTyped'
    BY <1>1, <1>3, <1>6 DEF StackTyped
  <1>8. kind = "proxied"
    BY <1>1 DEF WaysHeld
  <1>9. WaysHeld'
    BY <1>1, <1>8 DEF WaysHeld
  <1>10. missed \/ reports[N].loc = Here
    BY <1>1 DEF StackFollowed, Latest
  <1>11. Here' = Here
    BY <1>1 DEF Here
  <1>12. CASE N = 1
    <2>1. reports' = <<>>
      <3> HIDE DEF ReportRecord
      <3> QED BY <1>3, <1>12
    <2>2. ~Heeded(r) => missed'
      BY <1>2 DEF Heeded
    <2>3. missed => missed'
      BY <1>2
    <2> QED BY <1>3, <1>5, <1>6, <1>7, <1>9, <1>10, <1>11, <1>12, <2>1, <2>2, <2>3
         DEF StackHeld, StackFollowed, Latest
  <1>13. CASE N # 1
    <2>1. reports' # <<>> /\ reports'[Len(reports')] = reports[N]
      <3> HIDE DEF ReportRecord
      <3>1. N - 1 \in 1..(N - 1) /\ (N - 1) + 1 = N
        BY <1>3, <1>13
      <3>2. reports'[N - 1] = reports[N]
        BY <1>3, <3>1
      <3> QED BY <1>3, <3>1, <3>2
    <2>2. missed => missed'
      BY <1>2
    <2> QED BY <1>7, <1>9, <1>10, <1>11, <2>1, <2>2 DEF StackHeld, StackFollowed, Latest
  <1> QED BY <1>12, <1>13

(* A location that arrives is told; the next one is on its way, or this was the last. *)
LEMMA LocationFollows ==
    ASSUME HistoryInv, LocationArrives
    PROVE  HistoryInv'
PROOF
  <1> DEFINE loc == Head(arriving)
             N == Len(arriving)
  <1>1. /\ TellHeld /\ StackTyped /\ WaysHeld /\ StackFollowed
        /\ arriving # <<>> /\ arriving' = Tail(arriving) /\ Notify(loc, FALSE)
        /\ UNCHANGED <<kind, listeners, entries, index, navs, pops, commands, reports, missed>>
    BY DEF HistoryInv, StackHeld, LocationArrives, ForProxy, stackVars
  <1>2. /\ N \in Nat \ {0} /\ loc \in Nat /\ loc = arriving[1]
        /\ arriving' \in Seq(Nat) /\ Len(arriving') = N - 1
        /\ \A i \in 1..(N - 1) : arriving'[i] = arriving[i + 1]
    <2>1. N \in Nat /\ N # 0 /\ loc = arriving[1]
      BY <1>1 DEF StackTyped
    <2>2. /\ loc \in Nat
          /\ arriving' \in Seq(Nat) /\ Len(arriving') = N - 1
          /\ \A i \in 1..Len(arriving') : arriving'[i] = arriving[i + 1]
      BY <1>1, HeadTailProperties DEF StackTyped
    <2> QED BY <2>1, <2>2
  <1>3. known' = loc
    BY <1>1 DEF Notify
  <1>4. TellHeld'
    <2>1. PICK x : x = loc
      OBVIOUS
    <2> HIDE DEF loc
    <2> QED BY <1>1, <1>2, <2>1, NotifyTells
  <1>5. StackTyped'
    BY <1>1, <1>2, <1>3 DEF StackTyped
  <1>6. kind = "proxied"
    BY <1>1 DEF WaysHeld
  <1>7. WaysHeld'
    BY <1>1, <1>6 DEF WaysHeld
  <1>8. Here' = Here
    BY <1>1 DEF Here
  <1> HIDE DEF loc
  <1>9. CASE N = 1
    <2>1. arriving' = <<>>
      BY <1>2, <1>9
    <2>2. arriving[N] = loc
      BY <1>2, <1>9
    <2> QED BY <1>1, <1>3, <1>4, <1>5, <1>7, <1>8, <2>1, <2>2
         DEF HistoryInv, StackHeld, StackFollowed, Latest
  <1>10. CASE N # 1
    <2>1. arriving' # <<>> /\ arriving'[Len(arriving')] = arriving[N]
      <3>1. N - 1 \in 1..(N - 1) /\ (N - 1) + 1 = N
        BY <1>2, <1>10
      <3>2. arriving'[N - 1] = arriving[N]
        BY <1>2, <3>1
      <3> QED BY <1>2, <3>1, <3>2
    <2> QED BY <1>1, <1>4, <1>5, <1>7, <1>8, <2>1
         DEF HistoryInv, StackHeld, StackFollowed, Latest
  <1> QED BY <1>9, <1>10

(* A navigation of a history that holds its stack itself. *)
LEMMA MovesFollow ==
    ASSUME HistoryInv,
           \/ Push \/ Replace \/ PopState
           \/ \E delta \in {-1, 1} : Go(delta)
    PROVE  HistoryInv'
PROOF
  <1>1. /\ TellHeld /\ StackHeld /\ StackTyped /\ WaysHeld
    BY DEF HistoryInv, StackHeld
  <1>2. ASSUME NEW loc \in Nat, NEW pop \in BOOLEAN, Notify(loc, pop), Here' = loc,
               entries' \in Seq(Nat), index' \in DOMAIN entries', navs' \in Nat,
               pops' \in Seq(Int), kind # "window" => pops' = <<>>, kind # "proxied",
               UNCHANGED <<kind, listeners, proxyVars>>
        PROVE  HistoryInv'
    <2>1. TellHeld'
      BY <1>1, <1>2, NotifyTells
    <2>2. known' = loc
      BY <1>2 DEF Notify
    <2>3. StackHeld'
      BY <1>1, <1>2, <2>2, NotifyFollows
    <2> QED BY <2>1, <2>3 DEF HistoryInv
  <1>3. ASSUME Navigates PROVE navs' \in Nat
    BY <1>1, <1>3 DEF Navigates, StackTyped
  <1>4. CASE Push
    <2>1. /\ kind # "proxied" /\ Navigates /\ PushEntry(navs') /\ Notify(navs', FALSE)
          /\ UNCHANGED <<kind, listeners, pops, proxyVars>>
      BY <1>4 DEF Push
    <2>2. PICK loc : loc = navs'
      OBVIOUS
    <2>3. loc \in Nat /\ navs' \in Nat
      BY <1>3, <2>1, <2>2
    <2>4. entries' \in Seq(Nat) /\ index' \in DOMAIN entries' /\ Here' = loc
      BY <1>1, <2>1, <2>2, <2>3, PushedIsHere
    <2>5. pops' \in Seq(Int) /\ (kind # "window" => pops' = <<>>)
      BY <1>1, <2>1 DEF StackTyped, WaysHeld
    <2> QED BY <1>2, <2>1, <2>2, <2>3, <2>4, <2>5
  <1>5. CASE Replace
    <2>1. /\ kind # "proxied" /\ Navigates /\ ReplaceEntry(navs') /\ Notify(navs', FALSE)
          /\ UNCHANGED <<kind, listeners, pops, proxyVars>>
      BY <1>5 DEF Replace
    <2>2. PICK loc : loc = navs'
      OBVIOUS
    <2>3. loc \in Nat /\ navs' \in Nat
      BY <1>3, <2>1, <2>2
    <2>4. entries' \in Seq(Nat) /\ index' \in DOMAIN entries' /\ Here' = loc
      BY <1>1, <2>1, <2>2, <2>3, ReplacedIsHere
    <2>5. pops' \in Seq(Int) /\ (kind # "window" => pops' = <<>>)
      BY <1>1, <2>1 DEF StackTyped, WaysHeld
    <2> QED BY <1>2, <2>1, <2>2, <2>3, <2>4, <2>5
  <1>6. ASSUME NEW delta \in {-1, 1}, Go(delta)
        PROVE  HistoryInv'
    <2>1. /\ kind # "proxied" /\ Navigates /\ index' = Clamped(index + delta)
          /\ entries' = entries /\ Notify(entries[index'], TRUE)
          /\ UNCHANGED <<kind, listeners, pops, proxyVars>>
      BY <1>6 DEF Go
    <2>2. index' \in DOMAIN entries
      <3>1. /\ Len(entries) \in Nat /\ DOMAIN entries = 1..Len(entries)
            /\ index \in DOMAIN entries
        BY <1>1 DEF StackTyped
      <3>2. Clamped(index + delta) \in 1..Len(entries)
        BY <3>1 DEF Clamped
      <3> QED BY <2>1, <3>1, <3>2
    <2>3. PICK loc : loc = entries[index']
      OBVIOUS
    <2>4. loc \in Nat /\ Here' = loc /\ entries' \in Seq(Nat)
      BY <1>1, <2>1, <2>2, <2>3 DEF StackTyped, Here
    <2>5. pops' \in Seq(Int) /\ (kind # "window" => pops' = <<>>) /\ navs' \in Nat
      BY <1>1, <1>3, <2>1 DEF StackTyped, WaysHeld
    <2> QED BY <1>2, <2>1, <2>2, <2>3, <2>4, <2>5
  <1>7. CASE PopState
    <2> DEFINE to == index + Head(pops)
    <2>1. /\ pops # <<>> /\ pops' = Tail(pops)
          /\ UNCHANGED <<kind, entries, listeners, navs, proxyVars>>
      BY <1>7 DEF PopState
    <2>2. kind = "window"
      BY <1>1, <2>1 DEF WaysHeld
    <2>3. pops' \in Seq(Int) /\ entries' \in Seq(Nat) /\ navs' \in Nat
      BY <1>1, <2>1, HeadTailProperties DEF StackTyped
    <2>4. CASE to \in DOMAIN entries
      <3>1. index' = to /\ Notify(entries[to], TRUE)
        BY <1>7, <2>4 DEF PopState
      <3>2. PICK loc : loc = entries[to]
        OBVIOUS
      <3>3. loc \in Nat /\ Here' = loc /\ index' \in DOMAIN entries'
        BY <1>1, <2>1, <2>4, <3>1, <3>2 DEF StackTyped, Here
      <3> QED BY <1>2, <2>1, <2>2, <2>3, <3>1, <3>2, <3>3
    <2>5. CASE to \notin DOMAIN entries
      <3>1. UNCHANGED <<index, known, telling, told, excused>>
        BY <1>7, <2>5 DEF PopState, tellVars
      <3>2. UNCHANGED <<commands, reports, arriving, missed>>
        BY <2>1 DEF proxyVars
      <3>3. TellHeld'
        BY <1>1, <2>1, <3>1 DEF TellHeld, TellTyped, ListenOnce, CopiesHeld, UnbrokenHeld, AllTold
      <3>4. StackTyped'
        BY <1>1, <2>1, <2>3, <3>1, <3>2 DEF StackTyped
      <3>5. WaysHeld'
        BY <1>1, <2>1, <2>2, <3>2 DEF WaysHeld
      <3>6. StackFollowed'
        BY <1>1, <2>1, <3>1, <3>2 DEF StackHeld, StackFollowed, Latest, Here
      <3> QED BY <3>3, <3>4, <3>5, <3>6 DEF HistoryInv, StackHeld
    <2> QED BY <2>4, <2>5
  <1> QED BY <1>4, <1>5, <1>6, <1>7

(* A reset leaves nobody to tell. *)
LEMMA ResetFollows ==
    ASSUME HistoryInv, ResetHistory
    PROVE  HistoryInv'
PROOF
  <1>1. /\ TellTyped /\ CopiesHeld /\ StackTyped /\ WaysHeld /\ StackFollowed
        /\ kind \in {"headless", "proxied"}
        /\ listeners' = <<>> /\ known' = Home /\ telling' = Broken
        /\ UNCHANGED <<kind, navs, pops, told, commands, reports, arriving>>
    BY DEF HistoryInv, TellHeld, StackHeld, ResetHistory
  <1>2. Home \in Nat /\ <<>> \in Seq(Listeners) /\ DOMAIN <<>> = {}
    BY EmptySeq DEF Home
  <1>3. TellTyped'
    BY <1>1, <1>2, BrokenTelling DEF TellTyped
  <1>4. ListenOnce' /\ AllTold'
    BY <1>1, <1>2 DEF ListenOnce, AllTold, ToSet
  <1>5. CopiesHeld' /\ UnbrokenHeld'
    BY <1>1, BrokenTelling DEF CopiesHeld, UnbrokenHeld
  <1>6. WaysHeld'
    BY <1>1 DEF WaysHeld
  <1>7. CASE kind = "headless"
    <2>1. entries' = <<Home>> /\ index' = 1
      BY <1>7 DEF ResetHistory
    <2>2. entries' \in Seq(Nat) /\ index' \in DOMAIN entries' /\ Here' = Home
      BY <1>2, <2>1 DEF Here
    <2>3. StackTyped'
      BY <1>1, <1>2, <2>2 DEF StackTyped
    <2>4. reports' = <<>> /\ arriving' = <<>>
      BY <1>1, <1>7 DEF WaysHeld
    <2>5. StackFollowed'
      BY <1>1, <2>2, <2>4 DEF StackFollowed, Latest
    <2> QED BY <1>3, <1>4, <1>5, <1>6, <2>3, <2>5 DEF HistoryInv, TellHeld, StackHeld
  <1>8. CASE kind = "proxied"
    <2>1. missed' /\ UNCHANGED <<entries, index>>
      BY <1>8 DEF ResetHistory, stackVars
    <2>2. StackTyped'
      BY <1>1, <1>2, <2>1 DEF StackTyped
    <2> QED BY <1>3, <1>4, <1>5, <1>6, <2>1, <2>2
         DEF HistoryInv, TellHeld, StackHeld, StackFollowed
  <1> QED BY <1>1, <1>7, <1>8

(* Commands and what becomes of them change neither where the history is nor
   what is known of it; a page that leaves takes its reports with it. *)
LEMMA CommandsFollow ==
    ASSUME HistoryInv,
           \/ \E delta \in {-1, 1} : GoLater(delta) \/ Command("go", delta)
           \/ Command("push", 0) \/ Command("replace", 0)
           \/ PageLeaves \/ Block
           \/ \E id \in CommandIds : CommandTimesOut(id)
    PROVE  HistoryInv'
PROOF
  <1>1. /\ TellHeld /\ StackTyped /\ WaysHeld /\ StackFollowed
    BY DEF HistoryInv, StackHeld
  <1>2. UNCHANGED <<kind, listeners, known, telling, told, excused, entries, index, arriving>>
    BY DEF GoLater, Command, PageLeaves, Block, CommandTimesOut, ForProxy, stackVars, tellVars,
           proxyVars
  <1>3. TellHeld'
    BY <1>1, <1>2 DEF TellHeld, TellTyped, ListenOnce, CopiesHeld, UnbrokenHeld, AllTold
  <1>4. ASSUME navs' \in Nat, pops' \in Seq(Int), kind # "window" => pops' = <<>>,
               commands' \in Seq(CommandRecord), kind # "proxied" => commands' = <<>>,
               \/ UNCHANGED <<reports, missed>>
               \/ reports' = <<>> /\ missed' = (missed \/ reports # <<>>)
        PROVE  HistoryInv'
    <2>1. reports' \in Seq(ReportRecord)
      BY <1>1, <1>4, EmptySeq DEF StackTyped
    <2>2. StackTyped'
      BY <1>1, <1>2, <1>4, <2>1 DEF StackTyped
    <2>3. WaysHeld'
      BY <1>1, <1>2, <1>4 DEF WaysHeld
    <2>4. CASE UNCHANGED <<reports, missed>>
      <3>1. StackFollowed'
        BY <1>1, <1>2, <2>4 DEF StackFollowed, Latest, Here
      <3> QED BY <1>3, <2>2, <2>3, <3>1 DEF HistoryInv, StackHeld
    <2>5. CASE reports' = <<>> /\ missed' = (missed \/ reports # <<>>)
      <3>1. reports # <<>> => missed'
        BY <2>5
      <3>2. missed => missed'
        BY <2>5
      <3>3. reports = <<>> => missed \/ Latest' = Here'
        BY <1>1, <1>2, <2>5 DEF StackFollowed, Latest, Here
      <3>4. StackFollowed'
        BY <3>1, <3>2, <3>3 DEF StackFollowed
      <3> QED BY <1>3, <2>2, <2>3, <3>4 DEF HistoryInv, StackHeld
    <2> QED BY <1>4, <2>4, <2>5
  <1>5. ASSUME Navigates PROVE navs' \in Nat
    BY <1>1, <1>5 DEF Navigates, StackTyped
  <1>6. ASSUME NEW delta \in {-1, 1}, GoLater(delta)
        PROVE  HistoryInv'
    <2>1. /\ kind = "window" /\ Navigates /\ pops' = Append(pops, delta)
          /\ UNCHANGED <<commands, reports, missed>>
      BY <1>6 DEF GoLater, proxyVars
    <2>2. pops' \in Seq(Int)
      BY <1>1, <2>1, AppendProperties DEF StackTyped
    <2> QED BY <1>1, <1>4, <1>5, <2>1, <2>2 DEF StackTyped, WaysHeld
  <1>7. ASSUME NEW do \in {"push", "replace", "go"}, NEW delta \in Int, Command(do, delta)
        PROVE  HistoryInv'
    <2> DEFINE c(n) == [id |-> n, do |-> do, delta |-> delta]
    <2>1. /\ kind = "proxied" /\ Navigates /\ UNCHANGED <<pops, reports, missed>>
          /\ commands' \in {commands, Append(commands, c(navs'))}
      BY <1>7 DEF Command, ForProxy
    <2>2. PICK n : n = navs'
      OBVIOUS
    <2>3. n \in Nat
      BY <1>5, <2>1, <2>2
    <2>4. c(n) \in CommandRecord
      BY <2>3, Zenon DEF CommandRecord
    <2>5. PICK new : new = c(n)
      OBVIOUS
    <2>6. commands' \in {commands, Append(commands, new)}
      BY <2>1, <2>2, <2>5
    <2> HIDE DEF c, CommandRecord
    <2>7. commands' \in Seq(CommandRecord)
      <3>1. commands \in Seq(CommandRecord) /\ new \in CommandRecord
        BY <1>1, <2>4, <2>5 DEF StackTyped
      <3>2. Append(commands, new) \in Seq(CommandRecord)
        BY <3>1, AppendProperties
      <3> QED BY <2>6, <3>1, <3>2
    <2> QED BY <1>1, <1>4, <2>1, <2>2, <2>3, <2>7 DEF StackTyped, WaysHeld
  <1>8. CASE PageLeaves
    <2>1. /\ kind = "proxied" /\ UNCHANGED <<navs, pops>>
          /\ commands' = <<>> /\ reports' = <<>> /\ missed' = (missed \/ reports # <<>>)
      BY <1>8 DEF PageLeaves, ForProxy
    <2>2. commands' \in Seq(CommandRecord)
      BY <2>1, EmptySeq
    <2> QED BY <1>1, <1>4, <2>1, <2>2 DEF StackTyped, WaysHeld
  <1>9. CASE Block \/ \E id \in CommandIds : CommandTimesOut(id)
    <2>1. UNCHANGED <<navs, pops, commands, reports, missed>>
      BY <1>9 DEF Block, CommandTimesOut, ForProxy, proxyVars
    <2> QED BY <1>1, <1>4, <2>1 DEF StackTyped, WaysHeld
  <1>10. -1 \in Int /\ 1 \in Int /\ 0 \in Int
    OBVIOUS
  <1> QED BY <1>6, <1>7, <1>8, <1>9, <1>10

(* Who is told, and where the history is, in every state. *)
LEMMA HistoryInvariant == HistorySpec => []HistoryInv
PROOF
  <1>1. HistoryInit => HistoryInv
    <2> SUFFICES ASSUME HistoryInit PROVE HistoryInv
      OBVIOUS
    <2>1. DOMAIN <<>> = {} /\ 0 \in Nat
      OBVIOUS
    <2>2. TellHeld
      <3>1. TellTyped
        BY <2>1, EmptySeq DEF HistoryInit, TellTyped, Home
      <3>2. listeners = <<>> /\ telling = <<>>
        BY DEF HistoryInit
      <3>3. ListenOnce /\ CopiesHeld /\ UnbrokenHeld /\ AllTold
        BY <2>1, <3>2, Zenon DEF ListenOnce, CopiesHeld, UnbrokenHeld, AllTold, ToSet
      <3> QED BY <3>1, <3>3 DEF TellHeld
    <2>3. StackTyped
      <3>1. <<Home>> \in Seq(Nat) /\ 1 \in DOMAIN <<Home>>
        BY DEF Home
      <3>2. <<>> \in Seq(Int) /\ <<>> \in Seq(Nat)
            /\ <<>> \in Seq(ReportRecord) /\ <<>> \in Seq(CommandRecord)
        BY EmptySeq
      <3>3. entries = <<Home>> /\ index = 1 /\ known = 0 /\ navs = 0
        BY DEF HistoryInit, Home
      <3>4. pops = <<>> /\ arriving = <<>> /\ reports = <<>> /\ commands = <<>>
        BY DEF HistoryInit
      <3> HIDE DEF ReportRecord, CommandRecord
      <3> QED BY <2>1, <3>1, <3>2, <3>3, <3>4 DEF StackTyped
    <2>4. WaysHeld
      BY DEF HistoryInit, WaysHeld
    <2>5. StackFollowed
      BY DEF HistoryInit, StackFollowed, Latest, Here
    <2> QED BY <2>2, <2>3, <2>4, <2>5 DEF HistoryInv, StackHeld
  <1>2. HistoryInv /\ [HistoryNext]_hiVars => HistoryInv'
    <2> SUFFICES ASSUME HistoryInv, [HistoryNext]_hiVars PROVE HistoryInv'
      OBVIOUS
    <2>1. ASSUME TellHeld', UNCHANGED <<kind, stackVars, known, navs, pops, proxyVars>>
          PROVE  HistoryInv'
      <3>1. StackHeld'
        BY <2>1 DEF HistoryInv, StackHeld, StackTyped, WaysHeld, StackFollowed, Latest, Here,
                    stackVars, proxyVars
      <3> QED BY <2>1, <3>1 DEF HistoryInv
    <2>2. ASSUME NEW l \in Listeners, Listen(l) PROVE HistoryInv'
      <3>1. TellHeld'
        BY <2>2, ListenTells DEF HistoryInv
      <3> QED BY <2>1, <2>2, <3>1 DEF Listen
    <2>3. ASSUME NEW l \in Listeners, Unlisten(l) PROVE HistoryInv'
      <3>1. TellHeld'
        BY <2>3, UnlistenTells DEF HistoryInv
      <3> QED BY <2>1, <2>3, <3>1 DEF Unlisten
    <2>4. CASE Returns
      <3>1. TellHeld'
        BY <2>4, ReturnsTells DEF HistoryInv
      <3> QED BY <2>1, <2>4, <3>1 DEF Returns
    <2>5. CASE PageObeys \/ ServerHears
      <3>1. StackHeld'
        BY <2>5, PageObeysFollows, ServerHearsFollows DEF HistoryInv
      <3>2. UNCHANGED <<kind, listeners, known, telling, told, excused>>
        BY <2>5 DEF PageObeys, ServerHears, ForProxy, tellVars
      <3>3. TellHeld'
        BY <3>2 DEF HistoryInv, TellHeld, TellTyped, ListenOnce, CopiesHeld, UnbrokenHeld,
                    AllTold
      <3> QED BY <3>1, <3>3 DEF HistoryInv
    <2>6. CASE UNCHANGED hiVars
      BY <2>6 DEF hiVars, HistoryInv, TellHeld, TellTyped, ListenOnce, CopiesHeld, UnbrokenHeld,
                  AllTold, StackHeld, StackTyped, WaysHeld, StackFollowed, Latest, Here
    <2>7. CASE LocationArrives
      BY <2>7, LocationFollows
    <2>8. CASE ResetHistory
      BY <2>8, ResetFollows
    <2>9. CASE \/ Push \/ Replace \/ PopState
               \/ \E delta \in {-1, 1} : Go(delta)
      BY <2>9, MovesFollow
    <2>10. CASE \/ \E delta \in {-1, 1} : GoLater(delta) \/ Command("go", delta)
                \/ Command("push", 0) \/ Command("replace", 0)
                \/ PageLeaves \/ Block
                \/ \E id \in CommandIds : CommandTimesOut(id)
      BY <2>10, CommandsFollow
    <2> QED BY <2>2, <2>3, <2>4, <2>5, <2>6, <2>7, <2>8, <2>9, <2>10 DEF HistoryNext
  <1> QED BY <1>1, <1>2, PTL DEF HistorySpec

(* Once nothing is being told or is on its way, the history says where it is and
   every listener was told so last: for any listeners that come, go and navigate
   while they are told, any number of navigations, and a page that is late or
   leaves. *)
THEOREM EveryoneKnowsWhere == HistorySpec => []ListenersKnowWhere
PROOF
  <1>1. HistoryInv => ListenersKnowWhere
    <2> SUFFICES ASSUME HistoryInv, NothingUnderway
                 PROVE  /\ missed \/ known = Here
                        /\ \A l \in ToSet(listeners) \ excused : missed \/ told[l] = known
      BY DEF ListenersKnowWhere
    <2>1. DOMAIN telling = {} /\ reports = <<>> /\ arriving = <<>>
      BY DEF NothingUnderway
    <2>2. missed \/ known = Here
      BY <2>1 DEF HistoryInv, StackHeld, StackFollowed, Latest
    <2>3. \A l \in ToSet(listeners) \ excused : told[l] = known
      BY <2>1 DEF HistoryInv, TellHeld, AllTold
    <2> QED BY <2>2, <2>3
  <1> QED BY <1>1, HistoryInvariant, PTL

-----------------------------------------------------------------------------
(* Windows and their events (Frames) *)

Has(s, m) == \E i \in 1..Len(s) : s[i] = m
Once(s, m) == \A i, j \in 1..Len(s) : s[i] = m /\ s[j] = m => i = j

(* What is posted: an event comes from a window, the rest from a modal. *)
Letters == {m \in [what : Events \cup {"close"}, from : Windows \cup Modals] :
              IF m.what \in Events THEN m.from \in Windows ELSE m.from \in Modals}

(* Who was subscribed since the event was emitted and has not been told has it on its
   way: in its own box, or in that of the page, whose broker sends it on. *)
StillReaches(e) ==
  /\ Main \in audience[e] =>
       heard[Main][e] > 0 \/ \E f \in Backgrounds : Has(post[Main], Message(e, f))
  /\ \A b \in Backgrounds \cap audience[e] :
       \/ heard[b][e] > 0
       \/ Has(post[b], Message(e, Main))
       \/ \E f \in Windows \ {b} : Has(post[Main], Message(e, f))

(* The page hears of an event of its own when it emits it and of that of a frame when it
   arrives, once. *)
PageHearsOnce(e) ==
  /\ heard[Main][e] < 2
  /\ \A f \in Backgrounds : Has(post[Main], Message(e, f)) =>
       /\ emitter[e] = f /\ heard[Main][e] = 0
       /\ Once(post[Main], Message(e, f))

(* An event of the page is in its box or in those of the frames, once, and a frame in
   whose box it is has not heard of it. *)
FramesHearOnce(e) ==
  emitter[e] = Main =>
    /\ Once(post[Main], Message(e, Main))
    /\ \A b \in Backgrounds :
         /\ Has(post[Main], Message(e, Main)) =>
              ~Has(post[b], Message(e, Main)) /\ heard[b][e] = 0
         /\ Once(post[b], Message(e, Main))
         /\ Has(post[b], Message(e, Main)) => heard[b][e] = 0
         /\ heard[b][e] < 2

(* Nobody has heard of what nobody emitted. *)
NotYet(e) ==
  emitter[e] = "nobody" =>
    /\ audience[e] = {}
    /\ \A w \in Windows : /\ heard[w][e] = 0
                          /\ \A f \in Windows : ~Has(post[w], Message(e, f))

EventHeld(e) ==
  /\ audience[e] \subseteq ears
  /\ StillReaches(e) /\ PageHearsOnce(e) /\ FramesHearOnce(e) /\ NotYet(e)
  /\ \A b, f \in Backgrounds : ~Has(post[b], Message(e, f))

EventsTyped ==
  /\ ears \subseteq Windows
  /\ heard \in [Windows -> [Events -> Nat]]
  /\ emitter \in [Events -> Windows \cup {"nobody"}]
  /\ audience \in [Events -> SUBSET Windows]
  /\ post \in [Windows -> Seq(Letters)]

EventsInv == EventsTyped /\ \A e \in Events : EventHeld(e)

(* A letter put at the end of a box. *)
LEMMA PostedHas ==
    ASSUME NEW S, NEW s \in Seq(S), NEW m \in S
    PROVE  /\ Append(s, m) \in Seq(S)
           /\ \A x : Has(Append(s, m), x) <=> Has(s, x) \/ x = m
           /\ \A x : Once(s, x) /\ (x = m => ~Has(s, x)) => Once(Append(s, m), x)
PROOF
  <1> DEFINE t == Append(s, m)
             n == Len(s)
  <1>1. /\ t \in Seq(S) /\ Len(t) = n + 1 /\ n \in Nat /\ t[n + 1] = m
        /\ \A i \in 1..n : t[i] = s[i]
    BY AppendProperties
  <1>2. \A i \in 1..(n + 1) : i \in 1..n \/ i = n + 1
    BY <1>1
  <1>3. \A i \in 1..n : i \in 1..(n + 1)
    BY <1>1
  <1>4. n + 1 \in 1..(n + 1)
    BY <1>1
  <1> HIDE DEF t, n
  <1>5. ASSUME NEW x PROVE Has(t, x) <=> Has(s, x) \/ x = m
    BY <1>1, <1>2, <1>3, <1>4 DEF Has, n
  <1>6. ASSUME NEW x, Once(s, x), x = m => ~Has(s, x) PROVE Once(t, x)
    BY <1>1, <1>2, <1>6 DEF Has, Once, n
  <1> QED BY <1>1, <1>5, <1>6 DEF t

(* The first letter taken out of a box. *)
LEMMA TakenHas ==
    ASSUME NEW S, NEW s \in Seq(S), s # <<>>
    PROVE  /\ Head(s) \in S /\ Tail(s) \in Seq(S) /\ Has(s, Head(s))
           /\ \A x : Has(Tail(s), x) => Has(s, x)
           /\ \A x : Has(s, x) => x = Head(s) \/ Has(Tail(s), x)
           /\ \A x : Once(s, x) => Once(Tail(s), x)
           /\ Once(s, Head(s)) => ~Has(Tail(s), Head(s))
PROOF
  <1> DEFINE t == Tail(s)
             n == Len(s)
  <1>1. /\ Head(s) \in S /\ Head(s) = s[1] /\ t \in Seq(S) /\ n \in Nat /\ n > 0
        /\ Len(t) = n - 1 /\ \A i \in 1..(n - 1) : t[i] = s[i + 1]
    BY HeadTailProperties
  <1>2. \A i \in 1..(n - 1) : i + 1 \in 1..n /\ i + 1 # 1
    BY <1>1
  <1>3. \A i \in 1..n : i = 1 \/ (i - 1 \in 1..(n - 1) /\ (i - 1) + 1 = i)
    BY <1>1
  <1>4. 1 \in 1..n
    BY <1>1
  <1>5. \A i, j \in 1..(n - 1) : i + 1 = j + 1 => i = j
    BY <1>1
  <1> HIDE DEF t, n
  <1>6. Has(s, Head(s))
    BY <1>1, <1>4 DEF Has, n
  <1>7. ASSUME NEW x PROVE Has(t, x) => Has(s, x)
    BY <1>1, <1>2 DEF Has, n
  <1>8. ASSUME NEW x, Has(s, x), x # Head(s) PROVE Has(t, x)
    <2>1. PICK i \in 1..n : s[i] = x
      BY <1>8 DEF Has, n
    <2>2. i - 1 \in 1..(n - 1) /\ (i - 1) + 1 = i
      BY <1>1, <1>3, <1>8, <2>1
    <2>3. t[i - 1] = x
      BY <1>1, <2>1, <2>2
    <2> QED BY <1>1, <2>2, <2>3 DEF Has
  <1>9. ASSUME NEW x, Once(s, x) PROVE Once(t, x)
    BY <1>1, <1>2, <1>5, <1>9 DEF Once, n
  <1>10. ASSUME Once(s, Head(s)) PROVE ~Has(t, Head(s))
    BY <1>1, <1>2, <1>4, <1>10 DEF Has, Once, n
  <1> QED BY <1>1, <1>6, <1>7, <1>8, <1>9, <1>10 DEF t

(* What a step does not touch of an event. *)
LEMMA EventRests ==
    ASSUME NEW e \in Events, EventHeld(e),
           emitter'[e] = emitter[e],
           audience'[e] \subseteq audience[e], audience'[e] \subseteq ears',
           \A w \in Windows : heard'[w][e] = heard[w][e],
           \A w, f \in Windows :
             /\ Has(post'[w], Message(e, f)) <=> Has(post[w], Message(e, f))
             /\ Once(post[w], Message(e, f)) => Once(post'[w], Message(e, f))
    PROVE  EventHeld(e)'
PROOF
  <1>1. Main \in Windows /\ Backgrounds \subseteq Windows
    BY DEF Windows
  <1>2. StillReaches(e)'
    <2>1. \A f, w \in Windows : Message(e, f)' = Message(e, f)
      BY DEF Message
    <2> QED BY <1>1, <2>1 DEF EventHeld, StillReaches
  <1>3. PageHearsOnce(e)'
    BY <1>1 DEF EventHeld, PageHearsOnce
  <1>4. FramesHearOnce(e)'
    BY <1>1 DEF EventHeld, FramesHearOnce
  <1>5. NotYet(e)'
    BY DEF EventHeld, NotYet
  <1> QED BY <1>1, <1>2, <1>3, <1>4, <1>5 DEF EventHeld

(* Messages of different events differ. *)
LEMMA MessagesDiffer ==
  /\ \A e, f : Message(e, f).what = e /\ Message(e, f).from = f
  /\ \A e \in Events, f \in Windows : Message(e, f) \in Letters
  /\ \A m \in Modals : Message("close", m) \in Letters
  /\ \A m \in Letters : m = Message(m.what, m.from)
PROOF
  <1>1. \A e, f : Message(e, f).what = e /\ Message(e, f).from = f
    BY DEF Message
  <1>2. \A e \in Events, f \in Windows : Message(e, f) \in Letters
    BY DEF Letters, Message
  <1>3. \A m \in Modals : Message("close", m) \in Letters
    BY FramesAssumption DEF Letters, Message
  <1>4. \A m \in Letters : m = Message(m.what, m.from)
    BY DEF Letters, Message
  <1> QED BY <1>1, <1>2, <1>3, <1>4

(* A step that posts or takes a letter of one event, or of a modal, at one box, leaves
   the other events where they are. *)
LEMMA OthersKeepLetters ==
    ASSUME NEW S, NEW s \in Seq(S), NEW x, NEW m
    PROVE  /\ s # <<>> /\ x # Head(s) =>
                /\ Has(Tail(s), x) <=> Has(s, x)
                /\ Once(s, x) => Once(Tail(s), x)
           /\ m \in S /\ x # m =>
                /\ Has(Append(s, m), x) <=> Has(s, x)
                /\ Once(s, x) => Once(Append(s, m), x)
PROOF
  <1>1. ASSUME s # <<>>, x # Head(s)
        PROVE  (Has(Tail(s), x) <=> Has(s, x)) /\ (Once(s, x) => Once(Tail(s), x))
    BY <1>1, TakenHas
  <1>2. ASSUME m \in S, x # m
        PROVE  (Has(Append(s, m), x) <=> Has(s, x)) /\ (Once(s, x) => Once(Append(s, m), x))
    BY <1>2, PostedHas
  <1> QED BY <1>1, <1>2

(* Who subscribes hears later events; who unsubscribes is no longer owed any. *)
LEMMA ListeningKeepsEvents ==
    ASSUME EventsInv, NEW w \in Windows, Subscribe(w) \/ Unsubscribe(w)
    PROVE  EventsInv'
PROOF
  <1>1. /\ EventsTyped /\ UNCHANGED <<heard, emitter, post>>
        /\ ears' \in {ears \cup {w}, ears \ {w}}
        /\ \/ audience' = audience /\ ears' = ears \cup {w}
           \/ audience' = [e \in Events |-> audience[e] \ {w}] /\ ears' = ears \ {w}
    BY DEF EventsInv, Subscribe, Unsubscribe
  <1>2. EventsTyped'
    BY <1>1 DEF EventsTyped
  <1>3. ASSUME NEW e \in Events PROVE EventHeld(e)'
    <2>1. EventHeld(e) /\ audience[e] \subseteq ears
      BY DEF EventsInv, EventHeld
    <2>2. audience'[e] \subseteq audience[e] /\ audience'[e] \subseteq ears'
      BY <1>1, <2>1
    <2> QED BY <1>1, <2>1, <2>2, EventRests
  <1> QED BY <1>2, <1>3 DEF EventsInv

(* An event is emitted: its window has heard it, the page has it in its box. *)
LEMMA EmitKeepsEvents ==
    ASSUME EventsInv, NEW w \in Windows, NEW d \in Events, Emit(w, d)
    PROVE  EventsInv'
PROOF
  <1> DEFINE m == Message(d, w)
             box == post[Main]
  <1>1. /\ EventsTyped /\ Main \in Windows /\ Backgrounds \subseteq Windows /\ m \in Letters
        /\ emitter[d] = "nobody" /\ emitter' = [emitter EXCEPT ![d] = w]
        /\ audience' = [audience EXCEPT ![d] = ears] /\ ears' = ears
        /\ heard' = Told(w, d) /\ post' = [post EXCEPT ![Main] = Append(box, m)]
    BY MessagesDiffer DEF EventsInv, Emit, Posted, Windows
  <1>2. box \in Seq(Letters) /\ Append(box, m) \in Seq(Letters)
    BY <1>1, PostedHas DEF EventsTyped
  <1>3. /\ \A x \in Windows, e \in Events :
             heard'[x][e] = IF x = w /\ e = d /\ w \in ears THEN heard[x][e] + 1 ELSE heard[x][e]
        /\ heard' \in [Windows -> [Events -> Nat]]
    BY <1>1 DEF Told, EventsTyped
  <1>4. /\ post'[Main] = Append(box, m)
        /\ \A x \in Windows : x # Main => post'[x] = post[x]
        /\ post' \in [Windows -> Seq(Letters)]
    BY <1>1, <1>2 DEF EventsTyped
  <1>5. EventsTyped'
    BY <1>1, <1>3, <1>4 DEF EventsTyped
  <1>6. ASSUME NEW e \in Events, e # d PROVE EventHeld(e)'
    <2>1. EventHeld(e) /\ audience[e] \subseteq ears
      BY DEF EventsInv, EventHeld
    <2>2. /\ emitter'[e] = emitter[e] /\ audience'[e] = audience[e]
          /\ \A x \in Windows : heard'[x][e] = heard[x][e]
      BY <1>1, <1>3, <1>6 DEF EventsTyped
    <2>3. ASSUME NEW x \in Windows, NEW f \in Windows
          PROVE  /\ Has(post'[x], Message(e, f)) <=> Has(post[x], Message(e, f))
                 /\ Once(post[x], Message(e, f)) => Once(post'[x], Message(e, f))
      <3>1. Message(e, f) # m
        BY <1>6, MessagesDiffer
      <3> HIDE DEF m
      <3>2. CASE x = Main
        BY <1>1, <1>2, <1>4, <3>1, <3>2, OthersKeepLetters
      <3>3. CASE x # Main
        BY <1>4, <3>3
      <3> QED BY <3>2, <3>3
    <2> QED BY <1>1, <2>1, <2>2, <2>3, EventRests
  <1>7. /\ \A x \in Windows : heard[x][d] = 0 /\ \A f \in Windows : ~Has(post[x], Message(d, f))
        /\ audience'[d] = ears /\ emitter'[d] = w
    BY <1>1 DEF EventsInv, EventHeld, NotYet, EventsTyped
  <1>8. \A f \in Windows : /\ Has(post'[Main], Message(d, f)) <=> f = w
                           /\ Once(post'[Main], Message(d, f))
    <2> SUFFICES ASSUME NEW f \in Windows
                 PROVE  /\ Has(post'[Main], Message(d, f)) <=> f = w
                        /\ Once(post'[Main], Message(d, f))
      OBVIOUS
    <2>1. Message(d, f) = m <=> f = w
      BY MessagesDiffer
    <2>2. ~Has(box, Message(d, f))
      BY <1>1, <1>7
    <2>3. Once(box, Message(d, f))
      BY <2>2 DEF Has, Once
    <2> HIDE DEF m, box
    <2> QED BY <1>1, <1>2, <1>4, <2>1, <2>2, <2>3, PostedHas
  <1>9. \A b \in Backgrounds : /\ b \in Windows /\ b # Main
                               /\ \A f \in Windows : ~Has(post'[b], Message(d, f))
    BY <1>1, <1>4, <1>7, FramesAssumption
  <1>10. \A b \in Backgrounds : Once(post'[b], Message(d, Main))
    BY <1>1, <1>9 DEF Has, Once
  <1>11. \A x \in Windows : heard'[x][d] = IF x = w /\ w \in ears THEN 1 ELSE 0
    BY <1>3, <1>7
  <1> HIDE DEF m, box
  <1>12. EventHeld(d)'
    <2>1. StillReaches(d)'
      BY <1>1, <1>7, <1>8, <1>11, FramesAssumption DEF StillReaches, Windows
    <2>2. PageHearsOnce(d)'
      BY <1>1, <1>7, <1>8, <1>9, <1>11 DEF PageHearsOnce
    <2>3. FramesHearOnce(d)'
      BY <1>1, <1>7, <1>8, <1>9, <1>10, <1>11 DEF FramesHearOnce
    <2>4. NotYet(d)'
      BY <1>7, FramesAssumption DEF NotYet
    <2> QED BY <1>1, <1>7, <1>9, <2>1, <2>2, <2>3, <2>4 DEF EventHeld
  <1> QED BY <1>5, <1>6, <1>12 DEF EventsInv

(* An event arrives at a frame. *)
LEMMA FrameHearsKeepsEvents ==
    ASSUME EventsInv, NEW b \in Backgrounds, DeliverEvent(b)
    PROVE  EventsInv'
PROOF
  <1>0. PICK m, d : m = Head(post[b]) /\ d = m.what
    OBVIOUS
  <1>1. /\ EventsTyped /\ b \in Windows /\ Main \in Windows /\ Backgrounds \subseteq Windows /\ b # Main
        /\ post[b] # <<>> /\ d \in Events
        /\ post' = [post EXCEPT ![b] = Tail(@)]
        /\ heard' = IF FromElsewhere(b, m) THEN Told(b, d) ELSE heard
        /\ UNCHANGED <<ears, emitter, audience>>
    BY <1>0, FramesAssumption DEF EventsInv, DeliverEvent, Windows
  <1>2. post[b] \in Seq(Letters)
    BY <1>1 DEF EventsTyped
  <1>3. m \in Letters /\ Tail(post[b]) \in Seq(Letters) /\ Has(post[b], m)
    BY <1>0, <1>1, <1>2, TakenHas
  <1>4. m.from \in Windows /\ m = Message(d, m.from)
    BY <1>0, <1>1, <1>3, MessagesDiffer DEF Letters
  <1>5. m.from = Main /\ EventHeld(d)
    BY <1>1, <1>3, <1>4 DEF EventsInv, EventHeld, Windows
  <1>6. heard' = Told(b, d)
    BY <1>1, <1>5 DEF FromElsewhere
  <1>7. /\ \A x \in Windows, e \in Events :
             heard'[x][e] = IF x = b /\ e = d /\ b \in ears THEN heard[x][e] + 1 ELSE heard[x][e]
        /\ heard' \in [Windows -> [Events -> Nat]]
    BY <1>1, <1>6 DEF Told, EventsTyped
  <1>8. /\ post'[b] = Tail(post[b])
        /\ \A x \in Windows : x # b => post'[x] = post[x]
        /\ post' \in [Windows -> Seq(Letters)]
    BY <1>1, <1>3 DEF EventsTyped
  <1>9. EventsTyped'
    BY <1>1, <1>7, <1>8 DEF EventsTyped
  <1>10. \A e \in Events, x \in Windows : heard[x][e] \in Nat
    BY <1>1 DEF EventsTyped
  <1>11. m = Message(d, Main)
    BY <1>4, <1>5
  <1>12. ASSUME NEW e \in Events, e # d PROVE EventHeld(e)'
    <2>1. EventHeld(e) /\ audience[e] \subseteq ears
      BY DEF EventsInv, EventHeld
    <2>2. \A x \in Windows : heard'[x][e] = heard[x][e]
      BY <1>7, <1>12
    <2>3. ASSUME NEW x \in Windows, NEW f \in Windows
          PROVE  /\ Has(post'[x], Message(e, f)) <=> Has(post[x], Message(e, f))
                 /\ Once(post[x], Message(e, f)) => Once(post'[x], Message(e, f))
      <3>1. Message(e, f) # m
        BY <1>11, <1>12, MessagesDiffer
      <3>2. CASE x = b
        BY <1>0, <1>1, <1>2, <1>8, <3>1, <3>2, OthersKeepLetters
      <3>3. CASE x # b
        BY <1>8, <3>3
      <3> QED BY <3>2, <3>3
    <2> QED BY <1>1, <2>1, <2>2, <2>3, EventRests
  <1>13. EventHeld(d)'
    <2>1. /\ \A f \in Windows : Has(post'[b], Message(d, f)) => Has(post[b], Message(d, f))
          /\ Once(post[b], m) => Once(post'[b], m) /\ ~Has(post'[b], m)
      BY <1>0, <1>1, <1>2, <1>8, TakenHas
    <2>2. \A x \in Windows : heard'[x][d] = IF x = b /\ b \in ears THEN heard[x][d] + 1 ELSE heard[x][d]
      BY <1>1, <1>7
    <2>3. \A x \in Windows : heard[x][d] > 0 => heard'[x][d] > 0
      BY <1>1, <1>10, <2>2
    <2>4. StillReaches(d)'
      <3>1. StillReaches(d) /\ audience[d] \subseteq ears
        BY <1>5 DEF EventHeld
      <3>2. b \in audience[d] => heard'[b][d] > 0
        BY <1>1, <1>10, <2>2, <3>1
      <3> QED BY <1>1, <1>8, <2>3, <3>1, <3>2 DEF StillReaches
    <2>5. PageHearsOnce(d)'
      BY <1>1, <1>5, <1>8, <2>2 DEF EventHeld, PageHearsOnce
    <2>6. FramesHearOnce(d)'
      <3> SUFFICES ASSUME emitter[d] = Main PROVE FramesHearOnce(d)'
        BY <1>1 DEF FramesHearOnce
      <3>1. /\ FramesHearOnce(d) /\ Has(post[b], Message(d, Main))
        BY <1>3, <1>5, <1>11 DEF EventHeld
      <3>2. /\ heard[b][d] = 0 /\ ~Has(post'[b], Message(d, Main)) /\ Once(post'[b], Message(d, Main))
            /\ ~Has(post'[Main], Message(d, Main)) /\ heard'[b][d] < 2
        BY <1>1, <1>8, <1>11, <2>1, <2>2, <3>1 DEF FramesHearOnce
      <3>3. \A c \in Backgrounds \ {b} : post'[c] = post[c] /\ heard'[c][d] = heard[c][d]
        BY <1>1, <1>8, <2>2
      <3>4. Once(post'[Main], Message(d, Main))
        BY <1>1, <1>8, <3>1 DEF FramesHearOnce
      <3> QED BY <3>1, <3>2, <3>3, <3>4 DEF FramesHearOnce
    <2>7. NotYet(d)'
      BY <1>1, <1>3, <1>5, <1>11 DEF EventHeld, NotYet
    <2>8. \A c, f \in Backgrounds : ~Has(post'[c], Message(d, f))
      BY <1>1, <1>5, <1>8, <2>1 DEF EventHeld
    <2> QED BY <1>1, <1>5, <2>4, <2>5, <2>6, <2>7, <2>8 DEF EventHeld
  <1> QED BY <1>9, <1>12, <1>13 DEF EventsInv

(* What the broker makes of a letter. *)
LEMMA BrokerSends ==
    ASSUME EventsTyped, NEW d \in Events, NEW f \in Windows,
           post[Main] # <<>>, Head(post[Main]) = Message(d, f), DeliverEvent(Main)
    PROVE  /\ post' \in [Windows -> Seq(Letters)]
           /\ \A x \in Windows, e \in Events, g \in Windows : e # d =>
                /\ Has(post'[x], Message(e, g)) <=> Has(post[x], Message(e, g))
                /\ Once(post[x], Message(e, g)) => Once(post'[x], Message(e, g))
           /\ \A g \in Windows :
                /\ Has(post'[Main], Message(d, g)) =>
                     Has(post[Main], Message(d, g)) \/ (f # Main /\ g = Main)
                /\ Has(post[Main], Message(d, g)) => g = f \/ Has(post'[Main], Message(d, g))
                /\ Once(post[Main], Message(d, g)) /\ (f = Main \/ g # Main)
                     => Once(post'[Main], Message(d, g))
           /\ Once(post[Main], Message(d, f)) => ~Has(post'[Main], Message(d, f))
           /\ \A b \in Backgrounds :
                /\ \A g \in Windows : Has(post'[b], Message(d, g)) <=>
                     Has(post[b], Message(d, g)) \/ (b # f /\ g = Main)
                /\ Once(post[b], Message(d, Main)) /\ ~Has(post[b], Message(d, Main))
                     => Once(post'[b], Message(d, Main))
PROOF
  <1>1. PICK box, rest, sent : /\ box = post[Main] /\ rest = Tail(box) /\ sent = Message(d, Main)
    OBVIOUS
  <1>2. /\ Main \in Windows /\ Backgrounds \subseteq Windows /\ Main \notin Backgrounds
        /\ \A w \in Windows : w = Main \/ w \in Backgrounds
    BY FramesAssumption DEF Windows
  <1>3. /\ box \in Seq(Letters) /\ box # <<>> /\ Head(box) = Message(d, f)
        /\ sent \in Letters /\ \A w \in Windows : post[w] \in Seq(Letters)
        /\ Message(d, f).what = d /\ Message(d, f).from = f
    BY <1>1, <1>2, MessagesDiffer DEF EventsTyped
  <1>4. rest \in Seq(Letters)
    BY <1>1, <1>3, TakenHas
  <1>5. /\ post'[Main] = IF f = Main THEN rest ELSE Append(rest, sent)
        /\ \A b \in Backgrounds : post'[b] = IF b # f THEN Append(post[b], sent) ELSE post[b]
        /\ DOMAIN post' = Windows /\ post' = [w \in Windows |-> post'[w]]
    <2>1. post' = Brokered([post EXCEPT ![Main] = Tail(@)], Message(d, f))
      BY DEF DeliverEvent
    <2>2. \A b \in Windows : b \in ForwardTo(Message(d, f)) <=> b \in Backgrounds /\ b # f
      BY <1>3 DEF ForwardTo
    <2>3. Message(Message(d, f).what, Main) = sent
      BY <1>1, <1>3
    <2>4. DOMAIN post = Windows
      BY DEF EventsTyped
    <2>5. PICK forwarded : forwarded =
            [w \in Windows |-> IF w \in Backgrounds /\ w # f THEN Append(post[w], sent)
                               ELSE IF w = Main THEN rest ELSE post[w]]
      OBVIOUS
    <2>6. post' = IF f = Main THEN forwarded
                  ELSE [forwarded EXCEPT ![Main] = Append(@, sent)]
      BY <1>1, <1>2, <1>3, <2>1, <2>2, <2>3, <2>4, <2>5 DEF Brokered, Posted
    <2> QED BY <1>2, <2>5, <2>6
  <1>6. /\ Append(rest, sent) \in Seq(Letters)
        /\ \A b \in Backgrounds : Append(post[b], sent) \in Seq(Letters)
    BY <1>2, <1>3, <1>4, PostedHas
  <1>7. \A w \in Windows : post'[w] \in Seq(Letters)
    BY <1>2, <1>3, <1>4, <1>5, <1>6
  <1>8. /\ \A x : Has(Append(rest, sent), x) <=> Has(rest, x) \/ x = sent
        /\ \A x : Once(rest, x) /\ (x = sent => ~Has(rest, x)) => Once(Append(rest, sent), x)
    BY <1>3, <1>4, PostedHas
  <1>9. /\ \A x : Has(rest, x) => Has(box, x)
        /\ \A x : Has(box, x) => x = Head(box) \/ Has(rest, x)
        /\ \A x : Once(box, x) => Once(rest, x)
        /\ Once(box, Head(box)) => ~Has(rest, Head(box))
    BY <1>1, <1>3, TakenHas
  <1>10. ASSUME NEW b \in Backgrounds
         PROVE  /\ \A x : Has(Append(post[b], sent), x) <=> Has(post[b], x) \/ x = sent
                /\ \A x : Once(post[b], x) /\ (x = sent => ~Has(post[b], x))
                     => Once(Append(post[b], sent), x)
    BY <1>2, <1>3, PostedHas
  <1>11. \A e, g : /\ Message(e, g) = sent <=> e = d /\ g = Main
                   /\ Message(e, g) = Head(box) <=> e = d /\ g = f
    BY <1>1, <1>3, MessagesDiffer
  <1>12. ASSUME NEW x \in Windows, NEW e \in Events, NEW g \in Windows, e # d
         PROVE  /\ Has(post'[x], Message(e, g)) <=> Has(post[x], Message(e, g))
                /\ Once(post[x], Message(e, g)) => Once(post'[x], Message(e, g))
    <2>1. Message(e, g) # sent /\ Message(e, g) # Head(box)
      BY <1>11, <1>12
    <2>2. CASE x = Main
      BY <1>1, <1>5, <1>8, <1>9, <2>1, <2>2
    <2>3. CASE x \in Backgrounds
      BY <1>5, <1>10, <2>1, <2>3
    <2> QED BY <1>2, <2>2, <2>3
  <1>13. ASSUME NEW g \in Windows
         PROVE  /\ Has(post'[Main], Message(d, g)) =>
                     Has(post[Main], Message(d, g)) \/ (f # Main /\ g = Main)
                /\ Has(post[Main], Message(d, g)) => g = f \/ Has(post'[Main], Message(d, g))
                /\ Once(post[Main], Message(d, g)) /\ (f = Main \/ g # Main)
                     => Once(post'[Main], Message(d, g))
    BY <1>1, <1>5, <1>8, <1>9, <1>11
  <1>14. Once(post[Main], Message(d, f)) => ~Has(post'[Main], Message(d, f))
    BY <1>1, <1>3, <1>5, <1>8, <1>9, <1>11
  <1>15. ASSUME NEW b \in Backgrounds
         PROVE  /\ \A g \in Windows : Has(post'[b], Message(d, g)) <=>
                     Has(post[b], Message(d, g)) \/ (b # f /\ g = Main)
                /\ Once(post[b], Message(d, Main)) /\ ~Has(post[b], Message(d, Main))
                     => Once(post'[b], Message(d, Main))
    BY <1>5, <1>10, <1>11
  <1>16. post' \in [Windows -> Seq(Letters)]
    BY <1>5, <1>7
  <1> QED BY <1>12, <1>13, <1>14, <1>15, <1>16

(* An event arrives at the page: its code hears it, its broker sends it on. *)
LEMMA PageHearsKeepsEvents ==
    ASSUME EventsInv, DeliverEvent(Main)
    PROVE  EventsInv'
PROOF
  <1>1. /\ EventsTyped /\ Main \in Windows /\ Backgrounds \subseteq Windows /\ Main \notin Backgrounds
        /\ \A w \in Windows : w = Main \/ w \in Backgrounds
        /\ post[Main] # <<>> /\ Head(post[Main]).what \in Events
        /\ UNCHANGED <<ears, emitter, audience>>
    BY FramesAssumption DEF EventsInv, DeliverEvent, Windows
  <1>2. Head(post[Main]) \in Letters /\ Has(post[Main], Head(post[Main]))
    BY <1>1, TakenHas DEF EventsTyped
  <1>3. PICK d \in Events, f \in Windows : Head(post[Main]) = Message(d, f)
    BY <1>1, <1>2, MessagesDiffer DEF Letters
  <1>4. /\ Message(d, f).what = d /\ Message(d, f).from = f /\ EventHeld(d)
        /\ Has(post[Main], Message(d, f))
    BY <1>2, <1>3, MessagesDiffer DEF EventsInv
  <1>5. heard' = IF f # Main THEN Told(Main, d) ELSE heard
    BY <1>3, <1>4 DEF DeliverEvent, FromElsewhere
  <1>6. /\ \A x \in Windows, e \in Events :
             heard'[x][e] = IF x = Main /\ e = d /\ f # Main /\ Main \in ears
                            THEN heard[x][e] + 1 ELSE heard[x][e]
        /\ heard' \in [Windows -> [Events -> Nat]]
        /\ \A x \in Windows, e \in Events : heard[x][e] \in Nat
    BY <1>1, <1>5 DEF Told, EventsTyped
  <1>7. /\ post' \in [Windows -> Seq(Letters)]
        /\ \A x \in Windows, e \in Events, g \in Windows : e # d =>
             /\ Has(post'[x], Message(e, g)) <=> Has(post[x], Message(e, g))
             /\ Once(post[x], Message(e, g)) => Once(post'[x], Message(e, g))
    BY <1>1, <1>3, BrokerSends
  <1>8. \A g \in Windows :
             /\ Has(post'[Main], Message(d, g)) =>
                  Has(post[Main], Message(d, g)) \/ (f # Main /\ g = Main)
             /\ Has(post[Main], Message(d, g)) => g = f \/ Has(post'[Main], Message(d, g))
             /\ Once(post[Main], Message(d, g)) /\ (f = Main \/ g # Main)
                  => Once(post'[Main], Message(d, g))
    BY <1>1, <1>3, BrokerSends
  <1>9. Once(post[Main], Message(d, f)) => ~Has(post'[Main], Message(d, f))
    BY <1>1, <1>3, BrokerSends
  <1>10. \A b \in Backgrounds :
             /\ \A g \in Windows : Has(post'[b], Message(d, g)) <=>
                  Has(post[b], Message(d, g)) \/ (b # f /\ g = Main)
             /\ Once(post[b], Message(d, Main)) /\ ~Has(post[b], Message(d, Main))
                  => Once(post'[b], Message(d, Main))
    BY <1>1, <1>3, BrokerSends
  <1>11. EventsTyped'
    BY <1>1, <1>6, <1>7 DEF EventsTyped
  <1>12. ASSUME NEW e \in Events, e # d PROVE EventHeld(e)'
    <2>1. EventHeld(e) /\ audience[e] \subseteq ears
      BY DEF EventsInv, EventHeld
    <2>2. \A x \in Windows : heard'[x][e] = heard[x][e]
      BY <1>6, <1>12
    <2> QED BY <1>1, <1>7, <1>12, <2>1, <2>2, EventRests
  <1>13. \A b \in Backgrounds : b \in Windows /\ b # Main /\ heard'[b][d] = heard[b][d]
    BY <1>1, <1>6
  <1>14. f # Main => f \in Backgrounds /\ emitter[d] = f /\ heard[Main][d] = 0
                     /\ Once(post[Main], Message(d, f))
    BY <1>1, <1>4 DEF EventHeld, PageHearsOnce
  <1>15. emitter[d] # "nobody"
    BY <1>1, <1>4 DEF EventHeld, NotYet
  <1>16. EventHeld(d)'
    <2>1. /\ audience[d] \subseteq ears /\ StillReaches(d) /\ PageHearsOnce(d) /\ FramesHearOnce(d)
          /\ \A b, g \in Backgrounds : ~Has(post[b], Message(d, g))
      BY <1>4 DEF EventHeld
    <2>2. Main \in audience[d] =>
            heard'[Main][d] > 0 \/ \E g \in Backgrounds : Has(post'[Main], Message(d, g))
      <3>1. CASE f # Main
        BY <1>1, <1>6, <1>14, <2>1, <3>1
      <3>2. CASE f = Main
        BY <1>1, <1>6, <1>8, <2>1, <3>2 DEF StillReaches
      <3> QED BY <3>1, <3>2
    <2>3. ASSUME NEW b \in Backgrounds, b \in audience[d]
          PROVE  \/ heard'[b][d] > 0
                 \/ Has(post'[b], Message(d, Main))
                 \/ \E g \in Windows \ {b} : Has(post'[Main], Message(d, g))
      <3>1. CASE heard[b][d] > 0 \/ Has(post[b], Message(d, Main))
        BY <1>1, <1>10, <1>13, <3>1
      <3>2. ASSUME NEW g \in Windows \ {b}, Has(post[Main], Message(d, g))
            PROVE  Has(post'[b], Message(d, Main)) \/ Has(post'[Main], Message(d, g))
        BY <1>1, <1>8, <1>10, <3>2
      <3> QED BY <2>1, <2>3, <3>1, <3>2 DEF StillReaches
    <2>4. StillReaches(d)'
      BY <1>1, <2>2, <2>3 DEF StillReaches
    <2>5. PageHearsOnce(d)'
      <3>1. heard'[Main][d] < 2
        BY <1>1, <1>6, <1>14, <2>1 DEF PageHearsOnce
      <3>2. ASSUME NEW g \in Backgrounds, Has(post'[Main], Message(d, g))
            PROVE  /\ emitter'[d] = g /\ heard'[Main][d] = 0
                   /\ Once(post'[Main], Message(d, g))
        <4>1. g \in Windows /\ g # Main /\ Has(post[Main], Message(d, g))
          BY <1>8, <1>13, <3>2
        <4>2. emitter[d] = g /\ heard[Main][d] = 0 /\ Once(post[Main], Message(d, g))
          BY <2>1, <4>1 DEF PageHearsOnce
        <4>3. f = Main
          BY <1>9, <1>14, <3>2, <4>2
        <4> QED BY <1>1, <1>6, <1>8, <4>1, <4>2, <4>3
      <3> QED BY <3>1, <3>2 DEF PageHearsOnce
    <2>6. FramesHearOnce(d)'
      <3> SUFFICES ASSUME emitter[d] = Main PROVE FramesHearOnce(d)'
        BY <1>1 DEF FramesHearOnce
      <3>1. f = Main
        BY <1>1, <1>14
      <3>2. /\ Once(post[Main], Message(d, Main)) /\ Has(post[Main], Message(d, Main))
            /\ \A b \in Backgrounds : ~Has(post[b], Message(d, Main)) /\ heard[b][d] = 0
                                      /\ Once(post[b], Message(d, Main))
        BY <1>4, <2>1, <3>1 DEF FramesHearOnce
      <3>3. Once(post'[Main], Message(d, Main)) /\ ~Has(post'[Main], Message(d, Main))
        BY <1>1, <1>8, <1>9, <3>1, <3>2
      <3>4. \A b \in Backgrounds : Once(post'[b], Message(d, Main)) /\ heard'[b][d] = 0
        BY <1>10, <1>13, <3>2
      <3> QED BY <3>3, <3>4 DEF FramesHearOnce
    <2>7. NotYet(d)'
      BY <1>1, <1>15 DEF NotYet
    <2>8. \A b, g \in Backgrounds : ~Has(post'[b], Message(d, g))
      BY <1>1, <1>10, <1>13, <2>1
    <2> QED BY <1>1, <2>1, <2>4, <2>5, <2>6, <2>7, <2>8 DEF EventHeld
  <1> QED BY <1>11, <1>12, <1>16 DEF EventsInv

(* What modals send is no event. *)
LEMMA ModalsKeepEvents ==
    ASSUME EventsInv, ModalsNext
    PROVE  EventsInv'
PROOF
  <1>1. /\ EventsTyped /\ UNCHANGED <<ears, heard, emitter, audience>>
        /\ Main \in Windows /\ Main \notin Backgrounds
    BY FramesAssumption
       DEF EventsInv, ModalsNext, OpenModal, ModalSends, DeliverClose, PressEscape, ClickOverlay,
           eventVars, Windows
  <1>2. PICK box : box = post[Main]
    OBVIOUS
  <1>3. box \in Seq(Letters)
    BY <1>1, <1>2 DEF EventsTyped
  <1>4. ASSUME NEW new \in Seq(Letters), post' = [post EXCEPT ![Main] = new],
               \A e \in Events, f \in Windows :
                 /\ Has(new, Message(e, f)) <=> Has(box, Message(e, f))
                 /\ Once(box, Message(e, f)) => Once(new, Message(e, f))
        PROVE  EventsInv'
    <2>1. EventsTyped' /\ \A w \in Windows : post'[w] = IF w = Main THEN new ELSE post[w]
      BY <1>1, <1>4 DEF EventsTyped
    <2>2. ASSUME NEW e \in Events PROVE EventHeld(e)'
      <3>1. EventHeld(e) /\ audience[e] \subseteq ears
        BY DEF EventsInv, EventHeld
      <3>2. \A w, f \in Windows :
              /\ Has(post'[w], Message(e, f)) <=> Has(post[w], Message(e, f))
              /\ Once(post[w], Message(e, f)) => Once(post'[w], Message(e, f))
        BY <1>2, <1>4, <2>1
      <3> QED BY <1>1, <3>1, <3>2, EventRests
    <2> QED BY <2>1, <2>2 DEF EventsInv
  <1>5. ASSUME NEW m \in Modals, ModalSends(m) PROVE EventsInv'
    <2>1. PICK letter : letter = Message("close", m)
      OBVIOUS
    <2>2. letter \in Letters /\ post' = [post EXCEPT ![Main] = Append(box, letter)]
      BY <1>2, <1>5, <2>1, MessagesDiffer DEF ModalSends, Posted
    <2>3. \A e \in Events : \A f : Message(e, f) # letter
      BY <2>1, FramesAssumption, MessagesDiffer
    <2>4. Append(box, letter) \in Seq(Letters)
      BY <1>3, <2>2, PostedHas
    <2>5. \A e \in Events, f \in Windows :
            /\ Has(Append(box, letter), Message(e, f)) <=> Has(box, Message(e, f))
            /\ Once(box, Message(e, f)) => Once(Append(box, letter), Message(e, f))
      BY <1>3, <2>2, <2>3, OthersKeepLetters
    <2> QED BY <1>4, <2>2, <2>4, <2>5
  <1>6. ASSUME DeliverClose PROVE EventsInv'
    <2>1. box # <<>> /\ Head(box).what = "close" /\ post' = [post EXCEPT ![Main] = Tail(box)]
      BY <1>2, <1>6 DEF DeliverClose
    <2>2. \A e \in Events : \A f : Message(e, f) # Head(box)
      BY <2>1, FramesAssumption, MessagesDiffer
    <2>3. Tail(box) \in Seq(Letters)
      BY <1>3, <2>1, TakenHas
    <2>4. \A e \in Events, f \in Windows :
            /\ Has(Tail(box), Message(e, f)) <=> Has(box, Message(e, f))
            /\ Once(box, Message(e, f)) => Once(Tail(box), Message(e, f))
      BY <1>3, <2>1, <2>2, OthersKeepLetters
    <2> QED BY <1>4, <2>1, <2>3, <2>4
  <1>7. ASSUME post' = post PROVE EventsInv'
    BY <1>1, <1>7
       DEF EventsInv, EventsTyped, EventHeld, StillReaches, PageHearsOnce, FramesHearOnce, NotYet
  <1> QED BY <1>5, <1>6, <1>7 DEF ModalsNext, OpenModal, PressEscape, ClickOverlay

(* Where every event is, in every state. *)
LEMMA EventsInvariant == FramesSpec => []EventsInv
PROOF
  <1>1. FramesInit => EventsInv
    <2> SUFFICES ASSUME FramesInit PROVE EventsInv
      OBVIOUS
    <2>1. Main \in Windows /\ Backgrounds \subseteq Windows
      BY DEF Windows
    <2>2. EventsTyped
      BY <2>1, EmptySeq DEF FramesInit, EventsTyped
    <2>3. \A w \in Windows : Len(post[w]) = 0
      BY DEF FramesInit
    <2>4. \A w \in Windows : \A x : ~Has(post[w], x) /\ Once(post[w], x)
      BY <2>3 DEF Has, Once
    <2>5. ASSUME NEW e \in Events PROVE EventHeld(e)
      BY <2>1, <2>4
         DEF FramesInit, EventHeld, StillReaches, PageHearsOnce, FramesHearOnce, NotYet
    <2> QED BY <2>2, <2>5 DEF EventsInv
  <1>2. EventsInv /\ [EventsNext \/ ModalsNext]_frVars => EventsInv'
    <2> SUFFICES ASSUME EventsInv, [EventsNext \/ ModalsNext]_frVars PROVE EventsInv'
      OBVIOUS
    <2>1. CASE EventsNext
      <3>1. ASSUME NEW w \in Windows, DeliverEvent(w) PROVE EventsInv'
        BY <3>1, PageHearsKeepsEvents, FrameHearsKeepsEvents DEF Windows
      <3> QED BY <2>1, <3>1, ListeningKeepsEvents, EmitKeepsEvents DEF EventsNext
    <2>2. CASE ModalsNext
      BY <2>2, ModalsKeepEvents
    <2>3. CASE UNCHANGED frVars
      BY <2>3 DEF frVars, EventsInv, EventsTyped, EventHeld, StillReaches, PageHearsOnce,
                  FramesHearOnce, NotYet
    <2> QED BY <2>1, <2>2, <2>3
  <1> QED BY <1>1, <1>2, PTL DEF FramesSpec

(* Once nothing is on its way every window that was subscribed since an event was emitted
   has been told of it, the page at most once, and everyone at most once of an event of
   the page: for any windows, events and modals (the events half of FramesAgree). *)
THEOREM EventsReachEveryone == FramesSpec => []EventsReachAll
PROOF
  <1>1. EventsInv => EventsReachAll
    <2> SUFFICES ASSUME EventsInv, Quiet, NEW e \in Events
                 PROVE  /\ \A w \in audience[e] : heard[w][e] > 0
                        /\ heard[Main][e] < 2
                        /\ emitter[e] = Main => \A w \in Windows : heard[w][e] < 2
      BY DEF EventsReachAll
    <2>1. /\ EventHeld(e) /\ audience[e] \subseteq Windows
          /\ \A w \in Windows : \A x : ~Has(post[w], x)
      BY DEF EventsInv, EventsTyped, Quiet, Has
    <2>2. \A w \in Windows : w = Main \/ w \in Backgrounds
      BY DEF Windows
    <2>3. Main \in Windows /\ Backgrounds \subseteq Windows
      BY DEF Windows
    <2> QED BY <2>1, <2>2, <2>3 DEF EventHeld, StillReaches, PageHearsOnce, FramesHearOnce
  <1> QED BY <1>1, EventsInvariant, PTL

-----------------------------------------------------------------------------
(* Modals of the page (Frames) *)

ModalOutcomes == Modals \cup {"new", "open", Undefined}
PageRecords == [active : Modals \cup {NoModal}, overlays : Seq(Modals), outcome : [Modals -> ModalOutcomes]]

(* The overlays of the page are those of the modals that are open, each once, that of the
   active modal among them. *)
PageHolds(p) ==
  /\ p \in PageRecords
  /\ \A i, j \in 1..Len(p.overlays) : p.overlays[i] = p.overlays[j] => i = j
  /\ \A m \in Modals : Has(p.overlays, m) <=> p.outcome[m] = "open"
  /\ p.active # NoModal => p.outcome[p.active] = "open"

ModalsInv ==
  /\ PageHolds(page)
  /\ stranded \subseteq Modals /\ crossed \subseteq Modals
  /\ ModalsAnswer

(* What closing with the answer a does to the page p: it has become q. *)
ClosedTo(p, q, a) ==
  /\ PageHolds(q)
  /\ \A m \in Modals : q.outcome[m] \in {p.outcome[m], a, "open"}
  /\ \A m \in Modals : p.outcome[m] \in Modals => q.outcome[m] = p.outcome[m]
  /\ \A m \in Modals : Has(q.overlays, m) =>
       (Has(p.overlays, m) /\ m # p.active) \/ m = q.active

(* An overlay is taken out of the page. *)
LEMMA OverlayGoes ==
    ASSUME NEW S, NEW s \in Seq(S), NEW x, Has(s, x),
           \A i, j \in 1..Len(s) : s[i] = s[j] => i = j
    PROVE  /\ RemoveFirst(s, x) \in Seq(S)
           /\ \A i, j \in 1..Len(RemoveFirst(s, x)) : RemoveFirst(s, x)[i] = RemoveFirst(s, x)[j] => i = j
           /\ \A y : Has(RemoveFirst(s, x), y) <=> Has(s, y) /\ y # x
PROOF
  <1> DEFINE I == {i \in 1..Len(s) : s[i] = x}
             k == SelectInSeq(s, LAMBDA v : v = x)
             r == RemoveFirst(s, x)
  <1>1. k \in 1..Len(s) /\ s[k] = x
    <2>1. I \in SUBSET (1..Len(s)) /\ I # {} /\ Len(s) \in Nat
      BY DEF Has
    <2>2. PICK i \in I : \A j \in I : i <= j
      <3> HIDE DEF I
      <3> QED BY <2>1, FirstPlace
    <2>3. k = Min(I)
      BY <2>1 DEF SelectInSeq
    <2>4. k \in I
      BY <2>2, <2>3 DEF Min
    <2> QED BY <2>4
  <1>2. r = RemoveAt(s, k)
    BY <1>1 DEF RemoveFirst
  <1>3. /\ r \in Seq(S) /\ Len(r) = Len(s) - 1 /\ Len(s) \in Nat
        /\ \A j \in 1..(Len(s) - 1) : r[j] = IF j < k THEN s[j] ELSE s[j + 1]
    <2>1. Len(s) \in Nat
      OBVIOUS
    <2> HIDE DEF k, r
    <2> QED BY <1>1, <1>2, <2>1, RemoveAtPlaces
  <1> HIDE DEF k, r
  <1>4. ASSUME NEW i \in 1..Len(r), NEW j \in 1..Len(r), r[i] = r[j] PROVE i = j
    BY <1>1, <1>3, <1>4
  <1>5. ASSUME NEW y, Has(r, y) PROVE Has(s, y) /\ y # x
    BY <1>1, <1>3, <1>5 DEF Has
  <1>6. ASSUME NEW y, Has(s, y), y # x PROVE Has(r, y)
    <2>1. PICK i \in 1..Len(s) : s[i] = y
      BY <1>6 DEF Has
    <2>2. i < k \/ i > k
      BY <1>1, <1>6, <2>1
    <2>3. CASE i < k
      BY <1>1, <1>3, <2>1, <2>3 DEF Has
    <2>4. CASE i > k
      <3>1. i - 1 \in 1..(Len(s) - 1) /\ ~(i - 1 < k) /\ (i - 1) + 1 = i
        BY <1>1, <1>3, <2>4
      <3>2. r[i - 1] = s[i]
        BY <1>3, <3>1
      <3> QED BY <1>3, <2>1, <3>1, <3>2 DEF Has
    <2> QED BY <2>2, <2>3, <2>4
  <1> QED BY <1>3, <1>4, <1>5, <1>6 DEF r

(* The page with one more modal. *)
LEMMA ShownIs ==
    ASSUME NEW p \in PageRecords, NEW m \in Modals
    PROVE  /\ Shown(p, m) \in PageRecords /\ Shown(p, m).active = m
           /\ Shown(p, m).overlays = Append(p.overlays, m)
           /\ Shown(p, m).outcome = [p.outcome EXCEPT ![m] = "open"]
PROOF
  <1> DEFINE q == Shown(p, m)
             s == p.overlays
             p1 == [p EXCEPT !.active = m]
             p2 == [p1 EXCEPT !.overlays = Append(s, m)]
  <1>1. p1 \in PageRecords /\ p1.active = m /\ p1.overlays = s /\ p1.outcome = p.outcome
    BY DEF PageRecords
  <1>2. Append(s, m) \in Seq(Modals)
    BY DEF PageRecords
  <1>3. /\ p2 \in PageRecords /\ p2.active = m /\ p2.overlays = Append(s, m)
        /\ p2.outcome = p.outcome
    <2> HIDE DEF p1, s
    <2> QED BY <1>1, <1>2 DEF PageRecords
  <1>4. [p.outcome EXCEPT ![m] = "open"] \in [Modals -> ModalOutcomes]
    BY DEF PageRecords, ModalOutcomes
  <1>5. q = [p2 EXCEPT !.outcome = [p2.outcome EXCEPT ![m] = "open"]]
    BY <1>1 DEF Shown
  <1> HIDE DEF p2, q, s
  <1>6. q \in PageRecords /\ q.active = m /\ q.overlays = Append(s, m)
        /\ q.outcome = [p.outcome EXCEPT ![m] = "open"]
    BY <1>3, <1>4, <1>5 DEF PageRecords
  <1> QED BY <1>6 DEF q, s

(* A modal opens: it was new, so none of the overlays is its own. *)
LEMMA ModalShown ==
    ASSUME NEW p, PageHolds(p), NEW m \in Modals, p.outcome[m] = "new"
    PROVE  /\ PageHolds(Shown(p, m)) /\ Shown(p, m).active = m
           /\ \A n \in Modals : Has(Shown(p, m).overlays, n) <=> Has(p.overlays, n) \/ n = m
           /\ \A n \in Modals : Shown(p, m).outcome[n] = IF n = m THEN "open" ELSE p.outcome[n]
PROOF
  <1> DEFINE q == Shown(p, m)
             s == p.overlays
  <1>1. p \in PageRecords
    BY DEF PageHolds
  <1>2. /\ q \in PageRecords /\ q.active = m /\ q.overlays = Append(s, m)
        /\ q.outcome = [p.outcome EXCEPT ![m] = "open"]
    BY <1>1, ShownIs
  <1>3. ~Has(s, m)
    BY DEF PageHolds
  <1>4. /\ s \in Seq(Modals) /\ Len(s) \in Nat /\ Len(Append(s, m)) = Len(s) + 1
        /\ Append(s, m)[Len(s) + 1] = m /\ \A i \in 1..Len(s) : Append(s, m)[i] = s[i]
    BY <1>1, AppendProperties DEF PageRecords
  <1>5. \A i, j \in 1..Len(s) : s[i] = s[j] => i = j
    BY DEF PageHolds
  <1> HIDE DEF q, s
  <1>6. ASSUME NEW i \in 1..(Len(s) + 1), NEW j \in 1..(Len(s) + 1),
               Append(s, m)[i] = Append(s, m)[j]
        PROVE  i = j
    BY <1>3, <1>4, <1>5, <1>6 DEF Has
  <1>7. ASSUME NEW n \in Modals PROVE Has(Append(s, m), n) <=> Has(s, n) \/ n = m
    <2>1. \A i \in 1..(Len(s) + 1) : i \in 1..Len(s) \/ i = Len(s) + 1
      BY <1>4
    <2>2. \A i \in 1..Len(s) : i \in 1..(Len(s) + 1)
      BY <1>4
    <2>3. Len(s) + 1 \in 1..(Len(s) + 1)
      BY <1>4
    <2> QED BY <1>4, <2>1, <2>2, <2>3 DEF Has
  <1>8. \A n \in Modals : q.outcome[n] = IF n = m THEN "open" ELSE p.outcome[n]
    BY <1>1, <1>2 DEF PageRecords
  <1>9. PageHolds(q)
    <2>1. \A n \in Modals : Has(q.overlays, n) <=> q.outcome[n] = "open"
      BY <1>2, <1>7, <1>8 DEF PageHolds, s
    <2>2. \A i, j \in 1..Len(q.overlays) : q.overlays[i] = q.overlays[j] => i = j
      BY <1>2, <1>4, <1>6
    <2>3. q.active # NoModal => q.outcome[q.active] = "open"
      BY <1>2, <1>8
    <2> QED BY <1>2, <2>1, <2>2, <2>3 DEF PageHolds
  <1> QED BY <1>2, <1>7, <1>8, <1>9 DEF q, s

(* One listener closes the modal that is active, and that alone is answered; its onClose may
   open one more. *)
LEMMA ActiveCloses ==
    ASSUME NEW p, PageHolds(p), NEW a \in Modals \cup {Undefined}
    PROVE  /\ ClosedTo(p, CloseActive(p, a), a)
           /\ \A m \in Modals : \/ m = p.active
                               \/ CloseActive(p, a).outcome[m] \in {p.outcome[m], "open"}
           /\ p.active # NoModal =>
                /\ CloseActive(p, a).outcome[p.active] = a
                /\ CloseActive(p, a).active \in {NoModal, OpensNext[p.active]}
PROOF
  <1> DEFINE q == CloseActive(p, a)
             m == p.active
             w == [Withdrawn(p) EXCEPT !.outcome[m] = a]
             opens == OpensNext[m]
  <1>1. p \in PageRecords /\ \A n \in Modals : n \notin {NoModal, "new", "open", Undefined}
    BY FramesAssumption DEF PageHolds
  <1>2. CASE m = NoModal
    <2>1. q = p
      BY <1>2 DEF CloseActive
    <2> QED BY <1>1, <1>2, <2>1 DEF ClosedTo
  <1>3. CASE m # NoModal
    <2>1. m \in Modals /\ p.outcome[m] = "open" /\ Has(p.overlays, m) /\ a # "open"
      BY <1>1, <1>3, FramesAssumption DEF PageHolds, PageRecords, Undefined
    <2>2. /\ p.overlays \in Seq(Modals)
          /\ \A i, j \in 1..Len(p.overlays) : p.overlays[i] = p.overlays[j] => i = j
      BY <1>1 DEF PageHolds, PageRecords
    <2>3. /\ Withdrawn(p) \in PageRecords /\ Withdrawn(p).active = NoModal
          /\ Withdrawn(p).overlays = RemoveFirst(p.overlays, m)
          /\ Withdrawn(p).outcome = p.outcome
      <3>1. RemoveFirst(p.overlays, m) \in Seq(Modals)
        BY <2>1, <2>2, OverlayGoes
      <3> QED BY <1>1, <3>1 DEF Withdrawn, PageRecords
    <2>4. /\ w \in PageRecords /\ w.active = NoModal
          /\ w.overlays = RemoveFirst(p.overlays, m)
          /\ w.outcome = [p.outcome EXCEPT ![m] = a]
      <3>1. [p.outcome EXCEPT ![m] = a] \in [Modals -> ModalOutcomes]
        BY <1>1 DEF PageRecords, ModalOutcomes
      <3>2. w = [Withdrawn(p) EXCEPT !.outcome = [p.outcome EXCEPT ![m] = a]]
        BY <2>3
      <3> HIDE DEF m, w
      <3> QED BY <2>3, <3>1, <3>2 DEF PageRecords
    <2>5. \A n \in Modals : w.outcome[n] = IF n = m THEN a ELSE p.outcome[n]
      BY <1>1, <2>4 DEF PageRecords
    <2> HIDE DEF w, q
    <2>6. /\ \A i, j \in 1..Len(w.overlays) : w.overlays[i] = w.overlays[j] => i = j
          /\ \A n : Has(w.overlays, n) <=> Has(p.overlays, n) /\ n # m
      BY <2>1, <2>2, <2>4, OverlayGoes
    <2>7. PageHolds(w)
      <3>1. \A n \in Modals : Has(w.overlays, n) <=> w.outcome[n] = "open"
        BY <2>1, <2>5, <2>6 DEF PageHolds
      <3> QED BY <2>4, <2>6, <3>1 DEF PageHolds
    <2>8. CASE opens # NoModal /\ p.outcome[opens] = "new"
      <3>1. opens \in Modals /\ opens # m /\ w.outcome[opens] = "new"
        BY <2>1, <2>5, <2>8, FramesAssumption
      <3>2. q = Shown(w, opens)
        <4>1. q = [Shown(Withdrawn(p), opens) EXCEPT !.outcome[m] = a]
          BY <1>3, <2>3, <2>8 DEF q, CloseActive, ForgottenFirst, CallOnClose
        <4>2. /\ Shown(Withdrawn(p), opens) \in PageRecords
              /\ Shown(Withdrawn(p), opens).active = opens
              /\ Shown(Withdrawn(p), opens).overlays = Append(Withdrawn(p).overlays, opens)
              /\ Shown(Withdrawn(p), opens).outcome = [p.outcome EXCEPT ![opens] = "open"]
          BY <2>3, <3>1, ShownIs
        <4>3. /\ Shown(w, opens) \in PageRecords
              /\ Shown(w, opens).active = opens
              /\ Shown(w, opens).overlays = Append(w.overlays, opens)
              /\ Shown(w, opens).outcome = [w.outcome EXCEPT ![opens] = "open"]
          BY <2>4, <3>1, ShownIs
        <4>4. [[p.outcome EXCEPT ![opens] = "open"] EXCEPT ![m] = a]
                = [w.outcome EXCEPT ![opens] = "open"]
          BY <1>1, <2>1, <2>4, <3>1 DEF PageRecords
        <4>5. PICK v : v = Shown(Withdrawn(p), opens)
          OBVIOUS
        <4>6. q = [v EXCEPT !.outcome = [v.outcome EXCEPT ![m] = a]]
          BY <4>1, <4>5
        <4>7. v \in PageRecords /\ v.active = opens /\ v.overlays = Append(w.overlays, opens)
              /\ v.outcome = [p.outcome EXCEPT ![opens] = "open"]
          BY <2>3, <2>4, <4>2, <4>5
        <4>8. PICK u : u = Shown(w, opens)
          OBVIOUS
        <4> HIDE DEF m, opens
        <4>9. /\ q = [v EXCEPT !.outcome = [w.outcome EXCEPT ![opens] = "open"]]
              /\ u \in PageRecords /\ u.active = v.active /\ u.overlays = v.overlays
              /\ u.outcome = [w.outcome EXCEPT ![opens] = "open"]
          BY <4>3, <4>4, <4>6, <4>7, <4>8
        <4>10. q = u
          BY <4>7, <4>9 DEF PageRecords
        <4> QED BY <4>8, <4>10
      <3>3. /\ PageHolds(q) /\ q.active = opens
            /\ \A n \in Modals : Has(q.overlays, n) <=> Has(w.overlays, n) \/ n = opens
            /\ \A n \in Modals : q.outcome[n] = IF n = opens THEN "open" ELSE w.outcome[n]
        BY <2>7, <3>1, <3>2, ModalShown
      <3>4. ClosedTo(p, q, a)
        BY <1>1, <2>1, <2>5, <2>6, <2>8, <3>1, <3>3 DEF ClosedTo
      <3> QED BY <2>1, <2>5, <3>1, <3>3, <3>4 DEF q
    <2>9. CASE ~(opens # NoModal /\ p.outcome[opens] = "new")
      <3>1. q = w
        BY <1>3, <2>3, <2>9 DEF q, w, CloseActive, ForgottenFirst, CallOnClose
      <3>2. ClosedTo(p, q, a)
        BY <1>1, <2>1, <2>4, <2>5, <2>6, <2>7, <3>1 DEF ClosedTo
      <3> QED BY <2>1, <2>4, <2>5, <3>1, <3>2 DEF q
    <2> QED BY <2>8, <2>9
  <1> QED BY <1>2, <1>3

(* One listener after the other. *)
LEMMA ClosedTwice ==
    ASSUME NEW p, NEW q, NEW r, NEW a,
           ClosedTo(p, q, a), ClosedTo(q, r, a)
    PROVE  ClosedTo(p, r, a)
BY DEF ClosedTo

(* All the listeners: f says what each of them leaves. *)
LEMMA ListenersClose ==
    ASSUME PageHolds(page), NEW a \in Modals \cup {Undefined}
    PROVE  \E f \in [0..Len(page.overlays) -> PageRecords] :
             /\ f[0] = page /\ AllListenersClose(a) = f[Len(page.overlays)]
             /\ \A i \in 1..Len(page.overlays) :
                  f[i] = IF page.overlays[i] \in ToSet(f[i - 1].overlays)
                         THEN CloseActive(f[i - 1], a) ELSE f[i - 1]
             /\ \A i \in 0..Len(page.overlays) : PageHolds(f[i])
PROOF
  <1> DEFINE n == Len(page.overlays)
             V == {p \in PageRecords : PageHolds(p)}
             Then(i, p) == IF page.overlays[i] \in ToSet(p.overlays) THEN CloseActive(p, a) ELSE p
             Solves(f) == f = [i \in 0..n |-> IF i = 0 THEN page ELSE Then(i, f[i - 1])]
  <1>1. n \in Nat
    BY DEF PageHolds, PageRecords
  <1>2. ASSUME NEW i \in 1..n, NEW p \in V PROVE Then(i, p) \in V
    BY ActiveCloses DEF ClosedTo, PageHolds
  <1> DEFINE step == [i \in 1..n |-> [p \in V |-> Then(i, p)]]
  <1>3. step \in [1..n -> [V -> V]] /\ \A i \in 1..n, p \in V : step[i][p] = Then(i, p)
    <2> HIDE DEF n, V, Then
    <2> QED BY <1>2
  <1>4. page \in V
    BY DEF PageHolds
  <1>5. PICK g \in [0..n -> V] : g[0] = page /\ \A i \in 1..n : g[i] = step[i][g[i - 1]]
    <2> HIDE DEF n, V, step
    <2>1. \E f \in [0..n -> V] : Follows(f, n, page, step)
      BY <1>1, <1>3, <1>4, Iterates
    <2> QED BY <2>1 DEF Follows
  <1>6. Solves(g)
    <2> HIDE DEF n, V, step, Then
    <2>1. ASSUME NEW i \in 0..n PROVE g[i] = IF i = 0 THEN page ELSE Then(i, g[i - 1])
      <3>1. CASE i = 0
        BY <1>5, <3>1
      <3>2. CASE i # 0
        <4>1. i \in 1..n /\ i - 1 \in 0..n
          BY <1>1, <3>2
        <4>2. g[i - 1] \in V
          BY <1>5, <4>1
        <4> QED BY <1>3, <1>5, <3>2, <4>1, <4>2
      <3> QED BY <3>1, <3>2
    <2>2. g = [i \in 0..n |-> g[i]]
      BY <1>5
    <2> QED BY <2>1, <2>2
  <1>7. PICK f : f = CHOOSE h : Solves(h)
    OBVIOUS
  <1>8. Solves(f)
    <2> HIDE DEF Solves
    <2> QED BY <1>6, <1>7
  <1>9. AllListenersClose(a) = f[n]
    BY <1>7 DEF AllListenersClose
  <1>10. /\ f[0] = page /\ f = [i \in 0..n |-> f[i]]
         /\ \A i \in 1..n : f[i] = Then(i, f[i - 1])
    <2> HIDE DEF n, Then
    <2>1. f = [i \in 0..n |-> IF i = 0 THEN page ELSE Then(i, f[i - 1])]
      BY <1>8
    <2>2. 0 \in 0..n /\ \A i \in 1..n : i \in 0..n /\ i # 0
      BY <1>1
    <2>3. f[0] = page /\ \A i \in 1..n : f[i] = Then(i, f[i - 1])
      BY <2>1, <2>2, Zenon
    <2>4. f = [i \in 0..n |-> f[i]]
      BY <2>1, Zenon
    <2> QED BY <2>3, <2>4
  <1>11. \A i \in 0..n : f[i] \in V
    <2> DEFINE S == {i \in 0..n : f[i] \in V}
    <2> HIDE DEF n, V, Then
    <2>1. 0 \in S
      BY <1>1, <1>4, <1>10
    <2>2. ASSUME NEW i \in 1..n, i - 1 \in S PROVE i \in S
      <3>1. f[i - 1] \in V /\ i \in 0..n
        BY <1>1, <2>2
      <3>2. f[i] \in V
        BY <1>2, <1>10, <3>1
      <3> QED BY <3>1, <3>2
    <2>3. \A i \in 0..n : i \in S
      <3> HIDE DEF S
      <3> QED BY <1>1, <2>1, <2>2, AllPlaces
    <2> QED BY <2>3
  <1>12. f \in [0..n -> PageRecords] /\ \A i \in 0..n : PageHolds(f[i])
    <2>1. \A i \in 0..n : f[i] \in PageRecords /\ PageHolds(f[i])
      BY <1>11
    <2> HIDE DEF n, V, Then
    <2> QED BY <1>10, <2>1
  <1> QED BY <1>9, <1>10, <1>12

(* Together they close as one does; with one overlay only, they are one. *)
LEMMA AllClose ==
    ASSUME PageHolds(page), NEW a \in Modals \cup {Undefined}
    PROVE  /\ PageHolds(AllListenersClose(a))
           /\ page.overlays # <<>> => ClosedTo(page, AllListenersClose(a), a)
           /\ Len(page.overlays) = 1 => AllListenersClose(a) = CloseActive(page, a)
PROOF
  <1> DEFINE n == Len(page.overlays)
  <1>1. PICK f \in [0..n -> PageRecords] :
             /\ f[0] = page /\ AllListenersClose(a) = f[n]
             /\ \A i \in 1..n :
                  f[i] = IF page.overlays[i] \in ToSet(f[i - 1].overlays)
                         THEN CloseActive(f[i - 1], a) ELSE f[i - 1]
             /\ \A i \in 0..n : PageHolds(f[i])
    BY ListenersClose
  <1>2. /\ page.overlays \in Seq(Modals) /\ n \in Nat
        /\ page.overlays # <<>> => n > 0
    BY DEF PageHolds, PageRecords
  <1>3. \A i \in 1..n : page.overlays[i] \in ToSet(page.overlays)
    BY <1>2 DEF ToSet
  <1> DEFINE S == {0} \cup {i \in 1..n : ClosedTo(page, f[i], a)}
  <1>4. 1 \in 1..n => f[1] = CloseActive(page, a) /\ ClosedTo(page, f[1], a)
    <2>1. 1 \in 1..n => f[1] = CloseActive(page, a)
      BY <1>1, <1>2, <1>3
    <2> QED BY <2>1, ActiveCloses
  <1>5. ASSUME NEW i \in 1..n, i - 1 \in S PROVE i \in S
    <2>1. CASE i = 1
      BY <1>4, <2>1
    <2>2. CASE i # 1
      <3>1. i - 1 \in 1..n /\ i - 1 \in 0..n /\ ClosedTo(page, f[i - 1], a)
        BY <1>2, <1>5, <2>2
      <3>2. f[i] = CloseActive(f[i - 1], a) \/ f[i] = f[i - 1]
        BY <1>1
      <3>3. CASE f[i] = CloseActive(f[i - 1], a)
        <4>1. ClosedTo(f[i - 1], f[i], a)
          BY <1>1, <3>1, <3>3, ActiveCloses
        <4>2. ClosedTo(page, f[i], a)
          BY <3>1, <4>1, ClosedTwice
        <4> QED BY <4>2
      <3> QED BY <3>1, <3>2, <3>3
    <2> QED BY <2>1, <2>2
  <1>6. \A i \in 0..n : i \in S
    <2>1. 0 \in S
      OBVIOUS
    <2> HIDE DEF S, n
    <2> QED BY <1>2, <1>5, <2>1, AllPlaces
  <1>7. n > 0 => ClosedTo(page, f[n], a)
    BY <1>2, <1>6
  <1> HIDE DEF n, S
  <1>8. n = 1 => f[n] = CloseActive(page, a)
    BY <1>4
  <1>9. PageHolds(f[n])
    BY <1>1, <1>2
  <1> QED BY <1>1, <1>2, <1>7, <1>8, <1>9 DEF n

(* The page is closed: what is left on it was there before or has just opened. *)
LEMMA ClosingKeepsAnswers ==
    ASSUME ModalsInv, ClosedTo(page, page', Undefined), page' \in PageRecords,
           UNCHANGED <<stranded, crossed>>
    PROVE  ModalsAnswer'
PROOF
  <1>1. ASSUME NEW m \in ToSet(page'.overlays) PROVE m \in {page'.active} \cup stranded
    <2>1. m \in Modals /\ Has(page'.overlays, m)
      BY <1>1 DEF PageRecords, ToSet, Has
    <2>2. Has(page.overlays, m) => m \in ToSet(page.overlays)
      BY DEF ModalsInv, PageHolds, PageRecords, Has, ToSet
    <2> QED BY <2>1, <2>2 DEF ClosedTo, ModalsInv, ModalsAnswer
  <1>2. ASSUME NEW m \in Modals, page'.outcome[m] = "open" PROVE m \in ToSet(page'.overlays)
    BY <1>2 DEF ClosedTo, PageHolds, PageRecords, Has, ToSet
  <1>3. ASSUME NEW m \in Modals, page'.outcome[m] \in Modals
        PROVE  m \in crossed' \cup {page'.outcome[m]}
    <2>1. page'.outcome[m] = page.outcome[m]
      BY <1>3, FramesAssumption DEF ClosedTo
    <2> QED BY <1>3, <2>1 DEF ModalsInv, ModalsAnswer
  <1> QED BY <1>1, <1>2, <1>3 DEF ModalsAnswer

(* A modal opens, after the one that is open has closed. *)
LEMMA OpenKeepsModals ==
    ASSUME ModalsInv, NEW m \in Modals, OpenModal(m)
    PROVE  ModalsInv'
PROOF
  <1> DEFINE p == ClosedFirst(page)
  <1>1. /\ p = CloseActive(page, Undefined) /\ p.outcome[m] = "new" /\ page' = Shown(p, m)
        /\ stranded' = stranded \cup
            {n \in Modals : page.active # NoModal /\ n = OpensNext[page.active] /\ n = p.active}
        /\ UNCHANGED <<post, crossed>>
    BY DEF OpenModal, ClosedFirst, eventVars
  <1>2. /\ ClosedTo(page, p, Undefined)
        /\ page.active # NoModal => p.active \in {NoModal, OpensNext[page.active]}
        /\ page.active = NoModal => p = page
    BY <1>1, ActiveCloses DEF ModalsInv, CloseActive
  <1> HIDE DEF p
  <1>3. /\ PageHolds(page') /\ page'.active = m
        /\ \A n \in Modals : Has(page'.overlays, n) <=> Has(p.overlays, n) \/ n = m
        /\ \A n \in Modals : page'.outcome[n] = IF n = m THEN "open" ELSE p.outcome[n]
    BY <1>1, <1>2, ModalShown DEF ClosedTo
  <1>4. page' \in PageRecords /\ page \in PageRecords /\ p \in PageRecords
    BY <1>2, <1>3 DEF PageHolds, ModalsInv, ClosedTo
  <1>5. ASSUME NEW n \in ToSet(page'.overlays) PROVE n \in {page'.active} \cup stranded'
    <2>0. page'.overlays \in Seq(Modals)
      BY <1>4 DEF PageRecords
    <2>1. n \in Modals /\ Has(page'.overlays, n)
      BY <1>5, <2>0 DEF ToSet, Has
    <2>2. Has(page.overlays, n) => n \in ToSet(page.overlays)
      BY <1>4 DEF PageRecords, Has, ToSet
    <2>3. Has(page.overlays, n) /\ n # page.active => n \in stranded
      BY <2>2 DEF ModalsInv, ModalsAnswer
    <2>4. n = m \/ n \in stranded \/ n = p.active
      BY <1>2, <1>3, <2>1, <2>3 DEF ClosedTo
    <2>5. CASE n = p.active /\ n \notin stranded /\ n # m
      <3>1. n # NoModal
        BY <2>1, FramesAssumption
      <3>2. page.active # NoModal
        BY <1>2, <1>3, <2>1, <2>3, <2>5, <3>1
      <3> QED BY <1>1, <1>2, <2>1, <2>5, <3>1, <3>2
    <2> QED BY <1>1, <1>3, <2>4, <2>5
  <1>6. ASSUME NEW n \in Modals, page'.outcome[n] = "open" PROVE n \in ToSet(page'.overlays)
    BY <1>3, <1>4, <1>6 DEF PageHolds, PageRecords, Has, ToSet
  <1>7. ASSUME NEW n \in Modals, page'.outcome[n] \in Modals
        PROVE  n \in crossed' \cup {page'.outcome[n]}
    <2>1. page'.outcome[n] = p.outcome[n] /\ p.outcome[n] \in Modals
      BY <1>3, <1>7, FramesAssumption
    <2>2. p.outcome[n] = page.outcome[n]
      BY <1>2, <2>1, FramesAssumption DEF ClosedTo
    <2> QED BY <1>1, <1>7, <2>1, <2>2 DEF ModalsInv, ModalsAnswer
  <1>8. ModalsAnswer'
    BY <1>5, <1>6, <1>7 DEF ModalsAnswer
  <1> QED BY <1>1, <1>3, <1>8 DEF ModalsInv

(* Escape, and a click on the overlay. *)
LEMMA DismissKeepsModals ==
    ASSUME ModalsInv, PressEscape \/ ClickOverlay
    PROVE  ModalsInv'
PROOF
  <1>1. UNCHANGED <<post, stranded, crossed>> /\ page.overlays # <<>>
    BY DEF PressEscape, ClickOverlay, eventVars
  <1>2. ClosedTo(page, page', Undefined)
    BY AllClose, ActiveCloses DEF ModalsInv, PressEscape, ClickOverlay
  <1>3. page' \in PageRecords
    BY <1>2 DEF ClosedTo, PageHolds
  <1>4. ModalsAnswer'
    BY <1>1, <1>2, <1>3, ClosingKeepsAnswers
  <1> QED BY <1>1, <1>2, <1>4 DEF ModalsInv, ClosedTo

(* The page hears of a modal's answer, whoever gave it. *)
LEMMA CloseKeepsModals ==
    ASSUME ModalsInv, post[Main] \in Seq(Letters), DeliverClose
    PROVE  ModalsInv'
PROOF
  <1> DEFINE from == Head(post[Main]).from
             p == AllListenersClose(from)
  <1>1. /\ post[Main] # <<>> /\ Head(post[Main]).what = "close" /\ page' = p
        /\ crossed' = IF page.active = from /\ stranded = {} THEN crossed
                      ELSE crossed \cup {m \in Modals : p.outcome[m] = from}
        /\ stranded' = stranded
    BY DEF DeliverClose
  <1>3. from \in Modals
    <2>1. Head(post[Main]) \in Letters
      BY <1>1, HeadTailProperties
    <2> QED BY <1>1, <2>1, FramesAssumption DEF Letters
  <1>5. /\ PageHolds(p)
        /\ page.overlays # <<>> => ClosedTo(page, p, from)
        /\ Len(page.overlays) = 1 => p = CloseActive(page, from)
    BY <1>3, AllClose DEF ModalsInv
  <1> HIDE DEF p, from
  <1>6. page \in PageRecords /\ page' \in PageRecords
    BY <1>1, <1>5 DEF ModalsInv, PageHolds
  <1>7. CASE page.overlays = <<>>
    <2>1. Len(page.overlays) = 0
      BY <1>7
    <2>2. p = page
      BY <2>1, <1>3, ListenersClose DEF ModalsInv, p
    <2>3. page.active = NoModal /\ page.active # from
      <3>1. \A m \in Modals : page.outcome[m] # "open"
        BY <2>1 DEF ModalsInv, PageHolds, Has
      <3> QED BY <1>3, <1>6, <3>1, FramesAssumption DEF ModalsInv, PageHolds, PageRecords
    <2>4. ModalsAnswer'
      BY <1>1, <2>2, <2>3 DEF ModalsInv, ModalsAnswer
    <2> QED BY <1>1, <1>5, <2>4 DEF ModalsInv
  <1>8. CASE page.overlays # <<>>
    <2>1. ClosedTo(page, page', from)
      BY <1>1, <1>5, <1>8
    <2>2. ASSUME NEW m \in ToSet(page'.overlays) PROVE m \in {page'.active} \cup stranded'
      <3>1. m \in Modals /\ Has(page'.overlays, m)
        BY <1>6, <2>2 DEF PageRecords, ToSet, Has
      <3>2. Has(page.overlays, m) => m \in ToSet(page.overlays)
        BY <1>6 DEF PageRecords, Has, ToSet
      <3> QED BY <1>1, <2>1, <3>1, <3>2 DEF ClosedTo, ModalsInv, ModalsAnswer
    <2>3. ASSUME NEW m \in Modals, page'.outcome[m] = "open" PROVE m \in ToSet(page'.overlays)
      BY <1>6, <2>1, <2>3 DEF ClosedTo, PageHolds, PageRecords, Has, ToSet
    <2>4. ASSUME NEW m \in Modals, page'.outcome[m] \in Modals
          PROVE  m \in crossed' \cup {page'.outcome[m]}
      <3>1. CASE page.outcome[m] \in Modals
        <4>1. page'.outcome[m] = page.outcome[m]
          BY <2>1, <3>1 DEF ClosedTo
        <4> QED BY <1>1, <3>1, <4>1 DEF ModalsInv, ModalsAnswer
      <3>2. CASE page.outcome[m] \notin Modals
        <4>1. page'.outcome[m] = from
          BY <2>1, <2>4, <3>2, FramesAssumption DEF ClosedTo
        <4>2. CASE page.active = from /\ stranded = {}
          <5>1. Len(page.overlays) = 1
            <6>1. ToSet(page.overlays) \subseteq {from}
              BY <4>2 DEF ModalsInv, ModalsAnswer
            <6>2. /\ Len(page.overlays) \in Nat /\ Len(page.overlays) # 0
                  /\ \A i \in 1..Len(page.overlays) : page.overlays[i] \in ToSet(page.overlays)
              BY <1>6, <1>8 DEF PageRecords, ToSet
            <6>3. \A i, j \in 1..Len(page.overlays) : i = j
              BY <6>1, <6>2 DEF ModalsInv, PageHolds
            <6>4. PICK k \in Nat : k = Len(page.overlays)
              BY <6>2
            <6>5. k > 1 => 1 \in 1..k /\ 2 \in 1..k
              OBVIOUS
            <6>6. ~(k > 1)
              BY <6>3, <6>4, <6>5
            <6>7. k # 0
              BY <6>2, <6>4
            <6>8. k = 1
              BY <6>6, <6>7
            <6> QED BY <6>4, <6>8
          <5>2. page' = CloseActive(page, from)
            BY <1>1, <1>5, <5>1
          <5>3. m = page.active \/ page'.outcome[m] \in {page.outcome[m], "open"}
            BY <1>3, <5>2, ActiveCloses DEF ModalsInv
          <5>4. m = from
            BY <1>3, <3>2, <4>1, <4>2, <5>3, FramesAssumption
          <5> QED BY <4>1, <5>4
        <4>3. CASE ~(page.active = from /\ stranded = {})
          BY <1>1, <4>1, <4>3
        <4> QED BY <4>2, <4>3
      <3> QED BY <3>1, <3>2
    <2>5. ModalsAnswer'
      BY <2>2, <2>3, <2>4 DEF ModalsAnswer
    <2> QED BY <1>1, <1>5, <2>5 DEF ModalsInv
  <1> QED BY <1>7, <1>8

(* The modals are as they should be, whatever happens. *)
LEMMA StepKeepsModals ==
    ASSUME post[Main] \in Seq(Letters), ModalsInv, [EventsNext \/ ModalsNext]_frVars
    PROVE  ModalsInv'
PROOF
  <1>1. ASSUME UNCHANGED <<page, stranded, crossed>> PROVE ModalsInv'
    BY <1>1 DEF ModalsInv, ModalsAnswer
  <1>2. CASE EventsNext
    BY <1>1, <1>2 DEF EventsNext, Subscribe, Unsubscribe, DeliverEvent, Emit, modalVars
  <1>3. CASE \E m \in Modals : OpenModal(m)
    BY <1>3, OpenKeepsModals
  <1>4. CASE \E m \in Modals : ModalSends(m)
    BY <1>1, <1>4 DEF ModalSends
  <1>5. CASE DeliverClose
    BY <1>5, CloseKeepsModals
  <1>6. CASE PressEscape \/ ClickOverlay
    BY <1>6, DismissKeepsModals
  <1>7. CASE UNCHANGED frVars
    BY <1>1, <1>7 DEF frVars
  <1> QED BY <1>2, <1>3, <1>4, <1>5, <1>6, <1>7 DEF ModalsNext

(* At the start nothing is open. *)
LEMMA NoModalsAtFirst == FramesInit => ModalsInv
PROOF
  <1> SUFFICES ASSUME FramesInit PROVE ModalsInv
    OBVIOUS
  <1>1. /\ page = [active |-> NoModal, overlays |-> <<>>, outcome |-> [m \in Modals |-> "new"]]
        /\ stranded = {} /\ crossed = {}
    BY DEF FramesInit
  <1>2. PageHolds(page) /\ ToSet(page.overlays) = {}
    BY <1>1, EmptySeq DEF PageHolds, PageRecords, ModalOutcomes, Has, ToSet
  <1>3. ModalsAnswer
    BY <1>1, <1>2, FramesAssumption DEF ModalsAnswer
  <1> QED BY <1>1, <1>2, <1>3 DEF ModalsInv

(* The page shows one modal at a time, every answer that is due has its overlay, and what a
   modal answers is its own frame's or nothing, but for what the code crosses; and every event
   reaches everyone once: for any windows, events and modals. *)
THEOREM WindowsAgree == FramesSpec => []FramesAgree
PROOF
  <1>1. EventsInv => post[Main] \in Seq(Letters)
    BY DEF EventsInv, EventsTyped, Windows
  <1>2. ModalsInv => ModalsAnswer
    BY DEF ModalsInv
  <1> QED BY <1>1, <1>2, NoModalsAtFirst, StepKeepsModals, EventsInvariant, EventsReachEveryone, PTL
          DEF FramesSpec, FramesAgree

-----------------------------------------------------------------------------
(* The runtime as a whole (Runtime) *)

(* What one part does is a step of that part and rests the others. *)
LEMMA PartsRest ==
    ASSUME RuntimeNext
    PROVE  /\ UseConsole \/ UNCHANGED captureVars
           /\ UseQueries \/ UseStorage \/ UNCHANGED vars
           /\ UseProducts \/ UNCHANGED paVars
           /\ UseTriggers \/ UNCHANGED wtVars
           /\ UseRoutes \/ UNCHANGED rtVars
           /\ UseForms \/ UNCHANGED fmVars
           /\ UseHistory \/ UNCHANGED hiVars
           /\ UseEvents \/ UseModals \/ UNCHANGED frVars
           /\ UseTexts \/ UNCHANGED trVars
           /\ UseModel \/ UNCHANGED lmVars
           /\ UseFirings \/ UNCHANGED tgVars
           /\ UseDatabase \/ UNCHANGED sqVars
PROOF
  <1>1. ASSUME UNCHANGED allVars PROVE UNCHANGED vars
    BY <1>1 DEF allVars
  <1>2. CASE UseConsole
    BY <1>1, <1>2 DEF UseConsole, NotConsole
  <1>3. CASE UseQueries
    BY <1>3 DEF UseQueries, NotStorage
  <1>4. CASE UseStorage
    BY <1>4 DEF UseStorage, NotStorage
  <1>5. CASE UseProducts
    BY <1>1, <1>5 DEF UseProducts, NotProducts
  <1>6. CASE UseTriggers
    BY <1>1, <1>6 DEF UseTriggers, NotTriggers
  <1>7. CASE UseRoutes
    BY <1>1, <1>7 DEF UseRoutes, NotRoutes
  <1>8. CASE UseEvents \/ UseModals
    BY <1>1, <1>8 DEF UseEvents, UseModals, NotFrames
  <1>9. CASE UseHistory
    BY <1>1, <1>9 DEF UseHistory, NotHistory
  <1>10. CASE UseTexts
    BY <1>1, <1>10 DEF UseTexts, NotTexts
  <1>11. CASE UseModel
    BY <1>1, <1>11 DEF UseModel, NotModel
  <1>12. CASE UseFirings
    BY <1>1, <1>12 DEF UseFirings, NotFirings
  <1>13. CASE UseForms
    BY <1>1, <1>13 DEF UseForms, NotForms
  <1>14. CASE UseDatabase
    BY <1>1, <1>14 DEF UseDatabase, NotDatabase
  <1> QED BY <1>2, <1>3, <1>4, <1>5, <1>6, <1>7, <1>8, <1>9, <1>10, <1>11, <1>12, <1>13, <1>14
       DEF RuntimeNext

(* A step of a query is one of the storage, or none of it. *)
LEMMA StorageSteps ==
  /\ UseStorage => Next
  /\ UseQueries => [Next]_vars
BY DEF UseStorage, UseQueries, QueryNext, GetMany, StoreStep

(* The runtime is each of its parts: whatever one of them promises, the runtime
   promises. *)
THEOREM RuntimeIsItsParts ==
  RuntimeSpec => /\ CaptureSpec /\ Spec /\ ProductSpec /\ TriggersSpec
                 /\ RoutingSpec /\ FormsSpec /\ HistorySpec /\ FramesSpec
                 /\ TranslationsSpec /\ LanguageModelSpec /\ FiringSpec /\ SqlSpec
PROOF
  <1>1. RuntimeInit => /\ CaptureInit /\ Init /\ ProductInit /\ TriggersInit
                       /\ RoutingInit /\ FormsInit /\ HistoryInit /\ FramesInit
                       /\ TranslationsInit /\ LanguageModelInit /\ FiringInit /\ SqlInit
    BY DEF RuntimeInit, QueryInit
  <1>2. ASSUME [RuntimeNext]_runtimeVars
        PROVE  /\ [CaptureNext]_captureVars /\ [Next]_vars /\ [ProductNext]_paVars
               /\ [TriggersNext]_wtVars /\ [RoutingNext]_rtVars /\ [FormsNext]_fmVars
               /\ [HistoryNext]_hiVars /\ [EventsNext \/ ModalsNext]_frVars
               /\ [TranslationsNext]_trVars /\ [LanguageModelNext]_lmVars /\ [FiringNext]_tgVars
               /\ [SqlNext]_sqVars
    <2>1. CASE UNCHANGED runtimeVars
      BY <2>1 DEF runtimeVars, allVars
    <2>2. CASE RuntimeNext
      BY <2>2, PartsRest, StorageSteps
         DEF UseConsole, UseProducts, UseTriggers, UseRoutes, UseForms, UseHistory,
             UseEvents, UseModals, UseTexts, UseModel, UseFirings, UseDatabase
    <2> QED BY <1>2, <2>1, <2>2
  <1> QED BY <1>1, <1>2, PTL
       DEF RuntimeSpec, CaptureSpec, Spec, ProductSpec, TriggersSpec, RoutingSpec, FormsSpec,
           HistorySpec, FramesSpec, TranslationsSpec, LanguageModelSpec, FiringSpec, SqlSpec

\* A query goes from page to page; where there is none, there are no pages.
QueriesOnly == IF service = "queries" THEN PagesInv ELSE paging = "off" /\ returned = <<>>

(* A step of the runtime is one of the query it began with, or leaves the pages alone. *)
LEMMA QueriesRest ==
    ASSUME RuntimeNext
    PROVE  /\ service' = service
           /\ service = "queries" => QueryNext
           /\ service # "queries" => UNCHANGED queryVars
PROOF
  <1>1. ASSUME UNCHANGED allVars PROVE UNCHANGED queryVars
    BY <1>1 DEF allVars
  <1>2. CASE UseQueries
    BY <1>2 DEF UseQueries, NotStorage
  <1>3. CASE UseStorage
    BY <1>3 DEF UseStorage, NotStorage
  <1>4. CASE UseConsole \/ UseProducts \/ UseTriggers \/ UseRoutes
    BY <1>1, <1>4 DEF UseConsole, NotConsole, UseProducts, NotProducts, UseTriggers, NotTriggers,
                      UseRoutes, NotRoutes
  <1>5. CASE UseEvents \/ UseModals \/ UseHistory \/ UseTexts
    BY <1>1, <1>5 DEF UseEvents, UseModals, NotFrames, UseHistory, NotHistory, UseTexts, NotTexts
  <1>6. CASE UseModel \/ UseFirings \/ UseForms \/ UseDatabase
    BY <1>1, <1>6 DEF UseModel, NotModel, UseFirings, NotFirings, UseForms, NotForms,
                      UseDatabase, NotDatabase
  <1> QED BY <1>2, <1>3, <1>4, <1>5, <1>6 DEF RuntimeNext

(* What the storage answers is so: of each call, as it ends, and of the pages of a query
   that other calls run between - for finitely many keys. *)
THEOREM StorageIsTruthful ==
    ASSUME IsFiniteSet(Keys)
    PROVE  RuntimeSpec => []StorageTellsTheTruth
PROOF
  <1>1. RuntimeInit => QueriesOnly
    <2>1. RuntimeInit => QueryInit
      BY DEF RuntimeInit
    <2>2. QueryInit => paging = "off" /\ returned = <<>>
      BY DEF QueryInit
    <2> QED BY <2>1, <2>2, NoPagesAtFirst DEF QueriesOnly
  <1>2. ASSUME QueriesOnly, [RuntimeNext]_runtimeVars PROVE QueriesOnly'
    <2>1. CASE UNCHANGED runtimeVars
      <3>1. UNCHANGED allVars /\ service' = service
        BY <2>1 DEF runtimeVars
      <3>2. paging' = paging /\ returned' = returned
        BY <3>1 DEF allVars, queryVars
      <3> QED BY <1>2, <3>1, <3>2, PagesRest DEF QueriesOnly
    <2>2. CASE RuntimeNext /\ service = "queries"
      <3>1. QueryNext /\ service' = service
        BY <2>2, QueriesRest
      <3> QED BY <1>2, <2>2, <3>1, PageKeeps, StoreKeeps DEF QueryNext, QueriesOnly
    <2>3. CASE RuntimeNext /\ service # "queries"
      <3>1. service' = service /\ paging' = paging /\ returned' = returned
        BY <2>3, QueriesRest DEF queryVars
      <3> QED BY <1>2, <2>3, <3>1 DEF QueriesOnly
    <2> QED BY <1>2, <2>1, <2>2, <2>3
  <1>3. QueriesOnly => PagesAreExact
    <2>1. PagesInv => PagesAreExact
      BY DEF PagesInv, PagesAreExact
    <2>2. returned = <<>> => Len(returned) = 0
      OBVIOUS
    <2>3. returned = <<>> => PagesAreExact
      BY <2>2 DEF PagesAreExact, PagesNeverRepeat, PagesMissNothing
    <2> QED BY <2>1, <2>3 DEF QueriesOnly
  <1>4. AnswersAreTrue /\ PagesAreExact => StorageTellsTheTruth
    BY DEF StorageTellsTheTruth
  <1> QED BY <1>1, <1>2, <1>3, <1>4, RuntimeIsItsParts, AnswersStayTrue, PTL DEF RuntimeSpec

(* So the runtime keeps what its parts promise, of those that are proved. *)
THEOREM RuntimeKeepsPromises ==
  RuntimeSpec => /\ []OneClaimWins /\ []LinesAreAccountedFor /\ []FormsAreFaithful
                 /\ []RoutesAreHonest /\ []ListenersKnowWhere /\ []AnswersAreTrue
                 /\ []FramesAgree /\ []SpeaksTheApp /\ []ConversationsHold
                 /\ []TriggersAreAnswered /\ []DatabaseHolds /\ TheRightOneAnswers /\ UrlsMeanOneHook
BY RuntimeIsItsParts, ClaimsAreExclusive, LinesAreNeverLost, FormsStayFaithful, RoutesStayHonest,
   EveryoneKnowsWhere, AnswersStayTrue, MocksAndUsersAnswer, UrlsKeepTheirHook,
   WindowsAgree, TranslationsSpeakTheApp, ConversationsAreTaken, TriggersStayAnswered,
   DatabaseIsHeld, PTL

=============================================================================
