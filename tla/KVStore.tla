------------------------------ MODULE KVStore ------------------------------
(***************************************************************************)
(* The storage of src/src/kvs.ts (UnifiedKVS): the plain, the secret and    *)
(* the entity maps behind one interface, written through single, batch,    *)
(* transaction and wire operations by calls that overlap.                  *)
(*                                                                          *)
(* The operations that begin with `await this.simulateDelay()` look at     *)
(* nothing before the delay and run to their end without another await     *)
(* after it (setMany() awaits once per item), so such a call is a Begin    *)
(* step and one step that does the work.  Reads change nothing and are     *)
(* left out, but for the queries that take a page per call (getMany()).    *)
(***************************************************************************)
EXTENDS Integers, FiniteSets, SequencesExt

CONSTANTS
    Calls,       \* one identifier per call
    Request,     \* Request[c]: what call c asks for
    Needs,       \* Needs[c]: the calls that call c's code has awaited before
    Entities,    \* entity names
    Keys,        \* keys
    ValidKeys,   \* those that validateKvsKey() accepts
    Values,      \* values
    Null,        \* the value null
    FitValues,   \* those that validateKvsValue() accepts
    Allowed,     \* Allowed[e]: the values that the schema of e accepts
    Absent,      \* "no entry"
    MaxItems,    \* 25: items of a batch, operations of a transaction
    MaxClock     \* bound: how far Date.now() advances

Spaces == {"kvs", "secret"} \cup Entities
Slots == [space : Spaces, key : Keys]

Items == [slot : Slots, value : Values, ttl : BOOLEAN]

(* What an operation of a transaction demands of the value under its key: one
   set of values per condition, joined by `or` (any) or by `and`. *)
Conditions == [slot : Slots, any : BOOLEAN, tests : Seq(SUBSET (Values \cup {Absent}))]

(* The actions of the old dev-tools transaction format. *)
Actions == [type : {"set", "delete"}, slot : Slots, value : Values]

Delayed == {"set", "delete", "setMany", "batchSet", "batchDelete", "transaction"}
Immediate == {"deleteMany", "secretSet", "secretDelete", "entitySet", "entityDelete",
              "wireSet", "wireDelete", "legacy"}

(* The operations that are given no items; "legacy" is given actions. *)
Removing == {"delete", "deleteMany", "secretDelete", "entityDelete", "wireDelete", "legacy"}

(* The spaces an operation can name. *)
Reach(op) ==
    CASE op \in {"set", "delete", "setMany", "deleteMany"} -> {"kvs"}
      [] op \in {"secretSet", "secretDelete"} -> {"secret"}
      [] op \in {"entitySet", "entityDelete"} -> Entities
      [] op \in {"batchSet", "batchDelete", "transaction", "legacy"} -> {"kvs"} \cup Entities
      [] OTHER -> Spaces

ASSUME StoreAssumption ==
    /\ \A c \in Calls :
          /\ Request[c].op \in Delayed \cup Immediate
          /\ Request[c].items \in Seq(Items)
          /\ Request[c].deletes \in SUBSET Slots
          /\ Request[c].conditions \in SUBSET Conditions
          /\ Request[c].actions \in Seq(Actions)
          /\ Request[c].ifAbsent \in BOOLEAN
          /\ \A i \in 1..Len(Request[c].items) :
                Request[c].items[i].slot.space \in Reach(Request[c].op)
          /\ \A s \in Request[c].deletes : s.space \in Reach(Request[c].op)
          /\ Request[c].op \in {"set", "secretSet", "entitySet", "wireSet"} =>
                Len(Request[c].items) = 1
          /\ Request[c].op \in {"delete", "secretDelete", "entityDelete", "wireDelete"} =>
                \E s \in Slots : Request[c].deletes = {s}
          /\ Request[c].op \in Removing => Request[c].items = <<>>
          /\ Request[c].op \notin Removing \cup {"transaction"} => Request[c].deletes = {}
          /\ Request[c].op # "legacy" => Request[c].actions = <<>>
    /\ Needs \in [Calls -> SUBSET Calls]
    /\ ValidKeys \subseteq Keys
    /\ Null \in Values
    /\ FitValues \subseteq Values
    /\ Allowed \in [Entities -> SUBSET Values]
    /\ Absent \notin [value : Values, createdAt : Nat, updatedAt : Nat, expires : BOOLEAN]
    /\ Absent \notin Values
    /\ {"kvs", "secret"} \cap Entities = {}
    /\ MaxItems \in Nat
    /\ MaxClock \in Nat

VARIABLES
    store,    \* the entry of every slot: store, secrets and entities
    schemas,  \* the entities with a registered schema
    clock,    \* Date.now()
    at,       \* how far each call is
    next,     \* the item a setMany() is at
    failed,   \* the slots named in the failedKeys a batch answered
    wiped     \* history: the calls that were answered, or a setMany() that had
              \* set something, before the last clear()

vars == <<store, schemas, clock, at, next, failed, wiped>>

Entries == [value : Values, createdAt : Nat, updatedAt : Nat, expires : BOOLEAN]
Progress == {"idle", "delayed", "ok", "rejected"}

TypeOK ==
    /\ store \in [Slots -> Entries \cup {Absent}]
    /\ schemas \subseteq Entities
    /\ clock \in Nat
    /\ at \in [Calls -> Progress]
    /\ next \in [Calls -> Nat \ {0}]
    /\ failed \in [Calls -> SUBSET Slots]
    /\ wiped \subseteq Calls

Init ==
    /\ store = [s \in Slots |-> Absent]
    /\ schemas \in SUBSET Entities
    /\ clock = 0
    /\ at = [c \in Calls |-> "idle"]
    /\ next = [c \in Calls |-> 1]
    /\ failed = [c \in Calls |-> {}]
    /\ wiped = {}

-----------------------------------------------------------------------------
(* Validation.                                                              *)

ItemsOf == [c \in Calls |-> {Request[c].items[i] : i \in 1..Len(Request[c].items)}]
SlotsOf(S) == {x.slot : x \in S}

Declared(space) == space \in {"kvs", "secret"} \/ schemas = {} \/ space \in schemas

MeetsSchema(item) == item.slot.space \in schemas => item.value \in Allowed[item.slot.space]

(* What set(), entitySet() and every item of a batchSet() must satisfy. *)
Storable(item) ==
    /\ item.slot.key \in ValidKeys
    /\ item.value # Null
    /\ item.value \in FitValues
    /\ Declared(item.slot.space)
    /\ MeetsSchema(item)

(* The whole-batch rules: not empty, not too long, no slot twice. *)
ValidBatch(slots) ==
    /\ slots # <<>>
    /\ Len(slots) <= MaxItems
    /\ \A i, j \in 1..Len(slots) : slots[i] = slots[j] => i = j

-----------------------------------------------------------------------------
(* Writing.                                                                 *)

(* The new entry of a slot.  Batches, transactions and the wire take a
   ttl and keep an expireTime that was there; set(), entitySet() and
   setSecret() know no ttl and drop the expireTime. *)
Entry(item, hasTtl) ==
    LET old == store[item.slot]
    IN  [value     |-> item.value,
         createdAt |-> IF old # Absent THEN old.createdAt ELSE clock,
         updatedAt |-> clock,
         expires   |-> hasTtl /\ (item.ttl \/ (old # Absent /\ old.expires))]

Put(items, hasTtl) ==
    LET slots == SlotsOf(items)
    IN  store' = [s \in Slots |->
                    IF s \in slots
                    THEN Entry(CHOOSE x \in items : x.slot = s, hasTtl)
                    ELSE store[s]]

Erase(slots) == store' = [s \in Slots |-> IF s \in slots THEN Absent ELSE store[s]]

-----------------------------------------------------------------------------
(* Calls.                                                                   *)

(* The calls that are under way, or that the code may make by now. *)
Pending ==
    {c \in Calls : at[c] \in {"idle", "delayed"} /\ \A d \in Needs[c] : at[d] = "ok"}

Answer(c, result) ==
    /\ at' = [at EXCEPT ![c] = result]
    /\ UNCHANGED <<schemas, clock, wiped>>

Reject(c) == Answer(c, "rejected") /\ UNCHANGED <<store, next, failed>>

(* The call is made and waits out its delay. *)
Begin(c) ==
    /\ at[c] = "idle"
    /\ Request[c].op \in Delayed
    /\ at' = [at EXCEPT ![c] = "delayed"]
    /\ UNCHANGED <<store, schemas, clock, next, failed, wiped>>

After(c, op) == at[c] = "delayed" /\ Request[c].op = op
Now(c, op) == at[c] = "idle" /\ Request[c].op = op

Set(c) ==
    /\ After(c, "set")
    /\ LET item == Request[c].items[1]
       IN  \/ ~Storable(item) /\ Reject(c)
           \/ /\ Storable(item)
              /\ Put({item}, FALSE)
              /\ Answer(c, "ok")
              /\ UNCHANGED <<next, failed>>

(* delete() validates nothing and finds nothing wrong with an absent key. *)
Delete(c) ==
    /\ After(c, "delete")
    /\ Erase(Request[c].deletes)
    /\ Answer(c, "ok")
    /\ UNCHANGED <<next, failed>>

(* One turn of the loop of setMany(): what was set before a failure stays. *)
SetMany(c) ==
    /\ After(c, "setMany")
    /\ LET items == Request[c].items
       IN  \/ next[c] > Len(items) /\ Answer(c, "ok") /\ UNCHANGED <<store, next, failed>>
           \/ /\ next[c] <= Len(items)
              /\ ~Storable(items[next[c]])
              /\ Reject(c)
           \/ /\ next[c] <= Len(items)
              /\ Storable(items[next[c]])
              /\ Put({items[next[c]]}, FALSE)
              /\ next' = [next EXCEPT ![c] = @ + 1]
              /\ UNCHANGED <<schemas, clock, at, failed, wiped>>

DeleteMany(c) ==
    /\ Now(c, "deleteMany")
    /\ Erase(Request[c].deletes)
    /\ Answer(c, "ok")
    /\ UNCHANGED <<next, failed>>

(* setSecret() stores whatever it is given. *)
SecretSet(c) ==
    /\ Now(c, "secretSet")
    /\ Put({Request[c].items[1]}, FALSE)
    /\ Answer(c, "ok")
    /\ UNCHANGED <<next, failed>>

SecretDelete(c) ==
    /\ Now(c, "secretDelete")
    /\ Erase(Request[c].deletes)
    /\ Answer(c, "ok")
    /\ UNCHANGED <<next, failed>>

EntitySet(c) ==
    /\ Now(c, "entitySet")
    /\ LET item == Request[c].items[1]
       IN  \/ ~Storable(item) /\ Reject(c)
           \/ /\ Storable(item)
              /\ Put({item}, FALSE)
              /\ Answer(c, "ok")
              /\ UNCHANGED <<next, failed>>

EntityDelete(c) ==
    /\ Now(c, "entityDelete")
    /\ \/ (\E s \in Request[c].deletes : ~Declared(s.space)) /\ Reject(c)
       \/ /\ \A s \in Request[c].deletes : Declared(s.space)
          /\ Erase(Request[c].deletes)
          /\ Answer(c, "ok")
          /\ UNCHANGED <<next, failed>>

-----------------------------------------------------------------------------
(* Batches.                                                                 *)

ItemSlots(c) == [i \in 1..Len(Request[c].items) |-> Request[c].items[i].slot]

(* Invalid items are named in failedKeys, the others are stored. *)
BatchSet(c) ==
    /\ After(c, "batchSet")
    /\ \/ ~ValidBatch(ItemSlots(c)) /\ Reject(c)
       \/ /\ ValidBatch(ItemSlots(c))
          /\ Put({x \in ItemsOf[c] : Storable(x)}, TRUE)
          /\ failed' = [failed EXCEPT ![c] = SlotsOf({x \in ItemsOf[c] : ~Storable(x)})]
          /\ Answer(c, "ok")
          /\ UNCHANGED next

BatchDelete(c) ==
    /\ After(c, "batchDelete")
    /\ \/ ~ValidBatch(ItemSlots(c)) /\ Reject(c)
       \/ /\ ValidBatch(ItemSlots(c))
          /\ Erase({s \in SlotsOf(ItemsOf[c]) : s.key \in ValidKeys})
          /\ failed' = [failed EXCEPT ![c] = {s \in SlotsOf(ItemsOf[c]) : s.key \notin ValidKeys}]
          /\ Answer(c, "ok")
          /\ UNCHANGED next

-----------------------------------------------------------------------------
(* executeTransaction().                                                    *)

ValueAt(s) == IF store[s] = Absent THEN Absent ELSE store[s].value

Met(condition) ==
    LET Holds(i) == ValueAt(condition.slot) \in condition.tests[i]
    IN  \/ condition.tests = <<>>
        \/ condition.any /\ \E i \in 1..Len(condition.tests) : Holds(i)
        \/ ~condition.any /\ \A i \in 1..Len(condition.tests) : Holds(i)

(* Operations are set, delete and check; the last are conditions on slots that
   are neither set nor deleted. *)
Checked(c) == SlotsOf(Request[c].conditions) \ (SlotsOf(ItemsOf[c]) \cup Request[c].deletes)

Operations(c) ==
    Len(Request[c].items) + Cardinality(Request[c].deletes) + Cardinality(Checked(c))

(* The limits, the duplicate-key rule (which looks at the key alone, whatever
   the entity), and the checks that need no condition.  Unlike Storable(), they
   leave the key and the size of a value alone. *)
ValidTransaction(c) ==
    LET touched == SlotsOf(ItemsOf[c]) \cup Request[c].deletes \cup Checked(c)
    IN  /\ Operations(c) <= MaxItems
        /\ \A s, t \in touched : s.key = t.key => s = t
        /\ \A i, j \in 1..Len(Request[c].items) :
              Request[c].items[i].slot = Request[c].items[j].slot => i = j
        /\ SlotsOf(ItemsOf[c]) \cap Request[c].deletes = {}
        /\ \A s \in touched : Declared(s.space)
        /\ \A x \in ItemsOf[c] : x.value # Null /\ MeetsSchema(x)

Commit(c) ==
    store' = [s \in Slots |->
                IF s \in Request[c].deletes THEN Absent
                ELSE IF s \in SlotsOf(ItemsOf[c])
                THEN Entry(CHOOSE x \in ItemsOf[c] : x.slot = s, TRUE)
                ELSE store[s]]

(* Mutant: the conditions of checks alone are looked at. *)
TransactionChecksOnly(c) ==
    /\ After(c, "transaction")
    /\ LET checks == {q \in Request[c].conditions : q.slot \in Checked(c)}
       IN  \/ (~ValidTransaction(c) \/ \E q \in checks : ~Met(q)) /\ Reject(c)
           \/ /\ ValidTransaction(c)
              /\ \A q \in checks : Met(q)
              /\ Commit(c)
              /\ Answer(c, "ok")
              /\ UNCHANGED <<next, failed>>

(* Mutant: each operation is applied as its own condition is found to hold. *)
TransactionItemByItem(c) ==
    /\ After(c, "transaction")
    /\ LET bad == {q \in Request[c].conditions : ~Met(q)}
       IN  \/ ~ValidTransaction(c) /\ Reject(c)
           \/ /\ ValidTransaction(c)
              /\ Put({x \in ItemsOf[c] : x.slot \notin SlotsOf(bad)}, TRUE)
              /\ Answer(c, IF bad = {} THEN "ok" ELSE "rejected")
              /\ UNCHANGED <<next, failed>>

Transaction(c) ==
    /\ After(c, "transaction")
    /\ LET valid == ValidTransaction(c) /\ \A q \in Request[c].conditions : Met(q)
       IN  \/ ~valid /\ Reject(c)
           \/ /\ valid
              /\ Commit(c)
              /\ Answer(c, "ok")
              /\ UNCHANGED <<next, failed>>

-----------------------------------------------------------------------------
(* handleRequest(): what the wire does in its own way.                      *)

(* Set under keyPolicy FAIL_IF_EXISTS (ifAbsent); no key or size is looked at. *)
WireSet(c) ==
    /\ Now(c, "wireSet")
    /\ LET item == Request[c].items[1]
           refused == \/ ~Declared(item.slot.space)
                      \/ ~MeetsSchema(item)
                      \/ Request[c].ifAbsent /\ store[item.slot] # Absent
       IN  \/ refused /\ Reject(c)
           \/ /\ ~refused
              /\ Put({item}, TRUE)
              /\ Answer(c, "ok")
              /\ UNCHANGED <<next, failed>>

(* Deleting what is not there is an error on the wire. *)
WireDelete(c) ==
    /\ Now(c, "wireDelete")
    /\ LET refused == \E s \in Request[c].deletes : ~Declared(s.space) \/ store[s] = Absent
       IN  \/ refused /\ Reject(c)
           \/ /\ ~refused
              /\ Erase(Request[c].deletes)
              /\ Answer(c, "ok")
              /\ UNCHANGED <<next, failed>>

(* The old dev-tools format: actions one after the other, nothing validated.
   The last action on a slot decides; a delete before it makes the entry new. *)
Legacy(c) ==
    /\ Now(c, "legacy")
    /\ LET actions == Request[c].actions
           On(s) == {i \in 1..Len(actions) : actions[i].slot = s}
           LastOn(s) == CHOOSE i \in On(s) : \A j \in On(s) : j <= i
           Renewed(s) == store[s] = Absent \/ \E i \in On(s) : actions[i].type = "delete"
       IN  store' = [s \in Slots |->
                CASE On(s) = {} -> store[s]
                  [] On(s) # {} /\ actions[LastOn(s)].type = "delete" -> Absent
                  [] OTHER -> [value     |-> actions[LastOn(s)].value,
                               createdAt |-> IF Renewed(s) THEN clock ELSE store[s].createdAt,
                               updatedAt |-> clock,
                               expires   |-> FALSE]]
    /\ Answer(c, "ok")
    /\ UNCHANGED <<next, failed>>

-----------------------------------------------------------------------------
(* The rest.                                                                *)

RegisterSchema(e) ==
    /\ schemas' = schemas \cup {e}
    /\ UNCHANGED <<store, clock, at, next, failed, wiped>>

Wipe ==
    /\ store' = [s \in Slots |-> Absent]
    /\ wiped' = {c \in Calls : at[c] = "ok" \/ next[c] > 1}
    /\ UNCHANGED <<clock, at, next, failed>>

Clear == Wipe /\ UNCHANGED schemas

ClearAll == Wipe /\ schemas' = {}

Tick ==
    /\ clock < MaxClock
    /\ clock' = clock + 1
    /\ UNCHANGED <<store, schemas, at, next, failed, wiped>>

-----------------------------------------------------------------------------

Work(c) ==
    \/ Set(c) \/ Delete(c) \/ SetMany(c) \/ DeleteMany(c)
    \/ SecretSet(c) \/ SecretDelete(c) \/ EntitySet(c) \/ EntityDelete(c)
    \/ BatchSet(c) \/ BatchDelete(c) \/ Transaction(c)
    \/ WireSet(c) \/ WireDelete(c) \/ Legacy(c)

Next ==
    \/ \E c \in Pending : Begin(c) \/ Work(c)
    \/ \E e \in Entities : RegisterSchema(e)
    \/ Clear \/ ClearAll \/ Tick

Spec == Init /\ [][Next]_vars

-----------------------------------------------------------------------------
(* Properties.                                                              *)

(* Everything call c may write or remove. *)
Targets ==
    [c \in Calls |->
        SlotsOf(ItemsOf[c]) \cup Request[c].deletes
            \cup {Request[c].actions[i].slot : i \in 1..Len(Request[c].actions)}]

MayRemove ==
    [c \in Calls |->
        Request[c].deletes
            \cup {s \in SlotsOf(ItemsOf[c]) : Request[c].op = "batchDelete"}
            \cup {Request[c].actions[i].slot :
                    i \in {h \in 1..Len(Request[c].actions) : Request[c].actions[h].type = "delete"}}]

(* Answered with success, with nothing of it forgotten by a clear() since. *)
Stands(c) == at[c] = "ok" /\ c \notin wiped

(* The slots that a call takes only if it finds them empty: a transaction that
   sets a slot on the condition that it has no value, or a wire set that fails
   if the key exists. *)
Claims ==
    [c \in Calls |->
        {s \in SlotsOf(ItemsOf[c]) :
            \/ /\ Request[c].op = "transaction"
               /\ \E q \in Request[c].conditions :
                     /\ q.slot = s
                     /\ ~q.any
                     /\ \E i \in 1..Len(q.tests) : q.tests[i] = {Absent}
            \/ Request[c].op = "wireSet" /\ Request[c].ifAbsent}]

(* A lock taken through the store is exclusive: of two calls that claim one
   empty slot, however their delays overlap, only one succeeds, unless a call
   that removes the slot has succeeded too.  The conditions of a transaction are
   about the state it writes to. *)
OneClaimWins ==
    \A a, b \in {c \in Calls : Stands(c)} :
        a # b =>
            \A s \in Claims[a] \cap Claims[b] :
                \E d \in Calls : Stands(d) /\ s \in MayRemove[d]

(* What a call answers is what the store holds, as long as no other call aims
   at the slot: "any failed condition rejects the whole transaction with nothing
   applied" and a rejected batch or set leaves no trace; of an answered one
   exactly the items that failedKeys does not name are there.  setMany(), which
   has no answer for half its items, is left out when it is rejected. *)
AnswersAreTrue ==
    \A c \in {d \in Calls : at[d] = "rejected" \/ Stands(d)} : \A x \in ItemsOf[c] :
        (\A d \in Calls \ {c} : at[d] = "idle" \/ x.slot \notin Targets[d]) =>
            /\ at[c] = "rejected" /\ Request[c].op # "setMany" => store[x.slot] = Absent
            /\ at[c] = "ok" /\ Request[c].op # "batchDelete" =>
                  IF x.slot \in failed[c] THEN store[x.slot] = Absent
                  ELSE /\ store[x.slot] # Absent
                       /\ \E y \in ItemsOf[c] : y.slot = x.slot /\ y.value = store[x.slot].value

(* createdAt is when the entry came to be, on every write path: an entry that
   is updated keeps it, unless the old wire format deleted it first. *)
CreatedAtIsKept ==
    [][\A s \in Slots :
          \/ store[s] = Absent
          \/ store'[s] = Absent
          \/ store'[s].createdAt = store[s].createdAt
          \/ \E c \in Calls : /\ at[c] # at'[c]
                              /\ Request[c].op = "legacy"
                              /\ s \in MayRemove[c]]_vars

-----------------------------------------------------------------------------
(* Paged queries, while other calls write: KVSQueryBuilder's and            *)
(* EntityQueryBuilder's getMany(), and the query endpoints of               *)
(* handleRequest().  A query takes one page per call, each in one           *)
(* synchronous stretch; between two pages any call may write.  The cursor   *)
(* is the position of the last row of the page.                             *)

CONSTANTS
    Space,       \* what is queried: "kvs", "secret" or an entity
    Filtered,    \* the values that pass the filters
    Scoped,      \* the values within the partition and range of the index
    Indexed,     \* the index declares a range attribute
    RangeOf,     \* RangeOf[v]: the value of that attribute, or NoRange
    NoRange,     \* the attribute is missing from the value
    KeyRank,     \* KeyRank[k]: where key k sorts
    Descending,  \* sort('DESC')
    Limit        \* the page size

NoCursor == [k |-> "none"]

ASSUME QueryAssumption ==
    /\ Space \in Spaces
    /\ Filtered \subseteq Values
    /\ Scoped \subseteq Values
    /\ Indexed \in BOOLEAN
    /\ RangeOf \in [Values -> Nat \cup {NoRange}]
    /\ NoRange \notin Nat
    /\ KeyRank \in [Keys -> Nat]
    /\ \A k, l \in Keys : KeyRank[k] = KeyRank[l] => k = l
    /\ Descending \in BOOLEAN
    /\ Limit \in Nat \ {0}

VARIABLES
    paging,    \* "off", or "on" from the first page to the last one
    cursor,    \* the cursor the last page returned
    returned,  \* the keys of all pages so far
    atStart,   \* history: the rows that were there when the first page was read
    touched    \* history: the keys written since then, or all if the schema changed or a
               \* page was cut from a mixture

queryVars == <<paging, cursor, returned, atStart, touched>>
allVars == <<vars, queryVars>>

QueryInit ==
    /\ Init
    /\ paging = "off"
    /\ cursor = NoCursor
    /\ returned = <<>>
    /\ atStart = {}
    /\ touched = {}

-----------------------------------------------------------------------------
(* The order of rows.                                                       *)

SlotOf(k) == [space |-> Space, key |-> k]
Present(k) == store[SlotOf(k)] # Absent

(* The definition of the index is found only if the entity has a schema. *)
HasIndex == Space \in schemas
ByRange == HasIndex /\ Indexed

Rows ==
    {k \in Keys :
        /\ Present(k)
        /\ store[SlotOf(k)].value \in Filtered
        /\ HasIndex => store[SlotOf(k)].value \in Scoped}

SortValue(k) == IF ByRange THEN RangeOf[store[SlotOf(k)].value] ELSE KeyRank[k]

(* compareValues(): a missing value is neither smaller nor greater. *)
Compare(a, b) ==
    IF a = NoRange \/ b = NoRange THEN 0
    ELSE CASE a < b -> -1 [] a > b -> 1 [] OTHER -> 0

(* Mutant: rows with the same range value are not told apart. *)
PositionByValue(a, k, b, l) == IF Descending THEN -Compare(a, b) ELSE Compare(a, b)

(* How the position (a, k) sorts against (b, l): the range value first, then
   the key; sort('DESC') turns both around. *)
Position(a, k, b, l) ==
    LET cmp == IF Compare(a, b) = 0 THEN Compare(KeyRank[k], KeyRank[l]) ELSE Compare(a, b)
    IN  IF Descending THEN -cmp ELSE cmp

(* The cursor holds a sort value only if there is a range attribute. *)
CursorValue(k) == IF ByRange THEN SortValue(k) ELSE NoRange

RowCompare(k, l) == Position(SortValue(k), k, SortValue(l), l)

(* Some rows have the range attribute and others lack it.  A row without it is
   put among the others by its key alone, and they by their values: the order
   can then run in a circle. *)
IsMixture ==
    ByRange /\ \E k, l \in Rows : SortValue(k) = NoRange /\ SortValue(l) # NoRange

(* What sort() may return: every neighbour in order, which is one sequence.  Of a
   comparison that is no order JavaScript leaves the result to the engine. *)
Sortings(S) ==
    {q \in SetToSeqs(S) :
        IsMixture \/ \A i \in 1..Len(q) - 1 : RowCompare(q[i], q[i + 1]) <= 0}

-----------------------------------------------------------------------------
(* getMany().                                                               *)

(* filter(): the keys of a sequence that are in a set. *)
KeysIn(q, S) ==
    LET found[i \in 0..Len(q)] ==
          IF i = 0 THEN <<>>
          ELSE IF q[i] \in S THEN Append(found[i - 1], q[i]) ELSE found[i - 1]
    IN  found[Len(q)]

(* The keys that sort after the cursor. *)
BeyondCursor ==
    LET s == IF ByRange THEN cursor.s ELSE KeyRank[cursor.k]
    IN  {k \in Rows : Position(SortValue(k), k, s, cursor.k) > 0}

(* The rows of a sorted query that are beyond the cursor. *)
Beyond(q) == IF cursor = NoCursor THEN q ELSE KeysIn(q, BeyondCursor)

(* The first `Limit` rows, and a cursor if there are more. *)
Page(q) ==
    LET rest == Beyond(q)
        page == SubSeq(rest, 1, IF Len(rest) < Limit THEN Len(rest) ELSE Limit)
        hasMore == Len(rest) > Limit
    IN  /\ returned' = (IF paging = "on" THEN returned ELSE <<>>) \o page
        /\ cursor' = IF hasMore THEN [k |-> Last(page), s |-> CursorValue(Last(page))] ELSE NoCursor
        /\ paging' = IF hasMore THEN "on" ELSE "off"

(* An undeclared entity is refused. *)
GetMany ==
    /\ paging = "on" \/ returned = <<>>
    /\ Declared(Space)
    /\ \E q \in Sortings(Rows) : Page(q)
    /\ atStart' = IF paging = "on" THEN atStart ELSE Rows
    /\ touched' = CASE IsMixture -> Keys
                   [] ~IsMixture /\ paging = "on" -> touched
                   [] OTHER -> {}
    /\ UNCHANGED vars

(* Any step of the store, between two pages. *)
StoreStep ==
    /\ Next
    /\ touched' = IF HasIndex # (Space \in schemas') THEN Keys
                  ELSE touched \cup {k \in Keys : store'[SlotOf(k)] # store[SlotOf(k)]}
    /\ UNCHANGED <<paging, cursor, returned, atStart>>

QueryNext == GetMany \/ StoreStep

QuerySpec == QueryInit /\ [][QueryNext]_allVars

-----------------------------------------------------------------------------
(* What the pages promise.                                                  *)

(* A row that nobody writes to is returned once, whatever is written or
   deleted around it, the cursor's own row included. *)
PagesNeverRepeat ==
    \A i, j \in 1..Len(returned) : i # j /\ returned[i] = returned[j] => returned[i] \in touched

(* "Deleted cursor rows resume correctly": a row that is there from the first
   page to the last one, and is not written to, is on one of the pages. *)
PagesMissNothing ==
    paging = "off" /\ returned # <<>> => atStart \ touched \subseteq Range(returned)

(* All pages together are what a reader expects: each row that nobody writes to
   meanwhile, once - unless one of the pages was cut from rows of which only some
   have the range attribute of the index. *)
PagesAreExact == PagesNeverRepeat /\ PagesMissNothing

(* What the storage answers is so: of each call, as it ends, and of the pages
   of a query that other calls run between. *)
StorageTellsTheTruth == AnswersAreTrue /\ PagesAreExact

=============================================================================
