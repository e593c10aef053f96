------------------------------ MODULE Realtime ------------------------------
(***************************************************************************)
(* Realtime channels: SimulatedRealtime (src/realtime.ts) and the identity *)
(* of a channel (src/realtime-channel-key.ts).                             *)
(*                                                                         *)
(* Nothing here awaits, yet nothing here is atomic either: publish calls   *)
(* the subscribers one by one, and a subscriber may subscribe, unsubscribe,*)
(* publish or reset before it returns.  `stack` holds the calls in         *)
(* progress; only the innermost one moves.                                 *)
(***************************************************************************)
EXTENDS Integers, Sequences, FiniteSets

CONSTANTS Publications,       \* calls of publish and its variants
          PublishRequests,    \* call -> what it may ask
          Subscriptions,      \* calls of subscribe and subscribeGlobal
          SubscribeRequests,  \* call -> what it may ask
          Callbacks,          \* the functions that subscribers pass
          Tokens,             \* realtime tokens an app may sign
          TokenBody,          \* token -> [channel, claims, permissions]
          ProductContexts,    \* PRODUCT_CONTEXTS
          TokenLife,          \* time a token is good for (an hour)
          MaxTime             \* bound: how far the clock runs

VARIABLES subscribers,    \* Map: key -> index of its Set of callbacks
          sets,           \* every Set ever made: its entries, in order
          eventLog,       \* publications logged, with key and time
          exp,            \* token -> expiry, 0 until it is signed
          now,            \* the clock
          stack,          \* calls in progress, the innermost last
          pubState,       \* call of publish -> what became of it
          subState,       \* call of subscribe -> what became of it
          heard           \* history: callback, publication -> times called live

rtVars == <<subscribers, sets, eventLog, exp, now, stack, pubState, subState, heard>>

\* What a call asks: a subscriber passes its callback, a module has a key, and a place
\* says which product contexts it has.
ASSUME RealtimeAssumption ==
  /\ IsFiniteSet(Subscriptions)
  /\ \A p \in Publications : \A r \in PublishRequests[p] :
       /\ r.api \in {"publish", "publishGlobal", "publishFromBridge", "publishGlobalFromBridge"}
       /\ r.overrides.kind \in {"none", "array", "other"} /\ r.module # ""
       /\ r.place = [n \in DOMAIN r.place |-> r.place[n]]
  /\ \A s \in Subscriptions : \A r \in SubscribeRequests[s] :
       /\ r.api \in {"subscribe", "subscribeGlobal"} /\ r.callback \in Callbacks
       /\ r.overrides.kind \in {"none", "array", "other"} /\ r.module # ""
       /\ r.place = [n \in DOMAIN r.place |-> r.place[n]]

NoClaims == "no token"
NoModule == "no module"
NotASet  == 0
Last(s)  == s[Len(s)]

-----------------------------------------------------------------------------
(* The identity of a channel *)

\* overrides: kind "none" (undefined), "array" or "other" (not an array)
InvalidContextOverrides(o) ==
  \/ o.kind = "other"
  \/ o.kind = "array" /\ ~(o.names \subseteq ProductContexts)

IsGlobalByEmptyOverrides(o) == o.kind = "array" /\ o.names = {}

\* A place is what the extension says: product context -> id, where it has one.
ProductContextIds(place) == {<<n, place[n]>> : n \in DOMAIN place}

OverridesSegment(names, place) ==
  {<<n, IF n \in DOMAIN place THEN place[n] ELSE "">> : n \in names}

GlobalChannelKey(channel, claims) ==
  [plane |-> "global", module |-> "", context |-> {}, claims |-> claims,
   channel |-> channel]

\* Overrides replace the module; without them the place goes with it.
ScopedChannelKey(module, channel, o, claims, place) ==
  IF o.kind = "array" /\ o.names # {}
  THEN [plane |-> "scoped", module |-> "",
        context |-> OverridesSegment(o.names, place), claims |-> claims,
        channel |-> channel]
  ELSE [plane |-> "scoped", module |-> module,
        context |-> ProductContextIds(place), claims |-> claims,
        channel |-> channel]

NoKey == [plane |-> "none", module |-> "", context |-> {}, claims |-> NoClaims,
          channel |-> ""]

\* Mutant: a scoped call without a module widens to the global plane.
WideningKeyFor(module, channel, o, claims, place) ==
  IF IsGlobalByEmptyOverrides(o) \/ (module = NoModule /\ o.kind = "none")
  THEN GlobalChannelKey(channel, claims)
  ELSE ScopedChannelKey(module, channel, o, claims, place)

ChannelKeyFor(module, channel, o, claims, place) ==
  IF IsGlobalByEmptyOverrides(o) THEN GlobalChannelKey(channel, claims)
  ELSE IF module = NoModule /\ o.kind = "none" THEN NoKey
  ELSE ScopedChannelKey(module, channel, o, claims, place)

-----------------------------------------------------------------------------
(* Tokens *)

\* parseRealtimeToken fails on what was never signed.
ValidToken(t, channel, operation) ==
  /\ t \in Tokens
  /\ exp[t] > now
  /\ TokenBody[t].channel = channel
  /\ operation \in TokenBody[t].permissions

ClaimsOf(t) == IF t \in Tokens THEN TokenBody[t].claims ELSE NoClaims

Prevalidated(r, operation) ==
  /\ ~InvalidContextOverrides(r.overrides)
  /\ r.token = "none" \/ ValidToken(r.token, r.channel, operation)

\* publishGlobal never looks at overrides; its bridge variant validates them.
PublishAllowed(r) ==
  CASE r.api = "publish" ->
         Prevalidated(r, "publish") /\ r.kind = "resolver" /\ r.module # NoModule
    [] r.api = "publishGlobal" ->
         r.token = "none" \/ ValidToken(r.token, r.channel, "publish")
    [] r.api = "publishFromBridge" ->
         Prevalidated(r, "publish")
         /\ ChannelKeyFor(r.module, r.channel, r.overrides, NoClaims, r.place) # NoKey
    [] r.api = "publishGlobalFromBridge" -> Prevalidated(r, "publish")

PublishKey(r) ==
  IF r.api \in {"publish", "publishFromBridge"}
  THEN ChannelKeyFor(r.module, r.channel, r.overrides, ClaimsOf(r.token), r.place)
  ELSE GlobalChannelKey(r.channel, ClaimsOf(r.token))

SubscribeKey(r) ==
  IF r.api = "subscribe"
  THEN ChannelKeyFor(r.module, r.channel, r.overrides, ClaimsOf(r.token), r.place)
  ELSE GlobalChannelKey(r.channel, ClaimsOf(r.token))

SubscribeAllowed(r) == Prevalidated(r, "subscribe") /\ SubscribeKey(r) # NoKey

-----------------------------------------------------------------------------
(* Sets of callbacks, as a JavaScript Set iterates them: in the order of    *)
(* insertion, an entry deleted before its turn is skipped, one added during *)
(* the iteration is visited.                                                *)

Holds(set, c) == \E n \in DOMAIN set : set[n].live /\ set[n].cb = c

\* Mutant: a callback joins as often as it subscribes.
AppendingAdd(set, c) == Append(set, [cb |-> c, live |-> TRUE])

AddTo(set, c) ==
  IF Holds(set, c) THEN set ELSE Append(set, [cb |-> c, live |-> TRUE])

\* Mutant: the callbacks are an array, and deleting one closes the gap.
SplicingDelete(set, c) ==
  LET Other(e) == e.cb # c IN SelectSeq(set, Other)

DeleteFrom(set, c) ==
  [n \in DOMAIN set |-> IF set[n].cb = c THEN [set[n] EXCEPT !.live = FALSE]
                                         ELSE set[n]]

Members(set) == {set[n].cb : n \in {m \in DOMAIN set : set[m].live}}

SetAt(key) == IF key \in DOMAIN subscribers THEN subscribers[key] ELSE NotASet

-----------------------------------------------------------------------------
(* Calls.  App code runs when no call is in progress or inside a callback.  *)

AppRuns == stack # <<>> => Last(stack).running

Push(frame) == Append(stack, frame)
SetTop(frame) == [stack EXCEPT ![Len(stack)] = frame]
Pop == SubSeq(stack, 1, Len(stack) - 1)

PublishRefused(p) ==
  /\ AppRuns /\ pubState[p].at = "new"
  /\ \E r \in PublishRequests[p] :
       /\ ~PublishAllowed(r)
       /\ pubState' = [pubState EXCEPT ![p] = [at |-> "refused"]]
  /\ UNCHANGED <<subscribers, sets, eventLog, exp, now, stack, subState,
                 heard>>

\* publishToChannel up to its loop: the log first, then the deliveries.
Publish(p) ==
  /\ AppRuns /\ pubState[p].at = "new"
  /\ \E r \in PublishRequests[p] :
       LET set == SetAt(PublishKey(r)) IN
       /\ PublishAllowed(r)
       /\ pubState' = [pubState EXCEPT ![p] =
            [at |-> "delivering", req |-> r, set |-> set,
             eventId |-> set # NotASet /\ Members(sets[set]) # {}]]
       /\ eventLog' = Append(eventLog, [pub |-> p, key |-> PublishKey(r), time |-> now])
       /\ stack' = Push([call |-> "publish", pub |-> p, set |-> set, next |-> 1,
                         rest |-> <<>>, cb |-> "none", running |-> FALSE])
  /\ UNCHANGED <<subscribers, sets, exp, now, subState, heard>>

\* The next entry the iterator yields, or none.
NextEntry(set, from) ==
  {n \in from..Len(set) : set[n].live /\ \A m \in from..n - 1 : ~set[m].live}

\* The loop of publishToChannel calls the next subscriber.
Deliver ==
  /\ stack # <<>> /\ Last(stack).call = "publish" /\ ~Last(stack).running
  /\ LET f == Last(stack) IN
       /\ f.set # NotASet
       /\ \E n \in NextEntry(sets[f.set], f.next) :
            /\ stack' = SetTop([f EXCEPT !.next = n + 1, !.running = TRUE,
                                         !.cb = sets[f.set][n].cb])
            /\ heard' = [heard EXCEPT ![sets[f.set][n].cb][f.pub] = @ + 1]
  /\ UNCHANGED <<subscribers, sets, eventLog, exp, now, pubState, subState>>

\* After the subscribers the external listeners, then publish returns.  The only such
\* listener is the dev server's, which sends on to the browsers and calls nothing here.
PublishReturns ==
  /\ stack # <<>> /\ Last(stack).call = "publish" /\ ~Last(stack).running
  /\ LET f == Last(stack) IN
       /\ f.set # NotASet => NextEntry(sets[f.set], f.next) = {}
       /\ pubState' = [pubState EXCEPT ![f.pub].at = "returned"]
  /\ stack' = Pop
  /\ UNCHANGED <<subscribers, sets, eventLog, exp, now, subState, heard>>

\* A callback returns or throws: both end alike, the error is logged.
CallbackEnds ==
  /\ stack # <<>> /\ Last(stack).running
  /\ stack' = SetTop([Last(stack) EXCEPT !.running = FALSE])
  /\ UNCHANGED <<subscribers, sets, eventLog, exp, now, pubState, subState,
                 heard>>

SubscribeRefused(s) ==
  /\ AppRuns /\ subState[s].at = "new"
  /\ \E r \in SubscribeRequests[s] :
       /\ ~SubscribeAllowed(r)
       /\ subState' = [subState EXCEPT ![s] = [at |-> "refused"]]
  /\ UNCHANGED <<subscribers, sets, eventLog, exp, now, stack, pubState,
                 heard>>

Replayed(key, seconds) ==
  LET Recent(e) == e.key = key /\ e.time >= now - seconds
  IN  IF seconds = 0 THEN <<>> ELSE SelectSeq(eventLog, Recent)

\* addSubscriber: join the Set of the key, then hear what is to be replayed.
Subscribe(s) ==
  /\ AppRuns /\ subState[s].at = "new"
  /\ \E r \in SubscribeRequests[s] :
       LET key == SubscribeKey(r)
           set == SetAt(key)
           idx == IF set = NotASet THEN Len(sets) + 1 ELSE set
       IN
       /\ SubscribeAllowed(r)
       /\ subscribers' = [k \in DOMAIN subscribers \cup {key} |->
                            IF k = key THEN idx ELSE subscribers[k]]
       /\ sets' = IF set = NotASet
                  THEN Append(sets, <<[cb |-> r.callback, live |-> TRUE]>>)
                  ELSE [sets EXCEPT ![set] = AddTo(@, r.callback)]
       /\ subState' = [subState EXCEPT ![s] = [at |-> "live", req |-> r, set |-> idx]]
       /\ stack' = IF Replayed(key, r.replay) = <<>> THEN stack
                   ELSE Push([call |-> "replay", pub |-> "none", set |-> idx, next |-> 1,
                              rest |-> Replayed(key, r.replay), cb |-> r.callback,
                              running |-> FALSE])
  /\ UNCHANGED <<eventLog, exp, now, pubState, heard>>

\* The loop of addSubscriber over the events it selected before the first call.
Replay ==
  /\ stack # <<>> /\ Last(stack).call = "replay" /\ ~Last(stack).running
  /\ LET f == Last(stack) IN
       stack' = IF f.next > Len(f.rest) THEN Pop
                ELSE SetTop([f EXCEPT !.next = @ + 1, !.running = TRUE,
                                      !.pub = f.rest[f.next].pub])
  /\ UNCHANGED <<subscribers, sets, eventLog, exp, now, pubState, subState,
                 heard>>

\* Subscription.unsubscribe(): from the Set it joined, be it in the Map or not.
Unsubscribe(s) ==
  /\ AppRuns /\ subState[s].at = "live"
  /\ sets' = [sets EXCEPT ![subState[s].set] = DeleteFrom(@, subState[s].req.callback)]
  /\ subState' = [subState EXCEPT ![s].at = "ended"]
  /\ UNCHANGED <<subscribers, eventLog, exp, now, stack, pubState, heard>>

\* Bound: not from inside a callback, where it would make no difference.
SignRealtimeToken(t) ==
  /\ stack = <<>> /\ exp[t] = 0 /\ TokenBody[t].permissions # {}
  /\ exp' = [exp EXCEPT ![t] = now + TokenLife]
  /\ UNCHANGED <<subscribers, sets, eventLog, now, stack, pubState, subState,
                 heard>>

Tick ==
  /\ stack = <<>> /\ now < MaxTime
  /\ now' = now + 1
  /\ UNCHANGED <<subscribers, sets, eventLog, exp, stack, pubState, subState,
                 heard>>

\* reset() empties the Map and the log; a loop in progress keeps its Set.
ResetRealtime ==
  /\ subscribers' = <<>>
  /\ eventLog' = <<>>
  /\ UNCHANGED <<sets, exp, now, stack, pubState, subState, heard>>

Call ==
  \/ \E p \in Publications : PublishRefused(p) \/ Publish(p)
  \/ \E s \in Subscriptions : SubscribeRefused(s) \/ Subscribe(s) \/ Unsubscribe(s)
  \/ \E t \in Tokens : SignRealtimeToken(t)
  \/ Tick

Progress == Deliver \/ PublishReturns \/ CallbackEnds \/ Replay

RealtimeInit ==
  /\ subscribers = <<>> /\ sets = <<>> /\ eventLog = <<>>
  /\ exp = [t \in Tokens |-> 0] /\ now = 0 /\ stack = <<>>
  /\ pubState = [p \in Publications |-> [at |-> "new"]]
  /\ subState = [s \in Subscriptions |-> [at |-> "new"]]
  /\ heard = [c \in Callbacks |-> [p \in Publications |-> 0]]

RealtimeNext == Call \/ Progress

RealtimeSpec == RealtimeInit /\ [][RealtimeNext \/ (AppRuns /\ ResetRealtime)]_rtVars

-----------------------------------------------------------------------------
(* Properties *)

Published == {p \in Publications : pubState[p].at \in {"delivering", "returned"}}

\* What the documentation says of two calls that meet, said without keys: the
\* channel and the claims are the same, and either both are on the global plane,
\* or both override the context alike at the same ids, or both come from one
\* module at one place.
OnGlobalPlane(r) ==
  \/ r.api \in {"publishGlobal", "publishGlobalFromBridge", "subscribeGlobal"}
  \/ r.overrides.kind = "array" /\ r.overrides.names = {}

Overrides(r) == ~OnGlobalPlane(r) /\ r.overrides.kind = "array"

IdAt(r, n) == IF n \in DOMAIN r.place THEN r.place[n] ELSE ""

Meet(p, s) ==
  /\ p.channel = s.channel
  /\ ClaimsOf(p.token) = ClaimsOf(s.token)
  /\ \/ OnGlobalPlane(p) /\ OnGlobalPlane(s)
     \/ /\ Overrides(p) /\ Overrides(s)
        /\ p.overrides.names = s.overrides.names
        /\ \A n \in p.overrides.names : IdAt(p, n) = IdAt(s, n)
     \/ /\ ~OnGlobalPlane(p) /\ ~OnGlobalPlane(s) /\ ~Overrides(p) /\ ~Overrides(s)
        /\ p.module = s.module /\ p.module # NoModule /\ p.place = s.place

\* A callback is called for a publication only while a subscription of its own that
\* the documentation pairs with that publication is live, whatever was subscribed,
\* unsubscribed or reset by the callbacks called before it.
HeardOnlyWhileSubscribed ==
  [][\A c \in Callbacks, p \in Publications :
       heard'[c][p] # heard[c][p] =>
         \E s \in Subscriptions : /\ subState[s].at = "live"
                                  /\ subState[s].req.callback = c
                                  /\ Meet(pubState[p].req, subState[s].req)]_rtVars

\* A publication calls a callback once, however often it is subscribed: only one that
\* left and joined again meanwhile is called again, once for each time.
HeardOncePerMembership ==
  \A p \in Published, c \in Callbacks :
    heard[c][p] <= 1 + Cardinality({s \in Subscriptions :
                                      /\ subState[s].at = "ended"
                                      /\ subState[s].set = pubState[p].set
                                      /\ subState[s].req.callback = c})

\* Both together: who hears a publication, and how often.
HeardAsSubscribed == []HeardOncePerMembership /\ HeardOnlyWhileSubscribed

\* Unsubscribing one of two subscriptions that share callback and channel ends both.
Silenced(s) ==
  \E t \in Subscriptions : /\ subState[t].at = "ended"
                           /\ subState[t].set = subState[s].set
                           /\ subState[t].req.callback = subState[s].req.callback

\* When publish returns, every subscriber its channel then has was called: those
\* that joined while it delivered too, and those whose neighbours left meanwhile.
NothingMissed ==
  [][\A p \in Publications, s \in Subscriptions :
       /\ pubState[p].at = "delivering" /\ pubState'[p].at = "returned"
       /\ subState[s].at = "live" /\ ~Silenced(s)
       /\ subState[s].set = pubState[p].set
       => heard[subState[s].req.callback][p] >= 1]_rtVars

\* Both: a publication reaches whom it should, no one else, and no one too often.
DeliveryIsExact == HeardAsSubscribed /\ NothingMissed
=============================================================================
