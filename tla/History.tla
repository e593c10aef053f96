------------------------------ MODULE History -------------------------------
(***************************************************************************)
(* The four histories a router may run on: in memory                       *)
(* (src/shims/forge-bridge.ts, and the same in the renderer's shim), that  *)
(* of a headless render (src/ui/bridge.ts), the one on window.history (the *)
(* bridge script of src/dev-command.ts), and that of a headless render     *)
(* whose commands the dev server passes to a page it is connected to       *)
(* ("proxied": src/dev-server.ts).  Listeners are told one after the       *)
(* other, and each may navigate, listen or stop to listen meanwhile.       *)
(*                                                                         *)
(* A location is the number of the navigation that made it.  Left out:     *)
(* what a path is parsed into, actions, and which of several pages         *)
(* is asked.  Bounds: MaxNavs navigations.                                 *)
(***************************************************************************)
EXTENDS SequencesExt, Integers

CONSTANTS Listeners,
          MaxNavs

Home == 0
Live == <<>>

VARIABLES kind,        \* "memory", "headless", "window" or "proxied"
          entries,     \* the stack of locations, in the page when it is proxied
          index,
          known,       \* history.location
          listeners,   \* in the order of registration
          telling,     \* notifications under way, the innermost last: [loc, next, stop, copy,
                       \*    pop, broken]; the code of listener next - 1 runs; copy is Live
                       \*    or the list as it was before a listener left
          blocked,     \* block() is in force
          navs,        \* how many navigations were made
          pops,        \* traversals window.history has been asked for
          told,        \* history: listener -> the location it knows
          excused,     \* history: listeners told by a broken notification, or passed over
          commands,    \* on the way to the page: [id, do, delta]
          reports,     \* on the way to the dev server: [ack, loc, of]
          arriving,    \* locations that await the import of the bridge
          acks,       \* command -> "none", "pending", "resolved" or "timed out"
          moved,       \* history: go() commands whose popstate the server heard of
          connected,   \* a page is connected to the dev server
          missed       \* history: a navigation never reached `known`

hiVars == <<kind, entries, index, known, listeners, telling, blocked, navs, pops, told, excused,
            commands, reports, arriving, acks, moved, connected, missed>>
stackVars == <<entries, index>>
tellVars == <<known, telling, told, excused>>
proxyVars == <<commands, reports, arriving, acks, moved, connected, missed>>

Here == entries[index]
Innermost == telling[Len(telling)]
CommandIds == 1..MaxNavs

-----------------------------------------------------------------------------
(* Telling the listeners *)

ListOf(f) == IF f.copy = Live THEN listeners ELSE f.copy

\* forEach() ends where the list ended at its start, for-of where it ends.
HasNext(f) ==
  /\ f.next <= Len(ListOf(f))
  /\ kind = "window" => f.next <= f.stop

\* The listener l is told, by a notification f.  That of a popstate reads the location anew.
Tell(l, f) ==
  LET live == f.pop /\ kind = "window" IN
  /\ told' = [told EXCEPT ![l] = IF live THEN known' ELSE f.loc]
  /\ excused' = IF f.broken /\ ~live THEN excused \cup {l} ELSE excused \ {l}

\* What the notifications under way tell is no longer where the history is.
Broken == [i \in DOMAIN telling |-> [telling[i] EXCEPT !.broken = TRUE]]

Notify(loc, pop) ==
  LET f == [loc |-> loc, next |-> 2, stop |-> Len(listeners), copy |-> Live, pop |-> pop,
            broken |-> FALSE]
  IN  /\ known' = loc
      /\ IF listeners = <<>>
         THEN telling' = Broken /\ UNCHANGED <<told, excused>>
         ELSE telling' = Append(Broken, f) /\ Tell(Head(listeners), f)

\* The listener that runs returns.
Returns ==
  /\ telling # <<>>
  /\ known' = known
  /\ IF HasNext(Innermost)
     THEN /\ telling' = [telling EXCEPT ![Len(telling)].next = @ + 1]
          /\ Tell(ListOf(Innermost)[Innermost.next], Innermost)
     ELSE telling' = Front(telling) /\ UNCHANGED <<told, excused>>
  /\ UNCHANGED <<kind, stackVars, listeners, blocked, navs, pops, proxyVars>>

Listen(l) ==
  /\ l \notin ToSet(listeners)
  /\ listeners' = Append(listeners, l)
  /\ told' = [told EXCEPT ![l] = known]
  /\ excused' = excused \ {l}
  /\ UNCHANGED <<kind, stackVars, known, telling, blocked, navs, pops, proxyVars>>

\* Mutant: each history removes a listener from the list it is telling.
NeverCopies == FALSE

\* listeners.filter() leaves the list that is being told alone; splice() does not.
CopiesOnUnlisten == kind \in {"memory", "window"}

SeatOf(l) == CHOOSE i \in DOMAIN listeners : listeners[i] = l

\* Those passed over when the listener at i leaves the list that is being told.
PassedOver(i) ==
  {listeners[telling[n].next] : n \in {m \in DOMAIN telling :
     telling[m].next > i /\ telling[m].next <= Len(listeners)}}

Unlisten(l) ==
  /\ l \in ToSet(listeners)
  /\ listeners' = RemoveAt(listeners, SeatOf(l))
  /\ telling' = IF CopiesOnUnlisten
                THEN [n \in DOMAIN telling |->
                        [telling[n] EXCEPT !.copy = IF @ = Live THEN listeners ELSE @]]
                ELSE telling
  /\ excused' = IF kind \in {"memory", "window"} THEN excused
                ELSE excused \cup PassedOver(SeatOf(l))
  /\ UNCHANGED <<kind, stackVars, known, blocked, navs, pops, told, proxyVars>>

-----------------------------------------------------------------------------
(* Navigating *)

\* One blocker is told, and may retry; nothing else happens.
Block ==
  /\ kind \in {"memory", "window"}
  /\ blocked' = ~blocked
  /\ UNCHANGED <<kind, stackVars, tellVars, listeners, navs, pops, proxyVars>>

PushEntry(loc) ==
  /\ entries' = Append(SubSeq(entries, 1, index), loc)
  /\ index' = index + 1

ReplaceEntry(loc) ==
  /\ entries' = [entries EXCEPT ![index] = loc]
  /\ UNCHANGED index

Clamped(i) == IF i < 1 THEN 1 ELSE IF i > Len(entries) THEN Len(entries) ELSE i

Navigates == navs < MaxNavs /\ navs' = navs + 1

Push ==
  /\ kind # "proxied" /\ ~blocked /\ Navigates
  /\ PushEntry(navs') /\ Notify(navs', FALSE)
  /\ UNCHANGED <<kind, listeners, blocked, pops, proxyVars>>

Replace ==
  /\ kind # "proxied" /\ ~blocked /\ Navigates
  /\ ReplaceEntry(navs') /\ Notify(navs', FALSE)
  /\ UNCHANGED <<kind, listeners, blocked, pops, proxyVars>>

\* go() is not blocked.  It does nothing at an end of the stack.
Go(delta) ==
  /\ kind \in {"memory", "headless"} /\ Navigates
  /\ Clamped(index + delta) # index
  /\ index' = Clamped(index + delta)
  /\ Notify(entries[index'], TRUE)
  /\ UNCHANGED <<kind, entries, listeners, blocked, pops, proxyVars>>

\* window.history moves later, and a popstate tells.
GoLater(delta) ==
  /\ kind = "window" /\ Navigates
  /\ pops' = Append(pops, delta)
  /\ UNCHANGED <<kind, stackVars, tellVars, listeners, blocked, proxyVars>>

PopState ==
  /\ pops # <<>> /\ telling = <<>>
  /\ pops' = Tail(pops)
  /\ LET to == index + Head(pops) IN
     IF to \in DOMAIN entries
     THEN index' = to /\ Notify(entries[to], TRUE)
     ELSE UNCHANGED <<index, tellVars>>
  /\ UNCHANGED <<kind, entries, listeners, blocked, navs, proxyVars>>

\* resetBridge()
ResetHistory ==
  /\ kind \in {"headless", "proxied"}
  /\ listeners # <<>>
  /\ listeners' = <<>> /\ known' = Home /\ telling' = Broken
  /\ IF kind = "headless"
     THEN entries' = <<Home>> /\ index' = 1 /\ UNCHANGED missed
     ELSE missed' = TRUE /\ UNCHANGED stackVars
  /\ UNCHANGED <<kind, blocked, navs, pops, told, excused, commands, reports, arriving, acks,
                 moved, connected>>

-----------------------------------------------------------------------------
(* A headless render proxied to a page *)

ForProxy == <<kind, listeners, blocked, pops>>

\* Without a page the command is dropped, and its caller goes on.
Command(do, delta) ==
  /\ kind = "proxied" /\ Navigates
  /\ IF connected
     THEN /\ commands' = Append(commands, [id |-> navs', do |-> do, delta |-> delta])
          /\ acks' = [acks EXCEPT ![navs'] = "pending"]
     ELSE acks' = [acks EXCEPT ![navs'] = "resolved"] /\ UNCHANGED commands
  /\ UNCHANGED <<ForProxy, stackVars, tellVars, reports, arriving, moved, connected, missed>>

Report(ack, loc, id) == reports' = Append(reports, [ack |-> ack, loc |-> loc, of |-> id])

\* The page acknowledges what it does at once.  Of a traversal its popstate tells, which
\* names no command, and only if the page moved.
PageObeys ==
  /\ commands # <<>>
  /\ commands' = Tail(commands)
  /\ LET c == Head(commands) IN
     CASE c.do = "push" -> PushEntry(c.id) /\ Report(TRUE, c.id, c.id)
       [] c.do = "replace" -> ReplaceEntry(c.id) /\ Report(TRUE, c.id, c.id)
       [] c.do = "go" ->
            IF index + c.delta \in DOMAIN entries
            THEN /\ index' = index + c.delta
                 /\ Report(FALSE, entries[index'], c.id)
                 /\ UNCHANGED entries
            ELSE UNCHANGED <<stackVars, reports>>
  /\ UNCHANGED <<ForProxy, tellVars, navs, arriving, acks, moved, connected, missed>>

\* Mutant: an acknowledgement settles its call only.
OnlyEvents(r) == ~r.ack

\* An acknowledgement counts while its call is pending; an event counts always.
Heeded(r) == r.ack => acks[r.of] = "pending"

ServerHears ==
  /\ reports # <<>>
  /\ reports' = Tail(reports)
  /\ LET r == Head(reports)
         inTime == acks[r.of] = "pending"
     IN  /\ arriving' = IF Heeded(r) THEN Append(arriving, r.loc) ELSE arriving
         /\ acks' = IF r.ack /\ inTime THEN [acks EXCEPT ![r.of] = "resolved"] ELSE acks
         /\ moved' = IF inTime /\ ~r.ack THEN moved \cup {r.of} ELSE moved
         /\ missed' = (missed \/ (r.ack /\ ~inTime))
  /\ UNCHANGED <<ForProxy, stackVars, tellVars, navs, commands, connected>>

\* notifyHistoryFromBrowser() tells once the bridge is imported: after its caller went on.
LocationArrives ==
  /\ arriving # <<>> /\ telling = <<>>
  /\ arriving' = Tail(arriving)
  /\ Notify(Head(arriving), FALSE)
  /\ UNCHANGED <<ForProxy, stackVars, navs, commands, reports, acks, moved, connected, missed>>

\* After five seconds.
CommandTimesOut(id) ==
  /\ acks[id] = "pending"
  /\ acks' = [acks EXCEPT ![id] = "timed out"]
  /\ UNCHANGED <<ForProxy, stackVars, tellVars, navs, commands, reports, arriving, moved,
                 connected, missed>>

PageLeaves ==
  /\ kind = "proxied" /\ connected
  /\ connected' = FALSE
  /\ commands' = <<>> /\ reports' = <<>>
  /\ missed' = (missed \/ reports # <<>>)
  /\ UNCHANGED <<ForProxy, stackVars, tellVars, navs, arriving, acks, moved>>

-----------------------------------------------------------------------------
HistoryInit ==
  /\ kind \in {"memory", "headless", "window", "proxied"}
  /\ entries = <<Home>> /\ index = 1 /\ known = Home
  /\ listeners = <<>> /\ telling = <<>> /\ blocked = FALSE /\ navs = 0 /\ pops = <<>>
  /\ told = [l \in Listeners |-> Home] /\ excused = {}
  /\ commands = <<>> /\ reports = <<>> /\ arriving = <<>>
  /\ acks = [id \in CommandIds |-> "none"] /\ moved = {}
  /\ connected = (kind = "proxied") /\ missed = FALSE

HistoryNext ==
  \/ \E l \in Listeners : Listen(l) \/ Unlisten(l)
  \/ \E delta \in {-1, 1} : Go(delta) \/ GoLater(delta) \/ Command("go", delta)
  \/ Command("push", 0) \/ Command("replace", 0)
  \/ Returns \/ Block \/ Push \/ Replace \/ PopState \/ ResetHistory
  \/ PageObeys \/ ServerHears \/ LocationArrives \/ PageLeaves
  \/ \E id \in CommandIds : CommandTimesOut(id)

HistorySpec == HistoryInit /\ [][HistoryNext]_hiVars

-----------------------------------------------------------------------------
NothingUnderway ==
  telling = <<>> /\ pops = <<>> /\ commands = <<>> /\ reports = <<>> /\ arriving = <<>>

\* Once nothing is being told or is on its way, the history says where it is, and every
\* listener was told that location last.  The code has three exceptions: a listener that
\* navigates has those after it told of the older location last; one that stops to listen
\* in a headless history has the next one passed over; and an acknowledgement that comes
\* after its timeout is dropped.
ListenersKnowWhere ==
  NothingUnderway => /\ missed \/ known = Here
             /\ \A l \in ToSet(listeners) \ excused : missed \/ told[l] = known

\* A go() whose popstate reached the dev server is acknowledged: "ack will come from the
\* popstate handler" (handleHistoryCommand() of dev-command.ts).
GoIsAcked == \A id \in moved : acks[id] = "resolved"
=============================================================================
