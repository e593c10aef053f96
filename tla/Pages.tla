------------------------------- MODULE Pages -------------------------------
(***************************************************************************)
(* The page of a macro in the browser of `forge-sim dev`: its view and its *)
(* config run in frames of their own, each with the bridge shim            *)
(* (renderer/src/bridge/forge-bridge-shim.ts) and its socket to the dev    *)
(* server (src/dev-server.ts), which keeps the macro's configuration.  The *)
(* page around them (renderer/src/ForgeSimModulePage.tsx) has a third      *)
(* socket, and reloads the view when a configuration was saved.            *)
(*                                                                         *)
(* Bounds: Saves are all the submits of the config frame; MaxLost         *)
(* connections are lost or fail.                                           *)
(***************************************************************************)
EXTENDS SequencesExt

CONSTANTS Saves,        \* requests to save, each the configuration it saves
          MaxLost

NoConfig == "no config"

Frames == {"view", "config"}
Contexts == {"view context", "config context"}
Requests == Contexts \cup Saves
FrameOf(r) == IF r = "view context" THEN "view" ELSE "config"

VARIABLES socket,       \* frame -> "none", "connecting", "open", "closed"
          reconnect,    \* frame -> the timer after a close is set
          request,      \* request -> what its caller sees
          waiting,      \* frame -> requests that wait for its socket to open, in order
          line,         \* frame -> requests on the way to the server
          answers,      \* answers on the way back: [to, config]
          stored,       \* the macro's configuration: macroConfigs of the dev server
          identified,   \* the frames whose module the server knows: clientModuleKeys
          parent,       \* the page's own socket: "connecting", "open" or "closed"
          updates,      \* macroConfigUpdate messages on the way to the page
          deaf,         \* history: a configuration was saved while `parent` was not open
          shown,        \* the configuration the view shows, or a sentinel
          lost          \* how many connections were lost or failed

pgVars == <<socket, reconnect, request, waiting, line, answers, stored, identified,
            parent, updates, deaf, shown, lost>>

NothingYet == "nothing yet"

-----------------------------------------------------------------------------
(* A call of the bridge: rpc() and ensureConnection() *)

Send(f, rs) ==
  /\ request' = [r \in Requests |-> IF r \in ToSet(rs) THEN "pending" ELSE request[r]]
  /\ line' = [line EXCEPT ![f] = @ \o rs]

Wait(r, how) ==
  /\ request' = [request EXCEPT ![r] = how]
  /\ waiting' = [waiting EXCEPT ![FrameOf(r)] = Append(@, r)]
  /\ UNCHANGED line

\* A call on an open socket is sent.  One that finds a socket in the making waits for it
\* to open; any other makes one.
CallBridge(r) ==
  LET f == FrameOf(r) IN
  /\ request[r] = "new"
  /\ CASE socket[f] = "open" -> Send(f, <<r>>) /\ UNCHANGED <<socket, waiting>>
       [] socket[f] = "connecting" -> Wait(r, "attached") /\ UNCHANGED socket
       [] OTHER -> Wait(r, "opening") /\ socket' = [socket EXCEPT ![f] = "connecting"]
  /\ UNCHANGED <<reconnect, answers, stored, identified, parent, updates, deaf, shown, lost>>

SocketOpens(f) ==
  /\ socket[f] = "connecting"
  /\ socket' = [socket EXCEPT ![f] = "open"]
  /\ Send(f, waiting[f])
  /\ waiting' = [waiting EXCEPT ![f] = <<>>]
  /\ UNCHANGED <<reconnect, answers, stored, identified, parent, updates, deaf, shown, lost>>

Losing == lost < MaxLost /\ lost' = lost + 1

\* onerror and onclose of a socket that never opened: the call that made it is told, those
\* that wait for it to open are not.
ConnectFails(f) ==
  /\ socket[f] = "connecting" /\ Losing
  /\ socket' = [socket EXCEPT ![f] = "closed"]
  /\ reconnect' = [reconnect EXCEPT ![f] = TRUE]
  /\ request' = [r \in Requests |->
                   CASE r \notin ToSet(waiting[f]) -> request[r]
                     [] r \in ToSet(waiting[f]) /\ request[r] = "opening" -> "failed"
                     [] OTHER -> "stranded"]
  /\ waiting' = [waiting EXCEPT ![f] = <<>>]
  /\ UNCHANGED <<line, answers, stored, identified, parent, updates, deaf, shown>>

\* Mutant: the calls a connection carried are left to their timeout.
LeavePending(f) == UNCHANGED request

RejectPending(f) ==
  request' = [r \in Requests |-> IF FrameOf(r) = f /\ request[r] = "pending"
                                 THEN "failed" ELSE request[r]]

\* onclose: the server has got some of what was sent, and answers nobody.
SocketDrops(f) ==
  /\ socket[f] = "open" /\ Losing
  /\ socket' = [socket EXCEPT ![f] = "closed"]
  /\ reconnect' = [reconnect EXCEPT ![f] = TRUE]
  /\ RejectPending(f)
  /\ \E got \in 0..Len(line[f]) : line' = [line EXCEPT ![f] = SubSeq(@, 1, got)]
  /\ answers' = {a \in answers : FrameOf(a.to) # f}
  /\ identified' = identified \ {f}
  /\ UNCHANGED <<waiting, stored, parent, updates, deaf, shown>>

\* Two seconds later: a call may have made a socket in the meantime.
ReconnectFires(f) ==
  /\ reconnect[f]
  /\ reconnect' = [reconnect EXCEPT ![f] = FALSE]
  /\ socket' = [socket EXCEPT ![f] = IF @ = "closed" THEN "connecting" ELSE @]
  /\ UNCHANGED <<request, waiting, line, answers, stored, identified, parent, updates,
                 deaf, shown, lost>>

\* The timer of fifteen minutes; the answer may still come, and is then ignored.
CallTimesOut(r) ==
  /\ request[r] = "pending"
  /\ request' = [request EXCEPT ![r] = "failed"]
  /\ UNCHANGED <<socket, reconnect, waiting, line, answers, stored, identified, parent,
                 updates, deaf, shown, lost>>

-----------------------------------------------------------------------------
(* The dev server *)

\* Mutant: only those whose module is known are told.
KnownOnly(client) == client \in identified

\* The clients that view this macro, and those that never said what they view.
ScopedTo(client) == client \in identified \/ client = "page"

Answer(r) ==
  answers' = IF request[r] = "pending" /\ socket[FrameOf(r)] = "open"
             THEN answers \cup {[to |-> r, config |-> stored]} ELSE answers

\* getContext: the configuration of the moment is part of the context.
ServeContext(r) ==
  /\ Answer(r)
  /\ UNCHANGED <<stored, updates, deaf>>

\* viewSubmit: stores the configuration and tells who views the macro; the frames' shim
\* ignores that, the page does not.
ServeSave(r) ==
  /\ stored' = r
  /\ updates' = IF parent = "open" /\ ScopedTo("page") THEN updates + 1 ELSE updates
  /\ deaf' = (deaf \/ parent # "open")
  /\ Answer(r)

ServerHandles(f) ==
  /\ line[f] # <<>>
  /\ line' = [line EXCEPT ![f] = Tail(@)]
  /\ identified' = IF socket[f] = "open" THEN identified \cup {f} ELSE identified
  /\ LET r == Head(line[f]) IN IF r \in Contexts THEN ServeContext(r) ELSE ServeSave(r)
  /\ UNCHANGED <<socket, reconnect, request, waiting, parent, shown, lost>>

-----------------------------------------------------------------------------
(* The page *)

PageReceives(a) ==
  /\ a \in answers
  /\ answers' = answers \ {a}
  /\ request' = [request EXCEPT ![a.to] = IF @ = "pending" THEN "done" ELSE @]
  /\ shown' = IF a.to = "view context" /\ request[a.to] = "pending" THEN a.config ELSE shown
  /\ UNCHANGED <<socket, reconnect, waiting, line, stored, identified, parent, updates,
                 deaf, lost>>

AnswerArrives(f) == \E a \in answers : FrameOf(a.to) = f /\ PageReceives(a)

\* The view's frame is loaded again, with a shim of its own.
ReloadView ==
  /\ parent = "open" /\ updates > 0
  /\ updates' = updates - 1
  /\ socket' = [socket EXCEPT !["view"] = "none"]
  /\ reconnect' = [reconnect EXCEPT !["view"] = FALSE]
  /\ request' = [request EXCEPT !["view context"] = "new"]
  /\ waiting' = [waiting EXCEPT !["view"] = <<>>]
  /\ line' = [line EXCEPT !["view"] = <<>>]
  /\ answers' = {a \in answers : FrameOf(a.to) # "view"}
  /\ identified' = identified \ {"view"}
  /\ shown' = NothingYet
  /\ UNCHANGED <<stored, parent, deaf, lost>>

ParentOpens ==
  /\ parent = "connecting"
  /\ parent' = "open"
  /\ UNCHANGED <<socket, reconnect, request, waiting, line, answers, stored, identified,
                 updates, deaf, shown, lost>>

\* The page's own socket fails or closes: nobody opens it again.
ParentLost ==
  /\ parent # "closed" /\ Losing
  /\ parent' = "closed"
  /\ updates' = 0
  /\ deaf' = (deaf \/ updates > 0)
  /\ UNCHANGED <<socket, reconnect, request, waiting, line, answers, stored, identified,
                 shown>>

PagesInit ==
  /\ socket = [f \in Frames |-> "none"]
  /\ reconnect = [f \in Frames |-> FALSE]
  /\ request = [r \in Requests |-> "new"]
  /\ waiting = [f \in Frames |-> <<>>]
  /\ line = [f \in Frames |-> <<>>]
  /\ answers = {} /\ stored = NoConfig /\ identified = {}
  /\ parent = "connecting" /\ updates = 0 /\ deaf = FALSE
  /\ shown = NothingYet /\ lost = 0

PagesNext ==
  \/ \E r \in Requests : CallBridge(r) \/ CallTimesOut(r)
  \/ \E f \in Frames : \/ SocketOpens(f) \/ ConnectFails(f) \/ SocketDrops(f)
                       \/ ReconnectFires(f) \/ ServerHandles(f) \/ AnswerArrives(f)
  \/ ReloadView \/ ParentOpens \/ ParentLost

-----------------------------------------------------------------------------
(* Properties *)

\* Once a view shows a configuration and no update is on its way, that is the one that
\* was saved last, unless a save found the page without a socket: whatever was lost or
\* failed between the frames and the server, and even if the save was reported as failed.
ViewShowsSavedConfig ==
  shown # NothingYet /\ updates = 0 /\ ~deaf => shown = stored

\* A call that was sent is settled, by its answer or by the end of its connection: nobody
\* waits out the fifteen minutes, and there comes a time when no call is pending.
SentSettle ==
  (\E r \in Requests : request[r] = "pending") ~> (\A r \in Requests : request[r] # "pending")
=============================================================================
