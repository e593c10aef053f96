------------------------------- MODULE Frames -------------------------------
(***************************************************************************)
(* The windows of a module in the browser: its page, the hidden frames of  *)
(* background scripts, and the frames of modals                            *)
(* (renderer/src/bridge/forge-bridge-shim.ts; the bridge script, the event *)
(* relay and the broker of a page in src/dev-command.ts).  Each window has *)
(* its messages delivered in the order in which they were posted.          *)
(*                                                                         *)
(* A payload is the frame that sent it.  Left out: events of a modal's     *)
(* frame, pages embedded in another page, the public events, which differ  *)
(* by a prefix.  Bounds: each event is emitted once, each modal opened     *)
(* once, and its frame sends one message.                                  *)
(***************************************************************************)
EXTENDS SequencesExt, Naturals

CONSTANTS Backgrounds,   \* the frames of background scripts
          Events,
          Modals,
          OpensNext      \* modal -> the modal its onClose opens, or NoModal

NoModal == "no modal"
Undefined == "undefined"   \* what a modal answers that was not submitted
Main == "main"
Windows == {Main} \cup Backgrounds

\* The page is no background script's frame, closing a modal is no event of the app, and the
\* words for what becomes of a modal are no modals.
ASSUME FramesAssumption ==
  /\ OpensNext \in [Modals -> Modals \cup {NoModal}]
  /\ Main \notin Backgrounds /\ "nobody" \notin Windows
  /\ "close" \notin Events
  /\ Modals \cap {NoModal, "new", "open", Undefined} = {}

VARIABLES ears,       \* the windows whose code has subscribed
          heard,      \* window -> event -> how often its code was told
          emitter,    \* event -> the window that emitted it, or "nobody"
          audience,   \* history: event -> who has been subscribed since it was emitted
          post,       \* window -> messages posted to it: [what, from]
          page,       \* the page's modals: [active, overlays, outcome]
          sentBy,     \* the modals whose frame has sent its message
          stranded,   \* history: modals that an onClose opened while another was opening
          crossed     \* history: modals closed by what the frame of another sent

frVars == <<ears, heard, emitter, audience, post, page, sentBy, stranded, crossed>>
eventVars == <<ears, heard, emitter, audience>>
modalVars == <<page, sentBy, stranded, crossed>>

Message(what, from) == [what |-> what, from |-> from]
Posted(box, w, m) == [box EXCEPT ![w] = Append(@, m)]

-----------------------------------------------------------------------------
(* Events *)

Subscribe(w) ==
  /\ w \notin ears
  /\ ears' = ears \cup {w}
  /\ UNCHANGED <<heard, emitter, audience, post, modalVars>>

Unsubscribe(w) ==
  /\ w \in ears
  /\ ears' = ears \ {w}
  /\ audience' = [e \in Events |-> audience[e] \ {w}]
  /\ UNCHANGED <<heard, emitter, post, modalVars>>

Told(w, e) == IF w \in ears THEN [heard EXCEPT ![w][e] = @ + 1] ELSE heard

\* The parent of every window is the page; the page is its own.
Emit(w, e) ==
  /\ emitter[e] = "nobody"
  /\ emitter' = [emitter EXCEPT ![e] = w]
  /\ audience' = [audience EXCEPT ![e] = ears]
  /\ heard' = Told(w, e)
  /\ post' = Posted(post, Main, Message(e, w))
  /\ UNCHANGED <<ears, modalVars>>

\* Mutant: the relay of the page listens to what the broker posted to it as well.
FromAnyone(w, m) == TRUE

FromElsewhere(w, m) == m.from # w

\* Mutant: the broker leaves out its own window's events.
OnlyOfFrames(m) == IF m.from = Main THEN {} ELSE Backgrounds \ {m.from}

ForwardTo(m) == Backgrounds \ {m.from}

\* The broker: to every background frame but the sender, and to the page itself when the
\* event came from a frame.
Brokered(box, m) ==
  LET forwarded == [w \in Windows |->
                      IF w \in ForwardTo(m) THEN Append(box[w], Message(m.what, Main))
                                            ELSE box[w]]
  IN  IF m.from = Main THEN forwarded ELSE Posted(forwarded, Main, Message(m.what, Main))

DeliverEvent(w) ==
  /\ post[w] # <<>> /\ Head(post[w]).what \in Events
  /\ LET m == Head(post[w])
         rest == [post EXCEPT ![w] = Tail(@)]
     IN  /\ heard' = IF FromElsewhere(w, m) THEN Told(w, m.what) ELSE heard
         /\ post' = IF w = Main THEN Brokered(rest, m) ELSE rest
  /\ UNCHANGED <<ears, emitter, audience, modalVars>>

-----------------------------------------------------------------------------
(* Modals: closeActiveModal() and openModalOverlay() on the page p *)

Shown(p, m) ==
  [p EXCEPT !.active = m, !.overlays = Append(@, m), !.outcome[m] = "open"]

\* onClose may open a modal, when none is open.
CallOnClose(p, m) ==
  LET next == OpensNext[m]
  IN  IF next # NoModal /\ p.outcome[next] = "new" THEN Shown(p, next) ELSE p

Withdrawn(p) == [p EXCEPT !.active = NoModal, !.overlays = RemoveFirst(@, p.active)]

\* Mutant: the page forgets its modal once onClose has returned.
ForgottenLast(p, m) == [CallOnClose(Withdrawn(p), m) EXCEPT !.active = NoModal]

ForgottenFirst(p, m) == CallOnClose(Withdrawn(p), m)

CloseActive(p, payload) ==
  IF p.active = NoModal THEN p
  ELSE [ForgottenFirst(p, p.active) EXCEPT !.outcome[p.active] = payload]

\* Mutant: a modal opens over the one that is open.
LeftOpen(p) == p

ClosedFirst(p) == CloseActive(p, Undefined)

OpenModal(m) ==
  /\ page.outcome[m] = "new"
  /\ LET p == ClosedFirst(page) IN
       /\ p.outcome[m] = "new"
       /\ page' = Shown(p, m)
       /\ stranded' = stranded \cup
            {n \in Modals : page.active # NoModal /\ n = OpensNext[page.active] /\ n = p.active}
  /\ UNCHANGED <<eventVars, post, sentBy, crossed>>

\* The frame of a modal submits or closes: it tells the page, which does not look at who
\* tells it.
ModalSends(m) ==
  /\ m \in ToSet(page.overlays) /\ m \notin sentBy
  /\ sentBy' = sentBy \cup {m}
  /\ post' = Posted(post, Main, Message("close", m))
  /\ UNCHANGED <<eventVars, page, stranded, crossed>>

\* Every overlay has a listener of its own; each closes the modal that is active.
AllListenersClose(payload) ==
  LET shown == page.overlays
      after[i \in 0..Len(shown)] ==
        IF i = 0 THEN page
        ELSE IF shown[i] \in ToSet(after[i - 1].overlays) THEN CloseActive(after[i - 1], payload)
        ELSE after[i - 1]
  IN  after[Len(shown)]

DeliverClose ==
  /\ post[Main] # <<>> /\ Head(post[Main]).what = "close"
  /\ LET from == Head(post[Main]).from
         p == AllListenersClose(from)
     IN  /\ page' = p
         /\ crossed' = IF page.active = from /\ stranded = {} THEN crossed
                       ELSE crossed \cup {m \in Modals : p.outcome[m] = from}
  /\ post' = [post EXCEPT ![Main] = Tail(@)]
  /\ UNCHANGED <<eventVars, sentBy, stranded>>

PressEscape ==
  /\ page.overlays # <<>>
  /\ page' = AllListenersClose(Undefined)
  /\ UNCHANGED <<eventVars, post, sentBy, stranded, crossed>>

ClickOverlay ==
  /\ page.overlays # <<>>
  /\ page' = CloseActive(page, Undefined)
  /\ UNCHANGED <<eventVars, post, sentBy, stranded, crossed>>

-----------------------------------------------------------------------------
FramesInit ==
  /\ ears = {} /\ heard = [w \in Windows |-> [e \in Events |-> 0]]
  /\ emitter = [e \in Events |-> "nobody"] /\ audience = [e \in Events |-> {}]
  /\ post = [w \in Windows |-> <<>>]
  /\ page = [active |-> NoModal, overlays |-> <<>>, outcome |-> [m \in Modals |-> "new"]]
  /\ sentBy = {} /\ stranded = {} /\ crossed = {}

EventsNext ==
  \E w \in Windows : \/ Subscribe(w) \/ Unsubscribe(w) \/ DeliverEvent(w)
                     \/ \E e \in Events : Emit(w, e)

ModalsNext ==
  \/ \E m \in Modals : OpenModal(m) \/ ModalSends(m)
  \/ DeliverClose \/ PressEscape \/ ClickOverlay

FramesSpec == FramesInit /\ [][EventsNext \/ ModalsNext]_frVars

-----------------------------------------------------------------------------
Quiet == \A w \in Windows : post[w] = <<>>

\* Once no message is on its way, an event has reached every window that was subscribed
\* since it was emitted.  The page is told once of each, and everyone is told once of an
\* event of the page (the events of the shim, the relay and the broker).
EventsReachAll ==
  Quiet => \A e \in Events :
             /\ \A w \in audience[e] : heard[w][e] > 0
             /\ heard[Main][e] < 2
             /\ emitter[e] = Main => \A w \in Windows : heard[w][e] < 2

\* The page shows one modal at a time, an answer that is due has its overlay on the page,
\* and what a modal answers comes from its own frame or is nothing.  Two things upset this
\* in the code: an onClose that opens a modal while another is opening, and a message of a
\* frame that was closed before it arrived (closeActiveModal() and openModalOverlay()).
ModalsAnswer ==
  /\ ToSet(page.overlays) \subseteq {page.active} \cup stranded
  /\ \A m \in Modals :
       /\ page.outcome[m] = "open" => m \in ToSet(page.overlays)
       /\ page.outcome[m] \in Modals => m \in crossed \cup {page.outcome[m]}

FramesAgree == EventsReachAll /\ ModalsAnswer
=============================================================================
